---------------------------- MODULE CircuitBreaker ----------------------------
(* What the shared AI breaker promises its callers, without epochs, probes or
   clocks: it is closed or open, it knows the attempts it has admitted since it
   last changed, and a report moves it only when one of those attempts makes it.
   Threshold failures in a row open it; a success closes it and a failure while
   it is open opens it anew; every such change forgets who was admitted, so what
   an older attempt reports later has no effect.                              *)
EXTENDS Naturals

CONSTANTS Attempts, Threshold

VARIABLES mode,     \* "closed" or "open"
          streak,   \* failures reported since the last success
          current   \* the attempts admitted since the last change
vars == <<mode, streak, current>>

Init == mode = "closed" /\ streak = 0 /\ current = {}

Admit(a) ==
  /\ current' = current \cup {a}
  /\ UNCHANGED <<mode, streak>>

\* A report without consequence: from an older attempt, or a neutral one.
Ignore(a) ==
  /\ current' = current \ {a}
  /\ UNCHANGED <<mode, streak>>

Succeed(a) ==
  /\ a \in current
  /\ mode' = "closed" /\ streak' = 0 /\ current' = {}

Fail(a) ==
  /\ a \in current
  /\ mode = "closed" /\ streak + 1 < Threshold
  /\ streak' = streak + 1 /\ current' = current \ {a}
  /\ UNCHANGED mode

Trip(a) ==
  /\ a \in current
  /\ mode = "open" \/ streak + 1 >= Threshold
  /\ mode' = "open" /\ streak' = streak + 1 /\ current' = {}

Next ==
  \E a \in Attempts : Admit(a) \/ Ignore(a) \/ Succeed(a) \/ Fail(a) \/ Trip(a)

Spec == Init /\ [][Next]_vars
=============================================================================
