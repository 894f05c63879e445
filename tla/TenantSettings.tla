---------------------------- MODULE TenantSettings ----------------------------
(* One tenant's settings, a JSON document in a column, and those who write it: the
   AI policy (services/llm/policy.py) and the sales reset, under the row's lock; the
   onboarding, ordering, planning and notification routes, which read the document
   and later write it whole; and the WhatsApp digest (workers/whatsapp_digest.py),
   which keeps its stamp of the day there, the same way.                       *)
EXTENDS Naturals, FiniteSets

CONSTANTS Writers,   \* requests to the routes that take no lock
          DigestTickers,
          Levels,    \* data_sharing_level
          LastDay    \* bound: days that pass, 1..LastDay

ASSUME SettingsAssumption == LastDay \in Nat \ {0} /\ Levels # {}

VARIABLES settings,  \* the document: ai level, stamp (0: none), the other keys' last writer
          policy,    \* history: the level of the last committed policy change
          holds,   \* writer -> the document it has read
          digest,    \* ticker -> where its tick is, the day it works for, the document read
          today,
          sends,     \* history: day -> ticks that reached a recipient, counted to 2
          slipped    \* history: "overlap": two ticks were under way at once, "death": one died
                     \*   after sending, "stamp": a stamp was taken back

settingsVars == <<settings, policy, holds, digest, today, sends, slipped>>

NoDocument == [ai |-> "none", stamp |-> 0, other |-> "none"]
Idle == [at |-> "idle", day |-> 0, read |-> NoDocument]

SettingsInit ==
  /\ \E l \in Levels : /\ settings = [ai |-> l, stamp |-> 0, other |-> "none"]
                       /\ policy = l
  /\ holds = [w \in Writers |-> NoDocument]
  /\ digest = [t \in DigestTickers |-> Idle]
  /\ today = 1
  /\ sends = [d \in 1..LastDay |-> 0]
  /\ slipped = {}

-----------------------------------------------------------------------------
(* Policy changes and the routes *)

\* configure and update: lock, read, change, record, commit.
ChangePolicy(l) ==
  /\ settings' = [settings EXCEPT !.ai = l]
  /\ policy' = l
  /\ UNCHANGED <<holds, digest, today, sends, slipped>>

RouteReads(w) ==
  /\ holds[w] = NoDocument
  /\ holds' = [holds EXCEPT ![w] = settings]
  /\ UNCHANGED <<settings, policy, digest, today, sends, slipped>>

\* The whole document is written if the writer has changed what it read.
Writes(read, new) ==
  /\ settings' = IF new = read THEN settings ELSE new
  /\ slipped' = IF new # read /\ new.stamp < settings.stamp
                THEN slipped \cup {"stamp"} ELSE slipped

RouteWrites(w) ==
  /\ holds[w] # NoDocument
  /\ Writes(holds[w], [holds[w] EXCEPT !.other = w])
  /\ holds' = [holds EXCEPT ![w] = NoDocument]
  /\ UNCHANGED <<policy, digest, today, sends>>

-----------------------------------------------------------------------------
(* The digest's tick for this tenant *)

\* tick lists the tenants, with their settings, before it works through them.
TickLists(t) ==
  /\ digest[t].at = "idle"
  /\ digest' = [digest EXCEPT ![t] = [at |-> "listed", day |-> 0, read |-> settings]]
  /\ slipped' = IF \E o \in DigestTickers : digest[o].at # "idle"
                THEN slipped \cup {"overlap"} ELSE slipped
  /\ UNCHANGED <<settings, policy, holds, today, sends>>

\* Mutant: the stamp is not looked at.
DueAlways(t) == digest[t].at = "listed"

\* In its hour, and not stamped today in what was listed.
DueToday(t) == digest[t].at = "listed" /\ digest[t].read.stamp # today

SkipTenant(t) ==
  /\ digest[t].at = "listed"
  /\ digest' = [digest EXCEPT ![t] = Idle]
  /\ UNCHANGED <<settings, policy, holds, today, sends, slipped>>

\* The digest is sent to every recipient in turn; without one delivery nothing is kept.
Send(t) ==
  /\ DueToday(t)
  /\ \/ /\ digest' = [digest EXCEPT ![t] = [Idle EXCEPT !.at = "sent", !.day = today]]
        /\ sends' = [sends EXCEPT ![today] = IF @ < 2 THEN @ + 1 ELSE @]
     \/ digest' = [digest EXCEPT ![t] = Idle] /\ UNCHANGED sends
  /\ UNCHANGED <<settings, policy, holds, today, slipped>>

StampReads(t) ==
  /\ digest[t].at = "sent"
  /\ digest' = [digest EXCEPT ![t] = [@ EXCEPT !.at = "stamps", !.read = settings]]
  /\ UNCHANGED <<settings, policy, holds, today, sends, slipped>>

StampWrites(t) ==
  /\ digest[t].at = "stamps"
  /\ Writes(digest[t].read, [digest[t].read EXCEPT !.stamp = digest[t].day])
  /\ digest' = [digest EXCEPT ![t] = Idle]
  /\ UNCHANGED <<policy, holds, today, sends>>

\* The leader dies, or the stamp's transaction fails and the loop goes on.
TickDies(t) ==
  /\ digest[t].at # "idle"
  /\ slipped' = IF digest[t].at = "listed" THEN slipped ELSE slipped \cup {"death"}
  /\ digest' = [digest EXCEPT ![t] = Idle]
  /\ UNCHANGED <<settings, policy, holds, today, sends>>

NextDay ==
  /\ today < LastDay /\ today' = today + 1
  /\ UNCHANGED <<settings, policy, holds, digest, sends, slipped>>

SettingsNext ==
  \/ \E l \in Levels : ChangePolicy(l)
  \/ \E w \in Writers : RouteReads(w) \/ RouteWrites(w)
  \/ \E t \in DigestTickers :
       TickLists(t) \/ SkipTenant(t) \/ Send(t) \/ StampReads(t) \/ StampWrites(t) \/ TickDies(t)
  \/ NextDay

SettingsSpec == SettingsInit /\ [][SettingsNext]_settingsVars

-----------------------------------------------------------------------------
(* Properties *)

\* A workspace gets its digest at most once a day, through any interleaving of its
\* requests with the tick that does not take the stamp back, as long as ticks neither
\* overlap nor die between sending and stamping (tick, _send_for_tenant).
SentOnceADay == slipped = {} => \A d \in 1..LastDay : sends[d] <= 1

\* The document holds the last policy change that was committed, whoever wrote other
\* keys meanwhile ("row locking to avoid lost concurrent updates").
PolicyChangeSurvives == settings.ai = policy
=============================================================================
