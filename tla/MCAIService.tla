----------------------------- MODULE MCAIService -----------------------------
(* AIService on small instances: two requests of one workspace, for the same
   input, which share the lease, the cache, the budget and the breaker, or for
   two inputs, which share the budget and the breaker.                        *)
EXTENDS AIService, TLC

MCOwners   == Requests
MCAttempts == Requests \X (0 .. MaxRetries)
MCKeys     == Payloads \X Policies
Symmetry   == Permutations(Requests) \cup Permutations(Payloads)

\* What the breaker's properties and the steps of a request depend on: no guard
\* reads the audit log, the results or the auxiliary variables (with Amount = 1 a
\* sent attempt always took one token).
BreakerView == <<stateVars, policy, changes, pc, localVars>>
==============================================================================
