----------------------------- MODULE MCServices -----------------------------
(* The services that share no state with one another, each on its own instance, and the
   scripts of the AI gateway, which any caller may run at any time: a behaviour is one of
   one of them, the others stand still.                                        *)
EXTENDS AIState, EmailDelivery, TenantSettings, Idempotency, TenantCache, InferenceThrottle,
        Replenishment, DecisionQueue

CONSTANT MaxEpoch  \* bound: epochs of the breaker

VARIABLE service

ScriptsNext == StateNext /\ breaker'.epoch <= MaxEpoch

Profile(position, rate, lead, safety, spread) ==
  [position |-> position, rate |-> rate, lead |-> lead, fresh |-> TRUE,
   safety |-> safety, spread |-> spread]

\* One whose target lies above its p90, by the service level, and some far below it.
Stale       == [Profile(9, 1, 0, 1, 1) EXCEPT !.fresh = FALSE]
AboveBoth   == Profile(3, 2, 0, 4, 0)
Overstocked == Profile(9, 2, 0, 1, 1)

MCProfiles ==
  {Profile(0, 2, 3, 1, 1), Profile(1, 1, 3, 1, 2), Profile(0, 1, 4, 1, 1), Profile(4, 2, 3, 0, 1),
   Profile(9, 1, 3, 1, 2), AboveBoth, Overstocked, Stale}

Init ==
  /\ service \in {"scripts", "email", "settings", "requests", "cache", "inference", "stock",
                  "decisions"}
  /\ StateInit
  /\ EmailInit
  /\ service = "email" \/ (eligible /\ \A c \in Calls : content[c] = delivery.message)
  /\ SettingsInit
  /\ service = "settings" \/ policy = CHOOSE l \in Levels : TRUE
  /\ StockInit
  /\ service = "stock" \/ (supply = 0 /\ moq = 1 /\ \A s \in Stores : store[s] = Overstocked)
  /\ IdemInit /\ CacheInit /\ ThrottleInit /\ QueueInit

Next ==
  /\ service' = service
  /\ \/ service = "scripts" /\ ScriptsNext /\ UNCHANGED <<emailVars, settingsVars, idemVars, cacheVars, throttleVars, stockVars, queueVars>>
     \/ service = "email" /\ EmailNext /\ UNCHANGED <<stateVars, settingsVars, idemVars, cacheVars, throttleVars, stockVars, queueVars>>
     \/ service = "settings" /\ SettingsNext /\ UNCHANGED <<stateVars, emailVars, idemVars, cacheVars, throttleVars, stockVars, queueVars>>
     \/ service = "requests" /\ IdemNext /\ UNCHANGED <<stateVars, emailVars, settingsVars, cacheVars, throttleVars, stockVars, queueVars>>
     \/ service = "cache" /\ CacheNext /\ UNCHANGED <<stateVars, emailVars, settingsVars, idemVars, throttleVars, stockVars, queueVars>>
     \/ service = "inference" /\ ThrottleNext /\ UNCHANGED <<stateVars, emailVars, settingsVars, idemVars, cacheVars, stockVars, queueVars>>
     \/ service = "stock" /\ StockNext /\ UNCHANGED <<stateVars, emailVars, settingsVars, idemVars, cacheVars, throttleVars, queueVars>>
     \/ service = "decisions" /\ QueueNext /\ UNCHANGED <<stateVars, emailVars, settingsVars, idemVars, cacheVars, throttleVars, stockVars>>
=============================================================================
