------------------------- MODULE BackgroundWork_proofs -------------------------
(* Theorems about the leader's lease and the webhook deliveries, for any number of
   replicas, deliveries, attempts, failures and crashes.                       *)
EXTENDS BackgroundWork, TLAPS

-----------------------------------------------------------------------------
(* The lease *)

\* While Redis has not failed, who works is who the key names.
LeaderInv ==
  /\ duty \in [Replicas -> {"waits", "works", "down"}]
  /\ slips \in Nat
  /\ slips = 0 => \A r \in Replicas : duty[r] = "works" => lease = r

\* What a replica does about the lease.
LeaderStep(r) ==
  \/ Acquire(r) \/ AcquireFails(r) \/ NoticesLoss(r) \/ Restart(r) \/ Die(r)
  \/ \E next \in {"waits", "down"} : Release(r, next) \/ ReleaseFails(r, next)

\* What OnlyOwnLeaseReleased says of a step.
KeepsOthersLease ==
  \A r \in Replicas : duty[r] = "works" /\ duty'[r] # "works" /\ lease # r => lease' = lease

\* A replica that stops touches the key only where it is its own.
LEMMA LeaderSafe ==
  ASSUME LeaderInv, NEW r \in Replicas, LeaderStep(r)
  PROVE  LeaderInv' /\ KeepsOthersLease
<1> USE DEF LeaderInv
<1>1. CASE AcquireFails(r) \/ \E next \in {"waits", "down"} : ReleaseFails(r, next)
  BY <1>1 DEF AcquireFails, ReleaseFails, Slip, Leads, Steps, KeepsOthersLease
<1>2. CASE Acquire(r)
  BY <1>2, LeaderAssumption DEF Acquire, Leads, Quiet, KeepsOthersLease
<1>3. CASE NoticesLoss(r) \/ Restart(r)
  BY <1>3 DEF NoticesLoss, Restart, Quiet, KeepsOthersLease
<1>4. CASE Die(r) \/ \E next \in {"waits", "down"} : Release(r, next)
  BY <1>4 DEF Die, Release, Dies, Steps, KeepsOthersLease
<1> QED BY <1>1, <1>2, <1>3, <1>4 DEF LeaderStep

\* Only the lease of an object that is gone ends of itself.
LEMMA ExpireSafe ==
  ASSUME LeaderInv, Expire
  PROVE  LeaderInv' /\ KeepsOthersLease
BY LeaderAssumption DEF LeaderInv, Expire, Quiet, Slip, KeepsOthersLease

-----------------------------------------------------------------------------
(* The rows of deliveries and their copies *)

Row == [status : {"none", "pending", "succeeded", "dead_letter", "gone"},
        attempts : Nat, due : BOOLEAN]

Batches == UNION {[D -> Row] : D \in SUBSET Deliveries}

HookType ==
  /\ table \in [Deliveries -> Row]
  /\ batch \in [Tickers -> Batches]
  /\ todo \in [Tickers -> SUBSET Deliveries]
  /\ \A w \in Tickers : todo[w] \subseteq DOMAIN batch[w]
  /\ hand \in [Deliveries -> [at : {"none", "load", "post", "off", "write"}, row : Row]]
  /\ posts \in [Deliveries -> 0 .. MaxAttempts]

\* A row of d says no more than has happened: no more attempts than requests were sent,
\* success only if answered, given up only for a reason. This holds of the row in the
\* table and of every copy that a tick or an attempt holds, of any age.
Earned(d, row) ==
  /\ row.attempts <= posts[d] \/ posts[d] = MaxAttempts
  /\ row.status = "succeeded" => d \in acked
  /\ row.status = "dead_letter" => posts[d] = MaxAttempts \/ d \in refused

HookInv ==
  /\ HookType
  /\ \A d \in Deliveries :
       /\ Earned(d, table[d]) /\ Earned(d, hand[d].row)
       /\ \A w \in Tickers : d \in DOMAIN batch[w] => Earned(d, batch[w][d])

\* What has happened is not undone, so that old copies stay true.
LEMMA EarnedStays ==
  ASSUME HookInv, NEW d \in Deliveries, NEW row \in Row, Earned(d, row),
         posts' \in [Deliveries -> 0 .. MaxAttempts],
         posts'[d] >= posts[d], acked \subseteq acked', refused \subseteq refused'
  PROVE  Earned(d, row)'
<1>1. MaxAttempts \in Nat /\ posts[d] \in 0 .. MaxAttempts /\ posts'[d] \in 0 .. MaxAttempts
  BY WebhookAssumption DEF HookInv, HookType
<1>2. posts[d] = MaxAttempts => posts'[d] = MaxAttempts
  BY <1>1
<1>3. row.attempts \in Nat
  BY DEF Row
<1> QED BY <1>1, <1>2, <1>3 DEF Earned

\* A request that is sent counts, in the row as among the requests.
LEMMA PostedEarns ==
  ASSUME HookInv, NEW d \in Deliveries, NEW row \in Row, Earned(d, row),
         NEW answer \in {"2xx", "other", "none"}, Posted(d, answer)
  PROVE  /\ posts' \in [Deliveries -> 0 .. MaxAttempts]
         /\ \A e \in Deliveries : posts'[e] >= posts[e]
         /\ acked \subseteq acked' /\ refused' = refused
         /\ Outcome(row, answer) \in Row /\ Earned(d, Outcome(row, answer))'
<1>0. MaxAttempts \in Nat \ {0} /\ posts \in [Deliveries -> 0 .. MaxAttempts]
  BY WebhookAssumption DEF HookInv, HookType
<1>1. /\ posts' = [posts EXCEPT ![d] = IF posts[d] < MaxAttempts THEN posts[d] + 1 ELSE posts[d]]
      /\ acked' = IF answer = "2xx" THEN acked \cup {d} ELSE acked
      /\ refused' = refused
  BY DEF Posted
<1>2. posts' \in [Deliveries -> 0 .. MaxAttempts] /\ \A e \in Deliveries : posts'[e] >= posts[e]
  BY <1>0, <1>1
<1>3. /\ Counted(row) \in Row /\ Counted(row).attempts = row.attempts + 1
      /\ Counted(row).status = row.status
  BY DEF Counted, Row
<1>4. row.attempts + 1 <= posts'[d] \/ posts'[d] = MaxAttempts
  BY <1>0, <1>1 DEF Earned, Row
<1>5. CASE answer = "2xx"
  BY <1>1, <1>2, <1>3, <1>4, <1>5 DEF Outcome, Earned, Row
<1>6. CASE answer # "2xx"
  <2>1. Outcome(row, answer) = Retry(Counted(row))
    BY <1>6 DEF Outcome
  <2>2. /\ Retry(Counted(row)) \in Row
        /\ Retry(Counted(row)).attempts = row.attempts + 1
        /\ \/ Retry(Counted(row)).status = "dead_letter" /\ row.attempts + 1 >= MaxAttempts
           \/ Retry(Counted(row)).status = "pending"
    BY <1>3 DEF Retry, Row
  <2>3. row.attempts \in Nat /\ posts'[d] \in 0 .. MaxAttempts
    BY <1>2 DEF Row
  <2> QED BY <1>0, <1>1, <1>2, <1>4, <2>1, <2>2, <2>3 DEF Earned
<1> QED BY <1>5, <1>6

\* No delivery has been answered or given up at first.
LEMMA InitHook == HookInit => HookInv
<1> SUFFICES ASSUME HookInit PROVE HookInv
  OBVIOUS
<1>1. NoRow \in Row /\ MaxAttempts \in Nat
  BY WebhookAssumption DEF NoRow, Row
<1>2. Empty \in [{} -> Row]
  BY DEF Empty
<1>3. Empty \in Batches /\ DOMAIN Empty = {}
  BY <1>2 DEF Batches
<1>4. HookType
  BY <1>1, <1>3 DEF HookInit, HookType, Away
<1>5. \A d : posts[d] = 0 => Earned(d, NoRow)
  BY <1>1 DEF Earned, NoRow
<1> QED BY <1>1, <1>3, <1>4, <1>5 DEF HookInit, HookInv, Away, Earned, NoRow

\* The worker's transaction works on copies of the rows it has locked.
LEMMA TickSafe ==
  ASSUME HookInv, NEW w \in Tickers,
         \/ TickBegins(w) \/ TickCommits(w) \/ TickUndone(w)
         \/ \E d \in Deliveries : TickAttempts(w, d)
  PROVE  HookInv'
<1> USE DEF HookInv
<1>0. /\ batch \in [Tickers -> Batches] /\ todo \in [Tickers -> SUBSET Deliveries]
      /\ table \in [Deliveries -> Row]
      /\ \A v \in Tickers : /\ todo[v] \subseteq DOMAIN batch[v]
                            /\ DOMAIN batch[v] \subseteq Deliveries
                            /\ batch[v] \in [DOMAIN batch[v] -> Row]
  <2>1. \A b \in Batches : DOMAIN b \subseteq Deliveries /\ b \in [DOMAIN b -> Row]
    BY DEF Batches
  <2> QED BY <2>1 DEF HookType
<1>1. Empty \in Batches /\ DOMAIN Empty = {}
  <2>1. Empty \in [{} -> Row]
    BY DEF Empty
  <2> QED BY <2>1 DEF Batches
<1>2. CASE TickBegins(w)
  <2>1. Due \subseteq Deliveries
    BY DEF Due
  <2> DEFINE b == [d \in Due |-> table[d]]
  <2>2. b \in [Due -> Row]
    BY <1>0, <2>1
  <2>3. b \in Batches /\ DOMAIN b = Due /\ \A d \in Due : b[d] = table[d]
    BY <2>1, <2>2 DEF Batches
  <2>4. batch' = [batch EXCEPT ![w] = b] /\ todo' = [todo EXCEPT ![w] = Due]
    BY <1>2 DEF TickBegins
  <2> HIDE DEF b
  <2>5. HookType'
    BY <1>0, <1>2, <2>1, <2>3, <2>4 DEF TickBegins, HookType, history
  <2>6. ASSUME NEW d \in Deliveries
        PROVE  /\ Earned(d, table[d])' /\ Earned(d, hand[d].row)'
               /\ \A v \in Tickers : d \in DOMAIN batch'[v] => Earned(d, batch[v][d])'
    BY <1>0, <1>2, <2>3, <2>4 DEF TickBegins, history, Earned
  <2> QED BY <2>5, <2>6
<1>3. CASE TickCommits(w)
  <2>1. HookType'
    BY <1>0, <1>1, <1>3 DEF TickCommits, Unlock, HookType, history
  <2>2. ASSUME NEW d \in Deliveries
        PROVE  /\ Earned(d, table[d])' /\ Earned(d, hand[d].row)'
               /\ \A v \in Tickers : d \in DOMAIN batch'[v] => Earned(d, batch[v][d])'
    BY <1>0, <1>1, <1>3 DEF TickCommits, Unlock, history, Earned
  <2> QED BY <2>1, <2>2
<1>4. CASE TickUndone(w)
  <2>1. HookType'
    BY <1>0, <1>1, <1>4 DEF TickUndone, Unlock, HookType, history
  <2>2. ASSUME NEW d \in Deliveries
        PROVE  /\ Earned(d, table[d])' /\ Earned(d, hand[d].row)'
               /\ \A v \in Tickers : d \in DOMAIN batch'[v] => Earned(d, batch[v][d])'
    BY <1>0, <1>1, <1>4 DEF TickUndone, Unlock, history, Earned
  <2> QED BY <2>1, <2>2
<1>5. ASSUME NEW d \in Deliveries, TickAttempts(w, d) PROVE HookInv'
  <2>0. /\ d \in DOMAIN batch[w] /\ batch[w][d] \in Row /\ Earned(d, batch[w][d])
        /\ todo' = [todo EXCEPT ![w] = @ \ {d}] /\ UNCHANGED <<table, endpoint, hand>>
    BY <1>0, <1>5 DEF TickAttempts
  <2>1. PICK row \in Row : /\ \/ batch' = batch /\ row = batch[w][d]
                              \/ batch' = [batch EXCEPT ![w][d] = row]
                           /\ posts' \in [Deliveries -> 0 .. MaxAttempts]
                           /\ \A e \in Deliveries : posts'[e] >= posts[e]
                           /\ acked \subseteq acked' /\ refused \subseteq refused'
                           /\ Earned(d, row)'
    <3>1. CASE /\ batch' = [batch EXCEPT ![w][d].status = "dead_letter"]
               /\ Refused(d)
      <4>0. LET r == [batch[w][d] EXCEPT !.status = "dead_letter"]
            IN  r \in Row /\ r.status = "dead_letter" /\ r.attempts = batch[w][d].attempts
        BY <2>0 DEF Row
      <4>1. PICK row \in Row : /\ row = [batch[w][d] EXCEPT !.status = "dead_letter"]
                               /\ row.status = "dead_letter"
                               /\ row.attempts = batch[w][d].attempts
        BY <4>0
      <4>2. batch' = [batch EXCEPT ![w][d] = row]
        BY <3>1, <4>1
      <4>3. Earned(d, row)'
        BY <2>0, <3>1, <4>1 DEF Refused, Earned
      <4>4. posts \in [Deliveries -> 0 .. MaxAttempts] /\ MaxAttempts \in Nat
        BY WebhookAssumption DEF HookType
      <4>5. posts' = posts /\ acked' = acked /\ refused \subseteq refused'
        BY <3>1 DEF Refused
      <4>6. \A e \in Deliveries : posts'[e] >= posts[e]
        BY <4>4, <4>5
      <4> QED BY <4>1, <4>2, <4>3, <4>4, <4>5, <4>6
    <3>2. ASSUME NEW answer \in {"2xx", "other", "none"}, Posted(d, answer),
                 batch' = [batch EXCEPT ![w][d] = Outcome(@, answer)]
          PROVE  \E row \in Row : /\ \/ batch' = batch /\ row = batch[w][d]
                                     \/ batch' = [batch EXCEPT ![w][d] = row]
                                  /\ posts' \in [Deliveries -> 0 .. MaxAttempts]
                                  /\ \A e \in Deliveries : posts'[e] >= posts[e]
                                  /\ acked \subseteq acked' /\ refused \subseteq refused'
                                  /\ Earned(d, row)'
      <4>1. batch' = [batch EXCEPT ![w][d] = Outcome(batch[w][d], answer)]
        BY <3>2
      <4> QED BY <2>0, <3>2, <4>1, PostedEarns
    <3>3. ASSUME batch' = batch, NEW answer \in {"2xx", "other", "none"}, Posted(d, answer)
          PROVE  Earned(d, batch[w][d])'
      <4>1. /\ posts' \in [Deliveries -> 0 .. MaxAttempts]
            /\ \A e \in Deliveries : posts'[e] >= posts[e]
            /\ acked \subseteq acked' /\ refused \subseteq refused'
        BY <2>0, <3>3, PostedEarns
      <4> QED BY <2>0, <3>3, <4>1, EarnedStays
    <3>4. CASE batch' = batch /\ UNCHANGED history
      <4>1. posts \in [Deliveries -> 0 .. MaxAttempts] /\ MaxAttempts \in Nat
        BY WebhookAssumption DEF HookType
      <4> QED BY <2>0, <3>4, <4>1 DEF history, Earned
    <3>5. CASE batch' = batch /\ \E answer \in {"2xx", "other", "none"} : Posted(d, answer)
      BY <2>0, <3>3, <3>5, PostedEarns
    <3> QED BY <1>5, <3>1, <3>2, <3>4, <3>5 DEF TickAttempts
  <2>2. /\ batch' \in [Tickers -> Batches]
        /\ \A v \in Tickers : DOMAIN batch'[v] = DOMAIN batch[v]
        /\ \A v \in Tickers, e \in Deliveries :
             e \in DOMAIN batch[v] => batch'[v][e] = batch[v][e] \/ (v = w /\ e = d /\ batch'[v][e] = row)
    <3>1. CASE batch' = [batch EXCEPT ![w][d] = row]
      <4> DEFINE b == [batch[w] EXCEPT ![d] = row]
      <4>1. batch' = [batch EXCEPT ![w] = b]
        BY <3>1
      <4>2. b \in [DOMAIN batch[w] -> Row]
        BY <1>0, <2>0
      <4>3. b \in Batches /\ DOMAIN b = DOMAIN batch[w]
        BY <1>0, <4>2 DEF Batches
      <4>4. \A e \in DOMAIN batch[w] : b[e] = IF e = d THEN row ELSE batch[w][e]
        BY <1>0
      <4> HIDE DEF b
      <4> QED BY <1>0, <4>1, <4>3, <4>4
    <3> QED BY <1>0, <2>1, <3>1
  <2>3. HookType'
    BY <1>0, <2>0, <2>1, <2>2 DEF HookType
  <2>4. ASSUME NEW e \in Deliveries
        PROVE  /\ Earned(e, table[e])' /\ Earned(e, hand[e].row)'
               /\ \A v \in Tickers : e \in DOMAIN batch'[v] => Earned(e, batch[v][e])'
    <3>1. \A r \in Row : Earned(e, r) => Earned(e, r)'
      BY <2>1, EarnedStays
    <3>2. table[e] \in Row /\ hand[e].row \in Row
      BY DEF HookType
    <3>3. Earned(e, table[e])' /\ Earned(e, hand[e].row)'
      BY <2>0, <3>1, <3>2
    <3>4. ASSUME NEW v \in Tickers, e \in DOMAIN batch'[v] PROVE Earned(e, batch[v][e])'
      <4>1. e \in DOMAIN batch[v] /\ batch[v][e] \in Row /\ Earned(e, batch[v][e])
        BY <1>0, <2>2, <3>4
      <4>2. CASE batch'[v][e] = batch[v][e]
        <5>1. Earned(e, batch[v][e])' <=> \A x \in Row : x = batch'[v][e] => Earned(e, x)'
          BY <4>1, <4>2 DEF Earned
        <5> QED BY <3>1, <4>1, <4>2, <5>1
      <4>3. CASE e = d /\ batch'[v][e] = row
        BY <2>1, <4>3 DEF Earned
      <4> QED BY <2>2, <4>1, <4>2, <4>3
    <3> QED BY <3>3, <3>4
  <2> QED BY <2>3, <2>4
<1> QED BY <1>2, <1>3, <1>4, <1>5

Hands == [at : {"none", "load", "post", "off", "write"}, row : Row]

\* A writer other than the worker answers for the rows and hands it changes; the worker's
\* copies stay earned.
LEMMA OthersSafe ==
  ASSUME HookInv, UNCHANGED <<batch, todo>>,
         table' \in [Deliveries -> Row], hand' \in [Deliveries -> Hands],
         posts' \in [Deliveries -> 0 .. MaxAttempts],
         \A d \in Deliveries : posts'[d] >= posts[d],
         acked \subseteq acked', refused \subseteq refused',
         \A d \in Deliveries : \/ table'[d] = table[d]
                               \/ Earned(d, table[d])',
         \A d \in Deliveries : \/ hand'[d].row = hand[d].row
                               \/ Earned(d, hand[d].row)'
  PROVE  HookInv'
<1> USE DEF HookInv
<1>1. HookType'
  BY DEF HookType, Hands
<1>2. ASSUME NEW d \in Deliveries
      PROVE  /\ Earned(d, table[d])' /\ Earned(d, hand[d].row)'
             /\ \A v \in Tickers : d \in DOMAIN batch'[v] => Earned(d, batch[v][d])'
  <2>1. \A row \in Row : Earned(d, row) => Earned(d, row)'
    BY EarnedStays
  <2>2. table[d] \in Row /\ hand[d].row \in Row
    BY DEF HookType
  <2>3. Earned(d, table[d])'
    <3>1. CASE table'[d] = table[d]
      BY <2>1, <2>2, <3>1
    <3> QED BY <3>1
  <2>4. Earned(d, hand[d].row)'
    <3>1. CASE hand'[d].row = hand[d].row
      BY <2>1, <2>2, <3>1
    <3> QED BY <3>1
  <2>5. ASSUME NEW v \in Tickers, d \in DOMAIN batch[v] PROVE Earned(d, batch[v][d])'
    <3>1. \A b \in Batches : d \in DOMAIN b => b[d] \in Row
      BY DEF Batches
    <3>2. batch[v][d] \in Row
      BY <2>5, <3>1 DEF HookType
    <3> QED BY <2>1, <2>5, <3>2
  <2> QED BY <2>3, <2>4, <2>5
<1> QED BY <1>1, <1>2

\* Requests' attempts, the administrator's and time's changes of rows.
LEMMA RequestSafe ==
  ASSUME HookInv,
         \/ \E d \in Deliveries : \/ Dispatch(d) \/ ResetRow(d) \/ Direct(d) \/ HandLost(d)
                                  \/ ComesDue(d)
         \/ SetActive \/ DeleteEndpoint
  PROVE  HookInv'
<1> USE DEF HookInv
<1>0. /\ table \in [Deliveries -> Row] /\ hand \in [Deliveries -> Hands]
      /\ posts \in [Deliveries -> 0 .. MaxAttempts] /\ MaxAttempts \in Nat \ {0}
      /\ \A d \in Deliveries : posts[d] >= posts[d]
      /\ NoRow \in Row /\ Away \in Hands /\ Away.row = NoRow
      /\ \A d \in Deliveries : Earned(d, table[d]) /\ Earned(d, hand[d].row)
  BY WebhookAssumption DEF HookType, Hands, NoRow, Away, Row
<1>1. ASSUME NEW d \in Deliveries, Dispatch(d) PROVE HookInv'
  <2>1. PICK row \in Row : /\ row = [status |-> "pending", attempts |-> 0, due |-> TRUE]
                           /\ table' = [table EXCEPT ![d] = row]
                           /\ hand' = [hand EXCEPT ![d] = [at |-> "post", row |-> row]]
                           /\ UNCHANGED <<batch, todo, history>>
    BY <1>0, <1>1 DEF Dispatch, Row
  <2>2. Earned(d, row)'
    BY <1>0, <2>1 DEF Earned, history
  <2>3. Earned(d, table[d])' /\ Earned(d, hand[d].row)'
    BY <1>0, <2>1, <2>2 DEF Earned
  <2> QED BY <1>0, <2>1, <2>3, OthersSafe DEF Hands, history
<1>2. ASSUME NEW d \in Deliveries, ResetRow(d) \/ ComesDue(d) PROVE HookInv'
  <2>1. /\ table' \in [Deliveries -> Row] /\ hand' \in [Deliveries -> Hands]
        /\ \A e \in Deliveries : /\ hand'[e].row = hand[e].row
                                 /\ e # d => table'[e] = table[e]
        /\ table'[d].status = "pending" /\ table'[d].attempts = table[d].attempts
        /\ UNCHANGED <<batch, todo, history>>
    <3>1. CASE ResetRow(d)
      <4>1. /\ table' = [table EXCEPT ![d].status = "pending", ![d].due = TRUE]
            /\ hand' = [hand EXCEPT ![d].at = "load"] /\ UNCHANGED <<batch, todo, history>>
        BY <3>1 DEF ResetRow
      <4>2. LET t == [table EXCEPT ![d].status = "pending"]
            IN  /\ t \in [Deliveries -> Row] /\ t[d].status = "pending"
                /\ t[d].attempts = table[d].attempts
                /\ \A e \in Deliveries \ {d} : t[e] = table[e]
        BY <1>0 DEF Row
      <4>3. \A t \in [Deliveries -> Row] :
              LET u == [t EXCEPT ![d].due = TRUE]
              IN  /\ u \in [Deliveries -> Row] /\ u[d].status = t[d].status
                  /\ u[d].attempts = t[d].attempts /\ \A e \in Deliveries \ {d} : u[e] = t[e]
        BY DEF Row
      <4>4. /\ table' \in [Deliveries -> Row] /\ table'[d].status = "pending"
            /\ table'[d].attempts = table[d].attempts
            /\ \A e \in Deliveries \ {d} : table'[e] = table[e]
        BY <4>1, <4>2, <4>3
      <4>5. hand' \in [Deliveries -> Hands] /\ \A e \in Deliveries : hand'[e].row = hand[e].row
        BY <1>0, <4>1 DEF Hands
      <4> QED BY <4>1, <4>4, <4>5
    <3>2. CASE ComesDue(d)
      BY <1>0, <3>2 DEF ComesDue, Row
    <3> QED BY <1>2, <3>1, <3>2
  <2>2. Earned(d, table[d])'
    BY <1>0, <2>1 DEF Earned, history
  <2> QED BY <1>0, <2>1, <2>2, OthersSafe DEF history
<1>3. ASSUME NEW d \in Deliveries, LoadRow(d) PROVE HookInv'
  <2>1. /\ hand' \in [Deliveries -> Hands] /\ table' = table
        /\ \A e \in Deliveries \ {d} : hand'[e] = hand[e]
        /\ hand'[d].row \in {NoRow, table[d]}
        /\ UNCHANGED <<batch, todo, history>>
    BY <1>0, <1>3 DEF LoadRow, Hands
  <2>2. Earned(d, hand[d].row)'
    BY <1>0, <2>1 DEF Earned, NoRow, history
  <2> QED BY <1>0, <2>1, <2>2, OthersSafe DEF history
<1>4. ASSUME NEW d \in Deliveries, PostFromHand(d) PROVE HookInv'
  <2>1. PICK answer \in {"2xx", "other", "none"} :
          /\ hand' = [hand EXCEPT ![d].at = "write", ![d].row = Outcome(@, answer)]
          /\ Posted(d, answer)
    BY <1>4 DEF PostFromHand
  <2>2. hand[d] \in Hands /\ hand[d].row \in Row
    BY <1>0 DEF Hands
  <2>3. PICK row \in Row : row = Outcome(hand[d].row, answer) /\ Earned(d, row)'
    BY <1>0, <2>1, <2>2, PostedEarns
  <2>4. /\ hand' \in [Deliveries -> Hands] /\ hand'[d].row = row
        /\ \A e \in Deliveries \ {d} : hand'[e] = hand[e]
    <3>1. LET h == [hand EXCEPT ![d].at = "write"]
          IN  /\ h \in [Deliveries -> Hands] /\ h[d].row = hand[d].row
              /\ \A e \in Deliveries \ {d} : h[e] = hand[e]
      BY <1>0 DEF Hands
    <3>3. PICK h \in [Deliveries -> Hands] :
            /\ h[d].row = hand[d].row /\ \A e \in Deliveries \ {d} : h[e] = hand[e]
            /\ hand' = [h EXCEPT ![d].row = Outcome(h[d].row, answer)]
      BY <2>1, <3>1
    <3>4. hand' = [h EXCEPT ![d].row = row]
      BY <2>3, <3>3
    <3> QED BY <3>3, <3>4 DEF Hands
  <2>5. Earned(d, hand[d].row)'
    BY <2>3, <2>4 DEF Earned
  <2>6. /\ posts' \in [Deliveries -> 0 .. MaxAttempts]
        /\ \A e \in Deliveries : posts'[e] >= posts[e]
        /\ acked \subseteq acked' /\ refused \subseteq refused'
    BY <1>0, <2>1, <2>2, PostedEarns
  <2>7. UNCHANGED <<table, batch, todo>>
    BY <1>4 DEF PostFromHand
  <2> QED BY <1>0, <2>4, <2>5, <2>6, <2>7, OthersSafe DEF Hands
<1>5. ASSUME NEW d \in Deliveries, WriteFromHand(d) PROVE HookInv'
  <2>0. /\ hand' = [hand EXCEPT ![d] = Away] /\ UNCHANGED <<batch, todo>>
        /\ table[d] \in Row /\ hand[d].row \in Row
    BY <1>0, <1>5 DEF WriteFromHand, Hands
  <2>1. PICK row \in Row : /\ table' = [table EXCEPT ![d] = row]
                           /\ Earned(d, row)'
                           /\ posts' = posts /\ acked' = acked /\ refused \subseteq refused'
    <3>1. CASE table' = [table EXCEPT ![d].status = "dead_letter"] /\ Refused(d)
      <4>1. LET r == [table[d] EXCEPT !.status = "dead_letter"]
            IN  r \in Row /\ r.status = "dead_letter" /\ r.attempts = table[d].attempts
        BY <2>0 DEF Row
      <4>2. PICK r \in Row : /\ r = [table[d] EXCEPT !.status = "dead_letter"]
                             /\ r.status = "dead_letter" /\ r.attempts = table[d].attempts
        BY <4>1
      <4>3. Earned(d, r)'
        BY <1>0, <3>1, <4>2 DEF Refused, Earned
      <4>4. table' = [table EXCEPT ![d] = r]
        BY <3>1, <4>2
      <4> QED BY <3>1, <4>3, <4>4 DEF Refused
    <3>2. CASE /\ UNCHANGED history
               /\ table' = [table EXCEPT ![d] =
                    [hand[d].row EXCEPT !.status = IF @ = "pending" THEN table[d].status ELSE @]]
      <4>1. LET r == [hand[d].row EXCEPT !.status = IF @ = "pending" THEN table[d].status ELSE @]
            IN  /\ r \in Row /\ r.attempts = hand[d].row.attempts
                /\ r.status \in {table[d].status, hand[d].row.status}
        BY <2>0 DEF Row
      <4>2. PICK r \in Row : /\ table' = [table EXCEPT ![d] = r]
                             /\ r.attempts = hand[d].row.attempts
                             /\ r.status \in {table[d].status, hand[d].row.status}
        BY <3>2, <4>1
      <4>3. Earned(d, r)'
        BY <1>0, <3>2, <4>2 DEF history, Earned
      <4> QED BY <3>2, <4>2, <4>3 DEF history
    <3>3. CASE UNCHANGED <<table, history>>
      <4>1. Earned(d, table[d]) /\ table' = [table EXCEPT ![d] = table[d]]
        BY <1>0, <3>3
      <4> QED BY <2>0, <3>3, <4>1 DEF history, Earned
    <3> QED BY <1>5, <3>1, <3>2, <3>3 DEF WriteFromHand
  <2>2. Earned(d, table[d])' /\ Earned(d, hand[d].row)'
    BY <1>0, <2>0, <2>1 DEF Earned, NoRow
  <2> QED BY <1>0, <2>0, <2>1, <2>2, OthersSafe
<1>6. ASSUME NEW d \in Deliveries, HandLost(d) PROVE HookInv'
  <2>1. hand' = [hand EXCEPT ![d] = Away] /\ UNCHANGED <<table, batch, todo, history>>
    BY <1>6 DEF HandLost
  <2>2. Earned(d, hand[d].row)'
    BY <1>0, <2>1 DEF Earned, NoRow, history
  <2> QED BY <1>0, <2>1, <2>2, OthersSafe DEF history
<1>7. CASE SetActive \/ DeleteEndpoint
  <2>1. /\ UNCHANGED <<batch, todo, hand, history>> /\ table' \in [Deliveries -> Row]
        /\ \A d \in Deliveries :
             \/ table'[d] = table[d]
             \/ table'[d].status = "gone" /\ table'[d].attempts = table[d].attempts
    <3>1. CASE SetActive
      BY <1>0, <3>1 DEF SetActive
    <3>2. CASE DeleteEndpoint
      <4>1. /\ UNCHANGED <<batch, todo, hand, history>>
            /\ table' = [d \in Deliveries |-> [table[d] EXCEPT !.status = "gone"]]
        BY <3>2 DEF DeleteEndpoint
      <4>2. \A row \in Row : /\ [row EXCEPT !.status = "gone"] \in Row
                             /\ [row EXCEPT !.status = "gone"].status = "gone"
                             /\ [row EXCEPT !.status = "gone"].attempts = row.attempts
        BY DEF Row
      <4>3. \A d \in Deliveries : table[d] \in Row
        BY <1>0
      <4> QED BY <4>1, <4>2, <4>3
    <3> QED BY <1>7, <3>1, <3>2
  <2>2. \A d \in Deliveries : table'[d] = table[d] \/ Earned(d, table[d])'
    BY <1>0, <2>1 DEF Earned, history
  <2> QED BY <1>0, <2>1, <2>2, OthersSafe DEF history
<1> QED BY <1>1, <1>2, <1>3, <1>4, <1>5, <1>6, <1>7 DEF Direct

-----------------------------------------------------------------------------
(* The composition *)

WorkInv == LeaderInv /\ HookInv

\* Neither the lease nor the deliveries are in use at first.
LEMMA InitWork == WorkInit => WorkInv
BY InitHook DEF WorkInit, LeaderInit, WorkInv, LeaderInv

\* Every step of the composition keeps both invariants, and no lease of another's is released.
LEMMA NextWork == WorkInv /\ [WorkNext]_workVars => WorkInv' /\ [KeepsOthersLease]_leaderVars
<1> SUFFICES ASSUME WorkInv, [WorkNext]_workVars
             PROVE  WorkInv' /\ [KeepsOthersLease]_leaderVars
  OBVIOUS
<1> USE DEF WorkInv
<1>1. LeaderInv /\ UNCHANGED leaderVars => LeaderInv'
  BY DEF LeaderInv, leaderVars
<1>2. HookInv /\ UNCHANGED hookVars => HookInv'
  BY DEF HookInv, HookType, Earned, hookVars
<1>3. Tickers = Replicas
  BY TickersAssumption
<1>4. ASSUME NEW r \in Replicas, Elect(r) PROVE WorkInv' /\ KeepsOthersLease
  BY <1>2, <1>4, LeaderSafe DEF Elect, LeaderStep
<1>5. ASSUME NEW r \in Replicas, Stop(r) PROVE WorkInv' /\ KeepsOthersLease
  BY <1>3, <1>5, LeaderSafe, TickSafe DEF Stop, LeaderStep
<1>6. ASSUME NEW r \in Replicas, StartFails(r) PROVE WorkInv' /\ KeepsOthersLease
  BY <1>2, <1>6, LeaderSafe DEF StartFails, LeaderStep
<1>7. ASSUME NEW r \in Replicas, Tick(r) \/ TickFails(r) PROVE WorkInv' /\ UNCHANGED leaderVars
  BY <1>1, <1>3, <1>7, TickSafe DEF Tick, TickFails
<1>8. CASE Requests
  BY <1>1, <1>8, RequestSafe DEF Requests
<1>9. CASE Time
  BY <1>1, <1>2, <1>9, RequestSafe, ExpireSafe DEF Time
<1>10. CASE UNCHANGED workVars
  BY <1>1, <1>2, <1>10 DEF workVars
<1> QED BY <1>4, <1>5, <1>6, <1>7, <1>8, <1>9, <1>10 DEF WorkNext

-----------------------------------------------------------------------------
(* What follows *)

\* Crashes, restarts and failed starts alone never make two leaders (acquire, release):
\* whoever works is named by the key.
THEOREM SoleLeader == WorkSpec => []OneLeaderUntilSlip
<1>1. WorkInv => OneLeaderUntilSlip
  BY DEF WorkInv, LeaderInv, OneLeaderUntilSlip, Working
<1> QED BY InitWork, NextWork, <1>1, PTL DEF WorkSpec

\* No replica that stops deletes another's lease, however late it stops (release's
\* compare and delete).
THEOREM ReleasesOwnLease == WorkSpec => OnlyOwnLeaseReleased
<1>1. KeepsOthersLease =>
        \A r \in Replicas :
          duty[r] = "works" /\ duty'[r] # "works" /\ lease # r => lease' = lease
  BY DEF KeepsOthersLease
<1> QED BY InitWork, NextWork, <1>1, PTL DEF WorkSpec, OnlyOwnLeaseReleased

\* No copy of a row, however old, ever marks as succeeded what was not answered
\* (_try_deliver).
THEOREM SuccessIsAnswered == WorkSpec => []SucceededWasAnswered
<1>1. WorkInv => SucceededWasAnswered
  BY DEF WorkInv, HookInv, Earned, SucceededWasAnswered
<1> QED BY InitWork, NextWork, <1>1, PTL DEF WorkSpec

\* Nor gives up before the last attempt: counts are lost, never made up (_try_deliver).
THEOREM GivenUpForReason == WorkSpec => []DeadLetterIsEarned
<1>1. WorkInv => DeadLetterIsEarned
  BY DEF WorkInv, HookInv, Earned, DeadLetterIsEarned
<1> QED BY InitWork, NextWork, <1>1, PTL DEF WorkSpec
=============================================================================
