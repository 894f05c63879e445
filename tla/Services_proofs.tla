---------------------------- MODULE Services_proofs ----------------------------
(* Theorems about services that share no state with one another: idempotent requests, the
   tenant cache, a tenant's settings, the delivery of emails and ML admission, for any
   number of callers, writes, days, attempts and slots.                        *)
EXTENDS Idempotency, TenantCache, TenantSettings, EmailDelivery, InferenceThrottle,
        FiniteSetTheorems, SequenceTheorems, TLAPS

-----------------------------------------------------------------------------
(* Idempotent requests *)

Answers == [kind : {"none", "kept", "large", "error", "conflict"}, run : Nat]

IdemType ==
  /\ entry \in {Missing, Sentinel} \cup [kind : {"kept"}, run : Nat]
  /\ request \in [Requests -> {"new", "reads", "runs", "stores", "answered"}]
  /\ owns \in [Requests -> BOOLEAN]
  /\ answer \in [Requests -> Answers]
  /\ runs \in Nat /\ astray \in BOOLEAN

Kept(r) == answer[r].kind = "kept"
Inside(r) == request[r] \in {"runs", "stores"}

\* One request at a time is inside, and the sentinel says so: it is the one that set it.
OneInside ==
  \A r \in Requests : Inside(r) =>
    /\ owns[r] /\ entry = Sentinel
    /\ \A s \in Requests : Inside(s) => s = r

\* While one is inside nobody else has an answer to keep, nor while the key is missing;
\* once the key holds an answer, that is everyone's.
OneAnswer ==
  /\ \A r, s \in Requests : Kept(r) /\ Kept(s) => answer[r].run = answer[s].run
  /\ \A r, s \in Requests : Inside(r) /\ Kept(s) => s = r /\ request[r] = "stores"
  /\ entry = Missing => \A r \in Requests : ~ Kept(r)
  /\ entry.kind = "kept" => \A r \in Requests : Kept(r) => answer[r].run = entry.run

IdemInv == IdemType /\ (astray \/ (OneInside /\ OneAnswer))

\* Nothing is in Redis, and nobody has asked.
LEMMA InitIdem == IdemInit => IdemInv
<1> SUFFICES ASSUME IdemInit PROVE IdemInv
  OBVIOUS
<1>1. Missing \in Answers /\ Missing.kind = "none"
  BY DEF Missing, Answers
<1>2. \A r \in Requests : ~ Inside(r) /\ ~ Kept(r)
  BY <1>1 DEF IdemInit, Inside, Kept
<1>3. IdemType
  BY <1>1 DEF IdemInit, IdemType
<1> QED
  BY <1>1, <1>2, <1>3 DEF IdemInit, IdemInv, OneInside, OneAnswer

\* The owner of the sentinel is alone inside until it stores its answer or gives up.
LEMMA NextIdem == IdemInv /\ [IdemNext]_idemVars => IdemInv'
<1> SUFFICES ASSUME IdemInv, [IdemNext]_idemVars PROVE IdemInv'
  OBVIOUS
<1> USE DEF IdemInv
<1>0. Missing # Sentinel /\ Missing.kind = "none" /\ Sentinel.kind = "in_progress"
  BY DEF Missing, Sentinel
<1>1. ASSUME NEW r \in Requests, ClaimKey(r) PROVE IdemInv'
  <2>1. IdemType'
    BY <1>1 DEF ClaimKey, Moves, IdemType
  <2>2. CASE entry = Missing /\ ~ astray
    BY <1>0, <1>1, <2>1, <2>2
    DEF ClaimKey, Moves, IdemType, OneInside, OneAnswer, Inside, Kept
  <2>3. CASE entry # Missing /\ ~ astray
    BY <1>1, <2>1, <2>3 DEF ClaimKey, Moves, IdemType, OneInside, OneAnswer, Inside, Kept
  <2> QED BY <1>1, <2>1, <2>2, <2>3 DEF ClaimKey
<1>2. ASSUME NEW r \in Requests, ClaimLost(r) PROVE IdemInv'
  BY <1>2 DEF ClaimLost, Moves, IdemType
<1>3. ASSUME NEW r \in Requests, Replay(r) PROVE IdemInv'
  <2>1. IdemType'
    BY <1>3 DEF Replay, Answered, Moves, IdemType, Answers
  <2>2. CASE entry \notin {Missing, Sentinel} /\ Answered(r, entry) /\ ~ astray
    <3>1. entry.kind = "kept"
      BY <2>2 DEF IdemType
    <3> QED
      BY <1>3, <2>1, <2>2, <3>1
      DEF Replay, Answered, Moves, IdemType, OneInside, OneAnswer, Inside, Kept
  <2>3. CASE Answered(r, [kind |-> "conflict", run |-> 0]) /\ ~ astray
    BY <1>3, <2>1, <2>3
    DEF Replay, Answered, Moves, IdemType, OneInside, OneAnswer, Inside, Kept
  <2> QED BY <1>3, <2>1, <2>2, <2>3 DEF Replay
<1>4. ASSUME NEW r \in Requests, Run(r) \/ Raises(r) PROVE IdemInv'
  <2>1. PICK kind \in {"kept", "large", "error"} :
          /\ answer' = [answer EXCEPT ![r] = [kind |-> kind, run |-> runs']]
          /\ \/ request' = [request EXCEPT ![r] = "answered"]
             \/ request' = [request EXCEPT ![r] = "stores"] /\ owns[r]
          /\ kind = "kept" /\ owns[r] => request'[r] = "stores"
          /\ astray' = (astray \/ kind = "large")
    BY <1>4 DEF Run, Raises, Answered, Moves, IdemType
  <2>2. request[r] = "runs" /\ runs' = runs + 1 /\ UNCHANGED <<entry, owns>>
    BY <1>4 DEF Run, Raises
  <2>3. (astray \/ kind = "large") \in BOOLEAN
    OBVIOUS
  <2>4. IdemType'
    BY <2>1, <2>2, <2>3 DEF IdemType, Answers
  <2>5. CASE ~ astray
    <3>1. \A s \in Requests : ~ Kept(s)
      BY <2>2, <2>5 DEF OneAnswer, Inside
    <3>2. Inside(r) /\ owns[r] /\ entry = Sentinel /\ \A s \in Requests : Inside(s) => s = r
      BY <2>2, <2>5 DEF OneInside, Inside
    <3>3. \A s \in Requests \ {r} : request'[s] = request[s] /\ answer'[s] = answer[s]
      BY <2>1 DEF IdemType
    <3>4. \A s \in Requests : Kept(s)' => s = r /\ kind = "kept" /\ request'[r] = "stores"
      BY <2>1, <3>1, <3>2, <3>3 DEF IdemType, Kept
    <3>5. \A s \in Requests : Inside(s)' => s = r
      BY <3>2, <3>3 DEF Inside
    <3>6. OneInside'
      BY <2>2, <3>2, <3>5 DEF OneInside
    <3>7. OneAnswer'
      BY <1>0, <2>2, <3>2, <3>4, <3>5 DEF OneAnswer
    <3> QED BY <2>4, <3>6, <3>7
  <2> QED BY <2>1, <2>4, <2>5
<1>5. ASSUME NEW r \in Requests, Store(r) PROVE IdemInv'
  <2>1. IdemType'
    BY <1>5 DEF Store, Moves, IdemType, Answers, Kept
  <2>2. CASE ~ astray
    <3>1. \A s \in Requests : Kept(s) => s = r
      BY <1>5, <2>2 DEF Store, OneAnswer, Inside
    <3>2. \A s \in Requests \ {r} : ~ Inside(s)
      BY <1>5, <2>2 DEF Store, OneInside, Inside
    <3> QED
      BY <1>0, <1>5, <2>1, <3>1, <3>2
      DEF Store, Moves, IdemType, OneInside, OneAnswer, Inside, Kept
  <2> QED BY <1>5, <2>1, <2>2 DEF Store
<1>6. ASSUME NEW r \in Requests, StoreLost(r) \/ Again(r) PROVE IdemInv'
  <2>1. Missing \in Answers
    BY DEF Missing, Answers
  <2>2. IdemType'
    <3>1. CASE StoreLost(r)
      BY <3>1 DEF StoreLost, Moves, IdemType
    <3>2. CASE Again(r)
      <4>1. answer' \in [Requests -> Answers] /\ owns' \in [Requests -> BOOLEAN]
        BY <2>1, <3>2 DEF Again, IdemType
      <4> QED BY <3>2, <4>1 DEF Again, Moves, IdemType
    <3> QED BY <1>6, <3>1, <3>2
  <2>3. \A s \in Requests : /\ Inside(s)' => Inside(s) /\ s # r
                            /\ Kept(s)' => Kept(s) /\ answer'[s] = answer[s]
    BY <1>0, <1>6 DEF StoreLost, Again, Moves, IdemType, Inside, Kept
  <2>4. \A s \in Requests \ {r} : owns'[s] = owns[s] /\ request'[s] = request[s]
    BY <1>6 DEF StoreLost, Again, Moves, IdemType
  <2>5. UNCHANGED <<entry, astray>>
    BY <1>6 DEF StoreLost, Again
  <2> QED BY <2>2, <2>3, <2>4, <2>5 DEF OneInside, OneAnswer
<1>7. CASE KeyExpires
  BY <1>7 DEF KeyExpires, IdemType
<1>8. CASE UNCHANGED idemVars
  BY <1>8 DEF idemVars, IdemType, OneInside, OneAnswer, Inside, Kept
<1> QED BY <1>1, <1>2, <1>3, <1>4, <1>5, <1>6, <1>7, <1>8 DEF IdemNext

\* Twins and retries are answered by one run of the handler (dispatch).
THEOREM OneRunAnswers == IdemSpec => []SameAnswer
<1>1. IdemInv => SameAnswer
  BY DEF IdemInv, OneAnswer, Kept, SameAnswer
<1> QED BY InitIdem, NextIdem, <1>1, PTL DEF IdemSpec

-----------------------------------------------------------------------------
(* The tenant cache *)

States == [at : {"asks", "gets", "produces", "fills", "done"},
           version : Nat, value : Nat, since : Nat]

\* Versions: one for each write announced, and room for those that are not.
RoomForVersions == version + Cardinality(pending) <= data

CacheType ==
  /\ data \in Nat /\ announced \in Nat /\ version \in Nat
  /\ announced <= data /\ data <= MaxWrites /\ version <= MaxWrites
  /\ entries \in [0..MaxWrites -> Nat]
  /\ \A v \in 0..MaxWrites : entries[v] <= data \/ entries[v] = NoEntry
  /\ pending \in SUBSET (1..data) 
  /\ reader \in [Readers -> States]
  /\ \A r \in Readers : /\ reader[r].version <= version
                        /\ reader[r].value <= data /\ reader[r].since <= announced
  /\ failed \in BOOLEAN

Begun(r) == reader[r].at # "asks"
Filled(v) == entries[v] # NoEntry

\* A version stands for the newest write announced when it began: its readers began
\* then, and what is cached under it knows that write.
Versioned ==
  /\ \A r \in Readers : Begun(r) =>
       /\ reader[r].version = version => reader[r].since = announced
       /\ \A q \in Readers :
            Begun(q) /\ reader[q].version = reader[r].version => reader[q].since = reader[r].since
       /\ Filled(reader[r].version) => entries[reader[r].version] >= reader[r].since
       /\ reader[r].at \in {"fills", "done"} => reader[r].value >= reader[r].since
  /\ Filled(version) => entries[version] >= announced
  /\ \A v \in 0..MaxWrites : v > version => ~ Filled(v)

CacheInv == CacheType /\ RoomForVersions /\ (failed \/ Versioned)

\* Nothing is cached, and nobody has asked.
LEMMA InitCache == CacheInit => CacheInv
<1> SUFFICES ASSUME CacheInit PROVE CacheInv
  OBVIOUS
<1> USE CacheAssumption
<1>1. Cardinality(pending) = 0
  BY FS_EmptySet DEF CacheInit
<1>2. CacheType
  <2>1. NoEntry \in Nat /\ Asks \in States /\ Asks.version = 0 /\ Asks.value = 0 /\ Asks.since = 0
    BY DEF NoEntry, Asks, States
  <2>2. /\ entries \in [0..MaxWrites -> Nat] /\ \A v \in 0..MaxWrites : entries[v] = NoEntry
        /\ reader \in [Readers -> States] /\ \A r \in Readers : reader[r] = Asks
    BY <2>1 DEF CacheInit
  <2>3. pending \in SUBSET (1..data)
    BY DEF CacheInit
  <2>4. /\ data = 0 /\ announced = 0 /\ version = 0 /\ failed = FALSE
    BY DEF CacheInit
  <2>5. 0 <= MaxWrites
    OBVIOUS
  <2>6. \A r \in Readers : /\ reader[r].version <= version
                          /\ reader[r].value <= data /\ reader[r].since <= announced
    BY <2>1, <2>2, <2>4
  <2>7. announced <= data /\ data <= MaxWrites /\ version <= MaxWrites
    BY <2>4, <2>5
  <2>8. \A v \in 0..MaxWrites : entries[v] <= data \/ entries[v] = NoEntry
    BY <2>2
  <2>9. data \in Nat /\ announced \in Nat /\ version \in Nat /\ failed \in BOOLEAN
    BY <2>4
  <2> QED BY <2>2, <2>3, <2>6, <2>7, <2>8, <2>9 DEF CacheType
<1>4. RoomForVersions
  BY <1>1 DEF CacheInit, RoomForVersions
<1>3. Versioned
  BY DEF CacheInit, Versioned, Asks, Begun, Filled
<1> QED BY <1>2, <1>3, <1>4 DEF CacheInv

\* A reader's step moves that reader alone; what it needs to know of the version it read.
LEMMA ReaderStep ==
  ASSUME CacheInv, NEW r \in Readers,
         NEW state \in States,
         state.version <= version, state.value <= data, state.since <= announced,
         ReaderIs(r, state), UNCHANGED <<data, announced, version, entries, pending>>,
         failed' \in BOOLEAN, failed => failed',
         ~ failed' /\ state.at # "asks" =>
           /\ state.version = version => state.since = announced
           /\ \A q \in Readers :
                Begun(q) /\ reader[q].version = state.version => reader[q].since = state.since
           /\ Filled(state.version) => entries[state.version] >= state.since
           /\ state.at \in {"fills", "done"} => state.value >= state.since
  PROVE  CacheInv'
<1>1. CacheType'
  BY DEF CacheInv, CacheType, ReaderIs, NoEntry
<1>2. ASSUME ~ failed' PROVE Versioned'
  <2>1. reader'[r] = state /\ \A q \in Readers \ {r} : reader'[q] = reader[q]
    BY DEF ReaderIs, CacheInv, CacheType
  <2>2. Versioned
    BY <1>2 DEF CacheInv
  <2>3. \A q \in Readers : (Begun(q))' =>
          /\ reader'[q].version = version => reader'[q].since = announced
          /\ Filled(reader'[q].version) => entries[reader'[q].version] >= reader'[q].since
          /\ reader'[q].at \in {"fills", "done"} => reader'[q].value >= reader'[q].since
    BY <1>2, <2>1, <2>2 DEF Versioned, Begun
  <2>4. \A q, p \in Readers : (Begun(q))' /\ (Begun(p))' /\ reader'[q].version = reader'[p].version
          => reader'[q].since = reader'[p].since
    BY <1>2, <2>1, <2>2 DEF Versioned, Begun
  <2> QED BY <2>2, <2>3, <2>4 DEF Versioned, Filled
<1>3. RoomForVersions'
  BY DEF CacheInv, RoomForVersions
<1> QED BY <1>1, <1>2, <1>3 DEF CacheInv, CacheType

\* What a version has room for.
LEMMA PendingWrites ==
  ASSUME CacheInv
  PROVE  IsFiniteSet(pending) /\ Cardinality(pending) \in Nat
<1>1. pending \in SUBSET (1..data) /\ 1 \in Int /\ data \in Int
  BY DEF CacheInv, CacheType
<1>2. IsFiniteSet(1..data)
  BY <1>1, FS_Interval
<1>3. IsFiniteSet(pending)
  BY <1>1, <1>2, FS_Subset
<1> QED BY <1>3, FS_CardinalityType

\* What is known of a version a reader has read.
LEMMA VersionRead ==
  ASSUME CacheInv, ~ failed, NEW r \in Readers, Begun(r)
  PROVE  /\ reader[r].version = version => reader[r].since = announced
         /\ \A q \in Readers : Begun(q) /\ reader[q].version = reader[r].version
                               => reader[q].since = reader[r].since
         /\ Filled(reader[r].version) => entries[reader[r].version] >= reader[r].since
         /\ reader[r].at \in {"fills", "done"} => reader[r].value >= reader[r].since
BY DEF CacheInv, Versioned

\* A reader's steps, all but the fill.
LEMMA ReaderSteps ==
  ASSUME CacheInv, NEW r \in Readers,
         ReadVersion(r) \/ GetEntry(r) \/ GetNothing(r) \/ Produce(r) \/ ReadAgain(r)
  PROVE  CacheInv'
<1> USE CacheAssumption
<1>0. CacheType
  BY DEF CacheInv
<1>a. reader[r] \in States /\ reader[r].version \in 0..MaxWrites /\ data \in Nat /\ announced \in Nat
  BY <1>0 DEF CacheType, States
<1>b. /\ reader[r].version <= version /\ reader[r].value <= data
      /\ reader[r].since <= announced /\ announced <= data
      /\ reader[r].since \in Nat /\ reader[r].value \in Nat /\ failed \in BOOLEAN /\ version \in Nat
  BY <1>0, <1>a DEF CacheType, States
<1>1. CASE ReadVersion(r)
  <2>1. PICK v \in {0, version} :
          /\ ReaderIs(r, [at |-> "gets", version |-> v, value |-> 0, since |-> announced])
          /\ failed' \in BOOLEAN /\ (failed => failed') /\ (~ failed' => v = version)
    BY <1>1, <1>b DEF ReadVersion
  <2>2. UNCHANGED <<data, announced, version, entries, pending>>
    BY <1>1 DEF ReadVersion
  <2>3. ~ failed' => /\ \A q \in Readers : Begun(q) /\ reader[q].version = version
                                           => reader[q].since = announced
                     /\ Filled(version) => entries[version] >= announced
    BY <2>1 DEF CacheInv, Versioned
  <2> DEFINE state == [at |-> "gets", version |-> v, value |-> 0, since |-> announced]
  <2>4. /\ state \in States /\ state.version <= version /\ state.value <= data
        /\ state.since <= announced
    BY <1>a, <1>b DEF States
  <2> QED BY <2>1, <2>2, <2>3, <2>4, ReaderStep
<1>2. CASE GetEntry(r) \/ GetNothing(r)
  <2>1. \/ entries[reader[r].version] = NoEntry
        \/ entries[reader[r].version] \in Nat /\ entries[reader[r].version] <= data
    BY <1>0, <1>a DEF CacheType
  <2>2. PICK at \in {"produces", "done"}, value \in Nat :
          /\ value <= data
          /\ ReaderIs(r, [reader[r] EXCEPT !.at = at, !.value = value])
          /\ at = "done" => Filled(reader[r].version) /\ value = entries[reader[r].version]
    <3>1. CASE Filled(reader[r].version) /\ GetEntry(r)
      BY <2>1, <3>1 DEF GetEntry, Filled
    <3>2. CASE ~ Filled(reader[r].version) \/ GetNothing(r)
      <4>1. [reader[r] EXCEPT !.at = "produces"]
              = [reader[r] EXCEPT !.at = "produces", !.value = reader[r].value]
        BY <1>a DEF States
      <4>2. ReaderIs(r, [reader[r] EXCEPT !.at = "produces"])
        BY <1>2, <3>2 DEF GetEntry, GetNothing, Filled
      <4> QED BY <1>b, <4>1, <4>2
    <3> QED BY <1>2, <3>1, <3>2
  <2>3. Begun(r) /\ UNCHANGED <<data, announced, version, entries, pending, failed>>
    BY <1>2 DEF GetEntry, GetNothing, Begun
  <2> DEFINE state == [reader[r] EXCEPT !.at = at, !.value = value]
  <2>4. /\ state \in States /\ state.version = reader[r].version
        /\ state.value = value /\ state.since = reader[r].since /\ state.at = at
    BY <1>a DEF States
  <2> HIDE DEF state
  <2>5. ReaderIs(r, state)
    BY <2>2 DEF state
  <2> QED BY <1>b, <2>2, <2>3, <2>4, <2>5, VersionRead, ReaderStep
<1>3. CASE Produce(r)
  <2>1. Begun(r) /\ UNCHANGED <<data, announced, version, entries, pending, failed>>
    BY <1>3 DEF Produce, Begun
  <2> DEFINE state == [reader[r] EXCEPT !.at = "fills", !.value = data]
  <2>2. ReaderIs(r, state)
    BY <1>3 DEF Produce
  <2>3. /\ state \in States /\ state.version = reader[r].version
        /\ state.value = data /\ state.since = reader[r].since /\ state.at = "fills"
    BY <1>a DEF States
  <2> HIDE DEF state
  <2>4. data >= reader[r].since /\ data <= data
    BY <1>a, <1>b
  <2> QED BY <1>b, <2>1, <2>2, <2>3, <2>4, VersionRead, ReaderStep
<1>4. CASE ReadAgain(r)
  <2>1. UNCHANGED <<data, announced, version, entries, pending, failed>> /\ ReaderIs(r, Asks)
    BY <1>4 DEF ReadAgain
  <2>2. /\ Asks \in States /\ Asks.at = "asks" /\ Asks.version <= version
        /\ Asks.value <= data /\ Asks.since <= announced
    BY <1>a, <1>b DEF Asks, States
  <2> QED BY <1>b, <2>1, <2>2, ReaderStep
<1> QED BY <1>1, <1>2, <1>3, <1>4

\* The fill: the value knows all that was announced when its version was read.
LEMMA FillStep == ASSUME CacheInv, NEW r \in Readers, SetEntry(r) PROVE CacheInv'
<1> USE CacheAssumption
<1>0. CacheType
  BY DEF CacheInv
<1>1. UNCHANGED <<data, announced, version, pending, failed>> /\ Begun(r)
  BY DEF SetEntry, Begun
<1>2. reader[r] \in States /\ reader[r].version \in 0..MaxWrites
      /\ reader[r].value \in Nat /\ reader[r].value <= data
  BY <1>0 DEF CacheType, States
<1>3. /\ entries' \in [0..MaxWrites -> Nat]
      /\ \A v \in 0..MaxWrites : entries'[v] # entries[v] =>
                                   v = reader[r].version /\ entries'[v] = reader[r].value
  BY <1>0, <1>2 DEF SetEntry, CacheType
<1>4. /\ reader' \in [Readers -> States]
      /\ \A q \in Readers : /\ (Begun(q))' <=> Begun(q)
                            /\ reader'[q].version = reader[q].version
                            /\ reader'[q].value = reader[q].value
                            /\ reader'[q].since = reader[q].since
                            /\ q = r \/ reader'[q].at = reader[q].at
  <2>1. reader' = [reader EXCEPT ![r] = [reader[r] EXCEPT !.at = "done"]] /\ Begun(r)
    BY <1>1 DEF SetEntry, ReaderIs
  <2>2. [reader[r] EXCEPT !.at = "done"] \in States
    BY <1>2 DEF States
  <2>3. reader \in [Readers -> States]
    BY <1>0 DEF CacheType
  <2> QED BY <1>2, <2>1, <2>2, <2>3 DEF Begun, States
<1>5. CacheType'
  BY <1>0, <1>1, <1>2, <1>3, <1>4 DEF CacheType, NoEntry
<1>6. ASSUME ~ failed PROVE Versioned'
  <2>1. Versioned
    BY <1>6 DEF CacheInv
  <2>2. /\ reader[r].value >= reader[r].since
        /\ reader[r].version = version => reader[r].since = announced
        /\ \A q \in Readers : Begun(q) /\ reader[q].version = reader[r].version
                              => reader[q].since = reader[r].since
    BY <1>1, <1>6, VersionRead DEF SetEntry
  <2>3. \A q \in Readers : (Begun(q))' =>
          /\ reader'[q].version = version' => reader'[q].since = announced'
          /\ \A p \in Readers : (Begun(p))' /\ reader'[p].version = reader'[q].version
                                => reader'[p].since = reader'[q].since
          /\ reader'[q].at \in {"fills", "done"} => reader'[q].value >= reader'[q].since
    BY <1>1, <1>4, <2>1, <2>2 DEF Versioned
  <2>4. ASSUME NEW q \in Readers, (Begun(q))', entries'[reader'[q].version] # NoEntry
        PROVE  entries'[reader'[q].version] >= reader'[q].since
    <3>1. reader[q].version \in 0..MaxWrites
      BY <1>0 DEF CacheType, States
    <3>2. Begun(q) /\ reader'[q].version = reader[q].version /\ reader'[q].since = reader[q].since
      BY <1>4, <2>4
    <3>3. CASE entries'[reader[q].version] = entries[reader[q].version]
      BY <2>1, <2>4, <3>2, <3>3 DEF Versioned, Filled
    <3>4. CASE reader[q].version = reader[r].version /\ entries'[reader[q].version] = reader[r].value
      BY <2>2, <3>2, <3>4
    <3> QED BY <1>3, <3>1, <3>3, <3>4
  <2>5. version \in 0..MaxWrites
    BY <1>0 DEF CacheType
  <2>6. entries'[version] # NoEntry => entries'[version] >= announced
    BY <1>3, <2>1, <2>2, <2>5 DEF Versioned, Filled
  <2>7. reader[r].version <= version
    BY <1>0 DEF CacheType
  <2>8. \A v \in 0..MaxWrites : v > version => entries'[v] = NoEntry
    BY <1>2, <1>3, <2>1, <2>5, <2>7 DEF Versioned, Filled
  <2> QED BY <1>1, <2>3, <2>4, <2>6, <2>8 DEF Versioned, Filled, NoEntry
<1> QED BY <1>1, <1>5, <1>6 DEF CacheInv, CacheType, RoomForVersions

\* A write commits: it has its invalidation to come.
LEMMA CommitStep == CacheInv /\ CommitWrite => CacheInv'
<1> SUFFICES ASSUME CacheInv, CommitWrite PROVE CacheInv'
  OBVIOUS
<1> USE CacheAssumption
<1>0. CacheType
  BY DEF CacheInv
<1>1. /\ data' = data + 1 /\ data < MaxWrites /\ pending' = pending \cup {data + 1}
      /\ UNCHANGED <<announced, version, entries, reader, failed>>
  BY DEF CommitWrite
<1>2. data + 1 \notin pending /\ data \in Nat /\ version \in Nat
  BY <1>0 DEF CacheType
<1>3. Cardinality(pending') = Cardinality(pending) + 1
  BY <1>1, <1>2, PendingWrites, FS_AddElement
<1>4. RoomForVersions'
  <2>1. version + Cardinality(pending) <= data /\ Cardinality(pending) \in Nat
    BY PendingWrites DEF CacheInv, RoomForVersions
  <2>2. version + Cardinality(pending') <= data + 1
    BY <1>2, <1>3, <2>1
  <2> QED BY <1>1, <2>2 DEF RoomForVersions
<1>5. CacheType'
  <2>1. data' \in Nat /\ announced <= data' /\ data' <= MaxWrites /\ data <= data'
    BY <1>0, <1>1, <1>2 DEF CacheType
  <2>2. \A v \in 0..MaxWrites : entries[v] <= data' \/ entries[v] = NoEntry
    BY <1>0, <1>2, <2>1 DEF CacheType
  <2>3. \A r \in Readers : reader[r].value <= data'
    BY <1>0, <1>2, <2>1 DEF CacheType, States
  <2>4. pending' \in SUBSET (1..data')
    BY <1>0, <1>1, <1>2 DEF CacheType
  <2> QED BY <1>0, <1>1, <2>1, <2>2, <2>3, <2>4 DEF CacheType, NoEntry
<1>6. failed \/ Versioned'
  BY <1>1 DEF CacheInv, Versioned, Begun, Filled, NoEntry
<1> QED BY <1>1, <1>4, <1>5, <1>6 DEF CacheInv

\* An invalidation: nobody has read the new version, and nothing is cached under it.
LEMMA InvalidateStep ==
  ASSUME CacheInv, NEW w \in pending, Invalidate(w)
  PROVE  CacheInv'
<1> USE CacheAssumption
<1>0. CacheType
  BY DEF CacheInv
<1>1. /\ Cardinality(pending \ {w}) = Cardinality(pending) - 1
      /\ Cardinality(pending \ {w}) \in Nat /\ Cardinality(pending) \in Nat
  <2>1. IsFiniteSet(pending) /\ Cardinality(pending) \in Nat
    BY PendingWrites
  <2>2. /\ IsFiniteSet(pending \ {w})
        /\ Cardinality(pending \ {w}) = Cardinality(pending) - 1
    BY <2>1, FS_RemoveElement
  <2> QED BY <2>1, <2>2, FS_CardinalityType
<1>2. /\ pending' = pending \ {w} /\ UNCHANGED <<data, entries, reader>>
      /\ \/ version' = version + 1 /\ failed' = failed
         \/ version' = version /\ failed' = TRUE
  BY DEF Invalidate
<1>3. data \in Nat /\ version \in Nat /\ announced \in Nat /\ data <= MaxWrites /\ w \in 1..data
  BY <1>0 DEF CacheType
<1>4. version + Cardinality(pending) <= data
  BY DEF CacheInv, RoomForVersions
<1>5. version' \in Nat /\ version <= version' /\ version' + Cardinality(pending \ {w}) <= data
  BY <1>1, <1>2, <1>3, <1>4
<1>6. version' <= MaxWrites
  BY <1>1, <1>3, <1>5
<1>7. announced' \in Nat /\ announced' <= data /\ announced <= announced'
  BY <1>0, <1>3 DEF Invalidate, CacheType
<1>8. CacheType'
  <2>1. failed' \in BOOLEAN
    BY <1>0, <1>2 DEF CacheType
  <2>2. pending' \in SUBSET (1..data')
    BY <1>0, <1>2 DEF CacheType
  <2>3. \A r \in Readers : reader'[r].version <= version' /\ reader'[r].since <= announced'
    BY <1>0, <1>2, <1>3, <1>5, <1>7 DEF CacheType, States
  <2> QED BY <1>0, <1>2, <1>5, <1>6, <1>7, <2>1, <2>2, <2>3 DEF CacheType, NoEntry
<1>9. ASSUME ~ failed' PROVE Versioned'
  <2>1. version' = version + 1 /\ Versioned
    BY <1>2, <1>9 DEF CacheInv
  <2>2. \A r \in Readers : reader[r].version # version + 1
    BY <1>0, <1>3 DEF CacheType, States
  <2>3. ~ Filled(version + 1)
    BY <1>3, <1>6, <2>1 DEF Versioned
  <2>4. \A v \in 0..MaxWrites : v > version + 1 => ~ Filled(v)
    BY <1>3, <2>1 DEF Versioned
  <2> QED
    BY <1>2, <2>1, <2>2, <2>3, <2>4 DEF Versioned, Begun, Filled, NoEntry
<1>10. RoomForVersions'
  BY <1>2, <1>5 DEF RoomForVersions
<1> QED BY <1>8, <1>9, <1>10 DEF CacheInv, CacheType

\* Every step keeps the cache's invariant.
LEMMA NextCache == CacheInv /\ [CacheNext]_cacheVars => CacheInv'
<1>1. CacheInv /\ UNCHANGED cacheVars => CacheInv'
  BY DEF cacheVars, CacheInv, CacheType, RoomForVersions, Versioned, Begun, Filled, NoEntry
<1> QED BY <1>1, ReaderSteps, FillStep, CommitStep, InvalidateStep DEF CacheNext

\* Who asks after a write was announced reads an answer that knows it
\* (get_or_set, invalidate_tenant).
THEOREM CacheKnowsAnnouncedWrites == CacheSpec => []FreshAfterInvalidation
<1>1. CacheInv => FreshAfterInvalidation
  BY DEF CacheInv, Versioned, Begun, FreshAfterInvalidation
<1> QED BY InitCache, NextCache, <1>1, PTL DEF CacheSpec

-----------------------------------------------------------------------------
(* A tenant's settings *)

Documents == [ai : Levels \cup {"none"}, stamp : Nat, other : Writers \cup {"none"}]
Ticks == [at : {"idle", "listed", "sent", "stamps"}, day : Nat, read : Documents]

SettingsType ==
  /\ settings \in Documents /\ holds \in [Writers -> Documents]
  /\ digest \in [DigestTickers -> Ticks]
  /\ today \in Nat /\ 1 <= today /\ today <= LastDay
  /\ sends \in [1..LastDay -> Nat]

Underway(t) == digest[t].at # "idle"
Owes(t) == digest[t].at \in {"sent", "stamps"}

\* No document says more than today, and nothing was sent on a day to come.
NothingAhead ==
  /\ settings.stamp <= today
  /\ \A w \in Writers : holds[w].stamp <= today
  /\ \A t \in DigestTickers : digest[t].read.stamp <= today /\ digest[t].day <= today
  /\ \A d \in 1..LastDay : d > today => sends[d] = 0

\* A day's digest is stamped, or owed a stamp by the one tick there is; a tick that has
\* not sent yet knows today's stamp.
Stamped ==
  /\ \A t, u \in DigestTickers : Underway(t) /\ Underway(u) => t = u
  /\ \A d \in 1..LastDay : sends[d] <= 1
  /\ \A d \in 1..LastDay : sends[d] # 0 =>
       settings.stamp >= d \/ \E t \in DigestTickers : Owes(t) /\ digest[t].day = d
  /\ \A t \in DigestTickers :
       /\ digest[t].at = "listed" /\ sends[today] # 0 => digest[t].read.stamp = today
       /\ digest[t].at = "stamps" => digest[t].read.stamp <= settings.stamp

SettingsInv == SettingsType /\ NothingAhead /\ (slipped = {} => Stamped)

\* No tick has run.
LEMMA InitSettings == SettingsInit => SettingsInv
<1> SUFFICES ASSUME SettingsInit PROVE SettingsInv
  OBVIOUS
<1> USE SettingsAssumption
<1>1. PICK l \in Levels : settings = [ai |-> l, stamp |-> 0, other |-> "none"]
  BY DEF SettingsInit
<1>2. /\ NoDocument \in Documents /\ NoDocument.stamp = 0
      /\ Idle \in Ticks /\ Idle.at = "idle" /\ Idle.day = 0 /\ Idle.read = NoDocument
  BY DEF NoDocument, Idle, Documents, Ticks
<1>3. settings \in Documents /\ settings.stamp = 0
  BY <1>1 DEF Documents
<1>4. /\ holds \in [Writers -> Documents] /\ \A w \in Writers : holds[w].stamp = 0
      /\ digest \in [DigestTickers -> Ticks] /\ \A t \in DigestTickers : digest[t] = Idle
      /\ sends \in [1..LastDay -> Nat] /\ \A d \in 1..LastDay : sends[d] = 0
      /\ today = 1 /\ slipped = {}
  <2>1. /\ holds = [w \in Writers |-> NoDocument] /\ digest = [t \in DigestTickers |-> Idle]
        /\ sends = [d \in 1..LastDay |-> 0] /\ today = 1 /\ slipped = {}
    BY DEF SettingsInit
  <2>2. holds \in [Writers -> Documents] /\ \A w \in Writers : holds[w].stamp = 0
    BY <1>2, <2>1
  <2>3. digest \in [DigestTickers -> Ticks] /\ \A t \in DigestTickers : digest[t] = Idle
    BY <1>2, <2>1
  <2>4. sends \in [1..LastDay -> Nat] /\ \A d \in 1..LastDay : sends[d] = 0
    BY <2>1
  <2> QED BY <2>1, <2>2, <2>3, <2>4
<1>5. SettingsType
  <2>1. today \in Nat /\ 1 <= today /\ today <= LastDay
    BY <1>4
  <2> QED BY <1>3, <1>4, <2>1 DEF SettingsType
<1>6. NothingAhead
  BY <1>2, <1>3, <1>4 DEF NothingAhead
<1>7. Stamped
  BY <1>2, <1>4 DEF Stamped, Underway, Owes
<1> QED BY <1>5, <1>6, <1>7 DEF SettingsInv

\* A write of the whole document takes a stamp back only by a slip.
LEMMA WritesKeepTheStamp ==
  ASSUME SettingsType, NEW read \in Documents, NEW new \in Documents, Writes(read, new)
  PROVE  /\ \/ settings' = settings /\ new = read
            \/ settings' = new
         /\ settings' \in Documents /\ (slipped # {} => slipped' # {})
         /\ slipped' = {} => settings'.stamp >= settings.stamp
<1>1. settings.stamp \in Nat /\ settings \in Documents /\ new.stamp \in Nat
  BY DEF SettingsType, Documents
<1>2. CASE new = read
  BY <1>1, <1>2 DEF Writes
<1>3. CASE new # read
  <2>1. settings' = new
    BY <1>3 DEF Writes
  <2>2. slipped' = IF new.stamp < settings.stamp THEN slipped \cup {"stamp"} ELSE slipped
    BY <1>3 DEF Writes
  <2> QED BY <1>1, <2>1, <2>2
<1> QED BY <1>2, <1>3

\* Who writes while no tick moves leaves what the ticks rely on.
LEMMA RequestStep ==
  ASSUME SettingsInv, settings' \in Documents, settings'.stamp <= today,
         holds' \in [Writers -> Documents], \A w \in Writers : holds'[w].stamp <= today,
         UNCHANGED <<digest, today, sends>>,
         slipped # {} => slipped' # {}, slipped' = {} => settings'.stamp >= settings.stamp
  PROVE  SettingsInv'
<1>1. SettingsType'
  BY DEF SettingsInv, SettingsType
<1>2. NothingAhead'
  BY DEF SettingsInv, NothingAhead
<1>3. ASSUME slipped' = {} PROVE Stamped'
  <2>1. /\ settings.stamp \in Nat /\ settings'.stamp \in Nat /\ settings.stamp <= settings'.stamp
        /\ \A t \in DigestTickers : digest[t].read.stamp \in Nat
    BY <1>3 DEF SettingsInv, SettingsType, Documents, Ticks
  <2>2. Stamped
    BY <1>3 DEF SettingsInv
  <2>3. \A d \in 1..LastDay : sends[d] # 0 =>
          settings'.stamp >= d \/ \E t \in DigestTickers : Owes(t) /\ digest[t].day = d
    BY <2>1, <2>2 DEF Stamped
  <2>4. \A t \in DigestTickers : digest[t].at = "stamps" => digest[t].read.stamp <= settings'.stamp
    BY <2>1, <2>2 DEF Stamped
  <2> QED BY <2>2, <2>3, <2>4 DEF Stamped, Underway, Owes
<1> QED BY <1>1, <1>2, <1>3 DEF SettingsInv, SettingsType

\* The policy and the routes.
LEMMA RequestSteps ==
  ASSUME SettingsInv,
         \/ \E l \in Levels : ChangePolicy(l)
         \/ \E w \in Writers : RouteReads(w) \/ RouteWrites(w)
  PROVE  SettingsInv'
<1>0. SettingsType /\ NothingAhead
  BY DEF SettingsInv
<1>a. /\ settings \in Documents /\ settings.stamp \in Nat /\ today \in Nat
      /\ holds \in [Writers -> Documents] /\ settings.stamp <= today
      /\ \A w \in Writers : holds[w].stamp <= today
  BY <1>0 DEF SettingsType, NothingAhead, Documents
<1>1. ASSUME NEW l \in Levels, ChangePolicy(l) PROVE SettingsInv'
  <2>1. settings' = [settings EXCEPT !.ai = l] /\ UNCHANGED <<holds, digest, today, sends, slipped>>
    BY <1>1 DEF ChangePolicy
  <2>2. settings' \in Documents /\ settings'.stamp = settings.stamp
    BY <1>a, <2>1 DEF Documents
  <2> QED BY <1>a, <2>1, <2>2, RequestStep
<1>2. ASSUME NEW w \in Writers, RouteReads(w) PROVE SettingsInv'
  <2>1. holds' = [holds EXCEPT ![w] = settings]
        /\ UNCHANGED <<settings, digest, today, sends, slipped>>
    BY <1>2 DEF RouteReads
  <2> QED BY <1>a, <2>1, RequestStep
<1>3. ASSUME NEW w \in Writers, RouteWrites(w) PROVE SettingsInv'
  <2>1. PICK new \in Documents : /\ new = [holds[w] EXCEPT !.other = w]
                                 /\ new.stamp = holds[w].stamp
    <3>1. holds[w] \in Documents
      BY <1>a
    <3>2. [holds[w] EXCEPT !.other = w] \in Documents
      BY <3>1 DEF Documents
    <3>3. [holds[w] EXCEPT !.other = w].stamp = holds[w].stamp
      BY <3>1 DEF Documents
    <3> QED BY <3>2, <3>3
  <2>2. /\ Writes(holds[w], new) /\ holds' = [holds EXCEPT ![w] = NoDocument]
        /\ UNCHANGED <<digest, today, sends>>
    BY <1>3, <2>1 DEF RouteWrites
  <2>3. NoDocument \in Documents /\ NoDocument.stamp = 0
    BY DEF NoDocument, Documents
  <2>4. settings'.stamp <= today
    BY <1>0, <1>a, <2>1, <2>2, WritesKeepTheStamp
  <2>5. holds' \in [Writers -> Documents] /\ \A v \in Writers : holds'[v].stamp <= today
    BY <1>a, <2>2, <2>3
  <2> QED BY <1>0, <1>a, <2>1, <2>2, <2>4, <2>5, WritesKeepTheStamp, RequestStep
<1> QED BY <1>1, <1>2, <1>3

\* A tick of its own: the others are idle, and nothing is owed but by it.
LEMMA TickStep ==
  ASSUME SettingsInv, NEW t \in DigestTickers, NEW state \in Ticks,
         digest' = [digest EXCEPT ![t] = state], UNCHANGED <<holds, today>>,
         state.day <= today, state.read.stamp <= today,
         settings' \in Documents, settings'.stamp <= today,
         sends' \in [1..LastDay -> Nat], \A d \in 1..LastDay : d > today => sends'[d] = 0,
         slipped # {} => slipped' # {},
         slipped' = {} =>
           /\ \A u \in DigestTickers \ {t} : Underway(u) => state.at = "idle"
           /\ \A u \in DigestTickers \ {t} : Underway(u) =>
                settings' = settings /\ sends' = sends /\ ~ Owes(t)
           /\ \A d \in 1..LastDay : sends'[d] <= 1
           /\ (\A u \in DigestTickers \ {t} : ~ Underway(u)) =>
                \A d \in 1..LastDay : sends'[d] # 0 =>
                  settings'.stamp >= d \/ (state.at \in {"sent", "stamps"} /\ state.day = d)
           /\ state.at = "listed" /\ sends'[today] # 0 => state.read.stamp = today
           /\ state.at = "stamps" => state.read.stamp <= settings'.stamp
  PROVE  SettingsInv'
<1>0. SettingsType /\ NothingAhead
  BY DEF SettingsInv
<1>1. /\ digest'[t] = state /\ \A u \in DigestTickers \ {t} : digest'[u] = digest[u]
      /\ digest' \in [DigestTickers -> Ticks]
  BY <1>0 DEF SettingsType
<1>2. SettingsType'
  BY <1>0, <1>1 DEF SettingsType
<1>3. NothingAhead'
  BY <1>0, <1>1 DEF NothingAhead
<1>4. ASSUME slipped' = {} PROVE Stamped'
  <2>1. Stamped
    BY <1>4 DEF SettingsInv
  <2>2. \A u \in DigestTickers \ {t} : /\ Underway(u)' <=> Underway(u)
                                       /\ Owes(u)' <=> Owes(u)
    BY <1>1 DEF Underway, Owes
  <2>3. /\ Underway(t)' <=> state.at # "idle"
        /\ Owes(t)' <=> state.at \in {"sent", "stamps"}
    BY <1>1 DEF Underway, Owes
  <2>4. \A u, v \in DigestTickers : Underway(u)' /\ Underway(v)' => u = v
    BY <1>4, <2>1, <2>2, <2>3 DEF Stamped
  <2>5. ASSUME NEW d \in 1..LastDay, sends'[d] # 0, ~ (settings'.stamp >= d)
        PROVE  \E u \in DigestTickers : Owes(u)' /\ digest'[u].day = d
    <3>1. CASE \A u \in DigestTickers \ {t} : ~ Underway(u)
      BY <1>1, <1>4, <2>3, <2>5, <3>1
    <3>2. ASSUME NEW u \in DigestTickers \ {t}, Underway(u)
          PROVE  \E v \in DigestTickers : Owes(v)' /\ digest'[v].day = d
      <4>1. settings' = settings /\ sends' = sends /\ ~ Owes(t)
        BY <1>4, <3>2
      <4>2. PICK v \in DigestTickers : Owes(v) /\ digest[v].day = d
        BY <2>1, <2>5, <4>1 DEF Stamped
      <4> QED BY <1>1, <2>2, <4>1, <4>2
    <3> QED BY <3>1, <3>2
  <2>6. ASSUME NEW u \in DigestTickers
        PROVE  /\ digest'[u].at = "listed" /\ sends'[today] # 0 => digest'[u].read.stamp = today
               /\ digest'[u].at = "stamps" => digest'[u].read.stamp <= settings'.stamp
    <3>1. CASE u = t
      <4>1. /\ state.at = "listed" /\ sends'[today] # 0 => state.read.stamp = today
            /\ state.at = "stamps" => state.read.stamp <= settings'.stamp
        BY <1>4
      <4>2. digest'[u] = state
        BY <1>1, <3>1
      <4> QED BY <4>1, <4>2
    <3>2. CASE u # t
      <4>1. digest'[u] = digest[u]
        BY <1>1, <3>2
      <4>2. Underway(u) => settings' = settings /\ sends' = sends
        BY <1>4, <3>2
      <4>3. /\ digest[u].at = "listed" /\ sends[today] # 0 => digest[u].read.stamp = today
            /\ digest[u].at = "stamps" => digest[u].read.stamp <= settings.stamp
        BY <2>1 DEF Stamped
      <4> QED BY <4>1, <4>2, <4>3 DEF Underway
    <3> QED BY <3>1, <3>2
  <2> QED BY <1>4, <2>4, <2>5, <2>6 DEF Stamped
<1> QED BY <1>2, <1>3, <1>4 DEF SettingsInv, SettingsType

\* A tick lists the tenants while no other tick is on its way, or slips.
LEMMA ListStep == ASSUME SettingsInv, NEW t \in DigestTickers, TickLists(t) PROVE SettingsInv'
<1>0. SettingsType /\ NothingAhead
  BY DEF SettingsInv
<1> DEFINE state == [at |-> "listed", day |-> 0, read |-> settings]
<1>1. /\ digest[t].at = "idle" /\ digest' = [digest EXCEPT ![t] = state]
      /\ slipped' = IF \E o \in DigestTickers : digest[o].at # "idle"
                    THEN slipped \cup {"overlap"} ELSE slipped
      /\ UNCHANGED <<settings, holds, today, sends>>
  BY DEF TickLists
<1>2. /\ settings \in Documents /\ settings.stamp \in Nat /\ settings.stamp <= today
      /\ today \in 1..LastDay /\ today \in Nat /\ sends \in [1..LastDay -> Nat]
      /\ \A d \in 1..LastDay : d > today => sends[d] = 0
  BY <1>0, SettingsAssumption DEF SettingsType, NothingAhead, Documents
<1>3. /\ state \in Ticks /\ state.at = "listed" /\ state.day <= today
      /\ state.read = settings
  BY <1>2 DEF Ticks
<1> HIDE DEF state
<1>4. slipped # {} => slipped' # {}
  BY <1>1
<1>5. ASSUME slipped' = {}
      PROVE  /\ \A u \in DigestTickers : ~ Underway(u)
             /\ \A d \in 1..LastDay : sends[d] <= 1
             /\ \A d \in 1..LastDay : sends[d] # 0 => settings.stamp >= d
  <2>1. Stamped /\ \A u \in DigestTickers : ~ Underway(u)
    BY <1>1, <1>5 DEF SettingsInv, Underway
  <2>2. \A u \in DigestTickers : ~ Owes(u)
    BY <2>1 DEF Underway, Owes
  <2> QED BY <2>1, <2>2 DEF Stamped
<1>6. slipped' = {} /\ sends[today] # 0 => settings.stamp = today
  BY <1>2, <1>5
<1> QED BY <1>1, <1>2, <1>3, <1>4, <1>5, <1>6, TickStep

\* A tick that leaves a tenant, or dies with nothing to stamp, owes nothing.
LEMMA LeaveStep ==
  ASSUME SettingsInv, NEW t \in DigestTickers, digest' = [digest EXCEPT ![t] = Idle],
         UNCHANGED <<settings, holds, today, sends>>,
         slipped # {} => slipped' # {}, slipped' = {} => ~ Owes(t)
  PROVE  SettingsInv'
<1>0. SettingsType /\ NothingAhead
  BY DEF SettingsInv
<1>1. /\ settings \in Documents /\ settings.stamp <= today /\ today \in Nat
      /\ sends \in [1..LastDay -> Nat] /\ \A d \in 1..LastDay : d > today => sends[d] = 0
  BY <1>0 DEF SettingsType, NothingAhead
<1>2. /\ Idle \in Ticks /\ Idle.at = "idle" /\ Idle.day <= today /\ Idle.read.stamp <= today
  BY <1>1 DEF Idle, NoDocument, Documents, Ticks
<1>3. ASSUME slipped' = {}
      PROVE  /\ \A d \in 1..LastDay : sends[d] <= 1
             /\ (\A u \in DigestTickers \ {t} : ~ Underway(u)) =>
                  \A d \in 1..LastDay : sends[d] # 0 => settings.stamp >= d
  <2>1. Stamped /\ ~ Owes(t)
    BY <1>3 DEF SettingsInv
  <2>2. (\A u \in DigestTickers \ {t} : ~ Underway(u)) => \A u \in DigestTickers : ~ Owes(u)
    BY <2>1 DEF Underway, Owes
  <2> QED BY <2>1, <2>2 DEF Stamped
<1> QED BY <1>1, <1>2, <1>3, TickStep

\* A digest is sent on a day that has none.
LEMMA SendStep == ASSUME SettingsInv, NEW t \in DigestTickers, Send(t) PROVE SettingsInv'
<1>0. SettingsType /\ NothingAhead
  BY DEF SettingsInv
<1>1. CASE digest' = [digest EXCEPT ![t] = Idle] /\ UNCHANGED sends
  <2>1. ~ Owes(t) /\ UNCHANGED <<settings, holds, today, slipped>>
    BY DEF Send, DueToday, Owes
  <2> QED BY <1>1, <2>1, LeaveStep
<1>2. CASE /\ digest' = [digest EXCEPT ![t] = [Idle EXCEPT !.at = "sent", !.day = today]]
           /\ sends' = [sends EXCEPT ![today] = IF @ < 2 THEN @ + 1 ELSE @]
  <2> DEFINE state == [Idle EXCEPT !.at = "sent", !.day = today]
  <2>1. /\ settings \in Documents /\ settings.stamp <= today /\ today \in Nat /\ today \in 1..LastDay
        /\ sends \in [1..LastDay -> Nat] /\ \A d \in 1..LastDay : d > today => sends[d] = 0
       
    BY <1>0, SettingsAssumption DEF SettingsType, NothingAhead
  <2>2. /\ state \in Ticks /\ state.at = "sent" /\ state.day = today /\ state.read.stamp <= today
    <3>1. NoDocument \in Documents /\ NoDocument.stamp = 0
      BY DEF NoDocument, Documents
    <3>2. Idle \in Ticks /\ Idle.read = NoDocument
      BY <3>1 DEF Idle, Ticks
    <3>3. state.at = "sent" /\ state.day = today /\ state.read = NoDocument
      BY <3>2 DEF Ticks
    <3>4. state \in Ticks
      BY <2>1, <3>2 DEF Ticks
    <3>5. state.read.stamp <= today
      BY <2>1, <3>1, <3>3
    <3> QED BY <3>3, <3>4, <3>5
  <2> HIDE DEF state
  <2>3. /\ digest[t].at = "listed" /\ digest[t].read.stamp # today
        /\ UNCHANGED <<settings, holds, today, slipped>>
    BY DEF Send, DueToday
  <2>4. /\ sends' \in [1..LastDay -> Nat] /\ \A d \in 1..LastDay : d # today => sends'[d] = sends[d]
        /\ sends[today] = 0 => sends'[today] = 1
    BY <1>2, <2>1
  <2>5. ASSUME slipped = {}
        PROVE  /\ \A u \in DigestTickers \ {t} : ~ Underway(u)
               /\ \A d \in 1..LastDay : sends'[d] <= 1
               /\ \A d \in 1..LastDay : sends'[d] # 0 => settings.stamp >= d \/ d = today
    <3>1. Stamped
      BY <2>5 DEF SettingsInv
    <3>2. sends[today] = 0
      BY <2>3, <3>1 DEF Stamped
    <3>3. \A u \in DigestTickers \ {t} : ~ Underway(u)
      BY <2>3, <3>1 DEF Stamped, Underway
    <3>4. \A u \in DigestTickers : ~ Owes(u)
      BY <2>3, <3>3 DEF Owes, Underway
    <3> QED BY <2>4, <3>1, <3>2, <3>3, <3>4 DEF Stamped
  <2>6. \A d \in 1..LastDay : d > today => sends'[d] = 0
    BY <2>1, <2>4
  <2>7. digest' = [digest EXCEPT ![t] = state]
    BY <1>2 DEF state
  <2>8. state.day <= today
    BY <2>1, <2>2
  <2> QED BY <2>1, <2>2, <2>3, <2>4, <2>5, <2>6, <2>7, <2>8, TickStep
<1> QED BY <1>1, <1>2 DEF Send

\* The stamp is read after sending, and what was read is not newer than what is there.
LEMMA StampReadStep ==
  ASSUME SettingsInv, NEW t \in DigestTickers, StampReads(t)
  PROVE  SettingsInv'
<1>0. SettingsType /\ NothingAhead
  BY DEF SettingsInv
<1> DEFINE state == [digest[t] EXCEPT !.at = "stamps", !.read = settings]
<1>1. /\ digest[t].at = "sent" /\ digest' = [digest EXCEPT ![t] = state]
      /\ UNCHANGED <<settings, holds, today, sends, slipped>>
  BY DEF StampReads
<1>2. /\ settings \in Documents /\ settings.stamp <= today /\ settings.stamp \in Nat
      /\ digest[t] \in Ticks /\ digest[t].day <= today
      /\ sends \in [1..LastDay -> Nat] /\ \A d \in 1..LastDay : d > today => sends[d] = 0
     
  BY <1>0 DEF SettingsType, NothingAhead, Documents
<1>3. state \in Ticks /\ state.at = "stamps" /\ state.day = digest[t].day /\ state.read = settings
  BY <1>2 DEF Ticks
<1> HIDE DEF state
<1>4. ASSUME slipped = {}
      PROVE  /\ \A u \in DigestTickers \ {t} : ~ Underway(u)
             /\ \A d \in 1..LastDay : sends[d] <= 1
             /\ \A d \in 1..LastDay : sends[d] # 0 => settings.stamp >= d \/ digest[t].day = d
  <2>1. Stamped
    BY <1>4 DEF SettingsInv
  <2>2. \A u \in DigestTickers \ {t} : ~ Underway(u)
    BY <1>1, <2>1 DEF Stamped, Underway
  <2>3. \A u \in DigestTickers \ {t} : ~ Owes(u)
    BY <2>2 DEF Owes, Underway
  <2> QED BY <2>1, <2>2, <2>3 DEF Stamped
<1>5. settings.stamp <= settings.stamp
  BY <1>2
<1> QED BY <1>1, <1>2, <1>3, <1>4, <1>5, TickStep

\* The stamp is written: the day is no longer owed.
LEMMA StampWriteStep ==
  ASSUME SettingsInv, NEW t \in DigestTickers, StampWrites(t)
  PROVE  SettingsInv'
<1>0. SettingsType /\ NothingAhead
  BY DEF SettingsInv
<1>1. /\ digest[t].at = "stamps" /\ digest' = [digest EXCEPT ![t] = Idle]
      /\ Writes(digest[t].read, [digest[t].read EXCEPT !.stamp = digest[t].day])
      /\ UNCHANGED <<holds, today, sends>>
  BY DEF StampWrites
<1>2. /\ settings.stamp \in Nat /\ settings.stamp <= today /\ today \in Nat
      /\ digest[t] \in Ticks /\ digest[t].day \in Nat /\ digest[t].read \in Documents
      /\ digest[t].day <= today
      /\ sends \in [1..LastDay -> Nat] /\ \A d \in 1..LastDay : d > today => sends[d] = 0
  BY <1>0 DEF SettingsType, NothingAhead, Documents, Ticks
<1>3. PICK new \in Documents : /\ new = [digest[t].read EXCEPT !.stamp = digest[t].day]
                               /\ new.stamp = digest[t].day
  <2>1. [digest[t].read EXCEPT !.stamp = digest[t].day] \in Documents
    BY <1>2 DEF Documents
  <2>2. [digest[t].read EXCEPT !.stamp = digest[t].day].stamp = digest[t].day
    BY <1>2 DEF Documents
  <2> QED BY <2>1, <2>2
<1>4. /\ \/ settings' = settings /\ new = digest[t].read
         \/ settings' = new
      /\ settings' \in Documents /\ (slipped # {} => slipped' # {})
      /\ slipped' = {} => settings'.stamp >= settings.stamp
  BY <1>0, <1>1, <1>2, <1>3, WritesKeepTheStamp
<1>5. settings'.stamp <= today /\ settings'.stamp \in Nat
  BY <1>2, <1>3, <1>4
<1>6. /\ Idle \in Ticks /\ Idle.at = "idle" /\ Idle.day <= today /\ Idle.read.stamp <= today
  BY <1>2 DEF Idle, NoDocument, Documents, Ticks
<1>7. ASSUME slipped' = {}
      PROVE  /\ \A u \in DigestTickers \ {t} : ~ Underway(u)
             /\ \A d \in 1..LastDay : sends[d] <= 1
             /\ \A d \in 1..LastDay : sends[d] # 0 => settings'.stamp >= d
  <2>1. Stamped
    BY <1>4, <1>7 DEF SettingsInv
  <2>2. \A u \in DigestTickers \ {t} : ~ Underway(u)
    BY <1>1, <2>1 DEF Stamped, Underway
  <2>3. \A u \in DigestTickers \ {t} : ~ Owes(u)
    BY <2>2 DEF Owes, Underway
  <2>4. digest[t].read.stamp <= settings.stamp
    BY <1>1, <2>1 DEF Stamped
  <2>5. settings'.stamp >= digest[t].day /\ settings'.stamp >= settings.stamp
    <3>1. CASE settings' = settings /\ new = digest[t].read
      <4>1. digest[t].read.stamp = digest[t].day
        BY <1>3, <3>1
      <4>2. digest[t].day <= settings.stamp
        BY <2>4, <4>1
      <4> QED BY <1>2, <3>1, <4>2
    <3>2. CASE settings' = new
      <4>1. settings'.stamp = digest[t].day
        BY <1>3, <3>2
      <4> QED BY <1>2, <1>4, <1>7, <4>1
    <3> QED BY <1>4, <3>1, <3>2
  <2>6. \A d \in 1..LastDay : sends[d] # 0 => settings.stamp >= d \/ digest[t].day = d
    BY <2>1, <2>3 DEF Stamped
  <2>7. \A d \in 1..LastDay : sends[d] # 0 => settings'.stamp >= d
    BY <1>2, <1>5, <2>5, <2>6
  <2> QED BY <2>1, <2>2, <2>7 DEF Stamped
<1> QED BY <1>1, <1>2, <1>4, <1>5, <1>6, <1>7, TickStep

\* A new day: nothing has been sent on it.
LEMMA DayStep == SettingsInv /\ NextDay => SettingsInv'
<1> SUFFICES ASSUME SettingsInv, NextDay PROVE SettingsInv'
  OBVIOUS
<1>1. /\ today' = today + 1 /\ today < LastDay /\ LastDay \in Nat
      /\ UNCHANGED <<settings, holds, digest, sends, slipped>>
  BY SettingsAssumption DEF NextDay
<1>2. SettingsType /\ NothingAhead /\ today \in Nat
  BY DEF SettingsInv, SettingsType
<1>3. SettingsType'
  BY <1>1, <1>2 DEF SettingsType
<1>4. NothingAhead'
  BY <1>1, <1>2 DEF NothingAhead, SettingsType, Documents, Ticks
<1>5. sends[today + 1] = 0
  BY <1>1, <1>2 DEF NothingAhead
<1>6. Stamped => Stamped'
  BY <1>1, <1>5 DEF Stamped, Underway, Owes
<1> QED BY <1>1, <1>3, <1>4, <1>6 DEF SettingsInv

\* Every step keeps the settings' invariant.
LEMMA NextSettings == SettingsInv /\ [SettingsNext]_settingsVars => SettingsInv'
<1> SUFFICES ASSUME SettingsInv, [SettingsNext]_settingsVars PROVE SettingsInv'
  OBVIOUS
<1>1. ASSUME NEW t \in DigestTickers, SkipTenant(t) \/ TickDies(t) PROVE SettingsInv'
  <2>1. (slipped # {} => slipped' # {}) /\ (slipped' = {} => ~ Owes(t))
    <3>1. CASE SkipTenant(t)
      BY <3>1 DEF SkipTenant, Owes
    <3>2. CASE TickDies(t)
      BY <3>2 DEF TickDies, Owes
    <3> QED BY <1>1, <3>1, <3>2
  <2>2. digest' = [digest EXCEPT ![t] = Idle] /\ UNCHANGED <<settings, holds, today, sends>>
    BY <1>1 DEF SkipTenant, TickDies
  <2> QED BY <2>1, <2>2, LeaveStep
<1>2. CASE UNCHANGED settingsVars
  BY <1>2 DEF settingsVars, SettingsInv, SettingsType, NothingAhead, Stamped, Underway, Owes
<1> QED
  BY <1>1, <1>2, RequestSteps, ListStep, SendStep, StampReadStep, StampWriteStep, DayStep
  DEF SettingsNext

\* A workspace gets its digest at most once a day (tick, _send_for_tenant).
THEOREM OneDigestADay == SettingsSpec => []SentOnceADay
<1>1. SettingsInv => SentOnceADay
  BY DEF SettingsInv, Stamped, SentOnceADay
<1> QED BY InitSettings, NextSettings, <1>1, PTL DEF SettingsSpec

-----------------------------------------------------------------------------
(* Email delivery *)

MailStates == {"none", "claimed", "sending", "sent", "failed", "ambiguous"}
Places == {"new", "connect", "asks", "data", "sent", "failed", "ambiguous", "done"}

EmailType ==
  /\ delivery \in [state : MailStates, holder : Calls \cup {NoCall}, live : BOOLEAN,
                   attempts : Nat, message : Messages]
  /\ content \in [Calls -> Messages]
  /\ call \in [Calls -> Places]
  /\ leave \in [Calls -> {"none", "asked", "given", "denied"}]
  /\ accepted \in [Calls -> BOOLEAN]

\* A call that was given leave and has not yet sent its data has the row, durably at
\* sending; nobody's message was taken before.
MaySend(c) == call[c] = "data" \/ (call[c] = "asks" /\ leave[c] = "given")

Reserved(c) ==
  MaySend(c) =>
    /\ delivery.state = "sending" /\ delivery.holder = c
    /\ \A d \in Calls : ~ accepted[d]

\* Whose message was taken keeps the row, which nobody may claim any more.
Taken(c) ==
  accepted[c] =>
    /\ call[c] \in {"sent", "ambiguous", "done"}
    /\ delivery.holder = c /\ delivery.state \in {"sending", "sent", "ambiguous"}

EmailInv ==
  /\ EmailType /\ RecordIsTrue
  /\ \A c \in Calls : Reserved(c) /\ Taken(c) /\ (call[c] = "sent" => accepted[c])

\* No call has claimed the delivery at first.
LEMMA InitEmail == EmailInit => EmailInv
<1> SUFFICES ASSUME EmailInit PROVE EmailInv
  OBVIOUS
<1>1. (CHOOSE m \in Messages : TRUE) \in Messages
  BY EmailAssumption
<1>2. EmailType
  BY <1>1 DEF EmailInit, EmailType, MailStates, Places
<1> QED BY <1>2 DEF EmailInit, EmailInv, Reserved, MaySend, Taken, RecordIsTrue

\* A row that is claimed again has had no message taken, and nobody has leave on it.
LEMMA ClaimSafe == ASSUME EmailInv, NEW c \in Calls, Claim(c) PROVE EmailInv'
<1> USE DEF EmailInv
<1>1. /\ delivery.state \in {"none", "failed", "claimed"} /\ call[c] = "new"
      /\ UNCHANGED <<content, leave, accepted>> /\ call' = [call EXCEPT ![c] = "connect"]
      /\ delivery' = [state |-> "claimed", holder |-> c, live |-> TRUE,
                      attempts |-> delivery.attempts + 1, message |-> content[c]]
  BY DEF Claim, Claimed, Recoverable, GoesTo
<1>2. \A d \in Calls : ~ accepted[d] /\ ~ MaySend(d)
  BY <1>1 DEF Reserved, Taken
<1>3. EmailType'
  BY <1>1 DEF EmailType, MailStates, Places
<1> QED BY <1>1, <1>2, <1>3 DEF EmailType, Reserved, MaySend, Taken, RecordIsTrue

\* Only a call that still holds the row, claimed and live, is given leave.
LEMMA BeginSafe == ASSUME EmailInv, NEW c \in Calls, BeginDispatch(c) PROVE EmailInv'
<1> USE DEF EmailInv
<1>1. CASE /\ delivery.state = "claimed" /\ delivery.holder = c
           /\ delivery' = [delivery EXCEPT !.state = "sending", !.live = FALSE]
           /\ leave' = [leave EXCEPT ![c] = "given"]
  <2>1. \A d \in Calls : ~ accepted[d] /\ ~ MaySend(d)
    BY <1>1 DEF Reserved, Taken
  <2>2. EmailType'
    BY <1>1 DEF BeginDispatch, EmailType, MailStates
  <2> QED
    BY <1>1, <2>1, <2>2 DEF BeginDispatch, EmailType, Reserved, MaySend, Taken, RecordIsTrue
<1>2. CASE delivery' = delivery /\ leave' = [leave EXCEPT ![c] = "denied"]
  BY <1>2 DEF BeginDispatch, EmailType, Reserved, MaySend, Taken, RecordIsTrue
<1> QED BY <1>1, <1>2 DEF BeginDispatch

\* The server takes a message only from the call with leave, once.
LEMMA SendSafe == ASSUME EmailInv, NEW c \in Calls, SendData(c) PROVE EmailInv'
<1> USE DEF EmailInv
<1>1. /\ call[c] = "data" /\ delivery.state = "sending" /\ delivery.holder = c
      /\ \A d \in Calls : ~ accepted[d]
      /\ \A d \in Calls \ {c} : ~ MaySend(d)
  BY DEF SendData, Reserved, MaySend
<1>2. EmailType'
  BY DEF SendData, GoesTo, EmailType, Places
<1> QED
  BY <1>1, <1>2 DEF SendData, GoesTo, EmailType, Reserved, MaySend, Taken, RecordIsTrue

\* A result reaches the row only from the call that holds it.
LEMMA RecordSafe == ASSUME EmailInv, NEW c \in Calls, Record(c) PROVE EmailInv'
<1> USE DEF EmailInv
<1>1. EmailType'
  BY DEF Record, GoesTo, EmailType, Places, MailStates
<1>2. CASE delivery.holder = c
  <2>1. /\ call[c] \in {"sent", "failed", "ambiguous"}
        /\ delivery'.state = call[c] /\ delivery'.holder = c
        /\ call' = [call EXCEPT ![c] = "done"] /\ UNCHANGED <<leave, accepted>>
    BY <1>2 DEF Record, GoesTo, EmailType
  <2>2. \A d \in Calls : ~ MaySend(d) /\ (accepted[d] => d = c)
    BY <1>2, <2>1 DEF Reserved, MaySend, Taken
  <2>3. call[c] = "failed" => \A d \in Calls : ~ accepted[d]
    BY <2>2 DEF Taken
  <2> QED
    BY <1>1, <2>1, <2>2, <2>3 DEF EmailType, Reserved, MaySend, Taken, RecordIsTrue
<1>3. CASE delivery.holder # c
  BY <1>1, <1>3 DEF Record, GoesTo, EmailType, Reserved, MaySend, Taken, RecordIsTrue
<1> QED BY <1>2, <1>3

\* A process that dies with the data on its way leaves the row at sending, for good.
LEMMA PerishSafe == ASSUME EmailInv, NEW c \in Calls, Perish(c) PROVE EmailInv'
<1> USE DEF EmailInv
<1>1. /\ call' = [call EXCEPT ![c] = "done"] /\ UNCHANGED <<delivery, content>>
      /\ \A d \in Calls \ {c} : leave'[d] = leave[d] /\ accepted'[d] = accepted[d]
      /\ accepted'[c] => accepted[c] \/ call[c] = "data"
      /\ accepted[c] => accepted'[c]
  BY DEF Perish, GoesTo, EmailType
<1>2. EmailType'
  <2>1. (accepted[c] \/ call[c] = "data") \in BOOLEAN
    BY DEF EmailType
  <2>2. accepted' \in [Calls -> BOOLEAN]
    BY <2>1 DEF Perish, EmailType
  <2> QED BY <2>2 DEF Perish, GoesTo, EmailType, Places
<1>3. call[c] = "data" => \A d \in Calls \ {c} : ~ MaySend(d)
  BY DEF Reserved, MaySend
<1> QED BY <1>1, <1>2, <1>3 DEF EmailType, Reserved, MaySend, Taken, RecordIsTrue

\* Every step keeps the delivery's invariant.
LEMMA NextEmail == EmailInv /\ [EmailNext]_emailVars => EmailInv'
<1> SUFFICES ASSUME EmailInv, [EmailNext]_emailVars PROVE EmailInv'
  OBVIOUS
<1>1. ASSUME NEW c \in Calls, Declines(c) \/ ConnectFails(c) \/ AskLeave(c) \/ HearAnswer(c)
      PROVE  EmailInv'
  <2>1. CASE Declines(c)
    BY <2>1
    DEF Declines, GoesTo, EmailInv, EmailType, Places, Reserved, MaySend, Taken, RecordIsTrue
  <2>2. CASE ConnectFails(c)
    BY <2>2
    DEF ConnectFails, GoesTo, EmailInv, EmailType, Places, Reserved, MaySend, Taken, RecordIsTrue
  <2>3. CASE AskLeave(c)
    BY <2>3
    DEF AskLeave, GoesTo, EmailInv, EmailType, Places, Reserved, MaySend, Taken, RecordIsTrue
  <2>4. CASE HearAnswer(c)
    <3>1. CASE leave[c] = "given" /\ GoesTo(c, "data")
      BY <2>4, <3>1
      DEF HearAnswer, GoesTo, EmailInv, EmailType, Places, Reserved, MaySend, Taken, RecordIsTrue
    <3>2. CASE GoesTo(c, "done") \/ GoesTo(c, "failed")
      BY <2>4, <3>2
      DEF HearAnswer, GoesTo, EmailInv, EmailType, Places, Reserved, MaySend, Taken, RecordIsTrue
    <3> QED BY <2>4, <3>1, <3>2 DEF HearAnswer
  <2> QED BY <1>1, <2>1, <2>2, <2>3, <2>4
<1>2. CASE LeaseEnds \/ EligibilityTurns
  <2>1. CASE LeaseEnds
    BY <2>1 DEF LeaseEnds, EmailInv, EmailType, Reserved, MaySend, Taken, RecordIsTrue
  <2>2. CASE EligibilityTurns
    BY <2>2 DEF EligibilityTurns, EmailInv, EmailType, Reserved, MaySend, Taken, RecordIsTrue
  <2> QED BY <1>2, <2>1, <2>2
<1>3. CASE UNCHANGED emailVars
  BY <1>3 DEF emailVars, EmailInv, EmailType, Reserved, MaySend, Taken, RecordIsTrue
<1> QED
  BY <1>1, <1>2, <1>3, ClaimSafe, BeginSafe, SendSafe, RecordSafe, PerishSafe DEF EmailNext

-----------------------------------------------------------------------------
(* What follows *)

\* However many calls share an identity, the server takes one message at most
\* (deliver_email, begin_dispatch).
THEOREM AtMostOneAccepted == EmailSpec => []AcceptedOnce
<1>1. EmailInv => AcceptedOnce
  BY DEF EmailInv, Taken, AcceptedOnce
<1> QED BY InitEmail, NextEmail, <1>1, PTL DEF EmailSpec

\* The row never calls failed what the server took, nor sent what it did not.
THEOREM RecordsAreTrue == EmailSpec => []RecordIsTrue
<1>1. EmailInv => RecordIsTrue
  BY DEF EmailInv
<1> QED BY InitEmail, NextEmail, <1>1, PTL DEF EmailSpec
-----------------------------------------------------------------------------
(* ML admission *)

Computing == {i \in Inferences : inference[i] = "computes"}
Waiting   == {i \in Inferences : inference[i] = "waits"}

ThrottleType ==
  /\ bucket \in Nat /\ inflight \in Nat /\ slots \in Nat
  /\ line \in Seq(Inferences)
  /\ inference \in [Inferences -> {"idle", "waits", "computes"}]

\* Who waits stands in the line, once; who is woken still does.
LineIsWaiting ==
  /\ IsInjective(line)
  /\ Range(line) = Waiting
  /\ woken \subseteq Waiting
  /\ IsFiniteSet(Waiting) /\ IsFiniteSet(Computing)

ThrottleInv == ThrottleType /\ LineIsWaiting /\ ThrottleAccounts

\* t is s, of N places, without the n-th.
Without(s, N, n, t) ==
  /\ DOMAIN s = 1..N /\ DOMAIN t = 1..(N - 1)
  /\ \A p \in 1..(N - 1) : t[p] = s[IF p < n THEN p ELSE p + 1]

\* A line without its n-th place: everyone else is still in it, once.
LEMMA WithoutPlace ==
  ASSUME NEW N \in Nat, NEW s, NEW n \in 1..N, IsInjective(s),
         NEW t, Without(s, N, n, t)
  PROVE  IsInjective(t) /\ Range(t) = Range(s) \ {s[n]}
<1> USE DEF Without, IsInjective
<1>1. \A p \in 1..(N - 1) : (IF p < n THEN p ELSE p + 1) \in 1..N \ {n}
  OBVIOUS
<1>2. ASSUME NEW p \in 1..(N - 1), NEW q \in 1..(N - 1), t[p] = t[q] PROVE p = q
  <2>1. (IF p < n THEN p ELSE p + 1) = (IF q < n THEN q ELSE q + 1)
    BY <1>1, <1>2
  <2> QED BY <2>1
<1>3. ASSUME NEW x \in Range(t) PROVE x \in Range(s) \ {s[n]}
  <2>1. PICK p \in 1..(N - 1) : x = t[p]
    BY DEF Range
  <2>2. PICK q \in 1..N \ {n} : x = s[q]
    BY <1>1, <2>1
  <2>3. x # s[n]
    BY <2>2
  <2> QED BY <2>2, <2>3 DEF Range
<1>4. ASSUME NEW x \in Range(s) \ {s[n]} PROVE x \in Range(t)
  <2>1. PICK q \in 1..N : x = s[q]
    BY DEF Range
  <2>2. q # n
    BY <2>1
  <2>3. PICK p \in 1..(N - 1) : (IF p < n THEN p ELSE p + 1) = q
    <3>1. CASE q < n
      <4>1. q \in 1..(N - 1)
        BY <3>1
      <4> QED BY <3>1, <4>1
    <3>2. CASE q > n
      <4>1. q - 1 \in 1..(N - 1) /\ ~ (q - 1 < n) /\ (q - 1) + 1 = q
        BY <3>2
      <4> QED BY <4>1
    <3> QED BY <2>2, <3>1, <3>2
  <2>4. t[p] = x
    BY <2>1, <2>3
  <2> QED BY <2>4 DEF Range
<1> QED
  BY <1>2, <1>3, <1>4

\* What taking a place out of a line leaves (the semaphore's deque).
LEMMA LeftLine ==
  ASSUME NEW S, NEW s \in Seq(S), NEW n \in DOMAIN s,
         IsInjective(s),
         NEW t, t = SubSeq(s, 1, n - 1) \o SubSeq(s, n + 1, Len(s))
  PROVE  t \in Seq(S) /\ IsInjective(t) /\ Range(t) = Range(s) \ {s[n]}
<1>1. PICK N \in Nat : N = Len(s) /\ DOMAIN s = 1..N /\ \A p \in 1..N : s[p] \in S
  BY LenProperties, ElementOfSeq
<1>2. n \in 1..N
  BY <1>1
<1>3. PICK a \in Seq(S) : /\ a = SubSeq(s, 1, n - 1) /\ Len(a) = n - 1
                          /\ \A p \in 1..(n - 1) : a[p] = s[p]
  <2>1. n - 1 \in Int /\ \A p \in 1..(n - 1) : s[p] \in S
    BY <1>1, <1>2
  <2>2. /\ SubSeq(s, 1, n - 1) \in Seq(S)
        /\ Len(SubSeq(s, 1, n - 1)) = IF 1 <= n - 1 THEN (n - 1) - 1 + 1 ELSE 0
        /\ \A p \in 1..((n - 1) - 1 + 1) : SubSeq(s, 1, n - 1)[p] = s[1 + p - 1]
    BY <2>1, SubSeqProperties
  <2>3. (IF 1 <= n - 1 THEN (n - 1) - 1 + 1 ELSE 0) = n - 1 /\ (n - 1) - 1 + 1 = n - 1
        /\ \A p \in 1..(n - 1) : 1 + p - 1 = p
    BY <1>2
  <2> QED BY <2>2, <2>3
<1>4. PICK b \in Seq(S) : /\ b = SubSeq(s, n + 1, N) /\ Len(b) = N - n
                          /\ \A p \in 1..(N - n) : b[p] = s[n + p]
  <2>1. PICK m \in Int : m = n + 1
    BY <1>2
  <2>2. N \in Int /\ \A p \in m..N : s[p] \in S
    BY <1>1, <1>2, <2>1
  <2>3. PICK b : b = SubSeq(s, m, N)
    OBVIOUS
  <2>4. /\ b \in Seq(S) /\ Len(b) = IF m <= N THEN N - m + 1 ELSE 0
        /\ \A p \in 1..(N - m + 1) : b[p] = s[m + p - 1]
    BY <2>2, <2>3, SubSeqProperties
  <2>5. (IF m <= N THEN N - m + 1 ELSE 0) = N - n /\ N - m + 1 = N - n
    BY <1>1, <1>2, <2>1
  <2>6. Len(b) = N - n /\ \A p \in 1..(N - n) : b[p] = s[m + p - 1]
    BY <2>4, <2>5, Zenon
  <2>7. ASSUME NEW p \in 1..(N - n) PROVE b[p] = s[n + p]
    <3>1. m + p - 1 = n + p
      BY <1>1, <1>2, <2>1
    <3> QED BY <2>6, <3>1, Zenon
  <2>8. b = SubSeq(s, n + 1, N)
    BY <2>1, <2>3, Zenon
  <2> QED BY <2>4, <2>6, <2>7, <2>8, Zenon
<1>5. t = a \o b
  BY <1>1, <1>3, <1>4, Zenon
<1>6. /\ t \in Seq(S) /\ Len(t) = (n - 1) + (N - n)
      /\ \A p \in 1..((n - 1) + (N - n)) : t[p] = IF p <= n - 1 THEN a[p] ELSE b[p - (n - 1)]
  <2>1. /\ a \o b \in Seq(S) /\ Len(a \o b) = Len(a) + Len(b)
        /\ \A p \in 1..(Len(a) + Len(b)) :
             (a \o b)[p] = IF p <= Len(a) THEN a[p] ELSE b[p - Len(a)]
    BY ConcatProperties
  <2>2. Len(a) = n - 1 /\ Len(b) = N - n
    BY <1>3, <1>4
  <2> QED BY <1>5, <2>1, <2>2, Zenon
<1>7. (n - 1) + (N - n) = N - 1
  BY <1>2
<1>8. DOMAIN t = 1..(N - 1)
  BY <1>6, <1>7, LenProperties
<1>9. ASSUME NEW p \in 1..(N - 1) PROVE t[p] = s[IF p < n THEN p ELSE p + 1]
  <2>1. t[p] = IF p <= n - 1 THEN a[p] ELSE b[p - (n - 1)]
    BY <1>6, <1>7
  <2>2. CASE p < n
    <3>1. p \in 1..(n - 1) /\ p <= n - 1
      BY <1>2, <2>2
    <3> QED BY <1>3, <2>1, <2>2, <3>1
  <2>3. CASE ~ (p < n)
    <3>1. p - (n - 1) \in 1..(N - n) /\ ~ (p <= n - 1) /\ n + (p - (n - 1)) = p + 1
      BY <1>1, <1>2, <2>3
    <3>2. b[p - (n - 1)] = s[p + 1]
      BY <1>4, <3>1
    <3> QED BY <2>1, <2>3, <3>1, <3>2
  <2> QED BY <2>2, <2>3
<1>10. Without(s, N, n, t)
  BY <1>1, <1>8, <1>9 DEF Without
<1> QED
  <2>1. IsInjective(t) /\ Range(t) = Range(s) \ {s[n]}
    BY <1>2, <1>10, WithoutPlace
  <2> QED BY <1>6, <2>1

\* Nobody is inside, and all slots are free.
LEMMA InitThrottle == ThrottleInit => ThrottleInv
<1> SUFFICES ASSUME ThrottleInit PROVE ThrottleInv
  OBVIOUS
<1>1. Waiting = {} /\ Computing = {} /\ woken = {}
  BY DEF ThrottleInit, Waiting, Computing
<1>2. ThrottleType
  BY ThrottleAssumption DEF ThrottleInit, ThrottleType
<1>3. Range(line) = {}
  BY DEF ThrottleInit, Range
<1>4. LineIsWaiting
  BY <1>1, <1>3, FS_EmptySet DEF ThrottleInit, LineIsWaiting, IsInjective
<1>5. ThrottleAccounts
  <2>1. Cardinality(Waiting) = 0 /\ Cardinality(Computing) = 0 /\ Cardinality(woken) = 0
    BY <1>1, FS_EmptySet
  <2> QED
    BY <1>1, <2>1, ThrottleAssumption DEF ThrottleInit, ThrottleAccounts, Waiting, Computing
<1> QED
  BY <1>2, <1>4, <1>5 DEF ThrottleInv

\* The counts, from the sets by name.
LEMMA Accounts ==
  ThrottleAccounts <=>
    /\ inflight = Cardinality(Computing) + Cardinality(Waiting)
    /\ slots + Cardinality(woken) + Cardinality(Computing) = MaxConcurrent
    /\ slots > 0 /\ ~ Waiting \subseteq woken => woken # {}
  BY DEF ThrottleAccounts, Waiting, Computing

\* A request that moves from one of the two sets to the other, in or out.
LEMMA Moved ==
  ASSUME ThrottleType, NEW i \in Inferences, NEW to \in {"idle", "waits", "computes"},
         Becomes(i, to)
  PROVE  /\ inference' \in [Inferences -> {"idle", "waits", "computes"}]
         /\ to = "waits" => Waiting' = Waiting \cup {i}
         /\ to # "waits" => Waiting' = Waiting \ {i}
         /\ to = "computes" => Computing' = Computing \cup {i}
         /\ to # "computes" => Computing' = Computing \ {i}
  BY DEF ThrottleType, Becomes, Waiting, Computing

\* Who leaves the line, with a slot or without, takes no other's slot along: the free ones
\* go to sleepers, each to one, as long as there are sleepers.
LEMMA LeftTheLine ==
  ASSUME ThrottleInv, NEW i \in Waiting, NEW free \in Nat, LeaveLine(i, free),
         Waiting' = Waiting \ {i}
  PROVE  /\ line' \in Seq(Inferences) /\ slots' \in Nat
         /\ IsInjective(line')
         /\ Range(line') = Waiting'
         /\ woken' \subseteq Waiting'
         /\ slots' + Cardinality(woken') = free + Cardinality(woken \ {i})
         /\ slots' > 0 => Waiting' \subseteq woken'
<1> USE DEF ThrottleInv, LineIsWaiting
<1>1. PICK n \in DOMAIN line :
        line[n] = i /\ line' = SubSeq(line, 1, n - 1) \o SubSeq(line, n + 1, Len(line))
  BY DEF LeaveLine
<1>2. line' \in Seq(Inferences) /\ IsInjective(line') /\ Range(line') = Range(line) \ {line[n]}
  <2>1. line \in Seq(Inferences) /\ IsInjective(line)
    BY DEF ThrottleType
  <2>2. PICK t : t = SubSeq(line, 1, n - 1) \o SubSeq(line, n + 1, Len(line))
    OBVIOUS
  <2>3. t \in Seq(Inferences) /\ IsInjective(t) /\ Range(t) = Range(line) \ {line[n]}
    BY <2>1, <2>2, LeftLine
  <2>4. line' = t
    BY <1>1, <2>2
  <2> QED BY <2>3, <2>4
<1> DEFINE behind == Sleepers \ {i}
<1>3. PICK given \in SUBSET behind :
        /\ Cardinality(given) =
             IF free < Cardinality(behind) THEN free ELSE Cardinality(behind)
        /\ woken' = (woken \ {i}) \cup given
        /\ slots' = free - Cardinality(given)
  BY DEF LeaveLine
<1>4. behind = Waiting \ (woken \cup {i})
  BY DEF Sleepers
<1>5. IsFiniteSet(behind) /\ Cardinality(behind) \in Nat
  BY <1>4, FS_Subset, FS_CardinalityType
<1>6. IsFiniteSet(given) /\ Cardinality(given) \in Nat
  BY <1>5, FS_Subset, FS_CardinalityType
<1>7. IsFiniteSet(woken \ {i}) /\ Cardinality(woken \ {i}) \in Nat
  BY FS_Subset, FS_CardinalityType
<1>8. Cardinality(woken') = Cardinality(woken \ {i}) + Cardinality(given)
  <2>1. (woken \ {i}) \cap given = {}
    BY <1>4
  <2>2. Cardinality(woken') = Cardinality(woken \ {i}) + Cardinality(given)
                              - Cardinality((woken \ {i}) \cap given)
    BY <1>3, <1>6, <1>7, FS_Union
  <2>3. Cardinality((woken \ {i}) \cap given) = 0
    BY <2>1, FS_EmptySet
  <2> QED BY <1>6, <1>7, <2>2, <2>3
<1>9. woken' \subseteq Waiting'
  BY <1>3, <1>4
<1>10. ASSUME slots' > 0 PROVE Waiting' \subseteq woken'
  <2>1. Cardinality(given) = Cardinality(behind)
    BY <1>3, <1>5, <1>6, <1>10
  <2>2. given = behind
    BY <1>5, <2>1, FS_Subset
  <2> QED BY <1>3, <1>4, <2>2
<1>11. slots' \in Nat
  BY <1>3, <1>5, <1>6
<1>12. Range(line') = Waiting'
  BY <1>1, <1>2
<1>13. slots' + Cardinality(woken') = free + Cardinality(woken \ {i})
  <2>1. slots' = free - Cardinality(given)
    BY <1>3
  <2> QED BY <1>6, <1>7, <1>8, <2>1
<1> QED
  BY <1>2, <1>9, <1>10, <1>11, <1>12, <1>13

\* Whoever comes, waits, gives up or ends keeps the count and the semaphore together.
LEMMA NextThrottle == ThrottleInv /\ [ThrottleNext]_throttleVars => ThrottleInv'
<1> SUFFICES ASSUME ThrottleInv, [ThrottleNext]_throttleVars PROVE ThrottleInv'
  OBVIOUS
<1> USE DEF ThrottleInv
<1>0. /\ IsFiniteSet(Waiting) /\ Cardinality(Waiting) \in Nat
      /\ IsFiniteSet(Computing) /\ Cardinality(Computing) \in Nat
      /\ IsFiniteSet(woken) /\ Cardinality(woken) \in Nat
      /\ woken \subseteq Waiting
      /\ Waiting \subseteq Inferences /\ Computing \subseteq Inferences
  BY FS_Subset, FS_CardinalityType DEF LineIsWaiting, Waiting, Computing
<1>01. bucket \in Nat /\ inflight \in Nat /\ slots \in Nat
  BY DEF ThrottleType
<1>00. /\ inflight = Cardinality(Computing) + Cardinality(Waiting)
       /\ slots + Cardinality(woken) + Cardinality(Computing) = MaxConcurrent
       /\ slots > 0 /\ ~ Waiting \subseteq woken => woken # {}
       /\ MaxConcurrent \in Nat
  BY Accounts, ThrottleAssumption
<1>02. /\ Cardinality(Waiting) \in Nat /\ Cardinality(Computing) \in Nat
       /\ Cardinality(woken) \in Nat /\ slots \in Nat
       /\ inflight = Cardinality(Computing) + Cardinality(Waiting)
       /\ slots + Cardinality(woken) + Cardinality(Computing) = MaxConcurrent
  BY <1>0, <1>00, <1>01
<1>1. ASSUME inference' = inference, line' = line, woken' = woken, slots' = slots,
             inflight' = inflight, bucket' \in Nat
      PROVE  ThrottleInv'
  <2>1. Waiting' = Waiting /\ Computing' = Computing
    BY <1>1 DEF Waiting, Computing
  <2> QED
    BY <1>1, <2>1 DEF ThrottleType, LineIsWaiting, ThrottleAccounts
<1>2. ASSUME NEW i \in Inferences, Reject(i) PROVE ThrottleInv'
  BY <1>1, <1>2 DEF Reject, ThrottleType
<1>8. CASE Refill
  BY <1>1, <1>8 DEF Refill, ThrottleType
<1>3. ASSUME NEW i \in Inferences, Join(i) PROVE ThrottleInv'
  <2>1. /\ inference[i] = "idle" /\ bucket' = bucket - 1 /\ inflight' = inflight + 1
        /\ woken' = woken /\ bucket > 0
    BY <1>3 DEF Join
  <2>2. i \notin Waiting /\ i \notin Computing
    BY <2>1 DEF Waiting, Computing
  <2>3. CASE slots > 0 /\ line = <<>>
    <3>1. slots' = slots - 1 /\ Becomes(i, "computes") /\ line' = line
      BY <1>3, <2>3 DEF Join
    <3>2. Waiting' = Waiting /\ Computing' = Computing \cup {i}
      BY <2>2, <3>1, Moved
    <3>3. IsFiniteSet(Computing') /\ Cardinality(Computing') = Cardinality(Computing) + 1
      BY <1>0, <2>2, <3>2, FS_AddElement
    <3>4. Waiting = {} /\ woken = {}
      BY <1>0, <2>3 DEF LineIsWaiting, Range
    <3>5. ThrottleType'
      BY <2>1, <2>3, <3>1, Moved DEF ThrottleType
    <3>6. LineIsWaiting'
      BY <1>0, <2>1, <3>1, <3>2, <3>3 DEF LineIsWaiting
    <3>7. /\ inflight' = Cardinality(Computing') + Cardinality(Waiting')
          /\ slots' + Cardinality(woken') + Cardinality(Computing') = MaxConcurrent
          /\ Waiting' \subseteq woken'
      <4>1. Waiting' \subseteq woken'
        BY <2>1, <3>2, <3>4
      <4>2. Cardinality(Waiting') = Cardinality(Waiting) /\ Cardinality(woken') = Cardinality(woken)
        BY <2>1, <3>2, Zenon
      <4>3. /\ Cardinality(Computing') = Cardinality(Computing) + 1
            /\ inflight' = inflight + 1 /\ slots' = slots - 1
        BY <2>1, <3>1, <3>3
      <4> QED BY <1>02, <4>1, <4>2, <4>3
    <3> QED BY <3>5, <3>6, <3>7 DEF ThrottleAccounts, Waiting, Computing
  <2>4. CASE ~ (slots > 0 /\ line = <<>>)
    <3>1. slots' = slots /\ Becomes(i, "waits") /\ line' = Append(line, i)
      BY <1>3, <2>4 DEF Join
    <3>2. Waiting' = Waiting \cup {i} /\ Computing' = Computing
      <4>1. Waiting' = Waiting \cup {i} /\ Computing' = Computing \ {i}
        BY <3>1, Moved
      <4> QED BY <2>2, <4>1
    <3>3. IsFiniteSet(Waiting') /\ Cardinality(Waiting') = Cardinality(Waiting) + 1
      BY <1>0, <2>2, <3>2, FS_AddElement
    <3>4. ThrottleType'
      BY <2>1, <3>1, Moved DEF ThrottleType
    <3>5. /\ DOMAIN line' = 1..(Len(line) + 1) /\ Len(line) \in Nat /\ DOMAIN line = 1..Len(line)
          /\ \A n \in 1..Len(line) : line'[n] = line[n]
          /\ line'[Len(line) + 1] = i
      BY <3>1 DEF ThrottleType
    <3>6. i \notin Range(line) /\ Range(line) = Waiting
      BY <2>2 DEF LineIsWaiting
    <3>7. \A n \in DOMAIN line : line[n] # i
      BY <3>6 DEF Range
    <3>8. IsInjective(line')
      BY <3>5, <3>7 DEF LineIsWaiting, IsInjective
    <3>9. Range(line') = Range(line) \cup {i}
      BY <3>5 DEF Range
    <3>10. LineIsWaiting'
      BY <1>0, <2>1, <3>2, <3>3, <3>6, <3>8, <3>9 DEF LineIsWaiting
    <3>11. slots > 0 => woken # {}
      <4>1. CASE line = <<>>
        BY <2>4, <4>1
      <4>2. CASE line # <<>>
        <5>1. line[1] \in Waiting
          BY <3>5, <3>6, <4>2 DEF Range, ThrottleType
        <5> QED BY <1>00, <5>1
      <4> QED BY <4>1, <4>2
    <3>12. /\ inflight' = Cardinality(Computing') + Cardinality(Waiting')
           /\ slots' + Cardinality(woken') + Cardinality(Computing') = MaxConcurrent
           /\ slots' > 0 => woken' # {}
      <4>1. slots' > 0 => woken' # {}
        BY <2>1, <3>1, <3>11
      <4>2. /\ Cardinality(Computing') = Cardinality(Computing)
            /\ Cardinality(woken') = Cardinality(woken)
        BY <2>1, <3>2, Zenon
      <4>3. /\ Cardinality(Waiting') = Cardinality(Waiting) + 1
            /\ inflight' = inflight + 1 /\ slots' = slots
        BY <2>1, <3>1, <3>3
      <4> QED BY <1>02, <4>1, <4>2, <4>3
    <3> QED BY <3>4, <3>10, <3>12 DEF ThrottleAccounts, Waiting, Computing
  <2> QED BY <2>3, <2>4
<1>4. ASSUME NEW i \in Inferences, Proceed(i) PROVE ThrottleInv'
  <2>1. /\ inference[i] = "waits" /\ i \in woken /\ LeaveLine(i, slots)
        /\ Becomes(i, "computes") /\ bucket' = bucket /\ inflight' = inflight
    BY <1>4 DEF Proceed
  <2>2. i \in Waiting /\ i \notin Computing
    BY <2>1 DEF Waiting, Computing
  <2>3. Waiting' = Waiting \ {i} /\ Computing' = Computing \cup {i}
    BY <2>1, <2>2, Moved
  <2>4. /\ line' \in Seq(Inferences) /\ slots' \in Nat
        /\ IsInjective(line')
        /\ Range(line') = Waiting'
        /\ woken' \subseteq Waiting'
        /\ slots' + Cardinality(woken') = slots + Cardinality(woken \ {i})
        /\ slots' > 0 => Waiting' \subseteq woken'
    BY <2>1, <2>2, <2>3, LeftTheLine DEF ThrottleType
  <2>5. /\ IsFiniteSet(Waiting') /\ Cardinality(Waiting') = Cardinality(Waiting) - 1
        /\ IsFiniteSet(Computing') /\ Cardinality(Computing') = Cardinality(Computing) + 1
        /\ Cardinality(woken \ {i}) = Cardinality(woken) - 1
    BY <1>0, <2>1, <2>2, <2>3, FS_AddElement, FS_RemoveElement
  <2>6. ThrottleType'
    BY <2>1, <2>4, Moved DEF ThrottleType
  <2>7. LineIsWaiting'
    BY <2>4, <2>5 DEF LineIsWaiting
  <2>8. Cardinality(woken') \in Nat
    BY <2>4, <2>5, FS_Subset, FS_CardinalityType
  <2>9. /\ inflight' = Cardinality(Computing') + Cardinality(Waiting')
        /\ slots' + Cardinality(woken') + Cardinality(Computing') = MaxConcurrent
        /\ slots' > 0 => Waiting' \subseteq woken'
    <3>1. inflight' = Cardinality(Computing') + Cardinality(Waiting')
      <4>1. /\ Cardinality(Waiting') = Cardinality(Waiting) - 1
            /\ Cardinality(Computing') = Cardinality(Computing) + 1 /\ inflight' = inflight
        BY <2>1, <2>5
      <4> QED BY <1>02, <4>1
    <3>2. slots' + Cardinality(woken') + Cardinality(Computing') = MaxConcurrent
      <4>1. /\ slots' + Cardinality(woken') = slots + (Cardinality(woken) - 1)
            /\ slots' \in Nat /\ Cardinality(woken') \in Nat
        BY <2>4, <2>5, <2>8
      <4>2. Cardinality(Computing') = Cardinality(Computing) + 1
        BY <2>5
      <4> QED BY <1>02, <4>1, <4>2
    <3> QED BY <2>4, <3>1, <3>2
  <2> QED BY <2>6, <2>7, <2>9 DEF ThrottleAccounts, Waiting, Computing
<1>5. ASSUME NEW i \in Inferences, GiveUp(i) PROVE ThrottleInv'
  <2>1. /\ inference[i] = "waits" /\ Becomes(i, "idle") /\ bucket' = bucket
        /\ inflight' = inflight - 1
        /\ LeaveLine(i, IF i \in woken THEN slots + 1 ELSE slots)
    BY <1>5 DEF GiveUp
  <2>2. PICK free \in Nat : free = IF i \in woken THEN slots + 1 ELSE slots
    BY DEF ThrottleType
  <2>3. LeaveLine(i, free)
    BY <2>1, <2>2, Zenon
  <2>4. i \in Waiting /\ i \notin Computing
    BY <2>1 DEF Waiting, Computing
  <2>5. Waiting' = Waiting \ {i} /\ Computing' = Computing
    BY <2>1, <2>4, Moved
  <2>6. /\ line' \in Seq(Inferences) /\ slots' \in Nat
        /\ IsInjective(line')
        /\ Range(line') = Waiting'
        /\ woken' \subseteq Waiting'
        /\ slots' + Cardinality(woken') = free + Cardinality(woken \ {i})
        /\ slots' > 0 => Waiting' \subseteq woken'
    BY <2>3, <2>4, <2>5, LeftTheLine
  <2>7. /\ IsFiniteSet(Waiting') /\ Cardinality(Waiting') = Cardinality(Waiting) - 1
        /\ Cardinality(woken \ {i}) = IF i \in woken THEN Cardinality(woken) - 1 ELSE Cardinality(woken)
    BY <1>0, <2>4, <2>5, FS_RemoveElement
  <2>8. Cardinality(Waiting') \in Nat /\ Cardinality(woken') \in Nat
    BY <2>6, <2>7, FS_Subset, FS_CardinalityType
  <2>13. inflight' \in Nat
    BY <1>0, <1>00, <1>01, <2>1, <2>7, <2>8
  <2>14. inference' \in [Inferences -> {"idle", "waits", "computes"}]
    BY <2>1, Moved
  <2>9. ThrottleType'
    BY <1>01, <2>1, <2>6, <2>13, <2>14 DEF ThrottleType
  <2>10. LineIsWaiting'
    BY <1>0, <2>5, <2>6, <2>7 DEF LineIsWaiting
  <2>11. /\ inflight' = Cardinality(Computing') + Cardinality(Waiting')
         /\ slots' + Cardinality(woken') + Cardinality(Computing') = MaxConcurrent
         /\ slots' > 0 => Waiting' \subseteq woken'
    <3>1. inflight' = Cardinality(Computing') + Cardinality(Waiting')
      <4>1. Cardinality(Waiting') = Cardinality(Waiting) - 1 /\ inflight' = inflight - 1
        BY <2>1, <2>7
      <4>2. Cardinality(Computing') = Cardinality(Computing)
        BY <2>5, Zenon
      <4> QED BY <1>02, <4>1, <4>2
    <3>2. slots' + Cardinality(woken') + Cardinality(Computing') = MaxConcurrent
      <4>1. Cardinality(Computing') = Cardinality(Computing)
        BY <2>5, Zenon
      <4>2. free + Cardinality(woken \ {i}) = slots + Cardinality(woken)
        <5>1. CASE i \in woken
          BY <1>02, <2>2, <2>7, <5>1
        <5>2. CASE i \notin woken
          BY <1>02, <2>2, <2>7, <5>2
        <5> QED BY <5>1, <5>2
      <4>3. /\ slots' + Cardinality(woken') = free + Cardinality(woken \ {i})
            /\ slots' \in Nat /\ Cardinality(woken') \in Nat
        BY <2>6, <2>8
      <4> QED BY <1>02, <4>1, <4>2, <4>3
    <3> QED BY <2>6, <3>1, <3>2
  <2> QED BY <2>9, <2>10, <2>11 DEF ThrottleAccounts, Waiting, Computing
<1>6. ASSUME NEW i \in Inferences, Finished(i) PROVE ThrottleInv'
  <2>1. /\ inference[i] = "computes" /\ Becomes(i, "idle") /\ bucket' = bucket
        /\ inflight' = inflight - 1 /\ line' = line /\ ReleaseSlot
    BY <1>6 DEF Finished
  <2>2. i \in Computing /\ i \notin Waiting
    BY <2>1 DEF Waiting, Computing
  <2>3. Waiting' = Waiting /\ Computing' = Computing \ {i}
    BY <2>1, <2>2, Moved
  <2>4. IsFiniteSet(Computing') /\ Cardinality(Computing') = Cardinality(Computing) - 1
    BY <1>0, <2>2, <2>3, FS_RemoveElement
  <2>5. Cardinality(Computing') \in Nat
    BY <2>4, FS_CardinalityType
  <2>6. /\ woken' \subseteq Waiting /\ slots' \in Nat
        /\ slots' + Cardinality(woken') = slots + Cardinality(woken) + 1
        /\ slots' > 0 /\ ~ Waiting \subseteq woken' => woken' # {}
    <3>1. Sleepers = Waiting \ woken
      BY DEF Sleepers, LineIsWaiting
    <3>2. CASE Sleepers = {}
      BY <1>0, <2>1, <3>1, <3>2 DEF ReleaseSlot, ThrottleType
    <3>3. CASE Sleepers # {}
      <4>1. slots' = slots /\ \E o \in Sleepers : woken' = woken \cup {o}
        BY <2>1, <3>3 DEF ReleaseSlot
      <4>2. PICK o \in Sleepers : woken' = woken \cup {o}
        BY <4>1
      <4>3. Cardinality(woken') = Cardinality(woken) + 1
        BY <1>0, <3>1, <4>2, FS_AddElement
      <4>4. woken' \subseteq Waiting /\ woken' # {}
        BY <1>0, <3>1, <4>2
      <4>5. slots' \in Nat /\ slots' + Cardinality(woken') = slots + Cardinality(woken) + 1
        BY <1>02, <4>1, <4>3
      <4> QED BY <4>4, <4>5
    <3> QED BY <3>2, <3>3
  <2>7. Cardinality(woken') \in Nat
    BY <1>0, <2>6, FS_Subset, FS_CardinalityType
  <2>8. ThrottleType'
    <3>1. inference' \in [Inferences -> {"idle", "waits", "computes"}]
      BY <2>1, Moved
    <3>2. inflight' \in Nat
      BY <1>02, <2>1, <2>4, <2>5
    <3>3. line' \in Seq(Inferences) /\ bucket' \in Nat
      BY <2>1 DEF ThrottleType
    <3> QED BY <2>6, <3>1, <3>2, <3>3 DEF ThrottleType
  <2>9. LineIsWaiting'
    BY <1>0, <2>1, <2>3, <2>4, <2>6 DEF LineIsWaiting
  <2>10. /\ inflight' = Cardinality(Computing') + Cardinality(Waiting')
         /\ slots' + Cardinality(woken') + Cardinality(Computing') = MaxConcurrent
         /\ slots' > 0 /\ ~ Waiting' \subseteq woken' => woken' # {}
    <3>1. slots' > 0 /\ ~ Waiting' \subseteq woken' => woken' # {}
      BY <2>3, <2>6
    <3>2. Cardinality(Waiting') = Cardinality(Waiting)
      BY <2>3, Zenon
    <3>3. /\ Cardinality(Computing') = Cardinality(Computing) - 1
          /\ inflight' = inflight - 1 /\ Cardinality(woken') \in Nat /\ slots' \in Nat
          /\ slots' + Cardinality(woken') = slots + Cardinality(woken) + 1
      BY <2>1, <2>4, <2>6, <2>7
    <3> QED BY <1>02, <3>1, <3>2, <3>3
  <2> QED BY <2>8, <2>9, <2>10 DEF ThrottleAccounts, Waiting, Computing
<1>7. CASE UNCHANGED throttleVars
  BY <1>1, <1>7 DEF throttleVars, ThrottleType
<1> QED
  BY <1>2, <1>3, <1>4, <1>5, <1>6, <1>7, <1>8 DEF ThrottleNext

\* The in-flight count and the semaphore never come apart, for any number of inferences,
\* slots and places in the queue (slot).
THEOREM SlotsAddUp == ThrottleSpec => []ThrottleAccounts
<1>1. ThrottleInv => ThrottleAccounts
  BY DEF ThrottleInv
<1> QED
  BY <1>1, InitThrottle, NextThrottle, PTL DEF ThrottleSpec
===============================================================================
