---------------------------- MODULE IngestProofs ----------------------------
(***************************************************************************)
(* Proofs about EventIngest, for any batches, overlapping in any way, any  *)
(* number of handlers and faults, and any tokens.                          *)
(***************************************************************************)
EXTENDS EventIngest, TLAPS

\* The keys of a batch are those at its positions.
LEMMA KeyFacts ==
    ASSUME NEW b \in Batches
    PROVE  /\ Len(Content[b]) \in Nat /\ Keys(b) \subseteq Events
           /\ \A i \in 1..Len(Content[b]) : Content[b][i] \in Keys(b)
BY ContentAssumption DEF Keys

\* What stands in job for an idle handler is of its type.
LEMMA NoJobIsABatch == NoJob \in Batches
BY ContentAssumption DEF NoJob

\* An empty table and idle handlers are in order.
LEMMA IngestInit == Init => IngestInv
BY ContentAssumption, NoJobIsABatch
   DEF Init, IngestInv, TypeOK, AckedIsStored, AcceptedOnce, RejectedIsNotStored, WholeBatches,
       HandlerInv, UploaderInv

\* A transaction at its end has every key of its batch in the table or in hand.
LEMMA WholeBatchInHand ==
    ASSUME IngestInv, NEW h \in Handlers, pc[h] = "insert", pos[h] > Len(Content[job[h]])
    PROVE  /\ job[h] \in Batches /\ Admissible(job[h])
           /\ mine[h] \subseteq Keys(job[h]) /\ Keys(job[h]) \subseteq table \union mine[h]
<1>1. job[h] \in Batches /\ Len(Content[job[h]]) \in Nat
  BY KeyFacts DEF IngestInv, TypeOK
<1>2. pos[h] - 1 = Len(Content[job[h]])
  BY <1>1 DEF IngestInv, HandlerInv
<1>3. /\ Admissible(job[h]) /\ mine[h] \subseteq Keys(job[h])
      /\ \A i \in 1..(pos[h] - 1) : Content[job[h]][i] \in table \union mine[h]
  BY DEF IngestInv, HandlerInv
<1>4. Keys(job[h]) \subseteq table \union mine[h]
  BY <1>2, <1>3 DEF Keys
<1> QED
  BY <1>1, <1>3, <1>4

-----------------------------------------------------------------------------
(* The steps.                                                              *)

\* A handler answers, after a commit of its rows or without one.
LEMMA AnswerKeeps ==
    ASSUME IngestInv, NEW h \in Handlers, NEW outcome \in {"held", "acked", "dropped"},
           Answer(h, outcome), faults' \in 0..MaxFaults,
           NEW applied \in BOOLEAN,
           applied => pc[h] = "insert" /\ pos[h] > Len(Content[job[h]]),
           outcome = "acked" => applied,
           table' = IF applied THEN table \union mine[h] ELSE table,
           \A e \in Events : accepts'[e] = accepts[e] + IF applied /\ e \in mine[h] THEN 1 ELSE 0,
           accepts' \in [Events -> Nat]
    PROVE  IngestInv'
<1> DEFINE b == job[h]
<1>1. /\ b \in Batches /\ TypeOK /\ UploaderInv(b) /\ HandlerInv(h) /\ NoJob \in Batches
      /\ mine[h] \subseteq Events
  BY NoJobIsABatch DEF IngestInv, TypeOK
<1>2. applied => Admissible(b) /\ mine[h] \subseteq Keys(b) /\ Keys(b) \subseteq table'
  BY WholeBatchInHand
<1>3. table \subseteq table' /\ table' \subseteq table \union mine[h]
  OBVIOUS
<1>4. /\ pc' = [pc EXCEPT ![h] = "idle"] /\ pos' = [pos EXCEPT ![h] = 1]
      /\ mine' = [mine EXCEPT ![h] = {}] /\ job' = [job EXCEPT ![h] = NoJob]
      /\ client' = IF h \in sent[b] THEN [client EXCEPT ![b] = outcome] ELSE client
      /\ sent' = [sent EXCEPT ![b] = @ \ {h}]
  BY DEF Answer
<1> HIDE DEF b
<1>5. TypeOK'
  BY <1>1, <1>3, <1>4 DEF TypeOK
<1>6. AckedIsStored'
  <2> SUFFICES ASSUME NEW c \in Batches, client'[c] = "acked" PROVE Keys(c) \subseteq table'
    BY DEF AckedIsStored, Keys
  <2>1. CASE client[c] = "acked"
    BY <1>3, <2>1 DEF IngestInv, AckedIsStored
  <2>2. CASE client[c] # "acked"
    BY <1>1, <1>2, <1>4, <2>2 DEF TypeOK
  <2> QED
    BY <2>1, <2>2
<1>7. AcceptedOnce'
  <2> SUFFICES ASSUME NEW e \in Events PROVE accepts'[e] = IF e \in table' THEN 1 ELSE 0
    BY DEF AcceptedOnce
  <2>1. accepts[e] = (IF e \in table THEN 1 ELSE 0) /\ (e \in mine[h] => e \notin table)
    BY <1>1 DEF IngestInv, AcceptedOnce, HandlerInv
  <2> QED
    BY <2>1
<1>8. RejectedIsNotStored' /\ WholeBatches'
  <2> SUFFICES ASSUME NEW e \in table'
               PROVE  /\ \E c \in Batches : e \in Keys(c) /\ Admissible(c)
                      /\ \E c \in Batches : e \in Keys(c) /\ Keys(c) \subseteq table'
    BY DEF RejectedIsNotStored, WholeBatches, Keys, Admissible, IngestTokenMatches
  <2>1. CASE e \in table
    BY <1>3, <2>1 DEF IngestInv, RejectedIsNotStored, WholeBatches
  <2>2. CASE e \notin table
    BY <1>1, <1>2, <2>2
  <2> QED
    BY <2>1, <2>2
<1>9. ASSUME NEW g \in Handlers PROVE HandlerInv(g)'
  <2>1. CASE g = h
    BY <1>1, <1>4, <2>1 DEF HandlerInv, TypeOK
  <2>2. CASE g # h
    <3>1. pc'[g] = pc[g] /\ pos'[g] = pos[g] /\ mine'[g] = mine[g] /\ job'[g] = job[g]
      BY <1>1, <1>4, <2>2 DEF TypeOK
    <3>2. HandlerInv(g) /\ mine[g] \intersect table' = {}
      BY <1>3, <2>2 DEF IngestInv, HandlerInv
    <3>3. \A k \in Handlers \ {g} : mine'[k] \intersect mine'[g] = {}
      BY <1>1, <1>4, <3>1, <3>2 DEF HandlerInv, TypeOK
    <3> QED
      BY <1>3, <3>1, <3>2, <3>3 DEF HandlerInv, Admissible, IngestTokenMatches, Keys
  <2> QED
    BY <2>1, <2>2
<1>10. ASSUME NEW c \in Batches PROVE UploaderInv(c)'
  <2>1. UploaderInv(c)
    BY DEF IngestInv
  <2> QED
    BY <1>1, <1>4, <2>1 DEF UploaderInv, TypeOK
<1> QED
  BY <1>5, <1>6, <1>7, <1>8, <1>9, <1>10 DEF IngestInv

\* The steps of the uploaders.
LEMMA UploaderKeeps ==
    ASSUME IngestInv, NEW b \in Batches, Timeout(b) \/ \E h \in Handlers : Send(b, h)
    PROVE  IngestInv'
<1>1. TypeOK /\ \A c \in Batches : UploaderInv(c)
  BY DEF IngestInv
<1>2. UNCHANGED <<table, mine, accepts>> /\ AcceptedOnce' /\ RejectedIsNotStored' /\ WholeBatches'
  BY DEF Timeout, Send, IngestInv, AcceptedOnce, RejectedIsNotStored, WholeBatches, Keys,
         Admissible, IngestTokenMatches
<1>3. CASE Timeout(b)
  <2>1. TypeOK' /\ AckedIsStored'
    BY <1>1, <1>2, <1>3, ContentAssumption DEF Timeout, TypeOK, IngestInv, AckedIsStored, Keys
  <2>2. \A h \in Handlers : HandlerInv(h)'
    BY <1>2, <1>3 DEF Timeout, IngestInv, HandlerInv, Keys, Admissible, IngestTokenMatches
  <2>3. \A c \in Batches : UploaderInv(c)'
    BY <1>1, <1>3 DEF Timeout, UploaderInv, TypeOK
  <2> QED
    BY <1>2, <2>1, <2>2, <2>3 DEF IngestInv
<1>4. ASSUME NEW h \in Handlers, Send(b, h) PROVE IngestInv'
  <2>1. TypeOK' /\ AckedIsStored'
    BY <1>1, <1>2, <1>4 DEF Send, TypeOK, IngestInv, AckedIsStored, Keys
  <2>2. ASSUME NEW g \in Handlers PROVE HandlerInv(g)'
    <3>1. HandlerInv(g) /\ mine[h] = {} /\ mine' = mine /\ table' = table
      BY <1>2, <1>4 DEF IngestInv, HandlerInv, Send
    <3>2. CASE g = h
      BY <1>1, <1>4, <3>1, <3>2 DEF Send, HandlerInv, TypeOK
    <3>3. CASE g # h
      BY <1>1, <1>4, <3>1, <3>3
         DEF Send, HandlerInv, TypeOK, Keys, Admissible, IngestTokenMatches
    <3> QED
      BY <3>2, <3>3
  <2>3. \A c \in Batches : UploaderInv(c)'
    BY <1>1, <1>4 DEF Send, UploaderInv, TypeOK
  <2> QED
    BY <1>2, <2>1, <2>2, <2>3 DEF IngestInv
<1> QED
  BY <1>3, <1>4

\* An admissible batch goes from validation to its transaction.
LEMMA AdmitKeeps ==
    ASSUME IngestInv, NEW h \in Handlers, pc[h] = "validate", Admissible(job[h]),
           pc' = [pc EXCEPT ![h] = "insert"],
           UNCHANGED <<table, client, sent, job, pos, mine, faults, accepts>>
    PROVE  IngestInv'
<1>0. TypeOK'
  BY DEF IngestInv, TypeOK
<1>1. AckedIsStored' /\ AcceptedOnce' /\ RejectedIsNotStored' /\ WholeBatches'
  BY DEF IngestInv, AckedIsStored, AcceptedOnce, RejectedIsNotStored, WholeBatches, Keys,
         Admissible, IngestTokenMatches
<1>2. ASSUME NEW g \in Handlers PROVE HandlerInv(g)'
  <2>1. /\ HandlerInv(g) /\ job[h] \in Batches /\ Len(Content[job[h]]) \in Nat
        /\ pc \in [Handlers -> {"idle", "validate", "insert"}]
    BY KeyFacts DEF IngestInv, TypeOK
  <2> QED
    BY <2>1 DEF HandlerInv, Keys, Admissible, IngestTokenMatches
<1>3. \A b \in Batches : UploaderInv(b)'
  BY DEF IngestInv, UploaderInv
<1> QED
  BY <1>0, <1>1, <1>2, <1>3 DEF IngestInv

\* A row is inserted, or skipped because it is in the table.
LEMMA InsertKeeps == ASSUME IngestInv, NEW h \in Handlers, InsertEvent(h) PROVE IngestInv'
<1> DEFINE k == NextKey(h)
<1>1. /\ TypeOK /\ HandlerInv(h) /\ job[h] \in Batches /\ Len(Content[job[h]]) \in Nat
      /\ pos[h] \in 1..Len(Content[job[h]]) /\ k \in Keys(job[h]) /\ k \in Events
      /\ k = Content[job[h]][pos[h]]
  <2>1. TypeOK /\ HandlerInv(h) /\ job[h] \in Batches /\ Len(Content[job[h]]) \in Nat
    BY KeyFacts DEF IngestInv, TypeOK
  <2>2. pos[h] \in 1..Len(Content[job[h]])
    BY <2>1 DEF InsertEvent, HandlerInv
  <2> QED
    BY <2>1, <2>2, KeyFacts DEF NextKey
<1>2. /\ k \in table \/ \A g \in Handlers \ {h} : k \notin mine[g]
      /\ mine' = [mine EXCEPT ![h] = IF k \in table THEN @ ELSE @ \union {k}]
      /\ pos' = [pos EXCEPT ![h] = @ + 1]
      /\ UNCHANGED <<table, client, sent, pc, job, faults, accepts>>
  BY DEF InsertEvent, IndexFree
<1>3. pc[h] = "insert"
  BY DEF InsertEvent
<1> HIDE DEF k
<1>4. TypeOK'
  BY <1>1, <1>2 DEF TypeOK
<1>5. AckedIsStored' /\ AcceptedOnce' /\ RejectedIsNotStored' /\ WholeBatches'
  BY <1>2 DEF IngestInv, AckedIsStored, AcceptedOnce, RejectedIsNotStored, WholeBatches, Keys,
              Admissible, IngestTokenMatches
<1>6. ASSUME NEW g \in Handlers PROVE HandlerInv(g)'
  <2>1. /\ HandlerInv(g) /\ table' = table /\ pc' = pc /\ job' = job
        /\ mine \in [Handlers -> SUBSET Events] /\ pos \in [Handlers -> Nat]
    BY <1>1, <1>2 DEF IngestInv, TypeOK
  <2>2. CASE g = h
    <3>1. mine'[h] = IF k \in table THEN mine[h] ELSE mine[h] \union {k}
      BY <1>2, <2>1
    <3>2. pos'[h] = pos[h] + 1 /\ pos'[h] \in 1..(Len(Content[job[h]]) + 1)
      BY <1>1, <1>2, <2>1
    <3>3. mine'[h] \subseteq Keys(job[h]) /\ mine'[h] \intersect table = {}
      BY <1>1, <1>3, <3>1 DEF HandlerInv
    <3>4. \A i \in 1..(pos'[h] - 1) : Content[job[h]][i] \in table \union mine'[h]
      <4> SUFFICES ASSUME NEW i \in 1..(pos'[h] - 1)
                   PROVE  Content[job[h]][i] \in table \union mine'[h]
        OBVIOUS
      <4>1. i \in 1..(pos[h] - 1) \/ i = pos[h]
        BY <1>1, <3>2
      <4> QED
        BY <1>1, <1>3, <3>1, <4>1 DEF HandlerInv
    <3>5. \A f \in Handlers \ {h} : mine'[f] \intersect mine'[h] = {}
      BY <1>1, <1>2, <2>1, <3>1 DEF HandlerInv
    <3> QED
      BY <1>1, <1>3, <2>1, <2>2, <3>2, <3>3, <3>4, <3>5
         DEF HandlerInv, Keys, Admissible, IngestTokenMatches
  <2>3. CASE g # h
    <3>1. mine'[g] = mine[g] /\ pos'[g] = pos[g]
      BY <1>2, <2>1, <2>3
    <3>2. \A f \in Handlers \ {g} : mine'[f] \intersect mine'[g] = {}
      BY <1>2, <2>1, <2>3, <3>1 DEF HandlerInv
    <3> QED
      BY <2>1, <3>1, <3>2 DEF HandlerInv, Keys, Admissible, IngestTokenMatches
  <2> QED
    BY <2>2, <2>3
<1>7. \A b \in Batches : UploaderInv(b)'
  BY <1>2 DEF IngestInv, UploaderInv
<1> QED
  BY <1>4, <1>5, <1>6, <1>7 DEF IngestInv

\* A step of a handler that ends in an answer, with the rows it commits, if any.
Ends(h, outcome, applied) ==
    /\ pc[h] # "idle" /\ Answer(h, outcome)
    /\ applied \/ outcome = "acked" => pc[h] = "insert" /\ pos[h] > Len(Content[job[h]])
    /\ outcome = "acked" => applied
    /\ outcome = "dropped" => ~Admissible(job[h])
    /\ table' = IF applied THEN table \union mine[h] ELSE table
    /\ accepts' = [e \in Events |-> accepts[e] + IF applied /\ e \in mine[h] THEN 1 ELSE 0]
    /\ faults' \in 0..MaxFaults

\* Every step of a handler admits its batch, inserts a row, or ends so.
LEMMA HandlerMoves ==
    ASSUME IngestInv, NEW h \in Handlers, Step(h) \/ Fault(h)
    PROVE  \/ InsertEvent(h)
           \/ /\ pc[h] = "validate" /\ Admissible(job[h]) /\ pc' = [pc EXCEPT ![h] = "insert"]
              /\ UNCHANGED <<table, client, sent, job, pos, mine, faults, accepts>>
           \/ \E outcome \in {"held", "acked", "dropped"}, applied \in BOOLEAN :
                 Ends(h, outcome, applied)
<1>1. /\ faults \in 0..MaxFaults /\ MaxFaults \in Nat
      /\ accepts \in [Events -> Nat] /\ accepts = [e \in Events |-> accepts[e] + 0]
  BY ContentAssumption DEF IngestInv, TypeOK
<1>2. ASSUME NEW outcome \in {"held", "dropped"}, pc[h] # "idle", Answer(h, outcome),
             outcome = "dropped" => ~Admissible(job[h]),
             UNCHANGED <<table, accepts>>, faults' \in 0..MaxFaults
      PROVE  Ends(h, outcome, FALSE)
  BY <1>1, <1>2 DEF Ends
<1>3. CASE Validate(h)
  <2>1. CASE ~Admissible(job[h]) /\ Answer(h, "dropped") /\ UNCHANGED faults
    <3>1. Ends(h, "dropped", FALSE)
      BY <1>1, <1>2, <1>3, <2>1 DEF Validate
    <3> QED
      BY <3>1
  <2>2. CASE faults < MaxFaults /\ faults' = faults + 1 /\ Answer(h, "held")
    <3>1. faults' \in 0..MaxFaults
      BY <1>1, <2>2
    <3>2. Ends(h, "held", FALSE)
      BY <1>2, <1>3, <2>2, <3>1 DEF Validate
    <3> QED
      BY <3>2
  <2> QED
    BY <1>3, <2>1, <2>2 DEF Validate
<1>4. CASE InsertRefused(h) \/ DeadlockVictim(h) \/ InsertFails(h)
  <2>1. pc[h] # "idle"
    BY <1>4 DEF InsertRefused, InsertFails, DeadlockVictim, InCycle, WaitsFor
  <2>2. Answer(h, "held") /\ UNCHANGED <<table, accepts>> /\ faults' \in 0..MaxFaults
    BY <1>1, <1>4 DEF InsertRefused, InsertFails, DeadlockVictim
  <2> QED
    BY <1>2, <2>1, <2>2
<1>5. CASE Commit(h)
  <2>1. Ends(h, "acked", TRUE)
    BY <1>1, <1>5 DEF Ends, Commit
  <2> QED
    BY <2>1
<1>6. ASSUME NEW applied \in BOOLEAN, CommitUnclear(h, applied) PROVE Ends(h, "held", applied)
  BY <1>1, <1>6 DEF Ends, CommitUnclear
<1> QED
  BY <1>3, <1>4, <1>5, <1>6 DEF Step, Fault

\* The end of a request keeps the invariant, committed or not.
LEMMA EndKeeps ==
    ASSUME IngestInv, NEW h \in Handlers, NEW outcome \in {"held", "acked", "dropped"},
           NEW applied \in BOOLEAN, Ends(h, outcome, applied)
    PROVE  IngestInv'
<1>1. accepts \in [Events -> Nat]
  BY DEF IngestInv, TypeOK
<1>2. /\ accepts' \in [Events -> Nat]
      /\ \A e \in Events : accepts'[e] = accepts[e] + IF applied /\ e \in mine[h] THEN 1 ELSE 0
  BY <1>1 DEF Ends
<1> QED
  BY <1>2, AnswerKeeps DEF Ends

\* Every step of an uploader or a handler keeps the invariant.
LEMMA IngestStep == IngestInv /\ [Next]_vars => IngestInv'
<1> SUFFICES ASSUME IngestInv, [Next]_vars PROVE IngestInv'
  OBVIOUS
<1>1. CASE UNCHANGED vars
  BY <1>1 DEF vars, IngestInv, TypeOK, AckedIsStored, AcceptedOnce, RejectedIsNotStored,
              WholeBatches, HandlerInv, UploaderInv, Keys, Admissible, IngestTokenMatches
<1>2. ASSUME NEW h \in Handlers, Step(h) \/ Fault(h) PROVE IngestInv'
  BY <1>2, HandlerMoves, InsertKeeps, AdmitKeeps, EndKeeps
<1> QED
  BY <1>1, <1>2, UploaderKeeps DEF Next

-----------------------------------------------------------------------------
(* The theorems.                                                           *)

\* The inductive invariant of ingestion: uncommitted rows are disjoint from each other and
\* from the table, and a transaction has dealt with every row before its position.
THEOREM IngestInvariant == Spec => []IngestInv
BY IngestInit, IngestStep, PTL DEF Spec

\* A 200 is durable, also for the events it counted as duplicates.
THEOREM AcknowledgedIsStored == Spec => []AckedIsStored
<1>1. IngestInv => AckedIsStored
  BY DEF IngestInv
<1> QED
  BY <1>1, IngestInvariant, PTL

\* Whatever is resent and however batches overlap, one commit counts an event as accepted.
THEOREM CountedOnce == Spec => []AcceptedOnce
<1>1. IngestInv => AcceptedOnce
  BY DEF IngestInv
<1> QED
  BY <1>1, IngestInvariant, PTL

\* Nothing is stored for a batch with a defect or without an accepted token.
THEOREM RejectedLeavesNothing == Spec => []RejectedIsNotStored
<1>1. IngestInv => RejectedIsNotStored
  BY DEF IngestInv
<1> QED
  BY <1>1, IngestInvariant, PTL

\* insertBatch is all or nothing, however it fails.
THEOREM BatchesAreWhole == Spec => []WholeBatches
<1>1. IngestInv => WholeBatches
  BY DEF IngestInv
<1> QED
  BY <1>1, IngestInvariant, PTL

-----------------------------------------------------------------------------
(* The refinement of EventStore.                                           *)

OutcomeMap == [b \in Batches |-> IF Settled(b) THEN client[b] ELSE "open"]

\* What an answer does to the abstract outcomes: it settles the batch of an uploader that
\* still listens, which was open until then.
LEMMA AnswerOutcome ==
    ASSUME IngestInv, NEW h \in Handlers, NEW outcome \in {"held", "acked", "dropped"},
           Answer(h, outcome)
    PROVE  LET b == job[h] IN
           IF h \in sent[b] /\ outcome # "held"
           THEN OutcomeMap[b] = "open" /\ OutcomeMap' = [OutcomeMap EXCEPT ![b] = outcome]
           ELSE OutcomeMap' = OutcomeMap
<1> DEFINE b == job[h]
<1>1. /\ b \in Batches /\ UploaderInv(b)
      /\ client \in [Batches -> {"held", "waiting", "acked", "dropped"}]
  BY DEF IngestInv, TypeOK
<1>2. client' = IF h \in sent[b] THEN [client EXCEPT ![b] = outcome] ELSE client
  BY DEF Answer
<1>3. h \in sent[b] => client[b] = "waiting"
  BY <1>1 DEF UploaderInv
<1> HIDE DEF b
<1>4. CASE h \in sent[b] /\ outcome # "held"
  <2>1. OutcomeMap[b] = "open"
    BY <1>1, <1>3, <1>4 DEF OutcomeMap, Settled
  <2>2. OutcomeMap' = [OutcomeMap EXCEPT ![b] = outcome]
    BY <1>1, <1>2, <1>4 DEF OutcomeMap, Settled
  <2> QED
    BY <1>4, <2>1, <2>2 DEF b
<1>5. CASE ~(h \in sent[b] /\ outcome # "held")
  <2>1. \A c \in Batches : OutcomeMap'[c] = OutcomeMap[c]
    BY <1>1, <1>2, <1>3, <1>5 DEF OutcomeMap, Settled
  <2>2. OutcomeMap' = OutcomeMap
    BY <2>1 DEF OutcomeMap
  <2> QED
    BY <1>5, <2>2 DEF b
<1> QED
  BY <1>4, <1>5

\* A step that ends a request stores its batch, drops it, or is not seen.
LEMMA EndRefined ==
    ASSUME IngestInv, NEW h \in Handlers, NEW outcome \in {"held", "acked", "dropped"},
           NEW applied \in BOOLEAN, Ends(h, outcome, applied)
    PROVE  Store!Next \/ UNCHANGED <<table, OutcomeMap>>
<1> PICK b \in Batches : b = job[h]
  BY DEF IngestInv, TypeOK
<1>1. Answer(h, outcome)
  BY DEF Ends
<1>2. CASE applied
  <2>1. Admissible(b) /\ table' = table \union Keys(b)
    BY <1>2, WholeBatchInHand DEF Ends
  <2>2. outcome # "dropped"
    BY <2>1 DEF Ends
  <2>3. CASE h \in sent[b] /\ outcome # "held"
    <3>1. Store!Store(b, TRUE)
      BY <1>1, <2>1, <2>2, <2>3, AnswerOutcome DEF Store!Store, OutcomeMap
    <3> QED
      BY <3>1, Zenon DEF Store!Next
  <2>4. CASE ~(h \in sent[b] /\ outcome # "held")
    <3>1. Store!Store(b, FALSE)
      BY <1>1, <2>1, <2>4, AnswerOutcome DEF Store!Store, OutcomeMap
    <3> QED
      BY <3>1, Zenon DEF Store!Next
  <2> QED
    BY <2>3, <2>4
<1>3. CASE ~applied
  <2>1. table' = table /\ outcome # "acked" /\ (outcome = "dropped" => ~Admissible(b))
    BY <1>3 DEF Ends
  <2>2. CASE h \in sent[b] /\ outcome # "held"
    <3>1. Store!Drop(b)
      BY <1>1, <2>1, <2>2, AnswerOutcome DEF Store!Drop, OutcomeMap
    <3> QED
      BY <3>1 DEF Store!Next
  <2>3. CASE ~(h \in sent[b] /\ outcome # "held")
    BY <1>1, <2>1, <2>3, AnswerOutcome
  <2> QED
    BY <2>2, <2>3
<1> QED
  BY <1>2, <1>3

\* A step that changes no table and settles no uploader is not seen.
LEMMA Unseen ==
    ASSUME UNCHANGED table,
           \A b \in Batches : client'[b] = client[b] \/ (~Settled(b) /\ ~Settled(b)')
    PROVE  UNCHANGED <<table, OutcomeMap>>
BY DEF OutcomeMap, Settled

\* POST /v1/events implements the abstract store: whatever is retried, lost or answered late,
\* a batch appears whole, only a valid one does, and an uploader is told once and for good.
THEOREM IngestImplementsStore == Spec => ImplementsStore
<1>1. Init => Store!Init
  BY DEF Init, Store!Init, Settled
<1>2. IngestInv /\ [Next]_vars => [Store!Next]_<<table, OutcomeMap>>
  <2> SUFFICES ASSUME IngestInv, [Next]_vars
               PROVE  Store!Next \/ UNCHANGED <<table, OutcomeMap>>
    OBVIOUS
  <2>0. client \in [Batches -> {"held", "waiting", "acked", "dropped"}]
    BY DEF IngestInv, TypeOK
  <2>1. CASE UNCHANGED vars
    BY <2>1, Unseen DEF vars
  <2>2. ASSUME NEW b \in Batches, Timeout(b) \/ \E h \in Handlers : Send(b, h)
        PROVE  UNCHANGED <<table, OutcomeMap>>
    <3>1. UNCHANGED table
      BY <2>2 DEF Timeout, Send
    <3>2. \A c \in Batches : client'[c] = client[c] \/ (~Settled(c) /\ ~Settled(c)')
      BY <2>0, <2>2 DEF Timeout, Send, Settled
    <3> QED
      BY <3>1, <3>2, Unseen
  <2>3. ASSUME NEW h \in Handlers, Step(h) \/ Fault(h)
        PROVE  Store!Next \/ UNCHANGED <<table, OutcomeMap>>
    <3>1. CASE InsertEvent(h)
      BY <3>1, Unseen DEF InsertEvent
    <3>2. CASE UNCHANGED <<table, client>>
      BY <3>2, Unseen
    <3>3. ASSUME NEW outcome \in {"held", "acked", "dropped"}, NEW applied \in BOOLEAN,
                 Ends(h, outcome, applied)
          PROVE  Store!Next \/ UNCHANGED <<table, OutcomeMap>>
      BY ONLY <3>3, IngestInv, h \in Handlers, EndRefined, Zenon
    <3>4. \/ InsertEvent(h) \/ UNCHANGED <<table, client>>
          \/ \E outcome \in {"held", "acked", "dropped"}, applied \in BOOLEAN :
                Ends(h, outcome, applied)
      BY <2>3, HandlerMoves
    <3> QED
      BY <3>1, <3>2, <3>3, <3>4, Zenon
  <2> QED
    BY <2>1, <2>2, <2>3 DEF Next
<1> QED
  BY <1>1, <1>2, IngestInvariant, PTL DEF Spec, ImplementsStore, Store!Spec, OutcomeMap
=============================================================================
