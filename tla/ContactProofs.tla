---------------------------- MODULE ContactProofs ----------------------------
(***************************************************************************)
(* What Contact guarantees for every value of its constants, in the order  *)
(* in which one argument rests on another:                                 *)
(*   TypeOK       every variable has its type                              *)
(*   KeyInv       one key is one row, as long as it can be asked for again *)
(*   SentInv      a row marked sent was sent, and stays so                 *)
(*   KeptInv      nothing that was promised is lost                        *)
(*   OnceInv      who carries a row, and why two mails are explained       *)
(*   FloorInv     how far racing requests overfill the window, and when a  *)
(*                refused client is let in                                 *)
(*   AttemptsInv  why one process leaves no row queued without attempts    *)
(*   FateInv      why each step is one that Delivery allows                *)
(***************************************************************************)
EXTENDS Contact, FiniteSetTheorems, WellFoundedInduction, TLAPS

-----------------------------------------------------------------------------
(***************************************************************************)
(* The operators on rows and breakers stay inside their types              *)
(***************************************************************************)

LEMMA RowTypes ==
    ASSUME NEW row \in Row
    PROVE  /\ MarkedSent(row) \in Row
           /\ MarkedFailed(row, "queued") \in Row
           /\ MarkedFailed(row, "failed") \in Row
           /\ RowAged(row) \in Row
<1>0. ASSUME NEW new \in Row PROVE Updated(row, new) \in Row
  BY DEF Updated
<1>a. row.attempts + 1 \in Nat
  BY DEF Row
<1>1. MarkedSent(row) \in Row
  <2>1. ASSUME NEW n \in Nat
        PROVE  [row EXCEPT !.status = "sent", !.delivered = TRUE, !.attempts = n] \in Row
    BY DEF Row
  <2>2. QED
    BY <1>0, <1>a, <2>1 DEF MarkedSent
<1>2. ASSUME NEW status \in {"queued", "failed"}
      PROVE  MarkedFailed(row, status) \in Row
  <2>1. ASSUME NEW n \in Nat
        PROVE  [row EXCEPT !.status = status, !.attempts = n] \in Row
    BY DEF Row
  <2>2. QED
    BY <1>0, <1>a, <2>1 DEF MarkedFailed
<1>3. RowAged(row) \in Row
  <2>1. Older(row.age, AgeCap) \in 0..AgeCap
    BY RetentionAssumption DEF Older, Row
  <2>2. QED
    BY <2>1 DEF RowAged, Row
<1>4. QED
  BY <1>1, <1>2, <1>3

LEMMA NewRowTypes == NewRow \in Row /\ NoRow \in Row
  BY RetentionAssumption DEF Row, NewRow, NoRow

LEMMA BreakerTypes ==
    /\ B!ClosedBreaker \in B!BreakerState
    /\ \A b \in B!BreakerState :
          /\ B!Probed(b) \in B!BreakerState
          /\ B!AfterSuccess(b) \in B!BreakerState
          /\ B!AfterFailure(b) \in B!BreakerState
          /\ B!BreakerAged(b) \in B!BreakerState
  BY PolicyAssumption DEF B!ClosedBreaker, B!BreakerState, B!Probed, B!IsOpen,
     B!AfterSuccess, B!AfterFailure, B!BreakerAged

LEMMA RunTypes ==
    ASSUME NEW r \in Run, r.todo # <<>>
    PROVE  /\ Head(r.todo) \in Item
           /\ Tail(r.todo) \in Seq(Item)
  BY DEF Run

-----------------------------------------------------------------------------
(***************************************************************************)
(* Type correctness                                                        *)
(***************************************************************************)

LEMMA TypeInit == Init => TypeOK
<1> SUFFICES ASSUME Init PROVE TypeOK
  OBVIOUS
<1> USE DEF Init
<1>1. TableType
  BY NewRowTypes, PolicyAssumption DEF TableType, KeyCap
<1>2. HandlerType
  BY DEF HandlerType
<1>3. RunType
  BY DEF RunType, NoRun, Run
<1>4. ProcessType
  BY BreakerTypes, PolicyAssumption DEF ProcessType
<1>5. ObservationType
  BY PolicyAssumption DEF ObservationType
<1>6. QED
  BY <1>1, <1>2, <1>3, <1>4, <1>5 DEF TypeOK

\* What answering a request does to the variables it writes.
LEMMA AnsweredTypes ==
    ASSUME HandlerType, ProcessType, NEW r \in Request,
           NEW a \in {"400", "discarded", "202", "429", "500", "502", "lost"},
           Answered(r, a),
           receipt' \in [Request -> Request \cup {None}],
           budget' \in [Instance -> 0..BudgetCap], UNCHANGED <<due, breaker>>
    PROVE  HandlerType' /\ ProcessType'
  BY DEF HandlerType, ProcessType, Answered

LEMMA RelayedTypes ==
    ASSUME ObservationType, NEW id \in Request, NEW outcome \in Outcome,
           Relayed(id, outcome), UNCHANGED <<contended, buried, faults>>
    PROVE  ObservationType'
<1>1. mails' \in [Request -> Nat]
  BY DEF ObservationType, Relayed
<1>2. unsure' \subseteq Request
  BY DEF ObservationType, Relayed
<1>3. QED
  BY <1>1, <1>2 DEF ObservationType

LEMMA FaultTypes ==
    ASSUME ObservationType, UNCHANGED <<mails, contended, buried>>,
           unsure' \subseteq Request, Fault \/ UNCHANGED faults
    PROVE  ObservationType'
  BY PolicyAssumption DEF ObservationType, Fault

LEMMA UnchangedTypes ==
    /\ TableType /\ UNCHANGED tableVars => TableType'
    /\ HandlerType /\ UNCHANGED handlerVars => HandlerType'
    /\ RunType /\ UNCHANGED run => RunType'
    /\ ProcessType /\ UNCHANGED <<due, breaker, budget, late>> => ProcessType'
    /\ ObservationType /\ UNCHANGED ghostVars /\ UNCHANGED faults => ObservationType'
  BY DEF TableType, HandlerType, RunType, ProcessType, ObservationType,
     tableVars, handlerVars, ghostVars

\* A handler never touches the runs; what it does to the rest is shown part by
\* part.
LEMMA HandlerTypes ==
    ASSUME TypeOK, NEW r \in Request,
           \/ HandlerStep(r) \/ Refuse(r) \/ Discard(r)
           \/ FloorError(r) \/ InsertError(r) \/ FindError(r)
    PROVE  TypeOK'
<1> USE DEF tableVars, dispatchVars, ghostVars
<1>a. TableType /\ HandlerType /\ RunType /\ ProcessType /\ ObservationType
  BY DEF TypeOK
<1>b. /\ receipt \in [Request -> Request \cup {None}]
      /\ budget \in [Instance -> 0..BudgetCap]
      /\ rows \in [Request -> Row]
      /\ unsure \subseteq Request
      /\ pc \in [Request -> {"idle", "checked", "repeat", "done"} \cup Delivering]
  BY <1>a DEF TableType, HandlerType, ProcessType, ObservationType
<1>c. Inserted(r) \in [Request -> Row]
  BY <1>b, NewRowTypes DEF Inserted
<1>1. CASE Floor(r)
  <2>1. CASE OverLimit(r)
    BY <1>1, <1>a, <1>b, <2>1, AnsweredTypes, UnchangedTypes DEF Floor, TypeOK
  <2>2. CASE ~OverLimit(r)
    <3>1. HandlerType'
      BY <1>1, <1>a, <2>2 DEF Floor, HandlerType
    <3>2. QED
      BY <1>1, <1>a, <2>2, <3>1, UnchangedTypes DEF Floor, TypeOK
  <2>3. QED
    BY <2>1, <2>2
<1>2. CASE Insert(r)
  <2>1. TableType'
    BY <1>2, <1>a, <1>c DEF Insert, TableType
  <2>2. HandlerType'
    BY <1>2, <1>a DEF Insert, HandlerType, Delivering
  <2>3. QED
    BY <1>2, <1>a, <2>1, <2>2, UnchangedTypes DEF Insert, TypeOK
<1>3. CASE FindExisting(r)
  <2>1. receipt' \in [Request -> Request \cup {None}]
    BY <1>3, <1>b DEF FindExisting, SameKey, Stored
  <2>2. HandlerType' /\ ProcessType'
    BY <1>3, <1>a, <1>b, <2>1, AnsweredTypes DEF FindExisting
  <2>3. QED
    BY <1>3, <1>a, <2>2, UnchangedTypes DEF FindExisting, TypeOK
<1>4. CASE TakeBudget(r)
  <2>1. CASE budget[HomeOf[r]] < 1
    <3>1. HandlerType' /\ ProcessType'
      BY <1>4, <1>a, <1>b, <2>1, AnsweredTypes DEF TakeBudget
    <3>2. QED
      BY <1>4, <1>a, <2>1, <3>1, UnchangedTypes DEF TakeBudget, TypeOK
  <2>2. CASE ~(budget[HomeOf[r]] < 1)
    <3>1. HandlerType'
      BY <1>4, <1>a, <2>2 DEF TakeBudget, HandlerType, Delivering
    <3>2. budget' = [budget EXCEPT ![HomeOf[r]] = @ - 1]
      BY <1>4, <2>2 DEF TakeBudget
    <3>3. budget[HomeOf[r]] - 1 \in 0..BudgetCap
      BY <1>b, <2>2, RequestAssumption, PolicyAssumption
    <3>4. budget' \in [Instance -> 0..BudgetCap]
      BY <1>b, <3>2, <3>3
    <3>5. ProcessType'
      BY <1>4, <1>a, <2>2, <3>4 DEF TakeBudget, ProcessType
    <3>6. QED
      BY <1>4, <1>a, <2>2, <3>1, <3>5, UnchangedTypes DEF TakeBudget, TypeOK
  <2>3. QED
    BY <2>1, <2>2
<1>5. CASE Send(r)
  <2>1. PICK outcome \in Outcome :
           Relayed(r, outcome) /\ pc' = [pc EXCEPT ![r] = outcome]
    BY <1>5 DEF Send
  <2>2. HandlerType'
    BY <1>5, <1>a, <2>1 DEF Send, HandlerType, Outcome, Delivering
  <2>3. ObservationType'
    BY <1>5, <1>a, <2>1, RelayedTypes DEF Send
  <2>4. QED
    BY <1>5, <1>a, <2>2, <2>3, UnchangedTypes DEF Send, TypeOK
<1>6. CASE RecordSent(r)
  <2>1. TableType'
    BY <1>6, <1>a, <1>b, RowTypes DEF RecordSent, TableType
  <2>2. HandlerType' /\ ProcessType'
    BY <1>6, <1>a, <1>b, AnsweredTypes DEF RecordSent
  <2>3. ObservationType'
    BY <1>6, <1>a, <1>b, FaultTypes DEF RecordSent
  <2>4. QED
    BY <1>6, <1>a, <2>1, <2>2, <2>3, UnchangedTypes DEF RecordSent, TypeOK
<1>7. CASE RecordFailure(r)
  <2>1. HandlerVerdict(pc[r]) \in {"queued", "failed"}
    BY DEF HandlerVerdict
  <2>2. rows' \in [Request -> Row]
    BY <1>7, <1>b, <2>1, RowTypes DEF RecordFailure
  <2>3. TableType'
    BY <1>7, <1>a, <2>2 DEF RecordFailure, TableType
  <2>4. HandlerType' /\ ProcessType'
    BY <1>7, <1>a, <1>b, AnsweredTypes DEF RecordFailure
  <2>5. ObservationType'
    BY <1>7, <1>a, <1>b, FaultTypes DEF RecordFailure
  <2>6. QED
    BY <1>7, <1>a, <2>3, <2>4, <2>5, UnchangedTypes DEF RecordFailure, TypeOK
<1>8. CASE Refuse(r) \/ Discard(r)
  <2>1. HandlerType' /\ ProcessType'
    BY <1>8, <1>a, <1>b, AnsweredTypes DEF Refuse, Discard
  <2>2. QED
    BY <1>8, <1>a, <2>1, UnchangedTypes DEF Refuse, Discard, TypeOK
<1>9. CASE FloorError(r) \/ FindError(r)
  <2>1. HandlerType' /\ ProcessType'
    BY <1>9, <1>a, <1>b, AnsweredTypes DEF FloorError, FindError
  <2>2. ObservationType'
    BY <1>9, <1>a, <1>b, FaultTypes DEF FloorError, FindError
  <2>3. QED
    BY <1>9, <1>a, <2>1, <2>2, UnchangedTypes DEF FloorError, FindError, TypeOK
<1>10. CASE InsertError(r)
  <2>1. TableType'
    BY <1>10, <1>a, <1>b, <1>c DEF InsertError, TableType
  <2>2. HandlerType' /\ ProcessType'
    BY <1>10, <1>a, <1>b, AnsweredTypes DEF InsertError
  <2>3. ObservationType'
    BY <1>10, <1>a, <1>b, FaultTypes DEF InsertError
  <2>4. QED
    BY <1>10, <1>a, <2>1, <2>2, <2>3, UnchangedTypes DEF InsertError, TypeOK
<1>11. QED
  BY <1>1, <1>2, <1>3, <1>4, <1>5, <1>6, <1>7, <1>8, <1>9, <1>10 DEF HandlerStep

\* What recording an attempt does to the run: the row is taken off the batch.
LEMMA RecordedRun ==
    ASSUME RunType, NEW i \in Instance, run[i].pc \notin {"idle", "deliver"},
           \/ run' = [run EXCEPT ![i].pc = "deliver", ![i].todo = Tail(@), ![i].sent = TRUE]
           \/ run' = [run EXCEPT ![i].pc = "deliver", ![i].todo = Tail(@), ![i].failed = TRUE]
    PROVE  /\ RunType'
           /\ Current(i) \in Item
           /\ run'[i].pc = "deliver"
           /\ run'[i].todo = Tail(run[i].todo)
           /\ \A j \in Instance \ {i} : run'[j] = run[j]
<1>1. run[i] \in Run /\ run[i].todo # <<>>
  BY DEF RunType
<1>2. Current(i) \in Item /\ Tail(run[i].todo) \in Seq(Item)
  BY <1>1, RunTypes DEF Current
<1>3. PICK rest \in Seq(Item) :
        /\ rest = Tail(run[i].todo)
        /\ \/ run' = [run EXCEPT ![i].pc = "deliver", ![i].todo = rest, ![i].sent = TRUE]
           \/ run' = [run EXCEPT ![i].pc = "deliver", ![i].todo = rest, ![i].failed = TRUE]
  BY <1>2
<1>4. run' \in [Instance -> Run]
  BY <1>1, <1>3 DEF RunType, Run
<1>5. run'[i].pc = "deliver" /\ run'[i].todo = rest /\ \A j \in Instance \ {i} : run'[j] = run[j]
  BY <1>1, <1>3 DEF RunType, Run
<1>6. RunType'
  BY <1>4, <1>5 DEF RunType
<1>7. QED
  BY <1>2, <1>3, <1>5, <1>6

\* A step of a run that only moves its pc, and has a row if it is sending.
LEMMA MovedRun ==
    ASSUME RunType, NEW i \in Instance, run[i].todo # <<>>,
           NEW to \in {"sending", "accepted", "transient", "permanent"},
           run' = [run EXCEPT ![i].pc = to]
    PROVE  /\ RunType'
           /\ run'[i].pc = to /\ run'[i].todo = run[i].todo
           /\ \A j \in Instance \ {i} : run'[j] = run[j]
  BY DEF RunType, Run

LEMMA RunStepTypes ==
    ASSUME TypeOK, NEW i \in Instance, RunStep(i) \/ ListError(i)
    PROVE  TypeOK'
<1> USE DEF tableVars, handlerVars, ghostVars
<1>a. TableType /\ HandlerType /\ RunType /\ ProcessType /\ ObservationType
  BY DEF TypeOK
<1>b. /\ run \in [Instance -> Run]
      /\ run[i] \in Run
      /\ breaker \in [Instance -> B!BreakerState]
      /\ budget \in [Instance -> 0..BudgetCap]
      /\ rows \in [Request -> Row]
      /\ unsure \subseteq Request
  BY <1>a DEF TableType, RunType, ProcessType, ObservationType
<1>c. NoRun \in Run
  BY DEF NoRun, Run
<1>1. ASSUME Starts(i), UNCHANGED <<budget, late>>
      PROVE  ProcessType'
  BY <1>a, <1>1, BreakerTypes DEF Starts, ProcessType
<1>2. CASE SkipRun(i)
  <2>1. ProcessType'
    BY <1>2, <1>a DEF SkipRun, ProcessType
  <2>2. QED
    BY <1>2, <1>a, <2>1, UnchangedTypes DEF SkipRun, TypeOK
<1>3. CASE FindQueueEmpty(i)
  BY <1>1, <1>3, <1>a, UnchangedTypes DEF FindQueueEmpty, TypeOK
<1>4. CASE ListError(i)
  <2>1. ObservationType'
    BY <1>4, <1>a, <1>b, FaultTypes DEF ListError
  <2>2. QED
    BY <1>1, <1>4, <1>a, <2>1, UnchangedTypes DEF ListError, TypeOK
<1>5. CASE ListDeliverable(i)
  <2>1. PICK s \in Batch :
           /\ run' = [run EXCEPT ![i] = [NoRun EXCEPT !.pc = "deliver", !.todo = Listed(s)]]
           /\ contended' = contended \cup
                 {id \in {s[n] : n \in DOMAIN s} : HeldElsewhere(i, id)}
    BY <1>5 DEF ListDeliverable
  <2>2. Queue \subseteq Request
    BY DEF Queue
  <2>3. PICK n \in Nat : s \in [1..n -> Request]
    BY <2>2, PolicyAssumption DEF Batch
  <2>4. Listed(s) \in Seq(Item)
    BY <1>b, <2>3 DEF Listed, Item, Row
  <2>5. [NoRun EXCEPT !.pc = "deliver", !.todo = Listed(s)] \in Run
    BY <2>4 DEF NoRun, Run
  <2>6. RunType'
    BY <1>a, <2>1, <2>5 DEF RunType, NoRun
  <2>7. ObservationType'
    BY <1>5, <1>a, <2>1, <2>3 DEF ListDeliverable, ObservationType
  <2>8. QED
    BY <1>1, <1>5, <1>a, <2>6, <2>7, UnchangedTypes DEF ListDeliverable, TypeOK
<1>6. CASE Take(i)
  <2>1. RunType'
    BY <1>6, <1>a, MovedRun DEF Take
  <2>2. budget' \in [Instance -> 0..BudgetCap]
    BY <1>6, <1>b, PolicyAssumption DEF Take
  <2>3. ProcessType'
    BY <1>6, <1>a, <2>2 DEF Take, ProcessType
  <2>4. QED
    BY <1>6, <1>a, <2>1, <2>3, UnchangedTypes DEF Take, TypeOK
<1>7. CASE SendQueued(i)
  <2>1. run[i].todo # <<>> /\ Current(i).id \in Request
    BY <1>7, <1>a, <1>b, RunTypes DEF SendQueued, RunType, Current, Item
  <2>2. PICK outcome \in Outcome :
           Relayed(Current(i).id, outcome) /\ run' = [run EXCEPT ![i].pc = outcome]
    BY <1>7 DEF SendQueued
  <2>3. RunType'
    BY <1>a, <2>1, <2>2, MovedRun DEF Outcome
  <2>4. ObservationType'
    BY <1>7, <1>a, <2>1, <2>2, RelayedTypes DEF SendQueued
  <2>5. QED
    BY <1>7, <1>a, <2>3, <2>4, UnchangedTypes DEF SendQueued, TypeOK
<1>8. CASE RecordSentQueued(i)
  <2>1. RunType' /\ Current(i) \in Item
    BY <1>8, <1>a, RecordedRun DEF RecordSentQueued
  <2>2. Current(i).id \in Request
    BY <2>1 DEF Item
  <2>3. TableType'
    BY <1>8, <1>a, <1>b, <2>2, RowTypes DEF RecordSentQueued, TableType
  <2>4. ObservationType'
    BY <1>8, <1>a, <1>b, <2>2, FaultTypes DEF RecordSentQueued
  <2>5. QED
    BY <1>8, <1>a, <2>1, <2>3, <2>4, UnchangedTypes DEF RecordSentQueued, TypeOK
<1>9. CASE RecordFailureQueued(i)
  <2>1. RunType' /\ Current(i) \in Item
    BY <1>9, <1>a, RecordedRun DEF RecordFailureQueued
  <2>2. Current(i).id \in Request
    BY <2>1 DEF Item
  <2>3. DispatchVerdict(run[i].pc, Current(i).attempts) \in {"queued", "failed"}
    BY DEF DispatchVerdict
  <2>4. TableType'
    <3>1. \/ UNCHANGED rows
          \/ rows' = [rows EXCEPT ![Current(i).id] =
                 MarkedFailed(@, DispatchVerdict(run[i].pc, Current(i).attempts))]
      BY <1>9 DEF RecordFailureQueued
    <3>2. MarkedFailed(rows[Current(i).id], DispatchVerdict(run[i].pc, Current(i).attempts))
             \in Row
      BY <1>b, <2>2, <2>3, RowTypes
    <3>3. rows' \in [Request -> Row]
      BY <1>b, <3>1, <3>2
    <3>4. QED
      BY <1>9, <1>a, <3>3 DEF RecordFailureQueued, TableType
  <2>5. ObservationType'
    BY <1>9, <1>a, <1>b, FaultTypes DEF RecordFailureQueued
  <2>6. QED
    BY <1>9, <1>a, <2>1, <2>4, <2>5, UnchangedTypes DEF RecordFailureQueued, TypeOK
<1>10. CASE EndRun(i)
  <2>1. RunType'
    BY <1>10, <1>a, <1>c DEF EndRun, RunEnds, RunType, NoRun
  <2>2. RunVerdict(breaker[i], run[i].sent, run[i].failed) \in B!BreakerState
    BY <1>b, BreakerTypes DEF RunVerdict
  <2>3. ProcessType'
    BY <1>10, <1>a, <2>2 DEF EndRun, RunEnds, ProcessType
  <2>4. QED
    BY <1>10, <1>a, <2>1, <2>3, UnchangedTypes DEF EndRun, TypeOK
<1>11. QED
  BY <1>2, <1>3, <1>4, <1>5, <1>6, <1>7, <1>8, <1>9, <1>10 DEF RunStep

LEMMA PurgeTypes ==
    ASSUME TypeOK, Purge
    PROVE  TypeOK'
<1> USE DEF handlerVars, dispatchVars
<1>1. TableType'
  BY NewRowTypes DEF Purge, TypeOK, TableType
<1>2. ObservationType'
  BY DEF Purge, TypeOK, ObservationType
<1>3. HandlerType' /\ RunType' /\ ProcessType'
  BY UnchangedTypes DEF Purge, TypeOK
<1>4. QED
  BY <1>1, <1>2, <1>3 DEF TypeOK

LEMMA CrashTypes ==
    ASSUME TypeOK, NEW i \in Instance, Crash(i)
    PROVE  TypeOK'
<1> USE DEF tableVars
<1>a. TableType /\ HandlerType /\ RunType /\ ProcessType /\ ObservationType
  BY DEF TypeOK
<1>1. HandlerType'
  BY <1>a DEF Crash, HandlerType
<1>2. RunType'
  BY <1>a DEF Crash, RunType, NoRun, Run
<1>3. ProcessType'
  BY <1>a, BreakerTypes, PolicyAssumption DEF Crash, ProcessType
<1>4. run[i].pc = "accepted" => Current(i).id \in Request
  BY <1>a, RunTypes DEF RunType, Current, Item
<1>5. unsure' \subseteq Request
  BY <1>a, <1>4 DEF Crash, ObservationType
<1>6. ObservationType'
  BY <1>a, <1>5, FaultTypes DEF Crash
<1>7. TableType'
  BY <1>a, UnchangedTypes DEF Crash
<1>8. QED
  BY <1>1, <1>2, <1>3, <1>6, <1>7 DEF TypeOK

LEMMA TickTypes ==
    ASSUME TypeOK, Tick
    PROVE  TypeOK'
<1>a. TableType /\ HandlerType /\ RunType /\ ProcessType /\ ObservationType
  BY DEF TypeOK
<1>1. \A age \in 0..KeyCap : Older(age, KeyCap) \in 0..KeyCap
  BY PolicyAssumption DEF Older, KeyCap
<1>2. TableType'
  BY <1>a, <1>1, RowTypes DEF Tick, TableType
<1>3. \A tokens \in 0..BudgetCap : Refilled(tokens) \in 0..BudgetCap
  BY PolicyAssumption DEF Refilled
<1>4. ProcessType'
  BY <1>a, <1>3, BreakerTypes DEF Tick, ProcessType, Busy
<1>5. QED
  BY <1>a, <1>2, <1>4, UnchangedTypes DEF Tick, TypeOK, handlerVars, ghostVars

LEMMA TypeStep == TypeOK /\ [Next]_vars => TypeOK'
<1> SUFFICES ASSUME TypeOK, [Next]_vars PROVE TypeOK'
  OBVIOUS
<1>1. CASE UNCHANGED vars
  BY <1>1, UnchangedTypes DEF TypeOK, vars, tableVars, handlerVars, dispatchVars, ghostVars
<1>2. CASE Next
  BY <1>2, HandlerTypes, RunStepTypes, PurgeTypes, CrashTypes, TickTypes DEF Next
<1>3. QED
  BY <1>1, <1>2

\* The types hold in every behaviour, for all sizes of the system.
THEOREM TypeCorrect == Spec => []TypeOK
<1>1. Init => TypeOK
  BY TypeInit
<1>2. TypeOK /\ [Next]_vars => TypeOK'
  BY TypeStep
<1>3. QED
  BY <1>1, <1>2, PTL DEF Spec

-----------------------------------------------------------------------------
(***************************************************************************)
(* One key, one row, one receipt.  The argument: a row is never older than *)
(* its key, a key still in hand is younger than the retention, so the      *)
(* purge cannot reach a row while anybody may still submit, insert or look *)
(* for its key.  KeyInv says this of every place a row can be referred to. *)
(***************************************************************************)

\* The rows the visitors of key k were told, or are about to be told.
Claims(k) ==
    {receipt[r] : r \in {q \in Request : KeyOf[q] = k /\ receipt[q] # None}}
        \cup {r \in Request : KeyOf[r] = k /\ pc[r] \in Delivering}

YoungInHand ==
    \A r \in Request : pc[r] \in {"checked", "repeat"} =>
        /\ keyAge[KeyOf[r]] <= 2 * ClockSkew + 1
        /\ r \notin late => keyAge[KeyOf[r]] <= 2 * ClockSkew

RowYoungerThanKey ==
    \A x \in Stored : rows[x].age <= keyAge[KeyOf[x]] \/ keyAge[KeyOf[x]] = KeyCap

OneRowPerKey == \A x, y \in Stored : KeyOf[x] = KeyOf[y] => x = y

ClaimsAreKept ==
    \A k \in Key : \A x \in Claims(k) :
        x \in Request /\ KeyOf[x] = k /\ (x \in Stored \/ keyAge[k] = KeyCap)

OneClaimPerKey == \A k \in Key : \A x, y \in Claims(k) : x = y

KeyInv ==
    /\ YoungInHand
    /\ RowYoungerThanKey
    /\ OneRowPerKey
    /\ FindNeverMisses
    /\ ClaimsAreKept
    /\ OneClaimPerKey

\* The table holds the same rows, each as old as before.
SameTable ==
    /\ keyAge' = keyAge
    /\ \A x \in Request : (rows'[x].status = "none") <=> (rows[x].status = "none")
    /\ \A x \in Request : rows'[x].age = rows[x].age

LEMMA MarkKeepsRow ==
    ASSUME NEW row \in Row, NEW status \in {"queued", "failed"}
    PROVE  /\ (MarkedSent(row).status = "none") <=> (row.status = "none")
           /\ MarkedSent(row).age = row.age
           /\ (MarkedFailed(row, status).status = "none") <=> (row.status = "none")
           /\ MarkedFailed(row, status).age = row.age
<1> DEFINE sent == [row EXCEPT !.status = "sent", !.delivered = TRUE, !.attempts = @ + 1]
           failed == [row EXCEPT !.status = status, !.attempts = @ + 1]
<1>1. sent.status = "sent" /\ sent.age = row.age
  BY DEF Row
<1>2. failed.status = status /\ failed.age = row.age
  BY DEF Row
<1>3. MarkedSent(row) \in {row, sent} /\ (row.status = "none" => MarkedSent(row) = row)
  BY DEF MarkedSent, Updated
<1>4. /\ MarkedFailed(row, status) \in {row, failed}
      /\ row.status = "none" => MarkedFailed(row, status) = row
  BY DEF MarkedFailed, Updated
<1>5. QED
  BY <1>1, <1>2, <1>3, <1>4

\* A step that keeps the table and makes no new claim.
LEMMA QuietStep ==
    ASSUME KeyInv, SameTable,
           \A k \in Key : Claims(k)' \subseteq Claims(k),
           \A r \in Request : pc'[r] \in {"checked", "repeat"} =>
               pc'[r] = pc[r] /\ (r \notin late' => r \notin late)
    PROVE  KeyInv'
<1>1. Stored' = Stored
  BY DEF SameTable, Stored
<1>2. YoungInHand'
  BY DEF KeyInv, YoungInHand, SameTable
<1>3. RowYoungerThanKey'
  BY <1>1 DEF KeyInv, RowYoungerThanKey, SameTable, Stored
<1>4. OneRowPerKey'
  BY <1>1 DEF KeyInv, OneRowPerKey
<1>5. FindNeverMisses'
  BY <1>1 DEF KeyInv, FindNeverMisses, SameKey
<1>6. ClaimsAreKept'
  BY <1>1 DEF KeyInv, ClaimsAreKept, SameTable
<1>7. OneClaimPerKey'
  BY DEF KeyInv, OneClaimPerKey
<1>8. QED
  BY <1>2, <1>3, <1>4, <1>5, <1>6, <1>7 DEF KeyInv

LEMMA KeyInit == Init => KeyInv
<1> SUFFICES ASSUME Init PROVE KeyInv
  OBVIOUS
<1>1. Stored = {}
  BY DEF Init, Stored, NoRow
<1>2. \A k \in Key : Claims(k) = {}
  BY DEF Init, Claims, Delivering
<1>3. QED
  BY <1>1, <1>2 DEF Init, KeyInv, YoungInHand, RowYoungerThanKey, OneRowPerKey,
     FindNeverMisses, ClaimsAreKept, OneClaimPerKey

\* A step of the dispatcher marks a row or leaves the table alone.
LEMMA RunStepKeepsKeys ==
    ASSUME TypeOK, KeyInv, NEW i \in Instance, RunStep(i) \/ ListError(i)
    PROVE  KeyInv'
<1> USE DEF tableVars, handlerVars
<1>1. UNCHANGED <<keyAge, pc, receipt>>
  BY DEF RunStep, SkipRun, ListDeliverable, FindQueueEmpty, ListError, Take, SendQueued,
     RecordSentQueued, RecordFailureQueued, EndRun
<1>2. \A r \in Request : r \in late => r \in late'
  <2>1. late' = late \/ late' = late \ {i}
    BY DEF RunStep, SkipRun, ListDeliverable, FindQueueEmpty, ListError, Take, SendQueued,
       RecordSentQueued, RecordFailureQueued, EndRun, RunEnds
  <2>2. i \notin Request
    BY RequestAssumption
  <2>3. QED
    BY <2>1, <2>2
<1>3. SameTable
  <2>1. CASE UNCHANGED rows
    BY <1>1, <2>1 DEF SameTable
  <2>2. CASE RecordSentQueued(i)
    <3>1. Current(i) \in Item
      BY <2>2, RecordedRun DEF RecordSentQueued, TypeOK
    <3>2. \/ UNCHANGED rows
          \/ rows' = [rows EXCEPT ![Current(i).id] = MarkedSent(@)]
      BY <2>2 DEF RecordSentQueued
    <3>3. rows \in [Request -> Row] /\ Current(i).id \in Request
      BY <3>1 DEF TypeOK, TableType, Item
    <3>4. QED
      BY <1>1, <3>2, <3>3, MarkKeepsRow DEF SameTable
  <2>3. CASE RecordFailureQueued(i)
    <3>1. Current(i) \in Item
      BY <2>3, RecordedRun DEF RecordFailureQueued, TypeOK
    <3>2. PICK verdict \in {"queued", "failed"} :
            \/ UNCHANGED rows
            \/ rows' = [rows EXCEPT ![Current(i).id] = MarkedFailed(@, verdict)]
      BY <2>3 DEF RecordFailureQueued, DispatchVerdict
    <3>3. rows \in [Request -> Row] /\ Current(i).id \in Request
      BY <3>1 DEF TypeOK, TableType, Item
    <3>4. QED
      BY <1>1, <3>2, <3>3, MarkKeepsRow DEF SameTable
  <2>4. QED
    BY <2>1, <2>2, <2>3 DEF RunStep, SkipRun, ListDeliverable, FindQueueEmpty, ListError,
       Take, SendQueued, EndRun
<1>4. \A k \in Key : Claims(k)' \subseteq Claims(k)
  BY <1>1 DEF Claims
<1>5. QED
  BY <1>1, <1>2, <1>3, <1>4, QuietStep

\* A handler step that neither inserts nor looks up: the row it may mark and
\* the receipt it may hand out are its own.
LEMMA QuietHandlerKeepsKeys ==
    ASSUME TypeOK, KeyInv, NEW r \in Request,
           \/ TakeBudget(r) \/ Send(r) \/ RecordSent(r) \/ RecordFailure(r)
           \/ Refuse(r) \/ Discard(r) \/ FloorError(r) \/ FindError(r)
    PROVE  KeyInv'
<1> USE DEF tableVars
<1>a. rows \in [Request -> Row] /\ pc[r] \in {"idle", "checked", "repeat", "done"} \cup Delivering
  BY DEF TypeOK, TableType, HandlerType
<1>1. SameTable
  <2>1. CASE UNCHANGED rows /\ UNCHANGED keyAge
    BY <2>1 DEF SameTable
  <2>2. CASE RecordSent(r)
    <3>1. UNCHANGED rows \/ rows' = [rows EXCEPT ![r] = MarkedSent(@)]
      BY <2>2 DEF RecordSent
    <3>2. QED
      BY <1>a, <2>2, <3>1, MarkKeepsRow DEF SameTable, RecordSent
  <2>3. CASE RecordFailure(r)
    <3>1. PICK verdict \in {"queued", "failed"} :
            UNCHANGED rows \/ rows' = [rows EXCEPT ![r] = MarkedFailed(@, verdict)]
      BY <2>3 DEF RecordFailure, HandlerVerdict
    <3>2. QED
      BY <1>a, <2>3, <3>1, MarkKeepsRow DEF SameTable, RecordFailure
  <2>4. QED
    BY <2>1, <2>2, <2>3 DEF TakeBudget, Send, Refuse, Discard, FloorError, FindError
<1>2. PICK to \in {"done"} \cup Delivering : pc' = [pc EXCEPT ![r] = to]
  BY DEF TakeBudget, Send, RecordSent, RecordFailure, Refuse, Discard, FloorError,
     FindError, Answered, Delivering, Outcome
<1>3. to \in Delivering => pc[r] \in Delivering
  BY <1>2 DEF TakeBudget, Send, RecordSent, RecordFailure, Refuse, Discard, FloorError,
     FindError, Answered, Delivering, TypeOK, HandlerType
<1>4. \/ UNCHANGED receipt
      \/ receipt' = [receipt EXCEPT ![r] = r] /\ pc[r] \in Delivering
  BY DEF TakeBudget, Send, RecordSent, RecordFailure, Refuse, Discard, FloorError,
     FindError, Delivering
<1>5. late' = late \/ late' = late \ {r}
  BY DEF TakeBudget, Send, RecordSent, RecordFailure, Refuse, Discard, FloorError,
     FindError, Answered
<1>6. \A k \in Key : Claims(k)' \subseteq Claims(k)
  BY <1>2, <1>3, <1>4 DEF Claims, TypeOK, HandlerType
<1>7. \A q \in Request : pc'[q] \in {"checked", "repeat"} =>
         pc'[q] = pc[q] /\ (q \notin late' => q \notin late)
  BY <1>2, <1>5 DEF Delivering, TypeOK, HandlerType
<1>8. QED
  BY <1>1, <1>6, <1>7, QuietStep

LEMMA FloorKeepsKeys ==
    ASSUME TypeOK, KeyInv, NEW r \in Request, Floor(r)
    PROVE  KeyInv'
<1> USE DEF tableVars
<1>1. UNCHANGED <<rows, keyAge, receipt>> /\ Plausible(r)
  BY DEF Floor
<1>2. PICK to \in {"done", "checked"} : pc' = [pc EXCEPT ![r] = to]
  BY DEF Floor, Answered
<1>3. late' = late \/ (late' = late \ {r} /\ to = "done")
  BY <1>2 DEF Floor, Answered, TypeOK, HandlerType
<1>4. Stored' = Stored
  BY <1>1 DEF Stored
<1>5. YoungInHand'
  <2>1. keyAge[KeyOf[r]] \in Nat /\ keyAge[KeyOf[r]] <= 2 * ClockSkew
    BY <1>1, RequestAssumption, PolicyAssumption DEF Plausible, TypeOK, TableType, KeyCap
  <2>2. QED
    BY <1>1, <1>2, <1>3, <2>1, PolicyAssumption
    DEF KeyInv, YoungInHand, TypeOK, HandlerType
<1>6. \A k \in Key : Claims(k)' \subseteq Claims(k)
  BY <1>1, <1>2 DEF Claims, Delivering, TypeOK, HandlerType
<1>7. FindNeverMisses'
  BY <1>1, <1>2, <1>4 DEF KeyInv, FindNeverMisses, SameKey, TypeOK, HandlerType
<1>8. RowYoungerThanKey' /\ OneRowPerKey' /\ ClaimsAreKept' /\ OneClaimPerKey'
  BY <1>1, <1>4, <1>6 DEF KeyInv, RowYoungerThanKey, OneRowPerKey, ClaimsAreKept, OneClaimPerKey
<1>9. QED
  BY <1>5, <1>7, <1>8 DEF KeyInv

\* A key in hand has not reached its cap: every claim on it is still stored.
LEMMA KeyInHand ==
    ASSUME TypeOK, KeyInv, NEW r \in Request, pc[r] \in {"checked", "repeat"}
    PROVE  /\ keyAge[KeyOf[r]] # KeyCap
           /\ \A x \in Claims(KeyOf[r]) : x \in SameKey(r)
<1>1. keyAge[KeyOf[r]] <= 2 * ClockSkew + 1 /\ KeyOf[r] \in Key
  BY RequestAssumption DEF KeyInv, YoungInHand
<1>2. keyAge[KeyOf[r]] # KeyCap
  BY <1>1, PolicyAssumption DEF KeyCap
<1>3. QED
  BY <1>1, <1>2 DEF KeyInv, ClaimsAreKept, SameKey

\* The INSERT: into an empty key it makes the first row and the first claim,
\* into a taken one it makes neither.
LEMMA InsertKeepsKeys ==
    ASSUME TypeOK, KeyInv, NEW r \in Request, Insert(r) \/ InsertError(r)
    PROVE  KeyInv'
<1> DEFINE k == KeyOf[r]
<1>a. pc[r] = "checked" /\ UNCHANGED <<keyAge, receipt>> /\ k \in Key
  BY RequestAssumption DEF Insert, InsertError
<1>b. /\ rows \in [Request -> Row]
      /\ keyAge \in [Key -> 0..KeyCap]
      /\ pc \in [Request -> {"idle", "checked", "repeat", "done"} \cup Delivering]
      /\ late' = late \/ late' = late \ {r}
  BY DEF TypeOK, TableType, HandlerType, Insert, InsertError, Answered
<1>c. PICK to \in {"stored", "repeat", "done"} :
        /\ pc' = [pc EXCEPT ![r] = to]
        /\ to = "stored" => SameKey(r) = {} /\ rows' = [rows EXCEPT ![r] = NewRow]
        /\ to = "repeat" => SameKey(r) # {} /\ rows' = rows
        /\ to # "done" => late' = late
        /\ to = "done" => rows' = rows \/ (SameKey(r) = {} /\ rows' = [rows EXCEPT ![r] = NewRow])
  BY DEF Insert, InsertError, Inserted, Answered
<1>d. YoungInHand'
  BY <1>a, <1>b, <1>c DEF KeyInv, YoungInHand
<1>1. CASE rows' = rows /\ to # "stored"
  <2>1. Stored' = Stored
    BY <1>1 DEF Stored
  <2>2. \A q \in Key : Claims(q)' \subseteq Claims(q)
    BY <1>1, <1>a, <1>b, <1>c DEF Claims, Delivering
  <2>3. FindNeverMisses'
    BY <1>b, <1>c, <2>1 DEF KeyInv, FindNeverMisses, SameKey
  <2>4. RowYoungerThanKey' /\ OneRowPerKey' /\ ClaimsAreKept' /\ OneClaimPerKey'
    BY <1>1, <1>a, <2>1, <2>2
    DEF KeyInv, RowYoungerThanKey, OneRowPerKey, ClaimsAreKept, OneClaimPerKey
  <2>5. QED
    BY <1>d, <2>3, <2>4 DEF KeyInv
<1>2. CASE SameKey(r) = {} /\ rows' = [rows EXCEPT ![r] = NewRow]
  <2>1. Stored' = Stored \cup {r} /\ rows'[r].age = 0
    BY <1>2, <1>b DEF Stored, NewRow
  <2>2. r \notin Stored
    BY <1>2 DEF SameKey
  <2>3. \A x \in Stored : rows'[x] = rows[x] /\ KeyOf[x] # k
    BY <1>2, <1>b, <2>2 DEF SameKey, Stored
  <2>4. Claims(k) = {}
    BY <1>2, <1>a, KeyInHand
  <2>5. Claims(k)' \subseteq {r}
    BY <1>a, <1>b, <1>c, <2>4 DEF Claims
  <2>6. \A q \in Key \ {k} : Claims(q)' \subseteq Claims(q)
    BY <1>a, <1>b, <1>c DEF Claims
  <2>7. RowYoungerThanKey'
    BY <1>a, <1>b, <2>1, <2>3, PolicyAssumption DEF KeyInv, RowYoungerThanKey, KeyCap
  <2>8. OneRowPerKey'
    BY <2>1, <2>3 DEF KeyInv, OneRowPerKey
  <2>9. FindNeverMisses'
    BY <1>2, <1>b, <1>c, <2>1 DEF KeyInv, FindNeverMisses, SameKey
  <2>10. ClaimsAreKept'
    BY <1>a, <2>1, <2>5, <2>6 DEF KeyInv, ClaimsAreKept
  <2>11. OneClaimPerKey'
    BY <2>5, <2>6 DEF KeyInv, OneClaimPerKey
  <2>12. QED
    BY <1>d, <2>7, <2>8, <2>9, <2>10, <2>11 DEF KeyInv
<1>3. QED
  BY <1>1, <1>2, <1>c

\* A repeat is told the one row of its key, which every earlier receipt names.
LEMMA FindKeepsKeys ==
    ASSUME TypeOK, KeyInv, NEW r \in Request, FindExisting(r)
    PROVE  KeyInv'
<1> DEFINE k == KeyOf[r]
<1> USE DEF tableVars
<1>a. pc[r] = "repeat" /\ UNCHANGED <<rows, keyAge>> /\ k \in Key
  BY RequestAssumption DEF FindExisting
<1>b. /\ pc \in [Request -> {"idle", "checked", "repeat", "done"} \cup Delivering]
      /\ receipt \in [Request -> Request \cup {None}]
      /\ pc' = [pc EXCEPT ![r] = "done"]
      /\ late' = late \ {r}
  BY DEF TypeOK, HandlerType, FindExisting, Answered
<1>c. PICK x \in SameKey(r) : receipt' = [receipt EXCEPT ![r] = x]
  BY <1>a DEF FindExisting, KeyInv, FindNeverMisses
<1>d. x \in Stored /\ x \in Request /\ KeyOf[x] = k
  BY <1>c DEF SameKey, Stored
<1>1. Stored' = Stored
  BY <1>a DEF Stored
<1>2. Claims(k)' \subseteq {x}
  <2>1. \A y \in Claims(k) : y = x
    BY <1>a, <1>d, KeyInHand DEF SameKey, KeyInv, OneRowPerKey
  <2>2. QED
    BY <1>b, <1>c, <2>1 DEF Claims, Delivering
<1>3. \A q \in Key \ {k} : Claims(q)' \subseteq Claims(q)
  BY <1>b, <1>c DEF Claims, Delivering
<1>4. YoungInHand'
  BY <1>a, <1>b DEF KeyInv, YoungInHand
<1>5. FindNeverMisses'
  BY <1>b, <1>1 DEF KeyInv, FindNeverMisses, SameKey
<1>6. RowYoungerThanKey' /\ OneRowPerKey'
  BY <1>a, <1>1 DEF KeyInv, RowYoungerThanKey, OneRowPerKey
<1>7. ClaimsAreKept'
  BY <1>a, <1>d, <1>1, <1>2, <1>3 DEF KeyInv, ClaimsAreKept
<1>8. OneClaimPerKey'
  BY <1>2, <1>3 DEF KeyInv, OneClaimPerKey
<1>9. QED
  BY <1>4, <1>5, <1>6, <1>7, <1>8 DEF KeyInv

\* What the purge takes has outlived its key.
LEMMA PurgeKeepsKeys ==
    ASSUME TypeOK, KeyInv, Purge
    PROVE  KeyInv'
<1> USE DEF handlerVars
<1>a. UNCHANGED <<keyAge, pc, receipt, late>>
  BY DEF Purge
<1>b. rows \in [Request -> Row] /\ keyAge \in [Key -> 0..KeyCap]
  BY DEF TypeOK, TableType
<1>1. Stored' \subseteq Stored /\ \A x \in Stored' : rows'[x] = rows[x]
  BY <1>b DEF Purge, Stored, NoRow
<1>2. \A x \in Stored \ Stored' : keyAge[KeyOf[x]] = KeyCap
  <2>1. SUFFICES ASSUME NEW x \in Stored, x \notin Stored'
                 PROVE  keyAge[KeyOf[x]] = KeyCap
    OBVIOUS
  <2>2. x \in Request /\ KeyOf[x] \in Key
    BY RequestAssumption DEF Stored
  <2>3. rows[x].age > Retention /\ rows[x].age \in Nat
    BY <1>b, <2>1, <2>2, RetentionAssumption DEF Purge, Stored, Purgeable, Row
  <2>4. rows[x].age >= KeyCap
    BY <2>3, RetentionAssumption, PolicyAssumption DEF KeyCap
  <2>5. keyAge[KeyOf[x]] \in 0..KeyCap
    BY <1>b, <2>2
  <2>6. rows[x].age <= keyAge[KeyOf[x]] \/ keyAge[KeyOf[x]] = KeyCap
    BY <2>1 DEF KeyInv, RowYoungerThanKey
  <2>7. QED
    BY <2>3, <2>4, <2>5, <2>6, PolicyAssumption DEF KeyCap
<1>3. \A k \in Key : Claims(k)' = Claims(k)
  BY <1>a DEF Claims
<1>4. FindNeverMisses'
  <2>1. SUFFICES ASSUME NEW r \in Request, pc[r] = "repeat"
                 PROVE  SameKey(r)' # {}
    BY <1>a DEF FindNeverMisses
  <2>2. PICK x \in SameKey(r) : TRUE
    BY <2>1 DEF KeyInv, FindNeverMisses
  <2>3. keyAge[KeyOf[x]] # KeyCap
    BY <2>1, <2>2, KeyInHand DEF SameKey
  <2>4. x \in Stored'
    BY <1>2, <2>2, <2>3 DEF SameKey
  <2>5. QED
    BY <2>2, <2>4 DEF SameKey
<1>5. YoungInHand' /\ RowYoungerThanKey' /\ OneRowPerKey'
  BY <1>a, <1>1 DEF KeyInv, YoungInHand, RowYoungerThanKey, OneRowPerKey
<1>6. ClaimsAreKept' /\ OneClaimPerKey'
  BY <1>a, <1>2, <1>3 DEF KeyInv, ClaimsAreKept, OneClaimPerKey
<1>7. QED
  BY <1>4, <1>5, <1>6 DEF KeyInv

LEMMA CrashKeepsKeys ==
    ASSUME TypeOK, KeyInv, NEW i \in Instance, Crash(i)
    PROVE  KeyInv'
<1> USE DEF tableVars
<1>a. UNCHANGED <<rows, keyAge, receipt>>
  BY DEF Crash
<1>1. SameTable
  BY <1>a DEF SameTable
<1>2. \A r \in Request : pc'[r] = pc[r] \/ pc'[r] = "done"
  BY DEF Crash
<1>3. \A k \in Key : Claims(k)' \subseteq Claims(k)
  BY <1>a, <1>2 DEF Claims, Delivering
<1>4. \A r \in Request : pc'[r] \in {"checked", "repeat"} =>
         pc'[r] = pc[r] /\ (r \notin late' => r \notin late)
  <2>1. \A r \in Request : HomeOf[r] = i /\ InFlight(r) => pc'[r] = "done"
    BY DEF Crash
  <2>2. \A r \in Request : r \in late /\ r \notin late' => pc'[r] = "done" \/ ~InFlight(r) \/ r = i
    BY <2>1 DEF Crash
  <2>3. i \notin Request
    BY RequestAssumption
  <2>4. QED
    BY <1>2, <2>2, <2>3 DEF InFlight
<1>5. QED
  BY <1>1, <1>3, <1>4, QuietStep

\* The clock: a request in hand has not seen a tick before (late is empty), so
\* its key may grow one tick older and is still in hand.
LEMMA TickKeepsKeys ==
    ASSUME TypeOK, KeyInv, Tick
    PROVE  KeyInv'
<1> USE DEF handlerVars
<1>a. /\ UNCHANGED <<pc, receipt>> /\ late = {} /\ late' = Busy
      /\ rows' = [r \in Request |-> RowAged(rows[r])]
      /\ keyAge' = [k \in Key |-> Older(keyAge[k], KeyCap)]
  BY DEF Tick
<1>b. rows \in [Request -> Row] /\ keyAge \in [Key -> 0..KeyCap] /\ KeyCap \in Nat
  BY PolicyAssumption DEF TypeOK, TableType, KeyCap
<1>1. Stored' = Stored
  BY <1>a, <1>b DEF Stored, RowAged, Row
<1>2. \A x \in Stored : rows[x].age \in 0..AgeCap /\ rows'[x].age = Older(rows[x].age, AgeCap)
  BY <1>a, <1>b DEF Stored, RowAged, Row
<1>3. YoungInHand'
  <2>1. SUFFICES ASSUME NEW r \in Request, pc[r] \in {"checked", "repeat"}
                 PROVE  keyAge'[KeyOf[r]] <= 2 * ClockSkew + 1 /\ r \in late'
    BY <1>a DEF YoungInHand
  <2>2. KeyOf[r] \in Key /\ keyAge[KeyOf[r]] \in 0..KeyCap
    BY <1>b, RequestAssumption
  <2>3. keyAge[KeyOf[r]] <= 2 * ClockSkew
    BY <1>a, <2>1 DEF KeyInv, YoungInHand
  <2>4. keyAge'[KeyOf[r]] <= 2 * ClockSkew + 1
    BY <1>a, <1>b, <2>2, <2>3, PolicyAssumption DEF Older, KeyCap
  <2>5. QED
    BY <1>a, <2>1, <2>4 DEF Busy, InFlight
<1>4. RowYoungerThanKey'
  <2>1. SUFFICES ASSUME NEW x \in Stored
                 PROVE  rows'[x].age <= keyAge'[KeyOf[x]] \/ keyAge'[KeyOf[x]] = KeyCap
    BY <1>1 DEF RowYoungerThanKey
  <2>2. KeyOf[x] \in Key /\ keyAge[KeyOf[x]] \in 0..KeyCap
    BY <1>b, RequestAssumption DEF Stored
  <2>3. rows[x].age <= keyAge[KeyOf[x]] \/ keyAge[KeyOf[x]] = KeyCap
    BY DEF KeyInv, RowYoungerThanKey
  <2>4. keyAge'[KeyOf[x]] = Older(keyAge[KeyOf[x]], KeyCap)
    BY <1>a, <2>2
  <2>5. QED
    BY <1>2, <1>b, <2>2, <2>3, <2>4, RetentionAssumption DEF Older
<1>5. \A k \in Key : Claims(k)' = Claims(k)
  BY <1>a DEF Claims
<1>6. FindNeverMisses'
  BY <1>a, <1>1 DEF KeyInv, FindNeverMisses, SameKey
<1>7. \A k \in Key : keyAge[k] = KeyCap => keyAge'[k] = KeyCap
  BY <1>a, <1>b DEF Older
<1>8. ClaimsAreKept'
  BY <1>1, <1>5, <1>7 DEF KeyInv, ClaimsAreKept
<1>9. OneRowPerKey' /\ OneClaimPerKey'
  BY <1>1, <1>5 DEF KeyInv, OneRowPerKey, OneClaimPerKey
<1>10. QED
  BY <1>3, <1>4, <1>6, <1>8, <1>9 DEF KeyInv

LEMMA KeyStep == TypeOK /\ KeyInv /\ [Next]_vars => KeyInv'
<1> SUFFICES ASSUME TypeOK, KeyInv, [Next]_vars PROVE KeyInv'
  OBVIOUS
<1>1. CASE UNCHANGED vars
  <2>1. SameTable /\ UNCHANGED <<pc, receipt, late>>
    BY <1>1 DEF vars, tableVars, handlerVars, SameTable
  <2>2. \A k \in Key : Claims(k)' = Claims(k)
    BY <2>1 DEF Claims
  <2>3. QED
    BY <2>1, <2>2, QuietStep
<1>2. CASE Next
  BY <1>2, RunStepKeepsKeys, QuietHandlerKeepsKeys, FloorKeepsKeys, InsertKeepsKeys,
     FindKeepsKeys, PurgeKeepsKeys, CrashKeepsKeys, TickKeepsKeys DEF Next, HandlerStep
<1>3. QED
  BY <1>1, <1>2

LEMMA KeyCorrect == Spec => []KeyInv
<1>1. Init => KeyInv
  BY KeyInit
<1>2. TypeOK /\ KeyInv /\ [Next]_vars => KeyInv'
  BY KeyStep
<1>3. QED
  BY <1>1, <1>2, TypeCorrect, PTL DEF Spec

\* Whoever lost the INSERT to an identical submission finds the row: a 500 for
\* a double click cannot happen for any retention longer than twice the skew.
THEOREM FindNeverMissesHolds == Spec => []FindNeverMisses
<1>1. KeyInv => FindNeverMisses
  BY DEF KeyInv
<1>2. QED
  BY <1>1, KeyCorrect, PTL

\* Two presses with one key are given one receipt.
THEOREM ReceiptStableHolds == Spec => []ReceiptStable
<1>1. KeyInv => ReceiptStable
  <2>1. SUFFICES ASSUME KeyInv, NEW p \in Request, NEW q \in Request,
                        KeyOf[p] = KeyOf[q], receipt[p] # None, receipt[q] # None
                 PROVE  receipt[p] = receipt[q]
    BY DEF ReceiptStable
  <2>2. KeyOf[p] \in Key
    BY RequestAssumption
  <2>3. receipt[p] \in Claims(KeyOf[p]) /\ receipt[q] \in Claims(KeyOf[p])
    BY <2>1 DEF Claims
  <2>4. QED
    BY <2>1, <2>2, <2>3 DEF KeyInv, OneClaimPerKey
<1>2. QED
  BY <1>1, KeyCorrect, PTL

-----------------------------------------------------------------------------
(***************************************************************************)
(* What becomes of a message: a row marked sent was sent and stays so, and *)
(* nothing a visitor was promised disappears.  The argument goes through   *)
(* the ways in which a single step can change a single row.                *)
(***************************************************************************)

\* The relay has taken the mail of x and its carrier is about to record it.
AboutToMark(x) ==
    \/ pc[x] = "accepted"
    \/ \E i \in Instance : run[i].pc = "accepted" /\ Current(i).id = x

\* One step changes row x in one of these ways.
RowMoves(x) ==
    \/ rows'[x] = rows[x]
    \/ rows'[x] = MarkedSent(rows[x]) /\ AboutToMark(x)
    \/ \E v \in {"queued", "failed"} : rows'[x] = MarkedFailed(rows[x], v)
    \/ rows'[x] = NewRow /\ rows[x].status = "none"
    \/ rows'[x] = NoRow /\ Purgeable(rows[x]) /\ (rows[x].status = "failed" => x \in buried')
    \/ rows'[x] = RowAged(rows[x])

\* Mails are never taken back, and the purge forgets nothing it buried.
Grows ==
    /\ \A x \in Request : mails'[x] \in {mails[x], mails[x] + 1}
    /\ buried \subseteq buried'

LEMMA HandlerRowMoves ==
    ASSUME TypeOK, NEW r \in Request,
           \/ HandlerStep(r) \/ Refuse(r) \/ Discard(r)
           \/ FloorError(r) \/ InsertError(r) \/ FindError(r)
    PROVE  /\ \A x \in Request : RowMoves(x)
           /\ Grows
<1> USE DEF tableVars, ghostVars
<1>a. rows \in [Request -> Row] /\ mails \in [Request -> Nat]
  BY DEF TypeOK, TableType, ObservationType
<1>1. \A x \in Request : RowMoves(x)
  <2>1. CASE UNCHANGED rows
    BY <2>1 DEF RowMoves
  <2>2. CASE Insert(r) \/ InsertError(r)
    <3>1. UNCHANGED rows \/ (SameKey(r) = {} /\ rows' = [rows EXCEPT ![r] = NewRow])
      BY <2>2 DEF Insert, InsertError, Inserted
    <3>2. SameKey(r) = {} => rows[r].status = "none"
      BY DEF SameKey, Stored
    <3>3. QED
      BY <1>a, <3>1, <3>2 DEF RowMoves
  <2>3. CASE RecordSent(r)
    BY <1>a, <2>3 DEF RecordSent, RowMoves, AboutToMark
  <2>4. CASE RecordFailure(r)
    <3>1. PICK v \in {"queued", "failed"} :
            UNCHANGED rows \/ rows' = [rows EXCEPT ![r] = MarkedFailed(@, v)]
      BY <2>4 DEF RecordFailure, HandlerVerdict
    <3>2. QED
      BY <1>a, <3>1 DEF RowMoves
  <2>5. QED
    BY <2>1, <2>2, <2>3, <2>4
    DEF HandlerStep, Floor, FindExisting, TakeBudget, Send, Refuse, Discard, FloorError, FindError
<1>2. Grows
  <2>1. CASE Send(r)
    BY <1>a, <2>1 DEF Send, Relayed, Grows
  <2>2. CASE UNCHANGED <<mails, buried>>
    BY <2>2 DEF Grows
  <2>3. QED
    BY <2>1, <2>2 DEF HandlerStep, Floor, Insert, FindExisting, TakeBudget, RecordSent,
       RecordFailure, Refuse, Discard, FloorError, InsertError, FindError
<1>3. QED
  BY <1>1, <1>2

LEMMA RunRowMoves ==
    ASSUME TypeOK, NEW i \in Instance, RunStep(i) \/ ListError(i)
    PROVE  /\ \A x \in Request : RowMoves(x)
           /\ Grows
<1> USE DEF tableVars, ghostVars
<1>a. rows \in [Request -> Row] /\ mails \in [Request -> Nat]
  BY DEF TypeOK, TableType, ObservationType
<1>1. \A x \in Request : RowMoves(x)
  <2>1. CASE UNCHANGED rows
    BY <2>1 DEF RowMoves
  <2>2. CASE RecordSentQueued(i)
    <3>1. \/ UNCHANGED rows
          \/ rows' = [rows EXCEPT ![Current(i).id] = MarkedSent(@)]
      BY <2>2 DEF RecordSentQueued
    <3>2. AboutToMark(Current(i).id)
      BY <2>2 DEF RecordSentQueued, AboutToMark
    <3>3. QED
      BY <1>a, <3>1, <3>2 DEF RowMoves
  <2>3. CASE RecordFailureQueued(i)
    <3>1. PICK v \in {"queued", "failed"} :
            UNCHANGED rows \/ rows' = [rows EXCEPT ![Current(i).id] = MarkedFailed(@, v)]
      BY <2>3 DEF RecordFailureQueued, DispatchVerdict
    <3>2. QED
      BY <1>a, <3>1 DEF RowMoves
  <2>4. QED
    BY <2>1, <2>2, <2>3 DEF RunStep, SkipRun, ListDeliverable, FindQueueEmpty, ListError,
       Take, SendQueued, EndRun
<1>2. Grows
  <2>1. CASE SendQueued(i)
    BY <1>a, <2>1 DEF SendQueued, Relayed, Grows
  <2>2. CASE UNCHANGED <<mails, buried>>
    BY <2>2 DEF Grows
  <2>3. QED
    BY <2>1, <2>2 DEF RunStep, SkipRun, ListDeliverable, FindQueueEmpty, ListError, Take,
       RecordSentQueued, RecordFailureQueued, EndRun
<1>3. QED
  BY <1>1, <1>2

LEMMA EveryRowMoves ==
    ASSUME TypeOK, [Next]_vars
    PROVE  /\ \A x \in Request : RowMoves(x)
           /\ Grows
<1>1. CASE Purge
  BY <1>1 DEF Purge, RowMoves, Grows
<1>2. CASE Tick
  BY <1>2 DEF Tick, RowMoves, Grows, ghostVars
<1>3. ASSUME NEW i \in Instance, Crash(i)
      PROVE  (\A x \in Request : RowMoves(x)) /\ Grows
  BY <1>3 DEF Crash, RowMoves, Grows, tableVars
<1>4. CASE UNCHANGED vars
  BY <1>4 DEF vars, tableVars, ghostVars, RowMoves, Grows
<1>5. QED
  BY <1>1, <1>2, <1>3, <1>4, HandlerRowMoves, RunRowMoves DEF Next

-----------------------------------------------------------------------------
(***************************************************************************)
(* A row marked sent was sent, and stays so                                *)
(***************************************************************************)

\* The CHECK of the table, and who is about to mark a row.
Checked == \A x \in Request : DeliveredIffSent(rows[x])

MarkersHaveSent == \A x \in Request : AboutToMark(x) => mails[x] >= 1

SentInv == Checked /\ MarkersHaveSent /\ SentMeansRelayTookIt

LEMMA MarkChecked ==
    ASSUME NEW row \in Row, DeliveredIffSent(row), NEW v \in {"queued", "failed"}
    PROVE  /\ DeliveredIffSent(MarkedSent(row))
           /\ DeliveredIffSent(MarkedFailed(row, v))
           /\ row.status = "sent" => MarkedSent(row).status = "sent"
           /\ row.status = "sent" => MarkedFailed(row, v) = row
           /\ MarkedFailed(row, v).status = "sent" => row.status = "sent"
           /\ row.status # "none" => MarkedSent(row).status = "sent"
<1> DEFINE sent == [row EXCEPT !.status = "sent", !.delivered = TRUE, !.attempts = @ + 1]
           failed == [row EXCEPT !.status = v, !.attempts = @ + 1]
<1>1. sent.status = "sent" /\ sent.delivered = TRUE
  BY DEF Row
<1>2. failed.status = v /\ failed.delivered = row.delivered
  BY DEF Row
<1>3. DeliveredIffSent(sent)
  BY <1>1 DEF DeliveredIffSent
<1>4. MarkedSent(row) = IF row.status # "none" THEN sent ELSE row
  BY <1>3 DEF MarkedSent, Updated
<1>5. MarkedFailed(row, v) = IF row.status # "none" /\ DeliveredIffSent(failed) THEN failed ELSE row
  BY DEF MarkedFailed, Updated
<1>6. row.status = "sent" => ~DeliveredIffSent(failed)
  BY <1>2 DEF DeliveredIffSent
<1>7. QED
  BY <1>1, <1>2, <1>3, <1>4, <1>5, <1>6

LEMMA AgedChecked ==
    ASSUME NEW row \in Row
    PROVE  /\ RowAged(row).status = row.status
           /\ RowAged(row).delivered = row.delivered
  BY DEF RowAged, Row

\* Who marks a row next has sent it: by a step of its own, or it already had.
LEMMA MarkersStep ==
    ASSUME TypeOK, SentInv, [Next]_vars
    PROVE  MarkersHaveSent'
<1> USE DEF tableVars, handlerVars, dispatchVars, ghostVars
<1>a. /\ mails \in [Request -> Nat]
      /\ pc \in [Request -> {"idle", "checked", "repeat", "done"} \cup Delivering]
      /\ RunType
      /\ Grows
  BY EveryRowMoves DEF TypeOK, ObservationType, HandlerType
<1>b. SUFFICES ASSUME NEW x \in Request, AboutToMark(x)'
               PROVE  mails'[x] >= 1
  BY DEF MarkersHaveSent
<1>c. AboutToMark(x) => mails'[x] >= 1
  BY <1>a DEF Grows, SentInv, MarkersHaveSent
<1>1. CASE pc'[x] = "accepted"
  <2>1. CASE pc[x] = "accepted"
    BY <1>c, <2>1 DEF AboutToMark
  <2>2. CASE pc[x] # "accepted"
    <3>1. Send(x)
      <4>1. ASSUME NEW r \in Request, r # x,
                   \/ HandlerStep(r) \/ Refuse(r) \/ Discard(r)
                   \/ FloorError(r) \/ InsertError(r) \/ FindError(r)
            PROVE  pc'[x] = pc[x]
        BY <1>a, <4>1 DEF HandlerStep, Floor, Insert, FindExisting, TakeBudget, Send,
           RecordSent, RecordFailure, Refuse, Discard, FloorError, InsertError, FindError,
           Answered
      <4>2. ASSUME NEW i \in Instance, RunStep(i) \/ ListError(i)
            PROVE  pc'[x] = pc[x]
        BY <4>2 DEF RunStep, SkipRun, ListDeliverable, FindQueueEmpty, ListError, Take,
           SendQueued, RecordSentQueued, RecordFailureQueued, EndRun
      <4>3. ASSUME NEW i \in Instance, Crash(i)
            PROVE  pc'[x] \in {pc[x], "done"}
        BY <4>3 DEF Crash
      <4>4. Purge \/ Tick \/ UNCHANGED vars => pc' = pc
        BY DEF Purge, Tick, vars
      <4>5. \/ Floor(x) \/ Insert(x) \/ FindExisting(x) \/ TakeBudget(x) \/ RecordSent(x)
            \/ RecordFailure(x) \/ Refuse(x) \/ Discard(x) \/ FloorError(x) \/ InsertError(x)
            \/ FindError(x)
            => pc'[x] # "accepted"
        BY <1>a DEF Floor, Insert, FindExisting, TakeBudget, RecordSent, RecordFailure,
           Refuse, Discard, FloorError, InsertError, FindError, Answered
      <4>6. QED
        BY <1>1, <2>2, <4>1, <4>2, <4>3, <4>4, <4>5 DEF Next, HandlerStep
    <3>2. PICK outcome \in Outcome : Relayed(x, outcome) /\ pc' = [pc EXCEPT ![x] = outcome]
      BY <3>1 DEF Send
    <3>3. outcome = "accepted"
      BY <1>1, <1>a, <3>2
    <3>4. QED
      BY <1>a, <3>2, <3>3 DEF Relayed
  <2>3. QED
    BY <2>1, <2>2
<1>2. ASSUME NEW i \in Instance, run'[i].pc = "accepted", (Current(i).id)' = x
      PROVE  mails'[x] >= 1
  <2>1. CASE run'[i] = run[i]
    <3>1. AboutToMark(x)
      BY <1>2, <2>1 DEF AboutToMark, Current
    <3>2. QED
      BY <1>c, <3>1
  <2>2. CASE run'[i] # run[i]
    <3>1. SendQueued(i)
      <4>1. ASSUME NEW j \in Instance, j # i, RunStep(j) \/ ListError(j)
            PROVE  run'[i] = run[i]
        BY <1>a, <4>1 DEF RunStep, SkipRun, ListDeliverable, FindQueueEmpty, ListError, Take,
           SendQueued, RecordSentQueued, RecordFailureQueued, EndRun, RunEnds, RunType
      <4>2. \/ SkipRun(i) \/ FindQueueEmpty(i) \/ ListError(i) => run' = run
        BY DEF SkipRun, FindQueueEmpty, ListError
      <4>3. ListDeliverable(i) \/ Take(i) \/ EndRun(i) \/ Crash(i) => run'[i].pc # "accepted"
        <5>1. ListDeliverable(i) => run'[i].pc = "deliver"
          BY <1>a DEF ListDeliverable, NoRun, RunType
        <5>2. Take(i) => run'[i].pc = "sending"
          BY <1>a, MovedRun DEF Take
        <5>3. EndRun(i) \/ Crash(i) => run'[i].pc = "idle"
          BY <1>a DEF EndRun, RunEnds, Crash, NoRun, RunType
        <5>4. QED
          BY <5>1, <5>2, <5>3
      <4>4. RecordSentQueued(i) \/ RecordFailureQueued(i) => run'[i].pc = "deliver"
        BY <1>a, RecordedRun DEF RecordSentQueued, RecordFailureQueued
      <4>5. ASSUME NEW j \in Instance, j # i, Crash(j)
            PROVE  run'[i] = run[i]
        BY <1>a, <4>5 DEF Crash, RunType
      <4>6. ASSUME NEW r \in Request,
                   \/ HandlerStep(r) \/ Refuse(r) \/ Discard(r)
                   \/ FloorError(r) \/ InsertError(r) \/ FindError(r)
            PROVE  run' = run
        BY <4>6 DEF HandlerStep, Floor, Insert, FindExisting, TakeBudget, Send,
           RecordSent, RecordFailure, Refuse, Discard, FloorError, InsertError, FindError
      <4>7. Purge \/ Tick \/ UNCHANGED vars => run' = run
        BY DEF Purge, Tick, vars
      <4>8. QED
        BY <1>2, <2>2, <4>1, <4>2, <4>3, <4>4, <4>5, <4>6, <4>7 DEF Next, RunStep
    <3>2. PICK outcome \in Outcome :
             Relayed(Current(i).id, outcome) /\ run' = [run EXCEPT ![i].pc = outcome]
      BY <3>1 DEF SendQueued
    <3>3. run[i].todo # <<>>
      BY <1>a, <3>1 DEF SendQueued, RunType
    <3>4. run'[i].pc = outcome /\ run'[i].todo = run[i].todo
      BY <1>a, <3>2, <3>3, MovedRun DEF Outcome
    <3>5. outcome = "accepted" /\ Current(i).id = x
      BY <1>2, <3>4 DEF Current
    <3>6. QED
      BY <1>a, <3>2, <3>5 DEF Relayed
  <2>3. QED
    BY <2>1, <2>2
<1>3. QED
  BY <1>b, <1>1, <1>2 DEF AboutToMark

LEMMA SentInit == Init => SentInv
<1> SUFFICES ASSUME Init PROVE SentInv
  OBVIOUS
<1>1. Checked
  BY DEF Init, Checked, DeliveredIffSent, NoRow
<1>2. MarkersHaveSent
  BY DEF Init, MarkersHaveSent, AboutToMark, NoRun
<1>3. SentMeansRelayTookIt
  BY DEF Init, SentMeansRelayTookIt, NoRow
<1>4. QED
  BY <1>1, <1>2, <1>3 DEF SentInv

LEMMA SentStep == TypeOK /\ SentInv /\ [Next]_vars => SentInv'
<1> SUFFICES ASSUME TypeOK, SentInv, [Next]_vars PROVE SentInv'
  OBVIOUS
<1>a. /\ rows \in [Request -> Row] /\ mails \in [Request -> Nat]
      /\ \A x \in Request : RowMoves(x)
      /\ Grows
  BY EveryRowMoves DEF TypeOK, TableType, ObservationType
<1>1. ASSUME NEW x \in Request
      PROVE  /\ DeliveredIffSent(rows'[x])
             /\ rows'[x].status = "sent" => mails'[x] >= 1 /\ rows'[x].delivered
  <2>1. rows[x] \in Row /\ DeliveredIffSent(rows[x])
    BY <1>a DEF SentInv, Checked
  <2>2. DeliveredIffSent(rows'[x])
    <3>1. DeliveredIffSent(NewRow) /\ DeliveredIffSent(NoRow)
      BY DEF DeliveredIffSent, NewRow, NoRow
    <3>2. DeliveredIffSent(RowAged(rows[x]))
      BY <2>1, AgedChecked DEF DeliveredIffSent
    <3>3. QED
      BY <1>a, <2>1, <3>1, <3>2, MarkChecked DEF RowMoves
  <2>3. rows'[x].status = "sent" => rows[x].status = "sent" \/ AboutToMark(x)
    BY <1>a, <2>1, MarkChecked, AgedChecked DEF RowMoves, NewRow, NoRow
  <2>4. rows'[x].status = "sent" => mails'[x] >= 1
    BY <1>a, <2>3 DEF SentInv, MarkersHaveSent, SentMeansRelayTookIt, Grows
  <2>5. rows'[x].status = "sent" => rows'[x].delivered
    BY <2>2 DEF DeliveredIffSent
  <2>6. QED
    BY <2>2, <2>4, <2>5
<1>2. QED
  BY <1>1, MarkersStep DEF SentInv, Checked, SentMeansRelayTookIt

LEMMA SentCorrect == Spec => []SentInv
<1>1. TypeOK /\ SentInv /\ [Next]_vars => SentInv'
  BY SentStep
<1>2. QED
  BY <1>1, SentInit, TypeCorrect, PTL DEF Spec

\* Whatever crashes, races and lost updates do to it, the table never claims a
\* delivery the relay did not accept.
THEOREM SentMeansRelayTookItHolds == Spec => []SentMeansRelayTookIt
<1>1. SentInv => SentMeansRelayTookIt
  BY DEF SentInv
<1>2. QED
  BY <1>1, SentCorrect, PTL

\* A delivered row is never requeued or declared failed, whichever process is
\* the last to write.
THEOREM SentIsFinalHolds == Spec => SentIsFinal
<1>1. TypeOK /\ SentInv /\ [Next]_vars =>
        [\A r \in Request : rows[r].status = "sent" => rows'[r].status \in {"sent", "none"}]_vars
  <2>1. SUFFICES ASSUME TypeOK, SentInv, [Next]_vars, NEW x \in Request, rows[x].status = "sent"
                 PROVE  rows'[x].status \in {"sent", "none"}
    OBVIOUS
  <2>2. rows[x] \in Row /\ DeliveredIffSent(rows[x]) /\ RowMoves(x)
    BY <2>1, EveryRowMoves DEF TypeOK, TableType, SentInv, Checked
  <2>3. QED
    BY <2>1, <2>2, MarkChecked, AgedChecked DEF RowMoves, NewRow, NoRow
<1>2. QED
  BY <1>1, TypeCorrect, SentCorrect, PTL DEF Spec, SentIsFinal

-----------------------------------------------------------------------------
(***************************************************************************)
(* Nothing that was promised is lost                                       *)
(***************************************************************************)

KeptInv ==
    /\ \A r \in Request : pc[r] \in Delivering => Kept(r)
    /\ AcceptedIsKept

LEMMA KeptStays ==
    ASSUME TypeOK, SentInv, [Next]_vars, NEW x \in Request, Kept(x)
    PROVE  Kept(x)'
<1>1. rows[x] \in Row /\ mails \in [Request -> Nat] /\ RowMoves(x) /\ Grows
  BY EveryRowMoves DEF TypeOK, TableType, ObservationType
<1>2. CASE mails[x] >= 1 \/ x \in buried
  BY <1>1, <1>2 DEF Kept, Grows
<1>3. CASE x \in Stored
  <2>1. CASE rows'[x].status # "none"
    BY <2>1 DEF Kept, Stored
  <2>2. CASE rows'[x].status = "none"
    <3>1. Purgeable(rows[x]) /\ (rows[x].status = "failed" => x \in buried')
      BY <1>1, <1>3, <2>2, MarkKeepsRow, AgedChecked DEF RowMoves, Stored, NewRow
    <3>2. rows[x].status = "sent" => mails'[x] >= 1
      BY <1>1 DEF SentInv, SentMeansRelayTookIt, Grows
    <3>3. QED
      BY <3>1, <3>2 DEF Purgeable, Kept
  <2>3. QED
    BY <2>1, <2>2
<1>4. QED
  BY <1>2, <1>3 DEF Kept

\* What a step can promise that was not promised or in hand before.
NewPromises ==
    \A r \in Request :
        /\ pc'[r] \in Delivering => pc[r] \in Delivering \/ r \in Stored'
        /\ receipt'[r] # None =>
              \/ receipt'[r] = receipt[r]
              \/ receipt'[r] = r /\ pc[r] \in Delivering
              \/ receipt'[r] \in Stored'
        /\ answer'[r] = "502" => answer[r] = "502" \/ pc[r] \in Delivering

LEMMA OnlyThesePromises ==
    ASSUME TypeOK, KeyInv, [Next]_vars
    PROVE  NewPromises
<1> USE DEF tableVars, handlerVars, dispatchVars
<1>a. /\ pc \in [Request -> {"idle", "checked", "repeat", "done"} \cup Delivering]
      /\ answer \in [Request -> {"none", "400", "discarded", "202", "429", "500", "502", "lost"}]
      /\ receipt \in [Request -> Request \cup {None}]
      /\ rows \in [Request -> Row]
  BY DEF TypeOK, TableType, HandlerType
<1>1. CASE UNCHANGED handlerVars
  BY <1>1 DEF NewPromises
<1>2. ASSUME NEW i \in Instance, Crash(i)
      PROVE  NewPromises
  BY <1>2 DEF Crash, NewPromises, Delivering
<1>3. ASSUME NEW r \in Request, Insert(r)
      PROVE  NewPromises
  <2>1. SameKey(r) = {} => r \in Stored'
    BY <1>a, <1>3 DEF Insert, Inserted, Stored, NewRow
  <2>2. QED
    BY <1>a, <1>3, <2>1 DEF Insert, NewPromises, Delivering
<1>4. ASSUME NEW r \in Request, FindExisting(r)
      PROVE  NewPromises
  <2>1. PICK x \in SameKey(r) : receipt' = [receipt EXCEPT ![r] = x]
    BY <1>4 DEF FindExisting, KeyInv, FindNeverMisses
  <2>2. x \in Stored'
    BY <1>4, <2>1 DEF FindExisting, SameKey, Stored
  <2>3. QED
    BY <1>a, <1>4, <2>1, <2>2 DEF FindExisting, Answered, NewPromises, Delivering
<1>5. ASSUME NEW r \in Request, TakeBudget(r) \/ Send(r) \/ RecordSent(r) \/ RecordFailure(r)
      PROVE  NewPromises
  BY <1>a, <1>5 DEF TakeBudget, Send, RecordSent, RecordFailure, Answered, NewPromises,
     Delivering, Outcome
<1>6. ASSUME NEW r \in Request,
             Floor(r) \/ Refuse(r) \/ Discard(r) \/ FloorError(r) \/ InsertError(r) \/ FindError(r)
      PROVE  NewPromises
  BY <1>a, <1>6 DEF Floor, Refuse, Discard, FloorError, InsertError, FindError, Answered,
     NewPromises, Delivering
<1>7. ASSUME NEW i \in Instance, RunStep(i) \/ ListError(i)
      PROVE  UNCHANGED handlerVars
  BY <1>7 DEF RunStep, SkipRun, ListDeliverable, FindQueueEmpty, ListError, Take, SendQueued,
     RecordSentQueued, RecordFailureQueued, EndRun
<1>8. Purge \/ Tick \/ UNCHANGED vars => UNCHANGED handlerVars
  BY DEF Purge, Tick, vars
<1>9. QED
  BY <1>1, <1>2, <1>3, <1>4, <1>5, <1>6, <1>7, <1>8 DEF Next, HandlerStep

LEMMA KeptStep == TypeOK /\ KeyInv /\ SentInv /\ KeptInv /\ [Next]_vars => KeptInv'
<1> SUFFICES ASSUME TypeOK, KeyInv, SentInv, KeptInv, [Next]_vars PROVE KeptInv'
  OBVIOUS
<1>a. NewPromises
  BY OnlyThesePromises
<1>b. receipt \in [Request -> Request \cup {None}]
  BY DEF TypeOK, HandlerType
<1>c. \A x \in Stored' : Kept(x)'
  BY DEF Kept
<1>1. ASSUME NEW r \in Request, pc'[r] \in Delivering
      PROVE  Kept(r)'
  BY <1>a, <1>c, <1>1, KeptStays DEF NewPromises, KeptInv
<1>3. ASSUME NEW r \in Request, receipt'[r] # None
      PROVE  Kept(receipt[r])'
  <2>1. CASE receipt'[r] = receipt[r]
    BY <1>3, <2>1, <1>b, KeptStays DEF KeptInv, AcceptedIsKept
  <2>2. CASE receipt'[r] = r /\ pc[r] \in Delivering
    BY <2>2, KeptStays DEF KeptInv
  <2>3. CASE receipt'[r] \in Stored'
    BY <1>c, <2>3
  <2>4. QED
    BY <1>3, <1>a, <2>1, <2>2, <2>3 DEF NewPromises
<1>4. ASSUME NEW r \in Request, answer'[r] = "502"
      PROVE  Kept(r)'
  BY <1>a, <1>4, KeptStays DEF NewPromises, KeptInv, AcceptedIsKept
<1>5. QED
  BY <1>1, <1>3, <1>4 DEF KeptInv, AcceptedIsKept

LEMMA KeptCorrect == Spec => []KeptInv
<1>1. Init => KeptInv
  BY DEF Init, KeptInv, AcceptedIsKept, Delivering
<1>2. TypeOK /\ KeyInv /\ SentInv /\ KeptInv /\ [Next]_vars => KeptInv'
  BY KeptStep
<1>3. QED
  BY <1>1, <1>2, TypeCorrect, KeyCorrect, SentCorrect, PTL DEF Spec

\* A 202 or a 502 is kept: the row is there, or its mail went out, or it was
\* declared failed and expired.
THEOREM AcceptedIsKeptHolds == Spec => []AcceptedIsKept
<1>1. KeptInv => AcceptedIsKept
  BY DEF KeptInv
<1>2. QED
  BY <1>1, KeptCorrect, PTL

-----------------------------------------------------------------------------
(***************************************************************************)
(* Why a message that reached the inbox twice was either unsure or         *)
(* contended.  A row that is neither has at most one carrier, its handler  *)
(* or one run; a carrier that has not sent it carries a row nobody has     *)
(* sent; and once the mail is out the row is closed before the carrier     *)
(* lets go of it.                                                          *)
(***************************************************************************)

\* Requests that have not reached the table yet.
Early == {"idle", "checked", "repeat"}

DistinctItems ==
    \A i \in Instance : \A m, n \in DOMAIN run[i].todo :
        run[i].todo[m].id = run[i].todo[n].id => m = n

IdleIsEmpty == \A i \in Instance : run[i].pc = "idle" => run[i].todo = <<>>

Untouched ==
    \A r \in Request : pc[r] \in Early =>
        /\ rows[r].status = "none"
        /\ mails[r] = 0
        /\ \A i \in Instance : ~RunHolds(i, r)

OneCarrier(x) ==
    /\ HandlerHolds(x) => \A i \in Instance : ~RunHolds(i, x)
    /\ \A i, j \in Instance : RunHolds(i, x) /\ RunHolds(j, x) => i = j

\* A mail that is out is not carried any further, except to be recorded.
ClosedOnceSent(x) ==
    mails[x] = 1 =>
        /\ HandlerHolds(x) => pc[x] = "accepted"
        /\ \A i \in Instance : RunHolds(i, x) =>
              run[i].pc = "accepted" /\ Current(i).id = x
        /\ rows[x].status \in {"sent", "none"} \/ AboutToMark(x)

Once(x) == OneCarrier(x) /\ mails[x] <= 1 /\ ClosedOnceSent(x)

OnceInv ==
    /\ DistinctItems
    /\ IdleIsEmpty
    /\ Untouched
    /\ \A x \in Request \ (unsure \cup contended) : Once(x)

\* The row a run is sending is the first of those it holds.
LEMMA CurrentIsHeld ==
    ASSUME RunType, NEW i \in Instance, run[i].todo # <<>>
    PROVE  /\ Current(i) = run[i].todo[1]
           /\ 1 \in DOMAIN run[i].todo
           /\ RunHolds(i, Current(i).id)
<1>1. run[i].todo \in Seq(Item)
  BY DEF RunType, Run
<1>2. Current(i) = run[i].todo[1] /\ 1 \in DOMAIN run[i].todo
  BY <1>1 DEF Current
<1>3. QED
  BY <1>2 DEF RunHolds

\* Taking the first row off a batch.
LEMMA TailHolds ==
    ASSUME NEW s \in Seq(Item), s # <<>>
    PROVE  \A n \in DOMAIN Tail(s) :
              Tail(s)[n] = s[n + 1] /\ n + 1 \in DOMAIN s /\ n + 1 # 1 /\ n \in Nat
  OBVIOUS

LEMMA OnceInit == Init => OnceInv
<1> SUFFICES ASSUME Init PROVE OnceInv
  OBVIOUS
<1>1. \A i \in Instance : run[i] = NoRun /\ NoRun.todo = <<>> /\ NoRun.pc = "idle"
  BY DEF Init, NoRun
<1>2. \A i \in Instance, x \in Request : ~RunHolds(i, x)
  BY <1>1 DEF RunHolds
<1>3. QED
  BY <1>1, <1>2 DEF Init, OnceInv, DistinctItems, IdleIsEmpty, Untouched, Once, OneCarrier,
     ClosedOnceSent, HandlerHolds, Delivering, Early, NoRow

\* A row nobody touches in this step keeps its promise.
LEMMA OnceFramed ==
    ASSUME NEW x \in Request, Once(x), run' = run, pc'[x] = pc[x], mails'[x] = mails[x],
           rows'[x].status \in {rows[x].status, "sent", "none"}
    PROVE  Once(x)'
  BY DEF Once, OneCarrier, ClosedOnceSent, HandlerHolds, RunHolds, AboutToMark, Current

\* A step of the purge, of the clock, or of a run that finds nothing to do.
LEMMA OnceUnchanged ==
    ASSUME OnceInv, run' = run, pc' = pc, mails' = mails, unsure' = unsure,
           contended' = contended,
           \A x \in Request : rows'[x].status \in {rows[x].status, "none"}
    PROVE  OnceInv'
<1>1. DistinctItems' /\ IdleIsEmpty' /\ Untouched'
  BY DEF OnceInv, DistinctItems, IdleIsEmpty, Untouched, RunHolds
<1>2. \A x \in Request \ (unsure' \cup contended') : Once(x)'
  BY OnceFramed DEF OnceInv
<1>3. QED
  BY <1>1, <1>2 DEF OnceInv

-----------------------------------------------------------------------------
(***************************************************************************)
(* Handlers                                                                *)
(***************************************************************************)

\* A handler touches its own row, and no run.
LEMMA HandlerFrame ==
    ASSUME TypeOK, NEW r \in Request,
           \/ HandlerStep(r) \/ Refuse(r) \/ Discard(r)
           \/ FloorError(r) \/ InsertError(r) \/ FindError(r)
    PROVE  /\ run' = run
           /\ contended' = contended
           /\ unsure \subseteq unsure'
           /\ \A x \in Request \ {r} :
                 pc'[x] = pc[x] /\ mails'[x] = mails[x] /\ rows'[x] = rows[x]
<1> USE DEF tableVars, handlerVars, dispatchVars, ghostVars
<1>a. /\ rows \in [Request -> Row]
      /\ mails \in [Request -> Nat]
      /\ pc \in [Request -> {"idle", "checked", "repeat", "done"} \cup Delivering]
  BY DEF TypeOK, TableType, HandlerType, ObservationType
<1>1. CASE Floor(r) \/ FindExisting(r) \/ TakeBudget(r) \/ Refuse(r) \/ Discard(r)
           \/ FloorError(r) \/ FindError(r)
  BY <1>a, <1>1 DEF Floor, FindExisting, TakeBudget, Refuse, Discard, FloorError, FindError,
     Answered
<1>2. CASE Insert(r) \/ InsertError(r)
  BY <1>a, <1>2 DEF Insert, InsertError, Inserted, Answered
<1>3. CASE Send(r)
  BY <1>a, <1>3 DEF Send, Relayed
<1>4. CASE RecordSent(r) \/ RecordFailure(r)
  BY <1>a, <1>4 DEF RecordSent, RecordFailure, Answered
<1>5. QED
  BY <1>1, <1>2, <1>3, <1>4 DEF HandlerStep

\* Before the row exists there is nothing to carry and nothing was sent.
LEMMA EarlyOnce ==
    ASSUME TypeOK, OnceInv, NEW r \in Request, pc[r] \in Early,
           \/ HandlerStep(r) \/ Refuse(r) \/ Discard(r)
           \/ FloorError(r) \/ InsertError(r) \/ FindError(r)
    PROVE  /\ Once(r)'
           /\ pc'[r] \in Early => rows'[r] = rows[r]
           /\ mails' = mails
<1> USE DEF tableVars, handlerVars, dispatchVars, ghostVars
<1>a. /\ rows \in [Request -> Row]
      /\ mails \in [Request -> Nat]
      /\ pc \in [Request -> {"idle", "checked", "repeat", "done"} \cup Delivering]
  BY DEF TypeOK, TableType, HandlerType, ObservationType
<1>1. mails' = mails
  BY DEF HandlerStep, Floor, Insert, FindExisting, TakeBudget, Send, RecordSent, RecordFailure,
     Refuse, Discard, FloorError, InsertError, FindError, Early
<1>2. pc'[r] \in Early => rows'[r] = rows[r]
  BY <1>a DEF HandlerStep, Floor, Insert, Inserted, FindExisting, TakeBudget, Send, RecordSent,
     RecordFailure, Refuse, Discard, FloorError, InsertError, FindError, Answered, Early
<1>3. run' = run
  BY HandlerFrame
<1>4. mails[r] = 0 /\ \A i \in Instance : ~RunHolds(i, r)
  BY DEF OnceInv, Untouched
<1>5. Once(r)'
  BY <1>1, <1>3, <1>4 DEF Once, OneCarrier, ClosedOnceSent, RunHolds
<1>6. QED
  BY <1>1, <1>2, <1>5

\* A request that has its row does not go back.
LEMMA DeliveringIsLate ==
    ASSUME TypeOK, NEW r \in Request, pc[r] \in Delivering,
           \/ HandlerStep(r) \/ Refuse(r) \/ Discard(r)
           \/ FloorError(r) \/ InsertError(r) \/ FindError(r)
    PROVE  pc'[r] \notin Early
<1>1. pc \in [Request -> {"idle", "checked", "repeat", "done"} \cup Delivering]
  BY DEF TypeOK, HandlerType
<1>2. QED
  BY <1>1 DEF HandlerStep, Floor, Insert, FindExisting, TakeBudget, Send, RecordSent,
     RecordFailure, Refuse, Discard, FloorError, InsertError, FindError, Answered, Early,
     Delivering, Outcome

\* The handler is the only carrier of its row, and closes it after sending.
LEMMA HandlerOnce ==
    ASSUME TypeOK, SentInv, NEW r \in Request, pc[r] \in Delivering, Once(r),
           \/ HandlerStep(r) \/ Refuse(r) \/ Discard(r)
           \/ FloorError(r) \/ InsertError(r) \/ FindError(r)
    PROVE  r \notin unsure' => Once(r)'
<1> USE DEF tableVars, handlerVars, dispatchVars, ghostVars
<1>a. /\ rows \in [Request -> Row]
      /\ mails \in [Request -> Nat]
      /\ pc \in [Request -> {"idle", "checked", "repeat", "done"} \cup Delivering]
  BY DEF TypeOK, TableType, HandlerType, ObservationType
<1>b. run' = run /\ \A i \in Instance : ~RunHolds(i, r) /\ ~RunHolds(i, r)'
  BY HandlerFrame DEF Once, OneCarrier, HandlerHolds, RunHolds
<1>c. mails[r] \in {0, 1} /\ (mails[r] = 1 => pc[r] = "accepted")
  BY <1>a DEF Once, ClosedOnceSent, HandlerHolds
<1>1. CASE TakeBudget(r) \/ RecordFailure(r)
  <2>1. mails' = mails /\ pc[r] # "accepted"
    BY <1>1 DEF TakeBudget, RecordFailure
  <2>2. pc'[r] \in {"done", "sending"}
    BY <1>a, <1>1 DEF TakeBudget, RecordFailure, Answered
  <2>3. QED
    BY <1>b, <1>c, <2>1, <2>2 DEF Once, OneCarrier, ClosedOnceSent
<1>2. CASE Send(r)
  <2>1. PICK outcome \in Outcome : Relayed(r, outcome) /\ pc' = [pc EXCEPT ![r] = outcome]
    BY <1>2 DEF Send
  <2>2. pc[r] = "sending" /\ pc'[r] = outcome /\ mails[r] = 0
    BY <1>a, <1>c, <1>2, <2>1 DEF Send
  <2>3. r \notin unsure' => mails'[r] = 0 \/ (mails'[r] = 1 /\ outcome = "accepted")
    BY <1>a, <2>1, <2>2 DEF Relayed
  <2>4. QED
    BY <1>b, <2>2, <2>3 DEF Once, OneCarrier, ClosedOnceSent, AboutToMark
<1>3. CASE RecordSent(r)
  <2>1. mails' = mails /\ pc'[r] = "done"
    BY <1>a, <1>3 DEF RecordSent, Answered
  <2>2. r \notin unsure' => rows'[r] = MarkedSent(rows[r])
    BY <1>a, <1>3 DEF RecordSent
  <2>3. MarkedSent(rows[r]).status \in {"sent", "none"}
    <3>1. rows[r] \in Row /\ DeliveredIffSent(rows[r])
      BY <1>a DEF SentInv, Checked
    <3>2. rows[r].status = "none" => MarkedSent(rows[r]) = rows[r]
      BY DEF MarkedSent, Updated
    <3>3. QED
      BY <3>1, <3>2, MarkChecked
  <2>4. QED
    BY <1>b, <1>c, <2>1, <2>2, <2>3
    DEF Once, OneCarrier, ClosedOnceSent, HandlerHolds, Delivering
<1>4. QED
  BY <1>1, <1>2, <1>3 DEF HandlerStep, Floor, Insert, FindExisting, Refuse, Discard,
     FloorError, InsertError, FindError, Delivering

LEMMA OnceHandlerStep ==
    ASSUME TypeOK, SentInv, OnceInv, NEW r \in Request,
           \/ HandlerStep(r) \/ Refuse(r) \/ Discard(r)
           \/ FloorError(r) \/ InsertError(r) \/ FindError(r)
    PROVE  OnceInv'
<1>a. /\ run' = run
      /\ contended' = contended
      /\ unsure \subseteq unsure'
      /\ \A x \in Request \ {r} :
            pc'[x] = pc[x] /\ mails'[x] = mails[x] /\ rows'[x] = rows[x]
  BY HandlerFrame
<1>b. pc[r] \in Early \/ pc[r] \in Delivering
  BY DEF HandlerStep, Floor, Insert, FindExisting, TakeBudget, Send, RecordSent, RecordFailure,
     Refuse, Discard, FloorError, InsertError, FindError, Early, Delivering
<1>1. DistinctItems' /\ IdleIsEmpty'
  BY <1>a DEF OnceInv, DistinctItems, IdleIsEmpty
<1>2. Untouched'
  <2>1. SUFFICES ASSUME NEW x \in Request, pc'[x] \in Early
                 PROVE  /\ rows'[x].status = "none"
                        /\ mails'[x] = 0
                        /\ \A i \in Instance : ~RunHolds(i, x)'
    BY DEF Untouched
  <2>2. pc[x] \in Early /\ rows'[x] = rows[x] /\ mails'[x] = mails[x]
    <3>1. CASE x # r
      BY <1>a, <2>1, <3>1
    <3>2. CASE x = r /\ pc[r] \in Delivering
      BY <2>1, <3>2, DeliveringIsLate
    <3>3. CASE x = r /\ pc[r] \in Early
      BY <2>1, <3>3, EarlyOnce
    <3>4. QED
      BY <1>b, <3>1, <3>2, <3>3
  <2>3. QED
    BY <1>a, <2>2 DEF OnceInv, Untouched, RunHolds
<1>3. ASSUME NEW x \in Request \ (unsure' \cup contended')
      PROVE  Once(x)'
  <2>1. x \notin unsure \cup contended /\ Once(x)
    BY <1>a DEF OnceInv
  <2>2. CASE x # r
    BY <1>a, <2>1, <2>2, OnceFramed
  <2>3. CASE x = r /\ pc[r] \in Early
    BY <2>3, EarlyOnce
  <2>4. CASE x = r /\ pc[r] \in Delivering
    BY <2>1, <2>4, HandlerOnce
  <2>5. QED
    BY <1>b, <2>2, <2>3, <2>4
<1>4. QED
  BY <1>1, <1>2, <1>3 DEF OnceInv

-----------------------------------------------------------------------------
(***************************************************************************)
(* Dispatcher runs                                                         *)
(***************************************************************************)

\* A run moves no handler, and never forgets what was unsure or contended.
LEMMA RunFrame ==
    ASSUME NEW i \in Instance, RunStep(i) \/ ListError(i)
    PROVE  pc' = pc /\ contended \subseteq contended' /\ unsure \subseteq unsure'
<1>1. CASE SendQueued(i)
  BY <1>1 DEF SendQueued, Relayed, handlerVars
<1>2. CASE RecordSentQueued(i)
  BY <1>2 DEF RecordSentQueued, handlerVars
<1>3. QED
  BY <1>1, <1>2 DEF RunStep, SkipRun, ListDeliverable, FindQueueEmpty, ListError, Take,
     RecordFailureQueued, EndRun, handlerVars, ghostVars

\* A run that has not just sent x holds x only if x was not sent; if it takes
\* no new row, x keeps its promise.
LEMMA OnceShrinks ==
    ASSUME NEW i \in Instance, NEW x \in Request, Once(x),
           pc' = pc, mails'[x] = mails[x],
           \A j \in Instance \ {i} : run'[j] = run[j],
           RunHolds(i, x)' => RunHolds(i, x),
           run[i].pc # "accepted" \/ Current(i).id # x,
           mails[x] = 1 => rows'[x].status \in {rows[x].status, "sent", "none"}
    PROVE  Once(x)'
<1>1. \A j \in Instance \ {i} :
         /\ RunHolds(j, x)' <=> RunHolds(j, x)
         /\ run'[j].pc = run[j].pc
         /\ Current(j)' = Current(j)
  BY DEF RunHolds, Current
<1>2. OneCarrier(x)'
  BY <1>1 DEF Once, OneCarrier, HandlerHolds
<1>3. ClosedOnceSent(x)'
  <2>1. SUFFICES ASSUME mails[x] = 1
                 PROVE  /\ HandlerHolds(x)' => pc'[x] = "accepted"
                        /\ \A j \in Instance : RunHolds(j, x)' =>
                              run'[j].pc = "accepted" /\ Current(j)'.id = x
                        /\ rows'[x].status \in {"sent", "none"} \/ AboutToMark(x)'
    BY DEF ClosedOnceSent
  <2>2. ~RunHolds(i, x)
    BY <2>1 DEF Once, ClosedOnceSent
  <2>3. AboutToMark(x) => AboutToMark(x)'
    BY <1>1 DEF AboutToMark
  <2>4. QED
    BY <1>1, <2>1, <2>2, <2>3 DEF Once, ClosedOnceSent, HandlerHolds
<1>4. QED
  BY <1>2, <1>3 DEF Once

\* A batch that loses rows holds no other and repeats none.
LEMMA ShorterBatch ==
    ASSUME OnceInv, NEW i \in Instance, run[i].todo \in Seq(Item),
           \/ run'[i].todo = run[i].todo
           \/ run[i].todo # <<>> /\ run'[i].todo = Tail(run[i].todo)
           \/ run'[i].todo = <<>>
    PROVE  /\ \A m, n \in DOMAIN run'[i].todo :
                 run'[i].todo[m].id = run'[i].todo[n].id => m = n
           /\ \A x \in Request : RunHolds(i, x)' => RunHolds(i, x)
<1>a. \A m, n \in DOMAIN run[i].todo : run[i].todo[m].id = run[i].todo[n].id => m = n
  BY DEF OnceInv, DistinctItems
<1>1. CASE run'[i].todo = run[i].todo
  BY <1>a, <1>1 DEF RunHolds
<1>2. CASE run[i].todo # <<>> /\ run'[i].todo = Tail(run[i].todo)
  <2>1. \A n \in DOMAIN run'[i].todo :
           /\ run'[i].todo[n] = run[i].todo[n + 1]
           /\ n + 1 \in DOMAIN run[i].todo
           /\ n \in Nat
    BY <1>2, TailHolds
  <2>2. QED
    BY <1>a, <2>1 DEF RunHolds
<1>3. CASE run'[i].todo = <<>>
  BY <1>3 DEF RunHolds
<1>4. QED
  BY <1>1, <1>2, <1>3

\* The invariant but for the rows that changed hands.
LEMMA OnceRunFrame ==
    ASSUME OnceInv, NEW i \in Instance, run \in [Instance -> Run],
           pc' = pc,
           \A j \in Instance \ {i} : run'[j] = run[j],
           \A x \in Request : pc[x] \in Early =>
              rows'[x].status = rows[x].status /\ mails'[x] = mails[x],
           \A m, n \in DOMAIN run'[i].todo :
              run'[i].todo[m].id = run'[i].todo[n].id => m = n,
           run'[i].pc = "idle" => run'[i].todo = <<>>,
           \A x \in Request : RunHolds(i, x)' => RunHolds(i, x) \/ pc[x] \notin Early,
           \A x \in Request \ (unsure' \cup contended') : Once(x)'
    PROVE  OnceInv'
<1>1. \A j \in Instance \ {i} : \A x \in Request : RunHolds(j, x)' <=> RunHolds(j, x)
  BY DEF RunHolds
<1>2. DistinctItems' /\ IdleIsEmpty'
  BY DEF OnceInv, DistinctItems, IdleIsEmpty
<1>3. Untouched'
  BY <1>1 DEF OnceInv, Untouched
<1>4. QED
  BY <1>2, <1>3 DEF OnceInv

\* The rows a run lists and nobody else holds have not been sent.
LEMMA ListedOnce ==
    ASSUME TypeOK, OnceInv, NEW i \in Instance, ListDeliverable(i)
    PROVE  OnceInv'
<1>a. /\ run \in [Instance -> Run]
      /\ RunType
      /\ mails \in [Request -> Nat]
      /\ pc' = pc /\ rows' = rows /\ mails' = mails /\ unsure' = unsure
  BY DEF TypeOK, RunType, ObservationType, ListDeliverable, tableVars, handlerVars
<1>b. run[i].pc = "idle" /\ run[i].todo = <<>>
  BY DEF ListDeliverable, Starts, OnceInv, IdleIsEmpty
<1>1. PICK s \in Batch :
        /\ OldestFirst(s)
        /\ run' = [run EXCEPT ![i] = [NoRun EXCEPT !.pc = "deliver", !.todo = Listed(s)]]
        /\ contended' = contended \cup {id \in {s[n] : n \in DOMAIN s} : HeldElsewhere(i, id)}
  BY DEF ListDeliverable
<1>2. /\ run'[i].pc = "deliver"
      /\ run'[i].todo = Listed(s)
      /\ \A j \in Instance \ {i} : run'[j] = run[j]
  BY <1>a, <1>1 DEF NoRun
<1>3. /\ DOMAIN s \subseteq Nat
      /\ \A n \in DOMAIN s : s[n] \in Queue
      /\ DOMAIN Listed(s) = DOMAIN s
      /\ \A n \in DOMAIN s : Listed(s)[n].id = s[n]
  BY <1>1 DEF Batch, Listed
<1>4. \A m, n \in DOMAIN s : s[m] = s[n] => m = n
  BY <1>1, <1>3 DEF OldestFirst
<1>5. \A x \in Request : RunHolds(i, x)' <=> \E n \in DOMAIN s : s[n] = x
  BY <1>2, <1>3 DEF RunHolds
<1>6. \A j \in Instance \ {i} : \A x \in Request :
         /\ RunHolds(j, x)' <=> RunHolds(j, x)
         /\ Current(j)' = Current(j)
  BY <1>2 DEF RunHolds, Current
<1>7. \A x \in Request : RunHolds(i, x)' => rows[x].status = "queued" /\ pc[x] \notin Early
  BY <1>3, <1>5 DEF Queue, Deliverable, OnceInv, Untouched
<1>8. ASSUME NEW x \in Request \ (unsure' \cup contended')
      PROVE  Once(x)'
  <2>1. Once(x)
    BY <1>a, <1>1 DEF OnceInv
  <2>2. CASE ~RunHolds(i, x)'
    BY <1>a, <1>b, <1>2, <2>1, <2>2, OnceShrinks
  <2>3. CASE RunHolds(i, x)'
    <3>1. ~HandlerHolds(x) /\ \A j \in Instance \ {i} : ~RunHolds(j, x)
      BY <1>1, <1>5, <2>3 DEF HeldElsewhere
    <3>2. ~AboutToMark(x)
      <4>1. pc[x] # "accepted"
        BY <3>1 DEF HandlerHolds, Delivering
      <4>2. ASSUME NEW j \in Instance, run[j].pc = "accepted", Current(j).id = x
            PROVE  FALSE
        <5>1. run[j].todo # <<>>
          BY <1>a, <4>2 DEF RunType
        <5>2. RunHolds(j, x)
          BY <1>a, <4>2, <5>1, CurrentIsHeld
        <5>3. QED
          BY <1>b, <3>1, <4>2, <5>2
      <4>3. QED
        BY <4>1, <4>2 DEF AboutToMark
    <3>3. mails[x] = 0
      BY <1>a, <1>7, <2>1, <2>3, <3>2 DEF Once, ClosedOnceSent
    <3>4. OneCarrier(x)'
      BY <1>a, <1>6, <3>1 DEF OneCarrier, HandlerHolds
    <3>5. QED
      BY <1>a, <3>3, <3>4 DEF Once, ClosedOnceSent
  <2>4. QED
    BY <2>2, <2>3
<1>9. QED
  BY <1>a, <1>2, <1>3, <1>4, <1>7, <1>8, OnceRunFrame

\* A conversation begins, fails or is recorded as failed, or the run ends: a
\* row that has been sent is not concerned.
LEMMA UnsentOnce ==
    ASSUME TypeOK, SentInv, OnceInv, NEW i \in Instance,
           Take(i) \/ RecordFailureQueued(i) \/ EndRun(i)
    PROVE  OnceInv'
<1>a. /\ run \in [Instance -> Run]
      /\ RunType
      /\ rows \in [Request -> Row]
      /\ mails' = mails
      /\ run[i].pc # "accepted"
      /\ run[i].todo \in Seq(Item)
  BY DEF TypeOK, RunType, TableType, Take, RecordFailureQueued, EndRun, ghostVars, Run
<1>b. pc' = pc /\ contended \subseteq contended' /\ unsure \subseteq unsure'
  BY RunFrame DEF RunStep
<1>1. /\ \A j \in Instance \ {i} : run'[j] = run[j]
      /\ run'[i].pc = "idle" => run'[i].todo = <<>>
      /\ \/ run'[i].todo = run[i].todo
         \/ run[i].todo # <<>> /\ run'[i].todo = Tail(run[i].todo)
         \/ run'[i].todo = <<>>
  <2>1. CASE Take(i)
    BY <1>a, <2>1, MovedRun DEF Take
  <2>2. CASE RecordFailureQueued(i)
    BY <1>a, <2>2, RecordedRun DEF RecordFailureQueued, RunType
  <2>3. CASE EndRun(i)
    BY <1>a, <2>3 DEF EndRun, RunEnds, NoRun
  <2>4. QED
    BY <2>1, <2>2, <2>3
<1>2. /\ \A m, n \in DOMAIN run'[i].todo :
            run'[i].todo[m].id = run'[i].todo[n].id => m = n
      /\ \A x \in Request : RunHolds(i, x)' => RunHolds(i, x)
  BY <1>a, <1>1, ShorterBatch
<1>3. ASSUME NEW x \in Request, mails[x] = 1 \/ pc[x] \in Early,
             x \notin unsure \cup contended \/ pc[x] \in Early
      PROVE  rows'[x] = rows[x]
  <2>1. CASE Take(i) \/ EndRun(i)
    BY <2>1 DEF Take, EndRun, tableVars
  <2>2. CASE RecordFailureQueued(i)
    <3>1. run[i].todo # <<>>
      BY <1>a, <2>2 DEF RecordFailureQueued, RunType
    <3>2. RunHolds(i, Current(i).id)
      BY <1>a, <3>1, CurrentIsHeld
    <3>3. x # Current(i).id
      BY <1>a, <1>3, <3>2 DEF OnceInv, Untouched, Once, ClosedOnceSent
    <3>4. QED
      BY <1>a, <2>2, <3>3 DEF RecordFailureQueued
  <2>3. QED
    BY <2>1, <2>2
<1>4. ASSUME NEW x \in Request \ (unsure' \cup contended')
      PROVE  Once(x)'
  <2>1. Once(x) /\ x \notin unsure \cup contended
    BY <1>b DEF OnceInv
  <2>2. QED
    BY <1>a, <1>b, <1>1, <1>2, <1>3, <2>1, OnceShrinks
<1>5. QED
  BY <1>a, <1>b, <1>1, <1>2, <1>3, <1>4, OnceRunFrame

\* The mail goes out: its row was unsent, and is now either accepted or unsure.
LEMMA SentOnce ==
    ASSUME TypeOK, OnceInv, NEW i \in Instance, SendQueued(i)
    PROVE  OnceInv'
<1> DEFINE cur == Current(i).id
<1>a. /\ run \in [Instance -> Run]
      /\ RunType
      /\ mails \in [Request -> Nat]
      /\ rows' = rows /\ pc' = pc /\ contended' = contended
      /\ run[i].pc = "sending" /\ run[i].todo # <<>> /\ run[i].todo \in Seq(Item)
  BY DEF TypeOK, RunType, ObservationType, SendQueued, tableVars, handlerVars, Run
<1>1. PICK outcome \in Outcome : Relayed(cur, outcome) /\ run' = [run EXCEPT ![i].pc = outcome]
  BY DEF SendQueued
<1>2. /\ run'[i].pc = outcome /\ run'[i].todo = run[i].todo
      /\ \A j \in Instance \ {i} : run'[j] = run[j]
  BY <1>a, <1>1, MovedRun DEF Outcome
<1>3. /\ \A x \in Request \ {cur} : mails'[x] = mails[x]
      /\ unsure \subseteq unsure'
      /\ mails'[cur] = mails[cur] \/ (outcome = "accepted" /\ mails'[cur] = mails[cur] + 1)
            \/ cur \in unsure'
  BY <1>a, <1>1 DEF Relayed
<1>4. RunHolds(i, cur)
  BY <1>a, CurrentIsHeld
<1>5. \A x \in Request : RunHolds(i, x)' <=> RunHolds(i, x)
  BY <1>2 DEF RunHolds
<1>6. ASSUME NEW x \in Request \ (unsure' \cup contended')
      PROVE  Once(x)'
  <2>1. Once(x)
    BY <1>a, <1>3 DEF OnceInv
  <2>2. CASE mails'[x] = mails[x]
    BY <1>a, <1>2, <1>5, <2>1, <2>2, OnceShrinks
  <2>3. CASE mails'[x] # mails[x]
    <3>1. x = cur /\ outcome = "accepted" /\ mails'[x] = mails[x] + 1
      BY <1>3, <2>3
    <3>2. mails[x] = 0
      BY <1>a, <1>4, <2>1, <3>1 DEF Once, ClosedOnceSent
    <3>3. ~HandlerHolds(x) /\ \A j \in Instance : RunHolds(j, x) => j = i
      BY <1>4, <2>1, <3>1 DEF Once, OneCarrier
    <3>4. ~HandlerHolds(x)' /\ \A j \in Instance : RunHolds(j, x)' => j = i
      BY <1>a, <1>2, <3>3 DEF HandlerHolds, RunHolds
    <3>5. run'[i].pc = "accepted" /\ Current(i)'.id = x
      BY <1>2, <3>1 DEF Current
    <3>6. QED
      BY <3>1, <3>2, <3>4, <3>5 DEF Once, OneCarrier, ClosedOnceSent, AboutToMark
  <2>4. QED
    BY <2>2, <2>3
<1>7. \A x \in Request : pc[x] \in Early => mails'[x] = mails[x]
  BY <1>3, <1>4 DEF OnceInv, Untouched
<1>8. /\ run'[i].pc # "idle"
      /\ \A m, n \in DOMAIN run'[i].todo :
            run'[i].todo[m].id = run'[i].todo[n].id => m = n
  BY <1>2 DEF OnceInv, DistinctItems, Outcome
<1>9. QED
  BY <1>a, <1>2, <1>5, <1>6, <1>7, <1>8, OnceRunFrame

\* The delivery is recorded, or lost: the run lets go of a closed row.
LEMMA RecordedOnce ==
    ASSUME TypeOK, SentInv, OnceInv, NEW i \in Instance, RecordSentQueued(i)
    PROVE  OnceInv'
<1>a. /\ run \in [Instance -> Run]
      /\ RunType
      /\ rows \in [Request -> Row]
      /\ mails \in [Request -> Nat]
      /\ mails' = mails /\ pc' = pc /\ contended' = contended /\ unsure \subseteq unsure'
      /\ run[i].pc = "accepted" /\ run[i].todo # <<>> /\ run[i].todo \in Seq(Item)
  BY DEF TypeOK, RunType, TableType, ObservationType, RecordSentQueued, handlerVars, Run
<1>1. /\ run'[i].pc = "deliver"
      /\ run'[i].todo = Tail(run[i].todo)
      /\ \A j \in Instance \ {i} : run'[j] = run[j]
      /\ Current(i) \in Item
  BY <1>a, RecordedRun DEF RecordSentQueued
<1>2. PICK cur \in Request : cur = Current(i).id
  BY <1>1 DEF Item
<1>3. /\ rows' = [rows EXCEPT ![cur] = MarkedSent(@)] \/ (rows' = rows /\ cur \in unsure')
      /\ \A x \in Request \ {cur} : rows'[x] = rows[x]
  BY <1>a, <1>2 DEF RecordSentQueued
<1>4. /\ \A m, n \in DOMAIN run'[i].todo :
            run'[i].todo[m].id = run'[i].todo[n].id => m = n
      /\ \A x \in Request : RunHolds(i, x)' => RunHolds(i, x)
  BY <1>a, <1>1, ShorterBatch
<1>5. Current(i) = run[i].todo[1] /\ 1 \in DOMAIN run[i].todo /\ RunHolds(i, cur)
  BY <1>a, <1>2, CurrentIsHeld
<1>6. ~RunHolds(i, cur)'
  <2>1. SUFFICES ASSUME NEW n \in DOMAIN run'[i].todo, run'[i].todo[n].id = cur
                 PROVE  FALSE
    BY DEF RunHolds
  <2>2. run[i].todo[n + 1].id = cur /\ n + 1 \in DOMAIN run[i].todo /\ n + 1 # 1
    BY <1>a, <1>1, <2>1, TailHolds
  <2>3. QED
    BY <1>2, <1>5, <2>2 DEF OnceInv, DistinctItems
<1>7. ASSUME NEW x \in Request \ (unsure' \cup contended')
      PROVE  Once(x)'
  <2>1. Once(x)
    BY <1>a DEF OnceInv
  <2>2. CASE x # cur
    BY <1>a, <1>1, <1>2, <1>3, <1>4, <2>1, <2>2, OnceShrinks
  <2>3. CASE x = cur
    <3>1. rows'[x].status \in {"sent", "none"}
      <4>1. rows[x] \in Row /\ DeliveredIffSent(rows[x])
        BY <1>a DEF SentInv, Checked
      <4>2. rows[x].status = "none" => MarkedSent(rows[x]) = rows[x]
        BY DEF MarkedSent, Updated
      <4>3. rows'[x] = MarkedSent(rows[x])
        BY <1>a, <1>2, <1>3, <2>3
      <4>4. QED
        BY <4>1, <4>2, <4>3, MarkChecked
    <3>2. ~HandlerHolds(x) /\ \A j \in Instance \ {i} : ~RunHolds(j, x)
      BY <1>5, <2>1, <2>3 DEF Once, OneCarrier
    <3>3. ~HandlerHolds(x)' /\ \A j \in Instance : ~RunHolds(j, x)'
      <4>1. ~HandlerHolds(x)'
        BY <1>a, <3>2 DEF HandlerHolds
      <4>2. \A j \in Instance \ {i} : ~RunHolds(j, x)'
        BY <1>1, <3>2 DEF RunHolds
      <4>3. QED
        BY <1>6, <2>3, <4>1, <4>2
    <3>4. QED
      BY <1>a, <2>1, <3>1, <3>3 DEF Once, OneCarrier, ClosedOnceSent
  <2>4. QED
    BY <2>2, <2>3
<1>8. \A x \in Request : pc[x] \in Early => x # cur
  BY <1>5 DEF OnceInv, Untouched
<1>9. QED
  BY <1>a, <1>1, <1>3, <1>4, <1>7, <1>8, OnceRunFrame

LEMMA OnceRunStep ==
    ASSUME TypeOK, SentInv, OnceInv, NEW i \in Instance, RunStep(i) \/ ListError(i)
    PROVE  OnceInv'
<1>1. CASE SkipRun(i) \/ FindQueueEmpty(i) \/ ListError(i)
  <2>1. /\ rows' = rows /\ pc' = pc /\ run' = run /\ mails' = mails
        /\ unsure' = unsure /\ contended' = contended
    BY <1>1 DEF SkipRun, FindQueueEmpty, ListError, tableVars, handlerVars, ghostVars
  <2>2. QED
    BY <2>1, OnceUnchanged
<1>2. QED
  BY <1>1, ListedOnce, UnsentOnce, SentOnce, RecordedOnce DEF RunStep

-----------------------------------------------------------------------------
(***************************************************************************)
(* The purge, the clock and crashes                                        *)
(***************************************************************************)

LEMMA OnceCrash ==
    ASSUME TypeOK, OnceInv, NEW i \in Instance, Crash(i)
    PROVE  OnceInv'
<1>a. /\ run \in [Instance -> Run]
      /\ pc \in [Request -> {"idle", "checked", "repeat", "done"} \cup Delivering]
      /\ rows' = rows /\ mails' = mails /\ contended' = contended /\ unsure \subseteq unsure'
  BY DEF TypeOK, RunType, HandlerType, Crash, tableVars
<1>1. /\ run'[i] = NoRun
      /\ \A j \in Instance \ {i} : run'[j] = run[j]
  BY <1>a DEF Crash
<1>2. \A x \in Request : ~RunHolds(i, x)'
  BY <1>1 DEF RunHolds, NoRun
<1>3. \A j \in Instance \ {i} : \A x \in Request :
         /\ RunHolds(j, x)' <=> RunHolds(j, x)
         /\ Current(j)' = Current(j)
  BY <1>1 DEF RunHolds, Current
<1>4. \A x \in Request :
         /\ pc'[x] \in {pc[x], "done"}
         /\ pc[x] = "accepted" => pc'[x] = pc[x] \/ x \in unsure'
         /\ run[i].pc = "accepted" /\ Current(i).id = x => x \in unsure'
  BY <1>a DEF Crash
<1>5. DistinctItems' /\ IdleIsEmpty'
  BY <1>1 DEF OnceInv, DistinctItems, IdleIsEmpty, NoRun
<1>6. Untouched'
  BY <1>a, <1>2, <1>3, <1>4 DEF OnceInv, Untouched, Early
<1>7. ASSUME NEW x \in Request \ (unsure' \cup contended')
      PROVE  Once(x)'
  <2>1. Once(x)
    BY <1>a DEF OnceInv
  <2>2. HandlerHolds(x)' => HandlerHolds(x) /\ pc'[x] = pc[x]
    BY <1>4 DEF HandlerHolds, Delivering
  <2>3. AboutToMark(x) => AboutToMark(x)'
    BY <1>1, <1>3, <1>4 DEF AboutToMark
  <2>4. OneCarrier(x)'
    BY <1>2, <1>3, <2>1, <2>2 DEF Once, OneCarrier
  <2>5. ClosedOnceSent(x)'
    BY <1>a, <1>1, <1>2, <1>3, <2>1, <2>2, <2>3 DEF Once, ClosedOnceSent
  <2>6. QED
    BY <1>a, <2>1, <2>4, <2>5 DEF Once
<1>8. QED
  BY <1>5, <1>6, <1>7 DEF OnceInv

LEMMA OnceStep == TypeOK /\ SentInv /\ OnceInv /\ [Next]_vars => OnceInv'
<1> SUFFICES ASSUME TypeOK, SentInv, OnceInv, [Next]_vars PROVE OnceInv'
  OBVIOUS
<1>a. rows \in [Request -> Row]
  BY DEF TypeOK, TableType
<1>1. CASE Purge
  <2>1. \A x \in Request : rows'[x].status \in {rows[x].status, "none"}
    BY <1>a, <1>1 DEF Purge, NoRow
  <2>2. QED
    BY <1>1, <2>1, OnceUnchanged DEF Purge, handlerVars, dispatchVars
<1>2. CASE Tick
  <2>1. \A x \in Request : rows'[x].status = rows[x].status
    BY <1>a, <1>2, AgedChecked DEF Tick
  <2>2. QED
    BY <1>2, <2>1, OnceUnchanged DEF Tick, handlerVars, ghostVars
<1>3. CASE UNCHANGED vars
  BY <1>3, OnceUnchanged DEF vars, tableVars, handlerVars, dispatchVars, ghostVars
<1>4. QED
  BY <1>1, <1>2, <1>3, OnceHandlerStep, OnceRunStep, OnceCrash DEF Next

\* Nobody receives a message twice unless the relay's answer was lost on the
\* way to the table or a dispatcher picked the row up while it was being
\* delivered: retries, counters, purges and repeated requests are not causes.
THEOREM DuplicateIsExplainedHolds == Spec => []DuplicateIsExplained
<1>1. TypeOK /\ SentInv /\ OnceInv /\ [Next]_vars => OnceInv'
  BY OnceStep
<1>2. TypeOK /\ OnceInv => DuplicateIsExplained
  BY DEF TypeOK, ObservationType, OnceInv, Once, DuplicateIsExplained
<1>3. QED
  BY <1>1, <1>2, OnceInit, TypeCorrect, SentCorrect, PTL DEF Spec

-----------------------------------------------------------------------------
(***************************************************************************)
(* How far racing requests can overfill the window.  The rows a client has *)
(* in it, together with its requests that have passed the floor and not    *)
(* yet inserted, are never more than the floor can have let in: it counts  *)
(* at most RateLimit - 1 rows, and beside the request at hand fewer than   *)
(* MaxInFlight are under way.                                              *)
(***************************************************************************)

\* A request that takes, or is about to take, a place in its client's window.
Counts(x) ==
    \/ pc[x] = "checked"
    \/ rows[x].status # "none" /\ rows[x].age < RateLimitWindow

Counted(c) == {x \in Request : ClientOf[x] = c /\ x \notin Unattributed /\ Counts(x)}

UnderWay == {x \in Request : InFlight(x)}

FloorInv ==
    /\ IsFiniteSet(Stored)
    /\ IsFiniteSet(UnderWay)
    /\ \A c \in Client :
          /\ IsFiniteSet(Counted(c))
          /\ Cardinality(Counted(c)) <= RateLimit - 1 + MaxInFlight

LEMMA AtMostOneMore ==
    ASSUME NEW S, IsFiniteSet(S), NEW x, NEW T, T \subseteq S \cup {x}
    PROVE  /\ IsFiniteSet(T)
           /\ Cardinality(T) \in Nat
           /\ Cardinality(S) \in Nat
           /\ Cardinality(T) <= Cardinality(S) + 1
<1>1. IsFiniteSet(S \cup {x}) /\ Cardinality(S \cup {x}) <= Cardinality(S) + 1
  <2>1. /\ IsFiniteSet(S \cup {x})
        /\ Cardinality(S \cup {x}) = IF x \in S THEN Cardinality(S) ELSE Cardinality(S) + 1
    BY FS_AddElement
  <2>2. Cardinality(S) \in Nat
    BY FS_CardinalityType
  <2>3. QED
    BY <2>1, <2>2
<1>2. IsFiniteSet(T) /\ Cardinality(T) <= Cardinality(S \cup {x})
  BY <1>1, FS_Subset
<1>3. Cardinality(T) \in Nat /\ Cardinality(S) \in Nat /\ Cardinality(S \cup {x}) \in Nat
  BY <1>1, <1>2, FS_CardinalityType
<1>4. QED
  BY <1>1, <1>2, <1>3

\* Steps that let nobody through the floor.
LEMMA NobodyMoreCounts ==
    ASSUME FloorInv,
           \A x \in Request : Counts(x)' => Counts(x) \/ x \in Unattributed,
           IsFiniteSet(Stored'), IsFiniteSet(UnderWay')
    PROVE  FloorInv'
<1>1. ASSUME NEW c \in Client
      PROVE  /\ IsFiniteSet(Counted(c)')
             /\ Cardinality(Counted(c)') <= RateLimit - 1 + MaxInFlight
  <2>1. Counted(c)' \subseteq Counted(c)
    BY DEF Counted
  <2>2. IsFiniteSet(Counted(c)) /\ Cardinality(Counted(c)) <= RateLimit - 1 + MaxInFlight
    BY DEF FloorInv
  <2>3. IsFiniteSet(Counted(c)') /\ Cardinality(Counted(c)') <= Cardinality(Counted(c))
    BY <2>1, <2>2, FS_Subset
  <2>4. Cardinality(Counted(c)') \in Nat /\ Cardinality(Counted(c)) \in Nat
    BY <2>2, <2>3, FS_CardinalityType
  <2>5. QED
    BY <2>2, <2>3, <2>4, PolicyAssumption
<1>2. QED
  BY <1>1 DEF FloorInv

\* A row keeps its place no longer than before, whoever writes it.
LEMMA AgesOnly ==
    ASSUME TypeOK, [Next]_vars, NEW x \in Request, rows[x].status # "none",
           rows'[x].status # "none", rows'[x].age < RateLimitWindow
    PROVE  rows[x].age < RateLimitWindow
<1>1. rows[x] \in Row /\ RowMoves(x)
  BY EveryRowMoves DEF TypeOK, TableType
<1>2. rows[x].age \in Nat /\ RateLimitWindow \in Nat /\ AgeCap \in Nat /\ rows[x].age <= AgeCap
  BY <1>1, PolicyAssumption, RetentionAssumption DEF Row
<1>3. CASE rows'[x] = RowAged(rows[x])
  <2>1. rows'[x].age \in {rows[x].age, rows[x].age + 1}
    BY <1>1, <1>2, <1>3 DEF RowAged, Older, Row
  <2>2. QED
    BY <1>2, <2>1
<1>4. CASE \E v \in {"queued", "failed"} : rows'[x] = MarkedFailed(rows[x], v)
  BY <1>1, <1>4, MarkKeepsRow
<1>5. CASE rows'[x] = MarkedSent(rows[x])
  BY <1>1, <1>5, MarkKeepsRow
<1>6. rows'[x] # NoRow
  BY DEF NoRow
<1>7. QED
  BY <1>1, <1>3, <1>4, <1>5, <1>6 DEF RowMoves

\* One request passes the floor, or finds its client over the limit.
LEMMA FloorCounts ==
    ASSUME TypeOK, FloorInv, NEW r \in Request, Floor(r)
    PROVE  FloorInv'
<1>a. /\ pc \in [Request -> {"idle", "checked", "repeat", "done"} \cup Delivering]
      /\ rows' = rows
      /\ Stored' = Stored
  BY DEF TypeOK, HandlerType, Floor, tableVars, Stored
<1>1. /\ \A x \in Request \ {r} : pc'[x] = pc[x]
      /\ pc'[r] = "done" \/ (pc'[r] = "checked" /\ ~OverLimit(r))
  BY <1>a DEF Floor, Answered
<1>2. IsFiniteSet(UnderWay) /\ Cardinality(UnderWay) < MaxInFlight /\ IsFiniteSet(Stored)
  BY DEF Floor, HasRoom, UnderWay, FloorInv
<1>3. UnderWay' \subseteq UnderWay \cup {r}
  BY <1>1 DEF UnderWay, InFlight
<1>4. IsFiniteSet(UnderWay') /\ IsFiniteSet(Stored')
  BY <1>a, <1>2, <1>3, AtMostOneMore
<1>5. CASE pc'[r] = "done" \/ r \in Unattributed
  <2>1. \A x \in Request : Counts(x)' => Counts(x) \/ x \in Unattributed
    BY <1>a, <1>1, <1>5 DEF Counts
  <2>2. QED
    BY <1>4, <2>1, NobodyMoreCounts
<1>6. CASE pc'[r] = "checked" /\ r \notin Unattributed
  <2>1. ASSUME NEW c \in Client
        PROVE  /\ IsFiniteSet(Counted(c)')
               /\ Cardinality(Counted(c)') <= RateLimit - 1 + MaxInFlight
    <3>1. CASE c # ClientOf[r]
      <4>1. Counted(c)' = Counted(c)
        BY <1>a, <1>1, <3>1 DEF Counted, Counts
      <4>2. QED
        BY <4>1 DEF FloorInv
    <3>2. CASE c = ClientOf[r]
      <4>1. Recent(c) \subseteq Stored
        BY DEF Recent
      <4>2. IsFiniteSet(Recent(c))
        BY <1>2, <4>1, FS_Subset
      <4>3. Cardinality(Recent(c)) < RateLimit
        <5>1. ~(Cardinality(Recent(c)) >= RateLimit)
          BY <1>1, <1>6, <3>2 DEF OverLimit
        <5>2. Cardinality(Recent(c)) \in Nat
          BY <4>2, FS_CardinalityType
        <5>3. QED
          BY <5>1, <5>2, PolicyAssumption
      <4>4. /\ IsFiniteSet(Recent(c) \cup UnderWay)
            /\ Cardinality(Recent(c) \cup UnderWay) <= RateLimit - 1 + (MaxInFlight - 1)
        <5>1. /\ IsFiniteSet(Recent(c) \cup UnderWay)
              /\ Cardinality(Recent(c) \cup UnderWay) =
                    Cardinality(Recent(c)) + Cardinality(UnderWay)
                       - Cardinality(Recent(c) \cap UnderWay)
          BY <1>2, <4>2, FS_Union
        <5>2. IsFiniteSet(Recent(c) \cap UnderWay)
          BY <1>2, FS_Subset
        <5>3. /\ Cardinality(Recent(c)) \in Nat
              /\ Cardinality(UnderWay) \in Nat
              /\ Cardinality(Recent(c) \cap UnderWay) \in Nat
          BY <1>2, <4>2, <5>2, FS_CardinalityType
        <5>4. QED
          BY <1>2, <4>3, <5>1, <5>3, PolicyAssumption
      <4>5. Counted(c)' \subseteq (Recent(c) \cup UnderWay) \cup {r}
        BY <1>a, <1>1 DEF Counted, Counts, Recent, Stored, UnderWay, InFlight
      <4>6. /\ IsFiniteSet(Counted(c)')
            /\ Cardinality(Counted(c)') \in Nat
            /\ Cardinality(Recent(c) \cup UnderWay) \in Nat
            /\ Cardinality(Counted(c)') <= Cardinality(Recent(c) \cup UnderWay) + 1
        BY <4>4, <4>5, AtMostOneMore
      <4>7. QED
        BY <4>4, <4>6, PolicyAssumption
    <3>3. QED
      BY <3>1, <3>2
  <2>2. QED
    BY <1>4, <2>1 DEF FloorInv
<1>7. QED
  BY <1>1, <1>5, <1>6

\* Any other statement of a handler: an INSERT turns a request that had passed
\* the floor into its row.
LEMMA HandlerCounts ==
    ASSUME TypeOK, FloorInv, NEW r \in Request, ~Floor(r),
           \/ HandlerStep(r) \/ Refuse(r) \/ Discard(r)
           \/ FloorError(r) \/ InsertError(r) \/ FindError(r)
    PROVE  FloorInv'
<1> USE DEF tableVars
<1>a. /\ pc \in [Request -> {"idle", "checked", "repeat", "done"} \cup Delivering]
      /\ rows \in [Request -> Row]
      /\ [Next]_vars
  BY DEF TypeOK, HandlerType, TableType, Next
<1>b. \A x \in Request \ {r} : pc'[x] = pc[x] /\ rows'[x] = rows[x]
  BY HandlerFrame
<1>1. pc'[r] # "checked"
  BY <1>a DEF HandlerStep, Insert, FindExisting, TakeBudget, Send, RecordSent, RecordFailure,
     Refuse, Discard, FloorError, InsertError, FindError, Answered, Outcome
<1>2. rows[r].status # "none" \/ rows'[r].status = "none" \/ pc[r] = "checked"
  <2>1. CASE Insert(r) \/ InsertError(r)
    BY <2>1 DEF Insert, InsertError
  <2>2. CASE RecordSent(r) \/ RecordFailure(r)
    <3>1. rows[r].status = "none" => rows'[r] = rows[r]
      BY <1>a, <2>2 DEF RecordSent, RecordFailure, MarkedSent, MarkedFailed, Updated
    <3>2. QED
      BY <3>1
  <2>3. CASE rows' = rows
    BY <2>3
  <2>4. QED
    BY <2>1, <2>2, <2>3 DEF HandlerStep, FindExisting, TakeBudget, Send, Refuse, Discard,
       FloorError, FindError
<1>3. \A x \in Request : Counts(x)' => Counts(x)
  BY <1>a, <1>b, <1>1, <1>2, AgesOnly DEF Counts
<1>4. Stored' \subseteq Stored \cup {r} /\ UnderWay' \subseteq UnderWay \cup {r}
  BY <1>b DEF Stored, UnderWay, InFlight
<1>5. IsFiniteSet(Stored') /\ IsFiniteSet(UnderWay')
  BY <1>4, AtMostOneMore DEF FloorInv
<1>6. QED
  BY <1>3, <1>5, NobodyMoreCounts

\* Nobody else inserts, and no row that is gone comes back.
LEMMA OthersCount ==
    ASSUME TypeOK, FloorInv, [Next]_vars,
           \A x \in Request : pc'[x] \in {pc[x], "done"},
           \A x \in Request : rows[x].status = "none" => rows'[x].status = "none"
    PROVE  FloorInv'
<1>1. \A x \in Request : Counts(x)' => Counts(x)
  BY AgesOnly DEF Counts
<1>2. Stored' \subseteq Stored /\ UnderWay' \subseteq UnderWay
  BY DEF Stored, UnderWay, InFlight
<1>3. IsFiniteSet(Stored') /\ IsFiniteSet(UnderWay')
  BY <1>2, FS_Subset DEF FloorInv
<1>4. QED
  BY <1>1, <1>3, NobodyMoreCounts

LEMMA FloorInit == Init => FloorInv
<1> SUFFICES ASSUME Init PROVE FloorInv
  OBVIOUS
<1>1. /\ Stored = {}
      /\ UnderWay = {}
      /\ \A c \in Client : Counted(c) = {}
  BY DEF Init, Stored, UnderWay, InFlight, Counted, Counts, NoRow
<1>2. IsFiniteSet({}) /\ Cardinality({}) = 0
  BY FS_EmptySet
<1>3. QED
  BY <1>1, <1>2, PolicyAssumption DEF FloorInv

LEMMA FloorStep == TypeOK /\ FloorInv /\ [Next]_vars => FloorInv'
<1> SUFFICES ASSUME TypeOK, FloorInv, [Next]_vars PROVE FloorInv'
  OBVIOUS
<1>a. rows \in [Request -> Row]
  BY DEF TypeOK, TableType
<1>1. ASSUME NEW r \in Request,
             \/ HandlerStep(r) \/ Refuse(r) \/ Discard(r)
             \/ FloorError(r) \/ InsertError(r) \/ FindError(r)
      PROVE  FloorInv'
  BY <1>1, FloorCounts, HandlerCounts
<1>2. ASSUME NEW i \in Instance, RunStep(i) \/ ListError(i)
      PROVE  FloorInv'
  <2>1. pc' = pc
    BY <1>2, RunFrame
  <2>2. \A x \in Request : rows[x].status = "none" => rows'[x].status = "none"
    <3>1. CASE RecordSentQueued(i) \/ RecordFailureQueued(i)
      <4>1. \A x \in Request : rows[x].status = "none" => rows'[x] = rows[x]
        BY <1>a, <3>1 DEF RecordSentQueued, RecordFailureQueued, MarkedSent, MarkedFailed, Updated
      <4>2. QED
        BY <4>1
    <3>2. CASE rows' = rows
      BY <3>2
    <3>3. QED
      BY <1>2, <3>1, <3>2 DEF RunStep, SkipRun, ListDeliverable, FindQueueEmpty, ListError,
         Take, SendQueued, EndRun, tableVars
  <2>3. QED
    BY <2>1, <2>2, OthersCount
<1>3. ASSUME NEW i \in Instance, Crash(i)
      PROVE  FloorInv'
  <2>1. rows' = rows /\ \A x \in Request : pc'[x] \in {pc[x], "done"}
    BY <1>3 DEF Crash, tableVars
  <2>2. QED
    BY <2>1, OthersCount
<1>4. CASE Purge
  <2>1. pc' = pc /\ \A x \in Request : rows'[x] \in {rows[x], NoRow}
    BY <1>4 DEF Purge, handlerVars
  <2>2. QED
    BY <2>1, OthersCount DEF NoRow
<1>5. CASE Tick
  <2>1. pc' = pc /\ \A x \in Request : rows'[x] = RowAged(rows[x])
    BY <1>5 DEF Tick, handlerVars
  <2>2. QED
    BY <1>a, <2>1, AgedChecked, OthersCount
<1>6. CASE UNCHANGED vars
  <2>1. pc' = pc /\ rows' = rows
    BY <1>6 DEF vars, handlerVars, tableVars
  <2>2. QED
    BY <2>1, OthersCount
<1>7. QED
  BY <1>1, <1>2, <1>3, <1>4, <1>5, <1>6 DEF Next

\* However many requests of one client race between the count and the INSERT,
\* the window holds at most one row too many for each of them.
THEOREM OvershootIsBoundedHolds == Spec => []OvershootIsBounded
<1>1. TypeOK /\ FloorInv /\ [Next]_vars => FloorInv'
  BY FloorStep
<1>2. FloorInv => OvershootIsBounded
  <2>1. SUFFICES ASSUME FloorInv, NEW c \in Client
                 PROVE  Cardinality({r \in Recent(c) : r \notin Unattributed})
                           <= RateLimit - 1 + MaxInFlight
    BY DEF OvershootIsBounded
  <2>2. {r \in Recent(c) : r \notin Unattributed} \subseteq Counted(c)
    BY DEF Recent, Stored, Counted, Counts
  <2>3. IsFiniteSet(Counted(c)) /\ Cardinality(Counted(c)) <= RateLimit - 1 + MaxInFlight
    BY <2>1 DEF FloorInv
  <2>4. PICK T : T = {r \in Recent(c) : r \notin Unattributed}
    OBVIOUS
  <2>5. IsFiniteSet(T) /\ Cardinality(T) <= Cardinality(Counted(c))
    BY <2>2, <2>3, <2>4, FS_Subset
  <2>6. Cardinality(T) \in Nat /\ Cardinality(Counted(c)) \in Nat
    BY <2>3, <2>5, FS_CardinalityType
  <2>7. QED
    BY <2>3, <2>4, <2>5, <2>6, PolicyAssumption
<1>3. QED
  BY <1>1, <1>2, FloorInit, TypeCorrect, PTL DEF Spec

\* A nonempty set of naturals has a least element.
LEMMA LeastOfNats ==
    ASSUME NEW S, S \subseteq Nat, S # {}
    PROVE  \E m \in S : \A n \in S : m <= n
<1>1. PICK m \in S : \A n \in S : ~(<<n, m>> \in OpToRel(<, Nat))
  BY NatLessThanWellFounded, WFMin
<1>2. \A n \in S : ~(n < m)
  BY <1>1, Zenon DEF OpToRel
<1>3. QED
  BY <1>2

\* The wait that a full window answers: what is left to the oldest row in it.
LEMMA OldestFrees ==
    ASSUME TypeOK, NEW c \in Client, Recent(c) # {}
    PROVE  /\ RetryAfter(c) \in 1..RateLimitWindow
           /\ \E oldest \in Recent(c) :
                /\ \A r \in Recent(c) : rows[r].age <= rows[oldest].age
                /\ RetryAfter(c) = RateLimitWindow - rows[oldest].age
<1> DEFINE Left == {RateLimitWindow - rows[r].age : r \in Recent(c)}
<1>1. \A r \in Recent(c) : rows[r].age \in Nat /\ rows[r].age < RateLimitWindow
  BY RetentionAssumption, PolicyAssumption DEF TypeOK, TableType, Row, Recent, Stored
<1>2. Left \subseteq Nat /\ Left # {}
  BY <1>1, PolicyAssumption
<1>3. PICK w \in Left : \A v \in Left : w <= v
  BY <1>2, LeastOfNats
<1>4. PICK oldest \in Recent(c) : w = RateLimitWindow - rows[oldest].age
  BY <1>3
<1>5. \A r \in Recent(c) : rows[r].age <= rows[oldest].age
  <2>1. ASSUME NEW r \in Recent(c) PROVE rows[r].age <= rows[oldest].age
    <3>1. RateLimitWindow - rows[r].age \in Left
      OBVIOUS
    <3>2. w <= RateLimitWindow - rows[r].age
      BY <1>3, <3>1
    <3> HIDE DEF Left
    <3>3. QED
      BY <1>1, <1>4, <3>2, PolicyAssumption
  <2>2. QED
    BY <2>1
<1> HIDE DEF Left
<1>6. w \in 1..RateLimitWindow
  BY <1>1, <1>4, PolicyAssumption
<1>7. w \in 0..RateLimitWindow
  BY <1>6, PolicyAssumption
<1>8. \E v \in 0..RateLimitWindow : \E o \in Recent(c) :
         /\ \A r \in Recent(c) : rows[r].age <= rows[o].age
         /\ v = RateLimitWindow - rows[o].age
  BY <1>4, <1>5, <1>7
<1>9. \E o \in Recent(c) : /\ \A r \in Recent(c) : rows[r].age <= rows[o].age
                           /\ RetryAfter(c) = RateLimitWindow - rows[o].age
  BY <1>8 DEF RetryAfter
<1>10. QED
  BY <1>1, <1>9, PolicyAssumption

\* Only the floor answers 429, and only to a client whose window is full.
LEMMA OnlyTheFloorRefuses ==
    ASSUME TypeOK, [Next]_vars, NEW r \in Request, answer'[r] = "429", answer[r] # "429"
    PROVE  OverLimit(r)
<1>1. answer \in [Request -> {"none", "400", "discarded", "202", "429", "500", "502", "lost"}]
  BY DEF TypeOK, HandlerType
<1>2. ASSUME NEW x \in Request, NEW a, a # "429", answer' = [answer EXCEPT ![x] = a] PROVE FALSE
  BY <1>1, <1>2
<1>3. answer' # answer
  OBVIOUS
<1>4. ASSUME NEW x \in Request, Floor(x) PROVE OverLimit(r)
  BY <1>1, <1>3, <1>4 DEF Floor, Answered
<1>5. ASSUME NEW x \in Request,
             \/ Insert(x) \/ FindExisting(x) \/ TakeBudget(x) \/ Send(x) \/ RecordSent(x)
             \/ RecordFailure(x) \/ Refuse(x) \/ Discard(x)
             \/ FloorError(x) \/ InsertError(x) \/ FindError(x)
      PROVE  FALSE
  <2>1. answer' = answer \/ \E a \in {"400", "discarded", "202", "500", "502"} : answer' = [answer EXCEPT ![x] = a]
    BY <1>5 DEF Insert, FindExisting, TakeBudget, Send, RecordSent, RecordFailure, Refuse, Discard,
       FloorError, InsertError, FindError, Answered
  <2>2. QED
    BY <1>2, <1>3, <2>1
<1>6. ASSUME NEW i \in Instance, RunStep(i) \/ ListError(i) PROVE FALSE
  <2>1. CASE RecordSentQueued(i)
    BY <1>3, <2>1 DEF RecordSentQueued, handlerVars
  <2>2. CASE RecordFailureQueued(i)
    BY <1>3, <2>2 DEF RecordFailureQueued, handlerVars
  <2>3. QED
    BY <1>3, <1>6, <2>1, <2>2 DEF RunStep, SkipRun, ListDeliverable, FindQueueEmpty, ListError, Take,
       SendQueued, EndRun, handlerVars
<1>7. ASSUME NEW i \in Instance, Crash(i) PROVE FALSE
  BY <1>7 DEF Crash
<1>8. Purge \/ Tick \/ UNCHANGED vars => FALSE
  BY <1>3 DEF Purge, Tick, vars, handlerVars
<1>9. QED
  BY <1>4, <1>5, <1>6, <1>7, <1>8 DEF Next, HandlerStep

\* A 429 names a moment at which the client is let in, and none before it lets it in,
\* unless racing requests have overfilled the window: the answer is the time left to
\* the oldest row, and one tick earlier the whole window is still full.
THEOREM RetryAfterIsExactHolds == Spec => RetryAfterIsExact
<1>1. ASSUME TypeOK, FloorInv, [Next]_vars, NEW r \in Request, answer'[r] = "429", answer[r] # "429"
      PROVE  LET c == ClientOf[r]
                 w == RetryAfter(c)
             IN  /\ w >= 1
                 /\ Cardinality(StillRecentAfter(c, w - 1)) >= RateLimit
                 /\ Cardinality(Recent(c)) = RateLimit =>
                       Cardinality(StillRecentAfter(c, w)) < RateLimit
  <2> DEFINE c == ClientOf[r]
             w == RetryAfter(c)
  <2>1. Cardinality(Recent(c)) >= RateLimit
    BY <1>1, OnlyTheFloorRefuses DEF OverLimit
  <2>2. IsFiniteSet(Recent(c))
    BY <1>1, FS_Subset DEF FloorInv, Recent
  <2>3. Recent(c) # {}
    BY <2>1, FS_EmptySet, PolicyAssumption
  <2>4. c \in Client
    BY RequestAssumption
  <2>5. PICK oldest \in Recent(c) :
          /\ \A x \in Recent(c) : rows[x].age <= rows[oldest].age
          /\ w = RateLimitWindow - rows[oldest].age
    BY <1>1, <2>3, <2>4, OldestFrees
  <2>6. w \in 1..RateLimitWindow
    BY <1>1, <2>3, <2>4, OldestFrees
  <2>7. \A x \in Recent(c) : rows[x].age \in Nat
    BY <1>1, RetentionAssumption, PolicyAssumption DEF TypeOK, TableType, Row, Recent, Stored
  <2> HIDE DEF c, w
  <2>8. StillRecentAfter(c, w - 1) = Recent(c)
    BY <2>5, <2>6, <2>7, PolicyAssumption DEF StillRecentAfter
  <2>9. StillRecentAfter(c, w) \subseteq Recent(c) \ {oldest}
    BY <2>5, <2>7, PolicyAssumption DEF StillRecentAfter
  <2>10. Cardinality(StillRecentAfter(c, w)) < Cardinality(Recent(c))
    <3>1. IsFiniteSet(Recent(c) \ {oldest}) /\ Cardinality(Recent(c) \ {oldest}) = Cardinality(Recent(c)) - 1
      BY <2>2, FS_RemoveElement
    <3>2. /\ IsFiniteSet(StillRecentAfter(c, w))
          /\ Cardinality(StillRecentAfter(c, w)) <= Cardinality(Recent(c) \ {oldest})
      BY <2>9, <3>1, FS_Subset
    <3>3. Cardinality(StillRecentAfter(c, w)) \in Nat /\ Cardinality(Recent(c)) \in Nat
      BY <2>2, <3>2, FS_CardinalityType
    <3>4. QED
      BY <3>1, <3>2, <3>3
  <2>11. QED
    BY <2>1, <2>6, <2>8, <2>10 DEF c, w
<1>2. TypeOK /\ FloorInv /\ [Next]_vars =>
        \A r \in Request : answer'[r] = "429" /\ answer[r] # "429" =>
          LET c == ClientOf[r]
              w == RetryAfter(c)
          IN  /\ w >= 1
              /\ Cardinality(StillRecentAfter(c, w - 1)) >= RateLimit
              /\ Cardinality(Recent(c)) = RateLimit =>
                    Cardinality(StillRecentAfter(c, w)) < RateLimit
  BY <1>1
<1>3. TypeOK /\ FloorInv /\ [Next]_vars => FloorInv'
  BY FloorStep
<1>4. QED
  BY <1>2, <1>3, FloorInit, TypeCorrect, PTL DEF Spec, RetryAfterIsExact

-----------------------------------------------------------------------------
(***************************************************************************)
(* Why one process never leaves a row queued without attempts.  A handler  *)
(* and the dispatcher count the attempts of one row without seeing each    *)
(* other, but only on its first attempt: the handler is gone before the    *)
(* backoff of the second is over, and the dispatcher has no rival then.    *)
(***************************************************************************)

\* One process, whose backoff outlasts every handler, and attempts to spare
\* for the one that is counted twice (policy.go: two minutes and five).
OneProcess == \E i \in Instance : Instance = {i}

BackoffOutlastsHandlers == BackoffBase >= 2 /\ MaxAttempts >= 3

\* A row whose attempts still count.
Open(x) == rows[x].status \in {"queued", "failed"}

\* A handler has seen at most one tick since its INSERT.
Young(x) ==
    HandlerHolds(x) /\ rows[x].status # "none" =>
        rows[x].age <= 1 /\ (x \notin late => rows[x].age = 0)

\* What a run has read of x is what the row says, but for the attempt its
\* handler may have recorded meanwhile.
Agrees(x, attempts) ==
    \/ rows[x].attempts = attempts /\ (HandlerHolds(x) => attempts = 0)
    \/ attempts = 0 /\ rows[x].attempts = 1 /\ ~HandlerHolds(x)

Attempts(x) ==
    /\ Open(x) /\ HandlerHolds(x) => rows[x].attempts <= 1
    /\ \A i \in Instance : \A n \in DOMAIN run[i].todo :
          run[i].todo[n].id = x /\ Open(x) => Agrees(x, run[i].todo[n].attempts)
    /\ rows[x].status = "queued" => rows[x].attempts < MaxAttempts

AttemptsInv == \A x \in Request : Young(x) /\ Attempts(x)

LEMMA MarkCounts ==
    ASSUME NEW row \in Row, DeliveredIffSent(row), NEW v \in {"queued", "failed"}
    PROVE  /\ MarkedSent(row).status \in {"sent", "none"}
           /\ row.status \in {"sent", "none"} => MarkedFailed(row, v) = row
           /\ row.status \in {"queued", "failed"} =>
                 MarkedFailed(row, v).status = v /\ MarkedFailed(row, v).attempts = row.attempts + 1
<1> DEFINE failed == [row EXCEPT !.status = v, !.attempts = @ + 1]
<1>1. failed.status = v /\ failed.delivered = row.delivered /\ failed.attempts = row.attempts + 1
  BY DEF Row
<1>2. row.status \in {"queued", "failed"} => MarkedFailed(row, v) = failed
  BY <1>1 DEF MarkedFailed, Updated, DeliveredIffSent
<1>3. row.status = "none" => MarkedSent(row) = row /\ MarkedFailed(row, v) = row
  BY DEF MarkedSent, MarkedFailed, Updated
<1>4. QED
  BY <1>1, <1>2, <1>3, MarkChecked

LEMMA AgedCounts ==
    ASSUME NEW row \in Row
    PROVE  RowAged(row).attempts = row.attempts /\ RowAged(row).status = row.status
  BY DEF RowAged, Row

-----------------------------------------------------------------------------
\* A row nobody counts in this step, or that is closed by it.
LEMMA AttemptsFramed ==
    ASSUME NEW x \in Request, Attempts(x),
           \/ rows'[x].status \in {"sent", "none"}
           \/ rows'[x].status = rows[x].status /\ rows'[x].attempts = rows[x].attempts,
           HandlerHolds(x)' => HandlerHolds(x),
           \A i \in Instance : \A n \in DOMAIN run'[i].todo :
              run'[i].todo[n].id = x =>
                 \E m \in DOMAIN run[i].todo : run[i].todo[m] = run'[i].todo[n]
    PROVE  Attempts(x)'
<1>1. CASE rows'[x].status \in {"sent", "none"}
  BY <1>1 DEF Attempts, Open
<1>2. CASE rows'[x].status = rows[x].status /\ rows'[x].attempts = rows[x].attempts
  <2>1. Open(x)' <=> Open(x)
    BY <1>2 DEF Open
  <2>2. ASSUME NEW i \in Instance, NEW n \in DOMAIN run'[i].todo,
               run'[i].todo[n].id = x, Open(x)
        PROVE  Agrees(x, run[i].todo[n].attempts)'
    <3>1. PICK m \in DOMAIN run[i].todo : run[i].todo[m] = run'[i].todo[n]
      BY <2>2
    <3>2. Agrees(x, run[i].todo[m].attempts)
      BY <2>2, <3>1 DEF Attempts
    <3>3. QED
      BY <1>2, <3>1, <3>2 DEF Agrees
  <2>3. QED
    BY <1>2, <2>1, <2>2 DEF Attempts
<1>3. QED
  BY <1>1, <1>2

\* Only an INSERT makes a handler hold a row, and the row is then new.
LEMMA HandlerYoung ==
    ASSUME TypeOK, OnceInv, AttemptsInv, NEW r \in Request,
           \/ HandlerStep(r) \/ Refuse(r) \/ Discard(r)
           \/ FloorError(r) \/ InsertError(r) \/ FindError(r),
           NEW x \in Request
    PROVE  Young(x)'
<1> USE DEF tableVars
<1>a. /\ pc \in [Request -> {"idle", "checked", "repeat", "done"} \cup Delivering]
      /\ rows \in [Request -> Row]
  BY DEF TypeOK, HandlerType, TableType
<1>b. \A y \in Request \ {r} : pc'[y] = pc[y] /\ rows'[y] = rows[y]
  BY HandlerFrame
<1>c. late' = late \/ (late' = late \ {r} /\ pc'[r] = "done")
  BY <1>a DEF HandlerStep, Floor, Insert, FindExisting, TakeBudget, Send, RecordSent, RecordFailure,
     Refuse, Discard, FloorError, InsertError, FindError, Answered
<1>1. CASE x # r
  BY <1>b, <1>c, <1>1 DEF AttemptsInv, Young, HandlerHolds
<1>2. CASE x = r /\ pc'[r] = "done"
  BY <1>2 DEF Young, HandlerHolds, Delivering
<1>3. CASE x = r /\ Insert(r)
  <2>1. rows[r].status = "none"
    BY <1>3 DEF OnceInv, Untouched, Early, Insert
  <2>2. rows'[r].status = "none" \/ rows'[r] = NewRow
    BY <1>a, <1>3, <2>1 DEF Insert, Inserted
  <2>3. QED
    BY <1>3, <2>2 DEF Young, NewRow
<1>4. CASE x = r /\ (Send(r) \/ (TakeBudget(r) /\ pc'[r] # "done"))
  <2>1. rows' = rows /\ late' = late /\ HandlerHolds(r)
    BY <1>a, <1>c, <1>4 DEF Send, TakeBudget, HandlerHolds, Delivering, Answered
  <2>2. QED
    BY <1>4, <2>1 DEF AttemptsInv, Young
<1>5. CASE Floor(r)
  BY <1>a, <1>1, <1>5 DEF Floor, Answered, Young, HandlerHolds, Delivering
<1>6. QED
  BY <1>a, <1>1, <1>2, <1>3, <1>4, <1>5
  DEF HandlerStep, FindExisting, TakeBudget, RecordSent, RecordFailure,
     Refuse, Discard, FloorError, InsertError, FindError, Answered

LEMMA HandlerAttempts ==
    ASSUME BackoffOutlastsHandlers, TypeOK, SentInv, OnceInv, AttemptsInv, NEW r \in Request,
           \/ HandlerStep(r) \/ Refuse(r) \/ Discard(r)
           \/ FloorError(r) \/ InsertError(r) \/ FindError(r)
    PROVE  AttemptsInv'
<1> USE DEF tableVars
<1>a. /\ pc \in [Request -> {"idle", "checked", "repeat", "done"} \cup Delivering]
      /\ rows \in [Request -> Row]
      /\ rows[r] \in Row /\ DeliveredIffSent(rows[r])
  BY DEF TypeOK, HandlerType, TableType, SentInv, Checked
<1>b. /\ run' = run
      /\ \A y \in Request \ {r} : pc'[y] = pc[y] /\ rows'[y] = rows[y]
  BY HandlerFrame
<1>c. Attempts(r) /\ MaxAttempts \in Nat
  BY PolicyAssumption DEF AttemptsInv
<1>1. ASSUME NEW x \in Request \ {r}
      PROVE  Attempts(x)'
  <2>1. Attempts(x) /\ (HandlerHolds(x)' => HandlerHolds(x))
    BY <1>b DEF AttemptsInv, HandlerHolds
  <2>2. QED
    BY <1>b, <2>1, AttemptsFramed
<1>2. Attempts(r)'
  <2>1. CASE pc[r] \in Early
    <3>1. rows[r].status = "none" /\ \A i \in Instance : ~RunHolds(i, r)
      BY <2>1 DEF OnceInv, Untouched
    <3>2. rows'[r].status = "none" \/ rows'[r] = NewRow
      BY <1>a, <2>1, <3>1 DEF HandlerStep, Floor, Insert, Inserted, FindExisting, TakeBudget, Send,
         RecordSent, RecordFailure, Refuse, Discard, FloorError, InsertError, FindError, Early
    <3>3. QED
      BY <1>b, <1>c, <3>1, <3>2, PolicyAssumption DEF Attempts, Open, RunHolds, NewRow
  <2>2. CASE TakeBudget(r) \/ Send(r)
    <3>1. rows' = rows /\ HandlerHolds(r)
      BY <2>2 DEF TakeBudget, Send, HandlerHolds, Delivering
    <3>2. QED
      BY <1>b, <1>c, <3>1, AttemptsFramed
  <2>3. CASE RecordSent(r)
    <3>1. HandlerHolds(r) /\ (rows' = rows \/ rows'[r] = MarkedSent(rows[r]))
      BY <1>a, <2>3 DEF RecordSent, HandlerHolds, Delivering
    <3>2. rows'[r].status \in {"sent", "none"} \/ rows'[r] = rows[r]
      BY <1>a, <3>1, MarkCounts
    <3>3. QED
      BY <1>b, <1>c, <3>1, <3>2, AttemptsFramed
  <2>4. CASE RecordFailure(r)
    <3>1. PICK v \in {"queued", "failed"} :
            rows' = rows \/ rows'[r] = MarkedFailed(rows[r], v)
      BY <1>a, <2>4 DEF RecordFailure, HandlerVerdict
    <3>2. HandlerHolds(r) /\ ~HandlerHolds(r)'
      BY <1>a, <2>4 DEF RecordFailure, Answered, HandlerHolds, Delivering
    <3>3. CASE rows'[r] = rows[r]
      BY <1>b, <1>c, <3>2, <3>3, AttemptsFramed
    <3>4. CASE Open(r) /\ rows'[r] = MarkedFailed(rows[r], v)
      <4>1. rows'[r].attempts = rows[r].attempts + 1 /\ rows[r].attempts \in Nat
        BY <1>a, <3>4, MarkCounts DEF Open, Row
      <4>2. rows'[r].attempts <= 2
        BY <1>c, <3>2, <3>4, <4>1 DEF Attempts
      <4>3. ASSUME NEW i \in Instance, NEW n \in DOMAIN run'[i].todo, run'[i].todo[n].id = r
            PROVE  Agrees(r, run[i].todo[n].attempts)'
        <5>1. Agrees(r, run[i].todo[n].attempts)
          BY <1>b, <1>c, <3>4, <4>3 DEF Attempts
        <5>2. QED
          BY <1>b, <3>2, <4>1, <5>1 DEF Agrees
      <4>4. QED
        BY <1>c, <3>2, <4>1, <4>2, <4>3 DEF Attempts, BackoffOutlastsHandlers
    <3>5. CASE ~Open(r)
      <4>1. rows'[r] = rows[r]
        <5>1. rows[r].status \in {"sent", "none"}
          BY <1>a, <3>5 DEF Open, Row
        <5>2. QED
          BY <1>a, <3>1, <5>1, MarkCounts
      <4>2. QED
        BY <3>3, <4>1
    <3>6. QED
      BY <3>1, <3>3, <3>4, <3>5
  <2>5. QED
    BY <2>1, <2>2, <2>3, <2>4 DEF HandlerStep, Floor, Insert, FindExisting, Refuse, Discard,
       FloorError, InsertError, FindError, Early
<1>3. QED
  BY <1>1, <1>2, HandlerYoung DEF AttemptsInv

-----------------------------------------------------------------------------
\* A run changes neither who holds a row nor its age.
LEMMA RunYoung ==
    ASSUME TypeOK, AttemptsInv, NEW i \in Instance, RunStep(i) \/ ListError(i), NEW x \in Request
    PROVE  Young(x)'
<1>1. pc' = pc
  BY RunFrame
<1>2. late' = late \/ late' = late \ {i}
  BY DEF RunStep, SkipRun, ListDeliverable, FindQueueEmpty, ListError, Take, SendQueued,
     RecordSentQueued, RecordFailureQueued, EndRun, RunEnds
<1>3. i # x
  BY RequestAssumption
<1>4. rows[x] \in Row
  BY DEF TypeOK, TableType
<1>5. rows'[x].status = "none" \/ (rows[x].status # "none" /\ rows'[x].age = rows[x].age)
  <2>1. CASE rows' = rows
    BY <2>1
  <2>2. CASE RecordSentQueued(i) \/ RecordFailureQueued(i)
    <3>1. \/ rows'[x] = rows[x]
          \/ rows'[x] = MarkedSent(rows[x])
          \/ \E v \in {"queued", "failed"} : rows'[x] = MarkedFailed(rows[x], v)
      BY <2>2 DEF TypeOK, TableType, RecordSentQueued, RecordFailureQueued, DispatchVerdict
    <3>2. QED
      BY <1>4, <3>1, MarkKeepsRow
  <2>3. QED
    BY <2>1, <2>2 DEF RunStep, SkipRun, ListDeliverable, FindQueueEmpty, ListError, Take,
       SendQueued, EndRun, tableVars
<1>6. QED
  BY <1>1, <1>2, <1>3, <1>5 DEF AttemptsInv, Young, HandlerHolds

\* What a run lists it has read from the row, and a row still in a handler's
\* hands is listed on its first attempt only.
LEMMA ListedAttempts ==
    ASSUME OneProcess, BackoffOutlastsHandlers, TypeOK, AttemptsInv, NEW i \in Instance,
           ListDeliverable(i), NEW x \in Request
    PROVE  Attempts(x)'
<1>a. /\ run \in [Instance -> Run]
      /\ rows[x] \in Row
      /\ pc' = pc /\ rows' = rows
      /\ Instance = {i}
      /\ Young(x) /\ Attempts(x)
  BY DEF TypeOK, RunType, TableType, ListDeliverable, tableVars, handlerVars, OneProcess,
     AttemptsInv
<1>1. PICK s \in Batch :
        run' = [run EXCEPT ![i] = [NoRun EXCEPT !.pc = "deliver", !.todo = Listed(s)]]
  BY DEF ListDeliverable
<1>2. run'[i].todo = Listed(s)
  BY <1>a, <1>1 DEF NoRun
<1>3. /\ DOMAIN Listed(s) = DOMAIN s
      /\ \A n \in DOMAIN s :
            /\ s[n] \in Queue
            /\ Listed(s)[n].id = s[n]
            /\ Listed(s)[n].attempts = rows[s[n]].attempts
  BY <1>1 DEF Batch, Listed
<1>4. x \in Queue /\ HandlerHolds(x) => rows[x].attempts = 0
  <2>1. SUFFICES ASSUME x \in Queue, HandlerHolds(x), rows[x].attempts # 0
                 PROVE  FALSE
    OBVIOUS
  <2>2. rows[x].status = "queued" /\ rows[x].age >= BackoffBase * (2 ^ rows[x].attempts - 1)
    BY <2>1 DEF Queue, Deliverable
  <2>3. rows[x].attempts = 1
    BY <1>a, <2>1, <2>2 DEF Attempts, Open, Row
  <2>4. rows[x].age >= BackoffBase * (2 ^ 1 - 1)
    BY <2>2, <2>3
  <2>5. 2 ^ 1 - 1 = 1
    OBVIOUS
  <2>6. rows[x].age \in Int /\ BackoffBase \in Nat
    BY <1>a, PolicyAssumption, RetentionAssumption DEF Row
  <2>7. rows[x].age >= BackoffBase
    BY <2>4, <2>5, <2>6
  <2>8. rows[x].age <= 1
    BY <1>a, <2>1, <2>2 DEF Young
  <2>9. QED
    BY <2>6, <2>7, <2>8 DEF BackoffOutlastsHandlers
<1>5. ASSUME NEW n \in DOMAIN run'[i].todo, run'[i].todo[n].id = x
      PROVE  Agrees(x, run[i].todo[n].attempts)'
  BY <1>a, <1>2, <1>3, <1>4, <1>5 DEF Agrees, HandlerHolds
<1>6. QED
  BY <1>a, <1>5 DEF Attempts, Open, HandlerHolds

\* The first row of a batch whose rows are all different is not in its tail.
LEMMA LetsGo ==
    ASSUME RunType, OnceInv, NEW i \in Instance, run[i].todo # <<>>,
           run'[i].todo = Tail(run[i].todo)
    PROVE  /\ \A n \in DOMAIN run'[i].todo : run'[i].todo[n].id # Current(i).id
           /\ \A n \in DOMAIN run'[i].todo :
                 \E m \in DOMAIN run[i].todo : run[i].todo[m] = run'[i].todo[n]
<1>1. run[i].todo \in Seq(Item)
  BY DEF RunType, Run
<1>2. \A n \in DOMAIN run'[i].todo :
         /\ run'[i].todo[n] = run[i].todo[n + 1]
         /\ n + 1 \in DOMAIN run[i].todo
         /\ n + 1 # 1
  BY <1>1, TailHolds
<1>3. Current(i) = run[i].todo[1] /\ 1 \in DOMAIN run[i].todo
  BY CurrentIsHeld
<1>4. QED
  BY <1>2, <1>3 DEF OnceInv, DistinctItems

\* The verdict on the first row of the batch counts from what the run read.
LEMMA RecordedAttempts ==
    ASSUME OneProcess, BackoffOutlastsHandlers, TypeOK, SentInv, OnceInv, AttemptsInv,
           NEW i \in Instance, RecordFailureQueued(i), NEW x \in Request
    PROVE  Attempts(x)'
<1>a. /\ run \in [Instance -> Run]
      /\ RunType
      /\ rows \in [Request -> Row]
      /\ rows[x] \in Row /\ DeliveredIffSent(rows[x])
      /\ pc' = pc
      /\ Instance = {i}
      /\ Attempts(x)
      /\ MaxAttempts \in Nat
  BY PolicyAssumption DEF TypeOK, RunType, TableType, RecordFailureQueued, handlerVars, OneProcess,
     AttemptsInv, SentInv, Checked
<1>b. run[i].todo # <<>> /\ run[i].todo \in Seq(Item)
  BY <1>a DEF RecordFailureQueued, RunType, Run
<1>1. run'[i].todo = Tail(run[i].todo) /\ Current(i) \in Item
  BY <1>a, <1>b, RecordedRun DEF RecordFailureQueued
<1>2. PICK verdict \in {"queued", "failed"} :
         /\ verdict = DispatchVerdict(run[i].pc, Current(i).attempts)
         /\ \/ rows' = [rows EXCEPT ![Current(i).id] = MarkedFailed(@, verdict)]
            \/ rows' = rows
  BY DEF RecordFailureQueued, DispatchVerdict
<1>3. /\ \A n \in DOMAIN run'[i].todo : run'[i].todo[n].id # Current(i).id
      /\ \A j \in Instance : \A n \in DOMAIN run'[j].todo :
            \E m \in DOMAIN run[j].todo : run[j].todo[m] = run'[j].todo[n]
  BY <1>a, <1>b, <1>1, LetsGo
<1>4. HandlerHolds(x)' <=> HandlerHolds(x)
  BY <1>a DEF HandlerHolds
<1>5. CASE rows'[x] = rows[x]
  BY <1>a, <1>3, <1>4, <1>5, AttemptsFramed
<1>6. CASE x = Current(i).id /\ Open(x) /\ rows'[x] = MarkedFailed(rows[x], verdict)
  <2>1. /\ rows'[x].attempts = rows[x].attempts + 1
        /\ rows'[x].status = verdict
        /\ rows[x].attempts \in Nat
    BY <1>a, <1>6, MarkCounts DEF Open, Row
  <2>2. Agrees(x, Current(i).attempts)
    BY <1>a, <1>b, <1>6, CurrentIsHeld DEF Attempts
  <2>3. rows'[x].status = "queued" => rows'[x].attempts < MaxAttempts
    <3>1. Current(i).attempts \in Nat
      BY <1>1 DEF Item
    <3>2. verdict = "queued" => Current(i).attempts + 1 < MaxAttempts
      BY <1>a, <1>2, <3>1 DEF DispatchVerdict
    <3>3. rows[x].attempts = Current(i).attempts \/ rows[x].attempts = 1
      BY <2>2 DEF Agrees
    <3>4. QED
      BY <1>a, <2>1, <3>1, <3>2, <3>3 DEF BackoffOutlastsHandlers
  <2>4. HandlerHolds(x) => rows'[x].attempts = 1
    BY <2>1, <2>2 DEF Agrees
  <2>5. \A j \in Instance : \A n \in DOMAIN run'[j].todo : run'[j].todo[n].id # x
    BY <1>a, <1>3, <1>6
  <2>6. QED
    BY <1>4, <2>3, <2>4, <2>5 DEF Attempts
<1>7. CASE ~Open(x)
  <2>1. rows[x].status \in {"sent", "none"}
    BY <1>a, <1>7 DEF Open, Row
  <2>2. rows'[x] = rows[x]
    BY <1>a, <1>2, <2>1, MarkCounts
  <2>3. QED
    BY <1>5, <2>2
<1>8. QED
  BY <1>a, <1>2, <1>5, <1>6, <1>7

LEMMA RunAttempts ==
    ASSUME OneProcess, BackoffOutlastsHandlers, TypeOK, SentInv, OnceInv, AttemptsInv,
           NEW i \in Instance, RunStep(i) \/ ListError(i)
    PROVE  AttemptsInv'
<1>a. /\ run \in [Instance -> Run]
      /\ RunType
      /\ rows \in [Request -> Row]
      /\ Instance = {i}
      /\ pc' = pc
  BY RunFrame DEF TypeOK, RunType, TableType, OneProcess
<1>1. ASSUME NEW x \in Request, rows' = rows,
             run'[i].todo = run[i].todo \/ run'[i].todo = <<>>
      PROVE  Attempts(x)'
  <2>1. Attempts(x) /\ (HandlerHolds(x)' => HandlerHolds(x))
    BY <1>a DEF AttemptsInv, HandlerHolds
  <2>2. QED
    BY <1>a, <1>1, <2>1, AttemptsFramed
<1>2. ASSUME NEW x \in Request, RecordSentQueued(i)
      PROVE  Attempts(x)'
  <2>1. run[i].todo # <<>> /\ run[i].todo \in Seq(Item)
    BY <1>a, <1>2 DEF RecordSentQueued, RunType, Run
  <2>2. run'[i].todo = Tail(run[i].todo)
    BY <1>a, <1>2, <2>1, RecordedRun DEF RecordSentQueued
  <2>3. \A j \in Instance : \A n \in DOMAIN run'[j].todo :
           \E m \in DOMAIN run[j].todo : run[j].todo[m] = run'[j].todo[n]
    BY <1>a, <2>1, <2>2, LetsGo
  <2>4. rows[x] \in Row /\ DeliveredIffSent(rows[x])
    BY <1>a DEF SentInv, Checked
  <2>5. rows'[x] = rows[x] \/ rows'[x] = MarkedSent(rows[x])
    BY <1>a, <1>2 DEF RecordSentQueued
  <2>6. rows'[x] = rows[x] \/ rows'[x].status \in {"sent", "none"}
    BY <2>4, <2>5, MarkCounts
  <2>7. Attempts(x) /\ (HandlerHolds(x)' => HandlerHolds(x))
    BY <1>a DEF AttemptsInv, HandlerHolds
  <2>8. QED
    BY <2>3, <2>6, <2>7, AttemptsFramed
<1>3. CASE SkipRun(i) \/ FindQueueEmpty(i) \/ ListError(i) \/ Take(i) \/ SendQueued(i) \/ EndRun(i)
  <2>1. rows' = rows
    BY <1>3 DEF SkipRun, FindQueueEmpty, ListError, Take, SendQueued, EndRun, tableVars
  <2>2. run'[i].todo = run[i].todo \/ run'[i].todo = <<>>
    <3>1. CASE SkipRun(i) \/ FindQueueEmpty(i) \/ ListError(i)
      BY <3>1 DEF SkipRun, FindQueueEmpty, ListError
    <3>2. CASE Take(i)
      BY <1>a, <3>2, MovedRun DEF Take
    <3>3. CASE SendQueued(i)
      BY <1>a, <3>3, MovedRun DEF SendQueued, Outcome, RunType
    <3>4. CASE EndRun(i)
      BY <1>a, <3>4 DEF EndRun, RunEnds, NoRun
    <3>5. QED
      BY <1>3, <3>1, <3>2, <3>3, <3>4
  <2>3. QED
    BY <1>1, <2>1, <2>2, RunYoung DEF AttemptsInv
<1>4. QED
  BY <1>2, <1>3, RunYoung, ListedAttempts, RecordedAttempts DEF RunStep, AttemptsInv

-----------------------------------------------------------------------------
LEMMA OthersAttempts ==
    ASSUME TypeOK, AttemptsInv, Purge \/ Tick \/ UNCHANGED vars \/ (\E i \in Instance : Crash(i))
    PROVE  AttemptsInv'
<1>a. /\ run \in [Instance -> Run]
      /\ pc \in [Request -> {"idle", "checked", "repeat", "done"} \cup Delivering]
      /\ rows \in [Request -> Row]
  BY DEF TypeOK, RunType, TableType, HandlerType
<1>1. SUFFICES ASSUME NEW x \in Request
               PROVE  Young(x)' /\ Attempts(x)'
  BY DEF AttemptsInv
<1>b. Young(x) /\ Attempts(x) /\ rows[x] \in Row
  BY <1>a DEF AttemptsInv
<1>2. CASE Purge
  <2>1. /\ pc' = pc /\ run' = run /\ late' = late
        /\ rows'[x] = rows[x] \/ rows'[x].status = "none"
    BY <1>2 DEF Purge, NoRow, handlerVars, dispatchVars
  <2>2. Young(x)'
    BY <1>b, <2>1 DEF Young, HandlerHolds
  <2>3. HandlerHolds(x)' => HandlerHolds(x)
    BY <2>1 DEF HandlerHolds
  <2>4. QED
    BY <1>b, <2>1, <2>2, <2>3, AttemptsFramed
<1>3. CASE Tick
  <2>1. /\ pc' = pc /\ run' = run
        /\ rows'[x] = RowAged(rows[x])
        /\ late = {} /\ late' = Busy
    BY <1>3 DEF Tick, handlerVars
  <2>2. Young(x)'
    <3>1. SUFFICES ASSUME HandlerHolds(x)', rows'[x].status # "none"
                   PROVE  x \in late' /\ rows'[x].age <= 1
      BY DEF Young
    <3>2. HandlerHolds(x) /\ rows[x].status # "none"
      BY <1>b, <2>1, <3>1, AgedChecked DEF HandlerHolds
    <3>3. rows[x].age = 0
      BY <1>b, <2>1, <3>2 DEF Young
    <3>4. x \in late'
      BY <2>1, <3>2 DEF Busy, InFlight, HandlerHolds, Delivering
    <3>5. rows'[x].age = Older(0, AgeCap)
      BY <1>b, <2>1, <3>2, <3>3 DEF RowAged, Row
    <3>6. QED
      BY <3>4, <3>5, RetentionAssumption DEF Older
  <2>3. HandlerHolds(x)' => HandlerHolds(x)
    BY <2>1 DEF HandlerHolds
  <2>4. rows'[x].status = rows[x].status /\ rows'[x].attempts = rows[x].attempts
    BY <1>b, <2>1, AgedCounts
  <2>5. QED
    BY <1>b, <2>1, <2>2, <2>3, <2>4, AttemptsFramed
<1>4. CASE UNCHANGED vars
  <2>1. pc' = pc /\ run' = run /\ late' = late /\ rows' = rows
    BY <1>4 DEF vars, tableVars, handlerVars, dispatchVars
  <2>2. Young(x)'
    BY <1>b, <2>1 DEF Young, HandlerHolds
  <2>3. HandlerHolds(x)' => HandlerHolds(x)
    BY <2>1 DEF HandlerHolds
  <2>4. QED
    BY <1>b, <2>1, <2>2, <2>3, AttemptsFramed
<1>5. ASSUME NEW i \in Instance, Crash(i)
      PROVE  Young(x)' /\ Attempts(x)'
  <2>1. /\ rows' = rows
        /\ pc'[x] = pc[x] \/ pc'[x] = "done"
        /\ run' = [run EXCEPT ![i] = NoRun]
    BY <1>5 DEF Crash, tableVars
  <2>2. pc'[x] \in Delivering => pc'[x] = pc[x] /\ (x \in late' <=> x \in late)
    <3>1. i # x
      BY RequestAssumption
    <3>2. QED
      BY <1>5, <3>1 DEF Crash, Delivering
  <2>3. Young(x)'
    BY <1>b, <2>1, <2>2 DEF Young, HandlerHolds
  <2>4. HandlerHolds(x)' => HandlerHolds(x)
    BY <2>2 DEF HandlerHolds
  <2>5. \A j \in Instance : \A n \in DOMAIN run'[j].todo : n \in DOMAIN run[j].todo
                                          /\ run[j].todo[n] = run'[j].todo[n]
    BY <1>a, <2>1 DEF NoRun
  <2>6. QED
    BY <1>b, <2>1, <2>3, <2>4, <2>5, AttemptsFramed
<1>6. QED
  BY <1>2, <1>3, <1>4, <1>5

LEMMA AttemptsInit == Init => AttemptsInv
<1> SUFFICES ASSUME Init, NEW x \in Request PROVE Young(x) /\ Attempts(x)
  BY DEF AttemptsInv
<1>1. rows[x].status = "none" /\ \A i \in Instance : run[i].todo = <<>>
  BY DEF Init, NoRow, NoRun
<1>2. QED
  BY <1>1 DEF Young, Attempts, Open

LEMMA AttemptsStep ==
    ASSUME OneProcess, BackoffOutlastsHandlers
    PROVE  TypeOK /\ SentInv /\ OnceInv /\ AttemptsInv /\ [Next]_vars => AttemptsInv'
  BY HandlerAttempts, RunAttempts, OthersAttempts DEF Next

\* With one process, a queued row always has an attempt left: the backoff keeps
\* the dispatcher away from a handler's row after its first attempt.
THEOREM QueuedHasAttemptsLeftHolds ==
    ASSUME OneProcess, BackoffOutlastsHandlers
    PROVE  Spec => []QueuedHasAttemptsLeft
<1>1. TypeOK /\ SentInv /\ OnceInv /\ AttemptsInv /\ [Next]_vars => AttemptsInv'
  BY AttemptsStep
<1>2. AttemptsInv => QueuedHasAttemptsLeft
  BY DEF AttemptsInv, Attempts, QueuedHasAttemptsLeft
<1>3. Spec => []OnceInv
  <2>1. TypeOK /\ SentInv /\ OnceInv /\ [Next]_vars => OnceInv'
    BY OnceStep
  <2>2. QED
    BY <2>1, OnceInit, TypeCorrect, SentCorrect, PTL DEF Spec
<1>4. QED
  BY <1>1, <1>2, <1>3, AttemptsInit, TypeCorrect, SentCorrect, PTL DEF Spec
-----------------------------------------------------------------------------
(***************************************************************************)
(* Contact implements Delivery.  Beside what was proved so far, the steps  *)
(* need to know that a message without a row has outlived its key, so that *)
(* none of its key is accepted again; that a run holds only messages that  *)
(* were accepted; and that whoever is still being handled has no answer.   *)
(***************************************************************************)

ExpiredWithKey ==
    \A x \in Request : Kept(x) /\ x \notin Stored => keyAge[KeyOf[x]] = KeyCap

ListedAreKept ==
    \A i \in Instance : \A n \in DOMAIN run[i].todo : Kept(run[i].todo[n].id)

Unanswered ==
    \A r \in Request : pc[r] # "done" => answer[r] = "none" /\ receipt[r] = None

FateInv == ExpiredWithKey /\ ListedAreKept /\ Unanswered

\* A mail goes out only for a message that was accepted.
LEMMA OnlyKeptAreSent ==
    ASSUME TypeOK, KeptInv, ListedAreKept, [Next]_vars,
           NEW x \in Request, mails'[x] # mails[x]
    PROVE  Kept(x)
<1> USE DEF ghostVars
<1>a. mails \in [Request -> Nat]
  BY DEF TypeOK, ObservationType
<1>1. ASSUME NEW r \in Request, Send(r)
      PROVE  Kept(x)
  <2>1. x = r
    BY <1>a, <1>1 DEF Send, Relayed
  <2>2. QED
    BY <1>1, <2>1 DEF Send, KeptInv, Delivering
<1>2. ASSUME NEW i \in Instance, SendQueued(i)
      PROVE  Kept(x)
  <2>1. x = Current(i).id
    BY <1>a, <1>2 DEF SendQueued, Relayed
  <2>2. run[i].todo # <<>>
    BY <1>2 DEF SendQueued, TypeOK, RunType
  <2>3. QED
    BY <2>1, <2>2, CurrentIsHeld DEF TypeOK, ListedAreKept
<1>3. QED
  BY <1>1, <1>2 DEF Next, HandlerStep, RunStep, Floor, Insert, FindExisting, TakeBudget,
     RecordSent, RecordFailure, Refuse, Discard, FloorError, InsertError, FindError,
     SkipRun, ListDeliverable, FindQueueEmpty, ListError, Take, RecordSentQueued,
     RecordFailureQueued, EndRun, Purge, Crash, Tick, vars

\* What is buried was a row.
LEMMA OnlyRowsAreBuried ==
    ASSUME [Next]_vars, NEW x \in Request, x \in buried', x \notin buried
    PROVE  x \in Stored
<1> USE DEF ghostVars
<1>1. CASE Purge
  BY <1>1 DEF Purge, Stored
<1>2. CASE UNCHANGED buried
  BY <1>2
<1>3. QED
  BY <1>1, <1>2 DEF Next, HandlerStep, RunStep, Floor, Insert, FindExisting, TakeBudget, Send,
     RecordSent, RecordFailure, Refuse, Discard, FloorError, InsertError, FindError,
     SkipRun, ListDeliverable, FindQueueEmpty, ListError, Take, SendQueued, RecordSentQueued,
     RecordFailureQueued, EndRun, Crash, Tick, vars

\* A key that is as old as it gets stays so, and a row is purged only then.
LEMMA KeysStayOld ==
    ASSUME TypeOK, [Next]_vars, NEW k \in Key, keyAge[k] = KeyCap
    PROVE  keyAge'[k] = KeyCap
<1> USE DEF tableVars
<1>1. CASE Tick
  BY <1>1, PolicyAssumption DEF Tick, Older, KeyCap
<1>2. CASE UNCHANGED keyAge
  BY <1>2
<1>3. QED
  BY <1>1, <1>2 DEF Next, HandlerStep, RunStep, Floor, Insert, FindExisting, TakeBudget, Send,
     RecordSent, RecordFailure, Refuse, Discard, FloorError, InsertError, FindError,
     SkipRun, ListDeliverable, FindQueueEmpty, ListError, Take, SendQueued, RecordSentQueued,
     RecordFailureQueued, EndRun, Purge, Crash, vars

LEMMA PurgedWithKey ==
    ASSUME TypeOK, KeyInv, NEW x \in Request, Purgeable(rows[x])
    PROVE  keyAge[KeyOf[x]] = KeyCap
<1>1. rows[x] \in Row /\ KeyOf[x] \in Key /\ x \in Stored
  BY RequestAssumption DEF TypeOK, TableType, Purgeable, Stored
<1>2. rows[x].age > Retention /\ rows[x].age \in Nat
  BY <1>1, RetentionAssumption DEF Purgeable, Row
<1>3. keyAge[KeyOf[x]] \in 0..KeyCap
  BY <1>1 DEF TypeOK, TableType
<1>4. rows[x].age <= keyAge[KeyOf[x]] \/ keyAge[KeyOf[x]] = KeyCap
  BY <1>1 DEF KeyInv, RowYoungerThanKey
<1>5. QED
  BY <1>2, <1>3, <1>4, RetentionAssumption, PolicyAssumption DEF KeyCap

LEMMA ExpiredStep ==
    ASSUME TypeOK, KeyInv, SentInv, KeptInv, FateInv, [Next]_vars
    PROVE  ExpiredWithKey'
<1> SUFFICES ASSUME NEW x \in Request, Kept(x)', x \notin Stored'
             PROVE  keyAge'[KeyOf[x]] = KeyCap
  BY DEF ExpiredWithKey
<1>1. KeyOf[x] \in Key /\ rows[x] \in Row /\ RowMoves(x)
  BY RequestAssumption, EveryRowMoves DEF TypeOK, TableType
<1>2. Kept(x)
  BY OnlyKeptAreSent, OnlyRowsAreBuried DEF Kept, FateInv
<1>3. keyAge[KeyOf[x]] = KeyCap
  <2>1. CASE x \notin Stored
    BY <1>2, <2>1 DEF FateInv, ExpiredWithKey
  <2>2. CASE x \in Stored
    <3>1. rows[x].status # "none" /\ rows'[x].status = "none"
      BY <2>2 DEF Stored
    <3>2. Purgeable(rows[x])
      BY <1>1, <3>1, MarkKeepsRow, AgedChecked DEF RowMoves, NewRow
    <3>3. QED
      BY <3>2, PurgedWithKey
  <2>3. QED
    BY <2>1, <2>2
<1>4. QED
  BY <1>1, <1>3, KeysStayOld

\* A run's batch is read off the table or is what is left of it.
LEMMA ListedStep ==
    ASSUME TypeOK, SentInv, ListedAreKept, [Next]_vars
    PROVE  ListedAreKept'
<1> SUFFICES ASSUME NEW i \in Instance, NEW n \in DOMAIN run'[i].todo
             PROVE  Kept(run[i].todo[n].id)'
  BY DEF ListedAreKept
<1>a. run \in [Instance -> Run] /\ run[i].todo \in Seq(Item)
  BY DEF TypeOK, RunType, Run
<1>b. \A x \in Request : Kept(x) => Kept(x)'
  BY KeptStays
<1>c. \A m \in DOMAIN run[i].todo : run[i].todo[m].id \in Request
  <2>1. \A m \in DOMAIN run[i].todo : run[i].todo[m] \in Item
    BY <1>a
  <2>2. QED
    BY <2>1 DEF Item
<1>1. CASE run'[i].todo = run[i].todo
  <2>1. run[i].todo[n].id \in Request /\ Kept(run[i].todo[n].id)
    BY <1>c, <1>1 DEF ListedAreKept
  <2>2. QED
    BY <1>1, <1>b, <2>1
<1>2. CASE run[i].todo # <<>> /\ run'[i].todo = Tail(run[i].todo)
  <2>1. run'[i].todo[n] = run[i].todo[n + 1] /\ n + 1 \in DOMAIN run[i].todo
    BY <1>a, <1>2, TailHolds
  <2>2. run[i].todo[n + 1].id \in Request /\ Kept(run[i].todo[n + 1].id)
    BY <1>c, <2>1 DEF ListedAreKept
  <2>3. QED
    BY <1>b, <2>1, <2>2
<1>3. CASE run'[i].todo = <<>>
  BY <1>3
<1>4. CASE ListDeliverable(i)
  <2>1. PICK s \in Batch : run' = [run EXCEPT ![i] = [NoRun EXCEPT !.pc = "deliver", !.todo = Listed(s)]]
    BY <1>4 DEF ListDeliverable
  <2>2. run'[i].todo = Listed(s)
    BY <1>a, <2>1 DEF NoRun
  <2>3. n \in DOMAIN s /\ run'[i].todo[n].id = s[n] /\ s[n] \in Queue
    BY <2>2 DEF Listed, Batch
  <2>4. s[n] \in Stored /\ s[n] \in Request
    BY <2>3 DEF Queue, Deliverable, Stored
  <2>5. Kept(s[n])'
    BY <1>b, <2>4 DEF Kept
  <2>6. QED
    BY <2>3, <2>5
<1>5. \/ run'[i].todo = run[i].todo
      \/ run[i].todo # <<>> /\ run'[i].todo = Tail(run[i].todo)
      \/ run'[i].todo = <<>>
      \/ ListDeliverable(i)
  <2> USE DEF dispatchVars
  <2>1. CASE UNCHANGED run
    BY <2>1
  <2>2. ASSUME NEW j \in Instance, j # i, RunStep(j) \/ Crash(j)
        PROVE  run'[i] = run[i]
    BY <1>a, <2>2 DEF RunStep, SkipRun, ListDeliverable, FindQueueEmpty, Take, SendQueued,
       RecordSentQueued, RecordFailureQueued, EndRun, RunEnds, Crash
  <2>3. CASE Crash(i) \/ EndRun(i)
    BY <1>a, <2>3 DEF Crash, EndRun, RunEnds, NoRun
  <2>4. CASE RecordSentQueued(i) \/ RecordFailureQueued(i)
    <3>1. run[i].pc \notin {"idle", "deliver"} /\ run[i].todo # <<>>
      BY <2>4 DEF RecordSentQueued, RecordFailureQueued, TypeOK, RunType
    <3>2. \/ run' = [run EXCEPT ![i].pc = "deliver", ![i].todo = Tail(@), ![i].sent = TRUE]
          \/ run' = [run EXCEPT ![i].pc = "deliver", ![i].todo = Tail(@), ![i].failed = TRUE]
      BY <2>4 DEF RecordSentQueued, RecordFailureQueued
    <3>3. QED
      BY <3>1, <3>2, RecordedRun DEF TypeOK
  <2>5. CASE SkipRun(i) \/ FindQueueEmpty(i) \/ Take(i) \/ SendQueued(i)
    <3>1. UNCHANGED run \/ run[i].todo # <<>>
      BY <2>5 DEF SkipRun, FindQueueEmpty, Take, SendQueued, TypeOK, RunType
    <3>2. UNCHANGED run \/ \E to \in {"sending", "accepted", "transient", "permanent"} :
                               run' = [run EXCEPT ![i].pc = to]
      BY <2>5 DEF SkipRun, FindQueueEmpty, Take, SendQueued, Outcome
    <3>3. QED
      BY <3>1, <3>2, MovedRun DEF TypeOK
  <2>6. ASSUME NEW r \in Request, HandlerStep(r) \/ Refuse(r) \/ Discard(r)
                                  \/ FloorError(r) \/ InsertError(r) \/ FindError(r)
        PROVE  UNCHANGED run
    BY <2>6 DEF HandlerStep, Floor, Insert, FindExisting, TakeBudget, Send, RecordSent,
       RecordFailure, Refuse, Discard, FloorError, InsertError, FindError
  <2>7. Purge \/ Tick \/ UNCHANGED vars \/ (\E j \in Instance : ListError(j)) => UNCHANGED run
    BY DEF Purge, Tick, vars, ListError
  <2>8. QED
    BY <2>1, <2>2, <2>3, <2>4, <2>5, <2>6, <2>7 DEF Next, RunStep
<1>6. QED
  BY <1>1, <1>2, <1>3, <1>4, <1>5

LEMMA UnansweredStep == TypeOK /\ Unanswered /\ [Next]_vars => Unanswered'
<1> SUFFICES ASSUME TypeOK, Unanswered, [Next]_vars, NEW r \in Request, pc'[r] # "done"
             PROVE  answer'[r] = "none" /\ receipt'[r] = None
  BY DEF Unanswered
<1> USE DEF handlerVars
<1>a. /\ pc \in [Request -> {"idle", "checked", "repeat", "done"} \cup Delivering]
      /\ answer \in [Request -> {"none", "400", "discarded", "202", "429", "500", "502", "lost"}]
      /\ receipt \in [Request -> Request \cup {None}]
  BY DEF TypeOK, HandlerType
<1>1. CASE UNCHANGED handlerVars
  BY <1>1 DEF Unanswered
<1>2. ASSUME NEW q \in Request, HandlerStep(q) \/ Refuse(q) \/ Discard(q)
                                \/ FloorError(q) \/ InsertError(q) \/ FindError(q)
      PROVE  pc[r] # "done" /\ answer'[r] = answer[r] /\ receipt'[r] = receipt[r]
  BY <1>a, <1>2 DEF HandlerStep, Floor, Insert, FindExisting, TakeBudget, Send, RecordSent,
     RecordFailure, Refuse, Discard, FloorError, InsertError, FindError, Answered, Outcome
<1>3. ASSUME NEW i \in Instance, Crash(i)
      PROVE  pc[r] # "done" /\ answer'[r] = answer[r] /\ receipt'[r] = receipt[r]
  BY <1>3 DEF Crash
<1>4. ASSUME NEW i \in Instance, RunStep(i) \/ ListError(i)
      PROVE  UNCHANGED handlerVars
  BY <1>4 DEF RunStep, SkipRun, ListDeliverable, FindQueueEmpty, ListError, Take, SendQueued,
     RecordSentQueued, RecordFailureQueued, EndRun
<1>5. Purge \/ Tick \/ UNCHANGED vars => UNCHANGED handlerVars
  BY DEF Purge, Tick, vars
<1>6. QED
  BY <1>1, <1>2, <1>3, <1>4, <1>5 DEF Next, Unanswered

LEMMA FateInit == Init => FateInv
<1> SUFFICES ASSUME Init PROVE FateInv
  OBVIOUS
<1>1. \A r \in Request : rows[r].status = "none" /\ mails[r] = 0
  BY DEF Init, NoRow
<1>2. \A i \in Instance : run[i].todo = <<>>
  BY DEF Init, NoRun
<1>3. ExpiredWithKey
  BY <1>1 DEF ExpiredWithKey, Kept, Stored, Init
<1>4. QED
  BY <1>2, <1>3 DEF FateInv, ListedAreKept, Unanswered, Init

LEMMA FateCorrect == Spec => []FateInv
<1>1. TypeOK /\ KeyInv /\ SentInv /\ KeptInv /\ FateInv /\ [Next]_vars => FateInv'
  <2>1. TypeOK /\ KeyInv /\ SentInv /\ KeptInv /\ FateInv /\ [Next]_vars => ExpiredWithKey'
    BY ExpiredStep
  <2>2. TypeOK /\ SentInv /\ ListedAreKept /\ [Next]_vars => ListedAreKept'
    BY ListedStep
  <2>3. QED
    BY <2>1, <2>2, UnansweredStep DEF FateInv
<1>2. QED
  BY <1>1, FateInit, TypeCorrect, KeyCorrect, SentCorrect, KeptCorrect, PTL DEF Spec

Fates == [r \in Request |-> Fate(r)]

Promised == {r \in Request : answer[r] = "502"}

\* Delivery sees a message from its acceptance on.
LEMMA FateIsKept ==
    ASSUME TypeOK, NEW x \in Request
    PROVE  /\ Fate(x) # "new" <=> Kept(x)
           /\ rows[x].status # "none" => Fate(x) = rows[x].status
           /\ Fate(x) \in {"queued", "sent", "failed"} => Fate(x) = rows[x].status
           /\ rows[x].status \in {"none", "queued", "sent", "failed"}
<1>1. rows[x].status \in {"none", "queued", "sent", "failed"}
  BY DEF TypeOK, TableType, Row
<1>2. QED
  BY <1>1 DEF Fate, Kept, Stored

LEMMA FateStands ==
    ASSUME NEW x \in Request, rows'[x].status = rows[x].status, Kept(x)' <=> Kept(x)
    PROVE  Fate(x)' = Fate(x)
  BY DEF Fate, Kept, Stored

LEMMA NothingHappens ==
    ASSUME \A x \in Request : Fate(x)' = Fate(x), UNCHANGED <<mails, receipt>>,
           \A q \in Request : answer'[q] = "502" <=> answer[q] = "502"
    PROVE  UNCHANGED D!vars
<1>1. UNCHANGED <<Fates, Promised>>
  BY DEF Fates, Promised
<1>2. QED
  BY <1>1 DEF D!vars, Fates, Promised

LEMMA OneFateMoves ==
    ASSUME NEW x \in Request, \A y \in Request \ {x} : Fate(y)' = Fate(y)
    PROVE  Fates' = [Fates EXCEPT ![x] = Fate(x)']
  BY DEF Fates

\* The INSERT accepts a message of a key nobody was ever accepted for.
LEMMA InsertIsAccept ==
    ASSUME TypeOK, KeyInv, FateInv, NEW r \in Request, Insert(r) \/ InsertError(r)
    PROVE  D!Accept(r) \/ UNCHANGED D!vars
<1> USE DEF ghostVars
<1>a. /\ pc[r] = "checked" /\ UNCHANGED <<mails, buried, receipt>>
      /\ answer \in [Request -> {"none", "400", "discarded", "202", "429", "500", "502", "lost"}]
      /\ rows \in [Request -> Row]
  BY DEF Insert, InsertError, TypeOK, HandlerType, TableType
<1>b. \A q \in Request : answer'[q] = "502" <=> answer[q] = "502"
  BY <1>a DEF Insert, InsertError, Answered, FateInv, Unanswered
<1>1. CASE UNCHANGED rows
  BY <1>1, <1>a, <1>b, NothingHappens DEF Fate
<1>2. CASE SameKey(r) = {} /\ rows' = [rows EXCEPT ![r] = NewRow]
  <2>1. keyAge[KeyOf[r]] # KeyCap
    BY <1>a, KeyInHand
  <2>2. ASSUME NEW x \in Request, KeyOf[x] = KeyOf[r]
        PROVE  Fate(x) = "new"
    <3>1. x \notin Stored
      BY <1>2, <2>2 DEF SameKey
    <3>2. ~Kept(x)
      BY <2>1, <2>2, <3>1 DEF FateInv, ExpiredWithKey
    <3>3. QED
      BY <3>2, FateIsKept
  <2>3. Fate(r)' = "queued"
    BY <1>2, <1>a DEF Fate, NewRow
  <2>4. \A y \in Request \ {r} : Fate(y)' = Fate(y)
    BY <1>2, <1>a DEF Fate
  <2>5. Fates' = [Fates EXCEPT ![r] = "queued"]
    BY <2>3, <2>4, OneFateMoves
  <2>6. Promised' = Promised
    BY <1>b DEF Promised
  <2>7. \A x \in Request : KeyOf[x] = KeyOf[r] => Fates[x] = "new"
    BY <2>2 DEF Fates
  <2>8. QED
    BY <1>a, <2>5, <2>6, <2>7 DEF D!Accept, Fates, Promised
<1>3. QED
  BY <1>1, <1>2 DEF Insert, InsertError, Inserted

\* A mail.
LEMMA SendIsCarry ==
    ASSUME TypeOK, NEW x \in Request, NEW outcome \in Outcome, Relayed(x, outcome), Kept(x),
           UNCHANGED <<rows, buried, receipt, answer>>
    PROVE  D!Carry(x) \/ UNCHANGED D!vars
<1>a. mails \in [Request -> Nat]
  BY DEF TypeOK, ObservationType
<1>1. \A y \in Request : Fate(y)' = Fate(y)
  <2>1. SUFFICES ASSUME NEW y \in Request PROVE Kept(y)' <=> Kept(y)
    BY FateStands
  <2>2. mails'[y] = mails[y] \/ y = x
    BY <1>a DEF Relayed
  <2>3. mails'[y] >= mails[y]
    BY <1>a DEF Relayed
  <2>4. Kept(y) => Kept(y)'
    BY <1>a, <2>3 DEF Kept, Stored, Relayed
  <2>5. QED
    BY <2>2, <2>4 DEF Kept, Stored
<1>2. CASE mails' = mails
  BY <1>1, <1>2, NothingHappens
<1>3. CASE mails' = [mails EXCEPT ![x] = @ + 1]
  <2>1. UNCHANGED <<Fates, Promised>>
    BY <1>1 DEF Fates, Promised
  <2>2. Fates[x] # "new"
    BY FateIsKept DEF Fates
  <2>3. QED
    BY <1>3, <2>1, <2>2 DEF D!Carry, Fates, Promised
<1>4. QED
  BY <1>2, <1>3 DEF Relayed

\* What an UPDATE does to the fate of its message.
LEMMA MarkIsTurn ==
    ASSUME TypeOK, SentInv, NEW x \in Request, mails[x] >= 1, UNCHANGED <<mails, buried>>,
           rows' = [rows EXCEPT ![x] = MarkedSent(@)]
    PROVE  D!Deliver(x) \/ UNCHANGED Fates
<1>a. rows \in [Request -> Row] /\ DeliveredIffSent(rows[x])
  BY DEF TypeOK, TableType, SentInv, Checked
<1>1. \A y \in Request \ {x} : Fate(y)' = Fate(y)
  BY <1>a DEF Fate
<1>2. CASE rows[x].status = "none"
  <2>1. Fate(x)' = Fate(x)
    BY <1>a, <1>2, MarkKeepsRow DEF Fate
  <2>2. QED
    BY <1>1, <2>1 DEF Fates
<1>3. CASE rows[x].status # "none"
  <2>1. Fate(x)' = "sent" /\ Fate(x) = rows[x].status
    BY <1>a, <1>3, MarkChecked DEF Fate
  <2>2. Fates' = [Fates EXCEPT ![x] = "sent"]
    BY <1>1, <2>1, OneFateMoves
  <2>3. CASE Fate(x) = "sent"
    BY <1>1, <2>1, <2>3 DEF Fates
  <2>4. CASE Fate(x) # "sent"
    <3>1. Fates[x] \in {"queued", "failed"}
      BY <1>3, <2>1, <2>4, FateIsKept DEF Fates
    <3>2. QED
      BY <2>2, <3>1 DEF D!Deliver, Fates
  <2>5. QED
    BY <2>3, <2>4
<1>4. QED
  BY <1>2, <1>3

LEMMA FailureIsTurn ==
    ASSUME TypeOK, SentInv, NEW x \in Request, UNCHANGED <<mails, buried>>,
           NEW v \in {"queued", "failed"},
           rows' = [rows EXCEPT ![x] = MarkedFailed(@, v)]
    PROVE  D!GiveUp(x) \/ D!Reopen(x) \/ UNCHANGED Fates
<1>a. rows \in [Request -> Row] /\ DeliveredIffSent(rows[x])
  BY DEF TypeOK, TableType, SentInv, Checked
<1>b. rows'[x] = MarkedFailed(rows[x], v)
  BY <1>a
<1>1. \A y \in Request \ {x} : Fate(y)' = Fate(y)
  BY <1>a DEF Fate
<1>2. CASE rows[x].status \in {"none", "sent"}
  <2>1. rows'[x].status = rows[x].status
    BY <1>a, <1>b, <1>2, MarkKeepsRow, MarkChecked
  <2>2. Fate(x)' = Fate(x)
    BY <2>1 DEF Fate
  <2>3. QED
    BY <1>1, <2>2 DEF Fates
<1>3. CASE rows[x].status \in {"queued", "failed"}
  <2>1. rows'[x].status \in {v, rows[x].status}
    BY <1>a, <1>b DEF MarkedFailed, Updated, Row
  <2>2. Fate(x) = rows[x].status /\ Fate(x)' \in {v, rows[x].status}
    BY <1>3, <2>1 DEF Fate
  <2>3. Fates' = [Fates EXCEPT ![x] = Fate(x)'] /\ Fates[x] = Fate(x)
    BY <1>1, OneFateMoves DEF Fates
  <2>4. CASE Fate(x)' = Fate(x)
    BY <1>1, <2>4 DEF Fates
  <2>5. CASE Fate(x)' # Fate(x)
    BY <1>3, <2>2, <2>3, <2>5 DEF D!GiveUp, D!Reopen, Fates
  <2>6. QED
    BY <2>4, <2>5
<1>4. QED
  BY <1>2, <1>3, FateIsKept

\* A 202 names an accepted message of the asker's key; whoever is told had no
\* receipt before.
LEMMA ToldIsTell ==
    ASSUME TypeOK, FateInv, NEW p \in Request, NEW x \in Request,
           pc[p] # "done", KeyOf[p] = KeyOf[x], Answered(p, "202"),
           receipt' = [receipt EXCEPT ![p] = x]
    PROVE  D!Tell(x)
<1>1. answer[p] = "none" /\ receipt[p] = None
  BY DEF FateInv, Unanswered
<1>2. answer' = [answer EXCEPT ![p] = "202"]
  BY DEF Answered
<1>3. answer \in [Request -> {"none", "400", "discarded", "202", "429", "500", "502", "lost"}]
  BY DEF TypeOK, HandlerType
<1>4. \A q \in Request : answer'[q] = "502" <=> answer[q] = "502"
  BY <1>1, <1>2, <1>3
<1>5. QED
  BY <1>1, <1>4 DEF D!Tell

\* A 502 is told once.
LEMMA RefusedIsPromise ==
    ASSUME TypeOK, FateInv, NEW r \in Request, pc[r] # "done", Answered(r, "502"),
           UNCHANGED receipt
    PROVE  D!Promise(r)
<1>1. answer[r] = "none"
  BY DEF FateInv, Unanswered
<1>2. answer' = [answer EXCEPT ![r] = "502"]
  BY DEF Answered
<1>3. answer \in [Request -> {"none", "400", "discarded", "202", "429", "500", "502", "lost"}]
  BY DEF TypeOK, HandlerType
<1>4. {q \in Request : answer'[q] = "502"} = {q \in Request : answer[q] = "502"} \cup {r}
  BY <1>2, <1>3
<1>5. QED
  BY <1>1, <1>4 DEF D!Promise

\* Every step of a handler.
LEMMA HandlerImplements ==
    ASSUME TypeOK, KeyInv, SentInv, KeptInv, FateInv, NEW r \in Request,
           \/ HandlerStep(r) \/ Refuse(r) \/ Discard(r)
           \/ FloorError(r) \/ InsertError(r) \/ FindError(r)
    PROVE  [D!Next]_(D!vars)
<1> USE DEF tableVars, ghostVars
<1>a. answer \in [Request -> {"none", "400", "discarded", "202", "429", "500", "502", "lost"}]
  BY DEF TypeOK, HandlerType
<1>b. pc[r] \in Delivering => Fates[r] # "new"
  BY FateIsKept DEF KeptInv, Fates
<1>1. CASE Refuse(r) \/ Discard(r) \/ Floor(r) \/ FloorError(r) \/ FindError(r)
  <2>1. UNCHANGED <<rows, mails, buried, receipt>>
    BY <1>1 DEF Refuse, Discard, Floor, FloorError, FindError
  <2>2. answer' = answer \/ \E a \in {"400", "discarded", "429", "500"} : answer' = [answer EXCEPT ![r] = a]
    BY <1>1 DEF Refuse, Discard, Floor, FloorError, FindError, Answered
  <2>3. answer[r] = "none"
    BY <1>1 DEF Refuse, Discard, Floor, FloorError, FindError, FateInv, Unanswered
  <2>4. \A q \in Request : answer'[q] = "502" <=> answer[q] = "502"
    BY <1>a, <2>2, <2>3
  <2>5. QED
    BY <2>1, <2>4, NothingHappens DEF Fate
<1>2. CASE Insert(r) \/ InsertError(r)
  BY <1>2, InsertIsAccept DEF D!Next
<1>3. CASE FindExisting(r)
  <2>1. PICK x \in SameKey(r) : receipt' = [receipt EXCEPT ![r] = x]
    BY <1>3 DEF FindExisting, KeyInv, FindNeverMisses
  <2>2. x \in Request /\ x \in Stored /\ KeyOf[x] = KeyOf[r] /\ Answered(r, "202") /\ pc[r] # "done"
    BY <1>3, <2>1 DEF FindExisting, SameKey, Stored, KeyInv, FindNeverMisses
  <2>3. D!Tell(x)
    BY <2>1, <2>2, ToldIsTell
  <2>4. Fates[x] # "new"
    BY <2>2, FateIsKept DEF Fates, Kept
  <2>5. UNCHANGED <<Fates, mails>>
    BY <1>3 DEF FindExisting, Fates, Fate
  <2>6. D!Turn(x)
    BY <2>3, <2>4, <2>5 DEF D!Turn, Fates
  <2>7. QED
    BY <2>2, <2>6 DEF D!Next
<1>4. CASE TakeBudget(r)
  <2>1. pc[r] # "done" /\ Fates[r] # "new" /\ UNCHANGED <<Fates, rows, mails, buried>>
    BY <1>4, <1>b DEF TakeBudget, Delivering, Fates, Fate
  <2>2. CASE Answered(r, "202") /\ receipt' = [receipt EXCEPT ![r] = r]
    <3>1. D!Tell(r)
      BY <2>1, <2>2, ToldIsTell
    <3>2. D!Turn(r)
      BY <2>1, <3>1 DEF D!Turn, Fates
    <3>3. QED
      BY <3>2 DEF D!Next
  <2>3. CASE UNCHANGED <<answer, receipt>>
    BY <2>1, <2>3, NothingHappens DEF Fate
  <2>4. QED
    BY <1>4, <2>2, <2>3 DEF TakeBudget
<1>5. CASE Send(r)
  <2>1. PICK outcome \in Outcome : Relayed(r, outcome)
    BY <1>5 DEF Send
  <2>2. Kept(r) /\ UNCHANGED <<rows, buried, receipt, answer>>
    BY <1>5 DEF Send, KeptInv, Delivering
  <2>3. QED
    BY <2>1, <2>2, SendIsCarry DEF D!Next
<1>6. CASE RecordSent(r)
  <2>1. /\ pc[r] # "done" /\ Fates[r] # "new" /\ UNCHANGED <<mails, buried>>
        /\ Answered(r, "202") /\ receipt' = [receipt EXCEPT ![r] = r]
    BY <1>6, <1>b DEF RecordSent, Delivering
  <2>2. D!Tell(r)
    BY <2>1, ToldIsTell
  <2>3. mails[r] >= 1
    BY <1>6 DEF RecordSent, SentInv, MarkersHaveSent, AboutToMark
  <2>4. D!Deliver(r) \/ UNCHANGED Fates
    BY <1>6, <2>1, <2>3, MarkIsTurn DEF RecordSent, Fates, Fate
  <2>5. D!Turn(r)
    BY <2>1, <2>2, <2>4 DEF D!Turn, Fates
  <2>6. QED
    BY <2>5 DEF D!Next
<1>7. CASE RecordFailure(r)
  <2>1. /\ pc[r] # "done" /\ Fates[r] # "new" /\ UNCHANGED <<mails, buried, receipt>>
        /\ Answered(r, "502")
    BY <1>7, <1>b DEF RecordFailure, Delivering
  <2>2. D!Promise(r)
    BY <2>1, RefusedIsPromise
  <2>3. UNCHANGED rows \/ \E v \in {"queued", "failed"} : rows' = [rows EXCEPT ![r] = MarkedFailed(@, v)]
    BY <1>7 DEF RecordFailure, HandlerVerdict
  <2>4. D!GiveUp(r) \/ D!Reopen(r) \/ UNCHANGED Fates
    BY <2>1, <2>3, FailureIsTurn DEF Fates, Fate
  <2>5. D!Turn(r)
    BY <2>1, <2>2, <2>4 DEF D!Turn, Fates
  <2>6. QED
    BY <2>5 DEF D!Next
<1>8. QED
  BY <1>1, <1>2, <1>3, <1>4, <1>5, <1>6, <1>7 DEF HandlerStep

\* A turn of a message that nobody is told of.
LEMMA QuietTurn ==
    ASSUME TypeOK, NEW y \in Request, Kept(y), UNCHANGED <<mails, receipt, answer>>,
           D!Deliver(y) \/ D!GiveUp(y) \/ D!Reopen(y) \/ UNCHANGED Fates
    PROVE  [D!Next]_(D!vars)
<1>1. CASE UNCHANGED Fates
  BY <1>1 DEF D!vars, Fates
<1>2. CASE D!Deliver(y) \/ D!GiveUp(y) \/ D!Reopen(y)
  <2>1. D!Silent /\ Fates[y] # "new"
    BY FateIsKept DEF D!Silent, Fates
  <2>2. D!Turn(y)
    BY <1>2, <2>1 DEF D!Turn, Fates
  <2>3. QED
    BY <2>2 DEF D!Next
<1>3. QED
  BY <1>1, <1>2

\* Every step of a run.
LEMMA RunImplements ==
    ASSUME TypeOK, SentInv, FateInv, NEW i \in Instance, RunStep(i) \/ ListError(i)
    PROVE  [D!Next]_(D!vars)
<1> USE DEF ghostVars, handlerVars, tableVars
<1> DEFINE x == Current(i).id
<1>a. run[i].pc \in {"sending", "accepted", "transient", "permanent"} => x \in Request /\ Kept(x)
  <2>1. SUFFICES ASSUME run[i].pc \in {"sending", "accepted", "transient", "permanent"}
                 PROVE  x \in Request /\ Kept(x)
    OBVIOUS
  <2>2. run[i].todo # <<>> /\ run[i].todo \in Seq(Item)
    BY <2>1 DEF TypeOK, RunType, Run
  <2>3. Current(i) \in Item
    BY <2>2 DEF Current
  <2>4. QED
    BY <2>2, <2>3, CurrentIsHeld DEF FateInv, ListedAreKept, TypeOK, Item
<1>1. CASE UNCHANGED <<rows, mails, buried, receipt, answer>>
  BY <1>1, NothingHappens DEF Fate
<1>2. CASE SendQueued(i)
  <2>1. PICK outcome \in Outcome : Relayed(x, outcome)
    BY <1>2 DEF SendQueued
  <2>2. x \in Request /\ Kept(x) /\ UNCHANGED <<rows, buried, receipt, answer>>
    BY <1>2, <1>a DEF SendQueued
  <2>3. D!Carry(x) \/ UNCHANGED D!vars
    BY <2>1, <2>2, SendIsCarry
  <2>4. QED
    BY <2>2, <2>3 DEF D!Next
<1>3. CASE RecordSentQueued(i)
  <2>1. PICK y \in Request : y = x /\ Kept(y)
    BY <1>3, <1>a DEF RecordSentQueued
  <2>2. UNCHANGED <<mails, buried, receipt, answer>>
    BY <1>3 DEF RecordSentQueued
  <2>3. UNCHANGED rows \/ rows' = [rows EXCEPT ![y] = MarkedSent(@)]
    BY <1>3, <2>1 DEF RecordSentQueued
  <2>4. mails[y] >= 1
    BY <1>3, <2>1 DEF RecordSentQueued, SentInv, MarkersHaveSent, AboutToMark
  <2>5. D!Deliver(y) \/ UNCHANGED Fates
    BY <2>2, <2>3, <2>4, MarkIsTurn DEF Fates, Fate
  <2>6. QED
    BY <2>1, <2>2, <2>5, QuietTurn
<1>4. CASE RecordFailureQueued(i)
  <2>1. PICK y \in Request : y = x /\ Kept(y)
    BY <1>4, <1>a DEF RecordFailureQueued
  <2>2. UNCHANGED <<mails, buried, receipt, answer>>
    BY <1>4 DEF RecordFailureQueued
  <2>3. UNCHANGED rows \/ \E v \in {"queued", "failed"} : rows' = [rows EXCEPT ![y] = MarkedFailed(@, v)]
    BY <1>4, <2>1 DEF RecordFailureQueued, DispatchVerdict
  <2>4. D!GiveUp(y) \/ D!Reopen(y) \/ UNCHANGED Fates
    BY <2>2, <2>3, FailureIsTurn DEF Fates, Fate
  <2>5. QED
    BY <2>1, <2>2, <2>4, QuietTurn
<1>5. QED
  BY <1>1, <1>2, <1>3, <1>4 DEF RunStep, SkipRun, ListDeliverable, FindQueueEmpty, ListError,
     Take, EndRun

\* The purge takes only what is settled.
LEMMA PurgeImplements ==
    ASSUME TypeOK, SentInv, Purge
    PROVE  D!Expire
<1> USE DEF handlerVars
<1> DEFINE gone == {x \in Request : Purgeable(rows[x])}
<1>1. UNCHANGED <<mails, receipt, answer>> /\ gone # {}
  BY DEF Purge
<1>2. \A x \in gone : Fate(x) \in {"sent", "failed"} /\ Fate(x)' = "expired"
  <2>1. SUFFICES ASSUME NEW x \in gone
                 PROVE  Fate(x) \in {"sent", "failed"} /\ Fate(x)' = "expired"
    OBVIOUS
  <2>2. rows[x].status \in {"sent", "failed"} /\ rows'[x] = NoRow
    BY DEF Purge, Purgeable
  <2>3. rows[x].status = "failed" => x \in buried'
    BY DEF Purge
  <2>4. rows[x].status = "sent" => mails'[x] >= 1
    BY <1>1 DEF SentInv, SentMeansRelayTookIt
  <2>5. QED
    BY <2>2, <2>3, <2>4 DEF Fate, NoRow
<1>3. \A x \in Request \ gone : Fate(x)' = Fate(x)
  <2>1. SUFFICES ASSUME NEW x \in Request, ~Purgeable(rows[x])
                 PROVE  Fate(x)' = Fate(x)
    OBVIOUS
  <2>2. rows'[x] = rows[x] /\ (x \in buried' <=> x \in buried)
    BY <2>1 DEF Purge
  <2>3. QED
    BY <1>1, <2>2 DEF Fate
<1>4. Fates' = [x \in Request |-> IF x \in gone THEN "expired" ELSE Fates[x]]
  BY <1>2, <1>3 DEF Fates
<1>5. gone \subseteq D!Settled
  BY <1>2 DEF D!Settled
<1>6. QED
  BY <1>1, <1>4, <1>5 DEF D!Expire, Fates

LEMMA TickImplements == TypeOK /\ Tick => UNCHANGED D!vars
<1> SUFFICES ASSUME TypeOK, Tick PROVE UNCHANGED D!vars
  OBVIOUS
<1>1. UNCHANGED <<mails, buried, receipt, answer>>
  BY DEF Tick, handlerVars, ghostVars
<1>2. \A x \in Request : rows'[x].status = rows[x].status
  BY AgedChecked DEF Tick, TypeOK, TableType
<1>3. QED
  BY <1>1, <1>2, NothingHappens DEF Fate

LEMMA CrashImplements ==
    ASSUME TypeOK, FateInv, NEW i \in Instance, Crash(i)
    PROVE  UNCHANGED D!vars
<1>1. UNCHANGED <<rows, mails, buried, receipt>>
  BY DEF Crash, tableVars
<1>2. \A r \in Request : answer'[r] = answer[r] \/ (pc[r] # "done" /\ answer'[r] = "lost")
  BY DEF Crash, InFlight
<1>3. QED
  BY <1>1, <1>2, NothingHappens DEF Fate, FateInv, Unanswered

\* However many handlers, dispatchers and processes there are, whatever races,
\* fails, crashes or is lost on the way: what happens to a message is what
\* Delivery allows.
THEOREM ContactImplementsDelivery == Spec => ImplementsDelivery
<1>1. Init => D!Init
  <2>1. SUFFICES ASSUME Init PROVE D!Init
    OBVIOUS
  <2>2. \A r \in Request : Fate(r) = "new" /\ answer[r] # "502"
    BY <2>1 DEF Init, NoRow, Fate
  <2>3. mails = [r \in Request |-> 0] /\ receipt = [r \in Request |-> None]
    BY <2>1 DEF Init
  <2>4. QED
    BY <2>2, <2>3 DEF D!Init
<1>2. TypeOK /\ KeyInv /\ SentInv /\ KeptInv /\ FateInv /\ [Next]_vars => [D!Next]_(D!vars)
  <2>1. SUFFICES ASSUME TypeOK, KeyInv, SentInv, KeptInv, FateInv, [Next]_vars
                 PROVE  [D!Next]_(D!vars)
    OBVIOUS
  <2>2. CASE Purge
    BY <2>1, <2>2, PurgeImplements DEF D!Next
  <2>3. CASE UNCHANGED vars
    <3>1. UNCHANGED <<rows, mails, buried, receipt, answer>>
      BY <2>3 DEF vars, tableVars, handlerVars, ghostVars
    <3>2. QED
      BY <3>1, NothingHappens DEF Fate
  <2>4. QED
    BY <2>1, <2>2, <2>3, HandlerImplements, RunImplements, TickImplements, CrashImplements DEF Next
<1>3. QED
  BY <1>1, <1>2, TypeCorrect, KeyCorrect, SentCorrect, KeptCorrect, FateCorrect, PTL
  DEF Spec, ImplementsDelivery, D!Spec
=============================================================================
