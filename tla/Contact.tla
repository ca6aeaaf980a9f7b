------------------------------- MODULE Contact -------------------------------
(***************************************************************************)
(* POST /api/contact and everything behind it: the request handlers        *)
(* (contact.go), the dispatcher that delivers what they could not          *)
(* (dispatch.go), the retention purge (purge.go), the hourly send budget   *)
(* (budget.go) and the table contact_messages they all share               *)
(* (queries/contact.sql, migrations/00006_contact.sql).                    *)
(*                                                                         *)
(* A row is named by the request that inserted it: newID is unique per     *)
(* request, and at most one row carries the idempotency key of a request.  *)
(* Every instance of the API runs handlers and one dispatcher of its own;  *)
(* two instances overlap during a rollout and share nothing but the table  *)
(* and the relay.  No query takes a lock or claims a row, so each database *)
(* statement and each SMTP conversation is one step and anything may       *)
(* happen between two of them.                                             *)
(*                                                                         *)
(* Time is counted in ticks of one minute, the dispatcher's own period,    *)
(* and kept as ages: the code only compares now minus a stored instant     *)
(* with a constant, so each age saturates once no comparison can tell      *)
(* larger values apart.                                                    *)
(***************************************************************************)
EXTENDS Integers, FiniteSets, Sequences

CONSTANTS
    Request,          \* presses of the Send button, each one HTTP request
    Key,              \* idempotency keys: (client_ts, lower(email), message_hash)
    Client,           \* ip_hash buckets
    Instance,         \* processes of the API
    None,             \* no request
    KeyOf,            \* [Request -> Key]
    ClientOf,         \* [Request -> Client]
    HomeOf,           \* [Request -> Instance], the process that handles it
    Unattributed,     \* requests whose client address is not known
    RateLimit,        \* RateLimit
    RateLimitWindow,  \* RateLimitWindow, in ticks
    ClockSkew,        \* maxClockSkew, in ticks
    Retention,        \* retentionWindow, in ticks
    MaxAttempts,      \* maxDeliveryAttempts
    BackoffBase,      \* deliveryBackoffBase, in ticks
    DispatchBatch,    \* dispatchBatch
    BudgetCap,        \* sendBudgetPerHour: the bucket's size ...
    BudgetRefill,     \* ... and what one tick gives back
    BreakerThreshold, \* breakerThreshold
    BreakerCooldown,  \* breakerCooldown, in ticks
    MaxInFlight,      \* bound: requests being handled at the same time
    MaxFaults,        \* bound: crashes and database errors in one behaviour
    AgeCap            \* where the age of a row saturates

ASSUME RequestAssumption ==
    /\ KeyOf \in [Request -> Key]
    /\ ClientOf \in [Request -> Client]
    /\ HomeOf \in [Request -> Instance]
    /\ Unattributed \subseteq Request
    /\ None \notin Request
    /\ Request \cap Instance = {}

ASSUME PolicyAssumption ==
    /\ RateLimit \in Nat \ {0}
    /\ RateLimitWindow \in Nat
    /\ ClockSkew \in Nat
    /\ Retention \in Nat
    /\ MaxAttempts \in Nat \ {0}
    /\ BackoffBase \in Nat
    /\ DispatchBatch \in Nat
    /\ BudgetCap \in Nat
    /\ BudgetRefill \in Nat
    /\ BreakerThreshold \in Nat \ {0}
    /\ BreakerCooldown \in Nat
    /\ MaxInFlight \in Nat
    /\ MaxFaults \in Nat

\* The numbers of policy.go against each other: a row outlives every timestamp
\* that could still be submitted for it, and an age saturates beyond the last
\* comparison made with it.
ASSUME RetentionAssumption ==
    /\ Retention > 2 * ClockSkew
    /\ AgeCap \in Nat
    /\ AgeCap > Retention
    /\ AgeCap >= RateLimitWindow
    /\ AgeCap >= BackoffBase * (2 ^ (MaxAttempts - 1) - 1)

VARIABLES
    (* The table and the processes *)
    rows,      \* contact_messages, by the request that inserted the row
    keyAge,    \* now - client_ts + ClockSkew of each key
    pc,        \* where each request's SubmitContact stands
    answer,    \* what the visitor was told
    receipt,   \* the id in a 202
    run,       \* the dispatcher run of each instance
    due,       \* instances whose dispatch ticker has fired
    breaker,   \* the dispatcher's breaker of each instance
    budget,    \* the send budget of each instance
    late,      \* handlers and runs that have seen one tick go by
    (* Observations: nothing in the program reads these *)
    mails,     \* how often the relay accepted the mail of a row
    unsure,    \* rows whose delivery was lost on the way to the table
    contended, \* rows a dispatcher picked up while somebody else held them
    buried,    \* rows purged as failed
    faults     \* crashes and database errors so far

tableVars == <<rows, keyAge>>
handlerVars == <<pc, answer, receipt>>
dispatchVars == <<run, due, breaker>>
ghostVars == <<mails, unsure, contended, buried>>
vars == <<tableVars, handlerVars, dispatchVars, budget, late, ghostVars, faults>>

B == INSTANCE BreakerOps WITH Threshold <- BreakerThreshold,
                              Cooldown <- BreakerCooldown + 1
-----------------------------------------------------------------------------
(***************************************************************************)
(* The table contact_messages                                              *)
(***************************************************************************)

Row == [status : {"none", "queued", "sent", "failed"},
        attempts : Nat,
        age : 0..AgeCap,
        delivered : BOOLEAN]

NoRow == [status |-> "none", attempts |-> 0, age |-> 0, delivered |-> FALSE]

NewRow == [status |-> "queued", attempts |-> 0, age |-> 0, delivered |-> FALSE]

Stored == {r \in Request : rows[r].status # "none"}

SameKey(r) == {x \in Stored : KeyOf[x] = KeyOf[r]}

\* Mutant: the table without its CHECK.
DeliveryUnchecked(row) == TRUE

\* contact_messages_delivered_iff_sent_ck
DeliveredIffSent(row) == (row.status = "sent") = row.delivered

\* UPDATE ... WHERE id: a missing row is no error, and a new row that fails
\* the CHECK is refused and leaves the old one standing.
Updated(row, new) ==
    IF row.status # "none" /\ DeliveredIffSent(new) THEN new ELSE row

MarkedSent(row) ==
    Updated(row, [row EXCEPT !.status = "sent",
                             !.delivered = TRUE,
                             !.attempts = @ + 1])

MarkedFailed(row, status) ==
    Updated(row, [row EXCEPT !.status = status, !.attempts = @ + 1])

\* Mutants: the purge without its status filter, and with the wrong window.
PurgeableByAge(row) == row.status # "none" /\ row.age > Retention
PurgeableTooSoon(row) == row.status \in {"sent", "failed"} /\ row.age > ClockSkew

\* PurgeContactMessages: the WHERE clause.
Purgeable(row) == row.status \in {"sent", "failed"} /\ row.age > Retention

\* Mutants: the queue without its status filter, and one attempt short.
DeliverableAnyStatus(row) ==
    /\ row.status # "none"
    /\ row.attempts < MaxAttempts
    /\ row.age >= BackoffBase * (2 ^ row.attempts - 1)
DeliverableOneShort(row) ==
    /\ row.status = "queued"
    /\ row.attempts + 1 < MaxAttempts
    /\ row.age >= BackoffBase * (2 ^ row.attempts - 1)

\* ListDeliverableContactMessages: the WHERE clause.
Deliverable(row) ==
    /\ row.status = "queued"
    /\ row.attempts < MaxAttempts
    /\ row.age >= BackoffBase * (2 ^ row.attempts - 1)

Queue == {r \in Request : Deliverable(rows[r])}

\* CountRecentContactMessages: the WHERE clause.
Recent(c) == {r \in Stored : ClientOf[r] = c /\ rows[r].age < RateLimitWindow}

\* Mutant: the wait is measured from the newest message.
RetryAfterNewest(c) ==
    CHOOSE w \in 0..RateLimitWindow :
        \E newest \in Recent(c) :
            /\ \A r \in Recent(c) : rows[r].age >= rows[newest].age
            /\ w = RateLimitWindow - rows[newest].age

\* overLimit: the window frees when the oldest message in it falls out.
RetryAfter(c) ==
    CHOOSE w \in 0..RateLimitWindow :
        \E oldest \in Recent(c) :
            /\ \A r \in Recent(c) : rows[r].age <= rows[oldest].age
            /\ w = RateLimitWindow - rows[oldest].age
-----------------------------------------------------------------------------
(***************************************************************************)
(* Who is doing what                                                       *)
(***************************************************************************)

\* What ListDeliverableContactMessages hands the run of each row.
Item == [id : Request, attempts : Nat]

Run == [pc : {"idle", "deliver", "sending", "accepted", "transient", "permanent"},
        todo : Seq(Item),
        sent : BOOLEAN,
        failed : BOOLEAN]

NoRun == [pc |-> "idle", todo |-> <<>>, sent |-> FALSE, failed |-> FALSE]

Current(i) == Head(run[i].todo)

Delivering == {"stored", "sending", "accepted", "transient", "permanent"}

InFlight(r) == pc[r] \notin {"idle", "done"}

Busy == {r \in Request : InFlight(r)} \cup {i \in Instance : run[i].pc # "idle"}

HandlerHolds(id) == pc[id] \in Delivering

RunHolds(i, id) == \E n \in DOMAIN run[i].todo : run[i].todo[n].id = id

Fault == faults < MaxFaults /\ faults' = faults + 1

-----------------------------------------------------------------------------
(***************************************************************************)
(* SubmitContact: one request, statement by statement                      *)
(***************************************************************************)

\* validate: |now - client_ts| <= maxClockSkew.
Plausible(r) == keyAge[KeyOf[r]] <= 2 * ClockSkew

KeyCap == 2 * ClockSkew + 2

Answered(r, a) ==
    /\ pc' = [pc EXCEPT ![r] = "done"]
    /\ answer' = [answer EXCEPT ![r] = a]
    /\ late' = late \ {r}

\* A foreign origin or an invalid body.
Refuse(r) ==
    /\ pc[r] = "idle"
    /\ Answered(r, "400")
    /\ UNCHANGED <<tableVars, receipt, dispatchVars, budget, ghostVars, faults>>

\* The honeypot or the dwell floor: a receipt that leads nowhere.
Discard(r) ==
    /\ pc[r] = "idle"
    /\ Answered(r, "discarded")
    /\ UNCHANGED <<tableVars, receipt, dispatchVars, budget, ghostVars, faults>>

\* Mutant: one message too many.
OverLimitOffByOne(r) ==
    r \notin Unattributed /\ Cardinality(Recent(ClientOf[r])) > RateLimit

OverLimit(r) ==
    r \notin Unattributed /\ Cardinality(Recent(ClientOf[r])) >= RateLimit

HasRoom == Cardinality({r \in Request : InFlight(r)}) < MaxInFlight

\* The rate-limit floor.
Floor(r) ==
    /\ pc[r] = "idle"
    /\ Plausible(r)
    /\ HasRoom
    /\ IF OverLimit(r)
       THEN Answered(r, "429")
       ELSE /\ pc' = [pc EXCEPT ![r] = "checked"]
            /\ UNCHANGED <<answer, late>>
    /\ UNCHANGED <<tableVars, receipt, dispatchVars, budget, ghostVars, faults>>

FloorError(r) ==
    /\ pc[r] = "idle"
    /\ Plausible(r)
    /\ r \notin Unattributed
    /\ HasRoom
    /\ Fault
    /\ Answered(r, "500")
    /\ UNCHANGED <<tableVars, receipt, dispatchVars, budget, ghostVars>>

\* Mutant: the INSERT without the unique index on the key.
InsertedAnyway(r) == [rows EXCEPT ![r] = NewRow]

\* INSERT ... ON CONFLICT DO NOTHING.
Inserted(r) == IF SameKey(r) = {} THEN [rows EXCEPT ![r] = NewRow] ELSE rows

Insert(r) ==
    /\ pc[r] = "checked"
    /\ rows' = Inserted(r)
    /\ pc' = [pc EXCEPT ![r] = IF SameKey(r) = {} THEN "stored" ELSE "repeat"]
    /\ UNCHANGED <<keyAge, answer, receipt, dispatchVars, budget, late,
                   ghostVars, faults>>

\* The statement reports an error; it may have committed all the same.
InsertError(r) ==
    /\ pc[r] = "checked"
    /\ Fault
    /\ rows' \in {rows, Inserted(r)}
    /\ Answered(r, "500")
    /\ UNCHANGED <<keyAge, receipt, dispatchVars, budget, ghostVars>>

\* A repeat is told the id of the row that is already there.
FindExisting(r) ==
    /\ pc[r] = "repeat"
    /\ IF SameKey(r) = {}
       THEN /\ Answered(r, "500")
            /\ UNCHANGED receipt
       ELSE /\ Answered(r, "202")
            /\ \E x \in SameKey(r) : receipt' = [receipt EXCEPT ![r] = x]
    /\ UNCHANGED <<tableVars, dispatchVars, budget, ghostVars, faults>>

FindError(r) ==
    /\ pc[r] = "repeat"
    /\ Fault
    /\ Answered(r, "500")
    /\ UNCHANGED <<tableVars, receipt, dispatchVars, budget, ghostVars>>

\* No token: the row stays queued and the visitor is told it was accepted.
TakeBudget(r) ==
    /\ pc[r] = "stored"
    /\ IF budget[HomeOf[r]] < 1
       THEN /\ Answered(r, "202")
            /\ receipt' = [receipt EXCEPT ![r] = r]
            /\ UNCHANGED budget
       ELSE /\ budget' = [budget EXCEPT ![HomeOf[r]] = @ - 1]
            /\ pc' = [pc EXCEPT ![r] = "sending"]
            /\ UNCHANGED <<answer, receipt, late>>
    /\ UNCHANGED <<tableVars, dispatchVars, ghostVars, faults>>

\* mail.Sender.Send.  The relay may have taken a mail it is not known to have
\* taken: the connection drops, or the request ends, after the last byte.
Relayed(id, outcome) ==
    \E took \in BOOLEAN :
        /\ outcome = "accepted" => took
        /\ mails' = IF took THEN [mails EXCEPT ![id] = @ + 1] ELSE mails
        /\ unsure' = IF took /\ outcome # "accepted" THEN unsure \cup {id} ELSE unsure

Outcome == {"accepted", "transient", "permanent"}

Send(r) ==
    /\ pc[r] = "sending"
    /\ \E outcome \in Outcome :
           /\ Relayed(r, outcome)
           /\ pc' = [pc EXCEPT ![r] = outcome]
    /\ UNCHANGED <<tableVars, answer, receipt, dispatchVars, budget, late,
                   contended, buried, faults>>

\* 202 whether or not the row could be marked.
RecordSent(r) ==
    /\ pc[r] = "accepted"
    /\ \/ /\ rows' = [rows EXCEPT ![r] = MarkedSent(@)]
          /\ UNCHANGED <<unsure, faults>>
       \/ /\ Fault
          /\ unsure' = unsure \cup {r}
          /\ UNCHANGED rows
    /\ Answered(r, "202")
    /\ receipt' = [receipt EXCEPT ![r] = r]
    /\ UNCHANGED <<keyAge, dispatchVars, budget, mails, contended, buried>>

\* markFailed: only a permanent refusal settles the row.
HandlerVerdict(outcome) == IF outcome = "permanent" THEN "failed" ELSE "queued"

RecordFailure(r) ==
    /\ pc[r] \in {"transient", "permanent"}
    /\ \/ /\ rows' = [rows EXCEPT ![r] = MarkedFailed(@, HandlerVerdict(pc[r]))]
          /\ UNCHANGED faults
       \/ /\ Fault
          /\ UNCHANGED rows
    /\ Answered(r, "502")
    /\ UNCHANGED <<keyAge, receipt, dispatchVars, budget, ghostVars>>

-----------------------------------------------------------------------------
(***************************************************************************)
(* Dispatcher: runOnce, deliver, send and markFailed                       *)
(***************************************************************************)

\* ORDER BY received_at LIMIT dispatchBatch.  Rows received in the same tick
\* may come in either order.
Batch == UNION {[1..n -> Queue] : n \in 1..DispatchBatch}

OldestFirst(s) ==
    /\ \A m, n \in DOMAIN s : m < n => s[m] # s[n] /\ rows[s[m]].age >= rows[s[n]].age
    /\ \A r \in Queue \ {s[n] : n \in DOMAIN s} :
          /\ Len(s) = DispatchBatch
          /\ \A n \in DOMAIN s : rows[s[n]].age >= rows[r].age

Listed(s) == [n \in DOMAIN s |-> [id |-> s[n], attempts |-> rows[s[n]].attempts]]

HeldElsewhere(i, id) ==
    HandlerHolds(id) \/ \E j \in Instance \ {i} : RunHolds(j, id)

\* Where a run stops, whatever stopped it.
RunEnds(i) ==
    /\ run' = [run EXCEPT ![i] = NoRun]
    /\ late' = late \ {i}

\* openedAt is stamped some seconds after the tick it belongs to: a cooldown of
\* ticks later it may have passed or not, one more tick later it has.
MayStart(b) == B!Allows(b) \/ b.since = BreakerCooldown

\* The breaker is open: the tick passes.
SkipRun(i) ==
    /\ run[i].pc = "idle"
    /\ i \in due
    /\ ~B!Allows(breaker[i])
    /\ due' = due \ {i}
    /\ UNCHANGED <<tableVars, handlerVars, run, breaker, budget, late, ghostVars, faults>>

Starts(i) ==
    /\ run[i].pc = "idle"
    /\ i \in due
    /\ MayStart(breaker[i])
    /\ due' = due \ {i}
    /\ breaker' = [breaker EXCEPT ![i] = B!Probed(@)]

\* The queue is read; nothing marks its rows as taken.
ListDeliverable(i) ==
    /\ Starts(i)
    /\ \E s \in Batch :
           /\ OldestFirst(s)
           /\ run' = [run EXCEPT ![i] = [NoRun EXCEPT !.pc = "deliver", !.todo = Listed(s)]]
           /\ contended' = contended \cup
                 {id \in {s[n] : n \in DOMAIN s} : HeldElsewhere(i, id)}
    /\ UNCHANGED <<tableVars, handlerVars, budget, late, mails, unsure, buried, faults>>

\* An empty queue returns without a word to the breaker ...
FindQueueEmpty(i) ==
    /\ Starts(i)
    /\ Queue = {}
    /\ UNCHANGED <<tableVars, handlerVars, run, budget, late, ghostVars, faults>>

\* ... and so does a queue that cannot be read.
ListError(i) ==
    /\ Starts(i)
    /\ Fault
    /\ UNCHANGED <<tableVars, handlerVars, run, budget, late, ghostVars>>

\* deliver: the next row is paid for, and its conversation with the relay begins.
Take(i) ==
    /\ run[i].pc = "deliver"
    /\ run[i].todo # <<>>
    /\ budget[i] >= 1
    /\ budget' = [budget EXCEPT ![i] = @ - 1]
    /\ run' = [run EXCEPT ![i].pc = "sending"]
    /\ UNCHANGED <<tableVars, handlerVars, due, breaker, late, ghostVars, faults>>

SendQueued(i) ==
    /\ run[i].pc = "sending"
    /\ \E outcome \in Outcome :
           /\ Relayed(Current(i).id, outcome)
           /\ run' = [run EXCEPT ![i].pc = outcome]
    /\ UNCHANGED <<tableVars, handlerVars, due, breaker, budget, late,
                   contended, buried, faults>>

RecordSentQueued(i) ==
    /\ run[i].pc = "accepted"
    /\ LET id == Current(i).id
       IN  \/ /\ rows' = [rows EXCEPT ![id] = MarkedSent(@)]
              /\ UNCHANGED <<unsure, faults>>
           \/ /\ Fault
              /\ unsure' = unsure \cup {id}
              /\ UNCHANGED rows
    /\ run' = [run EXCEPT ![i].pc = "deliver", ![i].todo = Tail(@), ![i].sent = TRUE]
    /\ UNCHANGED <<keyAge, handlerVars, due, breaker, budget, late, mails,
                   contended, buried>>

\* Mutant: the attempt just made is not counted.
DispatchVerdictOneLate(outcome, attempts) ==
    IF outcome = "permanent" \/ attempts >= MaxAttempts THEN "failed" ELSE "queued"

\* markFailed: the verdict counts from the attempts the run read, not from
\* the row.
DispatchVerdict(outcome, attempts) ==
    IF outcome = "permanent" \/ attempts + 1 >= MaxAttempts THEN "failed" ELSE "queued"

RecordFailureQueued(i) ==
    /\ run[i].pc \in {"transient", "permanent"}
    /\ LET item == Current(i)
           verdict == DispatchVerdict(run[i].pc, item.attempts)
       IN  \/ /\ rows' = [rows EXCEPT ![item.id] = MarkedFailed(@, verdict)]
              /\ UNCHANGED faults
           \/ /\ Fault
              /\ UNCHANGED rows
    /\ run' = [run EXCEPT ![i].pc = "deliver", ![i].todo = Tail(@), ![i].failed = TRUE]
    /\ UNCHANGED <<keyAge, handlerVars, due, breaker, budget, late, ghostVars>>

\* The breaker counts runs: one delivery is a success, whatever else failed.
RunVerdict(b, sent, failed) ==
    IF sent THEN B!AfterSuccess(b) ELSE IF failed THEN B!AfterFailure(b) ELSE b

\* The batch is done, the budget is spent, or the run's deadline has passed.
EndRun(i) ==
    /\ run[i].pc = "deliver"
    /\ run[i].todo = <<>> \/ budget[i] < 1 \/ run[i].sent \/ run[i].failed
    /\ breaker' = [breaker EXCEPT ![i] = RunVerdict(@, run[i].sent, run[i].failed)]
    /\ RunEnds(i)
    /\ UNCHANGED <<tableVars, handlerVars, due, budget, ghostVars, faults>>

-----------------------------------------------------------------------------
(***************************************************************************)
(* The purge, the clock, and a process that dies                           *)
(***************************************************************************)

Purge ==
    /\ \E r \in Request : Purgeable(rows[r])
    /\ rows' = [r \in Request |-> IF Purgeable(rows[r]) THEN NoRow ELSE rows[r]]
    /\ buried' = buried \cup
         {r \in Request : Purgeable(rows[r]) /\ rows[r].status = "failed"}
    /\ UNCHANGED <<keyAge, handlerVars, dispatchVars, budget, late, mails, unsure,
                   contended, faults>>

\* A process is killed, or stops, and is started again.  Its budget is full,
\* its breaker closed, and its dispatcher runs at once.
Crash(i) ==
    LET lost == {r \in Request : HomeOf[r] = i /\ InFlight(r)}
        sentByHandler == {r \in lost : pc[r] = "accepted"}
        sentByRun == IF run[i].pc = "accepted" THEN {Current(i).id} ELSE {}
    IN  /\ Fault
        /\ pc' = [r \in Request |-> IF r \in lost THEN "done" ELSE pc[r]]
        /\ answer' = [r \in Request |-> IF r \in lost THEN "lost" ELSE answer[r]]
        /\ run' = [run EXCEPT ![i] = NoRun]
        /\ due' = due \cup {i}
        /\ breaker' = [breaker EXCEPT ![i] = B!ClosedBreaker]
        /\ budget' = [budget EXCEPT ![i] = BudgetCap]
        /\ late' = late \ (lost \cup {i})
        /\ unsure' = unsure \cup sentByHandler \cup sentByRun
        /\ UNCHANGED <<tableVars, receipt, mails, contended, buried>>

Older(age, cap) == IF age < cap THEN age + 1 ELSE cap

RowAged(row) == IF row.status = "none" THEN row ELSE [row EXCEPT !.age = Older(@, AgeCap)]

\* Mutant: the bucket has no size.
RefilledUncapped(tokens) == tokens + BudgetRefill

Refilled(tokens) ==
    IF tokens + BudgetRefill < BudgetCap THEN tokens + BudgetRefill ELSE BudgetCap

\* One minute.  A handler ends within twenty seconds and a run within fifty
\* (dispatchTimeout, REQUEST_TIMEOUT, bookkeepingTimeout), so none sees the
\* clock tick twice.
Tick ==
    /\ late = {}
    /\ late' = Busy
    /\ rows' = [r \in Request |-> RowAged(rows[r])]
    /\ keyAge' = [k \in Key |-> Older(keyAge[k], KeyCap)]
    /\ budget' = [i \in Instance |-> Refilled(budget[i])]
    /\ breaker' = [i \in Instance |-> B!BreakerAged(breaker[i])]
    /\ due' = Instance
    /\ UNCHANGED <<handlerVars, run, ghostVars, faults>>

-----------------------------------------------------------------------------
Init ==
    /\ rows = [r \in Request |-> NoRow]
    /\ keyAge = [k \in Key |-> 0]
    /\ pc = [r \in Request |-> "idle"]
    /\ answer = [r \in Request |-> "none"]
    /\ receipt = [r \in Request |-> None]
    /\ run = [i \in Instance |-> NoRun]
    /\ due = Instance
    /\ breaker = [i \in Instance |-> B!ClosedBreaker]
    /\ budget = [i \in Instance |-> BudgetCap]
    /\ late = {}
    /\ mails = [r \in Request |-> 0]
    /\ unsure = {}
    /\ contended = {}
    /\ buried = {}
    /\ faults = 0

HandlerStep(r) ==
    \/ Floor(r) \/ Insert(r) \/ FindExisting(r) \/ TakeBudget(r)
    \/ Send(r) \/ RecordSent(r) \/ RecordFailure(r)

RunStep(i) ==
    \/ SkipRun(i) \/ ListDeliverable(i) \/ FindQueueEmpty(i)
    \/ Take(i) \/ SendQueued(i) \/ RecordSentQueued(i)
    \/ RecordFailureQueued(i) \/ EndRun(i)

Next ==
    \/ \E r \in Request :
          HandlerStep(r) \/ Refuse(r) \/ Discard(r)
          \/ FloorError(r) \/ InsertError(r) \/ FindError(r)
    \/ \E i \in Instance : RunStep(i) \/ ListError(i) \/ Crash(i)
    \/ Purge
    \/ Tick

Spec == Init /\ [][Next]_vars

\* What has begun goes on: handlers and runs are goroutines that take their
\* next step, the clock advances, the purge comes round.  Nobody has to press
\* the button.
Fairness ==
    /\ \A r \in Request : WF_vars(InFlight(r) /\ HandlerStep(r))
    /\ \A i \in Instance : WF_vars(RunStep(i))
    /\ WF_vars(Purge)
    /\ WF_vars(Tick)

FairSpec == Spec /\ Fairness

-----------------------------------------------------------------------------
(***************************************************************************)
(* What holds                                                              *)
(***************************************************************************)

\* Every variable has its type and a run that is sending has a row; the ages,
\* budgets and breakers stay in the ranges the code's comparisons tell apart.
TableType ==
    /\ rows \in [Request -> Row]
    /\ keyAge \in [Key -> 0..KeyCap]

HandlerType ==
    /\ pc \in [Request -> {"idle", "checked", "repeat", "done"} \cup Delivering]
    /\ answer \in [Request -> {"none", "400", "discarded", "202", "429", "500", "502", "lost"}]
    /\ receipt \in [Request -> Request \cup {None}]

RunType ==
    /\ run \in [Instance -> Run]
    /\ \A i \in Instance : run[i].pc \notin {"idle", "deliver"} => run[i].todo # <<>>

ProcessType ==
    /\ due \subseteq Instance
    /\ breaker \in [Instance -> B!BreakerState]
    /\ budget \in [Instance -> 0..BudgetCap]
    /\ late \subseteq Request \cup Instance

ObservationType ==
    /\ mails \in [Request -> Nat]
    /\ unsure \subseteq Request
    /\ contended \subseteq Request
    /\ buried \subseteq Request
    /\ faults \in 0..MaxFaults

TypeOK == TableType /\ HandlerType /\ RunType /\ ProcessType /\ ObservationType

\* A row says 'sent' only if the relay took its mail (MarkContactMessageSent
\* runs on no other path), and only then does it carry a delivery time.
SentMeansRelayTookIt ==
    \A r \in Request : rows[r].status = "sent" => mails[r] >= 1 /\ rows[r].delivered

\* A message reaches the inbox twice only for one of two reasons: the relay
\* took it and the table never heard (a crash, a failed UPDATE, a conversation
\* that broke off late), or a dispatcher read the row while another process or
\* the row's own handler was still delivering it.  Neither a retry, nor the
\* counter, nor a repeat of the request is a third.
DuplicateIsExplained ==
    \A r \in Request : mails[r] > 1 => r \in unsure \cup contended

\* A message the visitor was told about, by a 202 or by a 502 that promises a
\* retry, is in the table, in the inbox, or was given up on and expired: no
\* crash, purge or race loses it while it is owed.
Kept(id) == id \in Stored \/ mails[id] >= 1 \/ id \in buried

AcceptedIsKept ==
    \A r \in Request :
        /\ receipt[r] # None => Kept(receipt[r])
        /\ answer[r] = "502" => Kept(r)

\* Whoever lost the INSERT to an identical submission finds the row: the
\* purge cannot take it between the two statements, because a row outlives
\* every client timestamp that can still be submitted.
FindNeverMisses ==
    \A r \in Request : pc[r] = "repeat" => SameKey(r) # {}

\* Two presses with one idempotency key are given one receipt, however far
\* apart they arrive and whatever happened to the row in between.
ReceiptStable ==
    \A p, q \in Request :
        /\ KeyOf[p] = KeyOf[q]
        /\ receipt[p] # None
        /\ receipt[q] # None
        => receipt[p] = receipt[q]

\* A delivered row is never put back into the queue or declared failed, not
\* even by a slower process that recorded its own failed attempt afterwards;
\* it only ever expires (contact_messages_delivered_iff_sent_ck).
SentIsFinal ==
    [][\A r \in Request :
          rows[r].status = "sent" => rows'[r].status \in {"sent", "none"}]_vars

\* With one process: a row still 'queued' has attempts left, so the dispatcher
\* will look at it again.  The counter and the verdict come from different
\* reads; that they agree takes the backoff, which keeps the dispatcher away
\* from a row until its handler has recorded its own attempt.
QueuedHasAttemptsLeft ==
    \A r \in Request : rows[r].status = "queued" => rows[r].attempts < MaxAttempts

\* The floor counts and the INSERT follows, so requests handled at the same
\* time do not see each other: a client can have as many rows too many inside
\* the window as it has requests racing, and never more.
OvershootIsBounded ==
    \A c \in Client :
        Cardinality({r \in Recent(c) : r \notin Unattributed})
            <= RateLimit - 1 + MaxInFlight

\* A 429 never names a moment at which the client would have been let in
\* earlier, and unless racing requests have overfilled the window it names the
\* first moment at which it is let in.
StillRecentAfter(c, w) == {r \in Recent(c) : rows[r].age + w < RateLimitWindow}

RetryAfterIsExact ==
    [][\A r \in Request :
          answer'[r] = "429" /\ answer[r] # "429" =>
              LET c == ClientOf[r]
                  w == RetryAfter(c)
              IN  /\ w >= 1
                  /\ Cardinality(StillRecentAfter(c, w - 1)) >= RateLimit
                  /\ Cardinality(Recent(c)) = RateLimit =>
                        Cardinality(StillRecentAfter(c, w)) < RateLimit]_vars

\* With one process, every queued message is in the end delivered or given up
\* on: the budget refills, the breaker lets a probe through, the attempts run
\* out.
QueuedIsSettled ==
    \A r \in Request : rows[r].status = "queued" ~> rows[r].status # "queued"

\* What has become of a message: what its row says and, of one without a row,
\* whether it ever had one.
Fate(r) ==
    IF rows[r].status # "none" THEN rows[r].status
    ELSE IF mails[r] >= 1 \/ r \in buried THEN "expired" ELSE "new"

D == INSTANCE Delivery WITH
         Message <- Request,
         Nobody <- None,
         fate <- [r \in Request |-> Fate(r)],
         told <- receipt,
         promised <- {r \in Request : answer[r] = "502"}

\* Handlers, dispatchers, purge, crashes and lost answers together do to a
\* message what Delivery allows and nothing else: one message of a key is ever
\* accepted, delivered means taken, a refusal is never told as a delivery, and
\* nothing expires while it is owed.
ImplementsDelivery == D!Spec

-----------------------------------------------------------------------------
(***************************************************************************)
(* What the documents say and the code does not do                         *)
(***************************************************************************)

\* "Repeating the same ts + email + message delivers once" (contract/openapi.yaml),
\* "one button press, one mail" (contact.go): without a lost answer from the
\* relay or a lost UPDATE, no message is mailed twice.
OneMailPerMessage ==
    \A r \in Request : mails[r] > 1 => r \in unsure
=============================================================================
