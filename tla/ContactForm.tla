----------------------------- MODULE ContactForm -----------------------------
(***************************************************************************)
(* The contact form in the browser (web/components/contact/ContactForm.tsx *)
(* with lib/contact, lib/api/post.ts, lib/clock.ts and lib/state/retry.ts) *)
(* in front of what answers it: the network, the proxy, the token bucket   *)
(* and POST /api/contact.  Contact looks at the other side in full.        *)
(*                                                                         *)
(* A press is one request.  It is named by its number, which stands for    *)
(* the fresh `ts` of its body.  A request the browser gave up on may still *)
(* be on its way and may still be stored.                                  *)
(*                                                                         *)
(* Two clocks never meet in the code and are kept apart here: the dwell is *)
(* in half milliseconds, because timers wake early by a fraction of one,   *)
(* the wait of a 429 in Sub parts of a second, because both sides round to *)
(* seconds in their own way.                                               *)
(***************************************************************************)
EXTENDS ContactRules, FiniteSets

CONSTANTS
    Drafts,      \* what a visitor may have typed
    Compared,    \* drafts on which the two validators are compared
    Blank,       \* EMPTY
    MaxPress,    \* bound: requests one visitor sends
    MinDwell,    \* MIN_DWELL_MS and minDwell, in milliseconds
    Attempts,    \* how often the dwell is measured again
    RateLimit,   \* contact.RateLimit
    Window,      \* contact.RateLimitWindow, in seconds
    Sub,         \* parts of a second
    MaxRetry     \* bound: the longest wait, in seconds, of the token bucket

ASSUME FormAssumption ==
    /\ Blank \in Drafts
    /\ \A d \in Drafts \cup Compared :
                         /\ {d.name, d.email, d.message} \subseteq Text
                         /\ d.shape \in Shape
    /\ PageReasons(Blank).message # "ok"
    /\ MaxPress \in Nat /\ MinDwell \in Nat \ {0} /\ Attempts \in Nat
    /\ RateLimit \in Nat \ {0} /\ Window \in Nat \ {0}
    /\ Sub \in Nat \ {0} /\ MaxRetry \in Nat \ {0} /\ MaxRetry >= Window
    /\ Attempts >= 2

VARIABLES
    (* ContactForm's state *)
    draft, honeypot, invalid, phase, receipt, answer, left, sentBody,
    typed,      \* clock # null
    elapsed,    \* performance.now() - openedAt, in half milliseconds
    (* submit while it is under way: what its closure holds *)
    attempt,    \* the dwell loop's counter
    trap,       \* the honeypot as it was when the button was pressed
    presses,    \* requests sent; the last one's `ts`
    (* lib/clock.ts *)
    frac,       \* Date.now() modulo one second, in parts
    lag,        \* seconds the drawn second hand is behind
    (* The other side *)
    rows,       \* age of the row each press left, or NoRow
    wire,       \* what became of each press's request
    bodies,     \* its body
    reply,      \* what the other side answered it
    skewed,     \* this computer's clock is more than maxClockSkew off
    foreign,    \* the api does not list this page's origin
    touched     \* observation: the hidden field changed since the button was pressed

formVars == <<draft, honeypot, invalid, phase, receipt, answer, left, sentBody, typed,
              elapsed, attempt, trap, presses, touched>>
clockVars == <<frac, lag>>
serverVars == <<rows, wire, bodies, reply>>
worldVars == <<skewed, foreign>>
vars == <<formVars, clockVars, serverVars, worldVars>>

Press == 1..MaxPress
None == 0               \* null: no press, no row's id
NoWait == -1            \* freeAt = null, Retry-After not sent
NoRow == -1
AgeCap == Window * Sub
DwellCap == 2 * MinDwell

NoBody == [ts |-> None, company |-> FALSE, dwell |-> 0, draft |-> Blank]
NoAnswer == [of |-> None, status |-> -1]
NoReply == [status |-> 0, params |-> {}, id |-> None, retry |-> NoWait, by |-> "none", oldest |-> None]

Phases == {"rest", "invalid", "dwelling", "awaiting", "accepted", "failed"}
Statuses == {0, 202, 400, 404, 429, 500, 502}

TypeOK ==
    /\ draft \in Drafts /\ honeypot \in BOOLEAN /\ trap \in BOOLEAN /\ typed \in BOOLEAN
    /\ invalid \subseteq Param
    /\ phase \in Phases
    /\ receipt \in Press \cup {None}
    /\ answer \in [of : Press \cup {None}, status : Statuses \cup {-1}]
    /\ left \in -1..MaxRetry
    /\ sentBody \in [ts : Press \cup {None}, company : BOOLEAN, dwell : 0..MinDwell, draft : Drafts]
    /\ elapsed \in 0..DwellCap
    /\ attempt \in 0..Attempts
    /\ presses \in 0..MaxPress
    /\ frac \in 0..(Sub - 1) /\ lag \in 0..1
    /\ rows \in [Press -> -1..AgeCap]
    /\ wire \in [Press -> {"none", "up", "answered", "over"}]
    /\ bodies \in [Press -> [ts : Press \cup {None}, company : BOOLEAN, dwell : 0..MinDwell,
                             draft : Drafts]]
    /\ reply \in [Press -> [status : Statuses, params : SUBSET Param, id : Press \cup {None},
                            retry : -1..MaxRetry, by : {"none", "api", "floor", "bucket", "proxy"},
                            oldest : Press \cup {None}]]
    /\ skewed \in BOOLEAN /\ foreign \in BOOLEAN
    /\ touched \in BOOLEAN
-----------------------------------------------------------------------------
(***************************************************************************)
(* What the page derives from its state                                    *)
(***************************************************************************)

Sending == phase \in {"dwelling", "awaiting"}

\* secondsLeft(freeAt, second) > 0, on the second this page last drew.
Waiting == left # NoWait /\ left + lag > 0

\* deadlineSecond: counted from the start of the second the answer came in.
DeadlineSecond(retry) == retry

\* How many InvalidParams stand beside a field the visitor can see.
Marked == invalid \cap Field

\* contactState
State ==
    CASE Sending -> "sending"
      [] phase = "accepted" -> "accepted"
      [] phase = "invalid" -> "rejected"
      [] phase = "failed" -> IF invalid # {} THEN "rejected" ELSE "failed"
      [] phase = "rest" -> IF typed THEN "composing" ELSE "rest"

\* StatusText: which sentence of the copy the status line prints.
SentenceOf(status, params) ==
    CASE status = 400 -> IF params # {} THEN "invalid" ELSE "refused"
      [] status = 429 -> "rateLimited"
      [] status = 502 -> "providerDown"
      [] status = 0 -> "noAnswer"
      [] OTHER -> "unexpected"

Sentence ==
    CASE Sending -> "sending"
      [] phase = "accepted" -> "accepted"
      [] phase = "invalid" -> "invalid"
      [] phase = "failed" -> SentenceOf(answer.status, invalid)
      [] phase = "rest" -> ""

\* What the log says of the honeypot: the field as it is at this render, not
\* the one that travelled.
HoneypotLine == IF honeypot THEN "honeypot filled" ELSE "honeypot empty"

\* sessionLines: which lines the panel's log has.
SentLines == {HoneypotLine, "post"} \cup (IF sentBody.ts # None THEN {"dwell"} ELSE {})

AnsweredLines ==
    IF answer.of = None THEN {}
    ELSE {"status"} \cup (IF receipt # None THEN {"receipt"} ELSE {})
                    \cup (IF Waiting THEN {"retry"} ELSE {})
                    \cup (IF State = "failed" THEN {"address"} ELSE {})

SessionLines ==
    CASE State \in {"rest", "composing"} -> {}
      [] State = "rejected" ->
            IF answer.of = None THEN {"validating"} ELSE SentLines \cup AnsweredLines
      [] State = "sending" -> SentLines
      [] State \in {"accepted", "failed"} -> SentLines \cup AnsweredLines
\* TxTrace: whose body the panel draws, the one that left or the draft's.
Panel == IF sentBody.ts # None THEN "sent" ELSE IF typed THEN "draft" ELSE "empty"
-----------------------------------------------------------------------------
(***************************************************************************)
(* The visitor                                                             *)
(***************************************************************************)

Init ==
    /\ draft = Blank /\ honeypot = FALSE /\ invalid = {} /\ phase = "rest"
    /\ receipt = None /\ answer = NoAnswer /\ left = NoWait /\ sentBody = NoBody
    /\ typed = FALSE /\ elapsed = 0
    /\ attempt = 0 /\ trap = FALSE /\ presses = 0 /\ touched = FALSE
    /\ frac = 0 /\ lag = 0
    /\ rows = [p \in Press |-> NoRow]
    /\ wire = [p \in Press |-> "none"]
    /\ bodies = [p \in Press |-> NoBody]
    /\ reply = [p \in Press |-> NoReply]
    /\ skewed \in BOOLEAN /\ foreign \in BOOLEAN

\* A render draws the second it is in, whatever it was for.
Rendered == lag' = 0

\* set: the fields are readOnly while a request is out; the first keystroke
\* starts the dwell clock, and nothing ever starts it again.
Type(d) ==
    /\ ~Sending
    /\ d # draft
    /\ draft' = d
    /\ typed' = TRUE
    /\ Rendered
    /\ UNCHANGED <<honeypot, invalid, phase, receipt, answer, left, sentBody, elapsed,
                   attempt, trap, presses, touched, frac, serverVars, worldVars>>

\* onChange of the hidden input, which nothing locks: a bot or a browser that
\* fills in what it recognises, or clears it again.
ChangeTrap ==
    /\ honeypot' = ~honeypot
    /\ touched' = (phase \notin {"rest", "invalid"})
    /\ Rendered
    /\ UNCHANGED <<draft, invalid, phase, receipt, answer, left, sentBody, typed, elapsed,
                   attempt, trap, presses, frac, serverVars, worldVars>>

\* submit refused by the page: nothing is sent, and what was sent before is
\* no longer what the panel draws.
SubmitInvalid ==
    /\ ~Sending /\ ~Waiting
    /\ Refused(PageReasons(draft)) # {}
    /\ invalid' = Refused(PageReasons(draft))
    /\ answer' = NoAnswer /\ receipt' = None /\ sentBody' = NoBody
    /\ phase' = "invalid"
    /\ touched' = FALSE
    /\ Rendered
    /\ UNCHANGED <<draft, honeypot, left, typed, elapsed, attempt, trap, presses, frac,
                   serverVars, worldVars>>

\* Mutant: the last answer stays on the screen while the next request is out.
ClearedForSendingKeepsAnswer ==
    invalid' = {} /\ sentBody' = NoBody /\ UNCHANGED <<answer, receipt>>

\* What submit takes off the screen before it sends.  The receipt stays until
\* the answer; no phase but accepted prints it.
ClearedForSending ==
    invalid' = {} /\ answer' = NoAnswer /\ sentBody' = NoBody /\ UNCHANGED receipt

\* submit, up to the dwell loop.  The visitor has been writing for any time.
Submit ==
    /\ ~Sending /\ ~Waiting
    /\ presses < MaxPress
    /\ Refused(PageReasons(draft)) = {}
    /\ ClearedForSending
    /\ phase' = "dwelling"
    /\ elapsed' \in elapsed..DwellCap
    /\ attempt' = 0
    /\ trap' = honeypot
    /\ touched' = FALSE
    /\ Rendered
    /\ UNCHANGED <<draft, honeypot, left, typed, presses, frac, serverVars, worldVars>>

\* remainingDwellMs
RemainingDwell(e) == IF e >= DwellCap THEN 0 ELSE DwellCap - e

\* A timer may wake a fraction of a millisecond early, and it may wake late.
Woken(e, wait) == (e + (IF wait > 1 THEN wait - 1 ELSE 1))..DwellCap

\* Mutant: one setTimeout in place of the loop.
MayStillWaitOnce == attempt < 1

\* for (attempt < 8)
MayStillWait == attempt < Attempts

\* One turn of the dwell loop: the rest of the floor is slept away and the
\* dwell is measured again.
Sleep ==
    /\ phase = "dwelling"
    /\ MayStillWait
    /\ RemainingDwell(elapsed) > 0
    /\ elapsed' \in Woken(elapsed, RemainingDwell(elapsed))
    /\ attempt' = attempt + 1
    /\ UNCHANGED <<draft, honeypot, invalid, phase, receipt, answer, left, sentBody, typed,
                   trap, presses, touched, clockVars, serverVars, worldVars>>

\* buildBody, at the moment of sending: a fresh ts, the dwell in whole
\* milliseconds, the honeypot and the draft of the press.
BuildBody == [ts |-> presses + 1, company |-> trap, dwell |-> elapsed \div 2, draft |-> draft]

\* The rest of submit up to the await: the body is drawn and apiPost begins.
Depart ==
    /\ phase = "dwelling"
    /\ RemainingDwell(elapsed) = 0 \/ ~MayStillWait
    /\ sentBody' = BuildBody
    /\ presses' = presses + 1
    /\ wire' = [wire EXCEPT ![presses + 1] = "up"]
    /\ bodies' = [bodies EXCEPT ![presses + 1] = BuildBody]
    /\ phase' = "awaiting"
    /\ attempt' = 0 /\ trap' = FALSE
    /\ Rendered
    /\ UNCHANGED <<draft, honeypot, invalid, receipt, answer, left, typed, elapsed, touched,
                   frac, rows, reply, worldVars>>
-----------------------------------------------------------------------------
(***************************************************************************)
(* The other side                                                          *)
(***************************************************************************)

\* One answer to one request, and what it leaves in the table.
Answered(p, answered) ==
    /\ wire[p] = "up"
    /\ wire' = [wire EXCEPT ![p] = "answered"]
    /\ reply' = [reply EXCEPT ![p] = answered]
    /\ UNCHANGED <<formVars, clockVars, bodies, worldVars>>

ApiReply(status) == [NoReply EXCEPT !.status = status, !.by = "api"]

\* Never arrived: refused connection, lost on the way.
Lose(p) ==
    /\ wire[p] = "up"
    /\ wire' = [wire EXCEPT ![p] = "over"]
    /\ UNCHANGED <<formVars, clockVars, rows, bodies, reply, worldVars>>

\* Something between the browser and the api answered in its place; 404 stands
\* for every status the page has no branch for.
ProxyAnswers(p) ==
    /\ \E status \in {404, 429, 502} :
          Answered(p, [NoReply EXCEPT !.status = status, !.by = "proxy", !.retry = NoWait])
    /\ UNCHANGED rows

\* The token bucket in front of the route.
BucketRefuses(p) ==
    /\ \E retry \in 1..MaxRetry :
          Answered(p, [NoReply EXCEPT !.status = 429, !.by = "bucket", !.retry = retry])
    /\ UNCHANGED rows

RefusesOrigin(p) ==
    /\ foreign
    /\ Answered(p, ApiReply(400))
    /\ UNCHANGED rows

\* discardReason
Discards(body) == body.company \/ body.dwell < MinDwell

\* A receipt that leads nowhere: no row, no mail.
Discard(p) ==
    /\ ~foreign
    /\ Discards(bodies[p])
    /\ Answered(p, ApiReply(202))
    /\ UNCHANGED rows

\* The InvalidParams of validate: the fields, and the timestamp nobody typed.
InvalidParams(body) ==
    Refused(ApiReasons(body.draft)) \cup (IF skewed THEN {"ts"} ELSE {})

Validated(p) == ~foreign /\ ~Discards(bodies[p]) /\ InvalidParams(bodies[p]) = {}

Reject(p) ==
    /\ ~foreign /\ ~Discards(bodies[p])
    /\ InvalidParams(bodies[p]) # {}
    /\ Answered(p, [ApiReply(400) EXCEPT !.params = InvalidParams(bodies[p])])
    /\ UNCHANGED rows

\* CountRecentContactMessages: what this visitor left inside the window.
Recent == {p \in Press : rows[p] # NoRow /\ rows[p] < AgeCap}

Oldest == CHOOSE p \in Recent : \A q \in Recent : rows[q] <= rows[p]

\* overLimit: until the oldest message leaves the window, a second at least.
\* WriteRateLimitProblem rounds it to the nearest second.
FloorWait == IF AgeCap - rows[Oldest] < Sub THEN Sub ELSE AgeCap - rows[Oldest]

\* Mutant: the seconds of the wait are cut off, not rounded.
RetryAfterCutOff == FloorWait \div Sub

RetryAfter == (2 * FloorWait + Sub) \div (2 * Sub)

OverLimit == Cardinality(Recent) >= RateLimit

\* Mutant: the row is inserted before the floor is asked.
FloorRefusesStored(p) ==
    /\ Validated(p)
    /\ OverLimit
    /\ Answered(p, [NoReply EXCEPT !.status = 429, !.by = "floor", !.retry = RetryAfter,
                                   !.oldest = Oldest])
    /\ rows' = [rows EXCEPT ![p] = 0]

FloorRefuses(p) ==
    /\ Validated(p)
    /\ OverLimit
    /\ Answered(p, [NoReply EXCEPT !.status = 429, !.by = "floor", !.retry = RetryAfter,
                                   !.oldest = Oldest])
    /\ UNCHANGED rows

\* The row is inserted, whatever becomes of the mail: delivered or left to the
\* dispatcher (202), or not taken by the relay (502).
Store(p) ==
    /\ Validated(p)
    /\ ~OverLimit
    /\ \/ Answered(p, [ApiReply(202) EXCEPT !.id = p])
       \/ Answered(p, ApiReply(502))
    /\ rows' = [rows EXCEPT ![p] = 0]

\* A statement before the INSERT, or the INSERT itself, fails.
Break(p) ==
    /\ Validated(p)
    /\ Answered(p, ApiReply(500))
    /\ UNCHANGED rows
-----------------------------------------------------------------------------
(***************************************************************************)
(* The answer in the browser, and the passing of time                      *)
(***************************************************************************)

\* apiPost answers ok: the text stays in the field, and so does freeAt.
Accept ==
    LET p == presses
    IN /\ phase = "awaiting"
       /\ wire[p] = "answered" /\ reply[p].status = 202
       /\ receipt' = reply[p].id
       /\ answer' = [of |-> p, status |-> 202]
       /\ phase' = "accepted"
       /\ wire' = [wire EXCEPT ![p] = "over"]
       /\ Rendered
       /\ UNCHANGED <<draft, honeypot, invalid, left, sentBody, typed, elapsed, attempt, trap,
                      presses, touched, frac, rows, bodies, reply, worldVars>>

\* The wait of a 429 is held, any other failure releases the button.
HeldWait(status, retry) ==
    IF status = 429 /\ retry # NoWait THEN DeadlineSecond(retry) ELSE NoWait

\* apiPost answers fail with a status, a problem and a wait.
FailWith(status, params, retry) ==
    /\ invalid' = IF status = 400 THEN params ELSE {}
    /\ receipt' = None
    /\ answer' = [of |-> presses, status |-> status]
    /\ phase' = "failed"
    /\ left' = HeldWait(status, retry)
    /\ Rendered
    /\ UNCHANGED <<draft, honeypot, sentBody, typed, elapsed, attempt, trap, presses, touched,
                   frac, rows, bodies, reply, worldVars>>

Fail ==
    LET p == presses
    IN /\ phase = "awaiting"
       /\ wire[p] = "answered" /\ reply[p].status # 202
       /\ FailWith(reply[p].status, reply[p].params, reply[p].retry)
       /\ wire' = [wire EXCEPT ![p] = "over"]

\* Mutant: a fetch without a deadline.
GiveUpWhenBroken ==
    /\ phase = "awaiting"
    /\ wire[presses] = "over"
    /\ FailWith(0, {}, NoWait)
    /\ UNCHANGED wire

\* The deadline of eight seconds, a refused connection, a dropped one: status
\* 0, and the request stays wherever it was.
GiveUp ==
    /\ phase = "awaiting"
    /\ FailWith(0, {}, NoWait)
    /\ UNCHANGED wire

Older(age) == IF age = NoRow \/ age = AgeCap THEN age ELSE age + 1

\* A part of a second.  The page's interval fires once in every second, but
\* not on its first part: until it does, the page draws the second before.
Tick ==
    /\ frac' = (frac + 1) % Sub
    /\ rows' = [p \in Press |-> Older(rows[p])]
    /\ IF frac' = 0
       THEN /\ lag = 0
            /\ left' = IF left > 0 THEN left - 1 ELSE left
            /\ lag' = IF left > 0 THEN 1 ELSE 0
       ELSE UNCHANGED <<left, lag>>
    /\ UNCHANGED <<draft, honeypot, invalid, phase, receipt, answer, sentBody, typed, elapsed,
                   attempt, trap, presses, touched, wire, bodies, reply, worldVars>>

\* setInterval of lib/clock.ts calls its listeners.
DrawSecond ==
    /\ lag = 1
    /\ lag' = 0
    /\ UNCHANGED <<formVars, frac, serverVars, worldVars>>

Serve(p) ==
    \/ Lose(p) \/ ProxyAnswers(p) \/ BucketRefuses(p)
    \/ RefusesOrigin(p) \/ Discard(p) \/ Reject(p) \/ FloorRefuses(p)
    \/ Store(p) \/ Break(p)

Next ==
    \/ \E d \in Drafts : Type(d)
    \/ ChangeTrap \/ SubmitInvalid \/ Submit \/ Sleep \/ Depart
    \/ Accept \/ Fail \/ GiveUp
    \/ \E p \in Press : Serve(p)
    \/ Tick \/ DrawSecond

\* Timers fire, the deadline of a request comes, and so does the next second.
Fairness == WF_vars(Sleep) /\ WF_vars(Depart) /\ WF_vars(GiveUp) /\ WF_vars(Tick) /\ WF_vars(DrawSecond)

Spec == Init /\ [][Next]_vars

FairSpec == Spec /\ Fairness
-----------------------------------------------------------------------------
(***************************************************************************)
(* Properties                                                              *)
(***************************************************************************)

\* A receipt on the screen names the row of the request that is drawn beside
\* it.  The api answers a short dwell with a 202 that leads nowhere; the dwell
\* loop is there so that no visitor ever meets it, whatever the timers do.
\* Only a filled honeypot is told of a row there is none of.
ReceiptNamesARow ==
    phase = "accepted" /\ ~sentBody.company =>
        receipt = sentBody.ts /\ rows[receipt] # NoRow

\* The panel shows one send: body, status, receipt and log lines belong to the
\* same request, across edits, local refusals, lost answers and resends.  The
\* line about the honeypot is the exception: it says what travelled only as
\* long as the hidden field has not changed since the press.
ScreenIsOneSend ==
    /\ answer.of # None => answer.of = sentBody.ts
    /\ "receipt" \in SessionLines => receipt = sentBody.ts
    /\ "status" \in SessionLines => sentBody.ts = presses
    /\ phase = "invalid" => SessionLines = {"validating"} /\ Panel # "sent"
    /\ answer.of # None => Panel = "sent"
    /\ Panel = "sent" /\ ~touched =>
          ("honeypot filled" \in SessionLines <=> sentBody.company)

\* What the sentence claims of the message is so: refused, rate limited and
\* "nothing was sent" leave no row of that request, however late; "the message
\* is stored" has one, unless the 502 is not the api's.
SentenceIsTrue ==
    answer.of # None =>
        /\ Sentence \in {"invalid", "refused", "rateLimited"} => rows[answer.of] = NoRow
        /\ Sentence = "providerDown" =>
              rows[answer.of] # NoRow \/ reply[answer.of].by = "proxy"

\* The button comes back when the floor is about to let a message through: the
\* api rounds the wait, the page counts from the start of a second, and the two
\* errors together stay below a second and a half.
LockMatchesFloor ==
    (phase = "failed" /\ answer.of # None /\ answer.status = 429 /\ ~Waiting) =>
        LET r == reply[answer.of]
        IN r.by = "floor" => 2 * (AgeCap - rows[r.oldest]) < 3 * Sub

\* Over every draft around the bounds, and not only the ones this visitor types.
MirrorIsLoose == \A d \in Compared : LocalRefusalIsTheApis(d)

\* A press the page refused itself is one the api would have refused, for the
\* same reasons field by field, but for U+0085 at an edge and for an address with
\* a C1 control or white space beyond ASCII inside: those the api takes, although
\* the mirror means to be stricter nowhere (validate.ts:11-17).
MirrorLeansLoose == phase = "invalid" => MirrorIsLoose

\* Every press ends: timers fire and apiPost has a deadline.
PressEnds == Sending ~> ~Sending
=============================================================================
