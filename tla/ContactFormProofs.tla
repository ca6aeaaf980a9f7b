-------------------------- MODULE ContactFormProofs --------------------------
(***************************************************************************)
(* Why the form's screen tells the truth about the other side, for any     *)
(* drafts, number of presses, dwell, window and subdivision of a second:   *)
(* two sleeps are enough for the dwell, a request is answered once and     *)
(* leaves its row before or with the answer, and what a lock has left      *)
(* to count keeps up with what the floor has left to wait.                 *)
(***************************************************************************)
EXTENDS ContactForm, FiniteSetTheorems, WellFoundedInduction, TLAPS

\* A press that is being held back leaves one to send, and the second time it
\* wakes up the dwell is over.
DwellInv ==
    phase = "dwelling" =>
        /\ presses < MaxPress
        /\ attempt >= 1 => elapsed >= DwellCap - 1
        /\ attempt >= 2 => elapsed = DwellCap

\* What the page draws is of one press, the last, or of none.
ScreenInv ==
    /\ phase \in {"rest", "invalid", "dwelling"} => answer = NoAnswer /\ sentBody = NoBody
    /\ phase \in {"awaiting", "accepted", "failed"} =>
          presses \in Press /\ sentBody = bodies[presses] /\ sentBody.ts = presses
    /\ phase = "awaiting" => answer = NoAnswer
    /\ phase = "accepted" =>
          /\ answer = [of |-> presses, status |-> 202]
          /\ reply[presses].status = 202 /\ receipt = reply[presses].id
    /\ phase = "failed" =>
          /\ answer.of = presses /\ receipt = None
          /\ answer.status \in {0, reply[presses].status}

\* What the other side has said of a press is so.
ReplyIsTrue(p) ==
    /\ reply[p].id \in {None, p}
    /\ reply[p].status = 202 /\ ~bodies[p].company => reply[p].id = p /\ rows[p] # NoRow
    /\ reply[p].status \in {400, 429} => rows[p] = NoRow
    /\ reply[p].status = 502 => rows[p] # NoRow \/ reply[p].by = "proxy"

\* The floor's wait is rounded by less than half a second, and time only
\* makes it longer than what is left.
WaitIsEnough(p) ==
    reply[p].by = "floor" =>
        /\ reply[p].status = 429 /\ reply[p].retry >= 1
        /\ reply[p].oldest \in Press /\ rows[reply[p].oldest] # NoRow
        /\ 2 * (AgeCap - rows[reply[p].oldest]) <= 2 * (Sub * reply[p].retry) + Sub - 1

WireInv ==
    \A p \in Press :
        /\ wire[p] = "none" <=> p > presses
        /\ wire[p] \in {"none", "up"} => rows[p] = NoRow /\ reply[p] = NoReply
        /\ wire[p] # "none" => bodies[p].dwell = MinDwell
        /\ ReplyIsTrue(p)
        /\ WaitIsEnough(p)

\* The lock counts down as fast as the floor's window moves; the parts of the
\* second it began in are what it may be early by, with the rounding.
LockInv ==
    phase = "failed" /\ answer.status = 429 /\ reply[presses].by = "floor" =>
        LET wait == AgeCap - rows[reply[presses].oldest] IN
        /\ left >= 0
        /\ wait = 0 \/ 2 * wait + 2 * frac <= 2 * (Sub * left) + 3 * Sub - 3

FormInv == TypeOK /\ DwellInv /\ ScreenInv /\ WireInv /\ LockInv
-----------------------------------------------------------------------------
Body == [ts : Press \cup {None}, company : BOOLEAN, dwell : 0..MinDwell, draft : Drafts]

Reply == [status : Statuses, params : SUBSET Param, id : Press \cup {None}, retry : -1..MaxRetry,
          by : {"none", "api", "floor", "bucket", "proxy"}, oldest : Press \cup {None}]

LEMMA FormNumbers ==
    /\ Sub \in Nat /\ Sub >= 1 /\ AgeCap \in Nat /\ AgeCap >= Sub /\ AgeCap = Window * Sub
    /\ Window \in Nat /\ Window >= 1 /\ MaxRetry \in Nat /\ MaxRetry >= Window
    /\ MinDwell \in Nat /\ MinDwell >= 1 /\ DwellCap \in Nat /\ DwellCap = 2 * MinDwell
    /\ MaxPress \in Nat /\ Attempts \in Nat /\ Attempts >= 2 /\ Blank \in Drafts
    /\ None \notin Press /\ Press \subseteq Nat
<1>1. /\ Sub \in Nat /\ Sub >= 1 /\ Window \in Nat /\ Window >= 1
  BY FormAssumption
<1>2. Window * Sub \in Nat /\ Window * Sub >= Sub
  BY <1>1
<1>3. QED
  BY <1>1, <1>2, FormAssumption DEF AgeCap, DwellCap, None, Press

\* TypeOK by what a step usually leaves alone as a whole.
DraftTypes ==
    /\ draft \in Drafts /\ honeypot \in BOOLEAN /\ trap \in BOOLEAN /\ typed \in BOOLEAN
    /\ touched \in BOOLEAN

ScreenTypes ==
    /\ invalid \subseteq Param
    /\ phase \in Phases
    /\ receipt \in Press \cup {None}
    /\ answer \in [of : Press \cup {None}, status : Statuses \cup {-1}]
    /\ left \in -1..MaxRetry
    /\ sentBody \in Body

CountTypes ==
    /\ elapsed \in 0..DwellCap
    /\ attempt \in 0..Attempts
    /\ presses \in 0..MaxPress
    /\ frac \in 0..(Sub - 1) /\ lag \in 0..1

ServerTypes ==
    /\ rows \in [Press -> -1..AgeCap]
    /\ wire \in [Press -> {"none", "up", "answered", "over"}]
    /\ bodies \in [Press -> Body] /\ reply \in [Press -> Reply]

WorldTypes == skewed \in BOOLEAN /\ foreign \in BOOLEAN

LEMMA Typed ==
    /\ TypeOK <=> DraftTypes /\ ScreenTypes /\ CountTypes /\ ServerTypes /\ WorldTypes
    /\ TypeOK' <=> DraftTypes' /\ ScreenTypes' /\ CountTypes' /\ ServerTypes' /\ WorldTypes'
<1>1. TypeOK <=> DraftTypes /\ ScreenTypes /\ CountTypes /\ ServerTypes /\ WorldTypes
  BY DEF TypeOK, DraftTypes, ScreenTypes, CountTypes, ServerTypes, WorldTypes, Body, Reply
<1>2. QED
  BY <1>1, PTL

\* The other side and the world stay as they are.
LEMMA ElsewhereTypes ==
    ASSUME TypeOK PROVE /\ UNCHANGED serverVars => ServerTypes'
                        /\ UNCHANGED worldVars => WorldTypes'
  BY Typed DEF serverVars, worldVars, ServerTypes, WorldTypes

LEMMA Defaults == NoBody \in Body /\ NoReply \in Reply
                  /\ NoAnswer \in [of : Press \cup {None}, status : Statuses \cup {-1}]
  BY FormNumbers DEF NoBody, NoReply, NoAnswer, Body, Reply, Statuses, None, NoWait

LEMMA FormInit == Init => FormInv
<1> SUFFICES ASSUME Init PROVE FormInv
  OBVIOUS
<1> USE FormNumbers DEF Init
<1>1. DraftTypes /\ WorldTypes
  BY DEF DraftTypes, WorldTypes
<1>2. ScreenTypes
  BY Defaults DEF ScreenTypes, Phases, NoWait, None
<1>3. CountTypes /\ ServerTypes
  BY Defaults DEF CountTypes, ServerTypes, NoRow
<1>4. WireInv
  BY DEF WireInv, ReplyIsTrue, WaitIsEnough, NoReply, Press, None
<1>5. QED
  BY <1>1, <1>2, <1>3, <1>4, Typed DEF FormInv, DwellInv, ScreenInv, LockInv

\* What is true of the wire is so until the wire, a row or an answer changes.
LEMMA WireKept ==
    ASSUME WireInv, UNCHANGED <<presses, serverVars>> PROVE WireInv'
  BY DEF WireInv, ReplyIsTrue, WaitIsEnough, serverVars

\* What a keystroke, the trap and the drawing of a second leave alone.
LEMMA NothingSent ==
    ASSUME FormInv, UNCHANGED <<phase, receipt, answer, left, sentBody, elapsed, attempt, presses,
                                frac, serverVars>>
    PROVE  DwellInv' /\ ScreenInv' /\ WireInv' /\ LockInv'
  BY WireKept DEF FormInv, DwellInv, ScreenInv, LockInv, serverVars

LEMMA VisitorTypes ==
    ASSUME FormInv, NEW d \in Drafts, Type(d) \/ ChangeTrap PROVE FormInv'
<1>1. DraftTypes'
  BY Typed DEF FormInv, Type, ChangeTrap, DraftTypes
<1>2. ScreenTypes' /\ CountTypes'
  BY Typed DEF FormInv, Type, ChangeTrap, Rendered, ScreenTypes, CountTypes
<1>3. TypeOK'
  BY <1>1, <1>2, Typed, ElsewhereTypes DEF FormInv, Type, ChangeTrap
<1>4. QED
  BY <1>3, NothingSent DEF FormInv, Type, ChangeTrap

LEMMA SecondDrawn ==
    ASSUME FormInv, DrawSecond PROVE FormInv'
<1>1. TypeOK'
  BY Typed, ElsewhereTypes DEF FormInv, DrawSecond, formVars, DraftTypes, ScreenTypes, CountTypes
<1>2. QED
  BY <1>1, NothingSent DEF FormInv, DrawSecond, formVars

LEMMA PageRefuses ==
    ASSUME FormInv, SubmitInvalid PROVE FormInv'
<1> USE DEF SubmitInvalid
<1>1. Refused(PageReasons(draft)) \subseteq Param
  BY DEF Refused, Param
<1>2. DraftTypes' /\ ScreenTypes' /\ CountTypes'
  <2>1. DraftTypes'
    BY Typed DEF FormInv, DraftTypes
  <2>2. ScreenTypes' /\ CountTypes'
    BY <1>1, Defaults, Typed DEF FormInv, Rendered, Phases, ScreenTypes, CountTypes
  <2>3. QED
    BY <2>1, <2>2
<1>3. WireInv'
  BY WireKept DEF FormInv
<1>4. QED
  BY <1>2, <1>3, Typed, ElsewhereTypes DEF FormInv, DwellInv, ScreenInv, LockInv

LEMMA PressBegins ==
    ASSUME FormInv, Submit PROVE FormInv'
<1> USE DEF Submit, ClearedForSending
<1>1. elapsed' \in 0..DwellCap
  BY FormNumbers DEF FormInv, TypeOK
<1>2. DraftTypes' /\ ScreenTypes' /\ CountTypes'
  <2>1. DraftTypes'
    BY Typed DEF FormInv, DraftTypes
  <2>2. ScreenTypes' /\ CountTypes'
    BY <1>1, Defaults, FormNumbers, Typed DEF FormInv, Rendered, Phases, ScreenTypes, CountTypes
  <2>3. QED
    BY <2>1, <2>2
<1>3. WireInv'
  BY WireKept DEF FormInv
<1>4. QED
  BY <1>2, <1>3, Typed, ElsewhereTypes DEF FormInv, DwellInv, ScreenInv, LockInv

\* The first turn of the dwell loop leaves half a millisecond at most, the
\* second nothing.
LEMMA DwellSlept ==
    ASSUME FormInv, Sleep PROVE FormInv'
<1> USE FormNumbers DEF Sleep, MayStillWait
<1>1. /\ elapsed \in 0..DwellCap /\ elapsed < DwellCap /\ attempt \in 0..Attempts
      /\ attempt' = attempt + 1 /\ phase = "dwelling" /\ presses < MaxPress
      /\ elapsed' \in Woken(elapsed, DwellCap - elapsed)
  BY DEF FormInv, TypeOK, RemainingDwell, DwellInv
<1>2. elapsed' \in 0..DwellCap /\ attempt' \in 0..Attempts
  BY <1>1 DEF Woken
<1>3. TypeOK'
  BY <1>2, Typed, ElsewhereTypes DEF FormInv, clockVars, DraftTypes, ScreenTypes, CountTypes
<1>4. attempt' >= 1 => elapsed' >= DwellCap - 1
  BY <1>1 DEF Woken
<1>5. attempt' >= 2 => elapsed' = DwellCap
  BY <1>1 DEF Woken, FormInv, DwellInv
<1>6. WireInv'
  BY WireKept DEF FormInv
<1>7. QED
  BY <1>1, <1>3, <1>4, <1>5, <1>6 DEF FormInv, DwellInv, ScreenInv, LockInv

\* The loop ends when the dwell is over, not when its turns are: there are two
\* at least.
LEMMA PressDeparts ==
    ASSUME FormInv, Depart PROVE FormInv'
<1> USE FormNumbers DEF Depart
<1>1. presses \in 0..MaxPress /\ presses < MaxPress /\ elapsed \in 0..DwellCap
  BY DEF FormInv, TypeOK, DwellInv
<1>2. elapsed = DwellCap
  <2>1. CASE RemainingDwell(elapsed) = 0
    BY <1>1, <2>1 DEF RemainingDwell
  <2>2. CASE ~MayStillWait
    BY <2>2 DEF MayStillWait, FormInv, TypeOK, DwellInv
  <2>3. QED
    BY <2>1, <2>2
<1>3. elapsed \div 2 = MinDwell
  BY <1>2
<1> DEFINE p == presses + 1
<1>4. p \in Press /\ presses' = p /\ wire[p] = "none"
  <2>1. p \in Press /\ p > presses
    BY <1>1 DEF Press
  <2>2. QED
    BY <2>1 DEF FormInv, WireInv
<1>5. BuildBody = [ts |-> p, company |-> trap, dwell |-> MinDwell, draft |-> draft]
  BY <1>3 DEF BuildBody
<1>6. BuildBody \in Body
  BY <1>4, <1>5 DEF Body, FormInv, TypeOK
<1>7. /\ bodies' = [bodies EXCEPT ![p] = BuildBody] /\ wire' = [wire EXCEPT ![p] = "up"]
      /\ sentBody' = BuildBody /\ phase' = "awaiting" /\ UNCHANGED <<answer, rows, reply>>
  OBVIOUS
<1> HIDE DEF p
<1>8. TypeOK'
  <2>1. ServerTypes' /\ CountTypes'
    BY <1>1, <1>4, <1>6, <1>7, Typed DEF FormInv, ServerTypes, CountTypes, Rendered
  <2>2. ScreenTypes'
    BY <1>6, Typed DEF FormInv, ScreenTypes, Phases
  <2>3. DraftTypes'
    BY Typed DEF FormInv, DraftTypes
  <2>4. QED
    BY <2>1, <2>2, <2>3, Typed, ElsewhereTypes DEF FormInv
<1>9. WireInv'
  <2> SUFFICES ASSUME NEW q \in Press
               PROVE  /\ wire'[q] = "none" <=> q > presses'
                      /\ wire'[q] \in {"none", "up"} => rows'[q] = NoRow /\ reply'[q] = NoReply
                      /\ wire'[q] # "none" => bodies'[q].dwell = MinDwell
                      /\ ReplyIsTrue(q)' /\ WaitIsEnough(q)'
    BY DEF WireInv
  <2>1. CASE q = p
    <3>1. wire'[q] = "up" /\ bodies'[q] = BuildBody /\ rows'[q] = NoRow /\ reply'[q] = NoReply
      BY <1>4, <1>7, <2>1 DEF FormInv, TypeOK, WireInv
    <3>2. reply'[q].id = None /\ reply'[q].status = 0 /\ reply'[q].by = "none"
      BY <3>1 DEF NoReply
    <3>3. ReplyIsTrue(q)' /\ WaitIsEnough(q)'
      BY <3>2 DEF ReplyIsTrue, WaitIsEnough
    <3>4. bodies'[q].dwell = MinDwell /\ ~(q > presses')
      BY <1>4, <1>5, <2>1, <3>1
    <3>5. QED
      BY <3>1, <3>3, <3>4
  <2>2. CASE q # p
    <3>1. /\ wire'[q] = wire[q] /\ bodies'[q] = bodies[q]
          /\ rows' = rows /\ reply' = reply
      BY <1>7, <2>2 DEF FormInv, TypeOK
    <3>2. q > presses' <=> q > presses
      BY <1>1, <1>4, <2>2 DEF p
    <3>3. ReplyIsTrue(q)' /\ WaitIsEnough(q)'
      <4>1. ReplyIsTrue(q) /\ WaitIsEnough(q)
        BY DEF FormInv, WireInv
      <4>2. QED
        BY <3>1, <4>1 DEF ReplyIsTrue, WaitIsEnough
    <3>4. /\ wire[q] = "none" <=> q > presses
          /\ wire[q] \in {"none", "up"} => rows[q] = NoRow /\ reply[q] = NoReply
          /\ wire[q] # "none" => bodies[q].dwell = MinDwell
      BY DEF FormInv, WireInv
    <3>5. QED
      BY <3>1, <3>2, <3>3, <3>4
  <2>3. QED
    BY <2>1, <2>2
<1>10. sentBody' = bodies'[presses'] /\ sentBody'.ts = presses' /\ answer' = NoAnswer
  <2>1. bodies'[p] = BuildBody
    BY <1>4, <1>7 DEF FormInv, TypeOK
  <2>2. QED
    BY <1>4, <1>5, <1>7, <2>1 DEF FormInv, ScreenInv
<1>11. ScreenInv' /\ DwellInv' /\ LockInv'
  BY <1>4, <1>7, <1>10 DEF ScreenInv, DwellInv, LockInv
<1>12. QED
  BY <1>8, <1>9, <1>11 DEF FormInv
-----------------------------------------------------------------------------
\* An answer to one request, with or without a row: what was said of the
\* others stays true of them, and the page has not heard of this one.
LEMMA AnswerArrives ==
    ASSUME FormInv, NEW p \in Press, NEW r \in Reply, Answered(p, r),
           \/ rows' = rows
           \/ rows' \in [Press -> -1..AgeCap] /\ \A q \in Press : q # p => rows'[q] = rows[q],
           r.id \in {None, p},
           r.status \in {400, 429} => rows' = rows,
           r.status = 202 /\ ~bodies[p].company => r.id = p /\ rows'[p] = 0,
           r.status = 502 => rows'[p] = 0 \/ r.by = "proxy",
           r.by = "floor" =>
               /\ r.status = 429 /\ r.retry >= 1
               /\ r.oldest \in Press /\ rows[r.oldest] # NoRow
               /\ 2 * (AgeCap - rows[r.oldest]) <= 2 * (Sub * r.retry) + Sub - 1
    PROVE  FormInv'
<1> USE FormNumbers DEF Answered
<1>1. /\ wire[p] = "up" /\ rows[p] = NoRow /\ reply[p] = NoReply /\ p <= presses
      /\ bodies[p].dwell = MinDwell /\ presses \in Nat
  <2>1. wire[p] = "up" /\ presses \in Nat /\ p \in Nat
    BY DEF FormInv, TypeOK
  <2>2. /\ wire[p] = "none" <=> p > presses
        /\ wire[p] \in {"none", "up"} => rows[p] = NoRow /\ reply[p] = NoReply
        /\ wire[p] # "none" => bodies[p].dwell = MinDwell
    BY DEF FormInv, WireInv
  <2>3. QED
    BY <2>1, <2>2
<1>2. /\ wire' = [wire EXCEPT ![p] = "answered"] /\ reply' = [reply EXCEPT ![p] = r]
      /\ UNCHANGED <<formVars, clockVars, bodies, worldVars>>
  OBVIOUS
<1>3. rows' \in [Press -> -1..AgeCap] /\ \A q \in Press : q # p => rows'[q] = rows[q]
  BY DEF FormInv, TypeOK
<1>4. reply' \in [Press -> Reply] /\ reply'[p] = r /\ wire'[p] = "answered"
  BY <1>2, Typed DEF FormInv, ServerTypes
<1>5. \A q \in Press : q # p => reply'[q] = reply[q] /\ wire'[q] = wire[q]
  BY <1>2, Typed DEF FormInv, ServerTypes
<1>6. TypeOK'
  <2>1. ServerTypes'
    BY <1>2, <1>3, <1>4, Typed DEF FormInv, ServerTypes
  <2>2. DraftTypes' /\ ScreenTypes' /\ CountTypes'
    BY <1>2, Typed DEF FormInv, formVars, clockVars, DraftTypes, ScreenTypes, CountTypes
  <2>3. QED
    BY <1>2, <2>1, <2>2, Typed, ElsewhereTypes DEF FormInv
<1>7. \A q \in Press : rows[q] # NoRow => q # p /\ rows'[q] # NoRow
  BY <1>1, <1>3
<1>8. ReplyIsTrue(p)'
  <2>1. r.status \in {400, 429} => rows'[p] = NoRow
    BY <1>1
  <2>2. rows'[p] = 0 => rows'[p] # NoRow
    BY DEF NoRow
  <2>3. r.status = 202 /\ ~bodies[p].company => rows'[p] = 0
    OBVIOUS
  <2>4. QED
    BY <1>2, <1>4, <2>1, <2>2, <2>3 DEF ReplyIsTrue
<1>9. WaitIsEnough(p)'
  BY <1>3, <1>4, <1>7 DEF WaitIsEnough
<1>10. WireInv'
  <2> SUFFICES ASSUME NEW q \in Press
               PROVE  /\ wire'[q] = "none" <=> q > presses'
                      /\ wire'[q] \in {"none", "up"} => rows'[q] = NoRow /\ reply'[q] = NoReply
                      /\ wire'[q] # "none" => bodies'[q].dwell = MinDwell
                      /\ ReplyIsTrue(q)' /\ WaitIsEnough(q)'
    BY DEF WireInv
  <2>1. CASE q = p
    BY <1>1, <1>2, <1>4, <1>8, <1>9, <2>1 DEF formVars
  <2>2. CASE q # p
    <3>1. ReplyIsTrue(q) /\ WaitIsEnough(q)
      BY DEF FormInv, WireInv
    <3>2. ReplyIsTrue(q)'
      BY <1>2, <1>3, <1>5, <2>2, <3>1 DEF ReplyIsTrue
    <3>3. WaitIsEnough(q)'
      <4>1. reply'[q] = reply[q]
        BY <1>5, <2>2
      <4> SUFFICES ASSUME reply[q].by = "floor"
                   PROVE  /\ reply[q].status = 429 /\ reply[q].retry >= 1
                          /\ reply[q].oldest \in Press /\ rows'[reply[q].oldest] # NoRow
                          /\ 2 * (AgeCap - rows'[reply[q].oldest])
                                <= 2 * (Sub * reply[q].retry) + Sub - 1
        BY <4>1 DEF WaitIsEnough
      <4>2. reply[q].oldest \in Press /\ rows[reply[q].oldest] # NoRow
        BY <3>1 DEF WaitIsEnough
      <4>3. rows'[reply[q].oldest] = rows[reply[q].oldest]
        BY <1>3, <1>7, <4>2
      <4>4. QED
        BY <3>1, <4>2, <4>3 DEF WaitIsEnough
    <3>4. QED
      BY <1>2, <1>3, <1>5, <2>2, <3>2, <3>3 DEF FormInv, WireInv, formVars
  <2>3. QED
    BY <2>1, <2>2
<1>11. phase = "accepted" => presses # p
  BY <1>1 DEF FormInv, ScreenInv, NoReply
<1>12. phase = "failed" /\ presses = p => answer.status = 0
  BY <1>1 DEF FormInv, ScreenInv, NoReply
<1>13. ScreenInv'
  BY <1>2, <1>5, <1>11, <1>12 DEF FormInv, ScreenInv, formVars
<1>14. LockInv'
  <2> SUFFICES ASSUME phase = "failed", answer.status = 429, reply'[presses].by = "floor"
               PROVE  LET wait == AgeCap - rows'[reply'[presses].oldest] IN
                      /\ left >= 0
                      /\ wait = 0 \/ 2 * wait + 2 * frac <= 2 * (Sub * left) + 3 * Sub - 3
    BY <1>2 DEF LockInv, formVars, clockVars
  <2>1. presses \in Press /\ presses # p
    BY <1>12 DEF FormInv, ScreenInv
  <2>2. reply'[presses] = reply[presses]
    BY <1>5, <2>1
  <2>3. reply[presses].oldest \in Press /\ rows[reply[presses].oldest] # NoRow
    <3>1. WaitIsEnough(presses)
      BY <2>1 DEF FormInv, WireInv
    <3>2. QED
      BY <2>2, <3>1 DEF WaitIsEnough
  <2>4. rows'[reply[presses].oldest] = rows[reply[presses].oldest]
    <3>1. PICK o \in Press : o = reply[presses].oldest /\ rows[o] # NoRow
      BY <2>3
    <3>2. o # p
      BY <1>7, <3>1
    <3>3. QED
      BY <1>3, <3>1, <3>2
  <2>5. QED
    BY <2>2, <2>4 DEF FormInv, LockInv
<1>15. DwellInv'
  BY <1>2 DEF FormInv, DwellInv, formVars
<1>16. QED
  BY <1>6, <1>10, <1>13, <1>14, <1>15 DEF FormInv

LEMMA StatusesNamed ==
    /\ 202 \in Statuses /\ 400 \in Statuses /\ 404 \in Statuses
    /\ 429 \in Statuses /\ 500 \in Statuses /\ 502 \in Statuses
  BY DEF Statuses

\* What the answers of the api say.
LEMMA ApiReplies ==
    ASSUME NEW status \in Statuses
    PROVE  /\ ApiReply(status) \in Reply
           /\ ApiReply(status).status = status /\ ApiReply(status).id = None
           /\ ApiReply(status).by = "api"
  BY Defaults DEF NoReply, ApiReply, Reply

LEMMA RejectReply ==
    ASSUME NEW params \in SUBSET Param
    PROVE  LET r == [ApiReply(400) EXCEPT !.params = params]
           IN  r \in Reply /\ r.status = 400 /\ r.id = None /\ r.by = "api"
<1> DEFINE a == ApiReply(400)
<1>1. a \in Reply /\ a.status = 400 /\ a.id = None /\ a.by = "api"
  BY ApiReplies, StatusesNamed
<1> HIDE DEF a
<1> DEFINE r == [a EXCEPT !.params = params]
<1>2. r \in Reply /\ r.status = 400 /\ r.id = None /\ r.by = "api"
  BY <1>1 DEF Reply
<1>3. QED
  BY <1>2 DEF a

LEMMA ReceiptReply ==
    ASSUME NEW p \in Press
    PROVE  LET r == [ApiReply(202) EXCEPT !.id = p]
           IN  r \in Reply /\ r.status = 202 /\ r.id = p /\ r.by = "api"
<1> DEFINE a == ApiReply(202)
<1>1. a \in Reply /\ a.status = 202 /\ a.by = "api"
  BY ApiReplies, StatusesNamed
<1> HIDE DEF a
<1> DEFINE r == [a EXCEPT !.id = p]
<1>2. r \in Reply /\ r.status = 202 /\ r.id = p /\ r.by = "api"
  BY <1>1 DEF Reply
<1>3. QED
  BY <1>2 DEF a

LEMMA Lost ==
    ASSUME FormInv, NEW p \in Press, Lose(p) PROVE FormInv'
<1> USE DEF Lose
<1>1. wire' = [wire EXCEPT ![p] = "over"] /\ wire[p] = "up"
  OBVIOUS
<1>2. /\ wire' \in [Press -> {"none", "up", "answered", "over"}] /\ wire'[p] = "over"
      /\ \A q \in Press : q # p => wire'[q] = wire[q]
  BY <1>1 DEF FormInv, TypeOK
<1>3. TypeOK'
  <2>1. ServerTypes'
    BY <1>2, Typed DEF FormInv, ServerTypes
  <2>2. DraftTypes' /\ ScreenTypes' /\ CountTypes'
    BY Typed DEF FormInv, formVars, clockVars, DraftTypes, ScreenTypes, CountTypes
  <2>3. QED
    BY <2>1, <2>2, Typed, ElsewhereTypes DEF FormInv
<1>4. WireInv'
  BY <1>1, <1>2 DEF FormInv, WireInv, ReplyIsTrue, WaitIsEnough, formVars
<1>5. QED
  BY <1>3, <1>4 DEF FormInv, DwellInv, ScreenInv, LockInv, formVars, clockVars

\* The proxy and the bucket answer without a row, and never with a wait of the
\* floor's.
LEMMA AnsweredInFront ==
    ASSUME FormInv, NEW p \in Press, ProxyAnswers(p) \/ BucketRefuses(p) PROVE FormInv'
<1>1. CASE ProxyAnswers(p)
  <2>1. PICK status \in {404, 429, 502} :
            Answered(p, [NoReply EXCEPT !.status = status, !.by = "proxy", !.retry = NoWait])
    BY <1>1 DEF ProxyAnswers
  <2>2. PICK r : r = [NoReply EXCEPT !.status = status, !.by = "proxy", !.retry = NoWait]
    OBVIOUS
  <2>3. status \in Statuses /\ NoWait \in -1..MaxRetry
    BY StatusesNamed, FormNumbers DEF NoWait
  <2>4. r \in Reply /\ r.status = status /\ r.id = None /\ r.by = "proxy"
    <3>1. r.status = status /\ r.id = None /\ r.by = "proxy"
      BY <2>2 DEF NoReply
    <3>2. r \in Reply
      <4>1. PICK t : t = [NoReply EXCEPT !.status = status, !.by = "proxy"]
        OBVIOUS
      <4>2. t \in Reply
        BY <2>3, <4>1, Defaults DEF Reply
      <4>3. r = [t EXCEPT !.retry = NoWait]
        BY <2>2, <4>1
      <4>4. QED
        BY <2>3, <4>2, <4>3 DEF Reply
    <3>3. QED
      BY <3>1, <3>2
  <2>5. Answered(p, r) /\ rows' = rows
    BY <1>1, <2>1, <2>2 DEF ProxyAnswers
  <2>6. QED
    BY <2>4, <2>5, AnswerArrives
<1>2. CASE BucketRefuses(p)
  <2>1. PICK retry \in 1..MaxRetry :
            Answered(p, [NoReply EXCEPT !.status = 429, !.by = "bucket", !.retry = retry])
    BY <1>2 DEF BucketRefuses
  <2>2. PICK r : r = [NoReply EXCEPT !.status = 429, !.by = "bucket", !.retry = retry]
    OBVIOUS
  <2>3. 429 \in Statuses /\ retry \in -1..MaxRetry
    BY StatusesNamed, FormNumbers
  <2>4. r \in Reply /\ r.status = 429 /\ r.id = None /\ r.by = "bucket"
    <3>1. r.status = 429 /\ r.id = None /\ r.by = "bucket"
      BY <2>2 DEF NoReply
    <3>2. r \in Reply
      <4>1. PICK t : t = [NoReply EXCEPT !.status = 429, !.by = "bucket"]
        OBVIOUS
      <4>2. t \in Reply
        BY <2>3, <4>1, Defaults DEF Reply
      <4>3. r = [t EXCEPT !.retry = retry]
        BY <2>2, <4>1
      <4>4. QED
        BY <2>3, <4>2, <4>3 DEF Reply
    <3>3. QED
      BY <3>1, <3>2
  <2>5. Answered(p, r) /\ rows' = rows
    BY <1>2, <2>1, <2>2 DEF BucketRefuses
  <2>6. QED
    BY <2>4, <2>5, AnswerArrives
<1>3. QED
  BY <1>1, <1>2

\* A short dwell never arrives, so what is discarded fell for the honeypot.
LEMMA AnsweredWithoutRow ==
    ASSUME FormInv, NEW p \in Press, RefusesOrigin(p) \/ Discard(p) \/ Reject(p) \/ Break(p)
    PROVE  FormInv'
<1>1. CASE RefusesOrigin(p)
  BY <1>1, ApiReplies, StatusesNamed, AnswerArrives DEF RefusesOrigin
<1>2. CASE Discard(p)
  <2>1. bodies[p].dwell = MinDwell
    BY <1>2 DEF FormInv, WireInv, Discard, Answered
  <2>2. bodies[p].company
    BY <1>2, <2>1, FormNumbers DEF Discard, Discards
  <2>3. QED
    BY <1>2, <2>2, ApiReplies, StatusesNamed, AnswerArrives DEF Discard
<1>3. CASE Reject(p)
  <2> DEFINE r == [ApiReply(400) EXCEPT !.params = InvalidParams(bodies[p])]
  <2>1. InvalidParams(bodies[p]) \subseteq Param
    BY DEF InvalidParams, Refused, Param
  <2>2. r \in Reply /\ r.status = 400 /\ r.id = None /\ r.by = "api"
    BY <2>1, RejectReply
  <2>3. Answered(p, r) /\ rows' = rows
    BY <1>3 DEF Reject
  <2> HIDE DEF r
  <2>4. QED
    BY <2>2, <2>3, AnswerArrives
<1>4. CASE Break(p)
  BY <1>4, ApiReplies, StatusesNamed, AnswerArrives DEF Break
<1>5. QED
  BY <1>1, <1>2, <1>3, <1>4

LEMMA Stored ==
    ASSUME FormInv, NEW p \in Press, Store(p) PROVE FormInv'
<1>1. PICK r \in Reply : /\ Answered(p, r)
                         /\ r.by = "api" /\ r.status \in {202, 502}
                         /\ r.id \in {None, p} /\ (r.status = 202 => r.id = p)
  <2>1. CASE Answered(p, ApiReply(502))
    BY <2>1, ApiReplies, StatusesNamed
  <2>2. CASE Answered(p, [ApiReply(202) EXCEPT !.id = p])
    <3> DEFINE r == [ApiReply(202) EXCEPT !.id = p]
    <3>1. r \in Reply /\ r.status = 202 /\ r.id = p /\ r.by = "api"
      BY ReceiptReply
    <3>2. Answered(p, r)
      BY <2>2
    <3> HIDE DEF r
    <3>3. QED
      BY <3>1, <3>2
  <2>3. QED
    BY <2>1, <2>2 DEF Store
<1>2. /\ rows'[p] = 0 /\ rows' \in [Press -> -1..AgeCap]
      /\ \A q \in Press : q # p => rows'[q] = rows[q]
  BY FormNumbers DEF Store, FormInv, TypeOK
<1>3. r.by # "floor" /\ r.status \notin {400, 429} /\ r.id \in {None, p}
  BY <1>1
<1>4. r.status = 202 => r.id = p /\ rows'[p] = 0
  BY <1>1, <1>2
<1>5. QED
  BY <1>1, <1>2, <1>3, <1>4, AnswerArrives
-----------------------------------------------------------------------------
LEMMA Division ==
    ASSUME NEW a \in Nat, NEW b \in Nat, b >= 1
    PROVE  a \div b \in Nat /\ b * (a \div b) <= a /\ a < b * (a \div b) + b
<1>1. a = b * (a \div b) + (a % b) /\ a \div b \in Int /\ a % b \in 0..(b - 1)
  OBVIOUS
<1>2. a \div b >= 0
  OBVIOUS
<1>3. QED
  BY <1>1, <1>2

\* The wait the floor states: a second at least, the window at most, and less
\* than half a second short.
LEMMA WaitIsRounded ==
    ASSUME FormInv, Oldest \in Press, rows[Oldest] # NoRow
    PROVE  /\ RetryAfter \in 1..MaxRetry
           /\ 2 * (AgeCap - rows[Oldest]) <= 2 * (Sub * RetryAfter) + Sub - 1
<1> USE FormNumbers
<1>1. /\ FloorWait \in Nat /\ FloorWait >= Sub /\ FloorWait <= AgeCap
      /\ AgeCap - rows[Oldest] <= FloorWait
  BY DEF FormInv, TypeOK, FloorWait, NoRow
<1> DEFINE f == FloorWait
           w == RetryAfter
<1>2. /\ w \in Nat /\ (2 * Sub) * w <= 2 * f + Sub /\ 2 * f + Sub < (2 * Sub) * w + 2 * Sub
  <2>1. 2 * f + Sub \in Nat /\ 2 * Sub \in Nat /\ 2 * Sub >= 1
    BY <1>1
  <2> HIDE DEF f
  <2>2. QED
    BY <2>1, Division DEF RetryAfter, f
<1> HIDE DEF f, w
<1>3. (2 * Sub) * w = 2 * (Sub * w)
  BY <1>2
<1>4. Sub * w \in Nat /\ f \in Nat /\ f >= Sub /\ f <= Window * Sub
  BY <1>1, <1>2 DEF f
<1>5. w >= 1
  BY <1>2, <1>3, <1>4
<1>6. w <= Window
  <2> SUFFICES ASSUME w >= Window + 1 PROVE FALSE
    BY <1>2
  <2>1. Sub * w >= Sub * (Window + 1)
    BY <1>2
  <2>2. Sub * (Window + 1) = Window * Sub + Sub
    OBVIOUS
  <2>3. QED
    BY <1>2, <1>3, <1>4, <2>1, <2>2
<1>7. 2 * f <= 2 * (Sub * w) + Sub - 1
  BY <1>2, <1>3, <1>4
<1>8. QED
  BY <1>1, <1>2, <1>5, <1>6, <1>7 DEF f, w, FormInv, TypeOK


\* There is an oldest row inside the window where there is one at all.
LEMMA OldestIsThere ==
    ASSUME FormInv, OverLimit
    PROVE  Oldest \in Press /\ rows[Oldest] # NoRow
<1> USE FormNumbers
<1>1. Recent # {}
  <2>1. Cardinality({}) = 0
    BY FS_EmptySet
  <2>2. QED
    BY <2>1, FormAssumption DEF OverLimit
<1> DEFINE Lefts == {AgeCap - rows[p] : p \in Recent}
<1>2. Lefts \subseteq Nat /\ Lefts # {}
  <2>1. \A p \in Recent : rows[p] \in Nat /\ rows[p] < AgeCap
    BY DEF Recent, FormInv, TypeOK, NoRow
  <2>2. \A p \in Recent : AgeCap - rows[p] \in Nat
    BY <2>1
  <2>3. QED
    BY <1>1, <2>2
<1>3. PICK m \in Lefts : \A n \in Lefts : ~(<<n, m>> \in OpToRel(<, Nat))
  BY <1>2, NatLessThanWellFounded, WFMin
<1>4. \A n \in Lefts : ~(n < m)
  BY <1>2, <1>3, Zenon DEF OpToRel
<1>5. PICK p \in Recent : m = AgeCap - rows[p]
  OBVIOUS
<1>6. \A q \in Recent : rows[q] <= rows[p]
  <2> SUFFICES ASSUME NEW q \in Recent PROVE rows[q] <= rows[p]
    OBVIOUS
  <2>1. AgeCap - rows[q] \in Lefts
    OBVIOUS
  <2>2. ~(AgeCap - rows[q] < AgeCap - rows[p])
    BY <1>4, <1>5, <2>1
  <2>3. rows[p] \in Int /\ rows[q] \in Int
    BY DEF Recent, FormInv, TypeOK
  <2>4. QED
    BY <2>2, <2>3
<1>7. Oldest \in Recent
  BY <1>5, <1>6 DEF Oldest
<1>8. QED
  BY <1>7 DEF Recent

LEMMA FloorAnswers ==
    ASSUME FormInv, NEW p \in Press, FloorRefuses(p) PROVE FormInv'
<1>1. Oldest \in Press /\ rows[Oldest] # NoRow
  BY OldestIsThere DEF FloorRefuses
<1>2. /\ RetryAfter \in 1..MaxRetry
      /\ 2 * (AgeCap - rows[Oldest]) <= 2 * (Sub * RetryAfter) + Sub - 1
  BY <1>1, WaitIsRounded
<1> DEFINE q == Oldest
           w == RetryAfter
<1>3. Answered(p, [NoReply EXCEPT !.status = 429, !.by = "floor", !.retry = w, !.oldest = q])
  BY DEF FloorRefuses
<1>4. w \in -1..MaxRetry /\ w >= 1
  BY <1>2, FormNumbers
<1> HIDE DEF q, w
<1>5. /\ q \in Press /\ rows[q] # NoRow /\ w >= 1
      /\ 2 * (AgeCap - rows[q]) <= 2 * (Sub * w) + Sub - 1
  BY <1>1, <1>2, <1>4 DEF q, w
<1>6. PICK r : r = [NoReply EXCEPT !.status = 429, !.by = "floor", !.retry = w, !.oldest = q]
  OBVIOUS
<1>7. r.status = 429 /\ r.id = None /\ r.by = "floor" /\ r.retry = w /\ r.oldest = q
  BY <1>6 DEF NoReply
<1>8. r \in Reply
  <2>1. PICK t : t = [NoReply EXCEPT !.status = 429, !.by = "floor"]
    OBVIOUS
  <2>2. t \in Reply
    <3>1. 429 \in Statuses
      BY StatusesNamed
    <3>2. QED
      BY <2>1, <3>1, Defaults DEF Reply
  <2>3. r = [t EXCEPT !.retry = w, !.oldest = q]
    BY <1>6, <2>1
  <2>4. QED
    BY <1>4, <1>5, <2>2, <2>3 DEF Reply
<1>9. Answered(p, r) /\ rows' = rows
  BY <1>3, <1>6 DEF FloorRefuses
<1>10. /\ r.oldest \in Press /\ rows[r.oldest] # NoRow /\ r.retry >= 1
       /\ 2 * (AgeCap - rows[r.oldest]) <= 2 * (Sub * r.retry) + Sub - 1
  BY <1>5, <1>7
<1>11. r.status = 429 /\ r.id = None
  BY <1>7
<1>12. QED
  BY <1>8, <1>9, <1>10, <1>11, AnswerArrives

LEMMA Served ==
    ASSUME FormInv, NEW p \in Press, Serve(p) PROVE FormInv'
  BY Lost, AnsweredInFront, AnsweredWithoutRow, FloorAnswers, Stored DEF Serve
-----------------------------------------------------------------------------
\* A request that has been answered once, and heard, is over.
LEMMA WireOver ==
    ASSUME FormInv, NEW p \in Press, wire[p] = "answered", wire' = [wire EXCEPT ![p] = "over"],
           UNCHANGED <<presses, rows, bodies, reply>>
    PROVE  WireInv' /\ ServerTypes'
<1>1. /\ wire' \in [Press -> {"none", "up", "answered", "over"}] /\ wire'[p] = "over"
      /\ \A q \in Press : q # p => wire'[q] = wire[q]
  BY DEF FormInv, TypeOK
<1>2. ServerTypes'
  BY <1>1, Typed DEF FormInv, ServerTypes
<1>3. WireInv'
  <2> SUFFICES ASSUME NEW q \in Press
               PROVE  /\ wire'[q] = "none" <=> q > presses
                      /\ wire'[q] \in {"none", "up"} => rows[q] = NoRow /\ reply[q] = NoReply
                      /\ wire'[q] # "none" => bodies[q].dwell = MinDwell
                      /\ ReplyIsTrue(q) /\ WaitIsEnough(q)
    BY DEF WireInv, ReplyIsTrue, WaitIsEnough
  <2>1. QED
    BY <1>1 DEF FormInv, WireInv
<1>4. QED
  BY <1>2, <1>3

LEMMA PressAccepted ==
    ASSUME FormInv, Accept PROVE FormInv'
<1> USE DEF Accept
<1>1. presses \in Press /\ sentBody = bodies[presses] /\ sentBody.ts = presses
  BY DEF FormInv, ScreenInv
<1>2. WireInv' /\ ServerTypes'
  BY <1>1, WireOver
<1>3. reply[presses] \in Reply
  BY <1>1, Typed DEF FormInv, ServerTypes
<1>4. ScreenTypes'
  <2>1. answer' \in [of : Press \cup {None}, status : Statuses \cup {-1}]
    BY <1>1, StatusesNamed
  <2>2. QED
    BY <1>3, <2>1, Typed DEF FormInv, ScreenTypes, Phases, Reply
<1>5. CountTypes' /\ WorldTypes'
  BY Typed, ElsewhereTypes, FormNumbers DEF FormInv, CountTypes, Rendered
<1>6. DraftTypes'
  BY Typed DEF FormInv, DraftTypes
<1>7. QED
  BY <1>1, <1>2, <1>4, <1>5, <1>6, Typed DEF FormInv, DwellInv, ScreenInv, LockInv

\* What the page makes of a failure: the lock begins with what is left of the
\* second, and nothing else is of another press.
LEMMA FailureShown ==
    ASSUME FormInv, phase = "awaiting", NEW status \in Statuses, NEW params \in SUBSET Param,
           NEW retry \in -1..MaxRetry, FailWith(status, params, retry), WireInv', ServerTypes',
           status = 0 \/ (status = reply[presses].status /\ retry = reply[presses].retry)
    PROVE  FormInv'
<1> USE FormNumbers DEF FailWith
<1>1. presses \in Press /\ sentBody = bodies[presses] /\ sentBody.ts = presses
  BY DEF FormInv, ScreenInv
<1>2. left' \in -1..MaxRetry
  BY DEF HeldWait, DeadlineSecond, NoWait
<1>3. ScreenTypes'
  <2>1. answer' \in [of : Press \cup {None}, status : Statuses \cup {-1}]
    BY <1>1
  <2>2. invalid' \subseteq Param
    OBVIOUS
  <2>3. QED
    BY <1>2, <2>1, <2>2, Typed DEF FormInv, ScreenTypes, Phases
<1>4. CountTypes' /\ WorldTypes'
  BY Typed, ElsewhereTypes DEF FormInv, CountTypes, Rendered
<1>5. DraftTypes'
  BY Typed DEF FormInv, DraftTypes
<1>6. ScreenInv' /\ DwellInv'
  BY <1>1 DEF ScreenInv, DwellInv
<1>7. LockInv'
  <2> SUFFICES ASSUME status = 429, reply[presses].by = "floor"
               PROVE  LET wait == AgeCap - rows[reply[presses].oldest] IN
                      /\ left' >= 0
                      /\ wait = 0 \/ 2 * wait + 2 * frac <= 2 * (Sub * left') + 3 * Sub - 3
    BY DEF LockInv
  <2>1. WaitIsEnough(presses)
    BY <1>1 DEF FormInv, WireInv
  <2>2. retry = reply[presses].retry /\ retry >= 1
    BY <2>1 DEF WaitIsEnough
  <2>3. left' = retry
    BY <2>2 DEF HeldWait, DeadlineSecond, NoWait
  <2>4. /\ rows[reply[presses].oldest] \in Int /\ frac \in Int /\ frac <= Sub - 1
        /\ 2 * (AgeCap - rows[reply[presses].oldest]) <= 2 * (Sub * retry) + Sub - 1
    <3>1. PICK o \in Press : o = reply[presses].oldest
      BY <2>1 DEF WaitIsEnough
    <3>2. frac \in Int /\ frac <= Sub - 1
      BY DEF FormInv, TypeOK
    <3>3. rows[reply[presses].oldest] \in Int
      <4>1. rows[o] \in -1..AgeCap
        BY Typed DEF FormInv, ServerTypes
      <4>2. QED
        BY <3>1, <4>1
    <3>4. 2 * (AgeCap - rows[reply[presses].oldest])
             <= 2 * (Sub * reply[presses].retry) + Sub - 1
      BY <2>1 DEF WaitIsEnough
    <3>5. QED
      BY <2>2, <3>2, <3>3, <3>4
  <2>5. QED
    BY <2>2, <2>3, <2>4
<1>8. QED
  BY <1>3, <1>4, <1>5, <1>6, <1>7, Typed DEF FormInv

LEMMA PressFails ==
    ASSUME FormInv, Fail \/ GiveUp PROVE FormInv'
<1>1. CASE Fail
  <2> USE <1>1 DEF Fail
  <2>1. presses \in Press
    BY DEF FormInv, ScreenInv
  <2>2. WireInv' /\ ServerTypes'
    BY <2>1, WireOver DEF FailWith
  <2>3. reply[presses] \in Reply
    BY <2>1, Typed DEF FormInv, ServerTypes
  <2>4. /\ reply[presses].status \in Statuses /\ reply[presses].params \in SUBSET Param
        /\ reply[presses].retry \in -1..MaxRetry
    BY <2>3 DEF Reply
  <2>5. QED
    BY <2>2, <2>4, FailureShown
<1>2. CASE GiveUp
  <2> USE <1>2 DEF GiveUp
  <2>1. UNCHANGED <<presses, serverVars>>
    BY DEF FailWith, serverVars
  <2>2. WireInv' /\ ServerTypes'
    BY <2>1, WireKept, ElsewhereTypes DEF FormInv
  <2>3. 0 \in Statuses /\ NoWait \in -1..MaxRetry
    BY FormNumbers DEF Statuses, NoWait
  <2>4. QED
    BY <2>2, <2>3, FailureShown
<1>3. QED
  BY <1>1, <1>2

\* The parts of a second.
LEMMA NextPart ==
    ASSUME NEW f \in 0..(Sub - 1)
    PROVE  (f + 1) % Sub = IF f + 1 = Sub THEN 0 ELSE f + 1
<1> USE FormNumbers
<1>1. /\ f + 1 = Sub * ((f + 1) \div Sub) + ((f + 1) % Sub)
      /\ (f + 1) \div Sub \in Int /\ (f + 1) % Sub \in 0..(Sub - 1)
  OBVIOUS
<1> DEFINE q == (f + 1) \div Sub
           r == (f + 1) % Sub
<1>2. q \in Int /\ r \in 0..(Sub - 1) /\ f + 1 = Sub * q + r
  BY <1>1
<1> HIDE DEF q, r
<1>3. q >= 0
  <2> SUFFICES ASSUME q <= -1 PROVE FALSE
    BY <1>2
  <2>1. Sub * q <= Sub * (-1)
    BY <1>2
  <2>2. QED
    BY <1>2, <2>1
<1>4. q <= 1
  <2> SUFFICES ASSUME q >= 2 PROVE FALSE
    BY <1>2
  <2>1. Sub * q >= Sub * 2
    BY <1>2
  <2>2. QED
    BY <1>2, <2>1
<1>5. q = 0 => r = f + 1
  BY <1>2
<1>6. q = 1 => f + 1 = Sub /\ r = 0
  BY <1>2
<1>7. QED
  BY <1>2, <1>3, <1>4, <1>5, <1>6 DEF r

LEMMA Ages ==
    ASSUME NEW age \in -1..AgeCap
    PROVE  /\ Older(age) \in -1..AgeCap
           /\ age = NoRow <=> Older(age) = NoRow
           /\ age # NoRow => \/ age = AgeCap /\ Older(age) = AgeCap
                             \/ age < AgeCap /\ Older(age) = age + 1
  BY FormNumbers DEF Older, NoRow

\* Time takes from the floor's wait what it takes from the lock: a part at a
\* time here, a second at the end of each second there.
LEMMA PartPasses ==
    ASSUME FormInv, Tick PROVE FormInv'
<1> USE FormNumbers
<1>1. \A p \in Press : rows[p] \in -1..AgeCap
  BY DEF FormInv, TypeOK
<1>2. /\ rows' \in [Press -> -1..AgeCap]
      /\ \A p \in Press : /\ rows[p] = NoRow <=> rows'[p] = NoRow
                          /\ rows[p] # NoRow => \/ rows[p] = AgeCap /\ rows'[p] = AgeCap
                                                \/ rows[p] < AgeCap /\ rows'[p] = rows[p] + 1
  BY <1>1, Ages DEF Tick
<1>3. frac \in 0..(Sub - 1) /\ left \in -1..MaxRetry
  BY DEF FormInv, TypeOK
<1>4. \/ /\ frac = Sub - 1 /\ frac' = 0 /\ lag' \in 0..1
         /\ left' = IF left > 0 THEN left - 1 ELSE left
      \/ frac' = frac + 1 /\ frac' < Sub /\ left' = left /\ lag' = lag
  BY <1>3, NextPart DEF Tick
<1>5. left' \in -1..MaxRetry /\ frac' \in 0..(Sub - 1) /\ lag' \in 0..1
  BY <1>3, <1>4 DEF FormInv, TypeOK
<1>6. TypeOK'
  <2>1. ServerTypes'
    BY <1>2, Typed DEF FormInv, Tick, ServerTypes
  <2>2. ScreenTypes' /\ CountTypes' /\ WorldTypes'
    BY <1>5, Typed, ElsewhereTypes DEF FormInv, Tick, ScreenTypes, CountTypes
  <2>3. DraftTypes'
    BY Typed DEF FormInv, Tick, DraftTypes
  <2>4. QED
    BY <2>1, <2>2, <2>3, Typed
<1>7. UNCHANGED <<wire, bodies, reply, presses, phase, answer, sentBody, receipt, elapsed, attempt>>
  BY DEF Tick
<1>8. WireInv'
  <2> SUFFICES ASSUME NEW p \in Press
               PROVE  /\ wire[p] = "none" <=> p > presses
                      /\ wire[p] \in {"none", "up"} => rows'[p] = NoRow /\ reply[p] = NoReply
                      /\ wire[p] # "none" => bodies[p].dwell = MinDwell
                      /\ ReplyIsTrue(p)' /\ WaitIsEnough(p)'
    BY <1>7 DEF WireInv
  <2>1. ReplyIsTrue(p)'
    BY <1>2, <1>7 DEF FormInv, WireInv, ReplyIsTrue
  <2>2. WaitIsEnough(p)'
    <3> SUFFICES ASSUME reply[p].by = "floor"
                 PROVE  /\ reply[p].status = 429 /\ reply[p].retry >= 1
                        /\ reply[p].oldest \in Press /\ rows'[reply[p].oldest] # NoRow
                        /\ 2 * (AgeCap - rows'[reply[p].oldest])
                              <= 2 * (Sub * reply[p].retry) + Sub - 1
      BY <1>7 DEF WaitIsEnough
    <3>1. WaitIsEnough(p)
      BY DEF FormInv, WireInv
    <3> DEFINE q == reply[p].oldest
    <3>2. /\ q \in Press /\ rows[q] # NoRow /\ reply[p].status = 429 /\ reply[p].retry >= 1
          /\ 2 * (AgeCap - rows[q]) <= 2 * (Sub * reply[p].retry) + Sub - 1
      BY <3>1 DEF WaitIsEnough
    <3>3. rows[q] \in Int /\ rows'[q] \in Int /\ rows'[q] >= rows[q] /\ rows'[q] # NoRow
      <4>1. q \in Press /\ rows[q] # NoRow
        BY <3>2
      <4> HIDE DEF q
      <4>2. \/ rows[q] = AgeCap /\ rows'[q] = AgeCap
            \/ rows[q] < AgeCap /\ rows'[q] = rows[q] + 1
        BY <1>2, <4>1
      <4>3. rows[q] \in -1..AgeCap
        BY <1>1, <4>1
      <4>4. rows'[q] # NoRow
        BY <1>2, <4>1
      <4>5. QED
        BY <4>2, <4>3, <4>4
    <3>4. reply[p].retry \in Int
      BY Typed DEF FormInv, ServerTypes, Reply
    <3> HIDE DEF q
    <3>5. QED
      BY <3>2, <3>3, <3>4 DEF q
  <2>3. QED
    BY <1>2, <2>1, <2>2 DEF FormInv, WireInv
<1>9. LockInv'
  <2> SUFFICES ASSUME phase = "failed", answer.status = 429, reply[presses].by = "floor"
               PROVE  LET wait == AgeCap - rows'[reply[presses].oldest] IN
                      /\ left' >= 0
                      /\ wait = 0 \/ 2 * wait + 2 * frac' <= 2 * (Sub * left') + 3 * Sub - 3
    BY <1>7 DEF LockInv
  <2> DEFINE q == reply[presses].oldest
  <2>1. q \in Press /\ rows[q] # NoRow
    <3>1. WaitIsEnough(presses)
      BY DEF FormInv, ScreenInv, WireInv
    <3>2. QED
      BY <3>1 DEF WaitIsEnough
  <2>2. /\ left >= 0
        /\ \/ AgeCap - rows[q] = 0
           \/ 2 * (AgeCap - rows[q]) + 2 * frac <= 2 * (Sub * left) + 3 * Sub - 3
    BY DEF FormInv, LockInv
  <2> HIDE DEF q
  <2>3. rows[q] \in Int /\ rows'[q] \in Int /\ rows[q] <= AgeCap
    <3>1. rows[q] \in -1..AgeCap
      BY <1>1, <2>1
    <3>2. rows'[q] \in -1..AgeCap
      BY <1>2, <2>1
    <3>3. QED
      BY <3>1, <3>2
  <2>4. left' >= 0
    BY <1>3, <1>4, <2>2
  <2>5. CASE rows[q] = AgeCap
    <3>1. rows'[q] = AgeCap
      BY <1>2, <2>1, <2>3, <2>5
    <3>2. QED
      BY <2>4, <3>1 DEF q
  <2>6. CASE rows[q] < AgeCap
    <3>1. /\ AgeCap - rows'[q] = (AgeCap - rows[q]) - 1
          /\ 2 * (AgeCap - rows[q]) + 2 * frac <= 2 * (Sub * left) + 3 * Sub - 3
      BY <1>2, <2>1, <2>2, <2>3, <2>6
    <3>2. CASE frac' = frac + 1 /\ left' = left
      BY <1>3, <2>3, <2>4, <3>1, <3>2 DEF q
    <3>3. CASE frac = Sub - 1 /\ frac' = 0 /\ left > 0 /\ left' = left - 1
      <4>1. Sub * left' = Sub * left - Sub
        BY <1>3, <3>3
      <4>2. Sub * left \in Int
        BY <1>3
      <4>3. QED
        BY <1>3, <2>3, <2>4, <3>1, <3>3, <4>1, <4>2 DEF q
    <3>4. CASE frac = Sub - 1 /\ frac' = 0 /\ left = 0 /\ left' = left
      BY <1>3, <2>3, <2>4, <3>1, <3>4 DEF q
    <3>5. QED
      BY <1>3, <1>4, <2>2, <3>2, <3>3, <3>4
  <2>7. QED
    BY <2>3, <2>5, <2>6
<1>10. QED
  BY <1>6, <1>7, <1>8, <1>9 DEF FormInv, DwellInv, ScreenInv
-----------------------------------------------------------------------------
LEMMA FormStep == FormInv /\ [Next]_vars => FormInv'
<1> SUFFICES ASSUME FormInv, [Next]_vars PROVE FormInv'
  OBVIOUS
<1>1. CASE UNCHANGED vars
  <2>1. ServerTypes' /\ WorldTypes' /\ WireInv'
    BY <1>1, ElsewhereTypes, WireKept DEF FormInv, vars, formVars
  <2>2. DraftTypes' /\ ScreenTypes' /\ CountTypes'
    BY <1>1, Typed DEF FormInv, vars, formVars, clockVars, DraftTypes, ScreenTypes, CountTypes
  <2>3. QED
    BY <1>1, <2>1, <2>2, Typed
    DEF FormInv, vars, formVars, clockVars, serverVars, DwellInv, ScreenInv, LockInv
<1>2. CASE Next
  BY <1>2, VisitorTypes, SecondDrawn, PageRefuses, PressBegins, DwellSlept, PressDeparts, Served,
     PressAccepted, PressFails, PartPasses, FormNumbers
  DEF Next
<1>3. QED
  BY <1>1, <1>2

LEMMA FormAlways == Spec => []FormInv
  BY FormInit, FormStep, PTL DEF Spec

\* Until the hidden field changes, it is what the press took with it, and what
\* left.
TrapInv ==
    ~touched => /\ phase = "dwelling" => trap = honeypot
                /\ phase \in {"awaiting", "accepted", "failed"} => sentBody.company = honeypot

LEMMA TrapAlways == Spec => []TrapInv
<1>1. Init => TrapInv
  BY DEF Init, TrapInv
<1>2. TrapInv /\ [Next]_vars => TrapInv'
  <2> SUFFICES ASSUME TrapInv, [Next]_vars PROVE TrapInv'
    OBVIOUS
  <2> USE DEF TrapInv
  <2>1. CASE UNCHANGED <<phase, trap, honeypot, sentBody, touched>>
    BY <2>1
  <2>2. CASE ChangeTrap
    BY <2>2 DEF ChangeTrap
  <2>3. CASE SubmitInvalid \/ Submit
    BY <2>3 DEF SubmitInvalid, Submit
  <2>4. CASE Depart
    BY <2>4 DEF Depart, BuildBody
  <2>5. CASE Accept \/ Fail \/ GiveUp
    BY <2>5 DEF Accept, Fail, GiveUp, FailWith
  <2>6. ASSUME NEW p \in Press, Serve(p) PROVE TrapInv'
    <3>1. UNCHANGED formVars
      BY <2>6 DEF Serve, Lose, ProxyAnswers, BucketRefuses, RefusesOrigin, Discard, Reject,
         FloorRefuses, Store, Break, Answered
    <3>2. QED
      BY <2>1, <3>1 DEF formVars
  <2>7. CASE UNCHANGED vars
    BY <2>1, <2>7 DEF vars, formVars
  <2>8. CASE Sleep \/ Tick \/ DrawSecond \/ \E d \in Drafts : Type(d)
    BY <2>1, <2>8 DEF Sleep, Tick, DrawSecond, Type, formVars
  <2>9. QED
    BY <2>2, <2>3, <2>4, <2>5, <2>6, <2>7, <2>8 DEF Next
<1>3. QED
  BY <1>1, <1>2, PTL DEF Spec
-----------------------------------------------------------------------------
(***************************************************************************)
(* What the form promises                                                  *)
(***************************************************************************)

\* Every variable of the form has its type, whatever is typed, pressed, lost
\* or refused: no press beyond the bound, no wait beyond the api's longest.
THEOREM TypeCorrect == Spec => []TypeOK
<1>1. FormInv => TypeOK
  BY DEF FormInv
<1>2. QED
  BY <1>1, FormAlways, PTL

\* Without the honeypot, a receipt on the screen is the id of the row the
\* request on the screen left: the dwell loop outlasts every early timer, so
\* the api never discards a visitor's message (discardReason).
THEOREM ReceiptNamesARowHolds == Spec => []ReceiptNamesARow
<1>1. FormInv => ReceiptNamesARow
  <2> SUFFICES ASSUME FormInv, phase = "accepted", ~sentBody.company
               PROVE  receipt = sentBody.ts /\ rows[receipt] # NoRow
    BY DEF ReceiptNamesARow
  <2>1. /\ presses \in Press /\ sentBody = bodies[presses] /\ sentBody.ts = presses
        /\ reply[presses].status = 202 /\ receipt = reply[presses].id
    BY DEF FormInv, ScreenInv
  <2>2. ReplyIsTrue(presses)
    BY <2>1 DEF FormInv, WireInv
  <2>3. QED
    BY <2>1, <2>2 DEF ReplyIsTrue
<1>2. QED
  BY <1>1, FormAlways, PTL

\* Body, status, receipt and log lines on the screen are of one request, the
\* last that left; a local refusal shows none (submit's order of assignments).
\* The line about the honeypot is of that request until the hidden field changes
\* (ContactForm.tsx passes the field as it is now).
THEOREM ScreenIsOneSendHolds == Spec => []ScreenIsOneSend
<1>1. FormInv /\ TrapInv => ScreenIsOneSend
  <2> SUFFICES ASSUME FormInv, TrapInv PROVE ScreenIsOneSend
    OBVIOUS
  <2>0. /\ None \notin Press
        /\ HoneypotLine \in {"honeypot filled", "honeypot empty"}
        /\ honeypot \in BOOLEAN /\ (HoneypotLine = "honeypot filled" <=> honeypot)
    BY FormNumbers DEF HoneypotLine, FormInv, TypeOK
  <2>1. phase \in Phases
    BY DEF FormInv, TypeOK
  <2>2. CASE phase \in {"rest", "invalid", "dwelling"}
    <3>1. answer.of = None /\ sentBody.ts = None
      BY <2>2 DEF FormInv, ScreenInv, NoAnswer, NoBody
    <3>2. SessionLines = CASE phase = "rest" -> {}
                           [] phase = "invalid" -> {"validating"}
                           [] phase = "dwelling" -> {HoneypotLine, "post"}
      BY <2>2, <3>1 DEF SessionLines, State, Sending, SentLines
    <3>3. "receipt" \notin SessionLines /\ "status" \notin SessionLines
      BY <2>0, <2>2, <3>2
    <3>4. Panel # "sent"
      BY <3>1 DEF Panel
    <3>5. phase = "invalid" => SessionLines = {"validating"}
      BY <3>2
    <3>6. QED
      BY <3>1, <3>3, <3>4, <3>5 DEF ScreenIsOneSend
  <2>3. CASE phase \in {"awaiting", "accepted", "failed"}
    <3>1. presses \in Press /\ sentBody.ts = presses
      BY <2>3 DEF FormInv, ScreenInv
    <3>2. answer.of \in {None, presses}
      BY <2>3 DEF FormInv, ScreenInv, NoAnswer
    <3>3. Panel = "sent"
      BY <2>0, <3>1 DEF Panel
    <3>4. phase = "accepted" => receipt \in {None, presses}
      <4>1. ReplyIsTrue(presses)
        BY <3>1 DEF FormInv, WireInv
      <4>2. QED
        BY <4>1 DEF FormInv, ScreenInv, ReplyIsTrue
    <3>5. /\ SentLines \subseteq SessionLines
          /\ SessionLines \subseteq SentLines \cup AnsweredLines
      <4>1. phase = "awaiting" => answer.of = None
        BY DEF FormInv, ScreenInv, NoAnswer
      <4>2. phase \in {"accepted", "failed"} => answer.of = presses
        BY DEF FormInv, ScreenInv
      <4>3. QED
        BY <2>0, <2>3, <3>1, <4>1, <4>2 DEF SessionLines, State, Sending
    <3>6. "receipt" \in SessionLines => receipt = presses
      <4>1. "receipt" \in SessionLines => "receipt" \in AnsweredLines
        BY <2>0, <3>5 DEF SentLines
      <4>2. "receipt" \in AnsweredLines => receipt # None /\ answer.of # None
        BY DEF AnsweredLines
      <4>3. answer.of # None => phase \in {"accepted", "failed"}
        BY <2>3 DEF FormInv, ScreenInv, NoAnswer
      <4>4. phase = "failed" => receipt = None
        BY DEF FormInv, ScreenInv
      <4>5. QED
        BY <3>4, <4>1, <4>2, <4>3, <4>4
    <3>7. "honeypot filled" \in SessionLines <=> honeypot
      <4>1. "honeypot filled" \notin AnsweredLines
        BY DEF AnsweredLines
      <4>2. "honeypot filled" \in SentLines <=> honeypot
        BY <2>0 DEF SentLines
      <4>3. QED
        BY <3>5, <4>1, <4>2
    <3>8. ~touched => (honeypot <=> sentBody.company)
      BY <2>3 DEF TrapInv
    <3>9. QED
      BY <2>3, <3>1, <3>2, <3>3, <3>6, <3>7, <3>8 DEF ScreenIsOneSend
  <2>4. QED
    BY <2>1, <2>2, <2>3 DEF Phases
<1>2. QED
  BY <1>1, FormAlways, TrapAlways, PTL

\* Refused, rate limited and the like leave no row of that request, also when
\* it arrives after the page gave it up; "stored" has one (StatusText).
THEOREM SentenceIsTrueHolds == Spec => []SentenceIsTrue
<1>1. FormInv => SentenceIsTrue
  <2> SUFFICES ASSUME FormInv, answer.of # None
               PROVE  /\ Sentence \in {"invalid", "refused", "rateLimited"} =>
                            rows[answer.of] = NoRow
                      /\ Sentence = "providerDown" =>
                            rows[answer.of] # NoRow \/ reply[answer.of].by = "proxy"
    BY DEF SentenceIsTrue
  <2>1. phase \in {"accepted", "failed"}
    BY DEF FormInv, TypeOK, Phases, ScreenInv, NoAnswer
  <2>2. CASE phase = "accepted"
    BY <2>2 DEF Sentence, Sending
  <2>3. CASE phase = "failed"
    <3>1. presses \in Press /\ answer.of = presses /\ answer.status \in {0, reply[presses].status}
      BY <2>3 DEF FormInv, ScreenInv
    <3>2. ReplyIsTrue(presses)
      BY <3>1 DEF FormInv, WireInv
    <3>3. Sentence = SentenceOf(answer.status, invalid)
      BY <2>3 DEF Sentence, Sending
    <3>4. /\ Sentence \in {"invalid", "refused"} => answer.status = 400
          /\ Sentence = "rateLimited" => answer.status = 429
          /\ Sentence = "providerDown" => answer.status = 502
      BY <3>3 DEF SentenceOf
    <3>5. QED
      BY <3>1, <3>2, <3>4 DEF ReplyIsTrue
  <2>4. QED
    BY <2>1, <2>2, <2>3
<1>2. QED
  BY <1>1, FormAlways, PTL

\* When the button comes back after the floor's 429, less than a second and a
\* half of the floor's window is left (overLimit's rounding, deadlineSecond).
THEOREM LockMatchesFloorHolds == Spec => []LockMatchesFloor
<1>1. FormInv => LockMatchesFloor
  <2> SUFFICES ASSUME FormInv, phase = "failed", answer.of # None, answer.status = 429, ~Waiting,
                      reply[answer.of].by = "floor"
               PROVE  2 * (AgeCap - rows[reply[answer.of].oldest]) < 3 * Sub
    BY DEF LockMatchesFloor
  <2>1. answer.of = presses /\ presses \in Press
    BY DEF FormInv, ScreenInv
  <2>2. /\ left >= 0
        /\ \/ AgeCap - rows[reply[presses].oldest] = 0
           \/ 2 * (AgeCap - rows[reply[presses].oldest]) + 2 * frac
                 <= 2 * (Sub * left) + 3 * Sub - 3
    BY <2>1 DEF FormInv, LockInv
  <2>3. left = 0
    BY <2>2 DEF Waiting, NoWait, FormInv, TypeOK
  <2>4. WaitIsEnough(presses)
    BY <2>1 DEF FormInv, WireInv
  <2>5. PICK o \in Press : o = reply[presses].oldest
    BY <2>1, <2>4 DEF WaitIsEnough
  <2>6. rows[o] \in -1..AgeCap /\ frac \in 0..(Sub - 1)
    BY DEF FormInv, TypeOK
  <2>7. QED
    BY <2>1, <2>2, <2>3, <2>5, <2>6, FormNumbers
<1>2. QED
  BY <1>1, FormAlways, PTL

\* Two validators, one order of reasons: a value without U+0085 at its edges is
\* the same text for both, and of what the page calls no address the api takes
\* only what is beyond ASCII (validate.ts, validate.go).
LEMMA MirrorOfEveryDraft ==
    ASSUME NEW d, {d.name, d.email, d.message} \subseteq Text, d.shape \in Shape
    PROVE  LocalRefusalIsTheApis(d)
<1> SUFFICES ASSUME NEW f \in Refused(PageReasons(d)), d[f].pad # "nel"
             PROVE  \/ ApiReasons(d)[f] = PageReasons(d)[f]
                    \/ f = "email" /\ BeyondAscii(d) /\ PageReasons(d).email = "not an address"
  BY DEF LocalRefusalIsTheApis
<1>1. f \in Field /\ PageReasons(d)[f] # "ok"
  BY DEF Refused
<1>2. CASE f = "name"
  <2> DEFINE name == TrimmedByApi(d.name)
  <2>1. TrimmedByPage(d.name) = name
    BY <1>2 DEF TrimmedByPage, TrimmedByApi
  <2>2. ApiReasons(d).name = NameReason(name, name.runes)
    BY DEF ApiReasons, RuneCount
  <2>3. PageReasons(d).name = NameReason(name, name.runes)
    BY <2>1 DEF PageReasons, LengthOf
  <2>4. QED
    BY <1>2, <2>2, <2>3
<1>3. CASE f = "message"
  <2> DEFINE message == TrimmedByApi(d.message)
  <2>1. TrimmedByPage(d.message) = message
    BY <1>3 DEF TrimmedByPage, TrimmedByApi
  <2>2. ApiReasons(d).message = MessageReason(message.runes)
    BY DEF ApiReasons, RuneCount
  <2>3. PageReasons(d).message = MessageReason(message.runes)
    BY <2>1 DEF PageReasons, LengthOf
  <2>4. QED
    BY <1>3, <2>2, <2>3
<1>4. CASE f = "email"
  <2> DEFINE email == TrimmedByApi(d.email)
             n == email.runes + email.wide
             api == ApiDeliverable(email, d.shape)
             page == PageDeliverable(email, d.shape)
  <2>1. TrimmedByPage(d.email) = email
    BY <1>4 DEF TrimmedByPage, TrimmedByApi
  <2>2. ApiReasons(d).email = EmailReason(n, api)
    BY DEF ApiReasons, Bytes
  <2>3. PageReasons(d).email = EmailReason(n, page)
    BY <2>1 DEF PageReasons, LengthOf
  <2>4. email.control = d.email.control
    BY DEF TrimmedByApi, Text
  <2>5. email.control \in Controls /\ d.shape.odd \in {"none", "ascii", "beyond"}
    BY <2>4 DEF Text, Shape
  <2>6. api /\ ~page => BeyondAscii(d)
    BY <2>4, <2>5 DEF ApiDeliverable, PageDeliverable, BeyondAscii, Controls
  <2> HIDE DEF n, api, page
  <2>7. CASE n = 0 \/ n > MaxEmail
    BY <1>4, <2>2, <2>3, <2>7 DEF EmailReason
  <2>8. CASE ~(n = 0 \/ n > MaxEmail)
    BY <1>1, <1>4, <2>2, <2>3, <2>6, <2>8 DEF EmailReason
  <2>9. QED
    BY <2>7, <2>8
<1>5. QED
  BY <1>1, <1>2, <1>3, <1>4 DEF Field

\* A press the page refused itself the api would have refused, field by field
\* for the same reason, on every draft there is to compare, but for U+0085 at an
\* edge and an address with a character beyond ASCII that net/mail takes.
THEOREM MirrorLeansLooseHolds == Spec => []MirrorLeansLoose
<1>1. MirrorIsLoose
  BY MirrorOfEveryDraft, FormAssumption DEF MirrorIsLoose
<1>2. MirrorLeansLoose
  BY <1>1 DEF MirrorLeansLoose
<1>3. QED
  BY <1>2, PTL
=============================================================================
