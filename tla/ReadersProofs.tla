--------------------------- MODULE ReadersProofs ---------------------------
(***************************************************************************)
(* Proofs about Readers, for any number of regions, visitors, keys and     *)
(* lifetimes: a region that says nothing answered waited for a request     *)
(* that failed, and what a region draws is an answer to its question, no   *)
(* older than the lifetime of its entry or, uncached, two deadlines.       *)
(* Then of the site around them: it implements the readers, its tabs       *)
(* remember the theme, its menus agree with what they say, every link it   *)
(* draws is answered, its components agree with the answers they draw, and *)
(* its islands with the rows they narrow.                                  *)
(***************************************************************************)
EXTENDS Header, FiniteSetTheorems, SequenceTheorems, TLAPS

USE ReadersAssumption

\* What stands in a call that was answered; only healthLive sends a validator.
Answered(c) ==
    LET result == call[c].result IN
    call[c].stage = "replied" =>
      \/ /\ result.kind = "ok" /\ result.body \in Replies[Asked(c)]
         /\ gone[result.body] <= call[c].age
      \/ result.kind = "fail" /\ result.body = Null
      \/ /\ result.kind = "not-modified" /\ result.body = Null
         /\ call[c].tag # Null /\ gone[call[c].tag] <= call[c].age
CallOK(c) ==
    /\ Answered(c)
    /\ c \notin Live => call[c].tag = Null
    /\ c \in Region /\ call[c].stage # "idle" => region[c].at = "asking"
CallsOK == \A c \in Caller : CallOK(c)

\* An entry that may be served is an answer, and was the truth no longer ago than
\* it is old; one that expired is not looked at again.
EntryOK(k) ==
    Servable(entry[k], k) => entry[k].body \in Replies[k] /\ gone[entry[k].body] <= entry[k].age
EntriesOK == \A k \in Key : EntryOK(k)

TruthIsNow == \A k \in Key : gone[truth[k]] = 0

\* The memo under a conditional call: it is what the call asked with, or newer than
\* the call plus a deadline, or was emptied by a failure the region has seen.
MemoUnder(r) ==
    call[r].stage # "idle" /\ call[r].tag # Null =>
      /\ lastBody = Null => sawFailure[r]
      /\ \/ lastBody = Null
         \/ lastBody = call[r].tag
         \/ gone[lastBody] <= Timeout + call[r].age
MemoOK ==
    /\ lastEtag = lastBody
    /\ \A r \in Live :
         /\ lastBody # Null => lastBody \in Replies[KeyOf[r]]
         /\ MemoUnder(r)

ReadersInv == TypeOK /\ CallsOK /\ EntriesOK /\ TruthIsNow /\ MemoOK
              /\ DownMeansAFailure /\ DrawnIsAnAnswer

LEMMA Sets ==
    /\ Region \subseteq Caller /\ Key \subseteq Caller /\ Live \subseteq Region
    /\ \A k \in Key : Replies[k] \subseteq Body
    /\ Null \notin Body
    /\ \A c \in Caller : Asked(c) \in Key
    /\ \A k \in Key : k \notin Live /\ k \notin Region /\ Asked(k) = k
    /\ \A r \in Region : Asked(r) = KeyOf[r] /\ KeyOf[r] \in Key
<1>1. \A k \in Key : Replies[k] \subseteq Body
  BY DEF Body
<1>2. Null \notin Body
  BY DEF Body
<1>3. QED
  BY <1>1, <1>2 DEF Caller, Asked

LEMMA CapIsNat == GoneCap \in Nat
<1>1. PICK k \in Key : \A j \in Key : Expire[j] <= Expire[k]
  OBVIOUS
<1>2. Longest \in {Expire[k1] : k1 \in Key}
  <2>1. \E n \in {Expire[k1] : k1 \in Key} : \A k1 \in Key : Expire[k1] <= n
    BY <1>1
  <2>2. QED
    BY <2>1 DEF Longest
<1>3. QED
  BY <1>2 DEF GoneCap

\* What is drawn of an answer.
LEMMA DrawnIs ==
    ASSUME NEW b \in Body \cup {Null}, TypeOK
    PROVE  /\ Drawn(b) \in Shown
           /\ b = Null => Drawn(b).at = "down"
           /\ b # Null => Drawn(b).at = "ok" /\ Drawn(b).body = b /\ Drawn(b).behind = gone[b]
BY DEF Drawn, Blank, Shown, TypeOK
-----------------------------------------------------------------------------
(***************************************************************************)
(* Type correctness                                                        *)
(***************************************************************************)
LEMMA InitTypeOK == Init => TypeOK
<1> SUFFICES ASSUME Init PROVE TypeOK
  OBVIOUS
<1>1. truth \in [Key -> Body] /\ \A k \in Key : truth[k] \in Replies[k]
  <2>1. PICK asked \in [Observed -> UNION {Replies[k] : k \in Observed}] :
            /\ \A k \in Observed : asked[k] \in MaySay(k)
            /\ truth = [k \in Key |-> IF k \in Observed THEN asked[k] ELSE AnAnswer(k)]
    BY DEF Init
  <2>2. \A k \in Key : AnAnswer(k) \in Replies[k]
    BY DEF AnAnswer
  <2>3. \A k \in Key : truth[k] \in Replies[k]
    BY <2>1, <2>2 DEF MaySay
  <2>4. QED
    BY <2>1, <2>3, Sets
<1>2. gone \in [Body -> Nat]
  BY CapIsNat DEF Init
<1>3. entry \in [Key -> Entry] /\ call \in [Caller -> Call] /\ region \in [Region -> Shown]
  BY DEF Init, NoEntry, Entry, Idle, Call, Failed, Result, Blank, Shown
<1>4. QED
  BY <1>1, <1>2, <1>3 DEF Init, TypeOK

LEMMA NextTypeOK == TypeOK /\ [Next]_vars => TypeOK'
<1> SUFFICES ASSUME TypeOK, [Next]_vars PROVE TypeOK'
  OBVIOUS
<1>t. /\ truth \in [Key -> Body] /\ gone \in [Body -> Nat] /\ entry \in [Key -> Entry]
      /\ call \in [Caller -> Call] /\ region \in [Region -> Shown] /\ sawFailure \in [Region -> BOOLEAN]
      /\ \A k \in Key : truth[k] \in Replies[k]
  BY DEF TypeOK
<1>d. \A b \in Body \cup {Null} : Drawn(b) \in Shown
  BY DrawnIs
<1>s. /\ \A tag \in Body \cup {Null} : Sent(tag) \in Call
      /\ Idle \in Call /\ NoEntry \in Entry /\ Failed \in Result /\ NotModified \in Result
      /\ \A b \in Body : Ok(b) \in Result
  BY DEF Sent, Call, Result, Failed, Idle, NoEntry, Entry, NotModified, Ok
<1>r. \A c \in Caller : call[c] \in Call /\ call[c].result \in Result
                         /\ call[c].result.body \in Body \cup {Null} /\ Stored(c) \in Entry
  BY <1>t DEF Call, Result, Stored, Entry
<1>b. \A shown \in {"closed", "waiting"} : Blank(shown) \in Shown
  BY DEF Blank, Shown
<1>1. ASSUME NEW r \in Region, Request(r) PROVE TypeOK'
  <2>1. region' \in [Region -> Shown] /\ sawFailure' \in [Region -> BOOLEAN]
    BY <1>1, <1>t, <1>b DEF Request
  <2>2. QED
    BY <1>1, <2>1 DEF Request, TypeOK, apiVars, cacheVars, memoVars
<1>2. ASSUME NEW r \in Region, Hit(r) PROVE TypeOK'
  <2>1. region' \in [Region -> Shown]
    BY <1>2, <1>t, <1>d, Sets DEF Hit, CacheKey, Entry
  <2>2. call' \in [Caller -> Call]
    BY <1>2, <1>t, <1>s, Sets DEF Hit
  <2>3. QED
    BY <1>2, <2>1, <2>2 DEF Hit, TypeOK, apiVars, cacheVars, memoVars
<1>3. ASSUME NEW r \in Region, Miss(r) PROVE TypeOK'
  <2>1. region' \in [Region -> Shown]
    <3>1. [region[r] EXCEPT !.at = "asking"] \in Shown
      <4>1. region[r] \in Shown
        BY <1>t
      <4>2. QED
        BY <4>1 DEF Shown
    <3>2. region' = [region EXCEPT ![r] = [region[r] EXCEPT !.at = "asking"]]
      BY <1>3, <1>t DEF Miss
    <3>3. QED
      BY <1>t, <3>1, <3>2
  <2>2. call' \in [Caller -> Call]
    BY <1>3, <1>t, <1>s DEF Miss
  <2>3. QED
    BY <1>3, <2>1, <2>2 DEF Miss, TypeOK, apiVars, cacheVars, memoVars
<1>4. ASSUME NEW r \in Region, AskLive(r) PROVE TypeOK'
  <2>1. region' \in [Region -> Shown]
    <3>1. [region[r] EXCEPT !.at = "asking"] \in Shown
      <4>1. region[r] \in Shown
        BY <1>t
      <4>2. QED
        BY <4>1 DEF Shown
    <3>2. region' = [region EXCEPT ![r] = [region[r] EXCEPT !.at = "asking"]]
      BY <1>4, <1>t DEF AskLive
    <3>3. QED
      BY <1>t, <3>1, <3>2
  <2>2. call' \in [Caller -> Call]
    BY <1>4, <1>t, <1>s DEF AskLive, TypeOK
  <2>3. QED
    BY <1>4, <2>1, <2>2 DEF AskLive, TypeOK, apiVars, cacheVars, memoVars
<1>5. ASSUME NEW c \in Caller, ApiAnswers(c) PROVE TypeOK'
  <2>1. truth[Asked(c)] \in Body
    BY <1>t, Sets
  <2>2. PICK result \in Result :
            call' = [call EXCEPT ![c].stage = "replied", ![c].result = result]
    BY <1>5, <1>s, <2>1 DEF ApiAnswers
  <2>3. call' \in [Caller -> Call]
    <3>1. [call[c] EXCEPT !.stage = "replied", !.result = result] \in Call
      BY <1>r, <2>2 DEF Call
    <3>2. call' = [call EXCEPT ![c] = [call[c] EXCEPT !.stage = "replied", !.result = result]]
      BY <1>t, <2>2
    <3>3. QED
      BY <1>t, <3>1, <3>2
  <2>4. QED
    BY <1>5, <2>3 DEF ApiAnswers, TypeOK, apiVars, cacheVars, memoVars
<1>6. ASSUME NEW c \in Caller, ApiFails(c) PROVE TypeOK'
  <2>1. call' \in [Caller -> Call]
    <3>1. [call[c] EXCEPT !.stage = "replied", !.result = Failed] \in Call
      BY <1>r, <1>s DEF Call
    <3>2. call' = [call EXCEPT ![c] = [call[c] EXCEPT !.stage = "replied", !.result = Failed]]
      BY <1>6, <1>t DEF ApiFails
    <3>3. QED
      BY <1>t, <3>1, <3>2
  <2>2. QED
    BY <1>6, <2>1 DEF ApiFails, TypeOK, apiVars, cacheVars, memoVars
<1>7. ASSUME NEW r \in Region, Filled(r) PROVE TypeOK'
  <2>1. region' \in [Region -> Shown]
    BY <1>7, <1>t, <1>d, <1>r, Sets DEF Filled
  <2>2. call' \in [Caller -> Call] /\ sawFailure' \in [Region -> BOOLEAN]
    BY <1>7, <1>t, <1>s DEF Filled
  <2>3. entry' \in [Key -> Entry]
    BY <1>7, <1>t, <1>r, Sets DEF Filled
  <2>4. QED
    BY <1>7, <2>1, <2>2, <2>3 DEF Filled, TypeOK, apiVars, memoVars
<1>8. ASSUME NEW k \in Key, Refreshed(k) PROVE TypeOK'
  <2>1. call' \in [Caller -> Call]
    BY <1>8, <1>t, <1>s DEF Refreshed
  <2>2. entry' \in [Key -> Entry]
    BY <1>8, <1>t, <1>r, Sets DEF Refreshed
  <2>3. QED
    BY <1>8, <2>1, <2>2 DEF Refreshed, TypeOK, apiVars, memoVars
<1>9. ASSUME NEW r \in Region, LiveAnswers(r) PROVE TypeOK'
  <2>1. Memo(call[r].result) \in [etag : Body \cup {Null}, body : Body \cup {Null}]
    BY <1>r, Sets DEF Memo, TypeOK
  <2>2. region' \in [Region -> Shown]
    BY <1>9, <1>t, <1>d, <2>1 DEF LiveAnswers
  <2>3. call' \in [Caller -> Call] /\ sawFailure' \in [Region -> BOOLEAN]
    BY <1>9, <1>t, <1>s DEF LiveAnswers
  <2>4. lastEtag' \in Body \cup {Null} /\ lastBody' \in Body \cup {Null}
    BY <1>9, <2>1 DEF LiveAnswers
  <2>5. QED
    BY <1>9, <2>2, <2>3, <2>4 DEF LiveAnswers, TypeOK, apiVars, cacheVars
<1>10. ASSUME NEW k \in Key, Change(k) PROVE TypeOK'
  <2>1. truth' \in [Key -> Body] /\ gone' \in [Body -> Nat] /\ \A j \in Key : truth'[j] \in Replies[j]
    BY <1>10, <1>t, Sets DEF Change, MaySay
  <2>2. QED
    BY <1>10, <2>1 DEF Change, TypeOK, cacheVars, memoVars
<1>11. CASE Restart
  <2>1. region' \in [Region -> Shown]
    BY <1>11, <1>t, <1>b DEF Restart
  <2>2. entry' \in [Key -> Entry] /\ call' \in [Caller -> Call]
    BY <1>11, <1>s DEF Restart
  <2>3. QED
    BY <1>11, <2>1, <2>2 DEF Restart, TypeOK, apiVars
<1>12. CASE Tick
  <2>1. call' \in [Caller -> Call]
    <3>1. ASSUME NEW c \in Caller PROVE [call[c] EXCEPT !.age = @ + 1] \in Call
      BY <1>12, <1>r DEF Tick, InTime, Call
    <3>2. QED
      BY <1>12, <1>t, <3>1 DEF Tick
  <2>2. entry' \in [Key -> Entry]
    <3>1. ASSUME NEW k \in Key PROVE [entry[k] EXCEPT !.age = @ + 1] \in Entry
      BY <1>t DEF Entry
    <3>2. QED
      BY <1>12, <1>t, <3>1 DEF Tick
  <2>3. gone' \in [Body -> Nat]
    BY <1>12, <1>t DEF Tick
  <2>4. QED
    BY <1>12, <2>1, <2>2, <2>3 DEF Tick, TypeOK, memoVars
<1>13. CASE UNCHANGED vars
  BY <1>13 DEF vars, apiVars, cacheVars, memoVars, TypeOK
<1>14. QED
  BY <1>1, <1>2, <1>3, <1>4, <1>5, <1>6, <1>7, <1>8, <1>9, <1>10, <1>11, <1>12, <1>13 DEF Next
-----------------------------------------------------------------------------
(***************************************************************************)
(* How long ago an answer was the truth                                    *)
(***************************************************************************)

\* What is true now is no time ago; no step makes an answer older by more than a tick.
LEMMA GoneGrows ==
    ASSUME TypeOK, TruthIsNow, [Next]_vars
    PROVE  TruthIsNow' /\ \A b \in Body : gone'[b] <= gone[b] + 1
<1>t. truth \in [Key -> Body] /\ gone \in [Body -> Nat]
  BY DEF TypeOK
<1>1. ASSUME UNCHANGED <<truth, gone>> PROVE TruthIsNow' /\ \A b \in Body : gone'[b] <= gone[b] + 1
  BY <1>1, <1>t DEF TruthIsNow
<1>2. ASSUME NEW k \in Key, Change(k) PROVE TruthIsNow' /\ \A b \in Body : gone'[b] <= gone[b] + 1
  BY <1>2, <1>t, Sets DEF Change, MaySay, TruthIsNow
<1>3. ASSUME Tick PROVE TruthIsNow' /\ \A b \in Body : gone'[b] <= gone[b] + 1
  BY <1>3, <1>t, CapIsNat DEF Tick, TruthIsNow
<1>4. CASE UNCHANGED vars
  BY <1>1, <1>4 DEF vars, apiVars
<1>5. CASE Next
  <2>1. \/ UNCHANGED <<truth, gone>>
        \/ \E k \in Key : Change(k)
        \/ Tick
    BY <1>5 DEF Next, Request, Hit, Miss, AskLive, Filled, LiveAnswers, ApiAnswers, ApiFails,
                Refreshed, Restart, apiVars
  <2>2. QED
    BY <1>1, <1>2, <1>3, <2>1
<1>6. QED
  BY <1>4, <1>5

\* When the api's answer changes, the new one is no time ago and the others keep their age.
LEMMA ChangeIsYounger ==
    ASSUME TypeOK, NEW k \in Key, Change(k)
    PROVE  \A b \in Body : gone'[b] <= gone[b]
BY DEF TypeOK, Change
-----------------------------------------------------------------------------
(***************************************************************************)
(* The calls                                                               *)
(***************************************************************************)
\* A call nobody touches stays right while nothing grows older than it.
LEMMA CallKept ==
    ASSUME TypeOK, TypeOK', NEW c \in Caller, CallOK(c), call'[c] = call[c],
           \A b \in Body : gone'[b] <= gone[b],
           c \in Region /\ call[c].stage # "idle" => region'[c].at = "asking"
    PROVE  CallOK(c)'
<1>1. call[c].age \in Nat /\ call[c].tag \in Body \cup {Null} /\ gone \in [Body -> Nat] /\ gone' \in [Body -> Nat]
  BY DEF TypeOK, Call
<1>2. QED
  BY <1>1, Sets DEF CallOK, Answered

LEMMA CallsKept ==
    ASSUME ReadersInv, [Next]_vars
    PROVE  CallsOK'
<1>i. TypeOK /\ CallsOK /\ TruthIsNow /\ TypeOK'
  BY NextTypeOK DEF ReadersInv
<1>t. /\ gone \in [Body -> Nat] /\ gone' \in [Body -> Nat] /\ call \in [Caller -> Call]
      /\ region \in [Region -> Shown] /\ lastEtag \in Body \cup {Null}
  BY <1>i DEF TypeOK
<1>c. SUFFICES ASSUME NEW c \in Caller PROVE CallOK(c)'
  BY DEF CallsOK
<1>o. CallOK(c)
  BY <1>i DEF CallsOK
<1>k. ASSUME gone' = gone, call'[c] = call[c],
             c \in Region /\ call[c].stage # "idle" => region'[c].at = "asking"
      PROVE  CallOK(c)'
  <2>1. \A b \in Body : gone'[b] <= gone[b]
    BY <1>k, <1>t
  <2>2. QED
    BY <1>k, <1>i, <1>o, <2>1, CallKept
<1>n. ASSUME call'[c] = Idle \/ (call'[c].stage = "sent" /\ (c \in Region => region'[c].at = "asking")),
             c \notin Live => call'[c].tag = Null
      PROVE  CallOK(c)'
  BY <1>n DEF CallOK, Answered, Idle
<1>1. ASSUME NEW r \in Region, Request(r) PROVE CallOK(c)'
  <2>1. c \in Region /\ call[c].stage # "idle" => region'[c].at = "asking"
    BY <1>1, <1>o, <1>t DEF Request, CallOK
  <2>2. QED
    BY <1>1, <1>k, <2>1 DEF Request, apiVars
<1>2. ASSUME NEW r \in Region, Hit(r) PROVE CallOK(c)'
  <2>1. c \in Region /\ call[c].stage # "idle" => region'[c].at = "asking"
    BY <1>2, <1>o, <1>t DEF Hit, CallOK
  <2>2. CASE call'[c] = call[c]
    BY <1>2, <1>k, <2>1, <2>2 DEF Hit, apiVars
  <2>3. CASE call'[c] # call[c]
    <3>1. c = KeyOf[r] /\ call'[c] = Sent(Null)
      BY <1>2, <1>t, <2>3 DEF Hit, CacheKey
    <3>2. QED
      BY <1>n, <3>1, Sets DEF Sent
  <2>4. QED
    BY <2>2, <2>3
<1>3. ASSUME NEW r \in Region, Miss(r) PROVE CallOK(c)'
  <2>1. CASE c = r
    <3>1. call'[c] = Sent(Null) /\ region'[c].at = "asking"
      BY <1>3, <1>t, <2>1, Sets DEF Miss, Shown
    <3>2. QED
      BY <1>n, <3>1 DEF Sent
  <2>2. CASE c # r
    BY <1>3, <1>o, <1>t, <1>k, <2>2 DEF Miss, CallOK, apiVars
  <2>3. QED
    BY <2>1, <2>2
<1>4. ASSUME NEW r \in Region, AskLive(r) PROVE CallOK(c)'
  <2>1. CASE c = r
    <3>1. call'[c] = Sent(lastEtag) /\ region'[c].at = "asking" /\ c \in Live
      BY <1>4, <1>t, <2>1, Sets DEF AskLive, Shown
    <3>2. QED
      BY <1>n, <3>1 DEF Sent
  <2>2. CASE c # r
    BY <1>4, <1>o, <1>t, <1>k, <2>2 DEF AskLive, CallOK, apiVars
  <2>3. QED
    BY <2>1, <2>2
<1>5. ASSUME NEW d \in Caller, ApiAnswers(d) PROVE CallOK(c)'
  <2>1. CASE c = d
    <3> DEFINE b == truth[Asked(d)]
    <3>1. b \in Replies[Asked(d)] /\ b \in Body /\ gone[b] = 0
      BY <1>i, Sets DEF TypeOK, TruthIsNow
    <3>2. call[d].age \in Nat /\ call[d].tag \in Body \cup {Null} /\ call[d] \in Call
      BY <1>t DEF Call
    <3>3. /\ call'[d] = [call[d] EXCEPT !.stage = "replied",
                                       !.result = IF call[d].tag = b THEN NotModified ELSE Ok(b)]
          /\ gone' = gone /\ region' = region /\ call[d].stage = "sent"
      BY <1>5, <1>t DEF ApiAnswers, apiVars
    <3>4. /\ call'[d].stage = "replied" /\ call'[d].age = call[d].age /\ call'[d].tag = call[d].tag
          /\ call'[d].result = IF call[d].tag = b THEN NotModified ELSE Ok(b)
      BY <3>2, <3>3 DEF Call
    <3>5. Answered(d)'
      BY <3>1, <3>2, <3>3, <3>4, Sets DEF Answered, NotModified, Ok
    <3>6. QED
      BY <1>o, <2>1, <3>3, <3>4, <3>5 DEF CallOK
  <2>2. CASE c # d
    BY <1>5, <1>o, <1>t, <1>k, <2>2 DEF ApiAnswers, CallOK, apiVars
  <2>3. QED
    BY <2>1, <2>2
<1>6. ASSUME NEW d \in Caller, ApiFails(d) PROVE CallOK(c)'
  <2>1. CASE c = d
    <3>1. call[d] \in Call
      BY <1>t
    <3>2. /\ call'[d] = [call[d] EXCEPT !.stage = "replied", !.result = Failed]
          /\ gone' = gone /\ region' = region /\ call[d].stage = "sent"
      BY <1>6, <1>t DEF ApiFails, apiVars
    <3>3. call'[d].stage = "replied" /\ call'[d].tag = call[d].tag /\ call'[d].result = Failed
      BY <3>1, <3>2 DEF Call
    <3>4. QED
      BY <1>o, <2>1, <3>2, <3>3 DEF CallOK, Answered, Failed
  <2>2. CASE c # d
    BY <1>6, <1>o, <1>t, <1>k, <2>2 DEF ApiFails, CallOK, apiVars
  <2>3. QED
    BY <2>1, <2>2
<1>7. ASSUME NEW r \in Region, Filled(r) PROVE CallOK(c)'
  <2>1. CASE c = r
    BY <1>7, <1>t, <1>n, <2>1, Sets DEF Filled, Idle
  <2>2. CASE c # r
    BY <1>7, <1>o, <1>t, <1>k, <2>2 DEF Filled, CallOK, apiVars
  <2>3. QED
    BY <2>1, <2>2
<1>8. ASSUME NEW k \in Key, Refreshed(k) PROVE CallOK(c)'
  <2>1. CASE c = k
    BY <1>8, <1>t, <1>n, <2>1, Sets DEF Refreshed, Idle
  <2>2. CASE c # k
    BY <1>8, <1>o, <1>t, <1>k, <2>2 DEF Refreshed, CallOK, apiVars
  <2>3. QED
    BY <2>1, <2>2
<1>9. ASSUME NEW r \in Region, LiveAnswers(r) PROVE CallOK(c)'
  <2>1. CASE c = r
    BY <1>9, <1>t, <1>n, <2>1, Sets DEF LiveAnswers, Idle
  <2>2. CASE c # r
    BY <1>9, <1>o, <1>t, <1>k, <2>2 DEF LiveAnswers, CallOK, apiVars
  <2>3. QED
    BY <2>1, <2>2
<1>10. ASSUME NEW k \in Key, Change(k) PROVE CallOK(c)'
  <2>1. \A b \in Body : gone'[b] <= gone[b]
    BY <1>10, <1>i, ChangeIsYounger
  <2>2. call' = call /\ region' = region
    BY <1>10 DEF Change
  <2>3. QED
    BY <1>i, <1>o, <2>1, <2>2, CallKept DEF CallOK
<1>11. CASE Restart
  BY <1>11, <1>n DEF Restart, Idle
<1>12. CASE Tick
  <2>1. \A b \in Body : gone'[b] <= gone[b] + 1
    BY <1>i, GoneGrows
  <2>2. region' = region
    BY <1>12 DEF Tick
  <2>3. CASE call[c].stage = "idle"
    BY <1>12, <1>n, <1>o, <2>2, <2>3 DEF Tick, CallOK, Answered
  <2>4. CASE call[c].stage # "idle"
    <3>1. call[c] \in Call /\ call[c].age \in Nat /\ call[c].tag \in Body \cup {Null}
      BY <1>t DEF Call
    <3>2. call'[c] = [call[c] EXCEPT !.age = @ + 1]
      BY <1>12, <2>4 DEF Tick
    <3>3. /\ call'[c].age = call[c].age + 1 /\ call'[c].stage = call[c].stage
          /\ call'[c].tag = call[c].tag /\ call'[c].result = call[c].result
      BY <3>1, <3>2 DEF Call
    <3>4. Answered(c)'
      BY <1>o, <1>t, <2>1, <3>1, <3>3, Sets DEF CallOK, Answered
    <3>5. QED
      BY <1>o, <2>2, <3>3, <3>4 DEF CallOK
  <2>5. QED
    BY <2>3, <2>4
<1>13. CASE UNCHANGED vars
  BY <1>13, <1>k, <1>o DEF vars, apiVars, CallOK
<1>14. QED
  BY <1>1, <1>2, <1>3, <1>4, <1>5, <1>6, <1>7, <1>8, <1>9, <1>10, <1>11, <1>12, <1>13 DEF Next
-----------------------------------------------------------------------------
(***************************************************************************)
(* The cache                                                               *)
(***************************************************************************)

\* What a fill or a refresh stores answers its key, and is no older than the call.
LEMMA StoredOK ==
    ASSUME ReadersInv, NEW c \in Caller, call[c].stage = "replied", Stores(call[c].result)
    PROVE  /\ Stored(c).body \in Replies[Asked(c)]
           /\ Stored(c).age = call[c].age
           /\ gone[Stored(c).body] <= call[c].age
<1>1. Answered(c)
  BY DEF ReadersInv, CallsOK, CallOK
<1>2. QED
  BY <1>1 DEF Answered, Stores, Stored

LEMMA EntriesKept ==
    ASSUME ReadersInv, [Next]_vars
    PROVE  EntriesOK'
<1>i. TypeOK /\ EntriesOK /\ TruthIsNow
  BY DEF ReadersInv
<1>t. /\ gone \in [Body -> Nat] /\ entry \in [Key -> Entry] /\ call \in [Caller -> Call]
  BY <1>i DEF TypeOK
<1>k. SUFFICES ASSUME NEW k \in Key PROVE EntryOK(k)'
  BY DEF EntriesOK
<1>o. EntryOK(k)
  BY <1>i DEF EntriesOK
<1>u. ASSUME UNCHANGED <<gone, entry>> PROVE EntryOK(k)'
  BY <1>o, <1>u DEF EntryOK, Servable
<1>s. ASSUME NEW c \in Caller, call[c].stage = "replied", gone' = gone,
             entry' = IF Stores(call[c].result) THEN [entry EXCEPT ![Asked(c)] = Stored(c)] ELSE entry
      PROVE  EntryOK(k)'
  <2>1. CASE Stores(call[c].result) /\ Asked(c) = k
    <3>1. entry'[k] = Stored(c)
      BY <1>s, <1>t, <2>1
    <3>2. QED
      BY <1>s, <2>1, <3>1, StoredOK DEF EntryOK
  <2>2. CASE ~Stores(call[c].result) \/ Asked(c) # k
    BY <1>o, <1>s, <1>t, <2>2 DEF EntryOK, Servable
  <2>3. QED
    BY <2>1, <2>2
<1>1. CASE \E r \in Region : Request(r) \/ Hit(r) \/ Miss(r) \/ AskLive(r) \/ LiveAnswers(r)
  BY <1>1, <1>u DEF Request, Hit, Miss, AskLive, LiveAnswers, apiVars, cacheVars
<1>2. CASE \E c \in Caller : ApiAnswers(c) \/ ApiFails(c)
  BY <1>2, <1>u DEF ApiAnswers, ApiFails, apiVars, cacheVars
<1>3. ASSUME NEW r \in Region, Filled(r) PROVE EntryOK(k)'
  BY <1>3, <1>s, Sets DEF Filled, CacheKey, apiVars
<1>4. ASSUME NEW j \in Key, Refreshed(j) PROVE EntryOK(k)'
  BY <1>4, <1>s, Sets DEF Refreshed, CacheKey, apiVars
<1>5. ASSUME NEW j \in Key, Change(j) PROVE EntryOK(k)'
  <2>1. \A b \in Body : gone'[b] <= gone[b] /\ gone'[b] \in Nat
    BY <1>5, <1>i, <1>t, ChangeIsYounger DEF Change
  <2>2. entry' = entry /\ entry[k].age \in Int
    BY <1>5, <1>t DEF Change, cacheVars, Entry
  <2>3. QED
    BY <1>o, <1>t, <2>1, <2>2, Sets DEF EntryOK, Servable
<1>6. CASE Restart
  BY <1>6 DEF Restart, NoEntry, EntryOK, Servable
<1>7. CASE Tick
  <2>1. \A b \in Body : gone'[b] <= gone[b] + 1 /\ gone'[b] \in Nat
    BY <1>7, <1>i, <1>t, GoneGrows, NextTypeOK DEF TypeOK
  <2>2. entry[k] \in Entry /\ entry[k].age \in Int
    BY <1>t DEF Entry
  <2>3. CASE Servable(entry[k], k)
    <3>1. entry'[k] = [entry[k] EXCEPT !.age = @ + 1]
      BY <1>7, <2>3 DEF Tick
    <3>2. entry'[k].age = entry[k].age + 1 /\ entry'[k].body = entry[k].body
      BY <2>2, <3>1 DEF Entry
    <3>3. QED
      BY <1>o, <1>t, <2>1, <2>2, <2>3, <3>2, Sets DEF EntryOK
  <2>4. CASE ~Servable(entry[k], k)
    BY <1>7, <2>4 DEF Tick, EntryOK, Servable
  <2>5. QED
    BY <2>3, <2>4
<1>8. CASE UNCHANGED vars
  BY <1>8, <1>u DEF vars, apiVars, cacheVars
<1>9. QED
  BY <1>1, <1>2, <1>3, <1>4, <1>5, <1>6, <1>7, <1>8 DEF Next
-----------------------------------------------------------------------------
(***************************************************************************)
(* The memo                                                                *)
(***************************************************************************)
\* What the memo holds after healthLive's answer.
LEMMA MemoAfter ==
    ASSUME ReadersInv, NEW r \in Live, call[r].stage = "replied"
    PROVE  LET after == Memo(call[r].result) IN
           /\ after.etag = after.body
           /\ after.body \in Body \cup {Null}
           /\ after.body # Null => after.body \in Replies[KeyOf[r]] /\ gone[after.body] <= 2 * Timeout
           /\ call[r].result.kind = "fail" => after.body = Null
           /\ call[r].result.kind = "ok" => after.body # Null /\ gone[after.body] <= Timeout
           /\ call[r].result.kind \notin {"ok", "fail"} => after.body = lastBody
           /\ after.body = Null => call[r].result.kind = "fail" \/ sawFailure[r]
<1>1. Answered(r) /\ MemoOK /\ TypeOK
  BY Sets DEF ReadersInv, CallsOK, CallOK
<1>2. r \in Region /\ r \in Caller /\ Asked(r) = KeyOf[r] /\ KeyOf[r] \in Key
  BY Sets
<1>3. /\ gone \in [Body -> Nat] /\ call[r].age \in 0..Timeout /\ call[r].tag \in Body \cup {Null}
      /\ lastBody \in Body \cup {Null}
  BY <1>1, <1>2 DEF TypeOK, Call
<1>4. MemoUnder(r) /\ lastEtag = lastBody /\ (lastBody # Null => lastBody \in Replies[KeyOf[r]])
  BY <1>1 DEF MemoOK, MemoUnder
<1>5. CASE call[r].result.kind = "ok"
  <2>1. Memo(call[r].result) = [etag |-> call[r].result.body, body |-> call[r].result.body]
    BY <1>5 DEF Memo
  <2>2. call[r].result.body \in Replies[KeyOf[r]] /\ gone[call[r].result.body] <= call[r].age
    BY <1>1, <1>2, <1>5 DEF Answered
  <2>3. QED
    BY <1>2, <1>3, <1>5, <2>1, <2>2, Sets
<1>6. CASE call[r].result.kind = "fail"
  BY <1>6 DEF Memo
<1>7. CASE call[r].result.kind = "not-modified"
  <2>1. Memo(call[r].result) = [etag |-> lastEtag, body |-> lastBody]
    BY <1>7 DEF Memo
  <2>2. call[r].tag # Null /\ gone[call[r].tag] <= call[r].age
    BY <1>1, <1>7 DEF Answered
  <2>3. lastBody # Null => gone[lastBody] <= 2 * Timeout
    BY <1>3, <1>4, <2>2 DEF MemoUnder
  <2>4. lastBody = Null => sawFailure[r]
    BY <1>4, <2>2 DEF MemoUnder
  <2>5. QED
    BY <1>3, <1>4, <1>7, <2>1, <2>3, <2>4
<1>8. call[r].result.kind \in {"ok", "fail", "not-modified"}
  BY <1>1 DEF Answered
<1>9. QED
  BY <1>5, <1>6, <1>7, <1>8

\* One conditional call under way, through a step.
LEMMA MemoUnderKept ==
    ASSUME ReadersInv, [Next]_vars, NEW r \in Live
    PROVE  MemoUnder(r)'
<1>i. TypeOK /\ CallsOK /\ MemoOK /\ TruthIsNow /\ TypeOK'
  BY NextTypeOK DEF ReadersInv
<1>t. /\ gone \in [Body -> Nat] /\ gone' \in [Body -> Nat] /\ call \in [Caller -> Call]
      /\ lastBody \in Body \cup {Null} /\ lastBody' \in Body \cup {Null}
      /\ region \in [Region -> Shown] /\ sawFailure \in [Region -> BOOLEAN]
  BY <1>i DEF TypeOK
<1>r. r \in Region /\ r \in Caller /\ r \notin Key
  BY Sets
<1>c. call[r] \in Call /\ call[r].age \in Nat /\ call[r].tag \in Body \cup {Null}
  BY <1>t, <1>r DEF Call
<1>a. call[r].stage # "idle" => region[r].at = "asking"
  BY <1>i, <1>r DEF CallsOK, CallOK
<1>m. lastEtag = lastBody /\ MemoUnder(r)
  BY <1>i DEF MemoOK
<1>e. gone' = gone => \A b \in Body : gone'[b] <= gone[b]
  BY <1>t
\* The memo stays, and so does the call.
<1>u. ASSUME lastBody' = lastBody,
             \A b \in Body : gone'[b] <= gone[b],
             call[r].stage # "idle" /\ sawFailure[r] => sawFailure'[r],
             call'[r].stage # "idle" => call[r].stage # "idle",
             call'[r].tag = call[r].tag, call'[r].age = call[r].age
      PROVE  MemoUnder(r)'
  <2> SUFFICES ASSUME call'[r].stage # "idle", call'[r].tag # Null
               PROVE  /\ lastBody = Null => sawFailure'[r]
                      /\ \/ lastBody = Null
                         \/ lastBody = call[r].tag
                         \/ gone'[lastBody] <= Timeout + call[r].age
    BY <1>u DEF MemoUnder
  <2>1. lastBody = Null => sawFailure'[r]
    BY <1>m, <1>u DEF MemoUnder
  <2>2. \/ lastBody = Null \/ lastBody = call[r].tag \/ gone[lastBody] <= Timeout + call[r].age
    BY <1>m, <1>u DEF MemoUnder
  <2>3. lastBody # Null => gone'[lastBody] <= gone[lastBody] /\ gone'[lastBody] \in Nat /\ gone[lastBody] \in Nat
    BY <1>t, <1>u
  <2>4. QED
    BY <1>c, <2>1, <2>2, <2>3
<1>1. ASSUME NEW q \in Region, Request(q) PROVE MemoUnder(r)'
  <2>1. call[r].stage # "idle" => q # r
    BY <1>1, <1>a DEF Request
  <2>2. q # r => sawFailure'[r] = sawFailure[r]
    BY <1>1, <1>r, <1>t DEF Request
  <2>3. call' = call /\ lastBody' = lastBody /\ gone' = gone
    BY <1>1 DEF Request, apiVars, memoVars
  <2>4. QED
    BY <1>e, <1>u, <2>1, <2>2, <2>3
<1>2. ASSUME NEW q \in Region, Hit(q) PROVE MemoUnder(r)'
  <2>1. call'[r] = call[r]
    BY <1>2, <1>t, <1>r, Sets DEF Hit, CacheKey
  <2>2. sawFailure' = sawFailure /\ lastBody' = lastBody /\ gone' = gone
    BY <1>2 DEF Hit, apiVars, memoVars
  <2>3. QED
    BY <1>e, <1>u, <2>1, <2>2
<1>3. ASSUME NEW q \in Region, Miss(q) PROVE MemoUnder(r)'
  <2>1. call'[r] = call[r]
    BY <1>3, <1>t, <1>r DEF Miss
  <2>2. sawFailure' = sawFailure /\ lastBody' = lastBody /\ gone' = gone
    BY <1>3 DEF Miss, apiVars, memoVars
  <2>3. QED
    BY <1>e, <1>u, <2>1, <2>2
<1>4. ASSUME NEW q \in Region, AskLive(q) PROVE MemoUnder(r)'
  <2>1. sawFailure' = sawFailure /\ lastBody' = lastBody /\ gone' = gone
    BY <1>4 DEF AskLive, apiVars, memoVars
  <2>2. CASE q = r
    <3>1. call'[r] = Sent(lastBody)
      BY <1>4, <1>t, <1>r, <1>m, <2>2 DEF AskLive
    <3>2. QED
      BY <2>1, <3>1 DEF MemoUnder, Sent
  <2>3. CASE q # r
    <3>1. call'[r] = call[r]
      BY <1>4, <1>t, <1>r, <2>3 DEF AskLive
    <3>2. QED
      BY <1>e, <1>u, <2>1, <3>1
  <2>4. QED
    BY <2>2, <2>3
<1>5. ASSUME NEW c \in Caller, NEW x,
             call[c].stage = "sent", call' = [call EXCEPT ![c].stage = "replied", ![c].result = x],
             UNCHANGED <<apiVars, memoVars, sawFailure>>
      PROVE  MemoUnder(r)'
  <2>1. gone' = gone /\ lastBody' = lastBody /\ sawFailure' = sawFailure
    BY <1>5 DEF apiVars, memoVars
  <2>2. CASE r = c
    <3>1. call'[r] = [call[r] EXCEPT !.stage = "replied", !.result = x]
      BY <1>5, <1>t, <1>r, <2>2
    <3>2. call'[r].tag = call[r].tag /\ call'[r].age = call[r].age
      BY <1>c, <3>1 DEF Call
    <3>3. QED
      BY <1>5, <1>e, <1>u, <2>1, <2>2, <3>2
  <2>3. CASE r # c
    <3>1. call'[r] = call[r]
      BY <1>5, <1>t, <1>r, <2>3
    <3>2. QED
      BY <1>e, <1>u, <2>1, <3>1
  <2>4. QED
    BY <2>2, <2>3
<1>6. ASSUME NEW q \in Region, Filled(q) PROVE MemoUnder(r)'
  <2>1. call'[r] = call[r] /\ sawFailure'[r] = sawFailure[r]
    BY <1>6, <1>t, <1>r DEF Filled
  <2>2. lastBody' = lastBody /\ gone' = gone
    BY <1>6 DEF Filled, apiVars, memoVars
  <2>3. QED
    BY <1>e, <1>u, <2>1, <2>2
<1>7. ASSUME NEW k \in Key, Refreshed(k) PROVE MemoUnder(r)'
  <2>1. call'[r] = call[r]
    BY <1>7, <1>t, <1>r DEF Refreshed
  <2>2. sawFailure' = sawFailure /\ lastBody' = lastBody /\ gone' = gone
    BY <1>7 DEF Refreshed, apiVars, memoVars
  <2>3. QED
    BY <1>e, <1>u, <2>1, <2>2
<1>8. ASSUME NEW q \in Region, LiveAnswers(q) PROVE MemoUnder(r)'
  <2> DEFINE result == call[q].result
             after == Memo(result)
  <2>1. q \in Live /\ call[q].stage = "replied" /\ gone' = gone /\ lastBody' = after.body
    BY <1>8 DEF LiveAnswers, apiVars
  <2>2. /\ result.kind = "ok" => after.body # Null /\ gone[after.body] <= Timeout
        /\ result.kind \notin {"ok", "fail"} => after.body = lastBody
        /\ result.kind = "fail" => after.body = Null
    BY <2>1, MemoAfter
  <2>3. sawFailure'[r] = (\/ sawFailure[r]
                          \/ result.kind = "fail" /\ (r = q \/ (r \in Live /\ region[r].at = "asking")))
    BY <1>8, <1>r DEF LiveAnswers
  <2>4. call'[r] = IF r = q THEN Idle ELSE call[r]
    BY <1>8, <1>r, <1>t DEF LiveAnswers
  <2> HIDE DEF after, result
  <2>5. CASE r = q
    BY <2>4, <2>5 DEF MemoUnder, Idle
  <2>6. CASE r # q
    <3>1. call'[r] = call[r]
      BY <2>4, <2>6
    <3>2. CASE result.kind = "ok"
      <4>1. after.body \in Body /\ gone'[after.body] \in Nat
        BY <1>t, <2>1, <2>2, <3>2
      <4>2. gone'[lastBody'] <= Timeout + call'[r].age
        BY <1>c, <2>1, <2>2, <3>1, <3>2, <4>1
      <4>3. QED
        BY <2>1, <2>2, <3>2, <4>2 DEF MemoUnder
    <3>3. CASE result.kind = "fail"
      <4>1. call[r].stage # "idle" => sawFailure'[r]
        BY <1>a, <2>3, <3>3
      <4>2. lastBody' = Null
        BY <2>1, <2>2, <3>3
      <4>3. QED
        BY <3>1, <4>1, <4>2 DEF MemoUnder
    <3>4. CASE result.kind \notin {"ok", "fail"}
      <4>1. sawFailure[r] => sawFailure'[r]
        BY <2>3
      <4>2. lastBody' = lastBody
        BY <2>1, <2>2, <3>4
      <4>3. QED
        BY <1>e, <1>u, <2>1, <3>1, <4>1, <4>2
    <3>5. QED
      BY <3>2, <3>3, <3>4
  <2>7. QED
    BY <2>5, <2>6
<1>9. ASSUME NEW k \in Key, Change(k) PROVE MemoUnder(r)'
  <2>1. \A b \in Body : gone'[b] <= gone[b]
    BY <1>9, <1>i, ChangeIsYounger
  <2>2. sawFailure' = sawFailure /\ lastBody' = lastBody /\ call' = call
    BY <1>9 DEF Change, memoVars
  <2>3. QED
    BY <1>u, <2>1, <2>2
<1>10. CASE Restart
  BY <1>10, <1>r DEF Restart, Idle, MemoUnder
<1>11. CASE Tick
  <2>1. \A b \in Body : gone'[b] <= gone[b] + 1
    BY <1>i, GoneGrows
  <2>2. lastBody' = lastBody /\ sawFailure' = sawFailure
    BY <1>11 DEF Tick, memoVars
  <2>3. CASE call[r].stage = "idle"
    <3>1. call'[r] = call[r]
      BY <1>11, <1>r, <2>3 DEF Tick
    <3>2. QED
      BY <2>3, <3>1 DEF MemoUnder
  <2>4. CASE call[r].stage # "idle"
    <3>1. call'[r] = [call[r] EXCEPT !.age = @ + 1]
      BY <1>11, <1>r, <2>4 DEF Tick
    <3>2. call'[r].tag = call[r].tag /\ call'[r].age = call[r].age + 1
      BY <1>c, <3>1 DEF Call
    <3>3. lastBody # Null => gone'[lastBody] <= gone[lastBody] + 1 /\ gone'[lastBody] \in Nat /\ gone[lastBody] \in Nat
      BY <1>t, <2>1
    <3>4. call[r].tag # Null =>
            /\ lastBody = Null => sawFailure[r]
            /\ lastBody = Null \/ lastBody = call[r].tag \/ gone[lastBody] <= Timeout + call[r].age
      BY <1>m, <2>4 DEF MemoUnder
    <3>5. call[r].tag # Null =>
            lastBody = Null \/ lastBody = call[r].tag \/ gone'[lastBody] <= Timeout + (call[r].age + 1)
      BY <1>c, <3>3, <3>4
    <3>6. QED
      BY <2>2, <3>2, <3>4, <3>5 DEF MemoUnder
  <2>5. QED
    BY <2>3, <2>4
<1>12. CASE UNCHANGED vars
  BY <1>12, <1>e, <1>u DEF vars, apiVars, memoVars
<1>13. ASSUME NEW c \in Caller, ApiAnswers(c) \/ ApiFails(c) PROVE MemoUnder(r)'
  <2>1. PICK x : call' = [call EXCEPT ![c].stage = "replied", ![c].result = x]
    BY <1>13 DEF ApiAnswers, ApiFails
  <2>2. call[c].stage = "sent" /\ UNCHANGED <<apiVars, memoVars, sawFailure>>
    BY <1>13 DEF ApiAnswers, ApiFails
  <2>3. QED
    BY <1>5, <2>1, <2>2
<1>14. QED
  BY <1>1, <1>2, <1>3, <1>4, <1>6, <1>7, <1>8, <1>9, <1>10, <1>11, <1>12, <1>13 DEF Next

LEMMA MemoKept ==
    ASSUME ReadersInv, [Next]_vars
    PROVE  MemoOK'
<1>1. MemoOK /\ \A r \in Live : MemoUnder(r)'
  BY MemoUnderKept DEF ReadersInv
<1>2. CASE \E q \in Region : LiveAnswers(q)
  <2>1. PICK q \in Region : LiveAnswers(q)
    BY <1>2
  <2>2. q \in Live /\ call[q].stage = "replied"
    BY <2>1 DEF LiveAnswers
  <2>3. lastEtag' = lastBody' /\ (lastBody' # Null => lastBody' \in Replies[KeyOf[q]])
    BY <2>1, <2>2, MemoAfter DEF LiveAnswers
  <2>4. QED
    BY <1>1, <2>2, <2>3 DEF MemoOK
<1>3. CASE Restart
  BY <1>1, <1>3 DEF Restart, MemoOK
<1>4. CASE ~(\E q \in Region : LiveAnswers(q)) /\ ~Restart
  <2>1. lastEtag' = lastEtag /\ lastBody' = lastBody
    BY <1>4 DEF Next, vars, memoVars, Request, Hit, Miss, AskLive, Filled, ApiAnswers, ApiFails,
                Refreshed, Change, Tick
  <2>2. QED
    BY <1>1, <2>1 DEF MemoOK
<1>5. QED
  BY <1>2, <1>3, <1>4
-----------------------------------------------------------------------------
(***************************************************************************)
(* What a region shows                                                     *)
(***************************************************************************)
DownOK(r) == region[r].at = "down" => sawFailure[r]
DrawnOK(r) ==
    region[r].at = "ok" =>
      /\ region[r].body \in Replies[KeyOf[r]]
      /\ region[r].behind <= IF r \in Live THEN 2 * Timeout ELSE Expire[KeyOf[r]] - 1

LEMMA RegionKept ==
    ASSUME ReadersInv, [Next]_vars, NEW r \in Region
    PROVE  DownOK(r)' /\ DrawnOK(r)'
<1>i. TypeOK /\ CallsOK /\ EntriesOK /\ DownOK(r) /\ DrawnOK(r)
  BY DEF ReadersInv, DownMeansAFailure, DrawnIsAnAnswer, DownOK, DrawnOK
<1>t. /\ gone \in [Body -> Nat] /\ entry \in [Key -> Entry] /\ call \in [Caller -> Call]
      /\ region \in [Region -> Shown] /\ sawFailure \in [Region -> BOOLEAN]
  BY <1>i DEF TypeOK
<1>r. r \in Caller /\ Asked(r) = KeyOf[r] /\ KeyOf[r] \in Key
  BY Sets
<1>n. /\ Timeout \in Nat /\ Expire[KeyOf[r]] \in Nat /\ Revalidate[KeyOf[r]] \in Nat
      /\ Timeout < Revalidate[KeyOf[r]] /\ Revalidate[KeyOf[r]] <= Expire[KeyOf[r]]
  BY <1>r
<1>k. ASSUME region'[r] = region[r], sawFailure[r] => sawFailure'[r]
      PROVE  DownOK(r)' /\ DrawnOK(r)'
  BY <1>i, <1>k DEF DownOK, DrawnOK
<1>w. ASSUME region'[r].at \notin {"down", "ok"}
      PROVE  DownOK(r)' /\ DrawnOK(r)'
  BY <1>w DEF DownOK, DrawnOK
\* An answer is drawn.
<1>d. ASSUME NEW b \in Body \cup {Null}, region'[r] = Drawn(b),
             b = Null => sawFailure'[r],
             b # Null => /\ b \in Replies[KeyOf[r]]
                         /\ gone[b] <= IF r \in Live THEN 2 * Timeout ELSE Expire[KeyOf[r]] - 1
      PROVE  DownOK(r)' /\ DrawnOK(r)'
  <2>1. CASE b = Null
    <3>1. region'[r].at = "down"
      BY <1>d, <1>i, <2>1, DrawnIs
    <3>2. QED
      BY <1>d, <2>1, <3>1 DEF DownOK, DrawnOK
  <2>2. CASE b # Null
    <3>1. region'[r].at = "ok" /\ region'[r].body = b /\ region'[r].behind = gone[b]
      BY <1>d, <1>i, <2>2, DrawnIs
    <3>2. QED
      BY <1>d, <2>2, <3>1 DEF DownOK, DrawnOK
  <2>3. QED
    BY <2>1, <2>2
<1>1. ASSUME NEW q \in Region, Request(q) PROVE DownOK(r)' /\ DrawnOK(r)'
  <2>1. CASE q = r
    BY <1>1, <1>t, <1>w, <2>1 DEF Request, Blank
  <2>2. CASE q # r
    BY <1>1, <1>t, <1>k, <2>2 DEF Request
  <2>3. QED
    BY <2>1, <2>2
<1>2. ASSUME NEW q \in Region, Hit(q) PROVE DownOK(r)' /\ DrawnOK(r)'
  <2>1. CASE q = r
    <3> DEFINE e == entry[KeyOf[r]]
    <3>1. /\ region'[r] = Drawn(e.body) /\ Servable(e, KeyOf[r]) /\ r \notin Live
      BY <1>2, <1>t, <2>1 DEF Hit, CacheKey
    <3>2. e.body \in Replies[KeyOf[r]] /\ gone[e.body] <= e.age
      BY <1>i, <1>r, <3>1 DEF EntriesOK, EntryOK
    <3>3. e.body \in Body /\ e.body # Null /\ e.age \in Int /\ gone[e.body] \in Nat
      BY <1>t, <1>r, <3>2, Sets DEF Entry
    <3>4. gone[e.body] <= Expire[KeyOf[r]] - 1
      BY <1>n, <3>1, <3>2, <3>3 DEF Servable
    <3>5. QED
      BY <1>d, <3>1, <3>2, <3>3, <3>4
  <2>2. CASE q # r
    BY <1>2, <1>t, <1>k, <2>2 DEF Hit
  <2>3. QED
    BY <2>1, <2>2
<1>3. ASSUME NEW q \in Region, Miss(q) \/ AskLive(q) PROVE DownOK(r)' /\ DrawnOK(r)'
  <2>1. region' = [region EXCEPT ![q].at = "asking"] /\ sawFailure' = sawFailure
    BY <1>3 DEF Miss, AskLive
  <2>2. CASE q = r
    <3>1. region'[r] = [region[r] EXCEPT !.at = "asking"] /\ region[r] \in Shown
      BY <1>t, <2>1, <2>2
    <3>2. region'[r].at = "asking"
      BY <3>1 DEF Shown
    <3>3. QED
      BY <1>w, <3>2
  <2>3. CASE q # r
    BY <1>t, <1>k, <2>1, <2>3
  <2>4. QED
    BY <2>2, <2>3
<1>4. ASSUME NEW q \in Region, Filled(q) PROVE DownOK(r)' /\ DrawnOK(r)'
  <2>1. CASE q = r
    <3> DEFINE result == call[r].result
    <3>1. /\ r \notin Live /\ region'[r] = Drawn(result.body) /\ call[r].stage = "replied"
          /\ result.kind = "fail" => sawFailure'[r]
      BY <1>4, <1>t, <2>1 DEF Filled
    <3>2. Answered(r) /\ call[r].tag = Null /\ call[r].age \in 0..Timeout
      BY <1>i, <1>r, <1>t, <3>1 DEF CallsOK, CallOK, Call
    <3>3. \/ result.kind = "ok" /\ result.body \in Replies[KeyOf[r]] /\ gone[result.body] <= call[r].age
          \/ result.kind = "fail" /\ result.body = Null
      BY <1>r, <3>1, <3>2 DEF Answered
    <3>4. CASE result.kind = "fail" /\ result.body = Null
      BY <1>d, <3>1, <3>4
    <3>5. CASE result.kind = "ok" /\ result.body \in Replies[KeyOf[r]] /\ gone[result.body] <= call[r].age
      <4>1. result.body \in Body /\ result.body # Null /\ gone[result.body] \in Nat
        BY <1>t, <1>r, <3>5, Sets
      <4>2. gone[result.body] <= Expire[KeyOf[r]] - 1
        BY <1>n, <3>2, <3>5, <4>1
      <4>3. QED
        BY <1>d, <3>1, <3>5, <4>1, <4>2
    <3>6. QED
      BY <3>3, <3>4, <3>5
  <2>2. CASE q # r
    BY <1>4, <1>t, <1>k, <2>2 DEF Filled
  <2>3. QED
    BY <2>1, <2>2
<1>5. ASSUME NEW q \in Region, LiveAnswers(q) PROVE DownOK(r)' /\ DrawnOK(r)'
  <2> DEFINE result == call[q].result
             after == Memo(result)
  <2>1. /\ q \in Live /\ call[q].stage = "replied"
        /\ region' = [region EXCEPT ![q] = Drawn(after.body)]
    BY <1>5 DEF LiveAnswers
  <2>2. sawFailure'[r] = (\/ sawFailure[r]
                          \/ result.kind = "fail" /\ (r = q \/ (r \in Live /\ region[r].at = "asking")))
    BY <1>5 DEF LiveAnswers
  <2>3. /\ after.body \in Body \cup {Null}
        /\ after.body # Null => after.body \in Replies[KeyOf[q]] /\ gone[after.body] <= 2 * Timeout
        /\ after.body = Null => result.kind = "fail" \/ sawFailure[q]
    BY <2>1, MemoAfter
  <2> HIDE DEF after, result
  <2>4. CASE q = r
    <3>1. region'[r] = Drawn(after.body) /\ r \in Live
      BY <1>t, <2>1, <2>4
    <3>2. after.body = Null => sawFailure'[r]
      BY <2>2, <2>3, <2>4
    <3>3. QED
      BY <1>d, <2>3, <2>4, <3>1, <3>2
  <2>5. CASE q # r
    <3>1. region'[r] = region[r]
      BY <1>t, <2>1, <2>5
    <3>2. sawFailure[r] => sawFailure'[r]
      BY <2>2
    <3>3. QED
      BY <1>k, <3>1, <3>2
  <2>6. QED
    BY <2>4, <2>5
<1>6. CASE Restart
  <2>1. CASE region[r].at \in {"waiting", "asking"}
    BY <1>6, <1>w, <2>1 DEF Restart, Blank
  <2>2. CASE region[r].at \notin {"waiting", "asking"}
    BY <1>6, <1>k, <2>2 DEF Restart
  <2>3. QED
    BY <2>1, <2>2
<1>7. CASE UNCHANGED <<region, sawFailure>>
  BY <1>7, <1>k
<1>8. \/ UNCHANGED <<region, sawFailure>>
      \/ \E q \in Region : Request(q) \/ Hit(q) \/ Miss(q) \/ AskLive(q) \/ Filled(q) \/ LiveAnswers(q)
      \/ Restart
  BY DEF Next, vars, ApiAnswers, ApiFails, Refreshed, Change, Tick
<1>9. QED
  BY <1>1, <1>2, <1>3, <1>4, <1>5, <1>6, <1>7, <1>8
-----------------------------------------------------------------------------
LEMMA InitInv == Init => ReadersInv
<1> SUFFICES ASSUME Init PROVE ReadersInv
  OBVIOUS
<1>1. TypeOK
  BY InitTypeOK
<1>2. CallsOK /\ MemoOK
  BY Sets DEF Init, CallsOK, CallOK, Answered, Idle, MemoOK, MemoUnder
<1>3. EntriesOK
  BY DEF Init, EntriesOK, EntryOK, Servable, NoEntry
<1>4. TruthIsNow
  BY <1>1 DEF Init, TruthIsNow, TypeOK
<1>5. DownMeansAFailure /\ DrawnIsAnAnswer
  BY DEF Init, DownMeansAFailure, DrawnIsAnAnswer, Blank
<1>6. QED
  BY <1>1, <1>2, <1>3, <1>4, <1>5 DEF ReadersInv

LEMMA NextInv == ReadersInv /\ [Next]_vars => ReadersInv'
<1> SUFFICES ASSUME ReadersInv, [Next]_vars PROVE ReadersInv'
  OBVIOUS
<1>1. TypeOK' /\ TruthIsNow'
  BY NextTypeOK, GoneGrows DEF ReadersInv
<1>2. CallsOK' /\ EntriesOK' /\ MemoOK'
  BY CallsKept, EntriesKept, MemoKept
<1>3. DownMeansAFailure' /\ DrawnIsAnAnswer'
  BY RegionKept DEF DownMeansAFailure, DrawnIsAnAnswer, DownOK, DrawnOK
<1>4. QED
  BY <1>1, <1>2, <1>3 DEF ReadersInv

\* In every reachable state the variables have their types, whatever the regions,
\* the keys, their lifetimes and the answers: no call outlives its deadline
\* (client.ts:151) and every cached entry is an answer or none (readers.ts:200-262).
THEOREM TypeCorrect == Spec => []TypeOK
<1>1. ReadersInv => TypeOK
  BY DEF ReadersInv
<1>2. QED
  BY <1>1, InitInv, NextInv, PTL DEF Spec

\* A region says that nothing answered only after a request it waited for, or one
\* that shared healthLive's memo with it, failed (readers.ts:60-75, 140-158, 212-217):
\* no failure is cached, and no overlap of two visitors' calls loses an answer.
THEOREM DownMeansAFailureHolds == Spec => []DownMeansAFailure
<1>1. ReadersInv => DownMeansAFailure
  BY DEF ReadersInv
<1>2. QED
  BY <1>1, InitInv, NextInv, PTL DEF Spec

\* What a region draws answers the question it asked, and was true less than its
\* entry's expire time ago or, for healthLive, at most two deadlines ago
\* (readers.ts:92-158, 230-238; cacheLife of next.config.ts), for all lifetimes
\* longer than the deadline.
THEOREM DrawnIsAnAnswerHolds == Spec => []DrawnIsAnAnswer
<1>1. ReadersInv => DrawnIsAnAnswer
  BY DEF ReadersInv
<1>2. QED
  BY <1>1, InitInv, NextInv, PTL DEF Spec
-----------------------------------------------------------------------------
(***************************************************************************)
(* The visit and the header around the readers                             *)
(***************************************************************************)
HIDE ReadersAssumption

\* Nothing a visitor does to a tab, a theme, an island or a menu touches what the
\* readers keep.
LEMMA TabsLeaveReaders ==
    ASSUME NEW t \in Tab,
           \/ Loads(t) \/ Follow(t) \/ Back(t)
           \/ Show(t) \/ Hide(t) \/ Dismiss(t) \/ OnClose(t) \/ FollowFromMenu(t)
           \/ Open(t) \/ Mark(t) \/ Shut(t) \/ Escape(t) \/ Commit(t)
    PROVE  UNCHANGED vars
<1>1. \A h : Stays(t, h) => UNCHANGED vars
  BY DEF Stays, allVars
<1>2. \A h, address : Leaves(t, h, address) => UNCHANGED vars
  BY DEF Leaves, Go
<1>3. Load(t) \/ Redirect(t) => UNCHANGED vars
  BY DEF Load, Redirect, Arrives
<1>4. OnClose(t) => UNCHANGED vars
  BY DEF OnClose, allVars
<1>5. QED
  BY <1>1, <1>2, <1>3, <1>4 DEF Loads, Follow, Back, Show, Hide, Dismiss, FollowFromMenu, Open, Mark,
     Shut, Escape, Commit

LEMMA VisitLeavesReaders ==
    ASSUME VisitNext
    PROVE  [Next]_vars
<1>1. UnchangedButIslands => UNCHANGED vars
  BY DEF UnchangedButIslands
<1>2. \A t \in Tab : Pick(t) => UNCHANGED vars
  BY DEF Pick
<1>3. QED
  BY <1>1, <1>2 DEF VisitNext, PressTag, Type, ResetBlog, PressStatus, PressStack, ResetWork

LEMMA SiteStepsAreReaders == [SiteNext]_siteVars => [Next]_vars
<1>1. UNCHANGED siteVars => UNCHANGED vars
  BY DEF siteVars, allVars
<1>2. QED
  BY <1>1, TabsLeaveReaders, VisitLeavesReaders DEF SiteNext

\* The site, with its tabs, links, islands, themes and menus, implements the
\* readers: whatever a visitor does, what was proved of them holds of the site.
THEOREM SiteImplementsReaders == SiteSpec => Spec
<1>1. SiteInit => Init
  BY DEF SiteInit, VisitInit
<1>2. QED
  BY <1>1, SiteStepsAreReaders, PTL DEF SiteSpec, Spec

-----------------------------------------------------------------------------
(***************************************************************************)
(* The theme                                                               *)
(***************************************************************************)

\* Where the snippet would read the pick of the last visitor, and each tab that
\* caught up with it shows it.
ThemeInv ==
    /\ theme \in [Tab -> ThemeIds \cup {Noir}]
    /\ caughtUp \subseteq Tab
    /\ ~blocked => Snippet = picked
    /\ ThemeIsRemembered

\* A step that stores and picks nothing, and brings at most tab t up to date.
LEMMA ThemeFrame ==
    ASSUME ThemeInv, UNCHANGED <<stored, blocked, picked>>, NEW t \in Tab,
           \/ UNCHANGED <<theme, caughtUp>>
           \/ theme' = [theme EXCEPT ![t] = Snippet] /\ caughtUp' = caughtUp \cup {t}
           \/ theme' = [theme EXCEPT ![t] = Noir] /\ caughtUp' = caughtUp \ {t}
           \/ theme' = theme /\ caughtUp' = caughtUp \ {t}
    PROVE  ThemeInv'
<1>1. Snippet \in ThemeIds \cup {Noir} /\ Snippet' = Snippet
  BY DEF Snippet
<1>2. theme' \in [Tab -> ThemeIds \cup {Noir}] /\ caughtUp' \subseteq Tab
  BY <1>1 DEF ThemeInv
<1>3. ThemeIsRemembered'
  <2>1. SUFFICES ASSUME ~blocked, NEW u \in caughtUp'
                 PROVE  theme'[u] = picked
    BY DEF ThemeIsRemembered
  <2>2. u \in Tab /\ Snippet = picked
    BY <1>2, <2>1 DEF ThemeInv
  <2>3. u \in caughtUp => theme[u] = picked
    BY <2>1 DEF ThemeInv, ThemeIsRemembered
  <2>4. QED
    BY <2>1, <2>2, <2>3 DEF ThemeInv
<1>4. QED
  BY <1>1, <1>2, <1>3 DEF ThemeInv

LEMMA ThemeStep == ThemeInv /\ [SiteNext]_siteVars => ThemeInv'
<1> SUFFICES ASSUME ThemeInv, [SiteNext]_siteVars PROVE ThemeInv'
  OBVIOUS
<1>a. UNCHANGED <<theme, stored, blocked, picked, caughtUp>> => ThemeInv'
  BY DEF ThemeInv, ThemeIsRemembered, Snippet
<1>1. ASSUME NEW t \in Tab, NEW address, Go(t, address)
      PROVE  ThemeInv'
  BY <1>1, ThemeFrame DEF Go
<1>2. ASSUME NEW t \in Tab, NEW address, Arrives(t, address)
      PROVE  ThemeInv'
  BY <1>2, ThemeFrame DEF Arrives
<1>3. ASSUME NEW t \in Tab, Pick(t)
      PROVE  ThemeInv'
  <2>1. PICK id \in ThemeIds \cup {Noir} :
           theme' = [theme EXCEPT ![t] = id] /\ stored' = StoreTheme(id) /\ picked' = id
    BY <1>3 DEF Pick
  <2>2. blocked' = blocked /\ caughtUp' = {t}
    BY <1>3 DEF Pick
  <2>3. theme' \in [Tab -> ThemeIds \cup {Noir}] /\ theme'[t] = id
    BY <2>1 DEF ThemeInv
  <2>4. ~blocked => Snippet' = id
    BY <2>1, <2>2, VisitAssumption DEF Snippet, StoreTheme
  <2>5. QED
    BY <2>1, <2>2, <2>3, <2>4 DEF ThemeInv, ThemeIsRemembered
<1>4. ASSUME NEW t \in Tab, NEW h, Stays(t, h)
      PROVE  ThemeInv'
  BY <1>a, <1>4 DEF Stays, allVars, visitVars
<1>5. ASSUME NEW t \in Tab,
             \/ Loads(t) \/ Follow(t) \/ Back(t)
             \/ Show(t) \/ Hide(t) \/ Dismiss(t) \/ OnClose(t) \/ FollowFromMenu(t)
             \/ Open(t) \/ Mark(t) \/ Shut(t) \/ Escape(t) \/ Commit(t)
      PROVE  ThemeInv'
  <2>1. Loads(t) => \E address : Arrives(t, address)
    BY DEF Loads, Load, Redirect
  <2>2. Follow(t) \/ Back(t) \/ FollowFromMenu(t) => \E address : Go(t, address)
    BY DEF Follow, Back, FollowFromMenu, Leaves
  <2>3. OnClose(t) => UNCHANGED <<theme, stored, blocked, picked, caughtUp>>
    BY DEF OnClose, allVars, visitVars
  <2>4. Show(t) \/ Hide(t) \/ Dismiss(t) \/ Open(t) \/ Mark(t) \/ Shut(t) \/ Escape(t) => \E h : Stays(t, h)
    BY DEF Show, Hide, Dismiss, Open, Mark, Shut, Escape
  <2>5. Commit(t) => (\E h : Stays(t, h)) \/ (\E address : Go(t, address))
    BY DEF Commit, Leaves
  <2>6. QED
    BY <1>a, <1>1, <1>2, <1>4, <1>5, <2>1, <2>2, <2>3, <2>4, <2>5
<1>6. CASE VisitNext
  <2>1. CASE Next /\ UNCHANGED visitVars
    BY <1>a, <2>1 DEF visitVars
  <2>2. CASE UnchangedButIslands
    BY <1>a, <2>2 DEF UnchangedButIslands
  <2>3. QED
    BY <1>3, <1>6, <2>1, <2>2 DEF VisitNext, PressTag, Type, ResetBlog, PressStatus, PressStack,
       ResetWork
<1>7. CASE UNCHANGED siteVars
  BY <1>a, <1>7 DEF siteVars, allVars, visitVars
<1>8. QED
  BY <1>5, <1>6, <1>7 DEF SiteNext

\* A tab loaded, or picked in, since the last pick shows that pick (lib/theme.ts:
\* the snippet, storeTheme), for any number of tabs and any themes.
THEOREM ThemeIsRememberedHolds == SiteSpec => []ThemeIsRemembered
<1>1. SiteInit => ThemeInv
  BY DEF SiteInit, VisitInit, ThemeInv, ThemeIsRemembered
<1>2. ThemeInv => ThemeIsRemembered
  BY DEF ThemeInv
<1>3. QED
  BY <1>1, <1>2, ThemeStep, PTL DEF SiteSpec

-----------------------------------------------------------------------------
(***************************************************************************)
(* The header's two menus                                                  *)
(***************************************************************************)

\* What the dialog and the list of language m's header hold; "here" says whether
\* its tab stands in that language.  A dialog that stands has no close event under
\* way.
HeaderOK(h, m, here) ==
    /\ h.expanded # h.shown => h.closing
    /\ h.closing => ~h.shown
    /\ h.shown => h.leftShown \/ here
    /\ h.open \/ h.byPointer \/ h.marked = Own(m)

HeaderState == [open : BOOLEAN, marked : DOMAIN Locales, byPointer : BOOLEAN,
                shown : BOOLEAN, expanded : BOOLEAN, closing : BOOLEAN, leftShown : BOOLEAN]

MenusInv ==
    /\ at = [t \in Tab |-> at[t]]
    /\ header \in [Tab -> [Locale -> HeaderState]]
    /\ \A t \in Tab, m \in Locale : HeaderOK(header[t][m], m, m = Language(t))

LEMMA OwnIsALocale == \A m \in Locale : Own(m) \in DOMAIN Locales
<1>1. \A m \in Locale : \E i \in DOMAIN Locales : Locales[i] = m
  BY DEF Locale
<1>2. QED
  BY <1>1 DEF Own

LEMMA LanguageIsALocale == \A address : LocaleOf(address) \in Locale
<1>1. DefaultLocale \in Locale
  <2>1. 1 \in DOMAIN Locales /\ Locales[1] = DefaultLocale
    BY DEF Locales, DefaultLocale
  <2>2. QED
    BY <2>1 DEF Locale
<1>2. QED
  BY <1>1 DEF LocaleOf, HasLocale

LEMMA NewHeaderOK ==
    ASSUME NEW m \in Locale, NEW here \in BOOLEAN
    PROVE  NewHeader(m) \in HeaderState /\ HeaderOK(NewHeader(m), m, here)
  BY OwnIsALocale DEF NewHeader, HeaderState, HeaderOK

\* What a control does to the header its tab stands in.
LEMMA Controls ==
    ASSUME NEW h \in HeaderState, NEW m \in Locale, HeaderOK(h, m, TRUE)
    PROVE  /\ Hidden(h) \in HeaderState /\ HeaderOK(Hidden(h), m, FALSE)
           /\ LET g == [Hidden(h) EXCEPT !.expanded = h.expanded] IN
              g \in HeaderState /\ HeaderOK(g, m, FALSE)
           /\ LET g == [h EXCEPT !.leftShown = h.shown] IN
              g \in HeaderState /\ HeaderOK(g, m, FALSE)
           /\ ~h.closing =>
              LET g == [h EXCEPT !.shown = TRUE, !.expanded = TRUE] IN
              g \in HeaderState /\ HeaderOK(g, m, TRUE)
           /\ LET g == [h EXCEPT !.expanded = FALSE, !.closing = FALSE] IN
              h.closing => g \in HeaderState /\ HeaderOK(g, m, FALSE)
           /\ LET g == [h EXCEPT !.open = TRUE] IN
              g \in HeaderState /\ HeaderOK(g, m, TRUE)
           /\ h.open => \A i \in DOMAIN Locales :
              LET g == [h EXCEPT !.marked = i] IN
              g \in HeaderState /\ HeaderOK(g, m, TRUE)
           /\ LET g == [h EXCEPT !.open = FALSE, !.byPointer = TRUE] IN
              g \in HeaderState /\ HeaderOK(g, m, TRUE)
           /\ LET g == Closed(h, m) IN
              /\ g \in HeaderState /\ HeaderOK(g, m, TRUE)
              /\ ~h.shown => HeaderOK(g, m, FALSE)
           /\ ~h.shown => HeaderOK(h, m, FALSE)
<1>o. Own(m) \in DOMAIN Locales
  BY OwnIsALocale
<1>1. Hidden(h) \in HeaderState /\ HeaderOK(Hidden(h), m, FALSE)
  BY DEF Hidden, HeaderState, HeaderOK
<1>2. LET g == [Hidden(h) EXCEPT !.expanded = h.expanded] IN
      g \in HeaderState /\ HeaderOK(g, m, FALSE)
  BY DEF Hidden, HeaderState, HeaderOK
<1>3. LET g == [h EXCEPT !.leftShown = h.shown] IN
      g \in HeaderState /\ HeaderOK(g, m, FALSE)
  BY DEF HeaderState, HeaderOK
<1>4. ASSUME ~h.closing
      PROVE  LET g == [h EXCEPT !.shown = TRUE, !.expanded = TRUE] IN
             g \in HeaderState /\ HeaderOK(g, m, TRUE)
  BY <1>4 DEF HeaderState, HeaderOK
<1>5. ASSUME h.closing
      PROVE  LET g == [h EXCEPT !.expanded = FALSE, !.closing = FALSE] IN
             g \in HeaderState /\ HeaderOK(g, m, FALSE)
  BY <1>5 DEF HeaderState, HeaderOK
<1>6. LET g == [h EXCEPT !.open = TRUE] IN g \in HeaderState /\ HeaderOK(g, m, TRUE)
  BY DEF HeaderState, HeaderOK
<1>7. ASSUME h.open, NEW i \in DOMAIN Locales
      PROVE  LET g == [h EXCEPT !.marked = i] IN g \in HeaderState /\ HeaderOK(g, m, TRUE)
  BY <1>7 DEF HeaderState, HeaderOK
<1>8. LET g == [h EXCEPT !.open = FALSE, !.byPointer = TRUE] IN
      g \in HeaderState /\ HeaderOK(g, m, TRUE)
  BY DEF HeaderState, HeaderOK
<1>9. LET g == Closed(h, m) IN
      /\ g \in HeaderState /\ HeaderOK(g, m, TRUE)
      /\ ~h.shown => HeaderOK(g, m, FALSE)
  BY <1>o DEF Closed, ClosedOnly, HeaderState, HeaderOK
<1>10. ~h.shown => HeaderOK(h, m, FALSE)
  BY DEF HeaderOK
<1>11. QED
  BY <1>1, <1>2, <1>3, <1>4, <1>5, <1>6, <1>7, <1>8, <1>9, <1>10

\* The tab stays, and so does every other header.
LEMMA StaysOK ==
    ASSUME MenusInv, NEW t \in Tab, NEW h \in HeaderState, Stays(t, h),
           HeaderOK(h, Language(t), TRUE)
    PROVE  MenusInv'
<1>1. at' = at /\ header' = [header EXCEPT ![t][Language(t)] = h]
  BY DEF Stays, allVars, visitVars
<1>2. \A u \in Tab : Language(u)' = Language(u) /\ Language(u) \in Locale
  BY <1>1, LanguageIsALocale DEF Language
<1>3. header' \in [Tab -> [Locale -> HeaderState]]
  BY <1>1 DEF MenusInv
<1>4. ASSUME NEW u \in Tab, NEW m \in Locale
      PROVE  HeaderOK(header'[u][m], m, m = Language(u))
  <2>1. CASE u = t /\ m = Language(t)
    <3>1. header'[u][m] = h
      BY <1>1, <2>1 DEF MenusInv
    <3>2. QED
      BY <2>1, <3>1
  <2>2. CASE u # t \/ m # Language(t)
    <3>1. header'[u][m] = header[u][m]
      BY <1>1, <2>2 DEF MenusInv
    <3>2. QED
      BY <3>1 DEF MenusInv
  <2>3. QED
    BY <2>1, <2>2
<1>5. QED
  BY <1>1, <1>2, <1>3, <1>4 DEF MenusInv

\* A header that is left behind is as good as one that is not.
LEMMA AnyLanguage ==
    ASSUME NEW h, NEW m, HeaderOK(h, m, FALSE), NEW here \in BOOLEAN
    PROVE  HeaderOK(h, m, here)
  BY DEF HeaderOK

\* The tab goes: it leaves one header as it should be left, and finds another, new
\* or as it was left.
LEMMA LeavesOK ==
    ASSUME MenusInv, NEW t \in Tab, NEW h \in HeaderState, NEW address, Leaves(t, h, address),
           HeaderOK(h, Language(t), FALSE)
    PROVE  MenusInv'
<1> DEFINE l == Language(t)
           n == LocaleOf(address)
<1>l. l \in Locale /\ n \in Locale
  BY LanguageIsALocale DEF Language
<1>1. at' = [at EXCEPT ![t] = address]
  BY DEF Leaves, Go
<1>2. PICK other \in {NewHeader(n), header[t][n]} :
         header' = [header EXCEPT ![t] = [@ EXCEPT ![n] = other, ![l] = h]]
  BY DEF Leaves
<1>m. at'[t] = address /\ \A u \in Tab \ {t} : at'[u] = at[u]
  BY <1>1 DEF MenusInv
<1>3. Language(t)' = n /\ \A u \in Tab \ {t} : Language(u)' = Language(u)
  <2>1. Language(t)' = n
    BY <1>m DEF Language
  <2>2. \A u \in Tab \ {t} : Language(u)' = Language(u)
    BY <1>m DEF Language
  <2>3. QED
    BY <2>1, <2>2
<1>4. other \in HeaderState
  <2>1. NewHeader(n) \in HeaderState
    BY <1>l, NewHeaderOK
  <2>2. header[t][n] \in HeaderState
    BY <1>l DEF MenusInv
  <2>3. QED
    BY <1>2, <2>1, <2>2
<1>5. /\ header' \in [Tab -> [Locale -> HeaderState]]
      /\ \A u \in Tab \ {t} : header'[u] = header[u]
      /\ header'[t] = [header[t] EXCEPT ![n] = other, ![l] = h]
  BY <1>l, <1>2, <1>4 DEF MenusInv
<1>6. ASSUME NEW u \in Tab, NEW m \in Locale
      PROVE  HeaderOK(header'[u][m], m, m = Language(u)')
  <2>1. CASE u # t
    BY <1>3, <1>5, <2>1 DEF MenusInv
  <2>2. CASE u = t /\ m = l
    <3>1. header'[u][m] = h
      BY <1>l, <1>5, <2>2 DEF MenusInv
    <3>2. QED
      BY <2>2, <3>1, AnyLanguage
  <2>3. CASE u = t /\ m # l /\ m = n
    <3>1. header'[u][m] = other
      BY <1>l, <1>5, <2>3 DEF MenusInv
    <3>2. CASE other = NewHeader(n)
      BY <1>l, <2>3, <3>1, <3>2, NewHeaderOK
    <3>3. CASE other = header[t][n]
      <4>1. HeaderOK(header[t][n], n, FALSE)
        <5>1. HeaderOK(header[t][n], n, n = Language(t))
          BY <1>l DEF MenusInv
        <5>2. (n = Language(t)) = FALSE
          BY <2>3
        <5>3. QED
          BY <5>1, <5>2
      <4>2. QED
        BY <2>3, <3>1, <3>3, <4>1, AnyLanguage
    <3>4. QED
      BY <3>2, <3>3
  <2>4. CASE u = t /\ m # l /\ m # n
    <3>1. header'[u][m] = header[t][m]
      BY <1>l, <1>5, <2>4 DEF MenusInv
    <3>2. (m = Language(t)) = FALSE
      BY <2>4
    <3>3. HeaderOK(header[t][m], m, FALSE)
      BY <3>2 DEF MenusInv
    <3>4. QED
      BY <2>4, <3>1, <3>3, AnyLanguage
  <2>5. QED
    BY <2>1, <2>2, <2>3, <2>4
<1>7. at' = [u \in Tab |-> at'[u]]
  BY <1>1 DEF MenusInv
<1>8. QED
  BY <1>5, <1>6, <1>7 DEF MenusInv

LEMMA LoadsOK ==
    ASSUME MenusInv, NEW t \in Tab, Loads(t)
    PROVE  MenusInv'
<1>1. PICK address : Arrives(t, address)
  BY DEF Loads, Load, Redirect
<1>2. at' = [at EXCEPT ![t] = address] /\ header' = [header EXCEPT ![t] = Untouched]
  BY <1>1 DEF Loads, Arrives
<1>3. Untouched \in [Locale -> HeaderState] /\ \A m \in Locale : Untouched[m] = NewHeader(m)
  BY NewHeaderOK DEF Untouched
<1>4. header' \in [Tab -> [Locale -> HeaderState]]
  BY <1>2, <1>3 DEF MenusInv
<1>5. ASSUME NEW u \in Tab, NEW m \in Locale
      PROVE  HeaderOK(header'[u][m], m, m = Language(u)')
  <2>1. CASE u = t
    BY <1>2, <1>3, <2>1, NewHeaderOK DEF MenusInv
  <2>2. CASE u # t
    <3>1. header'[u] = header[u] /\ Language(u)' = Language(u)
      BY <1>2, <2>2 DEF MenusInv, Language
    <3>2. QED
      BY <3>1 DEF MenusInv
  <2>3. QED
    BY <2>1, <2>2
<1>6. at' = [u \in Tab |-> at'[u]]
  BY <1>2 DEF MenusInv
<1>7. QED
  BY <1>4, <1>5, <1>6 DEF MenusInv

\* The event of a close comes in whatever header it is for.
LEMMA OnCloseOK ==
    ASSUME MenusInv, NEW t \in Tab, OnClose(t)
    PROVE  MenusInv'
<1>1. PICK m \in Locale :
         /\ header[t][m].closing
         /\ header' = [header EXCEPT ![t][m].expanded = FALSE, ![t][m].closing = FALSE]
  BY DEF OnClose
<1>2. at' = at
  BY DEF OnClose, allVars, visitVars
<1>3. PICK h \in HeaderState : h = header[t][m]
  BY DEF MenusInv
<1>4. PICK g : g = [h EXCEPT !.expanded = FALSE, !.closing = FALSE]
  OBVIOUS
<1>5. /\ header' = [header EXCEPT ![t] = [@ EXCEPT ![m] = g]]
      /\ \A u \in Tab, l \in Locale : header'[u][l] = IF u = t /\ l = m THEN g ELSE header[u][l]
  <2>1. header' = [header EXCEPT ![t] = [@ EXCEPT ![m] = g]]
    BY <1>1, <1>3, <1>4
  <2>2. header \in [Tab -> [Locale -> HeaderState]]
    BY DEF MenusInv
  <2>3. QED
    BY <2>1, <2>2
<1>6. HeaderOK(h, m, TRUE) /\ h.closing
  <2>1. HeaderOK(h, m, m = Language(t))
    BY <1>3 DEF MenusInv
  <2>2. QED
    BY <1>1, <1>3, <2>1 DEF HeaderOK
<1>7. g \in HeaderState /\ HeaderOK(g, m, FALSE)
  BY <1>4, <1>6, Controls
<1>8. header' \in [Tab -> [Locale -> HeaderState]]
  BY <1>5, <1>7 DEF MenusInv
<1>s. \A u \in Tab : Language(u)' = Language(u) /\ Language(u) \in Locale
  BY <1>2, LanguageIsALocale DEF Language
<1>9. ASSUME NEW u \in Tab, NEW l \in Locale
      PROVE  HeaderOK(header'[u][l], l, l = Language(u))
  <2>2. CASE u = t /\ l = m
    <3>1. header'[u][l] = g
      BY <1>5, <2>2
    <3>2. HeaderOK(g, l, FALSE)
      BY <1>7, <2>2
    <3>3. (l = Language(u)) \in BOOLEAN
      OBVIOUS
    <3>4. HeaderOK(g, l, l = Language(u))
      BY <3>2, <3>3, AnyLanguage
    <3>5. QED
      BY <3>1, <3>4
  <2>3. CASE u # t \/ l # m
    BY <1>5, <2>3 DEF MenusInv
  <2>4. QED
    BY <2>2, <2>3
<1>10. QED
  BY <1>2, <1>s, <1>8, <1>9 DEF MenusInv

LEMMA ControlsOK ==
    ASSUME MenusInv, NEW t \in Tab,
           \/ Follow(t) \/ Back(t) \/ Show(t) \/ Hide(t) \/ Dismiss(t) \/ FollowFromMenu(t)
           \/ Open(t) \/ Mark(t) \/ Shut(t) \/ Escape(t) \/ Commit(t)
    PROVE  MenusInv'
<1>1. Language(t) \in Locale
  BY LanguageIsALocale DEF Language
<1>2. PICK h \in HeaderState : h = Standing(t)
  BY <1>1 DEF MenusInv, Standing
<1>3. HeaderOK(h, Language(t), TRUE)
  <2>1. HeaderOK(h, Language(t), Language(t) = Language(t))
    BY <1>1, <1>2 DEF MenusInv, Standing
  <2>2. QED
    BY <2>1
<1>4. CASE Follow(t)
  BY <1>1, <1>2, <1>3, <1>4, Controls, LeavesOK DEF Follow
<1>5. CASE Back(t)
  BY <1>1, <1>2, <1>3, <1>5, Controls, LeavesOK DEF Back
<1>6. CASE Show(t)
  BY <1>1, <1>2, <1>3, <1>6, Controls, StaysOK DEF Show
<1>7. CASE Hide(t)
  <2>1. HeaderOK(Hidden(h), Language(t), TRUE)
    BY <1>1, <1>3, Controls, AnyLanguage
  <2>2. QED
    BY <1>1, <1>2, <1>3, <1>7, <2>1, Controls, StaysOK DEF Hide
<1>8. CASE Dismiss(t)
  <2>1. PICK g : g = [Hidden(h) EXCEPT !.expanded = h.expanded]
    OBVIOUS
  <2>2. g \in HeaderState /\ HeaderOK(g, Language(t), TRUE)
    BY <1>1, <1>3, <2>1, Controls, AnyLanguage
  <2>3. QED
    BY <1>2, <1>8, <2>1, <2>2, StaysOK DEF Dismiss
<1>9. CASE FollowFromMenu(t)
  BY <1>1, <1>2, <1>3, <1>9, Controls, LeavesOK DEF FollowFromMenu
<1>10. CASE Open(t)
  BY <1>1, <1>2, <1>3, <1>10, Controls, StaysOK DEF Open
<1>11. CASE Mark(t)
  BY <1>1, <1>2, <1>3, <1>11, Controls, StaysOK DEF Mark
<1>12. CASE Shut(t)
  BY <1>1, <1>2, <1>3, <1>12, Controls, StaysOK DEF Shut
<1>13. CASE Escape(t)
  BY <1>1, <1>2, <1>3, <1>13, Controls, StaysOK DEF Escape
<1>14. CASE Commit(t)
  <2>1. ~h.shown
    BY <1>2, <1>14 DEF Commit, OnList
  <2>2. PICK g : g = Closed(h, Language(t))
    OBVIOUS
  <2>3. g \in HeaderState /\ HeaderOK(g, Language(t), TRUE) /\ HeaderOK(g, Language(t), FALSE)
    BY <1>1, <1>3, <2>1, <2>2, Controls
  <2>4. Stays(t, g) \/ \E address : Leaves(t, g, address)
    BY <1>2, <1>14, <2>2 DEF Commit
  <2>5. QED
    BY <2>3, <2>4, StaysOK, LeavesOK
<1>15. QED
  BY <1>4, <1>5, <1>6, <1>7, <1>8, <1>9, <1>10, <1>11, <1>12, <1>13, <1>14

LEMMA MenusStep == MenusInv /\ [SiteNext]_siteVars => MenusInv'
<1> SUFFICES ASSUME MenusInv, [SiteNext]_siteVars PROVE MenusInv'
  OBVIOUS
<1>1. CASE UNCHANGED <<at, header>>
  BY <1>1 DEF MenusInv, Language
<1>2. CASE UNCHANGED siteVars
  BY <1>1, <1>2 DEF siteVars, allVars, visitVars, headerVars
<1>3. CASE VisitNext /\ UNCHANGED headerVars
  <2>1. at' = at
    BY <1>3 DEF VisitNext, visitVars, Pick, PressTag, Type, ResetBlog, PressStatus, PressStack,
       ResetWork, UnchangedButIslands
  <2>2. QED
    BY <1>1, <1>3, <2>1 DEF headerVars
<1>4. QED
  BY <1>2, <1>3, ControlsOK, LoadsOK, OnCloseOK DEF SiteNext

\* The two menus of every tab and language: the button tells the truth, no dialog
\* stands in a header that was left but by the history, and the list opens on the
\* page's own language (MobileMenu.tsx, LangMenu.tsx).
THEOREM MenusAgreeHolds == SiteSpec => []MenusAgree
<1>1. SiteInit => MenusInv
  <2> SUFFICES ASSUME SiteInit PROVE MenusInv
    OBVIOUS
  <2>1. at = [t \in Tab |-> at[t]] /\ header = [t \in Tab |-> Untouched]
    BY DEF SiteInit, VisitInit
  <2>2. Untouched \in [Locale -> HeaderState] /\ \A m \in Locale : Untouched[m] = NewHeader(m)
    BY NewHeaderOK DEF Untouched
  <2>3. ASSUME NEW t \in Tab, NEW m \in Locale
        PROVE  HeaderOK(header[t][m], m, m = Language(t))
    <3>1. header[t][m] = NewHeader(m)
      BY <2>1, <2>2
    <3>2. (m = Language(t)) \in BOOLEAN
      OBVIOUS
    <3>3. HeaderOK(NewHeader(m), m, m = Language(t))
      BY <3>2, NewHeaderOK
    <3>4. QED
      BY <3>1, <3>3
  <2>4. QED
    BY <2>1, <2>2, <2>3 DEF MenusInv
<1>2. MenusInv => MenusAgree
  BY DEF MenusInv, HeaderOK, MenusAgree
<1>3. QED
  BY <1>1, <1>2, MenusStep, PTL DEF SiteSpec

-----------------------------------------------------------------------------
(*****************************************************************************)
(* Addresses: a path in a language, and back                                 *)
(*****************************************************************************)

LEMMA ThreeLocales == Locale = {"en", "de", "fr"}
<1>1. Locales[1] = "en" /\ Locales[2] = "de" /\ Locales[3] = "fr" /\ DOMAIN Locales = 1..3
  BY DEF Locales
<1>2. \A m : m \in Locale <=> \E i \in 1..3 : m = Locales[i]
  BY <1>1 DEF Locale
<1>3. 1 \in 1..3 /\ 2 \in 1..3 /\ 3 \in 1..3 /\ \A i \in 1..3 : i = 1 \/ i = 2 \/ i = 3
  OBVIOUS
<1>4. \A m \in Locale : m = "en" \/ m = "de" \/ m = "fr"
  BY <1>1, <1>2, <1>3
<1>5. "en" \in Locale /\ "de" \in Locale /\ "fr" \in Locale
  BY <1>1, <1>2, <1>3
<1>6. QED
  BY <1>4, <1>5

\* An element before a sequence.
LEMMA Prefixed ==
    ASSUME NEW S, NEW m \in S, NEW p \in Seq(S)
    PROVE  /\ <<m>> \o p \in Seq(S) /\ <<m>> \o p # <<>>
           /\ Head(<<m>> \o p) = m /\ Tail(<<m>> \o p) = p
<1>0. PICK a : a = <<m>> \o p
  OBVIOUS
<1>1. <<m>> \in Seq(S) /\ Len(<<m>>) = 1 /\ <<m>>[1] = m
  OBVIOUS
<1>2. /\ a \in Seq(S) /\ Len(a) = 1 + Len(p) /\ Len(p) \in Nat
      /\ \A i \in 1..(1 + Len(p)) : a[i] = IF i <= 1 THEN <<m>>[i] ELSE p[i - 1]
  BY <1>0, <1>1, ConcatProperties, LenProperties
<1>3. a # <<>>
  BY <1>2, EmptySeq
<1>4. Head(a) = m
  <2>1. Head(a) = a[1]
    OBVIOUS
  <2>2. QED
    BY <1>1, <1>2, <2>1
<1>5. Tail(a) = p
  <2>1. /\ Tail(a) \in Seq(S) /\ Len(Tail(a)) = Len(a) - 1
        /\ \A i \in 1..Len(Tail(a)) : Tail(a)[i] = a[i + 1]
    BY <1>2, <1>3, HeadTailProperties
  <2>2. Len(Tail(a)) = Len(p) /\ \A i \in 1..Len(p) : Tail(a)[i] = p[i]
    BY <1>2, <2>1
  <2>3. QED
    BY <2>1, <2>2, SeqEqual
<1>6. QED
  BY <1>0, <1>2, <1>3, <1>4, <1>5

LEMMA Unprefixed ==
    ASSUME NEW S, NEW a \in Seq(S), a # <<>>
    PROVE  Head(a) \in S /\ Tail(a) \in Seq(S) /\ <<Head(a)>> \o Tail(a) = a
<1>0. PICK b : b = <<Head(a)>> \o Tail(a)
  OBVIOUS
<1>1. /\ Head(a) \in S /\ Tail(a) \in Seq(S)
      /\ Len(Tail(a)) = Len(a) - 1 /\ \A i \in 1..Len(Tail(a)) : Tail(a)[i] = a[i + 1]
      /\ Len(a) \in Nat \ {0} /\ Head(a) = a[1]
  BY HeadTailProperties, EmptySeq
<1>2. <<Head(a)>> \in Seq(S) /\ Len(<<Head(a)>>) = 1 /\ <<Head(a)>>[1] = a[1]
  BY <1>1
<1>3. /\ b \in Seq(S) /\ Len(b) = Len(a)
      /\ \A i \in 1..Len(a) : b[i] = IF i <= 1 THEN <<Head(a)>>[i] ELSE Tail(a)[i - 1]
  BY <1>0, <1>1, <1>2, ConcatProperties
<1>4. \A i \in 1..Len(a) : b[i] = a[i]
  BY <1>1, <1>2, <1>3
<1>5. b = a
  BY <1>3, <1>4, SeqEqual
<1>6. QED
  BY <1>0, <1>1, <1>5

\* A path that no language and no reserved name begins.
Plain(p) == p \in Address /\ (p # <<>> => Head(p) \notin Locale \cup Reserved)

\* A path in a language: it answers as it is written, and keeps the two apart.
LEMMA HrefOfPath ==
    ASSUME NEW p, Plain(p), NEW m \in Locale
    PROVE  LET a == LocaleHref(m, p) IN
           /\ a \in Address /\ LocaleOf(a) = m /\ StripLocale(a) = p /\ Stands(a)
           /\ Served(a) # <<>> /\ Head(Served(a)) = m /\ Tail(Served(a)) = p
<1> DEFINE a == LocaleHref(m, p)
<1>1. p \in Address /\ m \in STRING
  BY AddressAssumption DEF Plain
<1>2. /\ <<m>> \o p \in Address /\ <<m>> \o p # <<>>
      /\ Head(<<m>> \o p) = m /\ Tail(<<m>> \o p) = p
  BY <1>1, Prefixed DEF Address
<1>3. CASE m = "en"
  <2>1. a = p /\ ~HasLocale(p)
    BY <1>3 DEF LocaleHref, DefaultLocale, Plain, HasLocale
  <2>2. Stands(p)
    BY ThreeLocales DEF Stands, CanonicalRedirect, DefaultLocale, Plain
  <2>3. RewriteTarget(p) = <<m>> \o p
    BY <1>3, <2>1 DEF RewriteTarget, DefaultLocale, Plain
  <2>4. Served(p) = <<m>> \o p
    BY <1>2, <2>3, AddressAssumption DEF Served
  <2>5. LocaleOf(p) = m /\ StripLocale(p) = p
    BY <1>3, <2>1 DEF LocaleOf, StripLocale, DefaultLocale
  <2>6. QED
    BY <1>1, <1>2, <2>1, <2>2, <2>4, <2>5
<1>4. CASE m # "en"
  <2>1. a = <<m>> \o p /\ HasLocale(a)
    BY <1>2, <1>4 DEF LocaleHref, DefaultLocale, HasLocale
  <2>2. Stands(a)
    BY <1>2, <1>4, <2>1 DEF Stands, CanonicalRedirect, DefaultLocale
  <2>3. Served(a) = a
    BY <2>1 DEF Served, RewriteTarget
  <2>4. LocaleOf(a) = m /\ StripLocale(a) = p
    BY <1>2, <2>1 DEF LocaleOf, StripLocale
  <2>5. QED
    BY <1>2, <2>1, <2>2, <2>3, <2>4
<1>5. QED
  BY <1>3, <1>4

\* A page that is found where it stands is the path behind its language.
LEMMA PageOfAddress ==
    ASSUME NEW a \in Address, Stands(a), Found(a)
    PROVE  StripLocale(a) \in Paths /\ LocaleHref(LocaleOf(a), StripLocale(a)) = a
<1>1. a # <<>> => Head(a) # DefaultLocale
  BY Unprefixed, AddressAssumption DEF Stands, CanonicalRedirect, Address
<1>2. CASE HasLocale(a)
  <2>1. Served(a) = a
    BY <1>2 DEF Served, RewriteTarget
  <2>2. LocaleOf(a) = Head(a) /\ StripLocale(a) = Tail(a) /\ a # <<>>
    BY <1>2 DEF LocaleOf, StripLocale, HasLocale
  <2>3. LocaleHref(LocaleOf(a), StripLocale(a)) = a
    BY <1>1, <2>2, Unprefixed DEF LocaleHref, Address
  <2>4. QED
    BY <2>1, <2>2, <2>3 DEF Found
<1>3. CASE ~HasLocale(a)
  <2>1. RewriteTarget(a) # Elsewhere
    <3>1. Served(a) # a
      BY <1>3 DEF Found, HasLocale
    <3>2. QED
      BY <3>1 DEF Served
  <2>2. Served(a) = <<DefaultLocale>> \o a
    BY <2>1 DEF Served, RewriteTarget
  <2>3. Tail(Served(a)) = a
    <3>0. DefaultLocale \in STRING
      BY ThreeLocales, AddressAssumption DEF DefaultLocale
    <3>1. a \in Seq(STRING)
      BY DEF Address
    <3>2. QED
      BY <2>2, <3>0, <3>1, Prefixed
  <2>4. LocaleOf(a) = DefaultLocale /\ StripLocale(a) = a
    BY <1>3 DEF LocaleOf, StripLocale
  <2>5. QED
    BY <2>3, <2>4 DEF Found, LocaleHref
<1>4. QED
  BY <1>2, <1>3

-----------------------------------------------------------------------------
(*****************************************************************************)
(* Orders of finite sets, and what a filter keeps                            *)
(*****************************************************************************)

\* An order R of S in which one of two always comes first.
Orders(R, S) ==
    /\ \A x \in S : <<x, x>> \notin R
    /\ \A x, y, z \in S : <<x, y>> \in R /\ <<y, z>> \in R => <<x, z>> \in R
    /\ \A x, y \in S : x = y \/ <<x, y>> \in R \/ <<y, x>> \in R

\* x has n - 1 before it.
IsPlaced(x, n, R, S) == x \in S /\ Cardinality({y \in S : <<y, x>> \in R}) = n - 1

\* In an order of a finite set each element has a place of its own.
LEMMA EachPlaceIsTaken ==
    ASSUME NEW S, IsFiniteSet(S), NEW R, Orders(R, S),
           NEW f, f = [n \in 1..Cardinality(S) |-> f[n]],
           \A n \in 1..Cardinality(S) : (\E x : IsPlaced(x, n, R, S)) => IsPlaced(f[n], n, R, S)
    PROVE  /\ f \in Bijection(1..Cardinality(S), S) /\ Cardinality(S) \in Nat
           /\ \A n \in 1..Cardinality(S) : IsPlaced(f[n], n, R, S)
<1> DEFINE Before(x) == {y \in S : <<y, x>> \in R}
<1>1. PICK n \in Nat : n = Cardinality(S)
  BY FS_CardinalityType
<1>2. ASSUME NEW x \in S PROVE Cardinality(Before(x)) \in 0..(n - 1)
  <2>1. x \notin Before(x) /\ Before(x) \in SUBSET S
    BY DEF Orders
  <2>2. IsFiniteSet(Before(x)) /\ Cardinality(Before(x)) <= n /\ Cardinality(Before(x)) # n
    BY <1>1, <2>1, FS_Subset
  <2>3. Cardinality(Before(x)) \in Nat
    BY <2>2, FS_CardinalityType
  <2> HIDE DEF Before
  <2>4. QED
    BY <2>2, <2>3
<1>3. ASSUME NEW x \in S, NEW y \in S, <<y, x>> \in R
      PROVE  Cardinality(Before(y)) # Cardinality(Before(x))
  <2>1. y \in Before(x) /\ y \notin Before(y)
    BY <1>3 DEF Orders
  <2>2. Before(y) \in SUBSET Before(x)
    BY <1>3 DEF Orders
  <2>3. IsFiniteSet(Before(x))
    BY FS_Subset
  <2> HIDE DEF Before
  <2>4. QED
    BY <2>1, <2>2, <2>3, FS_Subset
<1>4. ASSUME NEW x \in S, NEW y \in S, x # y
      PROVE  Cardinality(Before(y)) # Cardinality(Before(x))
  <2>1. <<x, y>> \in R \/ <<y, x>> \in R
    BY <1>4 DEF Orders
  <2> HIDE DEF Before
  <2>2. QED
    BY <1>3, <2>1
<1>5. PICK rank : rank = [x \in S |-> Cardinality(Before(x))]
  OBVIOUS
<1>6. rank \in Injection(S, 0..(n - 1))
  <2> HIDE DEF Before
  <2>1. rank \in [S -> 0..(n - 1)]
    BY <1>2, <1>5
  <2>2. \A x, y \in S : rank[x] = rank[y] => x = y
    BY <1>4, <1>5
  <2>3. QED
    BY <2>1, <2>2 DEF Injection, IsInjective
<1>7. IsFiniteSet(0..(n - 1)) /\ Cardinality(0..(n - 1)) = n
  <2>1. /\ IsFiniteSet(0..(n - 1))
        /\ Cardinality(0..(n - 1)) = IF 0 > n - 1 THEN 0 ELSE (n - 1) - 0 + 1
    <3>1. 0 \in Int /\ n - 1 \in Int
      OBVIOUS
    <3>2. QED
      BY <3>1, FS_Interval
  <2>2. QED
    BY <2>1
<1>8. rank \in Surjection(S, 0..(n - 1))
  BY <1>1, <1>6, <1>7, FS_Injection
<1>9. ASSUME NEW k \in 1..n
      PROVE  f[k] \in S /\ rank[f[k]] = k - 1 /\ IsPlaced(f[k], k, R, S)
  <2>1. k - 1 \in 0..(n - 1)
    OBVIOUS
  <2>2. \E x \in S : Cardinality(Before(x)) = k - 1
    BY <1>5, <1>8, <2>1 DEF Surjection
  <2>3. IsPlaced(f[k], k, R, S)
    BY <1>1, <2>2 DEF IsPlaced
  <2>4. f[k] \in S /\ Cardinality(Before(f[k])) = k - 1
    BY <2>3 DEF IsPlaced
  <2> HIDE DEF Before
  <2>5. QED
    BY <1>5, <2>3, <2>4
<1>10. f \in [1..n -> S]
  BY <1>1, <1>9
<1>11. \A j, k \in 1..n : f[j] = f[k] => j = k
  <2>1. ASSUME NEW j \in 1..n, NEW k \in 1..n, f[j] = f[k] PROVE j = k
    <3>1. j - 1 = k - 1
      BY <1>9, <2>1
    <3>2. QED
      BY <3>1
  <2>2. QED
    BY <2>1
<1>12. ASSUME NEW x \in S PROVE \E k \in 1..n : f[k] = x
  <2>1. rank[x] \in 0..(n - 1)
    BY <1>6 DEF Injection
  <2>2. PICK k \in 1..n : k - 1 = rank[x]
    <3>1. rank[x] + 1 \in 1..n /\ (rank[x] + 1) - 1 = rank[x]
      BY <2>1
    <3>2. QED
      BY <3>1
  <2>3. f[k] \in S /\ rank[f[k]] = rank[x]
    BY <1>9, <2>2
  <2>4. f[k] = x
    BY <1>6, <2>3 DEF Injection, IsInjective
  <2>5. QED
    BY <2>4
<1>13. QED
  BY <1>1, <1>9, <1>10, <1>11, <1>12 DEF Bijection, Injection, Surjection, IsInjective

\* Of two that are placed, the one with the lower place comes first.
LEMMA EarlierPlaced ==
    ASSUME NEW S, IsFiniteSet(S), NEW R, Orders(R, S), NEW x, NEW y, NEW i \in Nat, NEW j \in Nat,
           IsPlaced(x, i, R, S), IsPlaced(y, j, R, S), i < j
    PROVE  <<x, y>> \in R
<1> DEFINE Before(z) == {w \in S : <<w, z>> \in R}
<1>1. x \in S /\ y \in S /\ Cardinality(Before(x)) = i - 1 /\ Cardinality(Before(y)) = j - 1
  BY DEF IsPlaced
<1>2. x # y
  <2> HIDE DEF Before
  <2>1. QED
    BY <1>1
<1>3. SUFFICES ASSUME <<y, x>> \in R PROVE FALSE
  BY <1>1, <1>2 DEF Orders
<1>4. Before(y) \in SUBSET Before(x)
  BY <1>1, <1>3 DEF Orders
<1>5. Before(x) \in SUBSET S
  OBVIOUS
<1> HIDE DEF Before
<1>6. IsFiniteSet(Before(x))
  BY <1>5, FS_Subset
<1>7. Cardinality(Before(y)) <= Cardinality(Before(x))
  BY <1>4, <1>6, FS_Subset
<1>8. QED
  BY <1>1, <1>7

\* A bijection from 1..n is a sequence of n.
LEMMA PlacesAreASequence ==
    ASSUME NEW n \in Nat, NEW S, NEW f \in Bijection(1..n, S)
    PROVE  f \in Seq(S) /\ Len(f) = n /\ DOMAIN f = 1..n
<1>1. f \in [1..n -> S]
  BY DEF Bijection, Injection
<1>2. f \in Seq(S)
  BY <1>1, SeqDef
<1>3. Len(f) \in Nat /\ DOMAIN f = 1..Len(f)
  BY <1>2, LenProperties
<1>4. 1..n = 1..Len(f)
  BY <1>1, <1>3
<1>5. QED
  BY <1>1, <1>2, <1>3, <1>4

\* Places that are numbers.
LEMMA NumbersInOrder ==
    ASSUME NEW P, P \subseteq Nat, IsFiniteSet(P)
    PROVE  /\ Ascending(P) \in Bijection(1..Cardinality(P), P) /\ Cardinality(P) \in Nat
           /\ \A n \in 1..Cardinality(P) : Cardinality({j \in P : j < Ascending(P)[n]}) = n - 1
<1> DEFINE R == {z \in P \X P : z[1] < z[2]}
           Place(i) == Cardinality({j \in P : j < i})
           First(n) == CHOOSE i \in P : Place(i) = n - 1
<1>1. \A x, y \in P : <<x, y>> \in R <=> x < y
  OBVIOUS
<1>2. \A x \in P : {y \in P : y < x} = {y \in P : <<y, x>> \in R}
  BY <1>1
<1>3. PICK places : places = [n \in 1..Cardinality(P) |-> First(n)]
  OBVIOUS
<1>4. Ascending(P) = places
  BY <1>3 DEF Ascending, InOrder
<1>5. ASSUME NEW n \in 1..Cardinality(P), \E x : IsPlaced(x, n, R, P)
      PROVE  IsPlaced(places[n], n, R, P)
  <2>1. \A i \in P : Place(i) = n - 1 <=> IsPlaced(i, n, R, P)
    BY <1>2 DEF IsPlaced
  <2>2. PICK x \in P : Place(x) = n - 1
    BY <1>5, <2>1 DEF IsPlaced
  <2> HIDE DEF Place
  <2>3. places[n] \in P /\ Place(places[n]) = n - 1
    BY <1>3, <2>2
  <2>4. QED
    BY <2>1, <2>3
<1>6. places = [n \in 1..Cardinality(P) |-> places[n]]
  <2> HIDE DEF First
  <2>1. QED
    BY ONLY <1>3
<1>7. Orders(R, P)
  <2> HIDE DEF R
  <2>1. QED
    BY <1>1 DEF Orders
<1> HIDE DEF R
<1>8. /\ places \in Bijection(1..Cardinality(P), P) /\ Cardinality(P) \in Nat
      /\ \A n \in 1..Cardinality(P) : IsPlaced(places[n], n, R, P)
  BY <1>5, <1>6, <1>7, EachPlaceIsTaken
<1>9. \A n \in 1..Cardinality(P) : Cardinality({j \in P : j < places[n]}) = n - 1
  BY <1>2, <1>8 DEF IsPlaced
<1>10. QED
  BY <1>4, <1>8, <1>9

\* What filter keeps: each row that passes, once.
LEMMA KeptIs ==
    ASSUME NEW n \in Nat, NEW rows, DOMAIN rows = 1..n, NEW P, P \subseteq 1..n
    PROVE  /\ DOMAIN Kept(rows, P) = 1..Cardinality(P) /\ Cardinality(P) \in 0..n
           /\ Len(Kept(rows, P)) = Cardinality(P)
           /\ \A k \in DOMAIN Kept(rows, P) :
                 Ascending(P)[k] \in P /\ Kept(rows, P)[k] = rows[Ascending(P)[k]]
           /\ \A i \in P : \E k \in DOMAIN Kept(rows, P) : Ascending(P)[k] = i
           /\ \A j, k \in DOMAIN Kept(rows, P) : Ascending(P)[j] = Ascending(P)[k] => j = k
           /\ Kept(rows, P) = <<>> <=> P = {}
<1> DEFINE places == Ascending(P)
           F == Kept(rows, P)
<1>1. IsFiniteSet(1..n) /\ Cardinality(1..n) = n
  <2>1. IsFiniteSet(1..n) /\ Cardinality(1..n) = IF 1 > n THEN 0 ELSE n - 1 + 1
    BY FS_Interval
  <2>2. QED
    BY <2>1
<1>2. P \subseteq Nat /\ IsFiniteSet(P) /\ Cardinality(P) <= n
  <2>1. PICK D : D = 1..n
    OBVIOUS
  <2>2. IsFiniteSet(P) /\ Cardinality(P) <= Cardinality(D)
    BY <1>1, <2>1, FS_Subset
  <2>3. QED
    BY <1>1, <2>1, <2>2
<1>3. places \in Bijection(1..Cardinality(P), P) /\ Cardinality(P) \in Nat
  BY <1>2, NumbersInOrder
<1>4. DOMAIN places = 1..Cardinality(P)
  BY <1>3, PlacesAreASequence
<1>5. F = [k \in 1..Cardinality(P) |-> rows[places[k]]]
  BY DEF Kept
<1> HIDE DEF places, F
<1>6. \A k \in 1..Cardinality(P) : places[k] \in P
  BY <1>3 DEF Bijection, Injection
<1>7. F \in Seq({rows[i] : i \in P}) /\ DOMAIN F = 1..Cardinality(P)
  <2>1. PICK X : X = {rows[i] : i \in P}
    OBVIOUS
  <2>2. F \in [1..Cardinality(P) -> X]
    BY <1>5, <1>6, <2>1
  <2>3. PICK c \in Nat : c = Cardinality(P)
    BY <1>3
  <2>4. F \in Seq(X)
    BY ONLY <2>2, <2>3, SeqDef
  <2>5. QED
    BY <2>1, <2>2, <2>4
<1>8. Len(F) = Cardinality(P)
  <2>1. Len(F) \in Nat /\ DOMAIN F = 1..Len(F)
    BY <1>7, LenProperties
  <2>2. QED
    BY <1>3, <1>7, <2>1
<1>9. F = <<>> <=> P = {}
  <2>1. Cardinality(P) = 0 <=> P = {}
    BY <1>2, FS_EmptySet
  <2>2. F = <<>> <=> Len(F) = 0
    BY <1>7, EmptySeq
  <2>3. QED
    BY <1>8, <2>1, <2>2
<1>10. \A i \in P : \E k \in 1..Cardinality(P) : places[k] = i
  BY <1>3 DEF Bijection, Surjection
<1>11. \A j, k \in 1..Cardinality(P) : places[j] = places[k] => j = k
  BY <1>3 DEF Bijection, Injection, IsInjective
<1>12. QED
  BY <1>2, <1>3, <1>5, <1>6, <1>7, <1>8, <1>9, <1>10, <1>11 DEF places, F

-----------------------------------------------------------------------------
(*****************************************************************************)
(* The log                                                                   *)
(*****************************************************************************)

\* Entries whose dates and numbers can be compared, no two with one number.
Ordered(posts) ==
    /\ IsFiniteSet(posts)
    /\ \A p \in posts : p.published \in Int /\ p.no \in Int
    /\ \A p, q \in posts : p.no = q.no => p = q

\* The usable entries of a directory.
Usable(dir) == {PostMeta(f) : f \in {g \in dir : g.named}} \ {NoData}

LEMMA UsableIsOrdered ==
    ASSUME NEW dir, IsDirectory(dir), dir # NoData
    PROVE  /\ Ordered(Usable(dir))
           /\ \A p \in Usable(dir) : p.slug \in STRING /\ p.tags \in Seq(STRING \ {AllTags})
<1> DEFINE candidates == {g \in dir : g.named}
           metas == {PostMeta(f) : f \in candidates}
<1>1. IsFiniteSet(candidates) /\ \A f \in candidates :
        /\ f.slug \in STRING /\ f.no \in Nat /\ f.published \in Unusable \cup Int
        /\ f.tags \in Unusable \cup Seq(STRING \ {AllTags})
        /\ \A g \in candidates : g.no = f.no => g = f
  <2>1. IsFiniteSet(dir) /\ candidates \in SUBSET dir
    BY DEF IsDirectory
  <2>2. IsFiniteSet(candidates)
    BY <2>1, FS_Subset
  <2>3. QED
    BY <2>2 DEF IsDirectory
<1>2. IsFiniteSet(Usable(dir))
  <2>1. PICK f : f = [g \in candidates |-> PostMeta(g)]
    OBVIOUS
  <2>2. f \in Surjection(candidates, metas)
    BY <2>1 DEF Surjection
  <2>3. IsFiniteSet(metas)
    BY <1>1, <2>2, FS_Surjection
  <2>4. Usable(dir) \in SUBSET metas
    BY DEF Usable
  <2>5. QED
    BY <2>3, <2>4, FS_Subset
<1>3. ASSUME NEW p \in Usable(dir)
      PROVE  \E f \in candidates : /\ p = PostMeta(f) /\ p.slug = f.slug /\ p.no = f.no
                                   /\ p.published = f.published /\ f.published \notin Unusable
                                   /\ p.tags = f.tags /\ f.tags \notin Unusable
  <2>1. PICK f \in candidates : p = PostMeta(f) /\ p # NoData
    BY DEF Usable
  <2> DEFINE meta == [slug |-> f.slug, no |-> f.no, title |-> f.title, deck |-> f.deck,
                      published |-> f.published, tags |-> f.tags, systemId |-> Read(f.systemId)]
             complete == /\ f.title # NoText /\ f.deck # NoText /\ IsDate(f.published)
                         /\ TagList(f.tags) # NoData /\ f.summary # NoText
                         /\ f.updated # Junk
  <2>a. PostMeta(f) = IF complete THEN meta ELSE NoData
    BY Zenon DEF PostMeta
  <2>b. complete => IsDate(f.published) /\ TagList(f.tags) # NoData
    OBVIOUS
  <2>c. /\ meta.slug = f.slug /\ meta.no = f.no /\ meta.published = f.published
        /\ meta.tags = f.tags
    OBVIOUS
  <2> HIDE DEF complete, meta
  <2>2. IsDate(f.published) /\ TagList(f.tags) # NoData /\ p = meta
    BY <2>1, <2>a, <2>b
  <2>3. f.tags \notin Unusable
    BY <2>2 DEF TagList
  <2>4. QED
    BY <2>1, <2>2, <2>3, <2>c DEF IsDate
<1> HIDE DEF candidates
<1>4. QED
  BY <1>1, <1>2, <1>3 DEF Ordered

\* What the log is read into: a sequence of entries with names for slugs.
LEMMA PostsAreEntries ==
    ASSUME NEW dir, IsDirectory(dir)
    PROVE  LET posts == PostsIn(PostsOrNull(dir)) IN
           /\ Len(posts) \in Nat /\ DOMAIN posts = 1..Len(posts)
           /\ posts = [i \in 1..Len(posts) |-> posts[i]]
           /\ \A i \in DOMAIN posts :
                 /\ posts[i].slug \in STRING /\ posts[i].published \in Int
                 /\ posts[i].tags \in Seq(STRING \ {AllTags})
           /\ \A i, j \in DOMAIN posts : i < j => posts[i].published >= posts[j].published
<1>1. CASE PostsOrNull(dir) = NoData
  BY <1>1 DEF PostsIn
<1>2. CASE PostsOrNull(dir) # NoData
  <2> DEFINE U == Usable(dir)
             R == {z \in U \X U : ByNewest(z[1], z[2])}
             Place(p) == Cardinality({q \in U : ByNewest(q, p)})
  <2>1. dir # NoData
    BY <1>2 DEF PostsOrNull
  <2>2. PICK posts : posts = [i \in 1..Cardinality(U) |-> CHOOSE p \in U : Place(p) = i - 1]
    OBVIOUS
  <2>3. PostsIn(PostsOrNull(dir)) = posts
    BY <1>2, <2>1, <2>2 DEF PostsOrNull, ReadPosts, PostsIn, Usable, InOrder
  <2>4. Ordered(U) /\ \A p \in U : p.slug \in STRING /\ p.tags \in Seq(STRING \ {AllTags})
    BY <2>1, UsableIsOrdered
  <2> HIDE DEF U
  <2>5. \A x, y \in U : <<x, y>> \in R <=> ByNewest(x, y)
    OBVIOUS
  <2>6. \A x \in U : {y \in U : ByNewest(y, x)} = {y \in U : <<y, x>> \in R}
    BY <2>5
  <2> HIDE DEF R
  <2>7. IsFiniteSet(U) /\ Orders(R, U)
    BY <2>4, <2>5 DEF Ordered, Orders, ByNewest
  <2>8. ASSUME NEW i \in 1..Cardinality(U), \E x : IsPlaced(x, i, R, U) PROVE IsPlaced(posts[i], i, R, U)
    <3>1. \A p \in U : Place(p) = i - 1 <=> IsPlaced(p, i, R, U)
      BY <2>6 DEF IsPlaced
    <3>2. PICK x \in U : Place(x) = i - 1
      BY <2>8, <3>1 DEF IsPlaced
    <3> HIDE DEF Place
    <3>3. posts[i] \in U /\ Place(posts[i]) = i - 1
      BY <2>2, <3>2
    <3>4. QED
      BY <3>1, <3>3
  <2>9. posts = [i \in 1..Cardinality(U) |-> posts[i]]
    <3> DEFINE At(i) == CHOOSE p \in U : Place(p) = i - 1
    <3>1. posts = [i \in 1..Cardinality(U) |-> At(i)]
      BY <2>2
    <3> HIDE DEF At
    <3>2. QED
      BY ONLY <3>1
  <2>10. /\ posts \in Bijection(1..Cardinality(U), U) /\ Cardinality(U) \in Nat
         /\ \A i \in 1..Cardinality(U) : IsPlaced(posts[i], i, R, U)
    BY <2>7, <2>8, <2>9, EachPlaceIsTaken
  <2>11. posts \in Seq(U) /\ Len(posts) \in Nat /\ DOMAIN posts = 1..Len(posts)
    BY <2>10, PlacesAreASequence
  <2>12. \A i \in DOMAIN posts : posts[i] \in U
    BY <2>11, ElementOfSeq
  <2>13. Len(posts) = Cardinality(U)
    BY <2>10, PlacesAreASequence
  <2>14. \A i, j \in DOMAIN posts : i < j => <<posts[i], posts[j]>> \in R
    <3>1. \A i \in DOMAIN posts : IsPlaced(posts[i], i, R, U)
      BY <2>10, <2>11, <2>13
    <3>2. DOMAIN posts \subseteq Nat
      BY <2>11
    <3>3. QED
      BY <2>7, <3>1, <3>2, EarlierPlaced
  <2>15. \A i, j \in DOMAIN posts : i < j => posts[i].published >= posts[j].published
    <3>1. TAKE i, j \in DOMAIN posts
    <3>2. i < j => ByNewest(posts[i], posts[j])
      BY <2>5, <2>12, <2>14
    <3>3. posts[i].published \in Int /\ posts[j].published \in Int
      BY <2>4, <2>12 DEF Ordered
    <3>4. QED
      BY <3>2, <3>3 DEF ByNewest
  <2>16. \A i \in DOMAIN posts : /\ posts[i].slug \in STRING /\ posts[i].published \in Int
                                 /\ posts[i].tags \in Seq(STRING \ {AllTags})
    BY <2>4, <2>12 DEF Ordered
  <2>17. posts = [i \in 1..Len(posts) |-> posts[i]]
    BY <2>9, <2>13
  <2>18. QED
    BY <2>3, <2>11, <2>15, <2>16, <2>17
<1>3. QED
  BY <1>1, <1>2

-----------------------------------------------------------------------------
(*****************************************************************************)
(* Links                                                                     *)
(*****************************************************************************)

\* What this image holds of the log, in every scene.
LEMMA LogIsRead ==
    ASSUME scene \in Scenes
    PROVE  /\ Len(PostsIn(Log)) \in Nat /\ DOMAIN PostsIn(Log) = 1..Len(PostsIn(Log))
           /\ Slugs(PostsIn(Log)) \subseteq STRING
           /\ PostsIn(Log) = [i \in 1..Len(PostsIn(Log)) |-> PostsIn(Log)[i]]
           /\ \A i \in DOMAIN PostsIn(Log) :
                 PostsIn(Log)[i].published \in Int /\ PostsIn(Log)[i].tags \in Seq(STRING \ {AllTags})
           /\ \A i, j \in DOMAIN PostsIn(Log) :
                 i < j => PostsIn(Log)[i].published >= PostsIn(Log)[j].published
<1>1. IsDirectory(scene.dir)
  BY VisitAssumption
<1>2. PICK posts : posts = PostsIn(Log)
  OBVIOUS
<1>3. /\ Len(posts) \in Nat /\ DOMAIN posts = 1..Len(posts)
      /\ posts = [i \in 1..Len(posts) |-> posts[i]]
      /\ \A i \in DOMAIN posts :
            posts[i].slug \in STRING /\ posts[i].published \in Int /\ posts[i].tags \in Seq(STRING \ {AllTags})
      /\ \A i, j \in DOMAIN posts : i < j => posts[i].published >= posts[j].published
  BY <1>1, <1>2, PostsAreEntries DEF Log
<1>4. Slugs(posts) \subseteq STRING
  BY <1>3 DEF Slugs, Range
<1>5. QED
  BY <1>2, <1>3, <1>4

LEMMA PageNamesArePlain ==
    ASSUME NEW n \in {"work", "blog", "about", "contact", "imprint", "privacy"}
    PROVE  n \in STRING /\ n \notin Locale \cup Reserved
<1>1. <<n>> \in Seq(STRING) /\ Len(<<n>>) = 1 /\ <<n>>[1] = n
  BY PagesAssumption DEF FixedPages, Page, Address
<1>2. n \in STRING
  BY <1>1, ElementOfSeq
<1>3. QED
  BY <1>2, ThreeLocales DEF Reserved

\* No page's path could be taken for a language or a reserved name.
LEMMA PathsArePlain ==
    ASSUME scene \in Scenes, NEW p \in Paths
    PROVE  Plain(p)
<1>1. CASE p = <<>>
  BY <1>1, PagesAssumption DEF Plain, FixedPages
<1>2. ASSUME NEW n \in {"work", "blog", "about", "contact", "imprint", "privacy"}, p = Page(n)
      PROVE  Plain(p)
  <2>1. p \in Address
    BY <1>2, PagesAssumption DEF FixedPages
  <2>2. Head(p) = n
    BY <1>2 DEF Page
  <2>3. QED
    BY <2>1, <2>2, PageNamesArePlain DEF Plain
<1>3. ASSUME NEW n \in {"work", "blog"}, NEW s \in STRING, p = <<n, s>>
      PROVE  Plain(p)
  <2>1. n \in STRING /\ n \notin Locale \cup Reserved
    BY PageNamesArePlain
  <2>2. p \in Seq(STRING) /\ Head(p) = n
    BY <1>3, <2>1
  <2>3. QED
    BY <2>1, <2>2 DEF Plain, Address
<1>4. \/ p = <<>> \/ \E n \in {"work", "blog", "about", "contact", "imprint", "privacy"} : p = Page(n)
      \/ \E s \in CaseStudies : p = <<"work", s>>
      \/ \E s \in Slugs(PostsIn(Log)) : p = <<"blog", s>>
  BY DEF Paths, FixedPages, CaseStudyPath, PostPath
<1>5. QED
  BY <1>1, <1>2, <1>3, <1>4, LogIsRead, VisitAssumption

LEMMA LinkOfPath ==
    ASSUME scene \in Scenes, NEW p \in Paths, NEW m \in Locale
    PROVE  LET a == LocaleHref(m, p) IN
           /\ a \in Address /\ LocaleOf(a) = m /\ StripLocale(a) = p
           /\ Found(a) /\ Answers200(a)
<1>1. Plain(p)
  BY PathsArePlain
<1>2. PICK a : a = LocaleHref(m, p)
  OBVIOUS
<1>3. /\ a \in Address /\ LocaleOf(a) = m /\ StripLocale(a) = p /\ Stands(a)
      /\ Served(a) # <<>> /\ Head(Served(a)) = m /\ Tail(Served(a)) = p
  BY <1>1, <1>2, HrefOfPath
<1>4. QED
  BY <1>2, <1>3 DEF Found, Answers200, Stands

LEMMA FilesAnswer ==
    ASSUME NEW n \in {"feed.xml", "og.png"}
    PROVE  Answers200(Page(n))
<1>1. Page(n) = <<n>> /\ Head(<<n>>) = n
  BY DEF Page
<1>2. n # DefaultLocale
  BY DEF DefaultLocale
<1>3. Page(n) \in {Page(f) : f \in FileNames}
  BY DEF FileNames
<1>4. QED
  BY <1>1, <1>2, <1>3 DEF Answers200, CanonicalRedirect

LEMMA FixedPaths ==
    /\ <<>> \in Paths
    /\ \A n \in {"work", "blog", "about", "contact", "imprint", "privacy"} : Page(n) \in Paths
    /\ \A slug : CaseStudyHref(slug) \subseteq Paths
    /\ \A s \in Slugs(PostsIn(Log)) : PostPath(s) \in Paths
  BY DEF Paths, FixedPages, CaseStudyHref

LEMMA ChromeLinksPages ==
    /\ NavPaths \subseteq {Page(n) : n \in {"work", "blog", "about", "contact"}}
    /\ Page("blog") \in NavPaths => HasLog(Log)
<1>1. /\ DOMAIN Nav = 1..4
      /\ Nav[1].id = "work" /\ Nav[2].id = "log" /\ Nav[3].id = "about" /\ Nav[4].id = "contact"
      /\ Nav[1].href = Page("work") /\ Nav[2].href = Page("blog")
      /\ Nav[3].href = Page("about") /\ Nav[4].href = Page("contact")
  BY DEF Nav, Page
<1>2. \A i \in 1..4 : i = 1 \/ i = 2 \/ i = 3 \/ i = 4
  OBVIOUS
<1>3. ASSUME NEW p \in NavPaths
      PROVE  \E i \in 1..4 : p = Nav[i].href /\ (i = 2 => HasLog(Log))
  BY <1>1, <1>3 DEF NavPaths, NavEntries
<1>4. Page("work") # Page("blog") /\ Page("about") # Page("blog") /\ Page("contact") # Page("blog")
  BY DEF Page
<1>5. QED
  BY <1>1, <1>2, <1>3, <1>4

LEMMA LogLinksPages ==
    ASSUME scene \in Scenes
    PROVE  /\ LogEntryPaths \subseteq Paths
           /\ \A slug : {PostPath(s) : s \in Neighbours(PostsIn(Log), slug)} \subseteq Paths
           /\ IncidentPaths \subseteq Paths
<1> DEFINE posts == PostsIn(Log)
<1>1. Len(posts) \in Nat /\ DOMAIN posts = 1..Len(posts)
  BY LogIsRead
<1>2. \A i \in 1..Len(posts) : posts[i].slug \in Slugs(posts)
  BY <1>1 DEF Slugs, Range
<1>3. Slugs(LogEntries(Log)) \subseteq Slugs(posts)
  <2>0. PICK k : k = IF Len(posts) < 3 THEN Len(posts) ELSE 3
    OBVIOUS
  <2>1. k \in Nat /\ k <= Len(posts) /\ LogEntries(Log) = SubSeq(posts, 1, k)
    <3>1. LogEntries(Log) = SubSeq(posts, 1, k)
      BY <2>0 DEF LogEntries, LogRows
    <3> HIDE DEF posts
    <3>2. QED
      BY <1>1, <2>0, <3>1
  <2>2. \A i \in 1..k : posts[i] \in Range(posts)
    BY <1>1, <2>1 DEF Range
  <2> HIDE DEF posts
  <2>3. SubSeq(posts, 1, k) \in Seq(Range(posts))
    <3>1. 1 \in Int /\ k \in Int
      BY <2>1
    <3>2. PICK S : S = Range(posts)
      OBVIOUS
    <3>3. \A i \in 1..k : posts[i] \in S
      BY <2>2, <3>2
    <3>4. SubSeq(posts, 1, k) \in Seq(S)
      BY <3>1, <3>3, SubSeqProperties
    <3>5. QED
      BY <3>2, <3>4
  <2>4. \A i \in DOMAIN LogEntries(Log) : LogEntries(Log)[i] \in Range(posts)
    BY <2>1, <2>3, LenProperties, ElementOfSeq
  <2>5. Range(LogEntries(Log)) \subseteq Range(posts)
    BY <2>4 DEF Range
  <2>6. QED
    BY <2>5 DEF Slugs
<1>4. \A slug : Neighbours(posts, slug) \subseteq Slugs(posts)
  BY <1>1, <1>2 DEF Neighbours
<1>5. \A b : PostMortemHrefs(Log, b) \subseteq Slugs(posts)
  BY DEF PostMortemHrefs, PostFor, Slugs
<1>6. \A r : OpsSection(KindOf(r), Data(r)).posts \subseteq Slugs(posts)
  BY <1>5 DEF OpsSection
<1> HIDE DEF posts
<1>7. QED
  BY <1>3, <1>4, <1>6, FixedPaths DEF LogEntryPaths, IncidentPaths, posts

\* What a page's body links are pages.
LEMMA BodyLinksPages ==
    ASSUME scene \in Scenes, NEW path
    PROVE  BodyPaths(path) \subseteq Paths
<1>1. HomePaths \subseteq Paths
  BY LogLinksPages, FixedPaths DEF HomePaths
<1>2. BlogPaths \subseteq Paths
  BY FixedPaths DEF BlogPaths
<1>3. \A slug : PostPaths(slug) \subseteq Paths
  BY LogLinksPages, FixedPaths DEF PostPaths
<1>4. /\ {<<>>, Page("contact")} \subseteq Paths /\ {Page("privacy")} \subseteq Paths
      /\ {Page("imprint")} \subseteq Paths /\ {Page("work")} \cup IncidentPaths \subseteq Paths
      /\ CaseStudyHref(SiteSystem) \subseteq Paths
  BY LogLinksPages, FixedPaths
<1> DEFINE cases == {HomePaths, {<<>>, Page("contact")}, BlogPaths, CaseStudyHref(SiteSystem), {},
                     {Page("privacy")}, {Page("imprint")}, {Page("work")} \cup IncidentPaths,
                     PostPaths(path[2])}
<1>5. BodyPaths(path) \in cases
  BY DEF BodyPaths
<1>6. QED
  BY <1>1, <1>2, <1>3, <1>4, <1>5

\* The links of a page, by where they come from.
LEMMA LinksLeadToPages ==
    ASSUME scene \in Scenes, NEW a \in Address, Stands(a), NEW link \in Links(a)
    PROVE  \E p \in Paths, m \in Locale : link = LocaleHref(m, p)
<1>1. DefaultLocale \in Locale
  BY ThreeLocales DEF DefaultLocale
<1>2. \A p : LocaleHref(DefaultLocale, p) = p
  BY DEF LocaleHref
<1>3. CASE ~Found(a)
  <2>1. \E p \in MountedRoutes \cup {Page("privacy"), Page("imprint")} : link = LocaleHref(DefaultLocale, p)
    BY <1>3 DEF Links, NotFoundLinks
  <2>2. MountedRoutes \cup {Page("privacy"), Page("imprint")} \subseteq Paths
    BY FixedPaths DEF MountedRoutes
  <2>3. QED
    BY <1>1, <2>1, <2>2
<1>4. CASE Found(a) /\ link \in PageLinks(a)
  <2>1. ChromePaths \subseteq Paths
    BY FixedPaths, ChromeLinksPages DEF ChromePaths
  <2>2. LocaleOf(a) \in Locale
    BY <1>1 DEF LocaleOf, HasLocale
  <2>3. QED
    BY <1>4, <2>1, <2>2, BodyLinksPages DEF PageLinks
<1>5. CASE Found(a) /\ link \in RowLinks(a)
  <2>1. \A view : RowHrefs(view) \subseteq Paths
    BY FixedPaths DEF RowHrefs, RowHref
  <2>2. link \in Paths
    BY <1>5, <2>1 DEF RowLinks
  <2>3. QED
    BY <1>1, <1>2, <2>2
<1>6. CASE Found(a) /\ link \in LanguageLinks(a)
  <2>1. StripLocale(a) \in Paths
    BY <1>6, PageOfAddress
  <2>2. QED
    BY <1>6, <2>1, FixedPaths DEF LanguageLinks, SwitchLocale
<1>7. QED
  BY <1>3, <1>4, <1>5, <1>6 DEF Links

\* Where the tabs stand, and where they would go back to.
AtInv ==
    /\ at \in [Tab -> Address \cup {Elsewhere}]
    /\ past \in [Tab -> Address \cup {Elsewhere}]

LEMMA EveryMoveIsToAnAddress ==
    ASSUME AtInv, scene \in Scenes, NEW t \in Tab,
           \/ Loads(t) \/ Follow(t) \/ Back(t)
           \/ Show(t) \/ Hide(t) \/ Dismiss(t) \/ OnClose(t) \/ FollowFromMenu(t)
           \/ Open(t) \/ Mark(t) \/ Shut(t) \/ Escape(t) \/ Commit(t)
    PROVE  AtInv'
<1>0. at[t] \in Address \cup {Elsewhere} /\ past[t] \in Address \cup {Elsewhere}
  BY DEF AtInv
<1>1. \A h : Stays(t, h) => UNCHANGED <<at, past>>
  BY DEF Stays, allVars, visitVars
<1>2. ASSUME NEW address \in Address, at' = [at EXCEPT ![t] = address],
             past' = past \/ past' = [past EXCEPT ![t] = at[t]] \/ past' = [past EXCEPT ![t] = Elsewhere]
      PROVE  AtInv'
  BY <1>2 DEF AtInv
<1>3. \A h, address : Leaves(t, h, address) => at' = [at EXCEPT ![t] = address]
  BY DEF Leaves, Go
<1>4. Remembers(t) => past' = past \/ past' = [past EXCEPT ![t] = at[t]]
  BY DEF Remembers
<1>5. ASSUME OnPage(t), NEW m \in Locale
      PROVE  SwitchLocale(at[t], m) \in Address
  <2>1. at[t] \in Address
    BY <1>0, <1>5 DEF OnPage
  <2>2. StripLocale(at[t]) \in Address
    BY <2>1, Unprefixed DEF StripLocale, HasLocale, Address
  <2>3. m \in STRING
    BY AddressAssumption
  <2>4. QED
    BY <2>2, <2>3, Prefixed DEF SwitchLocale, LocaleHref, Address
<1>6. CASE Loads(t)
  <2>1. PICK address : Arrives(t, address) /\ address \in Address
    <3>1. CASE Load(t)
      BY <1>0, <3>1, VisitAssumption DEF Load
    <3>2. CASE Redirect(t)
      <4>1. at[t] \in Address /\ at[t] # <<>> /\ CanonicalRedirect(at[t]) = Tail(at[t])
        BY <1>0, <3>2 DEF Redirect, CanonicalRedirect
      <4>2. QED
        BY <3>2, <4>1, Unprefixed DEF Redirect, Address
    <3>3. QED
      BY <1>6, <3>1, <3>2 DEF Loads
  <2>2. QED
    BY <1>2, <1>6, <2>1 DEF Loads, Arrives
<1>7. CASE Follow(t)
  <2>1. PICK address \in Links(at[t]) : Leaves(t, Standing(t), address)
    BY <1>7 DEF Follow, Taken
  <2>2. at[t] \in Address /\ Stands(at[t])
    BY <1>0, <1>7 DEF Follow, OnPage
  <2>3. address \in Address
    BY <2>2, LinksLeadToPages, LinkOfPath
  <2>4. QED
    BY <1>2, <1>3, <1>4, <1>7, <2>1, <2>3 DEF Follow
<1>8. CASE Back(t)
  BY <1>0, <1>2, <1>3, <1>8 DEF Back
<1>9. CASE FollowFromMenu(t)
  <2>1. PICK address \in MenuLinks(at[t]) : Leaves(t, Hidden(Standing(t)), address)
    BY <1>9 DEF FollowFromMenu, Taken
  <2>2. OnPage(t) /\ at[t] \in Address
    BY <1>0, <1>9 DEF FollowFromMenu, OnHeader, OnPage
  <2>3. address \in Address
    <3>1. NavPaths \subseteq Paths
      BY ChromeLinksPages, FixedPaths
    <3>2. LocaleOf(at[t]) \in Locale
      BY ThreeLocales DEF LocaleOf, HasLocale, DefaultLocale
    <3>3. \A p \in NavPaths : LocaleHref(LocaleOf(at[t]), p) \in Address
      BY <3>1, <3>2, LinkOfPath
    <3>4. QED
      BY <1>5, <2>1, <2>2, <3>3 DEF MenuLinks
  <2>4. QED
    BY <1>2, <1>3, <1>4, <1>9, <2>1, <2>3 DEF FollowFromMenu
<1>10. CASE Commit(t)
  <2>1. OnPage(t)
    BY <1>10 DEF Commit, OnList, OnHeader
  <2>2. ASSUME NEW i \in DOMAIN Locales PROVE SwitchLocale(at[t], Locales[i]) \in Address
    BY <1>5, <2>1 DEF Locale
  <2>3. \/ \E h : Stays(t, h)
        \/ \E i \in DOMAIN Locales : \E h : Leaves(t, h, SwitchLocale(at[t], Locales[i])) /\ Remembers(t)
    BY <1>10 DEF Commit
  <2>4. QED
    BY <1>1, <1>2, <1>3, <1>4, <2>2, <2>3 DEF AtInv
<1>11. CASE OnClose(t)
  BY <1>11 DEF OnClose, allVars, visitVars, AtInv
<1>12. CASE Show(t) \/ Hide(t) \/ Dismiss(t) \/ Open(t) \/ Mark(t) \/ Shut(t) \/ Escape(t)
  BY <1>1, <1>12 DEF Show, Hide, Dismiss, Open, Mark, Shut, Escape, AtInv
<1>13. QED
  BY <1>6, <1>7, <1>8, <1>9, <1>10, <1>11, <1>12
LEMMA AtStep == AtInv /\ scene \in Scenes /\ [SiteNext]_siteVars => AtInv'
<1> SUFFICES ASSUME AtInv, scene \in Scenes, [SiteNext]_siteVars PROVE AtInv'
  OBVIOUS
<1>1. CASE UNCHANGED <<at, past>>
  BY <1>1 DEF AtInv
<1>2. CASE UNCHANGED siteVars
  BY <1>1, <1>2 DEF siteVars, allVars, visitVars, headerVars
<1>3. CASE VisitNext /\ UNCHANGED headerVars
  <2>1. at' = at
    BY <1>3 DEF VisitNext, visitVars, Pick, PressTag, Type, ResetBlog, PressStatus, PressStack,
       ResetWork, UnchangedButIslands
  <2>2. QED
    BY <1>1, <1>3, <2>1 DEF headerVars
<1>4. QED
  BY <1>2, <1>3, EveryMoveIsToAnAddress DEF SiteNext

\* The pages its JSON-LD names.
LEMMA DescribedArePages ==
    ASSUME scene \in Scenes, NEW a \in Address, Stands(a), Found(a), NEW url \in DescribedUrls(a)
    PROVE  \E p \in Paths, m \in Locale : url = LocaleHref(m, p)
<1>1. StripLocale(a) \in Paths
  BY PageOfAddress
<1>2. LocaleOf(a) \in Locale
  BY ThreeLocales DEF LocaleOf, HasLocale, DefaultLocale
<1> DEFINE Listed(entries) == {LocaleHref(LocaleOf(a), p) : p \in entries \cup {StripLocale(a)}}
<1>3. RowHrefs("work") \subseteq Paths /\ {PostPath(s) : s \in Slugs(PostsIn(Log))} \subseteq Paths
  BY FixedPaths DEF RowHrefs, RowHref
<1>4. \/ url \in Listed({}) \/ url \in Listed({PostPath(s) : s \in Slugs(PostsIn(Log))})
      \/ url \in Listed(RowHrefs("work"))
  BY DEF DescribedUrls
<1>5. QED
  BY <1>1, <1>2, <1>3, <1>4

\* A page's own address is the one of its path and language.
LEMMA HeadOfPage ==
    ASSUME scene \in Scenes, NEW a \in Address, Stands(a), Found(a)
    PROVE  /\ \A url \in HeadUrls(a) : Answers200(url)
           /\ Canonical(a) = a
           /\ \A m \in Locale :
                 /\ StripLocale(SwitchLocale(a, m)) = StripLocale(a) /\ LocaleOf(SwitchLocale(a, m)) = m
                 /\ Hreflang(Hreflang(a)[m]) = Hreflang(a)
                 /\ Hreflang(a)[m] \in SitemapUrls <=> Indexable(a)
<1>1. PICK p \in Paths : p = StripLocale(a) /\ LocaleHref(LocaleOf(a), p) = a
  BY PageOfAddress
<1>2. LocaleOf(a) \in Locale /\ DefaultLocale \in Locale
  BY ThreeLocales DEF LocaleOf, HasLocale, DefaultLocale
<1>3. \A m \in Locale : LET b == LocaleHref(m, p) IN
        b \in Address /\ LocaleOf(b) = m /\ StripLocale(b) = p /\ Answers200(b)
  BY LinkOfPath
<1>4. \A m \in Locale : Hreflang(a)[m] = LocaleHref(m, p)
  BY <1>1 DEF Hreflang
<1>5. ASSUME NEW url \in HeadUrls(a) PROVE Answers200(url)
  <2>1. CASE url \in DescribedUrls(a)
    BY <2>1, DescribedArePages, LinkOfPath
  <2>2. CASE url \in {Page("feed.xml"), Page("og.png")}
    BY <2>2, FilesAnswer
  <2>3. CASE url \in {Canonical(a), XDefault(a)} \cup Range(Hreflang(a))
    <3>1. \E m \in Locale : url = LocaleHref(m, p)
      BY <1>1, <1>2, <2>3 DEF Canonical, XDefault, Hreflang, Range
    <3>2. QED
      BY <1>3, <3>1
  <2>4. QED
    BY <1>5, <2>1, <2>2, <2>3 DEF HeadUrls
<1>6. ASSUME NEW m \in Locale
      PROVE  /\ StripLocale(SwitchLocale(a, m)) = StripLocale(a) /\ LocaleOf(SwitchLocale(a, m)) = m
             /\ Hreflang(Hreflang(a)[m]) = Hreflang(a)
             /\ Hreflang(a)[m] \in SitemapUrls <=> Indexable(a)
  <2>1. SwitchLocale(a, m) = LocaleHref(m, p)
    BY <1>1 DEF SwitchLocale
  <2>2. Hreflang(LocaleHref(m, p)) = Hreflang(a)
    BY <1>1, <1>3 DEF Hreflang
  <2>3. LocaleHref(m, p) \in SitemapUrls <=> p \in IndexablePaths
    <3>1. ASSUME NEW n \in Locale, NEW q \in IndexablePaths, LocaleHref(m, p) = LocaleHref(n, q)
          PROVE  p = q
      <4>1. q \in Paths
        BY DEF IndexablePaths
      <4>2. StripLocale(LocaleHref(n, q)) = q
        BY <4>1, LinkOfPath
      <4>3. QED
        BY <1>3, <3>1, <4>2
    <3>2. QED
      BY <3>1 DEF SitemapUrls
  <2>4. QED
    BY <1>1, <1>3, <1>4, <2>1, <2>2, <2>3 DEF Indexable
<1>7. Canonical(a) = a
  BY <1>1 DEF Canonical
<1>8. QED
  BY <1>5, <1>6, <1>7

\* A log read and empty is linked from no homepage and listed in no sitemap.
LEMMA NoLogNoLink ==
    ASSUME scene \in Scenes, ~HasLog(Log)
    PROVE  /\ \A a \in Address : Stands(a) /\ Found(a) /\ StripLocale(a) = <<>> =>
                 \A link \in PageLinks(a) : StripLocale(link) # Page("blog")
           /\ \A url \in SitemapUrls : StripLocale(url) # Page("blog")
<1>0. HasLog(Log) = FALSE
  BY DEF HasLog
<1>1. ASSUME NEW a \in Address, Stands(a), Found(a), StripLocale(a) = <<>>, NEW link \in PageLinks(a)
      PROVE  StripLocale(link) # Page("blog")
  <2>1. BodyPaths(<<>>) = {Page("work"), Page("about")}
    <3>1. BodyPaths(<<>>) = HomePaths
      <4>1. (\A n : Page(n) # <<>>) /\ \A s : CaseStudyPath(s) # <<>>
        BY DEF Page, CaseStudyPath
      <4>2. QED
        BY <4>1 DEF BodyPaths
    <3>2. HomePaths = {Page("work"), Page("about")}
      BY <1>0 DEF HomePaths
    <3>3. QED
      BY <3>1, <3>2
  <2>2. PICK p \in ChromePaths \cup {Page("work"), Page("about")} : link = LocaleHref(LocaleOf(a), p)
    BY <1>1, <2>1 DEF PageLinks
  <2>3. p \in Paths
    BY ChromeLinksPages, FixedPaths DEF ChromePaths
  <2>4. LocaleOf(a) \in Locale
    BY ThreeLocales DEF LocaleOf, HasLocale, DefaultLocale
  <2>5. StripLocale(link) = p
    BY <2>2, <2>3, <2>4, LinkOfPath
  <2>6. p # Page("blog")
    <3>1. \A n \in {"work", "about", "privacy", "imprint"} : Page(n) # Page("blog")
      BY DEF Page
    <3>2. <<>> # Page("blog")
      BY DEF Page
    <3>3. QED
      BY <3>1, <3>2, ChromeLinksPages DEF ChromePaths
  <2>7. QED
    BY <2>5, <2>6
<1>2. ASSUME NEW url \in SitemapUrls PROVE StripLocale(url) # Page("blog")
  <2>1. PICK m \in Locale, p \in IndexablePaths : url = LocaleHref(m, p)
    BY DEF SitemapUrls
  <2>2. p \in Paths /\ p # Page("blog")
    BY DEF IndexablePaths
  <2>3. QED
    BY <2>1, <2>2, LinkOfPath
<1>3. QED
  BY <1>1, <1>2

LEMMA SitemapAndFeedAnswer ==
    ASSUME scene \in Scenes, NEW url \in SitemapUrls \cup FeedLinks
    PROVE  Answers200(url)
<1>1. CASE url \in SitemapUrls
  BY <1>1, LinkOfPath DEF SitemapUrls, IndexablePaths
<1>2. CASE url = Page("feed.xml")
  BY <1>2, FilesAnswer
<1>3. CASE url \in {PostPath(s) : s \in Slugs(PostsIn(Log))} \cup {Page("blog")}
  <2>1. url \in Paths /\ DefaultLocale \in Locale
    BY <1>3, FixedPaths, ThreeLocales DEF DefaultLocale
  <2>2. LocaleHref(DefaultLocale, url) = url
    BY DEF LocaleHref
  <2>3. QED
    BY <2>1, <2>2, LinkOfPath
<1>4. QED
  BY <1>1, <1>2, <1>3 DEF FeedLinks

LEMMA AddressesAnswer ==
    ASSUME scene \in Scenes, AtInv
    PROVE  EveryLinkAnswers
<1>1. Here \subseteq Address
  BY DEF Here, AtInv
<1>2. ASSUME NEW a \in {b \in Here : Stands(b)}
      PROVE  /\ \A link \in Links(a) : Answers200(link)
             /\ Found(a) =>
                   /\ \A m \in Locale :
                         StripLocale(SwitchLocale(a, m)) = StripLocale(a)
                         /\ LocaleOf(SwitchLocale(a, m)) = m
                   /\ \A url \in HeadUrls(a) : Answers200(url)
                   /\ Canonical(a) = a
                   /\ \A m \in Locale :
                         /\ Hreflang(Hreflang(a)[m]) = Hreflang(a)
                         /\ Hreflang(a)[m] \in SitemapUrls <=> Indexable(a)
             /\ ~HasLog(Log) /\ Found(a) /\ StripLocale(a) = <<>> =>
                   \A link \in PageLinks(a) : StripLocale(link) # Page("blog")
  <2>1. a \in Address /\ Stands(a)
    BY <1>1
  <2>2. QED
    BY <2>1, LinksLeadToPages, LinkOfPath, HeadOfPage, NoLogNoLink
<1>3. QED
  BY <1>2, SitemapAndFeedAnswer, NoLogNoLink DEF EveryLinkAnswers

\* Every link of every page, in every language and for any log, case studies and
\* answers, is answered without a redirect; so are the addresses of a head, the
\* sitemap and the feed (routes.ts, proxy.ts, pages.ts).
THEOREM EveryLinkAnswersHolds == SiteSpec => []EveryLinkAnswers
<1>1. SiteInit => AtInv
  BY DEF SiteInit, VisitInit, AtInv
<1>2. SiteSpec => []TypeOK
  BY SiteImplementsReaders, TypeCorrect, PTL
<1>3. TypeOK => scene \in Scenes
  BY DEF TypeOK
<1>4. scene \in Scenes /\ AtInv => EveryLinkAnswers
  BY AddressesAnswer
<1>5. QED
  BY <1>1, <1>2, <1>3, <1>4, AtStep, PTL DEF SiteSpec

-----------------------------------------------------------------------------
(*****************************************************************************)
(* What a component is handed, and the figures it draws                      *)
(*****************************************************************************)

\* What a component may be handed for an answer: every field, or none of them.
IsAnswer(b) ==
    /\ \A f \in Fields : b[f] # NoData
    /\ \A f \in {"days", "systems", "weeks"} : IsList(b[f])
    /\ \A w \in DOMAIN Rows(b.weeks) : IsList(b.weeks[w])
    /\ b.errorRate \in Unusable \cup Int /\ b.incidents \in Unusable \cup Incidents

\* A region on a page is handed an answer of the api, or nothing while it waits and
\* after a failure.
LEMMA WhatIsHanded ==
    ASSUME TypeOK, DrawnIsAnAnswer, NEW r \in Region, region[r].at # "closed"
    PROVE  /\ KindOf(r) \in {"waiting", "down", "ok"}
           /\ IsAnswer(Data(r))
           /\ KindOf(r) # "ok" => Data(r) = Nothing
<1>1. region[r].at \in {"waiting", "asking", "down", "ok"}
  BY DEF TypeOK, Shown
<1>2. KindOf(r) \in {"waiting", "down", "ok"} /\ (KindOf(r) = "ok" <=> region[r].at = "ok")
  BY <1>1 DEF KindOf
<1>3. CASE KindOf(r) = "ok"
  <2>1. region[r].body \in Body
    BY <1>2, <1>3, ReadersAssumption DEF DrawnIsAnAnswer, Body
  <2>2. Data(r) = Says(region[r].body)
    BY <1>3 DEF Data
  <2>3. PICK b \in Body : Data(r) = Says(b)
    BY <2>1, <2>2
  <2>4. QED
    BY <1>2, <1>3, <2>3, ContentAssumption DEF IsAnswer
<1>4. CASE KindOf(r) # "ok"
  <2>1. Data(r) = Nothing
    BY <1>4 DEF Data
  <2>2. \A f \in Fields : Nothing[f] = Absent
    BY DEF Nothing
  <2>3. {"days", "systems", "weeks", "errorRate", "incidents"} \subseteq Fields
    BY DEF Fields
  <2>4. Absent # NoData /\ Absent \in Unusable
    BY AnswersAssumption DEF Unusable
  <2>5. Rows(Nothing.weeks) = <<>>
    BY <2>2, <2>3, <2>4 DEF Rows
  <2>6. IsAnswer(Nothing)
    BY <2>2, <2>3, <2>4, <2>5 DEF IsAnswer, IsList
  <2>7. QED
    BY <1>2, <2>1, <2>6
<1>5. QED
  BY <1>3, <1>4

\* A measurement stands where the answer has one.
LEMMA FiniteIs ==
    ASSUME NEW x, x # NoData
    PROVE  Finite(x) = NoData <=> x \in Unusable
BY DEF Finite

LEMMA RateIs ==
    ASSUME NEW x, x \in Unusable \cup Int
    PROVE  ErrorRateValue(Finite(x)) = NoData <=> x \in Unusable
<1>0. NoData \notin Unusable /\ NoData \notin Int
  BY AnswersAssumption
<1>1. CASE x \in Unusable
  BY <1>1 DEF ErrorRateValue, Finite
<1>2. CASE x \notin Unusable
  <2>1. x \in Int /\ Finite(x) = x
    BY <1>2 DEF Finite
  <2>2. (x + 50) \div 100 \in Int
    BY <2>1
  <2>3. ErrorRateValue(x) \in Int
    BY <1>0, <2>1, <2>2 DEF ErrorRateValue, Tiny
  <2>4. QED
    BY <1>0, <1>2, <2>1, <2>3
<1>3. QED
  BY <1>1, <1>2

\* A list, read, has a length.
LEMMA RowsAreASequence ==
    ASSUME NEW x, IsList(x)
    PROVE  Len(Rows(x)) \in Nat /\ DOMAIN Rows(x) = 1..Len(Rows(x))
<1>1. Len(<<>>) = 0 /\ DOMAIN <<>> = 1..0
  OBVIOUS
<1>2. QED
  BY <1>1 DEF IsList, Rows

\* Of n rows at most n are counted.
LEMMA AtMostAllAreCounted ==
    ASSUME NEW n \in Nat, NEW S \in SUBSET (1..n)
    PROVE  IsFiniteSet(S) /\ Cardinality(S) \in 0..n
<1>1. PICK D : D = 1..n
  OBVIOUS
<1>2. 1 \in Int /\ n \in Int
  OBVIOUS
<1>3. IsFiniteSet(1..n) /\ Cardinality(1..n) = IF 1 > n THEN 0 ELSE n - 1 + 1
  BY <1>2, FS_Interval
<1>4. IsFiniteSet(D) /\ Cardinality(D) = n
  BY <1>1, <1>3
<1>5. IsFiniteSet(S) /\ Cardinality(S) <= Cardinality(D)
  BY <1>1, <1>4, FS_Subset
<1>6. Cardinality(S) \in Nat
  BY <1>5, FS_CardinalityType
<1>7. QED
  BY <1>4, <1>5, <1>6

LEMMA TilesAreMeasured ==
    ASSUME NEW b, IsAnswer(b), NEW kind
    PROVE  LET tiles == MetricRow(kind, b).tiles IN
           /\ \A f \in {"uptime", "p95", "errorRate", "incidents"} : tiles[f] = NoData <=> b[f] \in Unusable
           /\ tiles.coverage # NoData => tiles.coverage.measured <= Len(Rows(b.days))
<1> DEFINE tiles == MetricTiles(b)
<1>1. MetricRow(kind, b).tiles = tiles
  BY DEF MetricRow
<1>2. b.uptime # NoData /\ b.p95 # NoData
  BY DEF IsAnswer, Fields
<1>3. \A f \in {"uptime", "p95"} : tiles[f] = NoData <=> b[f] \in Unusable
  <2>1. tiles.uptime = Finite(b.uptime) /\ tiles.p95 = Finite(b.p95)
    BY DEF MetricTiles
  <2>2. QED
    BY <1>2, <2>1, FiniteIs
<1>4. tiles.errorRate = NoData <=> b.errorRate \in Unusable
  <2>1. tiles.errorRate = ErrorRateValue(Finite(b.errorRate))
    BY DEF MetricTiles
  <2>2. QED
    BY <2>1, RateIs DEF IsAnswer
<1>5. tiles.incidents = NoData <=> b.incidents \in Unusable
  <2>1. tiles.incidents = IF b.incidents \in Unusable THEN NoData ELSE Len(b.incidents)
    BY DEF MetricTiles, IncidentCountValue
  <2>2. b.incidents \notin Unusable => Len(b.incidents) \in Nat
    BY DEF IsAnswer, Incidents
  <2>3. QED
    BY <2>1, <2>2, AnswersAssumption
<1>6. tiles.coverage # NoData => tiles.coverage.measured <= Len(Rows(b.days))
  <2> DEFINE D == {i \in DOMAIN Rows(b.days) : Rows(b.days)[i].state # "nodata"}
  <2>1. tiles.coverage # NoData => tiles.coverage = Coverage(b)
    BY DEF MetricTiles
  <2>2. Coverage(b).measured = Cardinality(D)
    BY DEF Coverage, CountOf
  <2>3. PICK n \in Nat : n = Len(Rows(b.days)) /\ DOMAIN Rows(b.days) = 1..n
    BY RowsAreASequence DEF IsAnswer
  <2>4. D \in SUBSET (1..n)
    BY <2>3
  <2> HIDE DEF D
  <2>5. Cardinality(D) <= n
    BY <2>4, AtMostAllAreCounted
  <2>6. QED
    BY <2>1, <2>2, <2>3, <2>5
<1> HIDE DEF tiles
<1>7. QED
  BY <1>1, <1>3, <1>4, <1>5, <1>6

\* A dot claims a good measurement beside the two good words only.
LEMMA GoodWords ==
    /\ \A status : Claim(SiteWord(status)) = "measured-good" <=> status = "ok"
    /\ \A status : Claim(SystemWord(status)) = "measured-good" <=> status = "ok"
    /\ \A state : Claim(SystemStateWord(state)) = "measured-good" <=> state = "live"
    /\ Claim(NoData) # "measured-good"
<1>1. NoData \notin {"live", "in_build", "queued", "ok", "degraded", "online"}
  BY AnswersAssumption DEF SystemStates, DayStates
<1>2. /\ Dot["live"] = "solid" /\ Dot["in_build"] = "dash" /\ Dot["online"] = "solid"
      /\ Dot["degraded"] = "ring" /\ Dot["queued"] = "dash" /\ Dot["nodata"] = "dash"
  BY DEF Dot
<1>3. DotAnswer["solid"] = "measured-good" /\ DotAnswer["ring"] = "measured-bad" /\ DotAnswer["dash"] = "unmeasured"
  BY DEF DotAnswer
<1>4. Claim(NoData) = "unmeasured"
  BY <1>2, <1>3 DEF Claim, Or
<1>5. \A w \in {"live", "online"} : Claim(w) = "measured-good"
  BY <1>1, <1>2, <1>3 DEF Claim, Or
<1>6. Claim("in_build") = "unmeasured" /\ Claim("queued") = "unmeasured" /\ Claim("degraded") = "measured-bad"
  BY <1>1, <1>2, <1>3 DEF Claim, Or
<1> HIDE DEF Claim
<1>7. ASSUME NEW s PROVE /\ Claim(SiteWord(s)) = "measured-good" <=> s = "ok"
                         /\ Claim(SystemWord(s)) = "measured-good" <=> s = "ok"
  <2>1. HealthStatus(s) = IF s \in {"ok", "degraded"} THEN s ELSE NoData
    BY DEF HealthStatus, OneOf
  <2>2. s = "ok" => SiteWord(s) = "online" /\ SystemWord(s) = "live"
    BY <1>1, <2>1 DEF SiteWord, SystemWord
  <2>3. s # "ok" => SiteWord(s) \in {NoData, "degraded"} /\ SystemWord(s) \in {NoData, "degraded"}
    BY <1>1, <2>1 DEF SiteWord, SystemWord
  <2>4. QED
    BY <1>4, <1>5, <1>6, <2>2, <2>3
<1>8. ASSUME NEW s PROVE Claim(SystemStateWord(s)) = "measured-good" <=> s = "live"
  <2>1. SystemStateWord(s) = IF s \in {"live", "in_build", "queued"} THEN s ELSE NoData
    BY DEF SystemStateWord, OneOf, SystemStates
  <2>2. QED
    BY <1>1, <1>4, <1>5, <1>6, <2>1
<1>9. QED
  BY <1>4, <1>7, <1>8

LEMMA CellsAreMeasured ==
    ASSUME NEW b, IsAnswer(b), NEW kind \in {"waiting", "down", "ok"}, kind # "ok" => b = Nothing
    PROVE  LET cells == FooterCells(kind, b) IN
           /\ cells.uptime = NoData <=> b.uptime \in Unusable
           /\ Claim(cells.status) = "measured-good" <=> b.status = "ok"
           /\ Claim(TerminalPanel(kind, b)) = "measured-good" <=> b.status = "ok"
<1>1. b.uptime # NoData
  BY DEF IsAnswer, Fields
<1>2. CASE kind = "ok"
  <2>1. FooterCells(kind, b).uptime = Finite(b.uptime) /\ FooterCells(kind, b).status = SiteWord(b.status)
    BY <1>2 DEF FooterCells, FooterHealth
  <2>2. TerminalPanel(kind, b) = SystemWord(b.status)
    BY <1>2 DEF TerminalPanel
  <2>3. QED
    BY <1>1, <2>1, <2>2, FiniteIs, GoodWords
<1>3. CASE kind # "ok"
  <2>1. b.uptime = Absent /\ b.status = Absent
    BY <1>3 DEF Nothing, Fields
  <2>2. Absent \in Unusable /\ Absent # "ok"
    BY AnswersAssumption DEF Unusable, DayStates
  <2>3. FooterCells(kind, b).uptime = NoData /\ FooterCells(kind, b).status = NoData /\ TerminalPanel(kind, b) = NoData
    BY <1>3 DEF FooterCells, NoHealth, TerminalPanel
  <2>4. QED
    BY <2>1, <2>2, <2>3, GoodWords
<1>4. QED
  BY <1>2, <1>3

LEMMA HeadIsMeasured ==
    ASSUME NEW b, IsAnswer(b)
    PROVE  /\ Claim(SpecRail(b).state) = "measured-good" <=> b.state = "live"
           /\ SpecRail(b).source = "public" => b.url \notin Unusable
           /\ Claim(CaseEyebrow(b).state) = "measured-good" <=> b.state = "live"
           /\ CaseEyebrow(b).no = NoData <=> b.systemNo = Absent
<1>1. SpecRail(b).state = SystemStateWord(b.state) /\ SpecRail(b).source = SourceView(b)
  BY DEF SpecRail
<1>2. /\ CaseEyebrow(b).state = SystemStateWord(b.state)
      /\ CaseEyebrow(b).no = IF b.systemNo = Absent THEN NoData ELSE b.systemNo
  BY DEF CaseEyebrow
<1>3. SourceView(b) = "public" => b.url \notin Unusable
  <2>1. NoData # "public"
    BY AnswersAssumption
  <2>2. QED
    BY <2>1 DEF SourceView, Read
<1>4. b.systemNo # NoData
  BY DEF IsAnswer, Fields
<1>5. QED
  BY <1>1, <1>2, <1>3, <1>4, GoodWords

LEMMA NoWordNoSteps ==
    ASSUME NEW b, NEW i \in DOMAIN Modules(b), NEW j \in DOMAIN Modules(b)[i]
    PROVE  Modules(b)[i][j].state = NoData => Modules(b)[i][j].steps = 0
<1>1. \A track : TrackView(track).state = NoData => TrackView(track).steps = 0
  BY DEF TrackView
<1>2. \E track : Modules(b)[i][j] = TrackView(track)
  <2>1. PICK cards, T : /\ Modules(b) = [k \in DOMAIN cards |-> [l \in DOMAIN T[k] |-> TrackView(T[k][l])]]
    <3> DEFINE cards == Filtered(Rows(b.modules), LAMBDA m : Read(m.no) # NoData /\ Read(m.title) # NoData)
               tracks(m) == Filtered(Rows(m.tracks), LAMBDA t : Read(t.name) # NoData)
               T == [k \in DOMAIN cards |-> tracks(cards[k])]
    <3>1. Modules(b) = [k \in DOMAIN cards |-> [l \in DOMAIN tracks(cards[k]) |-> TrackView(tracks(cards[k])[l])]]
      BY Zenon DEF Modules
    <3> HIDE DEF cards, tracks
    <3>2. \A k \in DOMAIN cards : T[k] = tracks(cards[k])
      OBVIOUS
    <3> HIDE DEF T
    <3>3. Modules(b) = [k \in DOMAIN cards |-> [l \in DOMAIN T[k] |-> TrackView(T[k][l])]]
      BY <3>1, <3>2
    <3>4. QED
      BY <3>3
  <2>2. Modules(b)[i] = [l \in DOMAIN T[i] |-> TrackView(T[i][l])]
    BY <2>1
  <2>3. QED
    BY <2>2
<1>3. QED
  BY <1>1, <1>2

LEMMA WhatIsDrawnIsMeasured ==
    ASSUME TypeOK, DrawnIsAnAnswer
    PROVE  DrawnIsMeasured
<1>1. \A view : \A r \in Drawing(view) :
        /\ KindOf(r) \in {"waiting", "down", "ok"} /\ IsAnswer(Data(r))
        /\ KindOf(r) # "ok" => Data(r) = Nothing
  BY WhatIsHanded DEF Drawing
<1>2. \A r \in Drawing("metrics") :
        LET tiles == MetricRow(KindOf(r), Data(r)).tiles  b == Data(r) IN
        /\ \A f \in {"uptime", "p95", "errorRate", "incidents"} :
              tiles[f] = NoData <=> b[f] \in Unusable
        /\ tiles.coverage # NoData => tiles.coverage.measured <= Len(Rows(b.days))
  BY <1>1, TilesAreMeasured
<1>3. \A r \in Drawing("footer") :
        LET cells == FooterCells(KindOf(r), Data(r)) IN
        /\ cells.uptime = NoData <=> Data(r).uptime \in Unusable
        /\ Claim(cells.status) = "measured-good" <=> Data(r).status = "ok"
  BY <1>1, CellsAreMeasured
<1>4. \A r \in Drawing("terminal") :
        Claim(TerminalPanel(KindOf(r), Data(r))) = "measured-good" <=> Data(r).status = "ok"
  BY <1>1, CellsAreMeasured
<1>5. \A r \in Drawing("rail") :
        LET rail == SpecRail(Data(r)) IN
        /\ Claim(rail.state) = "measured-good" <=> Data(r).state = "live"
        /\ rail.source = "public" => Data(r).url \notin Unusable
  BY <1>1, HeadIsMeasured
<1>6. \A r \in Drawing("eyebrow") :
        LET eyebrow == CaseEyebrow(Data(r)) IN
        /\ Claim(eyebrow.state) = "measured-good" <=> Data(r).state = "live"
        /\ eyebrow.no = NoData <=> Data(r).systemNo = Absent
  BY <1>1, HeadIsMeasured
<1>7. \A r \in Drawing("training") :
        \A i \in DOMAIN Modules(Data(r)) : \A j \in DOMAIN Modules(Data(r))[i] :
           LET track == Modules(Data(r))[i][j] IN track.state = NoData => track.steps = 0
  BY NoWordNoSteps
<1>8. QED
  BY <1>2, <1>3, <1>4, <1>5, <1>6, <1>7 DEF DrawnIsMeasured

\* Whatever the api answers, in whatever order, and whatever a build it does not know
\* leaves out: a figure stands in a region exactly where the answer of that region's own
\* read carries one, and a good dot beside exactly the two good words (lib/api/values.ts,
\* systems.ts:6-15, health.ts:92-138, case/Live.tsx:82-120).
THEOREM DrawnIsMeasuredHolds == SiteSpec => []DrawnIsMeasured
<1>1. ReadersInv => DrawnIsMeasured
  BY WhatIsDrawnIsMeasured DEF ReadersInv
<1>2. QED
  BY <1>1, InitInv, NextInv, SiteImplementsReaders, PTL DEF Spec

-----------------------------------------------------------------------------
(*****************************************************************************)
(* The rows a filter leaves, and the sentences about them                    *)
(*****************************************************************************)

\* A function on 1..n is a sequence of n.
LEMMA FunctionIsASequence ==
    ASSUME NEW n \in Nat, NEW F, F = [k \in 1..n |-> F[k]]
    PROVE  Len(F) = n /\ F \in Seq(Range(F)) /\ (n = 0 => F = <<>>)
<1>1. PICK X : X = Range(F)
  OBVIOUS
<1>2. F \in [1..n -> X]
  BY <1>1 DEF Range
<1>3. F \in Seq(X)
  BY ONLY <1>2, SeqDef
<1>4. Len(F) \in Nat /\ DOMAIN F = 1..Len(F)
  BY <1>3, LenProperties
<1>5. 1..n = 1..Len(F)
  BY <1>2, <1>4
<1>6. Len(F) = n
  BY <1>4, <1>5
<1>7. n = 0 => F = <<>>
  BY <1>3, <1>6, EmptySeq
<1>8. QED
  BY <1>1, <1>3, <1>6, <1>7

\* The incidents a log lists: those that are whole, and no other.
LEMMA ListedIncidents ==
    ASSUME NEW b, IsAnswer(b), b.incidents \notin Unusable
    PROVE  LET whole == {i \in DOMAIN b.incidents : Whole(b.incidents[i])}
               list == IncidentList(b) IN
           /\ list # NoData /\ (list = <<>> <=> whole = {})
           /\ \A k \in DOMAIN list : \E i \in whole : list[k] = b.incidents[i]
<1> DEFINE rows == b.incidents
           P == {i \in DOMAIN rows : Whole(rows[i])}
           F == Kept(rows, P)
<1>1. PICK n \in Nat : n = Len(rows) /\ DOMAIN rows = 1..n
  BY DEF IsAnswer, Incidents
<1>2. P \subseteq 1..n
  BY <1>1
<1>3. IncidentList(b) = F
  BY DEF IncidentList, Filtered
<1> HIDE DEF P, rows
<1>4. /\ DOMAIN F = 1..Cardinality(P) /\ Cardinality(P) \in 0..n
      /\ \A k \in DOMAIN F : Ascending(P)[k] \in P /\ F[k] = rows[Ascending(P)[k]]
      /\ F = <<>> <=> P = {}
  BY <1>1, <1>2, KeptIs
<1>5. F \in Incidents
  <2>1. PICK E : Incidents = Seq(E)
    BY DEF Incidents
  <2>2. rows \in Seq(E)
    BY <2>1 DEF IsAnswer, rows
  <2>3. \A k \in DOMAIN F : F[k] \in E
    BY <1>1, <1>2, <1>4, <2>2, ElementOfSeq
  <2>4. PICK c \in Nat : c = Cardinality(P)
    BY <1>4
  <2>5. F \in [1..c -> E]
    BY <1>4, <2>3, <2>4 DEF Kept
  <2> HIDE DEF F
  <2>6. F \in Seq(E)
    BY ONLY <2>5, SeqDef
  <2>7. QED
    BY <2>1, <2>6
<1>6. F # NoData
  BY <1>5, ContentAssumption
<1> HIDE DEF F
<1>7. QED
  BY <1>3, <1>4, <1>6 DEF P, rows

\* The rows a list of systems is drawn from: those with an address, and no other.
Named(b) == {i \in DOMAIN Rows(b.systems) : Read(Rows(b.systems)[i].slug) # NoData}

LEMMA ListedSystems ==
    ASSUME NEW b, IsAnswer(b)
    PROVE  LET drawn == SystemRows(b) IN
           /\ Len(drawn) \in Nat /\ DOMAIN drawn = 1..Len(drawn)
           /\ b.systems \in Unusable => drawn = <<>>
           /\ \A k \in DOMAIN drawn : drawn[k].state \in SystemStates \cup {NoData}
           /\ \A i \in Named(b) : \E k \in DOMAIN drawn : drawn[k].slug = Rows(b.systems)[i].slug
<1> DEFINE rows == Rows(b.systems)
           P == Named(b)
           F == Kept(rows, P)
<1>1. PICK n \in Nat : n = Len(rows) /\ DOMAIN rows = 1..n
  BY RowsAreASequence DEF IsAnswer
<1>2. P \subseteq 1..n
  BY <1>1 DEF Named
<1>3. SystemRows(b) = [k \in DOMAIN F |-> SystemRow(F[k])]
  <2>1. Filtered(Rows(b.systems), LAMBDA s : Read(s.slug) # NoData) = F
    BY DEF Filtered, Named
  <2>2. QED
    BY <2>1, Zenon DEF SystemRows
<1> HIDE DEF rows, P
<1>4. /\ DOMAIN F = 1..Cardinality(P) /\ Cardinality(P) \in 0..n
      /\ \A k \in DOMAIN F : Ascending(P)[k] \in P /\ F[k] = rows[Ascending(P)[k]]
      /\ \A i \in P : \E k \in DOMAIN F : Ascending(P)[k] = i
      /\ F = <<>> <=> P = {}
  BY <1>1, <1>2, KeptIs
<1> HIDE DEF F
<1>5. \A f : SystemRow(f).slug = f.slug /\ SystemRow(f).state \in SystemStates \cup {NoData}
  BY DEF SystemRow, SystemStateWord, OneOf
<1>6. PICK c \in Nat : c = Cardinality(P)
  BY <1>4
<1>7. PICK V : V = [k \in 1..c |-> SystemRow(F[k])] /\ V = SystemRows(b)
  BY <1>3, <1>4, <1>6
<1>8. V = [k \in 1..c |-> V[k]]
  BY <1>7
<1>9. Len(V) = c /\ DOMAIN V = 1..c /\ (c = 0 => V = <<>>)
  BY <1>7, <1>8, FunctionIsASequence
<1>10. b.systems \in Unusable => V = <<>>
  <2>1. SUFFICES ASSUME b.systems \in Unusable PROVE V = <<>>
    OBVIOUS
  <2>2. P = {}
    BY <2>1 DEF Rows, P, Named
  <2>3. c = 0
    BY <1>6, <2>2, FS_EmptySet
  <2>4. QED
    BY <1>9, <2>3
<1>11. QED
  BY <1>4, <1>5, <1>6, <1>7, <1>9, <1>10 DEF P, rows

\* Of the rows of a list, which are counted.
LEMMA CountIsANumber ==
    ASSUME NEW n \in Nat, NEW rows, DOMAIN rows = 1..n, NEW P, P \subseteq DOMAIN rows
    PROVE  Cardinality(P) \in Nat
BY AtMostAllAreCounted

\* The entries of the page of every system are its rows.
LEMMA EntriesAreRows ==
    ASSUME NEW b, IsAnswer(b), NEW posts
    PROVE  LET entries == WorkEntries(b, posts) IN
           /\ Len(entries) \in Nat /\ DOMAIN entries = 1..Len(entries)
           /\ Len(entries) = Len(SystemRows(b)) /\ (Len(entries) = 0 => entries = <<>>)
           /\ \A i \in DOMAIN entries :
                 /\ entries[i].state \in SystemStates \cup {NoData}
                 /\ entries[i].tags = TagsOf(b.systems[FirstWith(b, SystemRows(b)[i].slug)].stack)
<1> DEFINE rows == SystemRows(b)
           system(i) == b.systems[FirstWith(b, rows[i].slug)]
           EntryOf(i) == WorkEntry(rows[i], system(i), posts)
<1>1. WorkEntries(b, posts) = [i \in DOMAIN rows |-> EntryOf(i)]
  BY Zenon DEF WorkEntries
<1>2. \A i : /\ EntryOf(i).state = rows[i].state
             /\ EntryOf(i).tags = TagsOf(b.systems[FirstWith(b, rows[i].slug)].stack)
  BY DEF WorkEntry
<1>3. /\ Len(rows) \in Nat /\ DOMAIN rows = 1..Len(rows)
      /\ \A k \in DOMAIN rows : rows[k].state \in SystemStates \cup {NoData}
  BY ListedSystems
<1> HIDE DEF EntryOf, rows
<1>4. PICK n \in Nat : n = Len(rows)
  BY <1>3
<1>5. PICK E : E = [i \in 1..n |-> EntryOf(i)] /\ E = WorkEntries(b, posts)
  BY <1>1, <1>3, <1>4
<1>6. E = [i \in 1..n |-> E[i]]
  BY <1>5
<1>7. Len(E) = n /\ (n = 0 => E = <<>>)
  BY <1>6, FunctionIsASequence
<1>8. QED
  BY <1>2, <1>3, <1>4, <1>5, <1>6, <1>7 DEF rows

LEMMA CountsAreCounts ==
    ASSUME NEW b, IsAnswer(b), NEW posts
    PROVE  StatusCounts(WorkEntries(b, posts)) # NoData
<1> DEFINE entries == WorkEntries(b, posts)
           Of(state) == {i \in DOMAIN entries : entries[i].state = state}
<1>1. Len(entries) \in Nat /\ DOMAIN entries = 1..Len(entries)
  BY EntriesAreRows
<1>2. StatusCounts(entries) = [all |-> Len(entries), live |-> Cardinality(Of("live")),
                               in_build |-> Cardinality(Of("in_build")), queued |-> Cardinality(Of("queued"))]
  BY DEF StatusCounts, CountOf
<1> HIDE DEF entries
<1>3. \A state : Cardinality(Of(state)) \in Nat
  BY <1>1, CountIsANumber
<1> HIDE DEF Of
<1>4. StatusCounts(entries) \in [all : Nat, live : Nat, in_build : Nat, queued : Nat]
  BY <1>1, <1>2, <1>3
<1>5. QED
  BY <1>4, AnswersAssumption DEF entries

LEMMA MetricPanel ==
    ASSUME NEW b, NEW kind \in {"waiting", "down", "ok"}
    PROVE  SentenceFits(kind, MetricRow(kind, b).panel, FALSE, {"empty on purpose"})
<1>1. /\ kind = "waiting" => MetricRow(kind, b).panel = "loading"
      /\ kind = "down" => MetricRow(kind, b).panel = "down"
      /\ kind = "ok" => MetricRow(kind, b).panel \in {"tiles", "empty on purpose"}
  BY DEF MetricRow
<1>2. QED
  BY <1>1 DEF SentenceFits

LEMMA TwoParts ==
    ASSUME NEW S, NEW T, IsFiniteSet(S), IsFiniteSet(T), S \cap T = {}
    PROVE  IsFiniteSet(S \cup T) /\ Cardinality(S \cup T) = Cardinality(S) + Cardinality(T)
<1>1. IsFiniteSet(S \cup T) /\ Cardinality(S \cup T) = Cardinality(S) + Cardinality(T) - Cardinality(S \cap T)
  BY FS_Union
<1>2. Cardinality(S \cap T) = 0
  BY FS_EmptySet
<1>3. Cardinality(S) \in Nat /\ Cardinality(T) \in Nat
  BY FS_CardinalityType
<1>4. QED
  BY <1>1, <1>2, <1>3

\* An incident is listed or left out.
LEMMA ListedAndUnlisted ==
    ASSUME NEW b, IsAnswer(b), b.incidents \notin Unusable
    PROVE  /\ Len(b.incidents) = Len(IncidentList(b)) + Unlisted(b)
           /\ Len(IncidentList(b)) \in Nat /\ (IncidentList(b) = <<>> => Len(IncidentList(b)) = 0)
<1> DEFINE rows == b.incidents
           P == {i \in DOMAIN rows : Whole(rows[i])}
           Q == {i \in DOMAIN rows : ~Whole(rows[i])}
<1>1. PICK n \in Nat : n = Len(rows) /\ DOMAIN rows = 1..n
  BY DEF IsAnswer, Incidents
<1>2. P \in SUBSET (1..n) /\ Q \in SUBSET (1..n) /\ P \cap Q = {} /\ P \cup Q = 1..n
  BY <1>1
<1>3. Unlisted(b) = Cardinality(Q)
  <2>1. Rows(rows) = rows
    BY DEF Rows
  <2>2. QED
    BY <2>1 DEF Unlisted, CountOf
<1>4. IncidentList(b) = Kept(rows, P)
  BY DEF IncidentList, Filtered
<1> HIDE DEF P, Q, rows
<1>5. Len(Kept(rows, P)) = Cardinality(P) /\ Cardinality(P) \in Nat
  BY <1>1, <1>2, KeptIs
<1>6. IsFiniteSet(P) /\ IsFiniteSet(Q)
  BY <1>2, AtMostAllAreCounted
<1>7. Cardinality(P \cup Q) = Cardinality(P) + Cardinality(Q)
  BY <1>2, <1>6, TwoParts
<1>8. Cardinality(1..n) = n
  <2>1. Cardinality(1..n) = IF 1 > n THEN 0 ELSE n - 1 + 1
    BY FS_Interval
  <2>2. QED
    BY <2>1
<1>9. Len(<<>>) = 0
  OBVIOUS
<1>10. QED
  BY <1>1, <1>2, <1>3, <1>4, <1>5, <1>7, <1>8, <1>9 DEF rows

LEMMA OpsPanels ==
    ASSUME NEW b, IsAnswer(b), NEW kind \in {"waiting", "down", "ok"}, kind # "ok" => b = Nothing
    PROVE  LET panel == OpsSection(kind, b).panel IN
           /\ SentenceFits(kind, panel, FALSE, {"no incidents", "log"})
           /\ panel = "log" => \E i \in DOMAIN Rows(b.incidents) : Whole(b.incidents[i])
           /\ panel = "no incidents" =>
                 MetricTiles(b).incidents = IF b.incidents \in Unusable THEN NoData ELSE Unlisted(b)
<1>1. OpsSection(kind, b).panel = OpsPanel(kind, b)
  BY DEF OpsSection
<1>2. /\ kind = "waiting" => OpsPanel(kind, b) = "loading"
      /\ kind = "down" => OpsPanel(kind, b) = "down"
      /\ kind = "ok" => OpsPanel(kind, b) \in {"no incidents", "log"}
      /\ OpsPanel(kind, b) = "no incidents" => Or(IncidentList(b), <<>>) = <<>>
      /\ OpsPanel(kind, b) = "log" => Or(IncidentList(b), <<>>) # <<>>
  BY DEF OpsPanel
<1>3. ASSUME OpsPanel(kind, b) = "log" PROVE \E i \in DOMAIN Rows(b.incidents) : Whole(b.incidents[i])
  <2>1. Or(IncidentList(b), <<>>) # <<>>
    BY <1>2, <1>3
  <2>2. IncidentList(b) # NoData /\ IncidentList(b) # <<>>
    BY <2>1 DEF Or
  <2>3. b.incidents \notin Unusable
    BY <2>2 DEF IncidentList
  <2>4. {i \in DOMAIN b.incidents : Whole(b.incidents[i])} # {}
    BY <2>2, <2>3, ListedIncidents
  <2>5. QED
    BY <2>3, <2>4 DEF Rows
<1>4. ASSUME OpsPanel(kind, b) = "no incidents"
      PROVE  MetricTiles(b).incidents = IF b.incidents \in Unusable THEN NoData ELSE Unlisted(b)
  <2>1. MetricTiles(b).incidents = IF b.incidents \in Unusable THEN NoData ELSE Len(b.incidents)
    BY DEF MetricTiles, IncidentCountValue
  <2>2. ASSUME b.incidents \notin Unusable PROVE Len(b.incidents) = Unlisted(b)
    <3>1. Or(IncidentList(b), <<>>) = <<>>
      BY <1>2, <1>4
    <3>2. IncidentList(b) # NoData
      BY <2>2, ListedIncidents
    <3>3. IncidentList(b) = <<>>
      BY <3>1, <3>2 DEF Or
    <3>4. Unlisted(b) \in Nat
      <4>1. PICK n \in Nat : DOMAIN b.incidents = 1..n
        BY <2>2 DEF IsAnswer, Incidents
      <4>2. Unlisted(b) = Cardinality({i \in DOMAIN b.incidents : ~Whole(b.incidents[i])})
        BY <2>2 DEF Unlisted, CountOf, Rows
      <4>3. QED
        BY <4>1, <4>2, CountIsANumber
    <3>5. Len(b.incidents) = Len(IncidentList(b)) + Unlisted(b) /\ Len(IncidentList(b)) = 0
      BY <2>2, <3>3, ListedAndUnlisted
    <3>6. QED
      BY <3>4, <3>5
  <2>3. QED
    BY <2>1, <2>2
<1>5. QED
  BY <1>1, <1>2, <1>3, <1>4 DEF SentenceFits

LEMMA WorkPanel ==
    ASSUME NEW b, IsAnswer(b), NEW kind \in {"waiting", "down", "ok"}, kind # "ok" => b = Nothing
    PROVE  /\ SentenceFits(kind, WorkList(kind, b).panel, b.systems \in Unusable, {"none listed", "rows"})
           /\ WorkList(kind, b).panel = "none listed" => b.systems \notin Unusable
<1> DEFINE entries == WorkEntries(b, PostsIn(Log))
           counts == IF IsListed(b) THEN StatusCounts(entries) ELSE NoData
<1>1. WorkList(kind, b).panel = IF counts = NoData THEN IF kind = "waiting" THEN "loading" ELSE "down"
                                ELSE IF entries = <<>> THEN "none listed" ELSE "rows"
  BY DEF WorkList, WorkPage
<1>2. counts = NoData <=> b.systems \in Unusable
  BY CountsAreCounts DEF IsListed
<1> HIDE DEF counts, entries
<1>3. kind # "ok" => b.systems \in Unusable
  BY DEF Nothing, Fields, Unusable
<1>4. QED
  BY <1>1, <1>2, <1>3 DEF SentenceFits

LEMMA SystemsPanel ==
    ASSUME NEW b, IsAnswer(b), NEW kind \in {"waiting", "down", "ok"}, kind # "ok" => b = Nothing
    PROVE  SentenceFits(kind, Systems(kind, b).panel, SystemRows(b) = <<>>, {"picture"})
<1>1. Systems(kind, b).panel = PanelOf(kind, SystemRows(b))
  BY DEF Systems
<1>2. kind # "ok" => SystemRows(b) = <<>>
  <2>1. kind # "ok" => b.systems \in Unusable
    BY DEF Nothing, Fields, Unusable
  <2>2. QED
    BY <2>1, ListedSystems
<1>3. QED
  BY <1>1, <1>2 DEF PanelOf, SentenceFits

LEMMA PanelsTellTheTruth ==
    ASSUME TypeOK, DrawnIsAnAnswer
    PROVE  PanelTellsTheTruth
<1>1. \A view : \A r \in Drawing(view) :
        /\ KindOf(r) \in {"waiting", "down", "ok"} /\ IsAnswer(Data(r))
        /\ KindOf(r) # "ok" => Data(r) = Nothing
  BY WhatIsHanded DEF Drawing
<1>2. \A r \in Drawing("metrics") :
        SentenceFits(KindOf(r), MetricRow(KindOf(r), Data(r)).panel, FALSE, {"empty on purpose"})
  BY <1>1, MetricPanel
<1>3. \A r \in Drawing("ops") :
        LET b == Data(r)  panel == OpsSection(KindOf(r), b).panel IN
        /\ SentenceFits(KindOf(r), panel, FALSE, {"no incidents", "log"})
        /\ panel = "log" => \E i \in DOMAIN Rows(b.incidents) : Whole(b.incidents[i])
        /\ panel = "no incidents" =>
              MetricTiles(b).incidents = IF b.incidents \in Unusable THEN NoData ELSE Unlisted(b)
  BY <1>1, OpsPanels
<1>4. \A r \in Drawing("work") :
        LET b == Data(r) IN
        /\ SentenceFits(KindOf(r), WorkList(KindOf(r), b).panel, b.systems \in Unusable, {"none listed", "rows"})
        /\ WorkList(KindOf(r), b).panel = "none listed" => b.systems \notin Unusable
  BY <1>1, WorkPanel
<1>5. \A r \in Drawing("systems") :
        SentenceFits(KindOf(r), Systems(KindOf(r), Data(r)).panel, SystemRows(Data(r)) = <<>>, {"picture"})
  BY <1>1, SystemsPanel
<1>6. QED
  BY <1>2, <1>3, <1>4, <1>5 DEF PanelTellsTheTruth

\* Whatever the answers and in whatever order the regions hear them: fetching is said
\* while a region waits and only then, a failure only of one, and of the window or the
\* list something only with an answer in hand.  Whether NO INCIDENTS is that answer's
\* word or its silence, the incident tile of the same answer says (lib/state/read.ts:3-15,
\* case/OpsSection.tsx, IncidentLog.tsx:50, work/WorkList.tsx, home/Systems.tsx).
THEOREM PanelTellsTheTruthHolds == SiteSpec => []PanelTellsTheTruth
<1>1. ReadersInv => PanelTellsTheTruth
  BY PanelsTellTheTruth DEF ReadersInv
<1>2. QED
  BY <1>1, InitInv, NextInv, SiteImplementsReaders, PTL DEF Spec

-----------------------------------------------------------------------------
(*****************************************************************************)
(* Counts, marks and columns                                                 *)
(*****************************************************************************)

\* A notch is an incident the log lists.
LEMMA NotchesAreListed ==
    ASSUME NEW b, IsAnswer(b), NEW kind \in {"waiting", "down", "ok"}, kind # "ok" => b = Nothing,
           NEW i \in DOMAIN OpsSection(kind, b).cells
    PROVE  OpsSection(kind, b).cells[i].incidentId \in OpsSection(kind, b).log \cup {NoData}
<1> DEFINE list == IncidentList(b)
           id == b.days[i].incidentId
<1>1. OpsSection(kind, b).cells = OpsGrid(b) /\ OpsGrid(b)[i].incidentId = NotchOf(b, id)
  BY DEF OpsSection, OpsGrid
<1>2. OpsSection(kind, b).log = IF OpsPanel(kind, b) = "log" THEN IncidentLog(list) ELSE {}
  BY DEF OpsSection
<1> HIDE DEF id
<1>3. SUFFICES ASSUME NotchOf(b, id) # NoData PROVE NotchOf(b, id) \in OpsSection(kind, b).log
  BY <1>1
<1>4. PICK k \in DOMAIN Rows(Or(list, <<>>)) : list[k].id = Read(id)
  BY <1>3 DEF NotchOf
<1>5. NotchOf(b, id) = id
  BY <1>3 DEF NotchOf
<1>6. DOMAIN <<>> = {} /\ Rows(<<>>) = <<>>
  BY DEF Rows
<1> HIDE DEF list
<1>7. list # NoData
  BY <1>4, <1>6 DEF Or
<1>8. k \in DOMAIN list
  <2>1. Or(list, <<>>) = list
    BY <1>7 DEF Or
  <2>2. k \in DOMAIN Rows(list)
    BY <1>4, <2>1
  <2>3. list \notin Unusable
    BY <1>6, <2>2 DEF Rows
  <2>4. QED
    BY <2>2, <2>3 DEF Rows
<1>9. list # <<>>
  BY <1>6, <1>8
<1>10. b.incidents \notin Unusable
  BY <1>7 DEF IncidentList, list
<1>11. OpsPanel(kind, b) = "log"
  <2>1. Or(list, <<>>) # <<>>
    BY <1>7, <1>9 DEF Or
  <2>2. kind = "ok"
    BY <1>10 DEF Nothing, Fields, Unusable
  <2>3. QED
    BY <2>1, <2>2 DEF OpsPanel, list
<1>12. PICK j \in DOMAIN b.incidents : list[k] = b.incidents[j] /\ Whole(b.incidents[j])
  BY <1>8, <1>10, ListedIncidents DEF list
<1>13. Read(list[k].id) # NoData
  BY <1>12 DEF Whole
<1>14. list[k].id # NoData
  BY <1>13, AnswersAssumption DEF Read
<1>15. list[k].id = id
  BY <1>4, <1>14 DEF Read
<1>16. id \in IncidentLog(list)
  BY <1>8, <1>15 DEF IncidentLog
<1>17. QED
  BY <1>2, <1>5, <1>11, <1>16

\* Each row has one state or none: the counts add up.
LEMMA FourParts ==
    ASSUME NEW n \in Nat, NEW A, NEW B, NEW C, NEW D, A \cup B \cup C \cup D = 1..n,
           A \cap B = {}, A \cap C = {}, A \cap D = {}, B \cap C = {}, B \cap D = {}, C \cap D = {}
    PROVE  Cardinality(A) + Cardinality(B) + Cardinality(C) + Cardinality(D) = n
<1>1. /\ IsFiniteSet(A) /\ IsFiniteSet(B) /\ IsFiniteSet(C) /\ IsFiniteSet(D)
      /\ Cardinality(A) \in Nat /\ Cardinality(B) \in Nat /\ Cardinality(C) \in Nat /\ Cardinality(D) \in Nat
  <2>1. A \in SUBSET (1..n) /\ B \in SUBSET (1..n) /\ C \in SUBSET (1..n) /\ D \in SUBSET (1..n)
    OBVIOUS
  <2>2. QED
    BY <2>1, AtMostAllAreCounted
<1>3. IsFiniteSet(A \cup B) /\ Cardinality(A \cup B) = Cardinality(A) + Cardinality(B)
  BY <1>1, TwoParts
<1>4. IsFiniteSet(A \cup B \cup C) /\ Cardinality(A \cup B \cup C) = Cardinality(A) + Cardinality(B) + Cardinality(C)
  <2>1. PICK E : E = A \cup B
    OBVIOUS
  <2>2. E \cap C = {}
    BY <2>1
  <2>3. IsFiniteSet(E \cup C) /\ Cardinality(E \cup C) = Cardinality(E) + Cardinality(C)
    BY <1>1, <1>3, <2>1, <2>2, TwoParts
  <2>4. QED
    BY <1>3, <2>1, <2>3
<1>5. Cardinality(A \cup B \cup C \cup D) = Cardinality(A) + Cardinality(B) + Cardinality(C) + Cardinality(D)
  <2>1. PICK E : E = A \cup B \cup C
    OBVIOUS
  <2>2. E \cap D = {}
    BY <2>1
  <2>3. IsFiniteSet(E \cup D) /\ Cardinality(E \cup D) = Cardinality(E) + Cardinality(D)
    BY <1>1, <1>4, <2>1, <2>2, TwoParts
  <2>4. QED
    BY <1>4, <2>1, <2>3
<1>6. Cardinality(1..n) = n
  <2>1. Cardinality(1..n) = IF 1 > n THEN 0 ELSE n - 1 + 1
    BY FS_Interval
  <2>2. QED
    BY <2>1
<1>7. QED
  BY <1>5, <1>6

LEMMA CountsAddUp ==
    ASSUME NEW b, IsAnswer(b), NEW kind, WorkList(kind, b).counts # NoData
    PROVE  LET page == WorkList(kind, b)
               without == CountOf(page.entries, LAMBDA e : e.state = NoData) IN
           /\ page.counter = page.counts.all /\ page.counts.all = Len(page.entries)
           /\ page.counts.live + page.counts.in_build + page.counts.queued + without = page.counts.all
           /\ page.tiles[1] = Len(page.entries)
           /\ page.tiles[1] >= page.tiles[2] + page.tiles[3] + page.tiles[4]
<1> DEFINE page == WorkList(kind, b)
           entries == WorkEntries(b, PostsIn(Log))
           Of(state) == {i \in DOMAIN entries : entries[i].state = state}
<1>1. page.entries = entries /\ page.counter = WorkMeta(b) /\ page.tiles = WorkHeader(page.counts)
  BY DEF WorkList, WorkPage
<1>2. page.counts = IF IsListed(b) THEN StatusCounts(entries) ELSE NoData
  BY DEF WorkList, WorkPage
<1>3. IsListed(b) /\ page.counts = StatusCounts(entries)
  BY <1>2
<1>4. StatusCounts(entries) = [all |-> Len(entries), live |-> Cardinality(Of("live")),
                               in_build |-> Cardinality(Of("in_build")), queued |-> Cardinality(Of("queued"))]
  BY DEF StatusCounts, CountOf
<1>5. CountOf(page.entries, LAMBDA e : e.state = NoData) = Cardinality(Of(NoData))
  BY <1>1 DEF CountOf
<1>6. /\ Len(entries) \in Nat /\ DOMAIN entries = 1..Len(entries)
      /\ Len(entries) = Len(SystemRows(b))
      /\ \A i \in DOMAIN entries : entries[i].state \in SystemStates \cup {NoData}
  BY EntriesAreRows
<1>7. page.tiles = <<page.counts.all, page.counts.live, page.counts.in_build, page.counts.queued>>
  BY <1>1 DEF WorkHeader
<1>8. WorkMeta(b) = Len(SystemRows(b))
  BY <1>3 DEF WorkMeta
<1> HIDE DEF page, entries
<1>9. /\ Cardinality(Of("live")) \in Nat /\ Cardinality(Of("in_build")) \in Nat
      /\ Cardinality(Of("queued")) \in Nat /\ Cardinality(Of(NoData)) \in Nat
  BY <1>6, CountIsANumber
<1>10. Cardinality(Of("live")) + Cardinality(Of("in_build")) + Cardinality(Of("queued")) + Cardinality(Of(NoData))
         = Len(entries)
  <2>1. NoData \notin {"live", "in_build", "queued"}
    BY AnswersAssumption DEF SystemStates
  <2>2. Of("live") \cup Of("in_build") \cup Of("queued") \cup Of(NoData) = 1..Len(entries)
    BY <1>6 DEF SystemStates
  <2>3. /\ Of("live") \cap Of("in_build") = {} /\ Of("live") \cap Of("queued") = {}
        /\ Of("live") \cap Of(NoData) = {} /\ Of("in_build") \cap Of("queued") = {}
        /\ Of("in_build") \cap Of(NoData) = {} /\ Of("queued") \cap Of(NoData) = {}
    BY <2>1
  <2>4. PICK A, B, C, D : A = Of("live") /\ B = Of("in_build") /\ C = Of("queued") /\ D = Of(NoData)
    OBVIOUS
  <2> HIDE DEF Of
  <2>5. Cardinality(A) + Cardinality(B) + Cardinality(C) + Cardinality(D) = Len(entries)
    BY <1>6, <2>2, <2>3, <2>4, FourParts
  <2>6. QED
    BY <2>4, <2>5
<1> HIDE DEF Of
<1>11. /\ page.counts.all = Len(entries) /\ page.counts.live = Cardinality(Of("live"))
       /\ page.counts.in_build = Cardinality(Of("in_build")) /\ page.counts.queued = Cardinality(Of("queued"))
  BY <1>3, <1>4
<1>12. /\ page.tiles[1] = page.counts.all /\ page.tiles[2] = page.counts.live
       /\ page.tiles[3] = page.counts.in_build /\ page.tiles[4] = page.counts.queued
  BY <1>7
<1>13. QED
  BY <1>1, <1>5, <1>6, <1>8, <1>9, <1>10, <1>11, <1>12 DEF page

\* A chip leaves a row, when the rows have addresses of their own.
LEMMA ChipsLeaveARow ==
    ASSUME NEW b, IsAnswer(b), NEW kind, WorkList(kind, b).counts # NoData,
           Addressed(b.systems), NEW chip \in WorkList(kind, b).chips
    PROVE  CountOf(WorkList(kind, b).entries, LAMBDA e : chip \in e.tags) > 0
<1> DEFINE entries == WorkEntries(b, PostsIn(Log))
           systems == b.systems
           With == {k \in DOMAIN entries : chip \in entries[k].tags}
<1>1. WorkList(kind, b).entries = entries /\ WorkList(kind, b).chips = StackTags(b)
  BY DEF WorkList, WorkPage
<1>2. CountOf(WorkList(kind, b).entries, LAMBDA e : chip \in e.tags) = Cardinality(With)
  BY <1>1 DEF CountOf
<1>3. systems \notin Unusable
  BY DEF WorkList, WorkPage, IsListed
<1>4. Rows(systems) = systems
  BY <1>3 DEF Rows
<1>5. PICK i \in DOMAIN systems : chip \in TagsOf(systems[i].stack)
  BY <1>1, <1>4 DEF StackTags
<1>6. DOMAIN systems = 1..Len(systems) /\ Len(systems) \in Nat
  BY <1>3 DEF IsAnswer, IsList
<1>7. i \in Named(b)
  BY <1>4, <1>5 DEF Addressed, Named
<1>8. PICK k \in DOMAIN SystemRows(b) : SystemRows(b)[k].slug = systems[i].slug
  BY <1>4, <1>7, ListedSystems
<1>9. FirstWith(b, systems[i].slug) = i
  <2>1. \A j \in 1..(i - 1) : systems[j].slug # systems[i].slug
    BY <1>5, <1>6 DEF Addressed
  <2>2. \A j \in DOMAIN systems : systems[j].slug = systems[i].slug => j = i
    BY <1>5 DEF Addressed
  <2>3. QED
    BY <1>5, <2>1, <2>2 DEF FirstWith
<1>10. /\ Len(entries) \in Nat /\ DOMAIN entries = 1..Len(entries)
       /\ Len(entries) = Len(SystemRows(b))
       /\ \A l \in DOMAIN entries :
             entries[l].tags = TagsOf(systems[FirstWith(b, SystemRows(b)[l].slug)].stack)
  BY EntriesAreRows
<1>11. k \in DOMAIN entries
  BY <1>8, <1>10, ListedSystems
<1>12. k \in With
  BY <1>5, <1>8, <1>9, <1>10, <1>11
<1>13. With \in SUBSET (1..Len(entries))
  BY <1>10
<1> HIDE DEF With, entries
<1>14. IsFiniteSet(With) /\ Cardinality(With) \in 0..Len(entries)
  BY <1>10, <1>13, AtMostAllAreCounted
<1>15. Cardinality(With) # 0
  BY <1>12, <1>14, FS_EmptySet
<1>16. QED
  BY <1>2, <1>10, <1>14, <1>15

\* Where the rows of lists are.
Places(lists) == UNION {{i} \X DOMAIN lists[i] : i \in DOMAIN lists}

LEMMA PlacesAreFinite ==
    ASSUME NEW n \in Nat, NEW lists, DOMAIN lists = 1..n,
           \A w \in 1..n : \E m \in Nat : DOMAIN lists[w] = 1..m
    PROVE  IsFiniteSet(Places(lists))
<1> DEFINE Of(i) == {i} \X DOMAIN lists[i]
           S == {Of(i) : i \in 1..n}
<1>1. \A m \in Nat : IsFiniteSet(1..m)
  <2>1. TAKE m \in Nat
  <2>2. 1 \in Int /\ m \in Int
    OBVIOUS
  <2>3. QED
    BY <2>2, FS_Interval
<1>2. ASSUME NEW i \in 1..n PROVE IsFiniteSet(Of(i))
  <2>1. IsFiniteSet(DOMAIN lists[i])
    BY <1>1
  <2>2. QED
    BY <2>1, FS_Singleton, FS_Product
<1>3. IsFiniteSet(S)
  <2> HIDE DEF Of
  <2>1. PICK f : f = [i \in 1..n |-> Of(i)]
    OBVIOUS
  <2>2. f \in Surjection(1..n, S)
    BY <2>1 DEF Surjection
  <2>3. QED
    BY <1>1, <2>2, FS_Surjection
<1>4. \A T \in S : IsFiniteSet(T)
  <2> HIDE DEF Of
  <2>1. QED
    BY <1>2
<1>5. Places(lists) = UNION S
  BY DEF Places
<1> HIDE DEF S
<1>6. QED
  BY <1>3, <1>4, <1>5, FS_UNION

\* flatMap draws each row of each list, once.
LEMMA FlattenedIs ==
    ASSUME NEW n \in Nat, NEW lists, DOMAIN lists = 1..n,
           \A w \in 1..n : \E m \in Nat : DOMAIN lists[w] = 1..m
    PROVE  /\ Cardinality(Places(lists)) \in Nat
           /\ \E places \in Bijection(1..Cardinality(Places(lists)), Places(lists)) :
                 /\ Flattened(lists) = [k \in 1..Cardinality(Places(lists)) |-> lists[places[k][1]][places[k][2]]]
                 /\ \A k \in 1..Cardinality(Places(lists)) :
                       Cardinality({q \in Places(lists) : Earlier(q, places[k])}) = k - 1
<1> DEFINE P == Places(lists)
           R == {z \in P \X P : Earlier(z[1], z[2])}
           Place(p) == Cardinality({q \in P : Earlier(q, p)})
           First(k) == CHOOSE p \in P : Place(p) = k - 1
<1>1. PICK places : places = [k \in 1..Cardinality(P) |-> First(k)]
  OBVIOUS
<1>2. Flattened(lists) = [k \in DOMAIN places |-> lists[places[k][1]][places[k][2]]]
  BY <1>1 DEF Flattened, InOrder, Places
<1>3. \A p \in P : p[1] \in Nat /\ p[2] \in Nat /\ p = <<p[1], p[2]>>
  BY DEF Places
<1>4. IsFiniteSet(P)
  BY PlacesAreFinite
<1> HIDE DEF P
<1>5. \A x, y \in P : <<x, y>> \in R <=> Earlier(x, y)
  OBVIOUS
<1>6. \A x \in P : {y \in P : Earlier(y, x)} = {y \in P : <<y, x>> \in R}
  BY <1>5
<1>7. Orders(R, P)
  <2>1. \A x \in P : ~Earlier(x, x)
    BY <1>3 DEF Earlier
  <2>2. \A x, y, z \in P : Earlier(x, y) /\ Earlier(y, z) => Earlier(x, z)
    BY <1>3 DEF Earlier
  <2>3. \A x, y \in P : x = y \/ Earlier(x, y) \/ Earlier(y, x)
    <3>1. TAKE x, y \in P
    <3>2. x = <<x[1], x[2]>> /\ y = <<y[1], y[2]>> /\ x[1] \in Nat /\ x[2] \in Nat /\ y[1] \in Nat /\ y[2] \in Nat
      BY <1>3
    <3>3. (x[1] = y[1] /\ x[2] = y[2]) \/ Earlier(x, y) \/ Earlier(y, x)
      BY <3>2 DEF Earlier
    <3>4. QED
      BY <3>2, <3>3
  <2> HIDE DEF R
  <2>4. QED
    BY <1>5, <2>1, <2>2, <2>3 DEF Orders
<1> HIDE DEF R
<1>8. ASSUME NEW k \in 1..Cardinality(P), \E x : IsPlaced(x, k, R, P)
      PROVE  IsPlaced(places[k], k, R, P)
  <2>1. \A p \in P : Place(p) = k - 1 <=> IsPlaced(p, k, R, P)
    BY <1>6 DEF IsPlaced
  <2>2. PICK x \in P : Place(x) = k - 1
    BY <1>8, <2>1 DEF IsPlaced
  <2> HIDE DEF Place
  <2>3. places[k] \in P /\ Place(places[k]) = k - 1
    BY <1>1, <2>2
  <2>4. QED
    BY <2>1, <2>3
<1>9. places = [k \in 1..Cardinality(P) |-> places[k]]
  <2> HIDE DEF First
  <2>1. QED
    BY ONLY <1>1
<1>10. /\ places \in Bijection(1..Cardinality(P), P) /\ Cardinality(P) \in Nat
       /\ \A k \in 1..Cardinality(P) : IsPlaced(places[k], k, R, P)
  BY <1>4, <1>7, <1>8, <1>9, EachPlaceIsTaken
<1>11. DOMAIN places = 1..Cardinality(P)
  BY <1>9
<1> HIDE DEF First
<1>12. \A k \in 1..Cardinality(P) : Cardinality({q \in P : Earlier(q, places[k])}) = k - 1
  BY <1>6, <1>10 DEF IsPlaced
<1>13. QED
  BY <1>2, <1>10, <1>11, <1>12 DEF P

\* A week, as it is drawn.
LEMMA WeekIs ==
    ASSUME NEW week, IsList(week)
    PROVE  \E m \in Nat : /\ DOMAIN GraphCells(week) = 1..m /\ (GraphCells(week) # <<>> <=> m > 0)
                          /\ \A i \in 1..m : GraphCells(week)[i].startsWeek <=> i = 1
<1> DEFINE P == {i \in DOMAIN Rows(week) : Read(Rows(week)[i].date) # NoData}
           F == Kept(Rows(week), P)
           CellOf(i) == [date |-> F[i].date, level |-> OneOf(F[i].level, Levels), startsWeek |-> i = 1]
<1>1. PICK n \in Nat : DOMAIN Rows(week) = 1..n
  BY RowsAreASequence
<1>2. Filtered(Rows(week), LAMBDA d : Read(d.date) # NoData) = F
  BY DEF Filtered
<1>3. GraphCells(week) = [i \in DOMAIN F |-> CellOf(i)]
  BY <1>2, Zenon DEF GraphCells
<1>4. P \subseteq 1..n
  BY <1>1
<1> HIDE DEF P
<1>5. DOMAIN F = 1..Cardinality(P) /\ Cardinality(P) \in 0..n
  BY <1>1, <1>4, KeptIs
<1> HIDE DEF F
<1>6. \A i : CellOf(i).startsWeek <=> i = 1
  OBVIOUS
<1> HIDE DEF CellOf
<1>7. PICK m \in Nat : m = Cardinality(P)
  BY <1>5
<1>8. PICK G : G = GraphCells(week) /\ G = [i \in 1..m |-> CellOf(i)]
  BY <1>3, <1>5, <1>7
<1>9. G = [i \in 1..m |-> G[i]]
  BY <1>8
<1>10. Len(G) = m /\ (m = 0 => G = <<>>)
  BY <1>9, FunctionIsASequence
<1>11. m > 0 => G # <<>>
  BY <1>10
<1>12. QED
  BY <1>6, <1>8, <1>10, <1>11

\* A column is counted for each week that is drawn.
LEMMA ColumnsAreWeeks ==
    ASSUME NEW b, IsAnswer(b), NEW kind
    PROVE  LET view == ContributionGraph(kind, b).view IN
           view.columns = CountOf(view.cells, LAMBDA c : c.startsWeek)
<1>1. PICK n \in Nat : DOMAIN Rows(b.weeks) = 1..n
  BY RowsAreASequence DEF IsAnswer
<1>2. PICK weeks : weeks = [w \in 1..n |-> GraphCells(b.weeks[w])]
  OBVIOUS
<1>3. PICK U : U = {w \in 1..n : weeks[w] # <<>>}
  OBVIOUS
<1>4. PICK D : D = {k \in DOMAIN Flattened(weeks) : Flattened(weeks)[k].startsWeek}
  OBVIOUS
<1>5. /\ ContributionGraph(kind, b).view.columns = Cardinality(U)
      /\ CountOf(ContributionGraph(kind, b).view.cells, LAMBDA c : c.startsWeek) = Cardinality(D)
  <2>1. ContributionGraph(kind, b).view = GraphView(b)
    BY DEF ContributionGraph
  <2>2. GraphView(b).cells = Flattened(weeks)
    BY <1>1, <1>2 DEF GraphView
  <2>3. GraphView(b).columns = CountOf(weeks, LAMBDA w : w # <<>>)
    BY <1>1, <1>2 DEF GraphView, CountOf
  <2>4. CountOf(weeks, LAMBDA w : w # <<>>) = Cardinality(U)
    BY <1>2, <1>3 DEF CountOf
  <2>5. CountOf(GraphView(b).cells, LAMBDA c : c.startsWeek) = Cardinality(D)
    BY <1>4, <2>2 DEF CountOf
  <2>6. QED
    BY <2>1, <2>3, <2>4, <2>5
<1>6. \A w \in 1..n : \E m \in Nat : /\ DOMAIN weeks[w] = 1..m /\ (weeks[w] # <<>> <=> m > 0)
                                     /\ \A i \in 1..m : weeks[w][i].startsWeek <=> i = 1
  <2>1. \A w \in 1..n : IsList(b.weeks[w])
    BY <1>1 DEF IsAnswer
  <2>2. QED
    BY <1>2, <2>1, WeekIs
<1> DEFINE P == Places(weeks)
<1>a. DOMAIN weeks = 1..n /\ \A w \in 1..n : \E m \in Nat : DOMAIN weeks[w] = 1..m
  BY <1>2, <1>6
<1>b. /\ Cardinality(Places(weeks)) \in Nat
      /\ \E places \in Bijection(1..Cardinality(Places(weeks)), Places(weeks)) :
            Flattened(weeks) = [k \in 1..Cardinality(Places(weeks)) |-> weeks[places[k][1]][places[k][2]]]
  BY ONLY <1>a, FlattenedIs
<1>7. PICK places \in Bijection(1..Cardinality(P), P) :
        Flattened(weeks) = [k \in 1..Cardinality(P) |-> weeks[places[k][1]][places[k][2]]]
  BY <1>b
<1>8. PICK c \in Nat : c = Cardinality(P)
  BY <1>b
<1>9. \A p : p \in P <=> \E w \in 1..n : \E i \in DOMAIN weeks[w] : p = <<w, i>>
  BY <1>2 DEF Places
<1> HIDE DEF P
<1>10. /\ \A k \in 1..c : places[k] \in P
       /\ \A j, k \in 1..c : places[j] = places[k] => j = k
       /\ \A p \in P : \E k \in 1..c : places[k] = p
  BY <1>7, <1>8 DEF Bijection, Injection, Surjection, IsInjective
<1>11. D = {k \in 1..c : places[k][2] = 1}
  <2>1. ASSUME NEW k \in 1..c PROVE Flattened(weeks)[k].startsWeek <=> places[k][2] = 1
    <3>0. PICK w \in 1..n : \E i \in DOMAIN weeks[w] : places[k] = <<w, i>>
      BY <1>9, <1>10
    <3>1. PICK i \in DOMAIN weeks[w] : places[k] = <<w, i>>
      BY <3>0
    <3>2. weeks[w][i].startsWeek <=> i = 1
      BY <1>6
    <3>3. QED
      BY <1>7, <1>8, <3>1, <3>2
  <2>2. DOMAIN Flattened(weeks) = 1..c
    BY <1>7, <1>8
  <2>3. QED
    BY <1>4, <2>1, <2>2
<1>12. PICK h : h = [k \in D |-> places[k][1]]
  OBVIOUS
<1>13. \A k \in D : k \in 1..c /\ \E w \in 1..n : places[k] = <<w, 1>> /\ 1 \in DOMAIN weeks[w]
  <2>1. TAKE k \in D
  <2>2. k \in 1..c /\ places[k][2] = 1
    BY <1>11
  <2>a. PICK w \in 1..n : \E i \in DOMAIN weeks[w] : places[k] = <<w, i>>
    BY <1>9, <1>10, <2>2
  <2>3. PICK i \in DOMAIN weeks[w] : places[k] = <<w, i>>
    BY <2>a
  <2>4. i = 1
    BY <2>2, <2>3
  <2>5. QED
    BY <2>2, <2>3, <2>4
<1>14. \A w \in 1..n : 1 \in DOMAIN weeks[w] <=> w \in U
  BY <1>3, <1>6
<1>15. h \in [D -> U] /\ \A j, k \in D : h[j] = h[k] => j = k
  <2>1. h \in [D -> U]
    BY <1>12, <1>13, <1>14
  <2>2. ASSUME NEW j \in D, NEW k \in D, h[j] = h[k] PROVE j = k
    <3>1. places[j] = <<h[j], 1>> /\ places[k] = <<h[k], 1>>
      BY <1>12, <1>13
    <3>2. QED
      BY <1>10, <1>13, <2>2, <3>1
  <2>3. QED
    BY <2>1, <2>2
<1>16. \A w \in U : \E k \in D : h[k] = w
  <2>1. TAKE w \in U
  <2>2. w \in 1..n /\ 1 \in DOMAIN weeks[w]
    BY <1>3, <1>14
  <2>3. <<w, 1>> \in P
    BY <1>9, <2>2
  <2>4. PICK k \in 1..c : places[k] = <<w, 1>>
    BY <1>10, <2>3
  <2>5. k \in D /\ h[k] = w
    BY <1>11, <1>12, <2>4
  <2>6. QED
    BY <2>5
<1>17. IsFiniteSet(D)
  <2>1. D \in SUBSET (1..c)
    BY <1>11
  <2>2. QED
    BY <2>1, AtMostAllAreCounted
<1>18. h \in Bijection(D, U)
  BY <1>15, <1>16 DEF Bijection, Injection, Surjection, IsInjective
<1>19. Cardinality(U) = Cardinality(D)
  BY <1>17, <1>18, FS_Bijection DEF ExistsBijection
<1>20. QED
  BY <1>5, <1>19

LEMMA PicturesAgree ==
    ASSUME TypeOK, DrawnIsAnAnswer
    PROVE  PictureAgrees
<1>1. \A view : \A r \in Drawing(view) :
        /\ KindOf(r) \in {"waiting", "down", "ok"} /\ IsAnswer(Data(r))
        /\ KindOf(r) # "ok" => Data(r) = Nothing
  BY WhatIsHanded DEF Drawing
<1>2. \A r \in Drawing("ops") :
        LET ops == OpsSection(KindOf(r), Data(r)) IN
        \A i \in DOMAIN ops.cells : ops.cells[i].incidentId \in ops.log \cup {NoData}
  BY <1>1, NotchesAreListed
<1>6. ASSUME NEW m \in Drawing("metrics"), NEW o \in Drawing("ops"), SameAnswer(m, o)
      PROVE  LET tile == MetricRow("ok", Data(m)).tiles.incidents IN
             tile # NoData => tile = Len(IncidentList(Data(o))) + Unlisted(Data(o))
  <2>1. PICK b : b = Data(m) /\ b = Data(o) /\ IsAnswer(b)
    BY <1>1, <1>6 DEF SameAnswer, Data
  <2>2. MetricRow("ok", b).tiles.incidents = IF b.incidents \in Unusable THEN NoData ELSE Len(b.incidents)
    BY DEF MetricRow, MetricTiles, IncidentCountValue
  <2>3. b.incidents \notin Unusable => Len(b.incidents) = Len(IncidentList(b)) + Unlisted(b)
    BY <2>1, ListedAndUnlisted
  <2>4. QED
    BY <2>1, <2>2, <2>3
<1>7. ASSUME NEW c \in Drawing("crumb"), NEW e \in Drawing("eyebrow"), SameAnswer(c, e)
      PROVE  LET eyebrow == CaseEyebrow(Data(e)) IN
             eyebrow.no # NoData /\ Data(e).name # Absent => CaseCrumb("ok", Data(c)) = <<eyebrow.no, eyebrow.name>>
  <2>1. PICK b : b = Data(c) /\ b = Data(e)
    BY <1>7 DEF SameAnswer, Data
  <2>2. QED
    BY <2>1 DEF CaseCrumb, CaseEyebrow
<1>3. ASSUME NEW r \in Drawing("work"), WorkList(KindOf(r), Data(r)).counts # NoData
      PROVE  LET page == WorkList(KindOf(r), Data(r))
                 shown(Test(_)) == CountOf(page.entries, Test) IN
             /\ page.counter = page.counts.all /\ page.counts.all = Len(page.entries)
             /\ page.counts.live + page.counts.in_build + page.counts.queued
                  + shown(LAMBDA e : e.state = NoData) = page.counts.all
             /\ page.tiles[1] = Len(page.entries)
             /\ page.tiles[1] >= page.tiles[2] + page.tiles[3] + page.tiles[4]
             /\ \A chip \in page.chips :
                   \/ shown(LAMBDA e : chip \in e.tags) > 0
                   \/ ~Addressed(Data(r).systems)
  <2>1. PICK b : b = Data(r) /\ IsAnswer(b)
    BY <1>1
  <2>2. PICK kind : kind = KindOf(r)
    OBVIOUS
  <2>3. WorkList(kind, b).counts # NoData
    BY <1>3, <2>1, <2>2
  <2>4. LET page == WorkList(kind, b)
            without == CountOf(page.entries, LAMBDA e : e.state = NoData) IN
        /\ page.counter = page.counts.all /\ page.counts.all = Len(page.entries)
        /\ page.counts.live + page.counts.in_build + page.counts.queued + without = page.counts.all
        /\ page.tiles[1] = Len(page.entries)
        /\ page.tiles[1] >= page.tiles[2] + page.tiles[3] + page.tiles[4]
    BY <2>1, <2>3, CountsAddUp
  <2>5. \A chip \in WorkList(kind, b).chips :
          \/ CountOf(WorkList(kind, b).entries, LAMBDA e : chip \in e.tags) > 0
          \/ ~Addressed(b.systems)
    BY <2>1, <2>3, ChipsLeaveARow
  <2>6. QED
    BY <2>1, <2>2, <2>4, <2>5
<1>4. \A r \in Drawing("graph") :
        LET view == ContributionGraph(KindOf(r), Data(r)).view IN
        view.columns = CountOf(view.cells, LAMBDA c : c.startsWeek)
  BY <1>1, ColumnsAreWeeks
<1>5. QED
  BY <1>2, <1>3, <1>4, <1>6, <1>7 DEF PictureAgrees

\* What a page prints of one answer agrees with itself, for every answer of a usable
\* shape: a notch is an incident the log lists, the tiles of SYS.02 and the counter
\* count the rows under them, a chip leaves a row, and a column stands for each week
\* drawn.  So do two regions that hold the same answer: the incident tile with the log,
\* the crumb with the eyebrow (lib/api/systems.ts, lib/work, lib/api/contributions.ts).
THEOREM PictureAgreesHolds == SiteSpec => []PictureAgrees
<1>1. ReadersInv => PictureAgrees
  BY PicturesAgree DEF ReadersInv
<1>2. QED
  BY <1>1, InitInv, NextInv, SiteImplementsReaders, PTL DEF Spec

-----------------------------------------------------------------------------
(*****************************************************************************)
(* The islands: the index by year, its chips and its search, the work list   *)
(*****************************************************************************)

\* A numbering of a set says how many are numbered lower.
LEMMA AsManyBefore ==
    ASSUME NEW S, IsFiniteSet(S), NEW n \in Nat, NEW phi \in Bijection(S, 1..n), NEW z \in S
    PROVE  /\ Cardinality(S) = n
           /\ phi[z] \in 1..n
           /\ Cardinality({y \in S : phi[y] < phi[z]}) = phi[z] - 1
<1> DEFINE B == {y \in S : phi[y] < phi[z]}
<1>1. /\ \A x \in S : phi[x] \in 1..n
      /\ \A x, y \in S : phi[x] = phi[y] => x = y
      /\ \A k \in 1..n : \E x \in S : phi[x] = k
  BY DEF Bijection, Injection, Surjection, IsInjective
<1>2. \A m \in Nat : Cardinality(1..m) = m
  <2>1. TAKE m \in Nat
  <2>2. Cardinality(1..m) = IF 1 > m THEN 0 ELSE m - 1 + 1
    BY FS_Interval
  <2>3. QED
    BY <2>2
<1>3. Cardinality(S) = n
  <2>1. ExistsBijection(S, 1..n)
    BY DEF ExistsBijection
  <2>2. Cardinality(1..n) = Cardinality(S)
    BY <2>1, FS_Bijection
  <2>3. QED
    BY <1>2, <2>2
<1>4. PICK m \in Nat : m = phi[z] - 1 /\ m <= n
  <2>1. phi[z] - 1 \in Nat /\ phi[z] - 1 <= n
    BY <1>1
  <2>2. QED
    BY <2>1
<1>5. PICK h : h = [y \in B |-> phi[y]]
  OBVIOUS
<1>6. h \in [B -> 1..m]
  <2>1. \A y \in B : phi[y] \in 1..m
    BY <1>1, <1>4
  <2>2. QED
    BY <1>5, <2>1
<1>7. \A x, y \in B : h[x] = h[y] => x = y
  BY <1>1, <1>5
<1>8. ASSUME NEW k \in 1..m PROVE \E y \in B : h[y] = k
  <2>1. k \in 1..n /\ k < phi[z]
    BY <1>1, <1>4
  <2>2. PICK y \in S : phi[y] = k
    BY <1>1, <2>1
  <2>3. QED
    BY <1>5, <2>1, <2>2
<1>9. B \in SUBSET S
  OBVIOUS
<1> HIDE DEF B
<1>10. h \in Bijection(B, 1..m)
  BY <1>6, <1>7, <1>8 DEF Bijection, Injection, Surjection, IsInjective
<1>11. IsFiniteSet(B)
  BY <1>9, FS_Subset
<1>12. Cardinality(1..m) = Cardinality(B)
  BY <1>10, <1>11, FS_Bijection DEF ExistsBijection
<1>13. QED
  BY <1>1, <1>2, <1>3, <1>4, <1>12 DEF B

\* A filter that every row passes leaves the list.
LEMMA AllAreKept ==
    ASSUME NEW n \in Nat, NEW rows, rows = [i \in 1..n |-> rows[i]]
    PROVE  Kept(rows, 1..n) = rows
<1>1. PICK P : P = 1..n
  OBVIOUS
<1>2. PICK phi : phi = [i \in 1..n |-> i]
  OBVIOUS
<1>3. phi \in Bijection(P, 1..n)
  BY <1>1, <1>2 DEF Bijection, Injection, Surjection, IsInjective
<1>4. IsFiniteSet(P) /\ P \subseteq Nat
  <2>1. 1 \in Int /\ n \in Int
    OBVIOUS
  <2>2. QED
    BY <1>1, <2>1, FS_Interval
<1>5. ASSUME NEW i \in P PROVE Cardinality({j \in P : j < i}) = i - 1 /\ Cardinality(P) = n
  <2>1. Cardinality(P) = n /\ Cardinality({j \in P : phi[j] < phi[i]}) = phi[i] - 1
    BY <1>3, <1>4, AsManyBefore
  <2>2. {j \in P : phi[j] < phi[i]} = {j \in P : j < i} /\ phi[i] = i
    BY <1>1, <1>2
  <2>3. QED
    BY <2>1, <2>2
<1>6. Cardinality(P) = n
  <2>1. CASE P = {}
    BY <1>1, <2>1, FS_EmptySet
  <2>2. QED
    BY <1>5, <2>1
<1>7. PICK places : places = Ascending(P)
  OBVIOUS
<1>8. /\ places \in Bijection(1..n, P)
      /\ \A k \in 1..n : Cardinality({j \in P : j < places[k]}) = k - 1
  BY <1>4, <1>6, <1>7, NumbersInOrder
<1>9. \A k \in 1..n : places[k] = k
  <2>1. TAKE k \in 1..n
  <2>2. places[k] \in P
    BY <1>8 DEF Bijection, Injection
  <2>3. places[k] - 1 = k - 1
    BY <1>5, <1>8, <2>2
  <2>4. QED
    BY <1>1, <2>2, <2>3
<1>10. Kept(rows, P) = [k \in 1..n |-> rows[places[k]]]
  BY <1>6, <1>7 DEF Kept
<1>11. Kept(rows, P) = [k \in 1..n |-> rows[k]]
  BY <1>9, <1>10
<1>12. QED
  BY <1>1, <1>11

\* Places in order, the first of them 1: they rise, and each number stands at or after
\* one of them and before the next.
LEMMA SpansCover ==
    ASSUME NEW n \in Nat, NEW P, P \subseteq 1..n, n > 0 => 1 \in P
    PROVE  LET starts == Ascending(P)  c == Cardinality(P) IN
           /\ c \in Nat /\ starts \in [1..c -> P] /\ Len(starts) = c
           /\ \A i, j \in 1..c : i < j => starts[i] < starts[j]
           /\ n > 0 => 1 \in 1..c /\ starts[1] = 1
           /\ \A m \in 1..n : \E i \in 1..c : starts[i] <= m /\ (i = c \/ m < starts[i + 1])
<1>1. IsFiniteSet(P) /\ P \subseteq Nat
  <2>1. P \in SUBSET (1..n)
    OBVIOUS
  <2>2. QED
    BY <2>1, AtMostAllAreCounted
<1>2. PICK starts : starts = Ascending(P)
  OBVIOUS
<1>3. PICK c \in Nat : c = Cardinality(P)
  BY <1>1, FS_CardinalityType
<1> DEFINE Before(x) == {j \in P : j < x}
<1>4. /\ starts \in Bijection(1..c, P)
      /\ \A i \in 1..c : Cardinality(Before(starts[i])) = i - 1
  BY <1>1, <1>2, <1>3, NumbersInOrder
<1>5. starts \in [1..c -> P] /\ Len(starts) = c
  BY <1>4, PlacesAreASequence DEF Bijection, Injection
<1>6. \A x : Before(x) \in SUBSET P
  OBVIOUS
<1>7. \A x \in P : x \notin Before(x)
  BY <1>1
<1>8. ASSUME NEW i \in 1..c, NEW j \in 1..c, i < j
      PROVE  starts[i] < starts[j]
  <2>1. SUFFICES ASSUME ~(starts[i] < starts[j]) PROVE FALSE
    OBVIOUS
  <2>2. starts[i] \in Nat /\ starts[j] \in Nat
    BY <1>1, <1>5
  <2>3. Before(starts[j]) \in SUBSET Before(starts[i])
    <3>1. \A x \in Nat : x < starts[j] => x < starts[i]
      BY <2>1, <2>2
    <3>2. QED
      BY <1>1, <3>1
  <2> HIDE DEF Before
  <2>4. IsFiniteSet(Before(starts[i]))
    BY <1>1, <1>6, FS_Subset
  <2>5. Cardinality(Before(starts[j])) <= Cardinality(Before(starts[i]))
    BY <2>3, <2>4, FS_Subset
  <2>6. j - 1 <= i - 1
    BY <1>4, <2>5
  <2>7. QED
    BY <1>8, <2>6
<1>9. ASSUME NEW m \in 1..n
      PROVE  \E i \in 1..c : starts[i] <= m /\ (i = c \/ m < starts[i + 1])
  <2> DEFINE K == {s \in P : s <= m}
  <2>0. m \in Nat /\ n > 0 /\ \A x \in P : x \in Nat
    BY <1>1
  <2>1. K \in SUBSET P /\ 1 \in K
    BY <2>0
  <2>2. \A x \in P : x <= m => Before(x) \in SUBSET K /\ x \in K
    <3>1. \A x, y \in Nat : x <= m /\ y < x => y <= m
      BY <2>0
    <3>2. QED
      BY <2>0, <3>1
  <2>3. \A x \in P : ~(x <= m) => K \in SUBSET Before(x)
    <3>1. \A x, y \in Nat : ~(x <= m) /\ y <= m => y < x
      BY <2>0
    <3>2. QED
      BY <2>0, <3>1
  <2> HIDE DEF K, Before
  <2>4. IsFiniteSet(K) /\ Cardinality(K) <= c
    BY <1>1, <1>3, <2>1, FS_Subset
  <2>5. PICK i \in Nat : i = Cardinality(K)
    BY <2>4, FS_CardinalityType
  <2>6. i # 0
    BY <2>1, <2>4, <2>5, FS_EmptySet
  <2>7. i \in 1..c
    BY <2>4, <2>5, <2>6
  <2>8. starts[i] <= m
    <3>1. SUFFICES ASSUME ~(starts[i] <= m) PROVE FALSE
      OBVIOUS
    <3>2. starts[i] \in P
      BY <1>5, <2>7
    <3>3. K \in SUBSET Before(starts[i]) /\ IsFiniteSet(Before(starts[i]))
      BY <1>1, <1>6, <2>3, <3>1, <3>2, FS_Subset
    <3>4. Cardinality(K) <= Cardinality(Before(starts[i]))
      BY <3>3, FS_Subset
    <3>5. i <= i - 1
      BY <1>4, <2>5, <2>7, <3>4
    <3>6. QED
      BY <3>5
  <2>9. ASSUME i # c PROVE m < starts[i + 1]
    <3>1. i + 1 \in 1..c /\ (i + 1) - 1 = i
      BY <2>7, <2>9
    <3>2. starts[i + 1] \in P /\ Cardinality(Before(starts[i + 1])) = i
      BY <1>4, <1>5, <3>1
    <3>3. SUFFICES ASSUME starts[i + 1] <= m PROVE FALSE
      <4>1. starts[i + 1] \in Nat
        BY <1>1, <3>2
      <4>2. QED
        BY <2>0, <4>1
    <3>4. Before(starts[i + 1]) \in SUBSET K /\ starts[i + 1] \in K
      BY <2>2, <3>2, <3>3
    <3>5. Before(starts[i + 1]) = K
      BY <2>4, <2>5, <3>2, <3>4, FS_Subset
    <3>6. QED
      BY <1>7, <3>2, <3>4, <3>5
  <2>10. QED
    BY <2>7, <2>8, <2>9
<1>10. ASSUME n > 0 PROVE 1 \in 1..c /\ starts[1] = 1
  <2>1. PICK i \in 1..c : starts[i] <= 1
    <3>1. 1 \in 1..n
      BY <1>10
    <3>2. QED
      BY <1>9, <3>1
  <2>2. starts[i] = 1
    <3>1. starts[i] \in 1..n
      BY <1>5
    <3>2. QED
      BY <2>1, <3>1
  <2>3. 1 \in 1..c /\ (i # 1 => 1 < i)
    BY <2>1
  <2>4. i # 1 => starts[1] < 1
    BY <1>8, <2>2, <2>3
  <2>5. starts[1] \in 1..n
    BY <1>5, <2>3
  <2>6. QED
    BY <2>2, <2>3, <2>4, <2>5
<1>11. QED
  BY <1>2, <1>3, <1>5, <1>8, <1>9, <1>10

\* Where the runs of one year start, how many there are, and where one ends.
Starts(posts) == Ascending(YearStarts(posts))
Runs(posts) == Cardinality(YearStarts(posts))
RunEnd(posts, i) == IF i = Runs(posts) THEN Len(posts) ELSE Starts(posts)[i + 1] - 1

\* The runs of a list cut it: each is not empty, the next starts behind it, and each
\* entry is in one.
LEMMA RunsCut ==
    ASSUME NEW n \in Nat, NEW posts, posts = [i \in 1..n |-> posts[i]]
    PROVE  LET starts == Starts(posts)  c == Runs(posts) IN
           /\ c \in Nat /\ Len(starts) = c /\ DOMAIN starts = 1..c /\ Len(posts) = n
           /\ \A i \in 1..c : /\ starts[i] \in YearStarts(posts) /\ starts[i] \in 1..n
                              /\ RunEnd(posts, i) \in starts[i]..n
           /\ \A i, j \in 1..c : i < j => RunEnd(posts, i) < starts[j]
           /\ \A m \in 1..n : \E i \in 1..c : m \in starts[i]..RunEnd(posts, i)
<1>1. PICK P : P = YearStarts(posts)
  OBVIOUS
<1>2. P \subseteq 1..n /\ (n > 0 => 1 \in P)
  BY <1>1 DEF YearStarts
<1>3. Len(posts) = n
  BY FunctionIsASequence
<1>4. PICK starts, c : starts = Starts(posts) /\ c = Runs(posts)
  OBVIOUS
<1>5. /\ c \in Nat /\ starts \in [1..c -> P] /\ Len(starts) = c
      /\ \A i, j \in 1..c : i < j => starts[i] < starts[j]
      /\ \A m \in 1..n : \E i \in 1..c : starts[i] <= m /\ (i = c \/ m < starts[i + 1])
  BY <1>1, <1>2, <1>4, SpansCover DEF Starts, Runs
<1>6. \A i \in 1..c : starts[i] \in 1..n /\ starts[i] \in P
  BY <1>2, <1>5
<1>7. \A i : RunEnd(posts, i) = IF i = c THEN n ELSE starts[i + 1] - 1
  BY <1>3, <1>4 DEF RunEnd
<1>8. \A i \in 1..c : i # c => i + 1 \in 1..c /\ i < i + 1
  BY <1>5
<1>9. \A i \in 1..c : RunEnd(posts, i) \in starts[i]..n
  <2>1. TAKE i \in 1..c
  <2>2. CASE i = c
    BY <1>6, <1>7, <2>2
  <2>3. CASE i # c
    <3>1. starts[i] < starts[i + 1] /\ starts[i + 1] \in 1..n /\ starts[i] \in 1..n
      BY <1>5, <1>6, <1>8, <2>3
    <3>2. starts[i + 1] - 1 \in starts[i]..n
      BY <3>1
    <3>3. QED
      BY <1>7, <2>3, <3>2
  <2>4. QED
    BY <2>2, <2>3
<1>10. \A i, j \in 1..c : i < j => RunEnd(posts, i) < starts[j]
  <2>1. SUFFICES ASSUME NEW i \in 1..c, NEW j \in 1..c, i < j PROVE RunEnd(posts, i) < starts[j]
    OBVIOUS
  <2>2. i # c /\ i + 1 \in 1..c /\ (i + 1 = j \/ i + 1 < j)
    BY <1>5, <2>1
  <2>3. starts[i + 1] \in 1..n /\ starts[j] \in 1..n /\ (i + 1 = j \/ starts[i + 1] < starts[j])
    BY <1>5, <1>6, <2>2
  <2>4. RunEnd(posts, i) = starts[i + 1] - 1
    BY <1>7, <2>2
  <2>5. QED
    BY <2>3, <2>4
<1>11. \A m \in 1..n : \E i \in 1..c : m \in starts[i]..RunEnd(posts, i)
  <2>1. TAKE m \in 1..n
  <2>2. PICK i \in 1..c : starts[i] <= m /\ (i = c \/ m < starts[i + 1])
    BY <1>5
  <2>3. m <= RunEnd(posts, i)
    <3>1. CASE i = c
      BY <1>7, <3>1
    <3>2. CASE i # c
      <4>1. starts[i + 1] \in 1..n /\ m < starts[i + 1]
        BY <1>6, <1>8, <2>2, <3>2
      <4>2. m <= starts[i + 1] - 1
        BY <4>1
      <4>3. QED
        BY <1>7, <3>2, <4>2
    <3>3. QED
      BY <3>1, <3>2
  <2>4. starts[i] \in Int /\ RunEnd(posts, i) \in Int
    BY <1>6, <1>9
  <2>5. m \in Int
    BY <2>1
  <2>6. m \in starts[i]..RunEnd(posts, i)
    BY <2>2, <2>3, <2>4, <2>5
  <2>7. QED
    BY <2>6
<1>12. QED
  BY <1>1, <1>3, <1>4, <1>5, <1>6, <1>9, <1>10, <1>11

\* A group holds the entries of its run.
LEMMA ByYearIs ==
    ASSUME NEW n \in Nat, NEW posts, posts = [i \in 1..n |-> posts[i]]
    PROVE  LET years == ByYear(posts)  starts == Starts(posts) IN
           /\ DOMAIN years = 1..Runs(posts)
           /\ \A i \in 1..Runs(posts) :
                 /\ years[i].year = YearOf(posts[starts[i]])
                 /\ DOMAIN years[i].posts = 1..(RunEnd(posts, i) - starts[i] + 1)
                 /\ \A k \in DOMAIN years[i].posts : years[i].posts[k] = posts[starts[i] + k - 1]
<1>1. PICK starts, c, years : starts = Starts(posts) /\ c = Runs(posts) /\ years = ByYear(posts)
  OBVIOUS
<1>2. /\ c \in Nat /\ Len(starts) = c /\ DOMAIN starts = 1..c /\ Len(posts) = n
      /\ \A i \in 1..c : starts[i] \in 1..n /\ RunEnd(posts, i) \in starts[i]..n
  BY <1>1, RunsCut
<1>3. \A i : RunEnd(posts, i) = IF i = Len(starts) THEN Len(posts) ELSE starts[i + 1] - 1
  BY <1>1, <1>2 DEF RunEnd
<1>4. years = [i \in 1..c |-> [year  |-> YearOf(posts[starts[i]]),
                               posts |-> SubSeq(posts, starts[i], RunEnd(posts, i))]]
  BY <1>1, <1>2, <1>3 DEF ByYear, Starts
<1>5. \A i \in 1..c : /\ years[i].year = YearOf(posts[starts[i]])
                      /\ years[i].posts = SubSeq(posts, starts[i], RunEnd(posts, i))
  BY <1>4
<1>6. ASSUME NEW i \in 1..c, NEW run, run = SubSeq(posts, starts[i], RunEnd(posts, i))
      PROVE  /\ DOMAIN run = 1..(RunEnd(posts, i) - starts[i] + 1)
             /\ \A k \in DOMAIN run : run[k] = posts[starts[i] + k - 1]
  <2>0. PICK a, b : a = starts[i] /\ b = RunEnd(posts, i)
    OBVIOUS
  <2>1. run = SubSeq(posts, a, b)
    BY <1>6, <2>0
  <2>2. a \in Int /\ b \in Int /\ a <= b
    BY <1>2, <2>0
  <2>3. PICK X : X = Range(posts)
    OBVIOUS
  <2>4. \A j \in a..b : posts[j] \in X
    <3>1. a \in 1..n /\ b \in 1..n
      BY <1>2, <2>0
    <3>2. a..b \subseteq 1..n
      BY <3>1
    <3>3. \A j \in 1..n : posts[j] \in X
      BY <2>3 DEF Range
    <3>4. QED
      BY <3>2, <3>3
  <2>5. /\ run \in Seq(X) /\ Len(run) = b - a + 1
        /\ \A k \in 1..(b - a + 1) : run[k] = posts[a + k - 1]
    <3>1. SubSeq(posts, a, b) \in Seq(X)
      BY <2>2, <2>4, SubSeqProperties
    <3>2. Len(SubSeq(posts, a, b)) = IF a <= b THEN b - a + 1 ELSE 0
      BY <2>2, <2>4, SubSeqProperties
    <3>3. \A k \in 1..b - a + 1 : SubSeq(posts, a, b)[k] = posts[a + k - 1]
      BY <2>2
    <3>4. QED
      BY <2>1, <2>2, <3>1, <3>2, <3>3
  <2>6. DOMAIN run = 1..(b - a + 1)
    BY <2>5, LenProperties
  <2>7. \A k \in DOMAIN run : run[k] = posts[a + k - 1]
    BY <2>5, <2>6
  <2>8. DOMAIN run = 1..(RunEnd(posts, i) - starts[i] + 1)
    BY ONLY <2>0, <2>6
  <2>9. \A k \in DOMAIN run : run[k] = posts[starts[i] + k - 1]
    BY ONLY <2>0, <2>7
  <2>10. QED
    BY <2>8, <2>9
<1>7. ASSUME NEW i \in 1..c
      PROVE  /\ years[i].year = YearOf(posts[starts[i]])
             /\ DOMAIN years[i].posts = 1..(RunEnd(posts, i) - starts[i] + 1)
             /\ \A k \in DOMAIN years[i].posts : years[i].posts[k] = posts[starts[i] + k - 1]
  <2>1. PICK run : run = years[i].posts
    OBVIOUS
  <2>2. run = SubSeq(posts, starts[i], RunEnd(posts, i))
    BY <1>5, <2>1
  <2>3. /\ DOMAIN run = 1..(RunEnd(posts, i) - starts[i] + 1)
        /\ \A k \in DOMAIN run : run[k] = posts[starts[i] + k - 1]
    BY <1>6, <2>2, Zenon
  <2>4. QED
    BY ONLY <1>5, <2>1, <2>3
<1>8. DOMAIN years = 1..c
  BY <1>4
<1>9. QED
  BY ONLY <1>1, <1>7, <1>8

\* The groups, drawn one after the other, are the entries in their order.
LEMMA YearsAreTheEntries ==
    ASSUME NEW n \in Nat, NEW posts, posts = [i \in 1..n |-> posts[i]]
    PROVE  LET years == ByYear(posts) IN Flattened([i \in DOMAIN years |-> years[i].posts]) = posts
<1>1. PICK starts, c, years : starts = Starts(posts) /\ c = Runs(posts) /\ years = ByYear(posts)
  OBVIOUS
<1>2. PICK end : end = [i \in 1..c |-> RunEnd(posts, i)]
  OBVIOUS
<1>3. /\ c \in Nat
      /\ \A i \in 1..c : starts[i] \in 1..n /\ end[i] \in starts[i]..n
      /\ \A i, j \in 1..c : i < j => end[i] < starts[j]
      /\ \A m \in 1..n : \E i \in 1..c : m \in starts[i]..end[i]
  BY <1>1, <1>2, RunsCut
<1>4. PICK lists : lists = [i \in 1..c |-> years[i].posts]
  OBVIOUS
<1>5. lists = [i \in DOMAIN years |-> years[i].posts]
  BY <1>1, <1>4, ByYearIs
<1>6. /\ DOMAIN lists = 1..c
      /\ \A i \in 1..c : /\ DOMAIN lists[i] = 1..(end[i] - starts[i] + 1)
                         /\ \A k \in DOMAIN lists[i] : lists[i][k] = posts[starts[i] + k - 1]
  BY <1>1, <1>2, <1>4, ByYearIs
<1>7. \A i \in 1..c : \E m \in Nat : DOMAIN lists[i] = 1..m
  <2>1. TAKE i \in 1..c
  <2>2. end[i] - starts[i] + 1 \in Nat
    BY <1>3, <2>1
  <2>3. QED
    BY <1>6, <2>1, <2>2
<1>8. PICK P : P = Places(lists)
  OBVIOUS
<1>9. IsFiniteSet(P)
  BY <1>3, <1>6, <1>7, <1>8, PlacesAreFinite
<1>10. ASSUME NEW p \in P
       PROVE  /\ p = <<p[1], p[2]>> /\ p[1] \in 1..c /\ p[2] \in DOMAIN lists[p[1]]
              /\ p[2] \in Nat /\ starts[p[1]] + p[2] - 1 \in starts[p[1]]..end[p[1]]
  <2>1. p = <<p[1], p[2]>> /\ p[1] \in 1..c /\ p[2] \in DOMAIN lists[p[1]]
    BY <1>6, <1>8 DEF Places
  <2>2. p[2] \in 1..(end[p[1]] - starts[p[1]] + 1)
    BY <1>6, <2>1
  <2>3. starts[p[1]] \in Int /\ end[p[1]] \in Int
    BY <1>3, <2>1
  <2>4. QED
    BY <2>1, <2>2, <2>3
<1>11. \A i \in 1..c : \A k \in DOMAIN lists[i] : <<i, k>> \in P
  BY <1>6, <1>8 DEF Places
<1>12. PICK phi : phi = [p \in P |-> starts[p[1]] + p[2] - 1]
  OBVIOUS
<1>13. ASSUME NEW p \in P, NEW q \in P, Earlier(p, q)
       PROVE  phi[p] < phi[q]
  <2>1. /\ p[1] \in 1..c /\ q[1] \in 1..c /\ p[2] \in Nat /\ q[2] \in Nat
        /\ phi[p] = starts[p[1]] + p[2] - 1 /\ phi[q] = starts[q[1]] + q[2] - 1
        /\ phi[p] \in starts[p[1]]..end[p[1]] /\ phi[q] \in starts[q[1]]..end[q[1]]
    BY <1>10, <1>12
  <2>2. starts[p[1]] \in Int /\ end[p[1]] \in Int /\ starts[q[1]] \in Int /\ end[q[1]] \in Int
    BY <1>3, <2>1
  <2>3. CASE p[1] < q[1]
    <3>1. end[p[1]] < starts[q[1]]
      BY <1>3, <2>1, <2>3
    <3>2. QED
      BY <2>1, <2>2, <3>1
  <2>4. CASE p[1] = q[1] /\ p[2] < q[2]
    BY <2>1, <2>2, <2>4
  <2>5. QED
    BY <1>13, <2>3, <2>4 DEF Earlier
<1>14. ASSUME NEW p \in P, NEW q \in P
       PROVE  p = q \/ Earlier(p, q) \/ Earlier(q, p)
  <2>1. /\ p = <<p[1], p[2]>> /\ q = <<q[1], q[2]>>
        /\ p[1] \in Nat /\ p[2] \in Nat /\ q[1] \in Nat /\ q[2] \in Nat
    BY <1>10
  <2>2. (p[1] = q[1] /\ p[2] = q[2]) \/ Earlier(p, q) \/ Earlier(q, p)
    BY <2>1 DEF Earlier
  <2>3. QED
    BY <2>1, <2>2
<1>15. phi \in [P -> 1..n]
  <2>1. ASSUME NEW p \in P PROVE starts[p[1]] + p[2] - 1 \in 1..n
    <3>1. /\ p[1] \in 1..c /\ starts[p[1]] + p[2] - 1 \in starts[p[1]]..end[p[1]]
      BY <1>10
    <3>2. starts[p[1]] \in 1..n /\ end[p[1]] \in 1..n
      BY <1>3, <3>1
    <3>3. starts[p[1]]..end[p[1]] \subseteq 1..n
      BY <3>2
    <3>4. QED
      BY <3>1, <3>3
  <2>2. QED
    BY <1>12, <2>1
<1>16. \A p, q \in P : phi[p] < phi[q] <=> Earlier(p, q)
  <2>1. TAKE p, q \in P
  <2>2. phi[p] \in Int /\ phi[q] \in Int
    BY <1>15, <2>1
  <2>3. p = q => phi[p] = phi[q]
    OBVIOUS
  <2>4. QED
    BY <1>13, <1>14, <2>1, <2>2, <2>3
<1>17. \A p, q \in P : phi[p] = phi[q] => p = q
  <2>1. TAKE p, q \in P
  <2>2. phi[p] \in Int /\ phi[q] \in Int
    BY <1>15, <2>1
  <2>3. QED
    BY <1>13, <1>14, <2>1, <2>2
<1>18. ASSUME NEW m \in 1..n PROVE \E p \in P : phi[p] = m
  <2>1. PICK i \in 1..c : m \in starts[i]..end[i]
    BY <1>3
  <2>2. starts[i] \in Int /\ end[i] \in Int
    BY <1>3
  <2>3. PICK k : k = m - starts[i] + 1
    OBVIOUS
  <2>4. k \in 1..(end[i] - starts[i] + 1) /\ starts[i] + k - 1 = m
    BY <2>1, <2>2, <2>3
  <2>5. PICK p : p = <<i, k>>
    OBVIOUS
  <2>6. p \in P /\ p[1] = i /\ p[2] = k
    BY <1>6, <1>11, <2>4, <2>5
  <2>7. phi[p] = m
    BY <1>12, <2>4, <2>6
  <2>8. QED
    BY <2>6, <2>7
<1>19. phi \in Bijection(P, 1..n)
  BY <1>15, <1>17, <1>18 DEF Bijection, Injection, Surjection, IsInjective
<1>20. Cardinality(P) = n
  <2>1. ExistsBijection(P, 1..n)
    BY <1>19 DEF ExistsBijection
  <2>2. Cardinality(1..n) = Cardinality(P)
    BY <1>9, <2>1, FS_Bijection
  <2>3. 1 \in Int /\ n \in Int
    OBVIOUS
  <2>4. Cardinality(1..n) = IF 1 > n THEN 0 ELSE n - 1 + 1
    BY <2>3, FS_Interval
  <2>5. QED
    BY <2>2, <2>4
<1>21. PICK places \in Bijection(1..n, P) :
         /\ Flattened(lists) = [k \in 1..n |-> lists[places[k][1]][places[k][2]]]
         /\ \A k \in 1..n : Cardinality({q \in P : Earlier(q, places[k])}) = k - 1
  <2>1. \E places \in Bijection(1..Cardinality(Places(lists)), Places(lists)) :
           /\ Flattened(lists) = [k \in 1..Cardinality(Places(lists)) |-> lists[places[k][1]][places[k][2]]]
           /\ \A k \in 1..Cardinality(Places(lists)) :
                 Cardinality({q \in Places(lists) : Earlier(q, places[k])}) = k - 1
    <3>1. DOMAIN lists = 1..c
      BY <1>6
    <3>2. QED
      BY ONLY <1>3, <1>7, <3>1, FlattenedIs
  <2>2. QED
    BY <1>8, <1>20, <2>1
<1>22. \A k \in 1..n : places[k] \in P
  BY <1>21 DEF Bijection, Injection
<1>23. ASSUME NEW k \in 1..n PROVE phi[places[k]] = k
  <2>1. PICK p \in P : p = places[k]
    BY <1>22
  <2>2. phi[p] \in 1..n /\ Cardinality({q \in P : phi[q] < phi[p]}) = phi[p] - 1
    BY <1>9, <1>19, AsManyBefore
  <2>3. {q \in P : phi[q] < phi[p]} = {q \in P : Earlier(q, p)}
    BY <1>16
  <2>4. phi[p] - 1 = k - 1
    BY <1>21, <2>1, <2>2, <2>3
  <2>5. QED
    BY <2>1, <2>2, <2>4
<1>24. ASSUME NEW k \in 1..n PROVE lists[places[k][1]][places[k][2]] = posts[k]
  <2>1. PICK p \in P : p = places[k]
    BY <1>22
  <2>2. p[1] \in 1..c /\ p[2] \in DOMAIN lists[p[1]]
    BY <1>10
  <2>3. lists[p[1]][p[2]] = posts[starts[p[1]] + p[2] - 1]
    BY <1>6, <2>2
  <2>4. starts[p[1]] + p[2] - 1 = k
    BY <1>12, <1>23, <2>1
  <2>5. QED
    BY <2>1, <2>3, <2>4
<1>25. Flattened(lists) = posts
  BY <1>21, <1>24
<1>26. QED
  BY <1>1, <1>5, <1>25

\* The years of the groups fall, when the dates do.
LEMMA YearsDescend ==
    ASSUME NEW n \in Nat, NEW posts, posts = [i \in 1..n |-> posts[i]],
           \A i \in 1..n : posts[i].published \in Int,
           \A i, j \in 1..n : i < j => posts[i].published >= posts[j].published
    PROVE  \A i, j \in DOMAIN ByYear(posts) : i < j => ByYear(posts)[i].year > ByYear(posts)[j].year
<1>1. PICK starts, c, years : starts = Starts(posts) /\ c = Runs(posts) /\ years = ByYear(posts)
  OBVIOUS
<1>2. \A i \in 1..n : YearOf(posts[i]) \in Int
  BY DEF YearOf, DaysPerYear
<1>3. \A i, j \in 1..n : i <= j => YearOf(posts[i]) >= YearOf(posts[j])
  <2>1. \A a, b \in Int : a >= b => a \div 100 >= b \div 100
    OBVIOUS
  <2>2. SUFFICES ASSUME NEW i \in 1..n, NEW j \in 1..n, i <= j
                 PROVE  YearOf(posts[i]) >= YearOf(posts[j])
    OBVIOUS
  <2>3. posts[i].published \in Int /\ posts[j].published \in Int /\ posts[i].published >= posts[j].published
    <3>1. i = j \/ i < j
      BY <2>2
    <3>2. QED
      BY <3>1
  <2>4. QED
    BY <2>1, <2>3 DEF YearOf, DaysPerYear
<1>4. SUFFICES ASSUME NEW i \in 1..c, NEW j \in 1..c, i < j
               PROVE  years[i].year > years[j].year
  BY <1>1, ByYearIs
<1>5. years[i].year = YearOf(posts[starts[i]]) /\ years[j].year = YearOf(posts[starts[j]])
  BY <1>1, ByYearIs
<1>6. /\ starts[i] \in 1..n /\ starts[j] \in 1..n /\ starts[j] \in YearStarts(posts)
      /\ RunEnd(posts, i) \in starts[i]..n /\ RunEnd(posts, i) < starts[j]
  BY <1>1, <1>4, RunsCut
<1>7. PICK s \in 1..n : s = starts[j] - 1 /\ starts[i] <= s
  <2>1. starts[j] - 1 \in 1..n /\ starts[i] <= starts[j] - 1
    BY <1>6
  <2>2. QED
    BY <2>1
<1>8. YearOf(posts[starts[j]]) # YearOf(posts[s])
  <2>1. starts[j] # 1
    BY <1>6, <1>7
  <2>2. QED
    BY <1>6, <1>7, <2>1 DEF YearStarts
<1>9. YearOf(posts[starts[i]]) >= YearOf(posts[s]) /\ YearOf(posts[s]) >= YearOf(posts[starts[j]])
  BY <1>3, <1>6, <1>7
<1>10. QED
  BY <1>2, <1>5, <1>6, <1>7, <1>8, <1>9

\* The log's island agrees with the entries it narrows.
LEMMA LogIslandAgrees ==
    ASSUME scene \in Scenes, PostsIn(Log) # <<>>
    PROVE  LET posts == PostsIn(Log)  years == ByYear(posts) IN
           /\ LogRowsShown = <<>> => BlogIsFiltered(BlogAxis(blog)) /\ BlogActiveLabels(BlogAxis(blog)) # {}
           /\ ~BlogIsFiltered(BlogAxis(blog)) => LogRowsShown = Flattened([i \in DOMAIN years |-> years[i].posts])
           /\ \A i, j \in DOMAIN years : i < j => years[i].year > years[j].year
           /\ \A chip \in TagChips(posts) :
                 /\ chip.count > 0
                 /\ blog.tag = chip.key /\ NormaliseQuery(blog.query) = NoText => Len(LogRowsShown) = chip.count
           /\ \A p \in Range(posts) : \A w \in p.title \cup p.deck :
                 blog.tag = AllTags /\ {v.word : v \in blog.query} \ {""} = {w.word} => p \in Range(LogRowsShown)
<1>1. PICK posts : posts = PostsIn(Log)
  OBVIOUS
<1>2. PICK n \in Nat : n = Len(posts)
  BY <1>1, LogIsRead
<1>3. /\ DOMAIN posts = 1..n /\ posts = [i \in 1..n |-> posts[i]]
      /\ \A i \in 1..n : posts[i].published \in Int /\ posts[i].tags \in Seq(STRING \ {AllTags})
      /\ \A i, j \in 1..n : i < j => posts[i].published >= posts[j].published
  BY <1>1, <1>2, LogIsRead
<1>4. 1 \in 1..n
  <2>1. n # 0
    BY <1>1, <1>3, FunctionIsASequence
  <2>2. QED
    BY <2>1
<1>5. PICK axis : axis = BlogAxis(blog)
  OBVIOUS
<1>6. axis.tag = blog.tag /\ axis.q = NormaliseQuery(blog.query)
  BY <1>5 DEF BlogAxis
<1>7. PICK P : P = {i \in 1..n : BlogMatches(posts[i], axis)}
  OBVIOUS
<1>8. PICK shown : shown = LogRowsShown
  OBVIOUS
<1>9. shown = Kept(posts, P)
  BY <1>1, <1>3, <1>5, <1>7, <1>8 DEF LogRowsShown, BlogFilter, Filtered
<1>10. /\ Len(shown) = Cardinality(P) /\ (shown = <<>> <=> P = {})
       /\ \A i \in P : \E k \in DOMAIN shown : shown[k] = posts[i]
  <2>1. P \subseteq 1..n
    BY <1>7
  <2>2. /\ Len(Kept(posts, P)) = Cardinality(P)
        /\ \A k \in DOMAIN Kept(posts, P) : Kept(posts, P)[k] = posts[Ascending(P)[k]]
        /\ \A i \in P : \E k \in DOMAIN Kept(posts, P) : Ascending(P)[k] = i
        /\ Kept(posts, P) = <<>> <=> P = {}
    BY <1>3, <2>1, KeptIs
  <2>3. QED
    BY <1>9, <2>2
<1>11. ASSUME ~BlogIsFiltered(axis) PROVE P = 1..n
  <2>1. axis.tag = AllTags /\ axis.q = {}
    BY <1>11 DEF BlogIsFiltered, NoText
  <2>2. \A p : BlogMatches(p, axis)
    BY <2>1 DEF BlogMatches
  <2>3. QED
    BY <1>7, <2>2
<1>12. shown = <<>> => BlogIsFiltered(axis) /\ BlogActiveLabels(axis) # {}
  <2>1. shown = <<>> => BlogIsFiltered(axis)
    BY <1>4, <1>10, <1>11
  <2>2. BlogIsFiltered(axis) => BlogActiveLabels(axis) # {}
    BY DEF BlogIsFiltered, BlogActiveLabels
  <2>3. QED
    BY <2>1, <2>2
<1>13. ~BlogIsFiltered(axis) =>
         shown = Flattened([i \in DOMAIN ByYear(posts) |-> ByYear(posts)[i].posts])
  <2>1. SUFFICES ASSUME ~BlogIsFiltered(axis)
                 PROVE  shown = Flattened([i \in DOMAIN ByYear(posts) |-> ByYear(posts)[i].posts])
    OBVIOUS
  <2>2. shown = posts
    BY <1>3, <1>9, <1>11, <2>1, AllAreKept
  <2>3. QED
    BY <1>3, <2>2, YearsAreTheEntries
<1>14. \A i, j \in DOMAIN ByYear(posts) : i < j => ByYear(posts)[i].year > ByYear(posts)[j].year
  BY <1>3, YearsDescend
<1>15. ASSUME NEW chip \in TagChips(posts)
       PROVE  /\ chip.count > 0
              /\ blog.tag = chip.key /\ NormaliseQuery(blog.query) = NoText => Len(shown) = chip.count
  <2>1. PICK tag \in UNION {Range(posts[i].tags) : i \in DOMAIN posts} :
           chip = [key |-> tag, count |-> CountOf(posts, LAMBDA p : tag \in Range(p.tags))]
    BY DEF TagChips
  <2>2. PICK With : With = {i \in 1..n : tag \in Range(posts[i].tags)}
    OBVIOUS
  <2>3. chip.key = tag /\ chip.count = Cardinality(With)
    BY <1>3, <2>1, <2>2 DEF CountOf
  <2>4. PICK i \in 1..n : tag \in Range(posts[i].tags)
    BY <1>3, <2>1
  <2>5. tag # AllTags
    <3>1. PICK k \in DOMAIN posts[i].tags : tag = posts[i].tags[k]
      BY <2>4 DEF Range
    <3>2. posts[i].tags[k] \in STRING \ {AllTags}
      BY <1>3, <3>1, ElementOfSeq
    <3>3. QED
      BY <3>1, <3>2
  <2>6. chip.count > 0
    <3>1. With \in SUBSET (1..n) /\ i \in With
      BY <2>2, <2>4
    <3>2. IsFiniteSet(With) /\ Cardinality(With) \in Nat
      BY <3>1, AtMostAllAreCounted
    <3>3. Cardinality(With) # 0
      BY <3>1, <3>2, FS_EmptySet
    <3>4. QED
      BY <2>3, <3>2, <3>3
  <2>7. ASSUME blog.tag = chip.key, NormaliseQuery(blog.query) = NoText
        PROVE  Len(shown) = chip.count
    <3>1. axis.tag = tag /\ axis.q = {}
      BY <1>6, <2>3, <2>7 DEF NoText
    <3>2. \A p : BlogMatches(p, axis) <=> tag \in Range(p.tags)
      BY <2>5, <3>1 DEF BlogMatches
    <3>3. P = With
      BY <1>7, <2>2, <3>2
    <3>4. QED
      BY <1>10, <2>3, <3>3
  <2>8. QED
    BY <2>6, <2>7
<1>16. ASSUME NEW p \in Range(posts), NEW w \in p.title \cup p.deck,
              blog.tag = AllTags, {v.word : v \in blog.query} \ {""} = {w.word}
       PROVE  p \in Range(shown)
  <2>1. \A v \in blog.query : v.word # "" => v.word = w.word
    BY <1>16
  <2>2. NormaliseQuery(blog.query) \subseteq {[word |-> w.word, caps |-> FALSE]}
    BY <2>1 DEF NormaliseQuery, Lower
  <2>3. [word |-> w.word, caps |-> FALSE] \in Haystack(p)
    <3>1. PICK text : text = p.title \cup p.deck \cup {[word |-> t, caps |-> FALSE] : t \in Range(p.tags)}
      OBVIOUS
    <3>2. Haystack(p) = Lower(text) /\ w \in text
      BY <3>1 DEF Haystack
    <3> DEFINE lowered(v) == [word |-> v.word, caps |-> FALSE]
    <3>3. Lower(text) = {lowered(v) : v \in text}
      BY DEF Lower
    <3> HIDE DEF lowered
    <3>4. lowered(w) \in Lower(text)
      BY <3>2, <3>3
    <3>5. QED
      BY <3>2, <3>4 DEF lowered
  <2>4. axis.tag = AllTags /\ axis.q \subseteq Haystack(p)
    <3>1. PICK e : e = [word |-> w.word, caps |-> FALSE]
      OBVIOUS
    <3>2. NormaliseQuery(blog.query) \subseteq {e} /\ e \in Haystack(p)
      BY <2>2, <2>3, <3>1
    <3>3. blog.tag = AllTags
      BY <1>16, Zenon
    <3>4. axis.q \subseteq {e}
      BY <1>6, <3>2, Zenon
    <3>5. QED
      BY ONLY <1>6, <3>2, <3>3, <3>4
  <2>5. BlogMatches(p, axis)
    BY <2>4 DEF BlogMatches
  <2>6. PICK i \in 1..n : p = posts[i]
    BY <1>3 DEF Range
  <2>7. i \in P
    BY <1>7, <2>5, <2>6
  <2>8. PICK k \in DOMAIN shown : shown[k] = posts[i]
    BY <1>10, <2>7
  <2>9. QED
    BY <2>6, <2>8 DEF Range
<1>17. QED
  BY <1>1, <1>5, <1>8, <1>12, <1>13, <1>14, <1>15, <1>16

\* What the work island holds is a state and a chip of the two selects it draws.
WorkInv == work = [status |-> work.status, stack |-> work.stack] /\ work.status \in SystemStates \cup {"all"}

LEMMA WorkStep == WorkInv /\ [SiteNext]_siteVars => WorkInv'
<1> SUFFICES ASSUME WorkInv, [SiteNext]_siteVars PROVE WorkInv'
  OBVIOUS
<1>1. UNCHANGED work \/ work' = WorkNoFilter => WorkInv'
  BY DEF WorkInv, WorkNoFilter
<1>2. ASSUME NEW t \in Tab, NEW address, Go(t, address) PROVE WorkInv'
  BY <1>1, <1>2 DEF Go
<1>3. ASSUME NEW t \in Tab,
             \/ Loads(t) \/ Follow(t) \/ Back(t)
             \/ Show(t) \/ Hide(t) \/ Dismiss(t) \/ OnClose(t) \/ FollowFromMenu(t)
             \/ Open(t) \/ Mark(t) \/ Shut(t) \/ Escape(t) \/ Commit(t)
      PROVE  WorkInv'
  <2>1. Loads(t) => UNCHANGED work \/ work' = WorkNoFilter
    BY DEF Loads, Load, Redirect
  <2>2. Follow(t) \/ Back(t) \/ FollowFromMenu(t) => \E address : Go(t, address)
    BY DEF Follow, Back, FollowFromMenu, Leaves
  <2>3. OnClose(t) => UNCHANGED work
    BY DEF OnClose, allVars, visitVars
  <2>4. Show(t) \/ Hide(t) \/ Dismiss(t) \/ Open(t) \/ Mark(t) \/ Shut(t) \/ Escape(t) => UNCHANGED work
    BY DEF Show, Hide, Dismiss, Open, Mark, Shut, Escape, Stays, allVars, visitVars
  <2>5. Commit(t) => UNCHANGED work \/ \E address : Go(t, address)
    BY DEF Commit, Stays, Leaves, allVars, visitVars
  <2>6. QED
    BY <1>1, <1>2, <1>3, <2>1, <2>2, <2>3, <2>4, <2>5
<1>4. CASE VisitNext
  <2>1. CASE (Next /\ UNCHANGED visitVars) \/ \E t \in Tab : Pick(t)
    BY <1>1, <2>1 DEF visitVars, Pick
  <2>2. CASE PressTag \/ Type \/ ResetBlog \/ ResetWork
    BY <1>1, <2>2 DEF PressTag, Type, ResetBlog, ResetWork
  <2>3. CASE PressStatus
    <3>1. PICK status \in SystemStates \cup {"all"} : work' = [work EXCEPT !.status = status]
      BY <2>3 DEF PressStatus
    <3>2. work' = [status |-> status, stack |-> work.stack]
      BY <3>1 DEF WorkInv
    <3>3. QED
      BY <3>2 DEF WorkInv
  <2>4. CASE PressStack
    <3>1. PICK stack : work' = [work EXCEPT !.stack = stack]
      BY <2>4 DEF PressStack
    <3>2. work' = [status |-> work.status, stack |-> stack]
      BY <3>1 DEF WorkInv
    <3>3. QED
      BY <3>2 DEF WorkInv
  <2>5. QED
    BY <1>4, <2>1, <2>2, <2>3, <2>4 DEF VisitNext
<1>5. CASE UNCHANGED siteVars
  BY <1>1, <1>5 DEF siteVars, allVars, visitVars
<1>6. QED
  BY <1>3, <1>4, <1>5 DEF SiteNext

\* The work island agrees with the rows of its region.
LEMMA WorkIslandAgrees ==
    ASSUME WorkInv, NEW b, IsAnswer(b), NEW kind, WorkList(kind, b).panel = "rows"
    PROVE  LET island == WorkList(kind, b)
               rows == WorkFilter(island.entries, work) IN
           /\ rows = <<>> => WorkIsFiltered(work) /\ WorkActiveLabels(work) # {}
           /\ work.stack = AnyStack /\ work.status # "all" => Len(rows) = island.counts[work.status]
<1>1. PICK entries : entries = WorkEntries(b, PostsIn(Log))
  OBVIOUS
<1>2. /\ WorkList(kind, b).entries = entries /\ entries # <<>>
      /\ WorkList(kind, b).counts = StatusCounts(entries)
  <2> DEFINE drawn == WorkEntries(b, PostsIn(Log))
             counts == IF IsListed(b) THEN StatusCounts(drawn) ELSE NoData
  <2>1. WorkList(kind, b).entries = drawn /\ WorkList(kind, b).counts = counts
    BY DEF WorkList, WorkPage
  <2>2. WorkList(kind, b).panel = IF counts = NoData THEN IF kind = "waiting" THEN "loading" ELSE "down"
                                  ELSE IF drawn = <<>> THEN "none listed" ELSE "rows"
    BY DEF WorkList, WorkPage
  <2>3. counts # NoData => counts = StatusCounts(drawn)
    OBVIOUS
  <2> HIDE DEF counts, drawn
  <2>4. counts # NoData /\ drawn # <<>>
    BY <2>2
  <2>5. drawn = entries
    BY <1>1 DEF drawn
  <2>6. QED
    BY <2>1, <2>3, <2>4, <2>5
<1>3. PICK n \in Nat : n = Len(entries) /\ DOMAIN entries = 1..n /\ (n = 0 => entries = <<>>)
  BY <1>1, EntriesAreRows
<1>4. 1 \in 1..n
  BY <1>2, <1>3
<1>5. PICK P : P = {i \in 1..n : WorkMatches(entries[i], work)}
  OBVIOUS
<1>6. PICK rows : rows = WorkFilter(entries, work)
  OBVIOUS
<1>7. rows = Kept(entries, P)
  BY <1>3, <1>5, <1>6 DEF WorkFilter, Filtered
<1>8. Len(rows) = Cardinality(P) /\ (rows = <<>> <=> P = {})
  <2>1. P \subseteq 1..n
    BY <1>5
  <2>2. Len(Kept(entries, P)) = Cardinality(P) /\ (Kept(entries, P) = <<>> <=> P = {})
    BY <1>3, <2>1, KeptIs
  <2>3. QED
    BY <1>7, <2>2
<1>9. ASSUME rows = <<>> PROVE WorkIsFiltered(work) /\ WorkActiveLabels(work) # {}
  <2>1. ~WorkMatches(entries[1], work)
    BY <1>4, <1>5, <1>8, <1>9
  <2>2. work.status # "all" \/ work.stack # AnyStack
    BY <2>1 DEF WorkMatches
  <2>3. work # WorkNoFilter
    BY <2>2 DEF WorkNoFilter
  <2>4. QED
    BY <2>2, <2>3 DEF WorkIsFiltered, WorkActiveLabels
<1>10. ASSUME work.stack = AnyStack, work.status # "all"
       PROVE  Len(rows) = StatusCounts(entries)[work.status]
  <2>1. PICK status \in SystemStates : status = work.status
    BY <1>10 DEF WorkInv
  <2>2. PICK With : With = {i \in DOMAIN entries : entries[i].state = status}
    OBVIOUS
  <2>3. P = With
    BY <1>3, <1>5, <1>10, <2>1, <2>2 DEF WorkMatches
  <2>4. StatusCounts(entries)[status] = Cardinality(With)
    <3>1. /\ StatusCounts(entries).live = CountOf(entries, LAMBDA e : e.state = "live")
          /\ StatusCounts(entries).in_build = CountOf(entries, LAMBDA e : e.state = "in_build")
          /\ StatusCounts(entries).queued = CountOf(entries, LAMBDA e : e.state = "queued")
      BY DEF StatusCounts
    <3>2. QED
      BY <2>2, <3>1 DEF CountOf, SystemStates
  <2>5. QED
    BY <1>8, <2>1, <2>3, <2>4
<1>11. QED
  BY <1>2, <1>6, <1>9, <1>10

LEMMA TheIslandsAgree ==
    ASSUME TypeOK, DrawnIsAnAnswer, WorkInv
    PROVE  IslandsAgree
<1>1. scene \in Scenes
  BY DEF TypeOK
<1>2. ASSUME NEW r \in Region, OnWork(r)
      PROVE  /\ WorkRowsShown(r) = <<>> => WorkIsFiltered(work) /\ WorkActiveLabels(work) # {}
             /\ work.stack = AnyStack /\ work.status # "all" =>
                   Len(WorkRowsShown(r)) = WorkIsland(r).counts[work.status]
  <2>1. IsAnswer(Data(r))
    BY <1>2, WhatIsHanded DEF OnWork, Drawing
  <2>2. PICK b, kind : b = Data(r) /\ kind = KindOf(r)
    OBVIOUS
  <2>3. WorkIsland(r) = WorkList(kind, b) /\ WorkIsland(r).panel = "rows"
    BY <1>2, <2>2 DEF OnWork, WorkIsland
  <2>4. WorkRowsShown(r) = WorkFilter(WorkList(kind, b).entries, work)
    BY <2>3 DEF WorkRowsShown
  <2>5. QED
    BY <2>1, <2>2, <2>3, <2>4, WorkIslandAgrees
<1>3. QED
  BY <1>1, <1>2, LogIslandAgrees DEF IslandsAgree, OnBlog

\* The islands tell the truth about what they narrow, whatever the log and the answers,
\* and whatever is typed and pressed while the regions stream: a panel that says nothing
\* matched names what narrows it, a chip's number is the number of rows it leaves, the
\* years fall and hold every entry once, and a word of an entry finds it
\* (BlogFilters.tsx:205-213, WorkFilters.tsx:213-221, lib/blog/filter.ts:56-66,
\* lib/blog/entries.ts:38-65).
THEOREM IslandsAgreeHolds == SiteSpec => []IslandsAgree
<1>1. SiteInit => WorkInv
  BY DEF SiteInit, VisitInit, WorkInv, WorkNoFilter
<1>2. ReadersInv /\ WorkInv => IslandsAgree
  BY TheIslandsAgree DEF ReadersInv
<1>3. QED
  BY <1>1, <1>2, WorkStep, InitInv, NextInv, SiteImplementsReaders, PTL DEF SiteSpec, Spec
=============================================================================
