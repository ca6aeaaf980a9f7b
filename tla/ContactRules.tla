---------------------------- MODULE ContactRules ----------------------------
(***************************************************************************)
(* The contact validator twice over: the mirror in the browser             *)
(* (web/lib/contact/validate.ts, fields.ts) and the authority in the api   *)
(* (api/internal/contact/validate.go), on the same drafts.                 *)
(*                                                                         *)
(* A typed value is the facts both sides ask of it: how many runes it has  *)
(* without its padding, how many of them take a second byte, what it is    *)
(* padded with, and which control character stands inside.  U+0085 is      *)
(* padding of its own: Go's TrimSpace removes it, String.trim does not,    *)
(* and both validators call it a control character.  An address has the    *)
(* shape of its parts besides.                                             *)
(***************************************************************************)
EXTENDS Integers, Sequences

CONSTANTS
    MinName, MaxName,       \* runes
    MaxEmail,               \* bytes
    MinMessage, MaxMessage  \* runes

ASSUME BoundsAssumption ==
    /\ MinName \in Nat /\ MaxName \in Nat /\ MinName <= MaxName
    /\ MaxEmail \in Nat
    /\ MinMessage \in Nat \ {0} /\ MaxMessage \in Nat /\ MinMessage <= MaxMessage

Pads == {"none", "space", "nel"}

\* c0: C0, DEL, U+2028 and U+2029; c1: U+0080 to U+009F, which net/mail takes
\* for letters.
Controls == {"none", "c0", "c1"}

Text == [runes : Nat, wide : Nat, pad : Pads, control : Controls]

\* odd: what stands inside that the page refuses, an ASCII space or one of
\* <>,;", or white space beyond ASCII, which net/mail takes for a letter; quirk:
\* net/mail refuses the local part for a reason the page does not look for, such
\* as two dots in a row.
Shape == [odd : {"none", "ascii", "beyond"}, quirk : BOOLEAN, ats : 0..2, local : BOOLEAN,
          dot : {"none", "first", "last", "inside"},
          tld : {"one", "letters", "punycode", "digits"}]

Field == {"name", "email", "message"}

\* InvalidParam.Name: the fields, and what a visitor does not type.
Param == Field \cup {"ts", "dwellMs", "body"}

\* String.prototype.trim: U+0085 is not white space to it and stays, a control
\* character of two bytes.
TrimmedByPage(v) ==
    IF v.pad = "nel" THEN [v EXCEPT !.runes = @ + 1, !.wide = @ + 1, !.control = "c1"]
                     ELSE [v EXCEPT !.pad = "none"]

\* strings.TrimSpace on what arrives: the U+0085 the page left goes as well.
TrimmedByApi(v) == [v EXCEPT !.pad = "none"]

\* Mutant: every bound of the form in UTF-8 bytes, an umlaut charged twice.
LengthOfBytes(v, unit) == v.runes + v.wide

\* lengthOf of fields.ts: an address in bytes, the other two in code points.
LengthOf(v, unit) == IF unit = "bytes" THEN v.runes + v.wide ELSE v.runes

\* utf8.RuneCountInString and len
RuneCount(v) == v.runes
Bytes(v) == v.runes + v.wide

\* The second half of deliverable, which both sides have word for word: a dot
\* inside the domain and a last label of two letters or more.
DomainDeliverable(s) == s.dot = "inside" /\ s.tld = "letters"

\* deliverable of validate.ts, containsControl and \s before the shape.
PageDeliverable(v, s) ==
    /\ v.control = "none"
    /\ s.odd = "none"
    /\ s.ats = 1 /\ s.local
    /\ DomainDeliverable(s)

\* deliverable of validate.go: mail.BareAddress and net/mail behind it, and no
\* containsControl.
ApiDeliverable(v, s) ==
    /\ v.control # "c0"
    /\ s.odd # "ascii" /\ ~s.quirk
    /\ s.ats = 1 /\ s.local
    /\ DomainDeliverable(s)

\* "ok", or the reason a field is refused for, tried in the order in which
\* both files try them; n is the length the side asking has counted.
NameReason(v, n) ==
    IF v.control # "none" THEN "control characters"
    ELSE IF n < MinName THEN "too short"
    ELSE IF n > MaxName THEN "too long" ELSE "ok"

EmailReason(n, delivers) ==
    IF n = 0 THEN "required"
    ELSE IF n > MaxEmail THEN "too long"
    ELSE IF delivers THEN "ok" ELSE "not an address"

MessageReason(n) ==
    IF n < MinMessage THEN "too short" ELSE IF n > MaxMessage THEN "too long" ELSE "ok"

\* validateDraft: the reason for each field.
PageReasons(d) ==
    LET name == TrimmedByPage(d.name)
        email == TrimmedByPage(d.email)
    IN [name |-> NameReason(name, LengthOf(name, "runes")),
        email |-> EmailReason(LengthOf(email, "bytes"), PageDeliverable(email, d.shape)),
        message |-> MessageReason(LengthOf(TrimmedByPage(d.message), "runes"))]

\* validate, after the two silent refusals, on what the page sends.
ApiReasons(d) ==
    LET name == TrimmedByApi(d.name)
        email == TrimmedByApi(d.email)
    IN [name |-> NameReason(name, RuneCount(name)),
        email |-> EmailReason(Bytes(email), ApiDeliverable(email, d.shape)),
        message |-> MessageReason(RuneCount(TrimmedByApi(d.message)))]

\* The fields a list of InvalidParam names.
Refused(reasons) == {f \in Field : reasons[f] # "ok"}

\* A control character or white space beyond ASCII inside an address.
BeyondAscii(d) == d.email.control = "c1" \/ d.shape.odd = "beyond"

\* What the page refuses to send the api would have refused too, field by field
\* and for the same reason.  Two exceptions lean the other way than validate.ts
\* means to (validate.ts:11): a value padded with U+0085, which the page counts
\* and the api trims, and an address the page calls no plain one for a character
\* beyond ASCII that net/mail takes.
LocalRefusalIsTheApis(d) ==
    \A f \in Refused(PageReasons(d)) :
        \/ ApiReasons(d)[f] = PageReasons(d)[f]
        \/ d[f].pad = "nel"
        \/ f = "email" /\ BeyondAscii(d) /\ PageReasons(d).email = "not an address"
=============================================================================
