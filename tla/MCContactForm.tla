---------------------------- MODULE MCContactForm ----------------------------
(***************************************************************************)
(* Drafts for ContactForm: the ones a form run types, and for the rules on *)
(* both sides of the wire every combination around their bounds.           *)
(***************************************************************************)
EXTENDS ContactForm

Plain(n) == [runes |-> n, wide |-> 0, pad |-> "none", control |-> "none"]

GoodShape == [odd |-> "none", quirk |-> FALSE, ats |-> 1, local |-> TRUE,
              dot |-> "inside", tld |-> "letters"]

Empty == [name |-> Plain(0), email |-> Plain(0), message |-> Plain(0), shape |-> GoodShape]

Good == [name |-> Plain(MinName), email |-> Plain(MaxEmail), message |-> Plain(MinMessage),
         shape |-> GoodShape]

\* Only the api refuses this one: two dots in a row in the local part.
Quirky == [Good EXCEPT !.shape.quirk = TRUE]

\* Both refuse this one.
Short == [Good EXCEPT !.name = Plain(MinName - 1)]

FormDrafts == {Empty, Good, Quirky}

\* Around every bound, with every padding and every control character; one
\* beyond ASCII takes a second byte.
Around(bounds) ==
    {v \in [runes : UNION {{b - 1, b, b + 1} : b \in bounds}, wide : 0..1, pad : Pads,
            control : Controls] :
        /\ v.control # "none" => v.runes >= 1
        /\ v.control = "c1" => v.wide = 1}

RuleAddresses ==
    {[Good EXCEPT !.email = v, !.shape = s] : v \in Around({1, MaxEmail}), s \in Shape}

RuleDrafts ==
    FormDrafts \cup {Short}
    \cup {[Good EXCEPT !.name = v] : v \in Around({MinName, MaxName})}
    \cup {[Good EXCEPT !.message = v] : v \in Around({MinMessage, MaxMessage})}
    \cup {d \in RuleAddresses : d.shape.odd = "beyond" => d.email.wide = 1}
=============================================================================
