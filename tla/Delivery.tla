------------------------------ MODULE Delivery ------------------------------
(***************************************************************************)
(* What POST /api/contact promises of a message, with no request handlers, *)
(* table, dispatcher or clock: it is accepted at most once per idempotency *)
(* key, it is owed until the relay has taken it or it has been given up    *)
(* on, it expires only after that, and what a visitor is told is about a   *)
(* message that was accepted.  Contact implements it.                      *)
(***************************************************************************)
EXTENDS Naturals

CONSTANTS
    Message,   \* presses of the button, each of which may make a row
    Nobody,    \* no message
    KeyOf      \* the idempotency key of each

VARIABLES
    fate,      \* what has become of each message
    mails,     \* how often the relay has taken it, whether anybody knows it or not
    told,      \* the message each press holds a 202 for
    promised   \* messages whose visitor was told 502, and that it is stored

vars == <<fate, mails, told, promised>>

Init ==
    /\ fate = [m \in Message |-> "new"]
    /\ mails = [m \in Message |-> 0]
    /\ told = [m \in Message |-> Nobody]
    /\ promised = {}

\* One message of a key is ever accepted, even after it has expired.
Accept(m) ==
    /\ \A x \in Message : KeyOf[x] = KeyOf[m] => fate[x] = "new"
    /\ fate' = [fate EXCEPT ![m] = "queued"]
    /\ UNCHANGED <<mails, told, promised>>

\* The relay takes the mail; it may do so more than once, and after the row's end.
Carry(m) ==
    /\ fate[m] # "new"
    /\ mails' = [mails EXCEPT ![m] = @ + 1]
    /\ UNCHANGED <<fate, told, promised>>

Deliver(m) ==
    /\ fate[m] \in {"queued", "failed"}
    /\ mails[m] >= 1
    /\ fate' = [fate EXCEPT ![m] = "sent"]

GiveUp(m) == fate[m] = "queued" /\ fate' = [fate EXCEPT ![m] = "failed"]

\* A slower process records that the message is to be tried again.
Reopen(m) == fate[m] = "failed" /\ fate' = [fate EXCEPT ![m] = "queued"]

Tell(m) ==
    /\ \E p \in Message :
          /\ told[p] = Nobody
          /\ KeyOf[p] = KeyOf[m]
          /\ told' = [told EXCEPT ![p] = m]
    /\ UNCHANGED promised

Promise(m) ==
    /\ m \notin promised
    /\ promised' = promised \cup {m}
    /\ UNCHANGED told

Silent == UNCHANGED <<told, promised>>

\* A delivery is never answered with a 502, a refusal never with a 202; where
\* nothing is recorded the visitor may be told either.
Turn(m) ==
    /\ fate[m] # "new"
    /\ \/ Deliver(m) /\ (Tell(m) \/ Silent)
       \/ (GiveUp(m) \/ Reopen(m)) /\ (Promise(m) \/ Silent)
       \/ (Tell(m) \/ Promise(m)) /\ UNCHANGED fate
    /\ UNCHANGED mails

Settled == {m \in Message : fate[m] \in {"sent", "failed"}}

\* What is settled may expire, several at once.
Expire ==
    /\ \E gone \in SUBSET Settled :
          /\ gone # {}
          /\ fate' = [m \in Message |-> IF m \in gone THEN "expired" ELSE fate[m]]
    /\ UNCHANGED <<mails, told, promised>>

\* Most of what an implementation does changes nothing here.
Next ==
    \/ UNCHANGED vars
    \/ \E m \in Message : Accept(m) \/ Carry(m) \/ Turn(m)
    \/ Expire

Spec == Init /\ [][Next]_vars
=============================================================================
