------------------------------ MODULE MCContact ------------------------------
(***************************************************************************)
(* Values for the constants of Contact, chosen by the .cfg files.          *)
(***************************************************************************)
EXTENDS Contact

\* Every press is a message of its own, or all of them are one message.
OwnKey == [r \in Request |-> r]
OneKey == [r \in Request |-> "k1"]

\* Two visitors would only meet in the floor; one client is the harder case.
OneClient == [r \in Request |-> "c1"]

\* A single process, and the twin of a rollout: requests alternate.
OneHome == [r \in Request |-> "api"]
TwoHomes == [r \in Request |-> IF r = "r1" THEN "api" ELSE "api2"]
=============================================================================
