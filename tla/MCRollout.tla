----------------------------- MODULE MCRollout -----------------------------
(* The defaults of api/internal/config and the numbers of compose.yaml. *)
EXTENDS Rollout

MCStopGrace == [c \in Container |-> IF c \in Api THEN 30 ELSE 15]
=============================================================================
