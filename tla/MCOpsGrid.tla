----------------------------- MODULE MCOpsGrid -----------------------------
(* Nothing has happened yet, or two outages are over and nobody has replayed them. *)
EXTENDS OpsGrid

MCPastLogs == {<<>>, <<0, 1, 2, 3>>}
=============================================================================
