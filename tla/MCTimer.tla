------------------------------ MODULE MCTimer ------------------------------
(* Timer on small instances. *)
EXTENDS Timer

MCPeriods == {0, 1}
=============================================================================
