------------------------------ MODULE MCBanker ------------------------------
(* Banker with two processes and three resources, so that check_precondition
   leaves the last resource out.  There is one of each.  A process may claim all
   there is of every resource; or the first process claims none of resource 1, so
   that a request beyond its claim is not beyond what is left.  Callers also ask for
   negative amounts, which hand resources back. *)
EXTENDS Banker

MCMaxClaim == [p \in Procs |-> [r \in Res |-> 1]]
MCPartClaim == [p \in Procs |-> [r \in Res |-> IF p = 0 /\ r = 1 THEN 0 ELSE 1]]
MCCapacity == [r \in Res |-> 1]
MCAmounts  == {-1, 0, 1}
=============================================================================
