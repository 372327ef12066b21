---------------------------- MODULE SessionLife ----------------------------
(* What a session promises the server that keeps it: it may hand requests over
   until it is deleted, and it is deleted by the event loop of its thread after
   it has asked for that, never in the middle of anything. *)
EXTENDS Naturals

VARIABLES
    life,    \* "open", "ending" when it has asked to be deleted, or "deleted"
    handed   \* how often it has handed its request over

vars == <<life, handed>>

Init == life = "open" /\ handed = 0

HandOver == life # "deleted" /\ handed' = handed + 1 /\ UNCHANGED life
End      == life = "open" /\ life' = "ending" /\ UNCHANGED handed
Delete   == life = "ending" /\ life' = "deleted" /\ UNCHANGED handed

Next == HandOver \/ End \/ Delete

Spec == Init /\ [][Next]_vars
=============================================================================
