------------------------------ MODULE Subject ------------------------------
(***************************************************************************)
(* SubjectImpl and State of src/cpp/obsject.cpp, with the observers that   *)
(* attach to a subject.  Everything runs in one thread, but update may     *)
(* call back: an observer that is told of a change may change the state    *)
(* again, which notifies everybody inside the notification under way, or   *)
(* detach others.                                                          *)
(*                                                                         *)
(* Observers do not attach others and do not detach themselves while a     *)
(* notification is under way: that would leave it with an iterator that is *)
(* no longer valid.                                                        *)
(***************************************************************************)
EXTENDS Integers, Sequences

CONSTANTS Observers,  (* the objects that may attach             *)
          Ids,        (* bound: the ids the state is changed to  *)
          MaxDepth    (* bound: notifications inside each other  *)

ASSUME SubjectAssumption == Ids \subseteq Int /\ MaxDepth \in Nat

VARIABLES
    id,       \* m_id of the state
    setObjs,  \* setObjs, in no order
    stack,    \* the notifications under way, the innermost first: whose update
              \* runs, and who is still to come
    seen,     \* history: the id each observer has read last
    due       \* history: who was attached at the last change, and still is

vars == <<id, setObjs, stack, seen, due>>

Init ==
    /\ id = -1
    /\ setObjs = {}
    /\ stack = <<>>
    /\ seen = [o \in Observers |-> -1]
    /\ due = {}

-----------------------------------------------------------------------------
Attach(o) ==
    /\ stack = <<>>
    /\ setObjs' = setObjs \union {o}
    /\ UNCHANGED <<id, stack, seen, due>>

(* Mutant: notifications under way go through a copy of the set. *)
DetachFromSet(o) ==
    /\ \A k \in 1 .. Len(stack) : stack[k].at # o
    /\ setObjs' = setObjs \ {o}
    /\ due' = due \ {o}
    /\ UNCHANGED <<id, stack, seen>>

(* By the application, or by the observer that is being told. *)
Detach(o) ==
    /\ \A k \in 1 .. Len(stack) : stack[k].at # o
    /\ setObjs' = setObjs \ {o}
    /\ stack' = [k \in 1 .. Len(stack) |-> [stack[k] EXCEPT !.rest = @ \ {o}]]
    /\ due' = due \ {o}
    /\ UNCHANGED <<id, seen>>

(* notify goes on to one of those left, whose update reads the id as it is now;
   with nobody left it returns. *)
TellNext(left, outer) ==
    \/ /\ left = {}
       /\ stack' = outer
       /\ UNCHANGED seen
    \/ \E o \in left :
          /\ stack' = <<[at |-> o, rest |-> left \ {o}]>> \o outer
          /\ seen' = [seen EXCEPT ![o] = id']

(* Mutant: a change inside a notification notifies nobody. *)
ChangeStateQuietly(i) ==
    /\ i # id
    /\ Len(stack) < MaxDepth
    /\ id' = i
    /\ due' = setObjs
    /\ IF stack = <<>> THEN TellNext(setObjs, stack) ELSE UNCHANGED <<stack, seen>>
    /\ UNCHANGED setObjs

(* change_state, to another id; also by the observer that is being told. *)
ChangeState(i) ==
    /\ i # id
    /\ Len(stack) < MaxDepth
    /\ id' = i
    /\ due' = setObjs
    /\ TellNext(setObjs, stack)
    /\ UNCHANGED setObjs

(* update returns to the notification that called it. *)
UpdateReturns ==
    /\ stack # <<>>
    /\ UNCHANGED id
    /\ TellNext(Head(stack).rest, Tail(stack))
    /\ UNCHANGED <<setObjs, due>>

Next ==
    \/ \E o \in Observers : Attach(o) \/ Detach(o)
    \/ \E i \in Ids : ChangeState(i)
    \/ UpdateReturns

Spec == Init /\ [][Next]_vars

-----------------------------------------------------------------------------
(* Type invariant; a notification, however deep in others, calls nobody who has
   been detached, and whose object may be gone (lines 57-64). *)
TypeOK ==
    /\ id \in Ids \union {-1}
    /\ setObjs \in SUBSET Observers
    /\ stack \in Seq([at : setObjs, rest : SUBSET setObjs])
    /\ seen \in [Observers -> Ids \union {-1}]
    /\ due \in SUBSET setObjs

(* Safety: when all notifications have returned, everybody who was attached at
   the last change has read the id it came to, although observers change it
   while others have not been told of the change before (lines 29-38, 60-64). *)
NobodyIsStale == stack = <<>> => \A o \in due : seen[o] = id
=============================================================================
