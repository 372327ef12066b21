------------------------------- MODULE Events -------------------------------
(***************************************************************************)
(* Events of src/cpp/obsject.cpp: callbacks under integer keys, notified   *)
(* in the order of the keys.  Every connect stores its callback under a    *)
(* number of its own, and by that the callback is named here.  A callback  *)
(* may connect, disconnect others and notify again.                        *)
(***************************************************************************)
EXTENDS Integers, Sequences, FiniteSetsExt

CONSTANTS MaxConnects,  (* bound: calls of connect                 *)
          MaxDepth      (* bound: notifications inside each other  *)

VARIABLES
    observerId,   \* m_observer_id
    connections,  \* the keys of m_connections, each with its own callback
    stack,        \* the keys at which the notifications under way are, the
                  \* innermost first
    returned,     \* history: what connect returned for each callback
    disconnected  \* history: the callbacks whose key disconnect was called with

vars == <<observerId, connections, stack, returned, disconnected>>

Init ==
    /\ observerId = 0
    /\ connections = {}
    /\ stack = <<>>
    /\ returned = [callback \in {} |-> 0]
    /\ disconnected = {}

-----------------------------------------------------------------------------
(* The callback is stored under m_observer_id, and the number after it returned. *)
Connect ==
    /\ observerId < MaxConnects
    /\ connections' = connections \union {observerId}
    /\ observerId' = observerId + 1
    /\ returned' = [callback \in 0 .. observerId |->
                      IF callback = observerId THEN observerId' ELSE returned[callback]]
    /\ UNCHANGED <<stack, disconnected>>

(* With the key that connect returned for a callback; not with the one at which a
   notification is, whose iterator would be invalid then. *)
Disconnect(callback) ==
    LET key == returned[callback]
    IN  /\ \A n \in 1 .. Len(stack) : stack[n] # key
        /\ connections' = connections \ {key}
        /\ disconnected' = disconnected \union {callback}
        /\ UNCHANGED <<observerId, stack, returned>>

(* notify goes on to the callback with the next key, or returns. *)
CallNext(key, outer) ==
    LET later == {k \in connections : k > key}
    IN  stack' = IF later = {} THEN outer ELSE <<Min(later)>> \o outer

Notify ==
    /\ Len(stack) < MaxDepth
    /\ CallNext(-1, stack)
    /\ UNCHANGED <<observerId, connections, returned, disconnected>>

CallbackReturns ==
    /\ stack # <<>>
    /\ CallNext(Head(stack), Tail(stack))
    /\ UNCHANGED <<observerId, connections, returned, disconnected>>

Next ==
    \/ Connect
    \/ \E callback \in DOMAIN returned : Disconnect(callback)
    \/ Notify
    \/ CallbackReturns

Spec == Init /\ [][Next]_vars

-----------------------------------------------------------------------------
(* What main relies on: disconnect with the key connect returned for a callback
   ("auto key = events.connect(update);", line 164, and
   "events.disconnect(key);", line 173) takes out that callback, and only that. *)
KeyIsOfItsCallback == connections = DOMAIN returned \ disconnected
=============================================================================
