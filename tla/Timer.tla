------------------------------- MODULE Timer -------------------------------
(***************************************************************************)
(* timer_unit::Timer of src/cpp/demotimer.cpp: one worker thread fires the *)
(* handlers of timers that any number of client threads add and remove.    *)
(*                                                                         *)
(* One locked section is one action.  What happens outside the mutex is    *)
(* kept apart: the test of stop_, the sleep on cond_, and the call of a    *)
(* handler.  For that call the worker, after lock.unlock(), indexes the    *)
(* vector events_ and runs the function object stored in it, where it      *)
(* lies, while an Add may overwrite the slot or make the vector move its   *)
(* events; the call is therefore several steps, and what comes of it once  *)
(* the function object was disturbed is left open.  The destructor is the  *)
(* only code that keeps mutex_ over a blocking call (it joins the worker). *)
(*                                                                         *)
(* Ids count from 0 as in the code; the event of id i is events[i + 1].    *)
(* A handler is named by the rank of the Add that registered it.           *)
(***************************************************************************)
EXTENDS Integers, Sequences

CONSTANTS Periods,  (* the periods clients ask for; one that is not positive is one-shot *)
          MaxTime,  (* bound: the clock stops here, no timer is added for a later time   *)
          MaxAdds   (* bound: how many times Add is called                               *)

ASSUME TimerAssumption ==
    /\ Periods \subseteq Int
    /\ MaxTime \in Nat
    /\ MaxAdds \in Nat

VARIABLES
    events,      \* events_: every id ever given out, its handler, period and valid flag
    timeEvents,  \* time_events_: what is scheduled, ordered by next alone
    freeIds,     \* free_ids_: the stack of ids to give out again, its top first
    stop,        \* stop_: the worker leaves its loop when it finds the flag clear
    now,         \* steady_clock::now()
    pc,          \* where the worker is in Run
    asleep,      \* the worker is in the wait set of cond_
    deadline,    \* the time its wait ends by itself, or Forever
    current,     \* te.id in Run, the id whose handler it calls
    called,      \* the handler in the function object it has found at that id
    disturbed,   \* that object has been moved or overwritten since it was found
    dtor,        \* how far the destructor is
    adds,        \* history: number of calls of Add
    due,         \* history: the timer the worker has taken out, with the number of adds
                 \* and of events at that moment
    removed      \* history: the handlers whose timer a call of Remove invalidated

worker == <<pc, asleep, deadline, current, called, due>>
pool   == <<events, timeEvents, freeIds, adds, removed, disturbed>>
vars   == <<worker, pool, stop, now, dtor>>

-----------------------------------------------------------------------------
Forever == -1
Event     == [handler : Nat, period : Int, valid : BOOLEAN]
TimeEvent == [next : Nat, id : Nat]
Due0      == [handler |-> 0, period |-> 0, next |-> 0, adds |-> 0, size |-> 0]

Ev(id)   == events[id + 1]
Ids      == 0 .. Len(events) - 1
ArmedIds == {te.id : te \in timeEvents}
FreeIds  == {freeIds[k] : k \in 1 .. Len(freeIds)}

(* std::set::insert under operator<, which compares next only: a set that
   already holds an entry for that time is left as it is. *)
Insert(set, te) ==
    IF \E other \in set : other.next = te.next THEN set ELSE set \union {te}

(* begin() of the ordered set *)
Earliest(te) == te \in timeEvents /\ \A other \in timeEvents : te.next <= other.next

(* The worker uses a function object in the vector, without the mutex. *)
InUse == pc \in {"calling", "running", "reenter"}

(* The destructor locks mutex_ and keeps it while it joins the worker. *)
MutexFree == dtor # "join"

(* Mutant: the notify_all is forgotten. *)
NotifyNobody == UNCHANGED asleep

NotifyAll == asleep' = FALSE

-----------------------------------------------------------------------------
(* The constructor has set stop_ and started the worker. *)
Init ==
    /\ events = <<>>
    /\ timeEvents = {}
    /\ freeIds = <<>>
    /\ stop = TRUE
    /\ now = 0
    /\ pc = "test"
    /\ asleep = FALSE
    /\ deadline = Forever
    /\ current = 0
    /\ dtor = "none"
    /\ adds = 0
    /\ called = 0
    /\ disturbed = FALSE
    /\ due = Due0
    /\ removed = {}

-----------------------------------------------------------------------------
(* The operations, as locked sections.  *)

(* Mutant: free_ids_.pop() is forgotten. *)
ReuseWithoutPop(e, when) ==
    /\ freeIds # <<>>
    /\ events' = [events EXCEPT ![Head(freeIds) + 1] = e]
    /\ timeEvents' = Insert(timeEvents, [next |-> when, id |-> Head(freeIds)])
    /\ disturbed' = (disturbed \/ (InUse /\ Head(freeIds) = current))
    /\ UNCHANGED freeIds

(* A released id is given out again and its slot overwritten. *)
Reuse(e, when) ==
    /\ freeIds # <<>>
    /\ freeIds' = Tail(freeIds)
    /\ events' = [events EXCEPT ![Head(freeIds) + 1] = e]
    /\ timeEvents' = Insert(timeEvents, [next |-> when, id |-> Head(freeIds)])
    /\ disturbed' = (disturbed \/ (InUse /\ Head(freeIds) = current))

(* push_back: the vector may be full, and then moves all its events. *)
Grow(e, when) ==
    /\ freeIds = <<>>
    /\ events' = Append(events, e)
    /\ timeEvents' = Insert(timeEvents, [next |-> when, id |-> Len(events)])
    /\ \E moves \in BOOLEAN : disturbed' = (disturbed \/ (InUse /\ moves))
    /\ UNCHANGED freeIds

Add(when, period) ==
    LET e == [handler |-> adds + 1, period |-> period, valid |-> TRUE]
    IN  /\ adds < MaxAdds
        /\ adds' = adds + 1
        /\ Grow(e, when) \/ Reuse(e, when)
        /\ NotifyAll
        /\ UNCHANGED removed

RemoveRejected(id) ==
    /\ events = <<>> \/ Len(events) < id
    /\ UNCHANGED <<pool, asleep>>

(* Mutant: the id is released, its entry is not erased. *)
UnscheduleKeepsEntry(id) ==
    /\ freeIds' = IF id \in ArmedIds THEN <<id>> \o freeIds ELSE freeIds
    /\ UNCHANGED timeEvents

(* Remove's search of time_events_ for the id, which it releases if found. *)
Unschedule(id) ==
    \/ \E te \in timeEvents : /\ te.id = id
                             /\ freeIds' = <<id>> \o freeIds
                             /\ timeEvents' = timeEvents \ {te}
    \/ id \notin ArmedIds /\ UNCHANGED <<freeIds, timeEvents>>

(* The test lets id = size() through: the write of valid then lands behind
   the last event, outside the modelled state, and Remove still returns true. *)
Remove(id) ==
    /\ events # <<>> /\ Len(events) >= id
    /\ events' = IF id \in Ids THEN [events EXCEPT ![id + 1].valid = FALSE] ELSE events
    /\ removed' = IF id \in Ids /\ Ev(id).valid THEN removed \union {Ev(id).handler} ELSE removed
    /\ Unschedule(id)
    /\ NotifyAll
    /\ UNCHANGED <<adds, disturbed>>

Operation ==
    \/ \E when \in 0 .. MaxTime, period \in Periods : Add(when, period)
    \/ \E id \in 0 .. MaxAdds : Remove(id) \/ RemoveRejected(id)

(* A client calls the timer only before it starts to destroy it. *)
ClientCall ==
    /\ dtor = "none" /\ pc # "crashed"
    /\ Operation
    /\ UNCHANGED <<stop, now, pc, deadline, current, called, dtor, due>>

-----------------------------------------------------------------------------
(* The worker: Timer::Run. *)

(* while (stop_.test_and_set()): the test sets the flag again. *)
TestStop ==
    /\ pc = "test"
    /\ pc' = IF stop THEN "lock" ELSE "exited"
    /\ stop' = TRUE
    /\ UNCHANGED <<pool, now, asleep, deadline, current, called, dtor, due>>

Sleep(until) ==
    /\ pc' = "wait"
    /\ asleep' = TRUE
    /\ deadline' = until
    /\ UNCHANGED <<pool, stop, now, current, called, dtor, due>>

(* Mutant: off by one tick. *)
DueEarly(te) == now + 1 >= te.next

Due(te) == now >= te.next

WaitForTimer ==
    /\ pc = "lock" /\ MutexFree
    /\ timeEvents = {}
    /\ Sleep(Forever)

(* Mutant: a duration, with its operands swapped, for the time. *)
WaitUntilNextSwapped ==
    /\ pc = "lock" /\ MutexFree
    /\ \E te \in timeEvents : Earliest(te) /\ ~Due(te) /\ Sleep(now - te.next)

WaitUntilNext ==
    /\ pc = "lock" /\ MutexFree
    /\ \E te \in timeEvents : Earliest(te) /\ ~Due(te) /\ Sleep(te.next)

(* Mutant: a periodic timer's id is pushed with the others. *)
RearmAndRelease(te) ==
    /\ timeEvents' = Insert(timeEvents \ {te}, [te EXCEPT !.next = @ + Ev(te.id).period])
    /\ freeIds' = <<te.id>> \o freeIds
    /\ UNCHANGED events

(* A periodic timer is scheduled again, one period later. *)
Rearm(te) ==
    /\ timeEvents' = Insert(timeEvents \ {te}, [te EXCEPT !.next = @ + Ev(te.id).period])
    /\ UNCHANGED <<events, freeIds>>

(* Mutant: valid is not cleared. *)
ReleaseStaysValid(te) ==
    /\ timeEvents' = timeEvents \ {te}
    /\ freeIds' = <<te.id>> \o freeIds
    /\ UNCHANGED events

(* A one-shot timer is over and its id free, before its handler is called. *)
Release(te) ==
    /\ timeEvents' = timeEvents \ {te}
    /\ events' = [events EXCEPT ![te.id + 1].valid = FALSE]
    /\ freeIds' = <<te.id>> \o freeIds

(* Erase the first entry if it is due, schedule it again or release it, unlock. *)
TakeDue ==
    /\ pc = "lock" /\ MutexFree
    /\ \E te \in timeEvents :
        /\ Earliest(te) /\ Due(te)
        /\ \/ Ev(te.id).valid /\ Ev(te.id).period > 0 /\ Rearm(te)
           \/ ~(Ev(te.id).valid /\ Ev(te.id).period > 0) /\ Release(te)
        /\ current' = te.id
        /\ due' = [handler |-> Ev(te.id).handler, period |-> Ev(te.id).period,
                   next |-> te.next, adds |-> adds, size |-> Len(events)]
    /\ pc' = "call"
    /\ UNCHANGED <<adds, removed, called, disturbed, stop, now, asleep, deadline, dtor>>

(* events_[te.id].handler(te.id), without the mutex: first the function object
   is found, in what the slot holds by now, *)
FindHandler ==
    /\ pc = "call"
    /\ pc' = "calling"
    /\ called' = Ev(current).handler
    /\ UNCHANGED <<pool, stop, now, asleep, deadline, current, dtor, due>>

(* then it is entered.  If it was disturbed in between, it is entered as it was
   found, or as it has become, or the program crashes. *)
CallHandler ==
    /\ pc = "calling"
    /\ pc' = "running"
    /\ \/ UNCHANGED called
       \/ disturbed /\ called' = Ev(current).handler
    /\ UNCHANGED <<pool, stop, now, asleep, deadline, current, dtor, due>>

HandlerReturns ==
    /\ pc = "running"
    /\ pc' = "test"
    /\ current' = 0 /\ called' = 0 /\ disturbed' = FALSE /\ due' = Due0
    /\ UNCHANGED <<events, timeEvents, freeIds, adds, removed,
                   stop, now, asleep, deadline, dtor>>

(* A handler that calls its timer, as the last one of main does, first waits
   for the mutex; it may go on, and call again, afterwards. *)
HandlerCallsTimer ==
    /\ pc = "running"
    /\ pc' = "reenter"
    /\ UNCHANGED <<pool, stop, now, asleep, deadline, current, called, dtor, due>>

HandlerOperation ==
    /\ pc = "reenter" /\ MutexFree
    /\ Operation
    /\ pc' = "running"
    /\ UNCHANGED <<stop, now, deadline, current, called, dtor, due>>

(* Entering or running a function object that was moved from, overwritten or
   freed may end the program, and with it every thread. *)
Crash ==
    /\ pc \in {"calling", "running"} /\ disturbed
    /\ pc' = "crashed"
    /\ current' = 0 /\ called' = 0 /\ due' = Due0
    /\ UNCHANGED <<pool, stop, now, asleep, deadline, dtor>>

WaitTimeout ==
    /\ pc = "wait" /\ asleep
    /\ deadline # Forever /\ deadline <= now
    /\ asleep' = FALSE
    /\ UNCHANGED <<pool, stop, now, pc, deadline, current, called, dtor, due>>

SpuriousWakeup ==
    /\ pc = "wait" /\ asleep
    /\ asleep' = FALSE
    /\ UNCHANGED <<pool, stop, now, pc, deadline, current, called, dtor, due>>

(* wait returns with the mutex locked again; the loop body ends and unlocks. *)
WaitReturns ==
    /\ pc = "wait" /\ ~asleep /\ MutexFree
    /\ pc' = "test"
    /\ deadline' = Forever
    /\ UNCHANGED <<pool, stop, now, asleep, current, called, dtor, due>>

Run ==
    \/ TestStop \/ WaitForTimer \/ WaitUntilNext \/ TakeDue
    \/ FindHandler \/ CallHandler \/ HandlerReturns \/ HandlerCallsTimer \/ HandlerOperation
    \/ WaitTimeout \/ WaitReturns

-----------------------------------------------------------------------------
(* The destructor: clear stop_, lock, join, and only then clear and notify. *)

(* Mutant: the flag is not cleared. *)
DestroyWithoutClear ==
    /\ dtor = "none" /\ pc # "crashed"
    /\ dtor' = "lock"
    /\ UNCHANGED <<worker, pool, stop, now>>

Destroy ==
    /\ dtor = "none" /\ pc # "crashed"
    /\ dtor' = "lock"
    /\ stop' = FALSE
    /\ UNCHANGED <<worker, pool, now>>

DestroyLock ==
    /\ dtor = "lock" /\ pc # "crashed"
    /\ dtor' = "join"
    /\ UNCHANGED <<worker, pool, stop, now>>

DestroyJoin ==
    /\ dtor = "join" /\ pc = "exited"
    /\ dtor' = "done"
    /\ events' = <<>>
    /\ timeEvents' = {}
    /\ freeIds' = <<>>
    /\ NotifyAll
    /\ UNCHANGED <<pc, deadline, current, called, due, adds, removed, disturbed, stop, now>>

Destructor == DestroyLock \/ DestroyJoin

Tick ==
    /\ now < MaxTime
    /\ now' = now + 1
    /\ UNCHANGED <<worker, pool, stop, dtor>>

Next ==
    \/ ClientCall
    \/ Run
    \/ SpuriousWakeup
    \/ Crash
    \/ Destroy
    \/ Destructor
    \/ Tick

(* The worker and the destructor are threads the scheduler does not starve, a
   handler does not call its timer for ever but returns, and time passes; nobody
   has to call the timer. *)
Spec ==
    /\ Init /\ [][Next]_vars
    /\ WF_vars(Run) /\ SF_vars(HandlerReturns)
    /\ WF_vars(Destructor) /\ WF_vars(Tick)

-----------------------------------------------------------------------------
(* Type invariant: the state of the timer has the types the class declares. *)
TypeOK ==
    /\ events \in Seq(Event)
    /\ timeEvents \in SUBSET TimeEvent
    /\ freeIds \in Seq(Nat)
    /\ stop \in BOOLEAN
    /\ now \in Nat
    /\ pc \in {"test", "lock", "wait", "call", "calling", "running", "reenter",
              "exited", "crashed"}
    /\ asleep \in BOOLEAN
    /\ deadline \in Nat \union {Forever}
    /\ current \in Nat
    /\ dtor \in {"none", "lock", "join", "done"}
    /\ adds \in Nat
    /\ called \in Nat
    /\ disturbed \in BOOLEAN
    /\ due \in [handler : Nat, period : Int, next : Nat, adds : Nat, size : Nat]
    /\ removed \in SUBSET Nat

(* Safety: an id is never in use twice.  Each id has at most one entry in
   time_events_, is stored in free_ids_ at most once and never while it is
   scheduled; a scheduled event is valid and a free one is not.  Add reuses
   ids on the strength of this alone (lines 195-205, 224-230, 247-254). *)
IdsInUseOnce ==
    /\ \A te \in timeEvents : te.id \in Ids /\ Ev(te.id).valid
    /\ \A te1, te2 \in timeEvents : te1.id = te2.id => te1 = te2
    /\ \A k \in 1 .. Len(freeIds) : freeIds[k] \in Ids /\ ~Ev(freeIds[k]).valid
    /\ \A j, k \in 1 .. Len(freeIds) : freeIds[j] = freeIds[k] => j = k

(* Safety: no lost wakeup.  A worker asleep on cond_ wakes by itself no later
   than the earliest scheduled time: whatever Add or Remove did since it read
   the schedule either woke it or left that time alone (lines 206, 231, 243, 258). *)
NoOversleep ==
    pc = "wait" /\ asleep =>
        \A te \in timeEvents : deadline # Forever /\ deadline <= te.next

(* Safety: the handler is looked up after unlock, in a slot that may have been
   given to another timer by then (lines 253-256).  Whatever timer was taken out,
   another handler than its own is run only if an Add called since the unlock
   registered it, and only if the timer taken out was one-shot or has been
   removed: the running of a periodic timer nobody removed, and of any timer while
   nobody adds one, is its own. *)
CallFindsItsTimer ==
    /\ pc = "call" => current \in Ids
    /\ InUse /\ called # due.handler =>
           /\ called \in due.adds + 1 .. adds
           /\ due.period <= 0 \/ due.handler \in removed

(* Safety: the function object the worker uses without the mutex (line 256) is not
   protected from Add: push_back may move it (line 198), a reuse of its id
   overwrites it (line 203).  That is all that happens to it: when the pool has not
   grown since the unlock and the timer is periodic and not removed, it is left
   alone, whatever other timers are added, removed and reused. *)
DisturbedByGrowthOrReuse ==
    InUse /\ disturbed =>
        Len(events) > due.size \/ due.period <= 0 \/ due.handler \in removed

(* Action property: while a timer is valid, no step puts another handler into
   its slot; only the destructor takes the slot away (lines 198, 203, 184). *)
ValidTimerKeepsSlot ==
    [][\A id \in Ids : Ev(id).valid /\ dtor' # "done" =>
            id + 1 \in DOMAIN events' /\ events'[id + 1].handler = Ev(id).handler]_vars

(* Liveness: a scheduled entry does not stay for ever; its time comes, the
   worker wakes and takes it, unless it is removed, the timer is destroyed or a
   disturbed call ends the program.  An entry is known by its time, which no other
   entry shares (lines 159, 245). *)
TimersFire ==
    \A next \in 0 .. MaxTime :
        (\E te \in timeEvents : te.next = next)
            ~> (\A te \in timeEvents : te.next # next) \/ dtor # "none" \/ pc = "crashed"

(* Liveness: a destructor that gets the mutex while the worker is outside it and
   awake does return, when the worker's handler does not call the timer and its
   function object is not disturbed (lines 181-183, 239, 255-256). *)
DestructorReturnsIfBusy ==
    (dtor = "join" /\ pc \in {"test", "call", "calling", "running"})
        ~> (dtor = "done" \/ pc \in {"reenter", "crashed"})

(* Refinement: the timer is an alarm clock.  Its alarms are the scheduled entries
   with the handlers they are for; one rings from the moment the worker takes it
   out until the handler has returned.  It never rings early, rings in order and
   one at a time, and an entry goes only by ringing, by being removed or with the
   timer itself (Add, Remove, Run and the destructor, lines 179-262). *)
Schedule ==
    [id \in ArmedIds |-> [time |-> (CHOOSE te \in timeEvents : te.id = id).next,
                          handler |-> Ev(id).handler]]
Ringing ==
    IF pc = "call" \/ InUse THEN {[time |-> due.next, handler |-> due.handler]} ELSE {}
Clock == INSTANCE AlarmClock WITH alarm <- Schedule, ringing <- Ringing, cancelled <- removed
AlarmClockSpec == Clock!Spec

-----------------------------------------------------------------------------
(* What the comments of the class say. *)

(* "stores the ids of the released timers", of free_ids_ (line 270): an event
   whose timer is released, that is no longer valid (line 141), has its id there. *)
ReleasedIdsAreStored == \A id \in Ids : ~Ev(id).valid => id \in FreeIds

(* "notify_all only sends the notification, the lock is released by the local
   lock" (line 187): the destructor gets to its notification and returns. *)
DestructorReturns == (dtor = "join") ~> (dtor = "done")
=============================================================================
