------------------------------ MODULE OsTimer ------------------------------
(***************************************************************************)
(* os::OsTimer of src/cpp/demotimer.cpp: a POSIX timer created on first    *)
(* use and set by timer_settime.  Any number of threads may call Start     *)
(* and Stop; only the body of Init, which Start calls (OsTimer::Init is    *)
(* declared and never defined), is locked.  The system creates a thread    *)
(* for each expiry (SIGEV_THREAD), which calls back through the          *)
(* address of the OsTimerImpl; the destructor frees that object and leaves *)
(* the timer as it is.                                                     *)
(***************************************************************************)
EXTENDS Integers

CONSTANTS Threads,       (* threads that use the timer                          *)
          Micros,        (* the times they ask for                              *)
          NanoPerMicro,  (* the factor 1000 of OsTimer::Start                   *)
          Width,         (* 2^32: unsigned int arithmetic is modulo this        *)
          MaxCallbacks,  (* bound: callback threads at one time                 *)
          MaxCreations   (* bound: timers ever created; one more than should be *)

ASSUME OsTimerAssumption ==
    /\ Micros \subseteq Nat
    /\ NanoPerMicro \in Nat \ {0}
    /\ Width \in Nat \ {0}
    /\ MaxCallbacks \in Nat
    /\ MaxCreations \in Nat \ {0}

VARIABLES
    timer,      \* timer_t_ and initialized_, which is set once it is not "missing"
    creations,  \* history: timers created; the system frees none by itself
    armed,      \* the time the system's timer is set to, 0 when it is off
    mode,       \* whether it is set again at each expiry
    callbacks,  \* callback threads that have not yet read the object
    pc,         \* where each thread is in Start
    request,    \* what each thread asked for: nanoseconds and mode
    lastSet,    \* history: the call whose setting took effect last
    object,     \* the OsTimerImpl; history: whether it was deleted with the timer
                \* stopped and no callback thread left ("quiet") or not ("busy")
    reads       \* history: "dangling" once a callback has read the deleted object

system == <<timer, creations, armed, mode>>
vars   == <<system, callbacks, pc, request, lastSet, object, reads>>

(* Mutant: the product is passed on as if it could not overflow. *)
NanosUnbounded(us) == us * NanoPerMicro

(* The argument of OsTimerImpl::Start: an unsigned product. *)
Nanos(us) == (us * NanoPerMicro) % Width
Modes     == {"once", "periodic"}
Requests  == [nanos : 0 .. Width - 1, mode : Modes]

initialized == timer # "missing"

Init ==
    /\ timer = "missing"
    /\ creations = 0
    /\ armed = 0
    /\ mode = "once"
    /\ callbacks = 0
    /\ pc = [t \in Threads |-> "idle"]
    /\ request = [t \in Threads |-> [nanos |-> 0, mode |-> "once"]]
    /\ lastSet = "none"
    /\ object = "alive"
    /\ reads = "sound"

-----------------------------------------------------------------------------
(* Start reads initialized_ without the mutex. *)
Start(t, us, m) ==
    /\ object = "alive" /\ pc[t] = "idle"
    /\ request' = [request EXCEPT ![t] = [nanos |-> Nanos(us), mode |-> m]]
    /\ pc' = [pc EXCEPT ![t] = IF initialized THEN "set" ELSE "init"]
    /\ UNCHANGED <<system, callbacks, lastSet, object, reads>>

(* Mutant: the flag is not read again with the mutex held. *)
CreateAgain(t) ==
    /\ pc[t] = "init"
    /\ creations < MaxCreations
    /\ timer' = "created"
    /\ creations' = creations + 1
    /\ pc' = [pc EXCEPT ![t] = "set"]
    /\ UNCHANGED <<armed, mode, callbacks, request, lastSet, object, reads>>

(* The locked body of Init, when timer_create succeeds. *)
Create(t) ==
    /\ pc[t] = "init"
    /\ ~initialized
    /\ creations < MaxCreations
    /\ timer' = "created"
    /\ creations' = creations + 1
    /\ pc' = [pc EXCEPT ![t] = "set"]
    /\ UNCHANGED <<armed, mode, callbacks, request, lastSet, object, reads>>

(* timer_create fails, so Start returns, but initialized_ is set all the same. *)
CreateFails(t) ==
    /\ pc[t] = "init"
    /\ ~initialized
    /\ timer' = "failed"
    /\ pc' = [pc EXCEPT ![t] = "idle"]
    /\ UNCHANGED <<creations, armed, mode, callbacks, request, lastSet, object, reads>>

AlreadyCreated(t) ==
    /\ pc[t] = "init"
    /\ initialized
    /\ pc' = [pc EXCEPT ![t] = "set"]
    /\ UNCHANGED <<system, callbacks, request, lastSet, object, reads>>

(* timer_settime; on a timer_t_ that was never created it is an error. *)
SetTime(value, m, by) ==
    \/ /\ timer = "created"
       /\ armed' = value
       /\ mode' = m
       /\ lastSet' = by
    \/ timer # "created" /\ UNCHANGED <<armed, mode, lastSet>>

Set(t) ==
    /\ pc[t] = "set"
    /\ SetTime(request[t].nanos, request[t].mode, "start")
    /\ pc' = [pc EXCEPT ![t] = "idle"]
    /\ UNCHANGED <<timer, creations, callbacks, request, object, reads>>

(* Mutant: only the period is cleared, the time of the next expiry stays. *)
StopPeriodOnly(t) ==
    /\ object = "alive" /\ pc[t] = "idle"
    /\ SetTime(armed, "once", "stop")
    /\ UNCHANGED <<timer, creations, callbacks, pc, request, object, reads>>

(* Stop sets the timer to zero, and does not ask whether there is one. *)
Stop(t) ==
    /\ object = "alive" /\ pc[t] = "idle"
    /\ SetTime(0, "once", "stop")
    /\ UNCHANGED <<timer, creations, callbacks, pc, request, object, reads>>

-----------------------------------------------------------------------------
(* The system: an expiry starts a callback thread, deleted object or not. *)
Expire ==
    /\ armed # 0
    /\ callbacks < MaxCallbacks
    /\ callbacks' = callbacks + 1
    /\ armed' = IF mode = "periodic" THEN armed ELSE 0
    /\ UNCHANGED <<timer, creations, mode, pc, request, lastSet, object, reads>>

(* TimerCb reads cb_, base_id_ and usr_data_ of the object. *)
TimerCb ==
    /\ callbacks > 0
    /\ callbacks' = callbacks - 1
    /\ reads' = IF object = "alive" THEN reads ELSE "dangling"
    /\ UNCHANGED <<system, pc, request, lastSet, object>>

(* The destructor, called when no thread is in a call. *)
Delete ==
    /\ object = "alive"
    /\ \A t \in Threads : pc[t] = "idle"
    /\ object' = IF lastSet # "start" /\ callbacks = 0 THEN "quiet" ELSE "busy"
    /\ UNCHANGED <<system, callbacks, pc, request, lastSet, reads>>

Call(t) ==
    \/ \E us \in Micros, m \in Modes : Start(t, us, m)
    \/ Stop(t)

Proceed(t) == Create(t) \/ CreateFails(t) \/ AlreadyCreated(t) \/ Set(t)

Next ==
    \/ \E t \in Threads : Call(t) \/ Proceed(t)
    \/ Expire
    \/ TimerCb
    \/ Delete

Spec == Init /\ [][Next]_vars

-----------------------------------------------------------------------------
(* Type invariant: the state of the object and of the system's timer. *)
TypeOK ==
    /\ timer \in {"missing", "created", "failed"}
    /\ creations \in 0 .. MaxCreations
    /\ armed \in 0 .. Width - 1
    /\ mode \in Modes
    /\ callbacks \in 0 .. MaxCallbacks
    /\ pc \in [Threads -> {"idle", "init", "set"}]
    /\ request \in [Threads -> Requests]
    /\ lastSet \in {"none", "start", "stop"}
    /\ object \in {"alive", "quiet", "busy"}
    /\ reads \in {"sound", "dangling"}

(* Safety: threads that all found the timer missing create it once, so that none
   is left behind in the system under an id that was overwritten (lines 42-53, 60). *)
CreatedOnce == creations = IF timer = "created" THEN 1 ELSE 0

(* Safety: when Stop's setting was the last and the callbacks have all run, no
   callback reads the object after its deletion, which leaves the timer in the
   system (lines 80-84, 93-101). *)
QuietDeleteIsSafe == object = "quiet" => reads = "sound"
=============================================================================
