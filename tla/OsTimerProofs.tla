--------------------------- MODULE OsTimerProofs ---------------------------
(***************************************************************************)
(* The POSIX timer is created at most once, and stopping it before the     *)
(* destructor, with no callback under way, is enough to be safe: for any   *)
(* threads, any times they ask for and any width of unsigned int.          *)
(***************************************************************************)
EXTENDS OsTimer, TLAPS

(* Why a quiet deletion stays safe: the timer is off, no callback thread is
   left, and no thread is in a call that could set it again. *)
QuietStays ==
    /\ lastSet # "start" => armed = 0
    /\ object # "alive" => \A t \in Threads : pc[t] = "idle"
    /\ object = "quiet" => armed = 0 /\ callbacks = 0 /\ reads = "sound"
    /\ object = "alive" => reads = "sound"

IInv ==
    /\ TypeOK
    /\ CreatedOnce
    /\ QuietStays

LEMMA InitIInv == Init => IInv
  <1> SUFFICES ASSUME Init PROVE IInv
    OBVIOUS
  <1>1. 0 \in 0 .. Width - 1 /\ 0 \in 0 .. MaxCreations /\ 0 \in 0 .. MaxCallbacks
    BY OsTimerAssumption
  <1>2. request \in [Threads -> Requests]
    BY <1>1 DEF Init, Requests, Modes
  <1>3. TypeOK
    BY <1>1, <1>2 DEF Init, TypeOK, Modes
  <1> QED BY <1>3 DEF Init, IInv, CreatedOnce, QuietStays

(* The product is taken modulo the width. *)
LEMMA NanosType == \A us \in Micros : Nanos(us) \in 0 .. Width - 1
  BY OsTimerAssumption DEF Nanos

(* A thread's way through Start, Init and Stop. *)
LEMMA ThreadStep ==
    ASSUME IInv, NEW t \in Threads, Call(t) \/ Proceed(t)
    PROVE  IInv'
  <1> USE DEF IInv
  <1>1. /\ pc \in [Threads -> {"idle", "init", "set"}]
        /\ request \in [Threads -> Requests]
    BY DEF TypeOK
  <1>2. ASSUME NEW us \in Micros, NEW m \in Modes, Start(t, us, m)
        PROVE  IInv'
    <2>1. [nanos |-> Nanos(us), mode |-> m] \in Requests
      BY NanosType DEF Requests
    <2>2. request' \in [Threads -> Requests]
      BY <1>1, <1>2, <2>1 DEF Start
    <2>3. pc' \in [Threads -> {"idle", "init", "set"}]
      BY <1>1, <1>2 DEF Start
    <2> QED BY <1>2, <2>2, <2>3 DEF Start, system, TypeOK, CreatedOnce, QuietStays
  <1>3. CASE Stop(t)
    <2>1. 0 \in 0 .. Width - 1
      BY OsTimerAssumption
    <2> QED BY <1>3, <2>1 DEF Stop, SetTime, Modes, TypeOK, CreatedOnce, QuietStays
  <1>4. CASE Create(t)
    <2>1. pc' \in [Threads -> {"idle", "init", "set"}]
      BY <1>1, <1>4 DEF Create
    <2>2. creations = 0
      BY <1>4 DEF Create, initialized, CreatedOnce
    <2>3. timer' = "created" /\ creations' = 1
      BY <1>4, <2>2 DEF Create
    <2>4. creations' \in 0 .. MaxCreations
      BY <2>3, OsTimerAssumption
    <2>5. object = "alive"
      BY <1>4 DEF Create, QuietStays, TypeOK
    <2> QED BY <1>4, <2>1, <2>3, <2>4, <2>5 DEF Create, TypeOK, CreatedOnce, QuietStays
  <1>5. CASE CreateFails(t) \/ AlreadyCreated(t)
    <2>1. pc' \in [Threads -> {"idle", "init", "set"}]
      BY <1>1, <1>5 DEF CreateFails, AlreadyCreated
    <2>2. object = "alive"
      BY <1>5 DEF CreateFails, AlreadyCreated, QuietStays, TypeOK
    <2> QED BY <1>5, <2>1, <2>2
            DEF CreateFails, AlreadyCreated, initialized, system, TypeOK, CreatedOnce, QuietStays
  <1>6. CASE Set(t)
    <2>1. pc' \in [Threads -> {"idle", "init", "set"}]
      BY <1>1, <1>6 DEF Set
    <2>2. request[t].nanos \in 0 .. Width - 1 /\ request[t].mode \in Modes
      BY <1>1 DEF Requests
    <2>3. object = "alive"
      BY <1>6 DEF Set, QuietStays, TypeOK
    <2> QED BY <1>6, <2>1, <2>2, <2>3 DEF Set, SetTime, TypeOK, CreatedOnce, QuietStays
  <1> QED BY <1>2, <1>3, <1>4, <1>5, <1>6 DEF Call, Proceed

LEMMA NextStep ==
    ASSUME IInv, [Next]_vars
    PROVE  IInv'
  <1>1. ASSUME NEW t \in Threads, Call(t) \/ Proceed(t)
        PROVE  IInv'
    BY <1>1, ThreadStep
  <1>2. CASE Expire
    <2>1. armed' \in 0 .. Width - 1
      <3>1. 0 \in 0 .. Width - 1 /\ armed \in 0 .. Width - 1
        BY OsTimerAssumption DEF IInv, TypeOK
      <3> QED BY <1>2, <3>1 DEF Expire
    <2>2. callbacks' \in 0 .. MaxCallbacks
      <3>1. callbacks \in 0 .. MaxCallbacks /\ callbacks < MaxCallbacks
        BY <1>2 DEF Expire, IInv, TypeOK
      <3>2. callbacks' = callbacks + 1
        BY <1>2 DEF Expire
      <3> QED BY <3>1, <3>2, OsTimerAssumption
    <2>3. object # "quiet"
      BY <1>2 DEF Expire, IInv, QuietStays
    <2> QED BY <1>2, <2>1, <2>2, <2>3 DEF Expire, IInv, TypeOK, CreatedOnce, QuietStays
  <1>3. CASE TimerCb
    <2>1. callbacks' \in 0 .. MaxCallbacks
      <3>1. callbacks \in 0 .. MaxCallbacks /\ callbacks > 0
        BY <1>3 DEF TimerCb, IInv, TypeOK
      <3>2. callbacks' = callbacks - 1
        BY <1>3 DEF TimerCb
      <3> QED BY <3>1, <3>2, OsTimerAssumption
    <2>2. object # "quiet"
      <3>1. object = "quiet" => callbacks = 0
        BY DEF IInv, QuietStays
      <3>2. callbacks # 0
        BY <1>3 DEF TimerCb, IInv, TypeOK
      <3> QED BY <3>1, <3>2
    <2>3. reads' = IF object = "alive" THEN reads ELSE "dangling"
      BY <1>3 DEF TimerCb
    <2>4. reads' \in {"sound", "dangling"}
      BY <2>3 DEF IInv, TypeOK
    <2>5. TypeOK'
      BY <1>3, <2>1, <2>4 DEF TimerCb, system, IInv, TypeOK
    <2>6. QuietStays'
      BY <1>3, <2>2, <2>3 DEF TimerCb, system, IInv, QuietStays
    <2>7. CreatedOnce'
      BY <1>3 DEF TimerCb, system, IInv, CreatedOnce
    <2> QED BY <2>5, <2>6, <2>7 DEF IInv
  <1>4. CASE Delete
    BY <1>4 DEF Delete, system, IInv, TypeOK, CreatedOnce, QuietStays
  <1>5. CASE UNCHANGED vars
    BY <1>5 DEF vars, system, IInv, TypeOK, CreatedOnce, QuietStays
  <1> QED BY <1>1, <1>2, <1>3, <1>4, <1>5 DEF Next

LEMMA Invariance == Spec => []IInv
  BY InitIInv, NextStep, PTL DEF Spec

-----------------------------------------------------------------------------
(* The state keeps its types (lines 87-92). *)
THEOREM TypeCorrect == Spec => []TypeOK
  BY Invariance, PTL DEF IInv

(* Threads that race to the first Start create one timer between them (lines 40-65). *)
THEOREM TimerIsCreatedOnce == Spec => []CreatedOnce
  BY Invariance, PTL DEF IInv

(* Stop last, let the callbacks run, then delete: no callback reads the deleted
   object (lines 80-84, 93-101). *)
THEOREM QuietDeletionIsSafe == Spec => []QuietDeleteIsSafe
  <1>1. IInv => QuietDeleteIsSafe
    BY DEF IInv, QuietStays, QuietDeleteIsSafe
  <1> QED BY <1>1, Invariance, PTL
=============================================================================
