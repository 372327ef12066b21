---------------------------- MODULE TimerProofs ----------------------------
(***************************************************************************)
(* The timer's invariants hold for every set of periods and every bound.   *)
(* The inductive invariant joins them: which ids are in use (IdsInUseOnce) *)
(* does not depend on the worker, so it is shown first, operation by       *)
(* operation; the rest follows from what an operation leaves alone.  Last, *)
(* the timer implements the alarm clock: its schedule, seen as a function  *)
(* from the scheduled ids to times and handlers, the timer that is ringing *)
(* and the ones that were removed change as AlarmClock allows.             *)
(***************************************************************************)
EXTENDS Timer, TLAPS

PoolTypeOK ==
    /\ events \in Seq(Event)
    /\ timeEvents \in SUBSET TimeEvent
    /\ freeIds \in Seq(Nat)
    /\ adds \in Nat
    /\ removed \in SUBSET Nat
    /\ disturbed \in BOOLEAN

(* Safety: the order to stop is not lost.  The worker's test sets stop_ again,
   so the cleared flag may only be consumed by the test that ends the loop
   (lines 181, 239). *)
StopIsNotLost == dtor # "none" /\ stop => pc = "exited"

(* A handler is that of the timer taken out, or of one added since in its place. *)
OwnOrNewer(h) ==
    h # due.handler =>
        /\ h \in due.adds + 1 .. adds
        /\ due.period <= 0 \/ due.handler \in removed

(* From the unlock to the return of the handler, the slot of the timer taken out
   holds its handler or one that Add put there since, and is not up for reuse if
   the timer is periodic and not removed; the same goes for the handler found. *)
SlotOfCall ==
    /\ pc = "call" \/ InUse =>
           /\ current \in Ids
           /\ due.adds <= adds /\ due.size <= Len(events)
           /\ OwnOrNewer(Ev(current).handler)
           /\ due.period > 0 /\ due.handler \notin removed => Ev(current).valid
    /\ InUse => OwnOrNewer(called)
    /\ disturbed => InUse \/ pc = "crashed"

IInv ==
    /\ TypeOK
    /\ IdsInUseOnce
    /\ NoOversleep
    /\ StopIsNotLost
    /\ SlotOfCall
    /\ DisturbedByGrowthOrReuse

(* What a call of the timer leaves of each slot: a valid timer keeps its handler,
   and is invalidated only by being removed; another slot may be given to the timer
   being added.  The function object in use is disturbed only if the pool grows or
   its slot is not valid. *)
SlotsKept ==
    /\ Len(events) <= Len(events')
    /\ adds <= adds'
    /\ removed \subseteq removed'
    /\ \A k \in 1 .. Len(events) : events[k].valid =>
            /\ events'[k].handler = events[k].handler
            /\ events'[k].valid \/ events[k].handler \in removed'
    /\ \A k \in 1 .. Len(events) :
            events'[k].handler = events[k].handler \/ events'[k].handler \in adds + 1 .. adds'
    /\ disturbed' =>
           \/ disturbed
           \/ InUse /\ (Len(events') > Len(events) \/ ~Ev(current).valid)

(* Pushing on the stack puts the id on top and moves the others down by one. *)
LEMMA Push ==
    ASSUME NEW s \in Seq(Nat), NEW x \in Nat
    PROVE  /\ <<x>> \o s \in Seq(Nat)
           /\ Len(<<x>> \o s) = Len(s) + 1
           /\ (<<x>> \o s)[1] = x
           /\ \A k \in 2 .. Len(s) + 1 : (<<x>> \o s)[k] = s[k - 1]
  OBVIOUS

(* Popping takes the top and moves the others up by one. *)
LEMMA Pop ==
    ASSUME NEW s \in Seq(Nat), s # <<>>
    PROVE  /\ Head(s) = s[1] /\ Head(s) \in Nat
           /\ Tail(s) \in Seq(Nat)
           /\ Len(s) > 0
           /\ Len(Tail(s)) = Len(s) - 1
           /\ \A k \in 1 .. Len(s) - 1 : Tail(s)[k] = s[k + 1]
  OBVIOUS

(* Writing one event leaves the others alone. *)
LEMMA Overwrite ==
    ASSUME NEW s \in Seq(Event), NEW k \in 1 .. Len(s), NEW e \in Event
    PROVE  /\ [s EXCEPT ![k] = e] \in Seq(Event)
           /\ Len([s EXCEPT ![k] = e]) = Len(s)
           /\ [s EXCEPT ![k] = e][k] = e
           /\ \A j \in 1 .. Len(s) : j # k => [s EXCEPT ![k] = e][j] = s[j]
  OBVIOUS

(* Invalidating one event leaves its handler, and the other events, alone. *)
LEMMA Invalidate ==
    ASSUME NEW s \in Seq(Event), NEW k \in 1 .. Len(s), NEW t \in Seq(Event),
           t = [s EXCEPT ![k].valid = FALSE]
    PROVE  /\ Len(t) = Len(s)
           /\ t[k].handler = s[k].handler
           /\ ~t[k].valid
           /\ \A j \in 1 .. Len(s) : j # k => t[j] = s[j]
  <1>1. s[k] \in Event
    OBVIOUS
  <1> QED BY <1>1 DEF Event

LEMMA InvalidateType ==
    ASSUME NEW s \in Seq(Event), NEW k \in 1 .. Len(s)
    PROVE  [s EXCEPT ![k].valid = FALSE] \in Seq(Event)
  <1> DEFINE e == [s[k] EXCEPT !.valid = FALSE]
  <1>1. s[k] \in Event
    OBVIOUS
  <1>2. e \in Event
    BY <1>1 DEF Event
  <1>3. [s EXCEPT ![k] = e] \in Seq(Event)
    BY <1>2, Overwrite
  <1>4. [s EXCEPT ![k].valid = FALSE] = [s EXCEPT ![k] = e]
    OBVIOUS
  <1> QED BY <1>3, <1>4

(* Insert adds the entry or leaves the set as it is. *)
LEMMA InsertIs ==
    ASSUME NEW set, NEW te
    PROVE  Insert(set, te) = set \/ Insert(set, te) = set \union {te}
  BY DEF Insert

-----------------------------------------------------------------------------
(* Add keeps every id in one use: the id it takes is new, or free and so not
   scheduled. *)
LEMMA AddKeepsPool ==
    ASSUME PoolTypeOK, IdsInUseOnce, NEW when \in Nat, NEW period \in Int,
           Add(when, period)
    PROVE  PoolTypeOK' /\ IdsInUseOnce' /\ SlotsKept
  <1> DEFINE e == [handler |-> adds + 1, period |-> period, valid |-> TRUE]
  <1>1. e \in Event /\ adds' = adds + 1 /\ removed' = removed
    BY DEF Add, Event, PoolTypeOK
  <1> disturbed' \in BOOLEAN
    BY DEF Add, Grow, Reuse
  <1>2. CASE freeIds = <<>>
    <2> DEFINE te == [next |-> when, id |-> Len(events)]
    <2>1. /\ events' = Append(events, e)
          /\ timeEvents' = Insert(timeEvents, te)
          /\ freeIds' = freeIds
          /\ disturbed' => disturbed \/ InUse
      BY <1>2 DEF Add, Grow, Reuse
    <2>2. te \in TimeEvent
      BY DEF TimeEvent, PoolTypeOK
    <2>3. timeEvents' \subseteq timeEvents \union {te}
      BY <2>1, InsertIs
    <2>4. /\ events' \in Seq(Event)
          /\ Len(events') = Len(events) + 1
          /\ events'[Len(events) + 1] = e
          /\ \A k \in 1 .. Len(events) : events'[k] = events[k]
      BY <1>1, <2>1 DEF PoolTypeOK
    <2>5. PoolTypeOK'
      BY <1>1, <2>1, <2>2, <2>3, <2>4 DEF PoolTypeOK
    <2>6. IdsInUseOnce'
      <3>1. \A x \in timeEvents : x.id \in 0 .. Len(events) - 1 /\ events[x.id + 1].valid
        BY DEF IdsInUseOnce, Ids, Ev
      <3>2. \A x \in timeEvents' : x.id \in 0 .. Len(events') - 1 /\ events'[x.id + 1].valid
        <4> TAKE x \in timeEvents'
        <4>1. CASE x \in timeEvents
          <5>1. x.id + 1 \in 1 .. Len(events)
            BY <3>1, <4>1
          <5> QED BY <2>4, <3>1, <4>1, <5>1
        <4>2. CASE x = te
          BY <1>1, <2>4, <4>2 DEF PoolTypeOK
        <4> QED BY <2>3, <4>1, <4>2
      <3>3. \A x, y \in timeEvents' : x.id = y.id => x = y
        BY <2>3, <3>1 DEF IdsInUseOnce, PoolTypeOK
      <3>4. \A k \in 1 .. Len(freeIds) :
                freeIds[k] \in 0 .. Len(events') - 1 /\ ~events'[freeIds[k] + 1].valid
        BY <1>2 DEF PoolTypeOK
      <3> QED BY <1>2, <2>1, <3>2, <3>3, <3>4 DEF IdsInUseOnce, Ids, Ev
    <2>7. SlotsKept
      BY <1>1, <2>1, <2>4 DEF SlotsKept, PoolTypeOK
    <2> QED BY <2>5, <2>6, <2>7
  <1>3. CASE freeIds # <<>>
    <2> DEFINE id == Head(freeIds)
               te == [next |-> when, id |-> id]
    <2>1. /\ freeIds' = Tail(freeIds)
          /\ events' = [events EXCEPT ![id + 1] = e]
          /\ timeEvents' = Insert(timeEvents, te)
          /\ disturbed' => disturbed \/ (InUse /\ id = current)
      BY <1>3 DEF Add, Grow, Reuse
    <2>2. /\ id = freeIds[1] /\ id \in Nat
          /\ freeIds' \in Seq(Nat)
          /\ Len(freeIds) > 0
          /\ Len(freeIds') = Len(freeIds) - 1
          /\ \A k \in 1 .. Len(freeIds') : freeIds'[k] = freeIds[k + 1]
      BY <1>3, <2>1, Pop DEF PoolTypeOK
    <2>3. id \in 0 .. Len(events) - 1 /\ ~events[id + 1].valid
      BY <2>2 DEF IdsInUseOnce, Ids, Ev, PoolTypeOK
    <2>4. /\ events' \in Seq(Event)
          /\ Len(events') = Len(events)
          /\ events'[id + 1] = e
          /\ \A k \in 1 .. Len(events) : k # id + 1 => events'[k] = events[k]
      <3>1. events \in Seq(Event) /\ id + 1 \in 1 .. Len(events)
        BY <2>2, <2>3 DEF PoolTypeOK
      <3> HIDE DEF e, id
      <3> QED BY <1>1, <2>1, <3>1, Overwrite
    <2>5. timeEvents' \subseteq timeEvents \union {te} /\ te \in TimeEvent
      BY <2>1, <2>2, InsertIs DEF TimeEvent
    <2>6. PoolTypeOK'
      BY <1>1, <2>2, <2>4, <2>5 DEF PoolTypeOK
    <2>7. IdsInUseOnce'
      <3>1. \A x \in timeEvents :
                /\ x.id \in 0 .. Len(events) - 1
                /\ events[x.id + 1].valid
                /\ x.id # id
        BY <2>3 DEF IdsInUseOnce, Ids, Ev
      <3>2. \A x \in timeEvents' : x.id \in 0 .. Len(events') - 1 /\ events'[x.id + 1].valid
        <4> TAKE x \in timeEvents'
        <4>1. CASE x \in timeEvents
          <5>1. x.id + 1 \in 1 .. Len(events) /\ x.id + 1 # id + 1
            BY <2>3, <3>1, <4>1
          <5> QED BY <2>4, <3>1, <4>1, <5>1
        <4>2. CASE x = te
          BY <2>3, <2>4, <4>2
        <4> QED BY <2>5, <4>1, <4>2
      <3>3. \A x, y \in timeEvents' : x.id = y.id => x = y
        BY <2>5, <3>1 DEF IdsInUseOnce
      <3>4. \A k \in 1 .. Len(freeIds') :
                /\ freeIds'[k] \in 0 .. Len(events') - 1
                /\ ~events'[freeIds'[k] + 1].valid
        <4> TAKE k \in 1 .. Len(freeIds')
        <4>1. k + 1 \in 1 .. Len(freeIds) /\ freeIds'[k] = freeIds[k + 1]
          BY <2>2
        <4>2. freeIds[k + 1] \in 0 .. Len(events) - 1 /\ ~events[freeIds[k + 1] + 1].valid
          BY <4>1 DEF IdsInUseOnce, Ids, Ev
        <4>3. freeIds[k + 1] # id
          BY <2>2, <4>1 DEF IdsInUseOnce
        <4>4. freeIds[k + 1] + 1 \in 1 .. Len(events) /\ freeIds[k + 1] + 1 # id + 1
          <5>1. Len(events) \in Nat /\ id \in Nat
            BY <2>2 DEF PoolTypeOK
          <5> QED BY <4>2, <4>3, <5>1
        <4>5. events'[freeIds[k + 1] + 1] = events[freeIds[k + 1] + 1]
          BY <2>4, <4>4
        <4> QED BY <2>4, <4>1, <4>2, <4>5
      <3>5. \A j, k \in 1 .. Len(freeIds') : freeIds'[j] = freeIds'[k] => j = k
        <4> SUFFICES ASSUME NEW j \in 1 .. Len(freeIds'), NEW k \in 1 .. Len(freeIds'),
                            freeIds'[j] = freeIds'[k]
                     PROVE  j = k
          OBVIOUS
        <4>1. /\ j + 1 \in 1 .. Len(freeIds) /\ k + 1 \in 1 .. Len(freeIds)
              /\ freeIds[j + 1] = freeIds[k + 1]
          BY <2>2
        <4>2. j + 1 = k + 1
          BY <4>1 DEF IdsInUseOnce
        <4> QED BY <4>2
      <3> QED BY <3>2, <3>3, <3>4, <3>5 DEF IdsInUseOnce, Ids, Ev
    <2>8. SlotsKept
      <3>1. \A k \in 1 .. Len(events) : events[k].valid => events'[k] = events[k]
        BY <2>3, <2>4
      <3>2. \A k \in 1 .. Len(events) :
                events'[k].handler = events[k].handler \/ events'[k].handler = adds + 1
        BY <2>4
      <3>3. disturbed' => disturbed \/ (InUse /\ ~Ev(current).valid)
        BY <2>1, <2>3 DEF Ev
      <3> QED BY <1>1, <2>4, <3>1, <3>2, <3>3 DEF SlotsKept, PoolTypeOK
    <2> QED BY <2>6, <2>7, <2>8
  <1> QED BY <1>2, <1>3

(* Releasing a scheduled id: its one entry goes, its event is no longer valid,
   and it may be pushed because it was not on the stack. *)
LEMMA ReleaseKeepsUse ==
    ASSUME PoolTypeOK, IdsInUseOnce, NEW te \in timeEvents,
           timeEvents' = timeEvents \ {te},
           events' = [events EXCEPT ![te.id + 1].valid = FALSE],
           freeIds' = <<te.id>> \o freeIds
    PROVE  IdsInUseOnce'
  <1> DEFINE id == te.id
  <1>1. /\ id \in 0 .. Len(events) - 1 /\ id + 1 \in 1 .. Len(events) /\ id \in Nat
        /\ events[id + 1].valid
    BY DEF IdsInUseOnce, Ids, Ev, PoolTypeOK, TimeEvent
  <1>2. /\ Len(events') = Len(events)
        /\ ~events'[id + 1].valid
        /\ \A k \in 1 .. Len(events) : k # id + 1 => events'[k] = events[k]
    BY <1>1 DEF PoolTypeOK, Event
  <1>3. /\ Len(freeIds') = Len(freeIds) + 1
        /\ freeIds'[1] = id
        /\ \A k \in 2 .. Len(freeIds') : freeIds'[k] = freeIds[k - 1] /\ k - 1 \in 1 .. Len(freeIds)
    <2>1. freeIds \in Seq(Nat) /\ Len(freeIds) \in Nat
      BY DEF PoolTypeOK
    <2>2. /\ Len(freeIds') = Len(freeIds) + 1
          /\ freeIds'[1] = id
          /\ \A k \in 2 .. Len(freeIds) + 1 : freeIds'[k] = freeIds[k - 1]
      BY <1>1, <2>1, Push
    <2> QED BY <2>1, <2>2
  <1>4. \A k \in 1 .. Len(freeIds) :
            /\ freeIds[k] \in 0 .. Len(events) - 1
            /\ ~events[freeIds[k] + 1].valid
            /\ freeIds[k] # id
    BY <1>1 DEF IdsInUseOnce, Ids, Ev
  <1>5. \A x \in timeEvents' : x.id \in 0 .. Len(events') - 1 /\ events'[x.id + 1].valid
    <2> TAKE x \in timeEvents'
    <2>1. x.id \in 0 .. Len(events) - 1 /\ events[x.id + 1].valid /\ x.id # id
      BY DEF IdsInUseOnce, Ids, Ev
    <2>2. x.id + 1 \in 1 .. Len(events) /\ x.id + 1 # id + 1
      BY <1>1, <2>1
    <2> QED BY <1>2, <2>1, <2>2
  <1>6. \A x, y \in timeEvents' : x.id = y.id => x = y
    BY DEF IdsInUseOnce
  <1>7. \A k \in 1 .. Len(freeIds') :
            freeIds'[k] \in 0 .. Len(events') - 1 /\ ~events'[freeIds'[k] + 1].valid
    <2> TAKE k \in 1 .. Len(freeIds')
    <2>1. CASE k = 1
      BY <1>1, <1>2, <1>3, <2>1
    <2>2. CASE k # 1
      <3>1. freeIds'[k] = freeIds[k - 1] /\ k - 1 \in 1 .. Len(freeIds)
        BY <1>3, <2>2 DEF PoolTypeOK
      <3>2. freeIds[k - 1] + 1 \in 1 .. Len(events) /\ freeIds[k - 1] + 1 # id + 1
        <4>1. Len(events) \in Nat /\ id \in Nat
          BY <1>1 DEF PoolTypeOK
        <4>2. freeIds[k - 1] \in 0 .. Len(events) - 1 /\ freeIds[k - 1] # id
          BY <1>4, <3>1
        <4> QED BY <4>1, <4>2
      <3>3. events'[freeIds[k - 1] + 1] = events[freeIds[k - 1] + 1]
        BY <1>2, <3>2
      <3>4. freeIds[k - 1] \in 0 .. Len(events) - 1 /\ ~events[freeIds[k - 1] + 1].valid
        BY <1>4, <3>1
      <3> QED BY <1>2, <3>1, <3>3, <3>4
    <2> QED BY <2>1, <2>2
  <1>8. \A j, k \in 1 .. Len(freeIds') : freeIds'[j] = freeIds'[k] => j = k
    <2> SUFFICES ASSUME NEW j \in 1 .. Len(freeIds'), NEW k \in 1 .. Len(freeIds'),
                        freeIds'[j] = freeIds'[k]
                 PROVE  j = k
      OBVIOUS
    <2>1. CASE j = 1 \/ k = 1
      BY <1>3, <1>4, <2>1 DEF PoolTypeOK
    <2>2. CASE j # 1 /\ k # 1
      <3>1. /\ j - 1 \in 1 .. Len(freeIds) /\ k - 1 \in 1 .. Len(freeIds)
            /\ freeIds[j - 1] = freeIds[k - 1]
        BY <1>3, <2>2 DEF PoolTypeOK
      <3>2. j - 1 = k - 1
        BY <3>1 DEF IdsInUseOnce
      <3> QED BY <3>2
    <2> QED BY <2>1, <2>2
  <1> QED BY <1>5, <1>6, <1>7, <1>8 DEF IdsInUseOnce, Ids, Ev

(* Remove releases a scheduled id and otherwise touches no id. *)
LEMMA RemoveKeepsPool ==
    ASSUME PoolTypeOK, IdsInUseOnce, NEW id \in Nat, Remove(id)
    PROVE  PoolTypeOK' /\ IdsInUseOnce' /\ SlotsKept
  <1>1. adds' = adds /\ disturbed' = disturbed
    BY DEF Remove
  <1>2. CASE id \notin Ids
    <2>1. events' = events /\ removed' = removed
      BY <1>2 DEF Remove
    <2>2. freeIds' = freeIds /\ timeEvents' = timeEvents
      BY <1>2 DEF Remove, Unschedule, IdsInUseOnce
    <2>3. PoolTypeOK' /\ IdsInUseOnce'
      BY <1>1, <2>1, <2>2 DEF PoolTypeOK, IdsInUseOnce, Ids, Ev
    <2>4. SlotsKept
      BY <1>1, <2>1 DEF PoolTypeOK, SlotsKept
    <2> QED BY <2>3, <2>4
  <1>3. CASE id \in Ids
    <2>1. /\ events' = [events EXCEPT ![id + 1].valid = FALSE]
          /\ id + 1 \in 1 .. Len(events)
      BY <1>3 DEF Remove, Ids, PoolTypeOK
    <2>2. /\ events' \in Seq(Event)
          /\ Len(events') = Len(events)
          /\ events'[id + 1].handler = events[id + 1].handler
          /\ ~events'[id + 1].valid
          /\ \A k \in 1 .. Len(events) : k # id + 1 => events'[k] = events[k]
      BY <2>1, Invalidate, InvalidateType DEF PoolTypeOK
    <2>3. /\ removed' = IF events[id + 1].valid
                        THEN removed \union {events[id + 1].handler} ELSE removed
          /\ events[id + 1].handler \in Nat
      <3>1. events[id + 1] \in Event
        BY <2>1 DEF PoolTypeOK
      <3>2. events[id + 1].handler \in Nat
        BY <3>1 DEF Event
      <3> QED BY <1>3, <3>2 DEF Remove, Ev
    <2>4. SlotsKept
      <3>1. \A k \in 1 .. Len(events) : events'[k].handler = events[k].handler
        BY <2>1, <2>2
      <3> QED BY <1>1, <2>1, <2>2, <2>3, <3>1 DEF SlotsKept, PoolTypeOK
    <2>5. CASE id \notin ArmedIds
      <3>1. freeIds' = freeIds /\ timeEvents' = timeEvents
        BY <2>5 DEF Remove, Unschedule, ArmedIds
      <3>2. PoolTypeOK'
        BY <1>1, <2>2, <2>3, <3>1 DEF PoolTypeOK
      <3>3. \A k \in 1 .. Len(events) : ~events[k].valid => ~events'[k].valid
        BY <2>1, <2>2
      <3>4. \A x \in timeEvents : events'[x.id + 1].valid /\ x.id \in Ids
        <4> TAKE x \in timeEvents
        <4>1. x.id \in Ids /\ events[x.id + 1].valid /\ x.id # id
          BY <2>5 DEF IdsInUseOnce, Ev, ArmedIds
        <4>2. x.id + 1 \in 1 .. Len(events) /\ x.id + 1 # id + 1
          BY <1>3, <4>1 DEF Ids, PoolTypeOK
        <4> QED BY <2>2, <4>1, <4>2
      <3>5. \A k \in 1 .. Len(freeIds) : freeIds[k] \in Ids /\ ~events'[freeIds[k] + 1].valid
        <4> TAKE k \in 1 .. Len(freeIds)
        <4>1. freeIds[k] \in Ids /\ ~events[freeIds[k] + 1].valid
          BY DEF IdsInUseOnce, Ev
        <4>2. freeIds[k] + 1 \in 1 .. Len(events)
          BY <4>1 DEF Ids, PoolTypeOK
        <4> QED BY <3>3, <4>1, <4>2
      <3>6. IdsInUseOnce'
        BY <2>2, <3>1, <3>4, <3>5 DEF IdsInUseOnce, Ids, Ev
      <3> QED BY <2>4, <3>2, <3>6
    <2>6. CASE id \in ArmedIds
      <3>1. PICK te \in timeEvents : /\ te.id = id
                                     /\ freeIds' = <<id>> \o freeIds
                                     /\ timeEvents' = timeEvents \ {te}
        BY <2>6 DEF Remove, Unschedule
      <3>2. IdsInUseOnce'
        BY <2>1, <3>1, ReleaseKeepsUse
      <3>3. PoolTypeOK'
        BY <1>1, <2>2, <2>3, <3>1, Push DEF PoolTypeOK
      <3> QED BY <2>4, <3>2, <3>3
    <2> QED BY <2>5, <2>6
  <1> QED BY <1>2, <1>3

(* The same, for any call of the timer. *)
LEMMA OperationKeepsPool ==
    ASSUME PoolTypeOK, IdsInUseOnce, Operation
    PROVE  PoolTypeOK' /\ IdsInUseOnce' /\ SlotsKept
  <1>1. ASSUME NEW when \in 0 .. MaxTime, NEW period \in Periods, Add(when, period)
        PROVE  PoolTypeOK' /\ IdsInUseOnce' /\ SlotsKept
    BY <1>1, AddKeepsPool, TimerAssumption
  <1>2. ASSUME NEW id \in 0 .. MaxAdds, Remove(id)
        PROVE  PoolTypeOK' /\ IdsInUseOnce' /\ SlotsKept
    BY <1>2, RemoveKeepsPool, TimerAssumption
  <1>3. ASSUME NEW id \in 0 .. MaxAdds, RemoveRejected(id)
        PROVE  PoolTypeOK' /\ IdsInUseOnce' /\ SlotsKept
    BY <1>3 DEF RemoveRejected, pool, PoolTypeOK, IdsInUseOnce, Ids, Ev, SlotsKept
  <1> QED BY <1>1, <1>2, <1>3 DEF Operation

(* An operation that changes the schedule wakes the worker. *)
LEMMA OperationWakes ==
    ASSUME Operation
    PROVE  asleep' = FALSE \/ (asleep' = asleep /\ timeEvents' = timeEvents)
  BY DEF Operation, Add, Remove, RemoveRejected, NotifyAll, pool

(* The worker's locked section keeps every id in one use, too. *)
LEMMA TakeDueKeepsPool ==
    ASSUME PoolTypeOK, IdsInUseOnce, TakeDue
    PROVE  /\ PoolTypeOK' /\ IdsInUseOnce'
           /\ current' \in Nat /\ current' \in Ids'
           /\ due' \in [handler : Nat, period : Int, next : Nat, adds : Nat, size : Nat]
           /\ due'.adds = adds' /\ due'.size = Len(events')
           /\ events'[current' + 1].handler = due'.handler
           /\ due'.period > 0 => events'[current' + 1].valid
  <1>1. PICK te \in timeEvents :
            /\ \/ Ev(te.id).valid /\ Ev(te.id).period > 0 /\ Rearm(te)
               \/ ~(Ev(te.id).valid /\ Ev(te.id).period > 0) /\ Release(te)
            /\ current' = te.id
            /\ due' = [handler |-> Ev(te.id).handler, period |-> Ev(te.id).period,
                       next |-> te.next, adds |-> adds, size |-> Len(events)]
    BY DEF TakeDue
  <1>2. adds' = adds /\ removed' = removed /\ disturbed' = disturbed
    BY DEF TakeDue
  <1>3. /\ te.id \in Nat /\ te.next \in Nat
        /\ te.id \in 0 .. Len(events) - 1 /\ te.id + 1 \in 1 .. Len(events)
        /\ events[te.id + 1].valid
    BY DEF PoolTypeOK, TimeEvent, IdsInUseOnce, Ids, Ev
  <1>4. events[te.id + 1].handler \in Nat /\ events[te.id + 1].period \in Int
    <2>1. events[te.id + 1] \in Event
      BY <1>3 DEF PoolTypeOK
    <2> QED BY <2>1 DEF Event
  <1>5. /\ due' \in [handler : Nat, period : Int, next : Nat, adds : Nat, size : Nat]
        /\ due'.adds = adds' /\ due'.size = Len(events)
        /\ due'.handler = events[te.id + 1].handler
    BY <1>1, <1>2, <1>3, <1>4 DEF Ev, PoolTypeOK
  <1>6. CASE events[te.id + 1].period > 0
    <2> DEFINE later == [te EXCEPT !.next = @ + events[te.id + 1].period]
    <2>1. /\ timeEvents' = Insert(timeEvents \ {te}, later)
          /\ events' = events /\ freeIds' = freeIds
      BY <1>1, <1>3, <1>6 DEF Ev, Rearm, Release
    <2>2. later \in TimeEvent /\ later.id = te.id
      <3>1. te \in TimeEvent /\ te.next + events[te.id + 1].period \in Nat
        BY <1>3, <1>4, <1>6 DEF PoolTypeOK
      <3> QED BY <3>1 DEF TimeEvent
    <2>3. timeEvents' \subseteq (timeEvents \ {te}) \union {later}
      <3> HIDE DEF later
      <3> QED BY <2>1, InsertIs
    <2>4. PoolTypeOK'
      BY <1>2, <2>1, <2>2, <2>3 DEF PoolTypeOK
    <2>5. \A x \in timeEvents' : x.id \in Ids /\ events[x.id + 1].valid
      BY <2>2, <2>3 DEF IdsInUseOnce, Ev
    <2>6. \A x, y \in timeEvents' : x.id = y.id => x = y
      BY <2>2, <2>3 DEF IdsInUseOnce
    <2>7. IdsInUseOnce'
      BY <2>1, <2>5, <2>6 DEF IdsInUseOnce, Ids, Ev
    <2> QED BY <1>1, <1>3, <1>5, <2>1, <2>4, <2>7 DEF Ids, Ev
  <1>7. CASE ~(events[te.id + 1].period > 0)
    <2>1. /\ timeEvents' = timeEvents \ {te}
          /\ events' = [events EXCEPT ![te.id + 1].valid = FALSE]
          /\ freeIds' = <<te.id>> \o freeIds
      BY <1>1, <1>7 DEF Ev, Rearm, Release
    <2>2. IdsInUseOnce'
      BY <2>1, ReleaseKeepsUse
    <2>3. /\ events' \in Seq(Event) /\ Len(events') = Len(events)
          /\ events'[te.id + 1].handler = events[te.id + 1].handler
      BY <1>3, <2>1, InvalidateType, Invalidate DEF PoolTypeOK
    <2>4. PoolTypeOK'
      BY <1>2, <1>3, <2>1, <2>3, Push DEF PoolTypeOK
    <2>5. ~(due'.period > 0)
      BY <1>1, <1>7 DEF Ev
    <2> QED BY <1>1, <1>3, <1>5, <2>2, <2>3, <2>4, <2>5 DEF Ids
  <1> QED BY <1>6, <1>7

-----------------------------------------------------------------------------
(* The invariant holds in the beginning. *)
LEMMA InitIInv == Init => IInv
  <1> SUFFICES ASSUME Init PROVE IInv
    OBVIOUS
  <1>1. TypeOK
    <2>1. events \in Seq(Event) /\ freeIds \in Seq(Nat)
      BY DEF Init
    <2>2. due \in [handler : Nat, period : Int, next : Nat, adds : Nat, size : Nat]
      BY DEF Init, Due0
    <2>3. /\ timeEvents \in SUBSET TimeEvent /\ removed \in SUBSET Nat
          /\ stop \in BOOLEAN /\ asleep \in BOOLEAN /\ disturbed \in BOOLEAN
      BY DEF Init
    <2>4. /\ pc = "test" /\ dtor = "none" /\ deadline = Forever
          /\ now \in Nat /\ current \in Nat /\ adds \in Nat /\ called \in Nat
      BY DEF Init
    <2> QED BY <2>1, <2>2, <2>3, <2>4 DEF TypeOK
  <1>2. IdsInUseOnce
    BY DEF Init, IdsInUseOnce
  <1> QED BY <1>1, <1>2
          DEF Init, IInv, NoOversleep, StopIsNotLost, SlotOfCall, DisturbedByGrowthOrReuse, InUse

(* An operation keeps the slot of the timer taken out as it should be. *)
LEMMA OperationKeepsSlot ==
    ASSUME IInv, PoolTypeOK', SlotsKept, pc = "call" \/ InUse,
           UNCHANGED <<current, called, due>>
    PROVE  /\ current \in Ids'
           /\ due.adds <= adds' /\ due.size <= Len(events')
           /\ OwnOrNewer(Ev(current).handler)'
           /\ due.period > 0 /\ due.handler \notin removed' => Ev(current).valid'
           /\ OwnOrNewer(called) => OwnOrNewer(called)'
  <1>1. /\ current \in 0 .. Len(events) - 1 /\ current + 1 \in 1 .. Len(events)
        /\ due.adds \in Nat /\ due.size \in Nat /\ due.period \in Int
        /\ due.adds <= adds /\ due.size <= Len(events)
        /\ Len(events) \in Nat /\ Len(events') \in Nat /\ adds \in Nat /\ adds' \in Nat
    BY DEF IInv, TypeOK, PoolTypeOK, SlotOfCall, Ids
  <1> DEFINE old == events[current + 1]
             new == events'[current + 1]
             gone == due.period <= 0 \/ due.handler \in removed'
  <1>2. /\ old.handler # due.handler =>
               /\ old.handler \in due.adds + 1 .. adds
               /\ due.period <= 0 \/ due.handler \in removed
        /\ due.period > 0 /\ due.handler \notin removed => old.valid
    BY DEF IInv, SlotOfCall, OwnOrNewer, Ev
  <1>3. /\ Len(events) <= Len(events') /\ adds <= adds' /\ removed \subseteq removed'
        /\ old.valid => /\ new.handler = old.handler
                        /\ new.valid \/ old.handler \in removed'
        /\ new.handler = old.handler \/ new.handler \in adds + 1 .. adds'
    BY <1>1 DEF SlotsKept
  <1>4. ~gone => old.valid /\ new.handler = old.handler /\ old.handler = due.handler /\ new.valid
    BY <1>1, <1>2, <1>3
  <1>5. new.handler # due.handler => new.handler \in due.adds + 1 .. adds'
    BY <1>1, <1>2, <1>3
  <1>6. OwnOrNewer(Ev(current).handler)'
    <2>1. new.handler # due.handler => gone
      BY <1>4
    <2> QED BY <1>5, <2>1 DEF OwnOrNewer, Ev
  <1>7. OwnOrNewer(called) => OwnOrNewer(called)'
    BY <1>1, <1>3 DEF OwnOrNewer
  <1>8. due.period > 0 /\ due.handler \notin removed' => Ev(current).valid'
    BY <1>1, <1>4 DEF Ev
  <1> QED BY <1>1, <1>3, <1>6, <1>7, <1>8 DEF Ids

(* What a call of the timer keeps, whoever makes it. *)
LEMMA OperationStep ==
    ASSUME IInv, Operation,
           UNCHANGED <<stop, now, deadline, current, called, dtor, due>>,
           pc' = pc \/ (pc = "reenter" /\ pc' = "running")
    PROVE  IInv'
  <1>1. PoolTypeOK' /\ IdsInUseOnce' /\ SlotsKept
    BY OperationKeepsPool DEF IInv, TypeOK, PoolTypeOK
  <1>2. asleep' \in BOOLEAN
    BY OperationWakes DEF IInv, TypeOK
  <1>3. TypeOK'
    BY <1>1, <1>2 DEF IInv, TypeOK, PoolTypeOK
  <1>4. NoOversleep'
    BY OperationWakes DEF IInv, NoOversleep
  <1>5. (pc' = "call" <=> pc = "call") /\ (InUse' <=> InUse) /\ (pc' = "crashed" <=> pc = "crashed")
    BY DEF InUse
  <1>6. SlotOfCall'
    <2>1. disturbed' => disturbed \/ InUse
      BY <1>1 DEF SlotsKept
    <2>2. disturbed' => InUse' \/ pc' = "crashed"
      BY <1>5, <2>1 DEF IInv, SlotOfCall
    <2>3. CASE pc = "call" \/ InUse
      <3>1. /\ current \in Ids'
            /\ due.adds <= adds' /\ due.size <= Len(events')
            /\ OwnOrNewer(Ev(current).handler)'
            /\ due.period > 0 /\ due.handler \notin removed' => Ev(current).valid'
            /\ OwnOrNewer(called) => OwnOrNewer(called)'
        BY <1>1, <2>3, OperationKeepsSlot
      <3>2. InUse => OwnOrNewer(called)
        BY DEF IInv, SlotOfCall
      <3> QED BY <1>5, <2>2, <3>1, <3>2 DEF SlotOfCall
    <2> QED BY <1>5, <2>2, <2>3 DEF SlotOfCall
  <1>7. DisturbedByGrowthOrReuse'
    <2> SUFFICES ASSUME InUse, disturbed', due.period > 0, due.handler \notin removed'
                 PROVE  Len(events') > due.size
      BY <1>3, <1>5 DEF DisturbedByGrowthOrReuse, TypeOK
    <2>1. /\ Len(events) \in Nat /\ Len(events') \in Nat /\ due.size \in Nat
          /\ due.size <= Len(events) /\ Len(events) <= Len(events')
          /\ due.handler \notin removed
      BY <1>1 DEF IInv, TypeOK, PoolTypeOK, SlotsKept, SlotOfCall
    <2>2. Ev(current).valid
      BY <2>1 DEF IInv, SlotOfCall
    <2>3. disturbed => Len(events) > due.size
      BY <2>1 DEF IInv, DisturbedByGrowthOrReuse, TypeOK
    <2>4. disturbed \/ Len(events') > Len(events)
      BY <1>1, <2>2 DEF SlotsKept
    <2> QED BY <2>1, <2>3, <2>4
  <1>8. StopIsNotLost'
    BY <1>1 DEF IInv, StopIsNotLost
  <1> QED BY <1>1, <1>3, <1>4, <1>6, <1>7, <1>8 DEF IInv

(* What a step that does not touch the containers has to show: everything but
   the types of the containers and the use of the ids, which do not change. *)
LEMMA PoolUnchanged ==
    ASSUME IInv, UNCHANGED <<events, timeEvents, freeIds, adds, removed>>,
           disturbed' \in BOOLEAN
    PROVE  PoolTypeOK' /\ IdsInUseOnce' /\ Ids' = Ids
           /\ (\A id : Ev(id)' = Ev(id)) /\ removed' = removed /\ timeEvents' = timeEvents
  BY DEF IInv, TypeOK, PoolTypeOK, IdsInUseOnce, Ids, Ev

(* Outside a call nothing is said of its slot. *)
LEMMA NoCall ==
    ASSUME pc' \in {"test", "lock", "wait", "exited"}, ~disturbed'
    PROVE  SlotOfCall' /\ DisturbedByGrowthOrReuse'
  BY DEF SlotOfCall, DisturbedByGrowthOrReuse, InUse

(* Nor is the function object disturbed outside a call. *)
LEMMA UndisturbedOutside ==
    ASSUME IInv, pc \notin {"calling", "running", "reenter", "crashed"}
    PROVE  ~disturbed
  BY DEF IInv, SlotOfCall, InUse

(* In a call that leaves the containers alone, the handler found remains. *)
LEMMA CallGoesOn ==
    ASSUME IInv, InUse, InUse', UNCHANGED pool, UNCHANGED <<current, due>>,
           called' = called \/ called' = Ev(current).handler
    PROVE  SlotOfCall' /\ DisturbedByGrowthOrReuse'
  <1>1. /\ Ids' = Ids /\ Ev(current)' = Ev(current) /\ adds' = adds /\ removed' = removed
        /\ events' = events /\ due' = due /\ current' = current /\ disturbed' = disturbed
    BY DEF pool, Ids, Ev
  <1>2. OwnOrNewer(called) /\ OwnOrNewer(Ev(current).handler)
    BY DEF IInv, SlotOfCall
  <1>3. OwnOrNewer(called)' /\ OwnOrNewer(Ev(current).handler)'
    BY <1>1, <1>2 DEF OwnOrNewer
  <1>4. SlotOfCall'
    BY <1>1, <1>3 DEF IInv, SlotOfCall
  <1>5. DisturbedByGrowthOrReuse'
    BY <1>1 DEF IInv, DisturbedByGrowthOrReuse
  <1> QED BY <1>4, <1>5

(* Each step of the worker keeps the invariant. *)
LEMMA RunStep ==
    ASSUME IInv, Run
    PROVE  IInv'
  <1> USE DEF IInv
  <1>1. CASE TestStop
    <2>1. UNCHANGED pool /\ UNCHANGED <<now, asleep, deadline, current, called, dtor, due>>
          /\ pc = "test" /\ pc' \in {"lock", "exited"} /\ stop' = TRUE
          /\ (stop => pc' = "lock") /\ (~stop => pc' = "exited")
      BY <1>1 DEF TestStop
    <2> QED BY <2>1, PoolUnchanged, NoCall, UndisturbedOutside
            DEF pool, TypeOK, PoolTypeOK, NoOversleep, StopIsNotLost
  <1>2. CASE WaitForTimer
    <2>1. UNCHANGED pool /\ UNCHANGED <<stop, now, current, called, dtor, due>>
          /\ pc = "lock" /\ pc' = "wait" /\ asleep' = TRUE /\ deadline' = Forever
          /\ timeEvents = {}
      BY <1>2 DEF WaitForTimer, Sleep
    <2> QED BY <2>1, PoolUnchanged, NoCall, UndisturbedOutside
            DEF pool, TypeOK, PoolTypeOK, NoOversleep, StopIsNotLost
  <1>3. CASE WaitUntilNext
    <2>1. PICK te \in timeEvents : Earliest(te) /\ Sleep(te.next)
      BY <1>3 DEF WaitUntilNext
    <2>2. UNCHANGED pool /\ UNCHANGED <<stop, now, current, called, dtor, due>>
          /\ pc = "lock" /\ pc' = "wait" /\ asleep' = TRUE /\ deadline' = te.next
      BY <1>3, <2>1 DEF WaitUntilNext, Sleep
    <2>3. te.next \in Nat /\ te.next # Forever
      BY DEF TypeOK, TimeEvent, Forever
    <2>4. \A x \in timeEvents : te.next <= x.next
      BY <2>1 DEF Earliest
    <2> QED BY <2>2, <2>3, <2>4, PoolUnchanged, NoCall, UndisturbedOutside
            DEF pool, TypeOK, PoolTypeOK, NoOversleep, StopIsNotLost
  <1>4. CASE TakeDue
    <2>1. UNCHANGED <<called, disturbed, stop, now, asleep, deadline, dtor, removed>>
          /\ pc = "lock" /\ pc' = "call"
      BY <1>4 DEF TakeDue
    <2>2. /\ PoolTypeOK' /\ IdsInUseOnce'
          /\ current' \in Nat /\ current' \in Ids'
          /\ due' \in [handler : Nat, period : Int, next : Nat, adds : Nat, size : Nat]
          /\ due'.adds = adds' /\ due'.size = Len(events')
          /\ events'[current' + 1].handler = due'.handler
          /\ due'.period > 0 => events'[current' + 1].valid
      BY <1>4, TakeDueKeepsPool DEF TypeOK, PoolTypeOK
    <2>3. TypeOK'
      BY <2>1, <2>2 DEF TypeOK, PoolTypeOK
    <2>4. ~InUse' /\ ~disturbed'
      BY <2>1, UndisturbedOutside DEF InUse
    <2>5. SlotOfCall'
      <3>1. due'.adds <= adds' /\ due'.size <= Len(events')
        BY <2>2, <2>3 DEF TypeOK
      <3> QED BY <2>2, <2>4, <3>1 DEF SlotOfCall, OwnOrNewer, Ev
    <2> QED BY <2>1, <2>2, <2>3, <2>4, <2>5
            DEF NoOversleep, StopIsNotLost, DisturbedByGrowthOrReuse
  <1>5. CASE FindHandler
    <2>1. UNCHANGED pool /\ UNCHANGED <<stop, now, asleep, deadline, current, dtor, due>>
          /\ pc = "call" /\ pc' = "calling" /\ called' = Ev(current).handler
      BY <1>5 DEF FindHandler
    <2>2. ~disturbed
      BY <2>1, UndisturbedOutside
    <2>3. called' \in Nat
      <3>1. current + 1 \in 1 .. Len(events)
        BY <2>1 DEF SlotOfCall, TypeOK, Ids
      <3>2. events[current + 1] \in Event
        BY <3>1 DEF TypeOK
      <3> QED BY <2>1, <3>2 DEF Ev, Event
    <2>4. /\ Ids' = Ids /\ Ev(current)' = Ev(current) /\ adds' = adds /\ removed' = removed
          /\ events' = events /\ due' = due /\ current' = current /\ disturbed' = disturbed
      BY <2>1 DEF pool, Ids, Ev
    <2>5. OwnOrNewer(Ev(current).handler)
      BY <2>1 DEF SlotOfCall
    <2>6. OwnOrNewer(called)' /\ OwnOrNewer(Ev(current).handler)'
      BY <2>1, <2>4, <2>5 DEF OwnOrNewer
    <2>7. SlotOfCall'
      BY <2>1, <2>2, <2>4, <2>6 DEF SlotOfCall
    <2> QED BY <2>1, <2>2, <2>3, <2>4, <2>7, PoolUnchanged
            DEF pool, TypeOK, PoolTypeOK, NoOversleep, StopIsNotLost, DisturbedByGrowthOrReuse
  <1>6. CASE CallHandler \/ HandlerCallsTimer
    <2>1. /\ UNCHANGED pool
          /\ UNCHANGED <<stop, now, asleep, deadline, current, dtor, due>>
          /\ pc \in {"calling", "running"} /\ pc' \in {"running", "reenter"}
          /\ called' = called \/ called' = Ev(current).handler
      BY <1>6 DEF CallHandler, HandlerCallsTimer
    <2>2. InUse /\ InUse'
      BY <2>1 DEF InUse
    <2>3. SlotOfCall' /\ DisturbedByGrowthOrReuse'
      BY <2>1, <2>2, CallGoesOn
    <2>4. called' \in Nat
      <3>1. current + 1 \in 1 .. Len(events)
        BY <2>2 DEF SlotOfCall, TypeOK, Ids
      <3>2. events[current + 1] \in Event
        BY <3>1 DEF TypeOK
      <3> QED BY <2>1, <3>2 DEF Ev, Event, TypeOK
    <2> QED BY <2>1, <2>3, <2>4, PoolUnchanged
            DEF pool, TypeOK, PoolTypeOK, NoOversleep, StopIsNotLost
  <1>7. CASE HandlerReturns
    <2>1. UNCHANGED <<events, timeEvents, freeIds, adds, removed>>
          /\ UNCHANGED <<stop, now, asleep, deadline, dtor>>
          /\ pc = "running" /\ pc' = "test"
          /\ current' = 0 /\ called' = 0 /\ disturbed' = FALSE /\ due' = Due0
      BY <1>7 DEF HandlerReturns
    <2>2. due' \in [handler : Nat, period : Int, next : Nat, adds : Nat, size : Nat]
      BY <2>1 DEF Due0
    <2> QED BY <2>1, <2>2, PoolUnchanged, NoCall
            DEF TypeOK, PoolTypeOK, NoOversleep, StopIsNotLost
  <1>8. CASE HandlerOperation
    BY <1>8, OperationStep DEF HandlerOperation
  <1>9. CASE WaitTimeout \/ WaitReturns
    <2>1. UNCHANGED pool
          /\ UNCHANGED <<stop, now, current, called, dtor, due>>
          /\ pc = "wait" /\ pc' \in {"wait", "test"} /\ asleep' = FALSE
          /\ deadline' \in {deadline, Forever}
      BY <1>9 DEF WaitTimeout, WaitReturns
    <2> QED BY <2>1, PoolUnchanged, NoCall, UndisturbedOutside
            DEF pool, TypeOK, PoolTypeOK, NoOversleep, StopIsNotLost
  <1> QED BY <1>1, <1>2, <1>3, <1>4, <1>5, <1>6, <1>7, <1>8, <1>9 DEF Run

(* Every step keeps the invariant. *)
LEMMA NextStep ==
    ASSUME IInv, [Next]_vars
    PROVE  IInv'
  <1>1. CASE ClientCall
    BY <1>1, OperationStep DEF ClientCall
  <1>2. CASE Run
    BY <1>2, RunStep
  <1>3. CASE SpuriousWakeup
    <2>1. UNCHANGED pool
          /\ UNCHANGED <<stop, now, pc, deadline, current, called, dtor, due>>
          /\ pc = "wait" /\ asleep' = FALSE
      BY <1>3 DEF SpuriousWakeup
    <2> QED BY <2>1, PoolUnchanged, NoCall, UndisturbedOutside
            DEF pool, IInv, TypeOK, PoolTypeOK, NoOversleep, StopIsNotLost
  <1>4. CASE Crash
    <2>1. UNCHANGED pool /\ UNCHANGED <<stop, now, asleep, deadline, dtor>>
          /\ pc \in {"calling", "running"} /\ pc' = "crashed"
          /\ current' = 0 /\ called' = 0 /\ due' = Due0
      BY <1>4 DEF Crash
    <2>2. due' \in [handler : Nat, period : Int, next : Nat, adds : Nat, size : Nat]
      BY <2>1 DEF Due0
    <2>3. SlotOfCall' /\ DisturbedByGrowthOrReuse'
      BY <2>1 DEF SlotOfCall, DisturbedByGrowthOrReuse, InUse
    <2> QED BY <2>1, <2>2, <2>3, PoolUnchanged
            DEF pool, IInv, TypeOK, PoolTypeOK, NoOversleep, StopIsNotLost
  <1>5. CASE Destroy \/ DestroyLock \/ Tick \/ UNCHANGED vars
    <2>1. UNCHANGED worker /\ UNCHANGED pool
          /\ now' \in Nat /\ dtor' \in {"none", "lock", "join", "done"} /\ stop' \in BOOLEAN
          /\ (dtor' # "none" /\ stop' => dtor # "none" /\ stop)
      <3>1. CASE Destroy
        BY <3>1 DEF Destroy, IInv, TypeOK
      <3>2. CASE DestroyLock
        BY <3>2 DEF DestroyLock, IInv, TypeOK
      <3>3. CASE Tick
        BY <3>3 DEF Tick, IInv, TypeOK
      <3>4. CASE UNCHANGED vars
        BY <3>4 DEF vars, IInv, TypeOK
      <3> QED BY <1>5, <3>1, <3>2, <3>3, <3>4
    <2>2. SlotOfCall' /\ DisturbedByGrowthOrReuse'
      BY <2>1 DEF worker, pool, IInv, SlotOfCall, DisturbedByGrowthOrReuse, InUse, OwnOrNewer,
                  Ids, Ev
    <2> QED BY <2>1, <2>2, PoolUnchanged
            DEF worker, pool, IInv, TypeOK, PoolTypeOK, NoOversleep, StopIsNotLost
  <1>6. CASE DestroyJoin
    <2>1. /\ events' = <<>> /\ timeEvents' = {} /\ freeIds' = <<>>
          /\ pc = "exited" /\ pc' = "exited" /\ asleep' = FALSE /\ dtor' = "done"
          /\ UNCHANGED <<deadline, current, called, due, adds, removed, disturbed, stop, now>>
      BY <1>6 DEF DestroyJoin, NotifyAll
    <2>2. events' \in Seq(Event) /\ freeIds' \in Seq(Nat) /\ Len(freeIds') = 0
      BY <2>1
    <2>3. TypeOK'
      BY <2>1, <2>2 DEF IInv, TypeOK
    <2>4. IdsInUseOnce'
      BY <2>1, <2>2 DEF IdsInUseOnce
    <2> QED BY <2>1, <2>3, <2>4, NoCall, UndisturbedOutside
            DEF IInv, NoOversleep, StopIsNotLost
  <1> QED BY <1>1, <1>2, <1>3, <1>4, <1>5, <1>6 DEF Next, Destructor

LEMMA Invariance == Spec => []IInv
  BY InitIInv, NextStep, PTL DEF Spec

-----------------------------------------------------------------------------
(* The state of the timer keeps its types, whatever clients, handlers, the worker
   and the destructor do (the members of the class, lines 264-270). *)
THEOREM TypeCorrect == Spec => []TypeOK
  BY Invariance, PTL DEF IInv

(* An id is never in use twice: scheduled once at most, never scheduled and free,
   never free twice (Add, Remove and Run, lines 190-262). *)
THEOREM IdsAreInUseOnce == Spec => []IdsInUseOnce
  BY Invariance, PTL DEF IInv

(* The worker never sleeps past the earliest scheduled time (lines 206, 231, 258). *)
THEOREM WorkerNeverOversleeps == Spec => []NoOversleep
  BY Invariance, PTL DEF IInv

(* The flag the destructor clears is read as clear by the test that ends the loop
   and by no other (lines 181, 239). *)
THEOREM StopOrderIsNotLost == Spec => []StopIsNotLost
  BY Invariance, PTL DEF IInv

(* Although it looks the handler up after the unlock, the worker runs another one
   than that of the timer it took out only if an Add called since then registered
   it, and only for a timer that is one-shot or was removed (lines 253-256). *)
THEOREM OnlyReleasedTimersLoseTheirCall == Spec => []CallFindsItsTimer
  <1>1. IInv => CallFindsItsTimer
    BY DEF IInv, SlotOfCall, OwnOrNewer, CallFindsItsTimer
  <1> QED BY <1>1, Invariance, PTL

(* The function object the worker runs without the mutex is moved or overwritten
   only if the pool has grown since the unlock, or for a timer that is one-shot or
   was removed (lines 198, 203, 256). *)
THEOREM OnlyGrowthOrReuseDisturbsACall == Spec => []DisturbedByGrowthOrReuse
  BY Invariance, PTL DEF IInv

(* No step before the end of the destructor gives the slot of a valid timer to
   another one (lines 198, 203). *)
LEMMA SlotStep ==
    ASSUME IInv, [Next]_vars, dtor' # "done", NEW id \in Ids, Ev(id).valid
    PROVE  id + 1 \in DOMAIN events' /\ events'[id + 1].handler = Ev(id).handler
  <1>1. id + 1 \in 1 .. Len(events) /\ events[id + 1].valid /\ Len(events) \in Nat
    BY DEF Ids, Ev, IInv, TypeOK
  <1>2. events' \in Seq(Event)
    BY NextStep DEF IInv, TypeOK
  <1>3. CASE events' = events
    BY <1>1, <1>3 DEF Ev, IInv, TypeOK
  <1>4. CASE ClientCall \/ HandlerOperation
    <2>1. Operation
      BY <1>4 DEF ClientCall, HandlerOperation
    <2>2. SlotsKept
      BY <2>1, OperationKeepsPool DEF IInv, TypeOK, PoolTypeOK
    <2> QED BY <1>1, <1>2, <2>2 DEF SlotsKept, Ev
  <1>5. CASE TakeDue
    <2>1. PICK te \in timeEvents :
              events' = events \/ events' = [events EXCEPT ![te.id + 1].valid = FALSE]
      BY <1>5 DEF TakeDue, Rearm, Release
    <2>2. te.id + 1 \in 1 .. Len(events)
      BY DEF IInv, TypeOK, IdsInUseOnce, Ids, TimeEvent
    <2>3. CASE events' = [events EXCEPT ![te.id + 1].valid = FALSE]
      <3>1. Len(events') = Len(events) /\ events'[id + 1].handler = events[id + 1].handler
        BY <1>1, <2>2, <2>3, InvalidateType, Invalidate DEF IInv, TypeOK
      <3> QED BY <1>1, <1>2, <3>1 DEF Ev
    <2> QED BY <1>3, <2>1, <2>3
  <1> QED BY <1>3, <1>4, <1>5
          DEF Next, Run, Destructor, TestStop, WaitForTimer, WaitUntilNext, Sleep, FindHandler,
              CallHandler, Crash, HandlerReturns, HandlerCallsTimer, WaitTimeout, WaitReturns, SpuriousWakeup,
              Destroy, DestroyLock, DestroyJoin, Tick, vars, pool

THEOREM ValidTimersKeepTheirSlot == Spec => ValidTimerKeepsSlot
  <1>1. IInv /\ [Next]_vars =>
            [\A id \in Ids : Ev(id).valid /\ dtor' # "done" =>
                id + 1 \in DOMAIN events' /\ events'[id + 1].handler = Ev(id).handler]_vars
    BY SlotStep
  <1> QED BY <1>1, Invariance, PTL DEF Spec, ValidTimerKeepsSlot

-----------------------------------------------------------------------------
(* The set is ordered by time alone, so it never holds two entries for one time. *)
DistinctTimes == \A x, y \in timeEvents : x.next = y.next => x = y

LEMMA DistinctTimesStep ==
    ASSUME DistinctTimes, [Next]_vars
    PROVE  DistinctTimes'
  <1>1. ASSUME NEW set, NEW te, \A x, y \in set : x.next = y.next => x = y
        PROVE  \A x, y \in Insert(set, te) : x.next = y.next => x = y
    BY <1>1 DEF Insert
  <1>2. CASE timeEvents' \subseteq timeEvents
    BY <1>2 DEF DistinctTimes
  <1>3. ASSUME NEW when, NEW period, Add(when, period)
        PROVE  DistinctTimes'
    BY <1>1, <1>3 DEF Add, Grow, Reuse, DistinctTimes
  <1>4. CASE TakeDue
    <2>1. PICK te \in timeEvents : Rearm(te) \/ Release(te)
      BY <1>4 DEF TakeDue
    <2>2. CASE Rearm(te)
      <3>1. \A x, y \in timeEvents \ {te} : x.next = y.next => x = y
        BY DEF DistinctTimes
      <3> QED BY <1>1, <2>2, <3>1 DEF Rearm, DistinctTimes
    <2> QED BY <1>2, <2>1, <2>2 DEF Release
  <1> QED BY <1>2, <1>3, <1>4
          DEF Next, ClientCall, Operation, Remove, RemoveRejected, Unschedule, Run, Destructor,
              TestStop, WaitForTimer, WaitUntilNext, Sleep, FindHandler,
              CallHandler, Crash, HandlerReturns, HandlerCallsTimer, HandlerOperation, WaitTimeout, WaitReturns, SpuriousWakeup,
              Destroy, DestroyLock, DestroyJoin, Tick, vars, pool

(* A handler is registered in one slot at most, and a removed one in none that is
   valid: handlers are named by the Adds that registered them. *)
HandlersOnce ==
    /\ removed \subseteq 1 .. adds
    /\ \A k \in 1 .. Len(events) :
            /\ events[k].handler \in 1 .. adds
            /\ events[k].valid => events[k].handler \notin removed
    /\ \A j, k \in 1 .. Len(events) : events[j].handler = events[k].handler => j = k

LEMMA AddKeepsHandlers ==
    ASSUME IInv, HandlersOnce, NEW when \in Nat, NEW period \in Int, Add(when, period)
    PROVE  HandlersOnce'
  <1> DEFINE e == [handler |-> adds + 1, period |-> period, valid |-> TRUE]
  <1>1. /\ adds' = adds + 1 /\ removed' = removed /\ adds \in Nat /\ e \in Event
        /\ e.handler = adds + 1
    BY DEF Add, Event, IInv, TypeOK
  <1> HIDE DEF e
  <1>2. CASE Grow(e, when)
    <2>1. /\ events' = Append(events, e) /\ events \in Seq(Event) /\ Len(events) \in Nat
      BY <1>2 DEF Grow, IInv, TypeOK
    <2>2. /\ Len(events') = Len(events) + 1
          /\ events'[Len(events) + 1] = e
          /\ \A k \in 1 .. Len(events) : events'[k] = events[k]
      BY <1>1, <2>1
    <2> QED BY <1>1, <2>1, <2>2 DEF HandlersOnce
  <1>3. CASE Reuse(e, when)
    <2> DEFINE k0 == Head(freeIds) + 1
    <2>1. /\ events' = [events EXCEPT ![k0] = e] /\ events \in Seq(Event) /\ Len(events) \in Nat
      BY <1>3 DEF Reuse, IInv, TypeOK
    <2>2. k0 \in 1 .. Len(events)
      <3>1. Head(freeIds) = freeIds[1] /\ 1 \in 1 .. Len(freeIds) /\ Head(freeIds) \in Nat
        BY <1>3, Pop DEF Reuse, IInv, TypeOK
      <3> QED BY <3>1 DEF IInv, IdsInUseOnce, Ids, TypeOK
    <2> HIDE DEF k0
    <2>3. /\ Len(events') = Len(events)
          /\ events'[k0] = e
          /\ \A k \in 1 .. Len(events) : k # k0 => events'[k] = events[k]
      BY <1>1, <2>1, <2>2, Overwrite
    <2> QED BY <1>1, <2>1, <2>2, <2>3 DEF HandlersOnce
  <1> QED BY <1>2, <1>3 DEF Add, e

(* Invalidating one slot, and recording it as removed or not, keeps them apart. *)
LEMMA InvalidateKeepsHandlers ==
    ASSUME IInv, HandlersOnce, NEW k0 \in 1 .. Len(events),
           events' = [events EXCEPT ![k0].valid = FALSE], adds' = adds,
           removed' \subseteq removed \union {events[k0].handler}
    PROVE  HandlersOnce'
  <1>1. events \in Seq(Event) /\ events' \in Seq(Event)
    BY InvalidateType DEF IInv, TypeOK
  <1>2. /\ Len(events') = Len(events)
        /\ events'[k0].handler = events[k0].handler
        /\ ~events'[k0].valid
        /\ \A k \in 1 .. Len(events) : k # k0 => events'[k] = events[k]
    BY <1>1, Invalidate
  <1>3. \A k \in 1 .. Len(events) : events'[k].handler = events[k].handler
    BY <1>2
  <1>4. removed' \subseteq 1 .. adds
    BY DEF HandlersOnce
  <1>5. ASSUME NEW k \in 1 .. Len(events), events'[k].valid
        PROVE  events'[k].handler \notin removed'
    <2>1. k # k0 /\ events[k].valid
      BY <1>2, <1>5
    <2>2. events[k].handler \notin removed /\ events[k].handler # events[k0].handler
      BY <2>1 DEF HandlersOnce
    <2> QED BY <1>3, <2>2
  <1> QED BY <1>2, <1>3, <1>4, <1>5 DEF HandlersOnce

LEMMA HandlersOnceStep ==
    ASSUME IInv, HandlersOnce, [Next]_vars
    PROVE  HandlersOnce'
  <1>1. CASE UNCHANGED <<events, adds, removed>>
    BY <1>1 DEF HandlersOnce
  <1>2. ASSUME NEW when \in 0 .. MaxTime, NEW period \in Periods, Add(when, period)
        PROVE  HandlersOnce'
    BY <1>2, AddKeepsHandlers, TimerAssumption
  <1>3. ASSUME NEW id \in 0 .. MaxAdds, Remove(id)
        PROVE  HandlersOnce'
    <2>1. CASE id \notin Ids
      BY <1>1, <1>3, <2>1 DEF Remove
    <2>2. CASE id \in Ids
      <3>1. id + 1 \in 1 .. Len(events)
        BY <2>2 DEF Ids, IInv, TypeOK
      <3>2. /\ events' = [events EXCEPT ![id + 1].valid = FALSE] /\ adds' = adds
            /\ removed' \subseteq removed \union {events[id + 1].handler}
        BY <1>3, <2>2 DEF Remove, Ev
      <3> QED BY <3>1, <3>2, InvalidateKeepsHandlers
    <2> QED BY <2>1, <2>2
  <1>4. CASE TakeDue
    <2>1. PICK te \in timeEvents : Rearm(te) \/ Release(te)
      BY <1>4 DEF TakeDue
    <2>2. adds' = adds /\ removed' = removed
      BY <1>4 DEF TakeDue
    <2>3. te.id + 1 \in 1 .. Len(events)
      BY DEF IInv, TypeOK, IdsInUseOnce, Ids, TimeEvent
    <2>4. CASE Release(te)
      BY <2>2, <2>3, <2>4, InvalidateKeepsHandlers DEF Release
    <2> QED BY <1>1, <2>1, <2>2, <2>4 DEF Rearm
  <1>5. CASE DestroyJoin
    <2>1. events' = <<>> /\ Len(events') = 0 /\ adds' = adds /\ removed' = removed
      BY <1>5 DEF DestroyJoin
    <2> QED BY <2>1 DEF HandlersOnce
  <1>6. CASE HandlerReturns
    BY <1>1, <1>6 DEF HandlerReturns
  <1> QED BY <1>1, <1>2, <1>3, <1>4, <1>5, <1>6
          DEF Next, ClientCall, Operation, RemoveRejected, Run, Destructor,
              TestStop, WaitForTimer, WaitUntilNext, Sleep, FindHandler, CallHandler, Crash,
              HandlerCallsTimer, HandlerOperation, WaitTimeout, WaitReturns, SpuriousWakeup,
              Destroy, DestroyLock, Tick, vars, pool

-----------------------------------------------------------------------------
(* Of entries with different ids, the schedule gives each id its entry's time and
   its slot's handler. *)
LEMMA ScheduleOf ==
    ASSUME NEW S \in SUBSET TimeEvent, \A x, y \in S : x.id = y.id => x = y,
           NEW evs \in Seq(Event), \A te \in S : te.id + 1 \in 1 .. Len(evs),
           NEW f, f = [id \in {te.id : te \in S} |->
                          [time |-> (CHOOSE te \in S : te.id = id).next,
                           handler |-> evs[id + 1].handler]]
    PROVE  /\ DOMAIN f = {te.id : te \in S}
           /\ \A te \in S : /\ te.id \in DOMAIN f
                            /\ f[te.id] = [time |-> te.next, handler |-> evs[te.id + 1].handler]
           /\ f \in [{te.id : te \in S} -> Clock!Alarm]
  <1>1. \A te \in S : (CHOOSE x \in S : x.id = te.id) = te
    OBVIOUS
  <1>2. \A te \in S : /\ te.id \in DOMAIN f
                      /\ f[te.id] = [time |-> te.next, handler |-> evs[te.id + 1].handler]
    BY <1>1
  <1>3. \A i \in {te.id : te \in S} : f[i] \in Clock!Alarm
    <2> TAKE i \in {te.id : te \in S}
    <2>0. PICK te \in S : i = te.id
      OBVIOUS
    <2>1. te.next \in Nat
      BY DEF TimeEvent
    <2>2. evs[te.id + 1] \in Event
      OBVIOUS
    <2>3. evs[te.id + 1].handler \in Nat
      BY <2>2 DEF Event
    <2>4. f[i] = [time |-> te.next, handler |-> evs[te.id + 1].handler]
      BY <1>2, <2>0
    <2> QED BY <2>1, <2>3, <2>4 DEF Clock!Alarm
  <1>4. f \in [{te.id : te \in S} -> Clock!Alarm]
    BY <1>3
  <1> QED BY <1>2, <1>4

(* The alarm of an entry. *)
AlarmOf(te) == [time |-> te.next, handler |-> Ev(te.id).handler]

LEMMA ScheduleIs ==
    ASSUME IInv
    PROVE  /\ DOMAIN Schedule = ArmedIds
           /\ \A te \in timeEvents :
                  /\ te.id \in ArmedIds
                  /\ Schedule[te.id] = AlarmOf(te)
                  /\ Schedule[te.id].time = te.next
                  /\ Schedule[te.id].handler = Ev(te.id).handler
           /\ Schedule \in [ArmedIds -> Clock!Alarm]
  <1>1. events \in Seq(Event) /\ \A te \in timeEvents : te.id + 1 \in 1 .. Len(events)
    BY DEF IInv, TypeOK, IdsInUseOnce, Ids, TimeEvent
  <1> QED BY <1>1, ScheduleOf DEF IInv, TypeOK, IdsInUseOnce, Schedule, ArmedIds, AlarmOf, Ev

LEMMA NextScheduleIs ==
    ASSUME IInv'
    PROVE  /\ DOMAIN Schedule' = ArmedIds'
           /\ \A te \in timeEvents' :
                  /\ te.id \in ArmedIds'
                  /\ Schedule'[te.id] = [time |-> te.next, handler |-> events'[te.id + 1].handler]
                  /\ Schedule'[te.id].time = te.next
                  /\ Schedule'[te.id].handler = events'[te.id + 1].handler
           /\ Schedule' \in [ArmedIds' -> Clock!Alarm]
  <1>1. events' \in Seq(Event) /\ \A te \in timeEvents' : te.id + 1 \in 1 .. Len(events')
    BY DEF IInv, TypeOK, IdsInUseOnce, Ids, TimeEvent
  <1> QED BY <1>1, ScheduleOf DEF IInv, TypeOK, IdsInUseOnce, Schedule, ArmedIds, Ev

(* A scheduled timer's slot keeps its handler when the timer is called, and when
   the worker takes an entry out. *)
LEMMA HandlersStay ==
    ASSUME IInv, Operation \/ TakeDue
    PROVE  \A te \in timeEvents : events'[te.id + 1].handler = Ev(te.id).handler
  <1>1. \A te \in timeEvents : te.id + 1 \in 1 .. Len(events) /\ events[te.id + 1].valid
    BY DEF IInv, TypeOK, IdsInUseOnce, Ids, Ev, TimeEvent
  <1>2. CASE Operation
    <2>1. SlotsKept
      BY <1>2, OperationKeepsPool DEF IInv, TypeOK, PoolTypeOK
    <2> QED BY <1>1, <2>1 DEF SlotsKept, Ev
  <1>3. CASE TakeDue
    <2>1. PICK x \in timeEvents :
              events' = events \/ events' = [events EXCEPT ![x.id + 1].valid = FALSE]
      BY <1>3 DEF TakeDue, Rearm, Release
    <2>2. CASE events' = [events EXCEPT ![x.id + 1].valid = FALSE]
      <3>1. /\ events'[x.id + 1].handler = events[x.id + 1].handler
            /\ \A k \in 1 .. Len(events) : k # x.id + 1 => events'[k] = events[k]
        BY <1>1, <2>2, InvalidateType, Invalidate DEF IInv, TypeOK
      <3>2. \A k \in 1 .. Len(events) : events'[k].handler = events[k].handler
        BY <3>1
      <3> QED BY <1>1, <3>2 DEF Ev
    <2> QED BY <1>1, <2>1, <2>2 DEF Ev
  <1> QED BY <1>2, <1>3

(* Entries that stay keep their alarms. *)
LEMMA Keeping ==
    ASSUME IInv, IInv', Operation \/ TakeDue,
           NEW T \in SUBSET timeEvents, T \subseteq timeEvents'
    PROVE  Clock!Keeps({te.id : te \in T})
  <1> SUFFICES ASSUME NEW te \in T
               PROVE  te.id \in DOMAIN Schedule' /\ Schedule'[te.id] = Schedule[te.id]
    BY DEF Clock!Keeps
  <1>1. te \in timeEvents /\ te \in timeEvents'
    OBVIOUS
  <1>2. Schedule[te.id] = [time |-> te.next, handler |-> Ev(te.id).handler]
    BY <1>1, ScheduleIs DEF AlarmOf
  <1>3. /\ te.id \in DOMAIN Schedule'
        /\ Schedule'[te.id] = [time |-> te.next, handler |-> events'[te.id + 1].handler]
    BY <1>1, NextScheduleIs
  <1>4. events'[te.id + 1].handler = Ev(te.id).handler
    BY <1>1, HandlersStay
  <1> QED BY <1>2, <1>3, <1>4

LEMMA SameSchedule ==
    ASSUME IInv, IInv', Operation \/ TakeDue, timeEvents' = timeEvents
    PROVE  Schedule' = Schedule
  <1>1. ArmedIds' = ArmedIds
    BY DEF ArmedIds
  <1>2. \A te \in timeEvents : Schedule'[te.id] = Schedule[te.id]
    <2> TAKE te \in timeEvents
    <2>1. Schedule[te.id] = [time |-> te.next, handler |-> Ev(te.id).handler]
      BY ScheduleIs DEF AlarmOf
    <2>2. Schedule'[te.id] = [time |-> te.next, handler |-> events'[te.id + 1].handler]
      BY NextScheduleIs
    <2>3. events'[te.id + 1].handler = Ev(te.id).handler
      BY HandlersStay
    <2> QED BY <2>1, <2>2, <2>3
  <1>3. \A i \in ArmedIds : Schedule'[i] = Schedule[i]
    BY <1>2 DEF ArmedIds
  <1> QED BY <1>1, <1>3, ScheduleIs, NextScheduleIs

LEMMA DistinctAlarms ==
    ASSUME IInv', DistinctTimes'
    PROVE  Clock!Distinct(Schedule')
  <1> SUFFICES ASSUME NEW i \in ArmedIds', NEW j \in ArmedIds',
                      Schedule'[i].time = Schedule'[j].time
               PROVE  i = j
    BY NextScheduleIs DEF Clock!Distinct
  <1>1. PICK x \in timeEvents' : x.id = i
    BY DEF ArmedIds
  <1>2. PICK y \in timeEvents' : y.id = j
    BY DEF ArmedIds
  <1>3. x.next = y.next
    BY <1>1, <1>2, NextScheduleIs
  <1> QED BY <1>1, <1>2, <1>3 DEF DistinctTimes

-----------------------------------------------------------------------------
(* Add sets the alarm of the id it takes, unless there is one for that time. *)
LEMMA AddSets ==
    ASSUME IInv, IInv', HandlersOnce, DistinctTimes', Ringing' = Ringing, Operation,
           NEW when \in Nat, NEW period \in Int, Add(when, period)
    PROVE  \/ Schedule' = Schedule /\ removed' = removed
           \/ \E i \in DOMAIN Schedule' : Clock!Set(i)
  <1> DEFINE e == [handler |-> adds + 1, period |-> period, valid |-> TRUE]
  <1>1. removed' = removed /\ e.handler = adds + 1 /\ e \in Event /\ adds + 1 \notin removed
    BY DEF Add, HandlersOnce, IInv, TypeOK, Event
  <1> HIDE DEF e
  <1>2. PICK te : /\ te.id \in Nat
                  /\ te.id \notin ArmedIds
                  /\ timeEvents' = Insert(timeEvents, te)
                  /\ events'[te.id + 1] = e
    <2>1. CASE Grow(e, when)
      <3> DEFINE te == [next |-> when, id |-> Len(events)]
      <3>1. Len(events) \in Nat /\ Len(events) \notin Ids /\ events \in Seq(Event)
        <4>1. events \in Seq(Event)
          BY DEF IInv, TypeOK
        <4>2. Len(events) \in Nat
          BY <4>1
        <4> QED BY <4>1, <4>2 DEF Ids
      <3>2. te.id \in Nat /\ te.id \notin ArmedIds
        BY <3>1 DEF IInv, IdsInUseOnce, ArmedIds
      <3>3. timeEvents' = Insert(timeEvents, te)
        BY <2>1 DEF Grow
      <3>4. events' = Append(events, e) /\ te.id = Len(events)
        BY <2>1 DEF Grow
      <3> HIDE DEF te
      <3>5. events'[te.id + 1] = e
        BY <1>1, <3>1, <3>4
      <3> QED BY <3>2, <3>3, <3>5
    <2>2. CASE Reuse(e, when)
      <3> DEFINE te == [next |-> when, id |-> Head(freeIds)]
      <3>1. /\ Head(freeIds) = freeIds[1] /\ Head(freeIds) \in Nat
            /\ 1 \in 1 .. Len(freeIds)
        BY <2>2, Pop DEF Reuse, IInv, TypeOK
      <3>2. te.id \in Nat /\ te.id \notin ArmedIds
        BY <3>1 DEF IInv, IdsInUseOnce, ArmedIds
      <3>3. te.id + 1 \in 1 .. Len(events)
        <4>1. Head(freeIds) \in 0 .. Len(events) - 1
          BY <3>1 DEF IInv, IdsInUseOnce, Ids
        <4>2. Len(events) \in Nat
          BY DEF IInv, TypeOK
        <4> QED BY <4>1, <4>2
      <3>4. timeEvents' = Insert(timeEvents, te) /\ events' = [events EXCEPT ![te.id + 1] = e]
        BY <2>2 DEF Reuse
      <3> HIDE DEF te
      <3>5. events'[te.id + 1] = e
        <4>1. events \in Seq(Event)
          BY DEF IInv, TypeOK
        <4>2. te.id + 1 \in DOMAIN events
          BY <3>3, <4>1
        <4> QED BY <3>4, <4>2
      <3> QED BY <3>2, <3>4, <3>5
    <2> QED BY <2>1, <2>2 DEF Add, e
  <1>3. CASE timeEvents' = timeEvents
    BY <1>1, <1>3, SameSchedule
  <1>4. CASE timeEvents' = timeEvents \union {te}
    <2>1. te \in timeEvents' /\ te.id \in DOMAIN Schedule'
      BY <1>4, NextScheduleIs
    <2>2. ArmedIds' = ArmedIds \union {te.id}
      BY <1>4 DEF ArmedIds
    <2>3. Clock!Keeps(ArmedIds)
      BY <1>4, Keeping DEF ArmedIds
    <2>4. Schedule'[te.id].handler \notin removed
      BY <1>1, <1>2, <2>1, NextScheduleIs
    <2>5. Clock!Set(te.id)
      BY <1>1, <1>2, <2>2, <2>3, <2>4, ScheduleIs, NextScheduleIs, DistinctAlarms DEF Clock!Set
    <2> QED BY <2>1, <2>5
  <1> QED BY <1>2, <1>3, <1>4, InsertIs

(* Taking out the one entry of an id leaves the ids of the others. *)
LEMMA WithoutEntry ==
    ASSUME IInv, NEW te \in timeEvents
    PROVE  {x.id : x \in timeEvents \ {te}} = ArmedIds \ {te.id}
  BY DEF IInv, IdsInUseOnce, ArmedIds

(* Remove cancels the alarm of its id, or a timer that has none, or nothing. *)
LEMMA RemoveCancels ==
    ASSUME IInv, IInv', HandlersOnce, Ringing' = Ringing, Operation,
           NEW id \in Nat, Remove(id)
    PROVE  \/ Schedule' = Schedule /\ removed' = removed
           \/ \E i \in DOMAIN Schedule : Clock!Cancel(i)
           \/ Clock!CancelWithoutAlarm
  <1>1. CASE id \notin ArmedIds
    <2>1. Schedule' = Schedule
      BY <1>1, SameSchedule DEF Remove, Unschedule, ArmedIds
    <2>2. CASE removed' # removed
      <3> DEFINE h == events[id + 1].handler
      <3>1. id \in Ids /\ removed' = removed \union {h} /\ h \in removed'
        BY <2>2 DEF Remove, Ev
      <3>2. \A i \in ArmedIds : Schedule[i].handler # h
        <4> TAKE i \in ArmedIds
        <4>1. PICK te \in timeEvents : te.id = i
          BY DEF ArmedIds
        <4>2. i # id /\ Schedule[i].handler = events[i + 1].handler
          BY <1>1, <4>1, ScheduleIs DEF Ev
        <4>3. i \in 0 .. Len(events) - 1 /\ id \in 0 .. Len(events) - 1
          BY <3>1, <4>1 DEF IInv, IdsInUseOnce, Ids
        <4>4. Len(events) \in Nat
          BY DEF IInv, TypeOK
        <4>5. /\ i + 1 \in 1 .. Len(events) /\ id + 1 \in 1 .. Len(events)
              /\ i + 1 # id + 1
          BY <4>2, <4>3, <4>4
        <4> QED BY <4>2, <4>5 DEF HandlersOnce
      <3> HIDE DEF h
      <3> QED BY <2>1, <3>1, <3>2, ScheduleIs DEF Clock!CancelWithoutAlarm
    <2> QED BY <2>1, <2>2
  <1>2. CASE id \in ArmedIds
    <2>1. PICK te \in timeEvents : te.id = id /\ timeEvents' = timeEvents \ {te}
      BY <1>2 DEF Remove, Unschedule
    <2>2. ArmedIds' = ArmedIds \ {te.id}
      BY <2>1, WithoutEntry DEF ArmedIds
    <2>3. Clock!Keeps(ArmedIds \ {te.id})
      <3>1. Clock!Keeps({x.id : x \in timeEvents \ {te}})
        BY <2>1, Keeping
      <3> QED BY <3>1, WithoutEntry
    <2>4. /\ id \in Ids /\ Ev(id).valid /\ id + 1 \in 1 .. Len(events)
          /\ Schedule[te.id].handler = Ev(id).handler
      <3>1. id \in Ids /\ Ev(id).valid
        BY <2>1 DEF IInv, IdsInUseOnce
      <3>2. Len(events) \in Nat
        BY DEF IInv, TypeOK
      <3> QED BY <2>1, <3>1, <3>2, ScheduleIs DEF Ids
    <2>5. Ev(id).handler \notin removed /\ removed' = removed \union {Ev(id).handler}
      BY <2>4 DEF HandlersOnce, Remove, Ev
    <2>6. Clock!Cancel(te.id) /\ te.id \in DOMAIN Schedule
      BY <2>2, <2>3, <2>4, <2>5, ScheduleIs, NextScheduleIs DEF Clock!Cancel
    <2> QED BY <2>6
  <1> QED BY <1>1, <1>2

(* The worker rings the earliest alarm, when its time has come. *)
LEMMA TakeDueRings ==
    ASSUME IInv, IInv', HandlersOnce, DistinctTimes', TakeDue
    PROVE  \E i \in DOMAIN Schedule : Clock!Ring(i)
  <1>1. PICK te \in timeEvents :
            /\ Earliest(te) /\ Due(te)
            /\ \/ Ev(te.id).period > 0 /\ Rearm(te)
               \/ Release(te)
            /\ due'.next = te.next /\ due'.handler = Ev(te.id).handler
    BY DEF TakeDue
  <1>2. /\ te.id \in DOMAIN Schedule
        /\ Schedule[te.id] = AlarmOf(te)
        /\ te.next \in Nat
    BY ScheduleIs DEF IInv, TypeOK, TimeEvent
  <1>3. Schedule[te.id].time <= now
    BY <1>1, <1>2 DEF Due, IInv, TypeOK, AlarmOf
  <1>4. \A j \in DOMAIN Schedule : Schedule[te.id].time <= Schedule[j].time
    <2> TAKE j \in DOMAIN Schedule
    <2>1. PICK x \in timeEvents : x.id = j
      BY ScheduleIs DEF ArmedIds
    <2>2. Schedule[j].time = x.next /\ Schedule[te.id].time = te.next /\ te.next <= x.next
      BY <1>1, <2>1, ScheduleIs DEF Earliest
    <2> QED BY <2>2
  <1>5. timeEvents \ {te} \subseteq timeEvents'
    BY <1>1 DEF Rearm, Release, Insert
  <1>6. Clock!Keeps(ArmedIds \ {te.id})
    <2>1. Clock!Keeps({x.id : x \in timeEvents \ {te}})
      BY <1>5, Keeping
    <2> QED BY <2>1, WithoutEntry
  <1>7. \/ Schedule' \in [ArmedIds \ {te.id} -> Clock!Alarm]
        \/ /\ Schedule' \in [ArmedIds -> Clock!Alarm]
           /\ Schedule'[te.id].time > Schedule[te.id].time
           /\ Schedule'[te.id].handler = Schedule[te.id].handler
    <2>1. CASE timeEvents' = timeEvents \ {te}
      <3>1. ArmedIds' = ArmedIds \ {te.id}
        BY <2>1, WithoutEntry DEF ArmedIds
      <3> QED BY <3>1, NextScheduleIs
    <2>2. CASE timeEvents' # timeEvents \ {te}
      <3> DEFINE later == [te EXCEPT !.next = @ + Ev(te.id).period]
      <3>1. Ev(te.id).period > 0 /\ timeEvents' = (timeEvents \ {te}) \union {later}
        BY <1>1, <2>2, InsertIs DEF Rearm, Release
      <3>2. te \in TimeEvent /\ Ev(te.id) \in Event
        <4>1. te.id \in 0 .. Len(events) - 1 /\ te \in TimeEvent /\ te.id \in Nat
          BY DEF IInv, TypeOK, IdsInUseOnce, Ids, TimeEvent
        <4>2. events \in Seq(Event)
          BY DEF IInv, TypeOK
        <4> QED BY <4>1, <4>2 DEF Ev
      <3>3. later.id = te.id /\ later.next > te.next
        BY <3>1, <3>2 DEF TimeEvent, Event
      <3>4. later \in timeEvents'
        BY <3>1
      <3>5. ArmedIds' = ArmedIds
        <4> HIDE DEF later
        <4>1. ArmedIds' = {x.id : x \in timeEvents \ {te}} \union {later.id}
          BY <3>1 DEF ArmedIds
        <4> QED BY <1>2, <3>3, <4>1, WithoutEntry, ScheduleIs
      <3>6. Schedule'[te.id] = [time |-> later.next, handler |-> events'[te.id + 1].handler]
        <4> HIDE DEF later
        <4> QED BY <3>3, <3>4, NextScheduleIs
      <3>7. events'[te.id + 1].handler = Ev(te.id).handler
        BY HandlersStay
      <3> HIDE DEF later
      <3> QED BY <1>2, <3>3, <3>5, <3>6, <3>7, NextScheduleIs DEF AlarmOf
    <2> QED BY <2>1, <2>2
  <1>8. Clock!Distinct(Schedule')
    BY DistinctAlarms
  <1>9. DOMAIN Schedule = ArmedIds
    BY ScheduleIs
  <1>10. Ringing = {} /\ Ringing' = {Schedule[te.id]} /\ removed' = removed
    BY <1>1, <1>2 DEF TakeDue, Ringing, InUse, AlarmOf
  <1>11. Schedule[te.id].handler \notin removed
    <2>1. te.id \in Ids /\ Ev(te.id).valid /\ Schedule[te.id].handler = Ev(te.id).handler
      BY ScheduleIs DEF IInv, IdsInUseOnce
    <2>2. te.id + 1 \in 1 .. Len(events)
      <3>1. Len(events) \in Nat
        BY DEF IInv, TypeOK
      <3> QED BY <2>1, <3>1 DEF Ids
    <2> QED BY <2>1, <2>2 DEF HandlersOnce, Ev
  <1>12. Clock!Ring(te.id)
    BY <1>3, <1>4, <1>6, <1>7, <1>8, <1>9, <1>10, <1>11 DEF Clock!Ring
  <1> QED BY <1>2, <1>12

-----------------------------------------------------------------------------
(* A step of the timer is a step of the clock, or leaves it alone. *)
LEMMA ClockStep ==
    ASSUME IInv, IInv', HandlersOnce, DistinctTimes', [Next]_vars
    PROVE  [Clock!Next]_Clock!vars
  <1> SUFFICES ASSUME ~UNCHANGED <<Schedule, Ringing, removed, now>>
               PROVE  Clock!Next
    BY DEF Clock!vars
  <1>1. ASSUME UNCHANGED <<events, timeEvents, removed>>
        PROVE  UNCHANGED <<Schedule, removed>>
    BY <1>1 DEF Schedule, ArmedIds, Ev
  <1>2. CASE ClientCall \/ HandlerOperation
    <2>1. now' = now /\ Operation /\ Ringing' = Ringing
      BY <1>2 DEF ClientCall, HandlerOperation, Ringing, InUse
    <2>2. ASSUME NEW when \in 0 .. MaxTime, NEW period \in Periods, Add(when, period)
          PROVE  Clock!Next
      BY <2>1, <2>2, AddSets, TimerAssumption DEF Clock!Next
    <2>3. ASSUME NEW id \in 0 .. MaxAdds, Remove(id)
          PROVE  Clock!Next
      BY <2>1, <2>3, RemoveCancels, TimerAssumption DEF Clock!Next
    <2>4. ASSUME NEW id \in 0 .. MaxAdds, RemoveRejected(id)
          PROVE  Clock!Next
      BY <1>1, <2>1, <2>4 DEF RemoveRejected, pool
    <2> QED BY <2>1, <2>2, <2>3, <2>4 DEF Operation
  <1>3. CASE TakeDue
    <2>1. now' = now
      BY <1>3 DEF TakeDue
    <2> QED BY <1>3, <2>1, TakeDueRings DEF Clock!Next
  <1>4. CASE DestroyJoin
    <2>1. now' = now /\ timeEvents' = {} /\ removed' = removed /\ pc = "exited" /\ pc' = pc
      BY <1>4 DEF DestroyJoin
    <2>2. ArmedIds' = {}
      BY <2>1 DEF ArmedIds
    <2>3. Schedule' = [i \in {} |-> 0]
      BY <2>2 DEF Schedule
    <2>4. Ringing = {} /\ Ringing' = {}
      BY <2>1 DEF Ringing, InUse
    <2> QED BY <2>1, <2>3, <2>4 DEF Clock!Next, Clock!ShutDown
  <1>5. CASE Tick
    <2>1. now' = now + 1 /\ UNCHANGED pool /\ UNCHANGED worker
      BY <1>5 DEF Tick
    <2>2. UNCHANGED <<Schedule, removed>> /\ Ringing' = Ringing
      BY <1>1, <2>1 DEF pool, worker, Ringing, InUse
    <2> QED BY <2>1, <2>2 DEF Clock!Next, Clock!Tick
  <1>6. CASE HandlerReturns \/ Crash
    <2>1. /\ now' = now /\ UNCHANGED <<events, timeEvents, removed>>
          /\ pc \in {"calling", "running"} /\ pc' \in {"test", "crashed"}
      BY <1>6 DEF HandlerReturns, Crash, pool
    <2>2. Ringing # {} /\ Ringing' = {}
      BY <2>1 DEF Ringing, InUse
    <2> QED BY <1>1, <2>1, <2>2 DEF Clock!Next, Clock!Silence
  <1>7. CASE FindHandler \/ CallHandler \/ HandlerCallsTimer
    <2>1. /\ now' = now /\ UNCHANGED pool /\ due' = due
          /\ pc \in {"call", "calling", "running"} /\ pc' \in {"calling", "running", "reenter"}
      BY <1>7 DEF FindHandler, CallHandler, HandlerCallsTimer
    <2>2. Ringing' = Ringing
      BY <2>1 DEF Ringing, InUse
    <2> QED BY <1>1, <2>1, <2>2 DEF pool
  <1>8. CASE \/ TestStop \/ WaitForTimer \/ WaitUntilNext \/ WaitTimeout \/ WaitReturns
             \/ SpuriousWakeup
    <2>1. /\ now' = now /\ UNCHANGED pool
          /\ pc \in {"test", "lock", "wait"} /\ pc' \in {"test", "lock", "wait", "exited"}
      BY <1>8 DEF TestStop, WaitForTimer, WaitUntilNext, Sleep, WaitTimeout, WaitReturns,
                  SpuriousWakeup
    <2>2. Ringing' = Ringing
      BY <2>1 DEF Ringing, InUse
    <2> QED BY <1>1, <2>1, <2>2 DEF pool
  <1>9. CASE Destroy \/ DestroyLock \/ UNCHANGED vars
    <2>1. now' = now /\ UNCHANGED pool /\ UNCHANGED worker
      BY <1>9 DEF Destroy, DestroyLock, vars
    <2>2. Ringing' = Ringing
      BY <2>1 DEF worker, Ringing, InUse
    <2> QED BY <1>1, <2>1, <2>2 DEF pool
  <1> QED BY <1>2, <1>3, <1>4, <1>5, <1>6, <1>7, <1>8, <1>9 DEF Next, Run, Destructor

(* The timer is an alarm clock, and what it lets be observed, which timer is
   ringing and which were removed, is what an alarm clock does: none rings early,
   before one due earlier, after it was removed or while another is ringing, and
   none is lost from the schedule but by ringing, by Remove or with the timer (Add,
   Remove, Run and the destructor, lines 179-262). *)
THEOREM TimerImplementsAlarmClock == Spec => AlarmClockSpec
  <1>1. Init => Clock!Init /\ DistinctTimes /\ HandlersOnce
    BY DEF Init, Clock!Init, Schedule, Ringing, InUse, ArmedIds, DistinctTimes, HandlersOnce
  <1>2. DistinctTimes /\ [Next]_vars => DistinctTimes'
    BY DistinctTimesStep
  <1>3. IInv /\ HandlersOnce /\ [Next]_vars => HandlersOnce'
    BY HandlersOnceStep
  <1>4. IInv /\ IInv' /\ HandlersOnce /\ DistinctTimes' /\ [Next]_vars
            => [Clock!Next]_Clock!vars
    BY ClockStep
  <1> QED BY <1>1, <1>2, <1>3, <1>4, Invariance, PTL DEF Spec, AlarmClockSpec, Clock!Spec
=============================================================================
