----------------------------- MODULE AlarmClock -----------------------------
(***************************************************************************)
(* What a timer service promises about its schedule, without saying how it *)
(* keeps it.  An id carries at most one alarm and no two alarms are set    *)
(* for the same time.  What can be observed from outside is which alarm is *)
(* ringing and which handlers have been cancelled; an alarm goes only by   *)
(* ringing, by being cancelled, or with the whole service.  It rings no    *)
(* earlier than its time, never before one that was due earlier, and never *)
(* once it is cancelled; alarms ring one after the other.                  *)
(***************************************************************************)
EXTENDS Integers

VARIABLES
    alarm,      \* the alarm of each id that has one: its time and whom it calls
    ringing,    \* the alarm that is ringing, if any
    cancelled,  \* the handlers whose timer was cancelled
    now         \* the time

vars == <<alarm, ringing, cancelled, now>>

Alarm == [time : Nat, handler : Nat]

Init ==
    /\ alarm = [i \in {} |-> 0]
    /\ ringing = {}
    /\ cancelled = {}
    /\ now = 0

(* The alarms of the ids in S stay as they are. *)
Keeps(S) == \A i \in S : i \in DOMAIN alarm' /\ alarm'[i] = alarm[i]

(* Alarms are set for different times. *)
Distinct(f) == \A i, j \in DOMAIN f : f[i].time = f[j].time => i = j

Set(i) ==
    /\ i \notin DOMAIN alarm
    /\ alarm' \in [DOMAIN alarm \union {i} -> Alarm]
    /\ alarm'[i].handler \notin cancelled
    /\ Keeps(DOMAIN alarm)
    /\ Distinct(alarm')
    /\ UNCHANGED <<ringing, cancelled>>

Cancel(i) ==
    /\ alarm[i].handler \notin cancelled
    /\ alarm' \in [DOMAIN alarm \ {i} -> Alarm]
    /\ Keeps(DOMAIN alarm \ {i})
    /\ cancelled' = cancelled \union {alarm[i].handler}
    /\ UNCHANGED ringing

(* A timer may be cancelled that has no alarm: it never had one, or is over. *)
CancelWithoutAlarm ==
    /\ \E h \in cancelled' :
        /\ cancelled' = cancelled \union {h}
        /\ \A i \in DOMAIN alarm : alarm[i].handler # h
    /\ UNCHANGED <<alarm, ringing>>

(* Alarm i rings; it may be set again, for a later time. *)
Ring(i) ==
    /\ ringing = {}
    /\ alarm[i].time <= now
    /\ alarm[i].handler \notin cancelled
    /\ \A j \in DOMAIN alarm : alarm[i].time <= alarm[j].time
    /\ ringing' = {alarm[i]}
    /\ Keeps(DOMAIN alarm \ {i})
    /\ \/ alarm' \in [DOMAIN alarm \ {i} -> Alarm]
       \/ /\ alarm' \in [DOMAIN alarm -> Alarm]
          /\ alarm'[i].time > alarm[i].time
          /\ alarm'[i].handler = alarm[i].handler
          /\ Distinct(alarm')
    /\ UNCHANGED cancelled

Silence ==
    /\ ringing # {}
    /\ ringing' = {}
    /\ UNCHANGED <<alarm, cancelled>>

(* The service goes away with all its alarms, and not while one is ringing. *)
ShutDown ==
    /\ ringing = {}
    /\ alarm' = [i \in {} |-> 0]
    /\ UNCHANGED <<ringing, cancelled>>

Tick ==
    /\ now' = now + 1
    /\ UNCHANGED <<alarm, ringing, cancelled>>

Next ==
    \/ /\ \/ \E i \in DOMAIN alarm' : Set(i)
          \/ \E i \in DOMAIN alarm : Cancel(i) \/ Ring(i)
          \/ CancelWithoutAlarm
          \/ Silence
          \/ ShutDown
       /\ UNCHANGED now
    \/ Tick

Spec == Init /\ [][Next]_vars
=============================================================================
