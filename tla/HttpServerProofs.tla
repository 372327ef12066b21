-------------------------- MODULE HttpServerProofs --------------------------
(* What HttpServer promises, for any number of connections, handlers and calls. *)
EXTENDS HttpServer, TLAPS

(* Where the server's thread may be, whether the server is there or not. *)
ThreadInv ==
    /\ server => thread \in {"started", "loop", "finish"} /\ jobs = 0
    /\ thread = "start" => main = "waiting" /\ permits = 0 /\ jobs = 0
    /\ thread = "none" /\ jobs > 0 => main = "waiting" /\ jobs = 1
    /\ thread = "finish" => server /\ main = "closing"

(* A permit is there for an owner that waits, once the start is decided. *)
PermitInv ==
    /\ permits > 0 => main = "waiting" /\ thread \in {"started", "loop"}
    /\ thread = "started" => permits <= 1

(* Only the destructor of a running server asks the event loop to return. *)
QuitInv == quit => server /\ main = "closing"

(* The destructor, from close on: no server starts again. *)
CloseInv ==
    /\ main = "closing" => jobs = 0 /\ (thread = "none" <=> ~server)
    /\ main \in {"handlers", "members", "gone"} => ~server

(* Sessions are there while there is a server, and after it was closed. *)
SessionInv ==
    ~server => \/ \A s \in Sessions : session[s] = "none"
               \/ main = "closing" /\ thread = "none"
               \/ /\ main \in {"handlers", "members", "gone"}
                  /\ thread = "none"
                  /\ \A s \in Sessions : session[s] # "ending"

HandlerInv == main \in {"members", "gone"} => queued = 0 /\ running = 0

IInv ==
    /\ TypeOK /\ ThreadInv /\ PermitInv /\ QuitInv /\ CloseInv /\ SessionInv /\ HandlerInv
    /\ ListenTellsTheTruth /\ NoDanglingSession

-----------------------------------------------------------------------------
LEMMA InitInv == Init => IInv
<1> SUFFICES ASSUME Init PROVE IInv
    OBVIOUS
<1>1. ~server /\ ~quit /\ server \in BOOLEAN /\ quit \in BOOLEAN
    BY Zenon DEF Init
<1>2. TypeOK
    BY <1>1, HttpServerAssumption DEF Init, TypeOK
<1>3. ThreadInv /\ PermitInv /\ QuitInv /\ CloseInv /\ SessionInv /\ HandlerInv
    BY <1>1 DEF Init, ThreadInv, PermitInv, QuitInv, CloseInv, SessionInv, HandlerInv
<1>4. ListenTellsTheTruth /\ NoDanglingSession
    BY <1>1 DEF Init, ListenTellsTheTruth, NoDanglingSession
<1> QED
    BY <1>2, <1>3, <1>4 DEF IInv

(* Every action of the three kinds of thread keeps the invariant. *)
LEMMA NextInv == IInv /\ [Next]_vars => IInv'
<1> SUFFICES ASSUME IInv, [Next]_vars PROVE IInv'
    OBVIOUS
<1> USE HttpServerAssumption
    DEF IInv, TypeOK, ThreadInv, PermitInv, QuitInv, CloseInv, SessionInv, HandlerInv,
        ListenTellsTheTruth, NoDanglingSession, owner, sessions, handlers
<1>1. CASE ListenAgain \/ ListenUnreadable
    BY <1>1 DEF ListenAgain, ListenUnreadable
<1>2. CASE Listen
    BY <1>2 DEF Listen
<1>3. CASE Destroy
    BY <1>3 DEF Destroy
<1>4. CASE Acquire
    BY <1>4 DEF Acquire
<1>5. CASE ServerThreadDone
    BY <1>5 DEF ServerThreadDone, Bury, Doomed
<1>6. CASE HandlersDone
    BY <1>6 DEF HandlersDone
<1>7. CASE MembersDone
    BY <1>7 DEF MembersDone
<1>8. CASE TakeJob
  <2>1. ~quit' /\ quit' \in BOOLEAN
    BY <1>8, Zenon DEF TakeJob
  <2>2. TypeOK' /\ ThreadInv' /\ PermitInv'
    BY <1>8, <2>1 DEF TakeJob
  <2>3. QuitInv' /\ CloseInv' /\ SessionInv' /\ HandlerInv'
    BY <1>8, <2>1 DEF TakeJob
  <2>4. ListenTellsTheTruth' /\ NoDanglingSession'
    BY <1>8, <2>1 DEF TakeJob
  <2> QED
    BY <2>2, <2>3, <2>4
<1>9. CASE OnStart
    BY <1>9 DEF OnStart
<1>10. CASE OnStartFails
    BY <1>10 DEF OnStartFails
<1>11. CASE Started
    BY <1>11 DEF Started
<1>12. CASE Quit
    BY <1>12 DEF Quit
<1>13. CASE OnFinish
  <2>1. ~server' /\ ~quit' /\ server' \in BOOLEAN /\ quit' \in BOOLEAN
    BY <1>13, Zenon DEF OnFinish
  <2>2. TypeOK' /\ ThreadInv' /\ PermitInv'
    BY <1>13, <2>1 DEF OnFinish
  <2>3. QuitInv' /\ CloseInv' /\ SessionInv' /\ HandlerInv'
    BY <1>13, <2>1 DEF OnFinish
  <2>4. ListenTellsTheTruth' /\ NoDanglingSession'
    BY <1>13, <2>1 DEF OnFinish
  <2> QED
    BY <2>2, <2>3, <2>4
<1>14. ASSUME NEW s \in Sessions, IncomingConnection(s) \/ NewSession(s) PROVE IInv'
    BY <1>14 DEF IncomingConnection, NewSession
<1>15. ASSUME NEW s \in Sessions, HandleAccepted(s) PROVE IInv'
    BY <1>15 DEF HandleAccepted
<1>16. ASSUME NEW s \in Sessions, SessionEnds(s) PROVE IInv'
    BY <1>16 DEF SessionEnds
<1>17. ASSUME NEW s \in Sessions, SessionDeleted(s) PROVE IInv'
    BY <1>17 DEF SessionDeleted, Bury
<1>18. CASE TakeHandler
    BY <1>18 DEF TakeHandler
<1>19. CASE HandlerReturns
    BY <1>19 DEF HandlerReturns
<1>20. CASE UNCHANGED vars
    BY <1>20 DEF vars
<1> HIDE DEF IInv
<1> QED
    BY <1>1, <1>2, <1>3, <1>4, <1>5, <1>6, <1>7, <1>8, <1>9, <1>10, <1>11, <1>12, <1>13, <1>14, <1>15, <1>16, <1>17, <1>18, <1>19, <1>20 DEF Next, Owner, Job

LEMMA SpecInv == Spec => []IInv
BY InitInv, NextInv, PTL DEF Spec

-----------------------------------------------------------------------------
(* The threads and what they share keep their types: the semaphore of a listen
   is released twice at most (lines 817-822). *)
THEOREM TypeCorrect == Spec => []TypeOK
<1>1. IInv => TypeOK
    BY DEF IInv
<1> QED
    BY SpecInv, <1>1, PTL

(* What listen returns is so when it returns, and stays so (lines 808-832). *)
THEOREM ListenIsTruthful == Spec => []ListenTellsTheTruth
<1>1. IInv => ListenTellsTheTruth
    BY DEF IInv
<1> QED
    BY SpecInv, <1>1, PTL

(* onFinish never meets a null server (lines 928-937). *)
THEOREM FinishNeverMeetsNull == Spec => []FinishHasServer
<1>1. IInv => FinishHasServer
    BY DEF IInv, ThreadInv, FinishHasServer
<1> QED
    BY SpecInv, <1>1, PTL

(* Nothing runs on a manager whose members are destroyed (lines 770-773, 877-883). *)
THEOREM ManagerIsOutlivedByNothing == Spec => []NothingOutlivesManager
<1>1. IInv => NothingOutlivesManager
    BY DEF IInv, TypeOK, ThreadInv, CloseInv, SessionInv, HandlerInv, NothingOutlivesManager, Doomed
<1> QED
    BY SpecInv, <1>1, PTL

(* The set of sessions holds no pointer to a deleted one (lines 848-855). *)
THEOREM SessionsDoNotDangle == Spec => []NoDanglingSession
<1>1. IInv => NoDanglingSession
    BY DEF IInv
<1> QED
    BY SpecInv, <1>1, PTL

-----------------------------------------------------------------------------
(* One connection's session, by one step of the server. *)
LEMMA LifeStep ==
    ASSUME IInv, [Next]_vars, NEW s \in Sessions
    PROVE  [Life(s)!Next]_(Life(s)!vars)
<1>1. session \in [Sessions -> {"none", "handshake", "open", "ending", "deleted"}]
    BY DEF IInv, TypeOK
<1>2. accepts \in [Sessions -> Nat]
    BY DEF IInv, TypeOK
<1>3. CASE UNCHANGED <<session, accepts>>
    BY <1>3 DEF Life!vars
<1>4. CASE ServerThreadDone
    BY <1>1, <1>2, <1>4
    DEF ServerThreadDone, Bury, Doomed, handlers, Life!Next, Life!Delete, Life!vars
<1>5. ASSUME NEW r \in Sessions, IncomingConnection(r) \/ NewSession(r)
      PROVE  [Life(s)!Next]_(Life(s)!vars)
    BY <1>1, <1>2, <1>5 DEF IncomingConnection, NewSession, handlers, Life!vars
<1>6. ASSUME NEW r \in Sessions, HandleAccepted(r) PROVE [Life(s)!Next]_(Life(s)!vars)
    BY <1>1, <1>2, <1>6 DEF HandleAccepted, sessions, Life!Next, Life!HandOver, Life!vars
<1>7. ASSUME NEW r \in Sessions, SessionEnds(r) PROVE [Life(s)!Next]_(Life(s)!vars)
    BY <1>1, <1>2, <1>7 DEF SessionEnds, handlers, Life!Next, Life!End, Life!vars
<1>8. ASSUME NEW r \in Sessions, SessionDeleted(r) PROVE [Life(s)!Next]_(Life(s)!vars)
    BY <1>1, <1>2, <1>8 DEF SessionDeleted, Bury, handlers, Life!Next, Life!Delete, Life!vars
<1>9. CASE ListenAgain \/ ListenUnreadable \/ Listen \/ Destroy \/ Acquire \/ HandlersDone \/ MembersDone \/ Job
    BY <1>3, <1>9 DEF ListenAgain, ListenUnreadable, Listen, Destroy, Acquire, HandlersDone, MembersDone, Job,
       TakeJob, OnStart, OnStartFails, Started, Quit, OnFinish, sessions, handlers
<1>10. CASE TakeHandler \/ HandlerReturns
    BY <1>3, <1>10 DEF TakeHandler, HandlerReturns, sessions
<1>11. CASE UNCHANGED vars
    BY <1>3, <1>11 DEF vars, sessions, handlers
<1> QED
    BY <1>4, <1>5, <1>6, <1>7, <1>8, <1>9, <1>10, <1>11 DEF Next, Owner

(* Every session lives as SessionLife says, at the end of the thread too (lines 839-870). *)
THEOREM SessionsLive == Spec => LifeSpecs
<1>1. Init => \A s \in Sessions : Life(s)!Init
    BY DEF Init, Life!Init
<1>2. IInv /\ [Next]_vars => [\A s \in Sessions : [Life(s)!Next]_(Life(s)!vars)]_vars
    BY LifeStep
<1> QED
    BY SpecInv, <1>1, <1>2, PTL DEF Spec, LifeSpecs

-----------------------------------------------------------------------------
(* Safety: a destructor that waits for the server's thread has told it to end, and
   the message is not lost: it stays posted until the thread is through, also when
   it was posted before the event loop began (lines 793-806, 808-842). *)
QuitStaysPosted == main = "closing" /\ thread # "none" => quit

(* The thread the destructor waits for returns from its event loop. *)
THEOREM ClosingIsHeard == Spec => []QuitStaysPosted
<1>1. Init => QuitStaysPosted
    BY DEF Init, QuitStaysPosted
<1>2. ASSUME IInv, QuitStaysPosted, [Next]_vars PROVE QuitStaysPosted'
  <2>1. /\ server => jobs = 0
        /\ main = "closing" => jobs = 0
        /\ jobs \in Nat
    BY <1>2 DEF IInv, TypeOK, ThreadInv, CloseInv
  <2>2. CASE Destroy
    BY <1>2, <2>2, Zenon DEF Destroy, IInv, CloseInv, QuitStaysPosted
  <2>3. CASE TakeJob
    BY <2>1, <2>3 DEF TakeJob, owner, QuitStaysPosted
  <2>4. CASE OnFinish
    BY <2>4 DEF OnFinish, QuitStaysPosted
  <2>5. CASE ListenAgain \/ ListenUnreadable \/ Listen \/ Acquire \/ ServerThreadDone \/ HandlersDone \/ MembersDone
    BY <1>2, <2>5 DEF ListenAgain, ListenUnreadable, Listen, Acquire, ServerThreadDone, HandlersDone,
       MembersDone, QuitStaysPosted
  <2>6. CASE OnStart \/ OnStartFails \/ Started \/ Quit
    BY <1>2, <2>6 DEF OnStart, OnStartFails, Started, Quit, owner, IInv, ThreadInv, QuitStaysPosted
  <2>7. ASSUME NEW s \in Sessions,
               IncomingConnection(s) \/ NewSession(s) \/ HandleAccepted(s) \/ SessionEnds(s) \/ SessionDeleted(s)
        PROVE  QuitStaysPosted'
    BY <1>2, <2>7 DEF IncomingConnection, NewSession, HandleAccepted, SessionEnds, SessionDeleted, owner,
       QuitStaysPosted
  <2>8. CASE TakeHandler \/ HandlerReturns \/ UNCHANGED vars
    BY <1>2, <2>8 DEF TakeHandler, HandlerReturns, vars, owner, QuitStaysPosted
  <2> QED
    BY <1>2, <2>2, <2>3, <2>4, <2>5, <2>6, <2>7, <2>8 DEF Next, Owner, Job
<1> QED
    BY SpecInv, <1>1, <1>2, PTL DEF Spec
=============================================================================
