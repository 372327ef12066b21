----------------------------- MODULE HttpServer -----------------------------
(***************************************************************************)
(* JQHttpServer::AbstractManage with TcpServerManage, LocalServerManage or *)
(* SslServerManage, in src/cpp/JQHttpServer/library.  They start and stop  *)
(* in the same way; the last one reads files when it listens, and a        *)
(* connection becomes a session only when its TLS handshake is over.       *)
(*                                                                         *)
(* The owner's thread calls listen and the destructor.  The one thread of  *)
(* serverThreadPool_ makes the server, tells the owner so by a semaphore   *)
(* on the owner's stack and runs an event loop, in which connections       *)
(* become sessions and sessions hand requests to the threads of            *)
(* handleThreadPool_.  What a session does in between is in HttpSession;   *)
(* here it lives as SessionLife says.                                      *)
(***************************************************************************)
EXTENDS Integers, FiniteSets

CONSTANTS Ssl,         (* the manager is a SslServerManage               *)
          Sessions,    (* the connections clients may make               *)
          MaxThreads,  (* handleMaxThreadCount                           *)
          MaxListens,  (* bound: calls of listen                         *)
          MaxAccepts   (* bound: requests a session hands to handlers    *)

ASSUME HttpServerAssumption ==
    /\ Ssl \in BOOLEAN
    /\ MaxThreads \in Nat \ {0}
    /\ MaxListens \in Nat
    /\ MaxAccepts \in Nat

VARIABLES
    main,       \* the owner's thread: where it is in listen or the destructor
    result,     \* what the last listen came to
    permits,    \* the semaphore of the listen that waits
    listens,    \* calls of listen that have posted a job
    jobs,       \* jobs that wait in serverThreadPool_
    thread,     \* the server's thread: where it is in its job
    job,        \* the call of listen whose job it runs
    server,     \* tcpServer_ is there: isRunning()
    quit,       \* readyToClose has been posted to the event loop
    session,    \* the sessions
    available,  \* availableSessions_
    queued,     \* handlers that wait in handleThreadPool_
    running,    \* handlers that run in it
    accepts     \* history: how often a session handed over its request

owner    == <<main, result, permits, listens>>
sessions == <<session, available>>
handlers == <<queued, running, accepts>>
vars     == <<owner, jobs, thread, job, server, quit, sessions, handlers>>

Init ==
    /\ main = "idle" /\ result = "none"
    /\ permits = 0 /\ listens = 0
    /\ jobs = 0 /\ thread = "none" /\ job = 0
    /\ server = FALSE /\ quit = FALSE
    /\ session = [s \in Sessions |-> "none"]
    /\ available = {}
    /\ queued = 0 /\ running = 0
    /\ accepts = [s \in Sessions |-> 0]

-----------------------------------------------------------------------------
(* The owner's thread.  begin: a server that runs is not started again. *)
ListenAgain ==
    /\ main = "idle" /\ server
    /\ result' = "already"
    /\ UNCHANGED <<main, permits, listens, jobs, thread, job, server, quit, sessions, handlers>>

(* A certificate or its key cannot be read, whether the server runs or not. *)
ListenUnreadable ==
    /\ main = "idle" /\ Ssl
    /\ result' = "unreadable"
    /\ UNCHANGED <<main, permits, listens, jobs, thread, job, server, quit, sessions, handlers>>

(* begin and startServerThread up to acquire: a new semaphore, and a job. *)
Listen ==
    /\ main = "idle" /\ ~server
    /\ listens < MaxListens
    /\ listens' = listens + 1
    /\ jobs' = jobs + 1
    /\ permits' = 0
    /\ main' = "waiting"
    /\ UNCHANGED <<result, thread, job, server, quit, sessions, handlers>>

(* acquire returns; the answer is isRunning(), and the semaphore is gone. *)
Acquire ==
    /\ main = "waiting" /\ permits > 0
    /\ permits' = 0
    /\ result' = IF server THEN "started" ELSE "failed"
    /\ main' = "idle"
    /\ UNCHANGED <<listens, jobs, thread, job, server, quit, sessions, handlers>>

(* Mutant: close does not look whether the server runs. *)
DestroyUnchecked ==
    /\ main = "idle"
    /\ quit' = (thread # "none")
    /\ main' = IF thread # "none" THEN "closing" ELSE "handlers"
    /\ UNCHANGED <<result, permits, listens, jobs, thread, job, server, sessions, handlers>>

(* Mutant: close does not wait for the server's thread. *)
DestroyUnwaited ==
    /\ main = "idle"
    /\ quit' = server
    /\ main' = "handlers"
    /\ UNCHANGED <<result, permits, listens, jobs, thread, job, server, sessions, handlers>>

(* Mutant: close waits for the server's thread without telling it to end. *)
DestroyUntold ==
    /\ main = "idle"
    /\ main' = IF server /\ thread # "none" THEN "closing" ELSE "handlers"
    /\ UNCHANGED <<result, permits, listens, jobs, thread, job, server, quit, sessions, handlers>>

(* The destructor of the class that was made, with close, up to waitForDone. *)
Destroy ==
    /\ main = "idle"
    /\ quit' = server
    /\ main' = IF server /\ thread # "none" THEN "closing" ELSE "handlers"
    /\ UNCHANGED <<result, permits, listens, jobs, thread, job, server, sessions, handlers>>

(* Mutant: the end of the thread deletes the sessions that are open, too. *)
BuryAll(dead) ==
    /\ session' = [s \in Sessions |-> IF s \in dead \/ (main = "closing" /\ session[s] = "open")
                                       THEN "deleted" ELSE session[s]]
    /\ available' = available \ dead

(* Sessions whose deletion is posted; a deletion takes a session out of the set. *)
Doomed == {s \in Sessions : session[s] = "ending"}
Bury(dead) ==
    /\ session' = [s \in Sessions |-> IF s \in dead THEN "deleted" ELSE session[s]]
    /\ available' = available \ dead

(* waitForDone ends the pool's thread, and a thread that ends carries out the
   deletions still posted to it. *)
ServerThreadDone ==
    /\ main = "closing"
    /\ thread = "none" /\ jobs = 0
    /\ Bury(Doomed)
    /\ main' = "handlers"
    /\ UNCHANGED <<result, permits, listens, jobs, thread, job, server, quit, handlers>>

(* The destructor of AbstractManage: stopHandleThread. *)
HandlersDone ==
    /\ main = "handlers"
    /\ queued = 0 /\ running = 0
    /\ main' = "members"
    /\ UNCHANGED <<result, permits, listens, jobs, thread, job, server, quit, sessions, handlers>>

(* The members are destroyed; the destructor of a pool waits for its jobs. *)
MembersDone ==
    /\ main = "members"
    /\ thread = "none" /\ jobs = 0
    /\ main' = "gone"
    /\ UNCHANGED <<result, permits, listens, jobs, thread, job, server, quit, sessions, handlers>>

Owner == Acquire \/ ServerThreadDone \/ HandlersDone \/ MembersDone

-----------------------------------------------------------------------------
(* The server's thread, the only one of its pool.  Its event loop is connected
   to readyToClose before anything else. *)

(* Mutant: the owner is told before the server is there. *)
TakeJobEarly ==
    /\ thread = "none" /\ jobs > 0
    /\ jobs' = jobs - 1
    /\ job' = listens - jobs'
    /\ thread' = "start"
    /\ quit' = FALSE
    /\ permits' = permits + 1
    /\ UNCHANGED <<main, result, listens, server, sessions, handlers>>

TakeJob ==
    /\ thread = "none" /\ jobs > 0
    /\ jobs' = jobs - 1
    /\ job' = listens - jobs'
    /\ thread' = "start"
    /\ quit' = FALSE
    /\ UNCHANGED <<owner, server, sessions, handlers>>

OnStart ==
    /\ thread = "start"
    /\ server' = TRUE
    /\ thread' = "started"
    /\ UNCHANGED <<owner, jobs, job, quit, sessions, handlers>>

(* The address cannot be listened to: the server is deleted again, and there is
   a release for that. *)
OnStartFails ==
    /\ thread = "start"
    /\ permits' = permits + 1
    /\ thread' = "started"
    /\ UNCHANGED <<main, result, listens, jobs, job, server, quit, sessions, handlers>>

(* Mutant: nobody is told that the server is there. *)
StartedUntold ==
    /\ thread = "started"
    /\ thread' = "loop"
    /\ UNCHANGED <<owner, jobs, job, server, quit, sessions, handlers>>

(* Mutant: the semaphore is released for a failure and a success. *)
StartedTwice ==
    /\ thread = "started"
    /\ main = "waiting" /\ permits' = permits + 2
    /\ thread' = "loop"
    /\ UNCHANGED <<main, result, listens, jobs, job, server, quit, sessions, handlers>>

(* The release for every job, and on to the event loop.  After a failure the
   owner may have left listen by now, and then the semaphore of this job is gone:
   the release hits nothing, or the one that has taken its place on the stack. *)
Started ==
    /\ thread = "started"
    /\ \/ main = "waiting" /\ permits' = permits + 1
       \/ (main # "waiting" \/ job # listens) /\ UNCHANGED permits
    /\ thread' = "loop"
    /\ UNCHANGED <<main, result, listens, jobs, job, server, quit, sessions, handlers>>

(* incomingConnection: the TLS handshake begins.  Its socket belongs to nobody,
   and one whose handshake is never over is never deleted. *)
IncomingConnection(s) ==
    /\ thread = "loop" /\ server /\ Ssl
    /\ session[s] = "none"
    /\ session' = [session EXCEPT ![s] = "handshake"]
    /\ UNCHANGED <<owner, jobs, thread, job, server, quit, available, handlers>>

(* newConnection, or encrypted, and newSession. *)
NewSession(s) ==
    /\ thread = "loop"
    /\ IF Ssl THEN session[s] = "handshake" ELSE server /\ session[s] = "none"
    /\ session' = [session EXCEPT ![s] = "open"]
    /\ available' = available \union {s}
    /\ UNCHANGED <<owner, jobs, thread, job, server, quit, handlers>>

(* handleAccepted, from a session that has read its request. *)
HandleAccepted(s) ==
    /\ thread = "loop"
    /\ session[s] \in {"open", "ending"}
    /\ accepts[s] < MaxAccepts
    /\ accepts' = [accepts EXCEPT ![s] = @ + 1]
    /\ queued' = queued + 1
    /\ UNCHANGED <<owner, jobs, thread, job, server, quit, sessions, running>>

(* A session calls deleteLater. *)
SessionEnds(s) ==
    /\ thread = "loop"
    /\ session[s] = "open"
    /\ session' = [session EXCEPT ![s] = "ending"]
    /\ UNCHANGED <<owner, jobs, thread, job, server, quit, available, handlers>>

(* Mutant: a session that is deleted stays in availableSessions_. *)
SessionDeletedKept(s) ==
    /\ thread = "loop"
    /\ session[s] = "ending"
    /\ session' = [session EXCEPT ![s] = "deleted"]
    /\ UNCHANGED <<owner, jobs, thread, job, server, quit, available, handlers>>

(* Its deletion, with the handler of destroyed. *)
SessionDeleted(s) ==
    /\ thread = "loop"
    /\ session[s] = "ending"
    /\ Bury({s})
    /\ UNCHANGED <<owner, jobs, thread, job, server, quit, handlers>>

(* The event loop returns. *)
Quit ==
    /\ thread = "loop" /\ quit
    /\ thread' = "finish"
    /\ UNCHANGED <<owner, jobs, job, server, quit, sessions, handlers>>

(* The server is deleted; the event loop ends with the job. *)
OnFinish ==
    /\ thread = "finish"
    /\ server' = FALSE /\ quit' = FALSE
    /\ thread' = "none"
    /\ UNCHANGED <<owner, jobs, job, sessions, handlers>>

Job == TakeJob \/ OnStart \/ OnStartFails \/ Started \/ Quit \/ OnFinish

-----------------------------------------------------------------------------
(* The threads of handleThreadPool_. *)
TakeHandler ==
    /\ queued > 0 /\ running < MaxThreads
    /\ queued' = queued - 1
    /\ running' = running + 1
    /\ UNCHANGED <<owner, jobs, thread, job, server, quit, sessions, accepts>>

HandlerReturns ==
    /\ running > 0
    /\ running' = running - 1
    /\ UNCHANGED <<owner, jobs, thread, job, server, quit, sessions, queued, accepts>>

Next ==
    \/ ListenAgain \/ ListenUnreadable \/ Listen \/ Destroy \/ Owner
    \/ Job
    \/ \E s \in Sessions :
          \/ IncomingConnection(s) \/ NewSession(s)
          \/ HandleAccepted(s) \/ SessionEnds(s) \/ SessionDeleted(s)
    \/ TakeHandler \/ HandlerReturns

(* Threads make progress, and the callbacks of the handlers return.  The owner
   need not call anything. *)
Spec ==
    /\ Init /\ [][Next]_vars
    /\ WF_vars(Owner) /\ WF_vars(Job)
    /\ WF_vars(TakeHandler) /\ WF_vars(HandlerReturns)

-----------------------------------------------------------------------------
(* The sessions, seen as SessionLife; one that has yet to come counts as open. *)
Life(s) == INSTANCE SessionLife
           WITH life <- IF session[s] \in {"none", "handshake"} THEN "open" ELSE session[s],
                handed <- accepts[s]

(* Refinement: to the server every session is one of SessionLife, which is what
   HttpSession implements; at the end of the server's thread too (lines 839-870). *)
LifeSpecs ==
    /\ \A s \in Sessions : Life(s)!Init
    /\ [][\A s \in Sessions : [Life(s)!Next]_(Life(s)!vars)]_vars

(* Type invariant: the places of the threads, and what they share. *)
TypeOK ==
    /\ main \in {"idle", "waiting", "closing", "handlers", "members", "gone"}
    /\ result \in {"none", "started", "failed", "already", "unreadable"}
    /\ permits \in 0 .. 2
    /\ listens \in Nat /\ jobs \in Nat /\ job \in Nat
    /\ thread \in {"none", "start", "started", "loop", "finish"}
    /\ server \in BOOLEAN /\ quit \in BOOLEAN
    /\ session \in [Sessions -> {"none", "handshake", "open", "ending", "deleted"}]
    /\ available \subseteq Sessions
    /\ queued \in Nat /\ running \in 0 .. MaxThreads
    /\ accepts \in [Sessions -> Nat]

(* Safety: listen tells the truth, and it stays true until the owner does
   something else: the server is there when it says true, and no server comes
   up behind the back of an owner it told false (lines 808-832). *)
ListenTellsTheTruth ==
    main = "idle" =>
        /\ result = "started" => server
        /\ result = "failed" => ~server /\ thread # "start"

(* Safety: onFinish uses tcpServer_ without a test, and has it, although the
   event loop runs after a failed start too (lines 815-826, 928-937). *)
FinishHasServer == thread = "finish" => server

(* Safety: nothing that holds the manager's this is left to run when its members
   are destroyed: no handler and none to come, no server and no session whose
   deletion would call back (lines 770-773, 792-806, 849-854, 877-883). *)
NothingOutlivesManager ==
    main \in {"members", "gone"} =>
        /\ queued = 0 /\ running = 0
        /\ ~server /\ thread # "start"
        /\ Doomed = {}

(* Safety: availableSessions_ holds no pointer to a deleted session, whether it
   was deleted by the event loop or at the end of its thread (lines 848-855). *)
NoDanglingSession == \A s \in available : session[s] # "deleted"

(* Liveness: a first call of listen returns, the start failing or not.  After a
   failed start the pool's only thread is in its event loop for good, and the
   job of another call waits behind it for ever (lines 812-829). *)
ListenReturns == main = "waiting" /\ listens = 1 ~> main # "waiting"

(* Liveness: the destructor of a server that runs ends the server's thread,
   waits for the handlers and returns (lines 770-773, 792-806, 834-842). *)
DestructorReturns == main = "closing" ~> main = "gone"

=============================================================================
