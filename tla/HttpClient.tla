----------------------------- MODULE HttpClient -----------------------------
(***************************************************************************)
(* JQNet::HTTP of src/cpp/JQHttpServer/library: requests made from one     *)
(* thread, in which all their events are handled.  get, deleteResource,    *)
(* post, put and patch differ in the manager's function they call; each of *)
(* them comes as a blocking member, a static function that makes its own   *)
(* object for one blocking call, and a member that reports to callbacks.   *)
(*                                                                         *)
(* A blocking call runs an event loop on its stack, in which the events of *)
(* all other calls are handled as well, and whose handlers may call again: *)
(* blocking calls nest.  The handlers of a call refer to the stack frame   *)
(* of a blocking call and stay connected when it has returned; isCalled is *)
(* all that keeps them from using it then.                                 *)
(***************************************************************************)
EXTENDS Integers, Sequences

CONSTANTS  (* the calls the thread makes *)
    MemberCalls,    \* blocking, on the application's object
    StaticCalls,    \* blocking, on an object of their own
    CallbackCalls   \* on the application's object, reporting to callbacks

Blocking == MemberCalls \union StaticCalls
Calls    == Blocking \union CallbackCalls

ASSUME CallsAssumption ==
    /\ MemberCalls \cap StaticCalls = {}
    /\ Blocking \cap CallbackCalls = {}

VARIABLES
    reply,     \* each call's QNetworkReply: "none" before the call, "failed" after
               \* error, "over" when it has finished or is deleted
    timer,     \* its timer runs
    isCalled,  \* the flag its three handlers share
    code,      \* what exit was called with, of its event loop
    failFlag,  \* set by its timeout
    result,    \* what it returned, a blocking one
    stack,     \* the blocking calls under way, the innermost first
    http,      \* the object the members are called on is there
    quit,      \* the thread has been told to leave its event loops
    answers,   \* history: the callbacks of each call, in their order
    cut        \* history: the blocking calls the order to quit came over

connections == <<reply, timer>>
frames      == <<code, failFlag, result, stack>>
handled     == <<isCalled, answers>>
vars        == <<connections, handled, frames, http, quit, cut>>

Outcomes == {"finished", "error", "timeout"}
NoCode   == -2
InStack(c) == \E k \in 1 .. Len(stack) : stack[k] = c

Init ==
    /\ reply = [c \in Calls |-> "none"]
    /\ timer = [c \in Calls |-> FALSE]
    /\ isCalled = [c \in Calls |-> FALSE]
    /\ code = [c \in Calls |-> NoCode]
    /\ failFlag = [c \in Calls |-> FALSE]
    /\ result = [c \in Calls |-> "none"]
    /\ stack = <<>>
    /\ http = TRUE
    /\ quit = FALSE
    /\ answers = [c \in Calls |-> <<>>]
    /\ cut = {}

-----------------------------------------------------------------------------
(* The calls.  A request and its handlers, with a timer if there is a timeout. *)
Request(c, timed) ==
    /\ reply[c] = "none"
    /\ c \notin StaticCalls => http
    /\ timer' = [timer EXCEPT ![c] = timed]

(* A blocking call enters its event loop. *)
CallBlocking(c, timed) ==
    /\ ~quit
    /\ Request(c, timed)
    /\ reply' = [reply EXCEPT ![c] = "pending"]
    /\ stack' = <<c>> \o stack
    /\ UNCHANGED <<handled, code, failFlag, result, http, quit, cut>>

(* In a thread that was told to quit exec does not wait: it returns -1, and the
   call returns true. *)
CallAfterQuit(c, timed) ==
    /\ quit
    /\ Request(c, timed)
    /\ reply' = [reply EXCEPT ![c] = IF c \in StaticCalls THEN "over" ELSE "pending"]
    /\ result' = [result EXCEPT ![c] = "true"]
    /\ cut' = cut \union {c}
    /\ UNCHANGED <<handled, code, failFlag, stack, http, quit>>

CallWithCallbacks(c, timed) ==
    /\ Request(c, timed)
    /\ reply' = [reply EXCEPT ![c] = "pending"]
    /\ UNCHANGED <<handled, frames, http, quit, cut>>

(* Mutant: whichever call is answered returns, those inside it or not. *)
ReturnAnswered(c) ==
    /\ InStack(c)
    /\ code[c] # NoCode
    /\ stack' = Tail(stack)
    /\ result' = [result EXCEPT ![c] = IF code[c] # 0 /\ ~failFlag[c] THEN "true" ELSE "false"]
    /\ reply' = IF c \in StaticCalls THEN [reply EXCEPT ![c] = "over"] ELSE reply
    /\ UNCHANGED <<timer, handled, code, failFlag, http, quit, cut>>

(* exec returns when exit was called, and no sooner than the loops inside it.  A
   static call takes its object along, and with the object the reply. *)
Return(c) ==
    /\ stack # <<>> /\ c = Head(stack)
    /\ code[c] # NoCode
    /\ stack' = Tail(stack)
    /\ result' = [result EXCEPT ![c] = IF code[c] # 0 /\ ~failFlag[c] THEN "true" ELSE "false"]
    /\ reply' = IF c \in StaticCalls THEN [reply EXCEPT ![c] = "over"] ELSE reply
    /\ UNCHANGED <<timer, handled, code, failFlag, http, quit, cut>>

-----------------------------------------------------------------------------
(* The handlers, in whichever event loop the thread is; the application's own
   one runs until it is told to quit. *)
InLoop == stack # <<>> \/ ~quit

(* Mutant: no handler looks whether another one has been called. *)
AnswerUntested(c, outcome, exitCode) ==
    /\ InLoop
    /\ isCalled' = [isCalled EXCEPT ![c] = TRUE]
    /\ answers' = [answers EXCEPT ![c] = Append(@, outcome)]
    /\ code' = IF c \in Blocking THEN [code EXCEPT ![c] = exitCode] ELSE code
    /\ timer' = [timer EXCEPT ![c] = FALSE]
    /\ UNCHANGED <<result, stack, http, quit, cut>>

(* Mutant: a timeout is not marked in isCalled. *)
AnswerUnmarked(c, outcome, exitCode) ==
    /\ InLoop
    /\ ~isCalled[c]
    /\ isCalled' = [isCalled EXCEPT ![c] = (outcome # "timeout")]
    /\ answers' = [answers EXCEPT ![c] = Append(@, outcome)]
    /\ code' = IF c \in Blocking THEN [code EXCEPT ![c] = exitCode] ELSE code
    /\ timer' = [timer EXCEPT ![c] = FALSE]
    /\ UNCHANGED <<result, stack, http, quit, cut>>

(* Mutant: the event loop does not exit at a timeout. *)
AnswerStays(c, outcome, exitCode) ==
    /\ InLoop
    /\ ~isCalled[c]
    /\ isCalled' = [isCalled EXCEPT ![c] = TRUE]
    /\ answers' = [answers EXCEPT ![c] = Append(@, outcome)]
    /\ code' = IF c \in Blocking /\ outcome # "timeout" THEN [code EXCEPT ![c] = exitCode] ELSE code
    /\ timer' = [timer EXCEPT ![c] = FALSE]
    /\ UNCHANGED <<result, stack, http, quit, cut>>

(* What a handler does first: nothing, if another one has been called.  The
   callback of a blocking call makes its event loop exit.  The timer's deletion is
   posted: should it run out before that, it does nothing either. *)
Answer(c, outcome, exitCode) ==
    /\ InLoop
    /\ ~isCalled[c]
    /\ isCalled' = [isCalled EXCEPT ![c] = TRUE]
    /\ answers' = [answers EXCEPT ![c] = Append(@, outcome)]
    /\ code' = IF c \in Blocking THEN [code EXCEPT ![c] = exitCode] ELSE code
    /\ timer' = [timer EXCEPT ![c] = FALSE]
    /\ UNCHANGED <<result, stack, http, quit, cut>>

(* Mutant: the callback for errors exits as the one for success does. *)
ErrorSucceeds(c) ==
    /\ reply[c] = "pending"
    /\ reply' = [reply EXCEPT ![c] = "failed"]
    /\ Answer(c, "error", 1)
    /\ UNCHANGED failFlag

Error(c) ==
    /\ reply[c] = "pending"
    /\ reply' = [reply EXCEPT ![c] = "failed"]
    /\ Answer(c, "error", 0)
    /\ UNCHANGED failFlag

Finished(c) ==
    /\ reply[c] \in {"pending", "failed"}
    /\ reply' = [reply EXCEPT ![c] = "over"]
    /\ Answer(c, "finished", 1)
    /\ UNCHANGED failFlag

(* error or finished of a reply whose call has been answered. *)
Late(c) ==
    /\ InLoop /\ isCalled[c]
    /\ \/ reply[c] = "pending" /\ reply' = [reply EXCEPT ![c] = "failed"]
       \/ reply[c] \in {"pending", "failed"} /\ reply' = [reply EXCEPT ![c] = "over"]
    /\ UNCHANGED <<timer, handled, frames, http, quit, cut>>

(* The reply is neither aborted nor deleted. *)
Timeout(c) ==
    /\ timer[c]
    /\ Answer(c, "timeout", 0)
    /\ failFlag' = IF c \in Blocking THEN [failFlag EXCEPT ![c] = TRUE] ELSE failFlag
    /\ UNCHANGED reply

-----------------------------------------------------------------------------
(* What the application does besides. *)

(* Mutant: the timers are destroyed with the object. *)
DestroyTimers ==
    /\ http
    /\ \A c \in MemberCalls : ~InStack(c)
    /\ http' = FALSE
    /\ reply' = [c \in Calls |->
                    IF c \notin StaticCalls /\ reply[c] # "none" THEN "over" ELSE reply[c]]
    /\ timer' = [c \in Calls |-> c \in StaticCalls /\ timer[c]]
    /\ UNCHANGED <<handled, frames, quit, cut>>

(* The object is destroyed, with its manager and the replies, not the timers. *)
Destroy ==
    /\ http
    /\ \A c \in MemberCalls : ~InStack(c)
    /\ http' = FALSE
    /\ reply' = [c \in Calls |->
                    IF c \notin StaticCalls /\ reply[c] # "none" THEN "over" ELSE reply[c]]
    /\ UNCHANGED <<timer, handled, frames, quit, cut>>

(* QCoreApplication::exit: every event loop of the thread is told to return. *)
Quit(n) ==
    /\ ~quit
    /\ quit' = TRUE
    /\ code' = [c \in Calls |-> IF InStack(c) THEN n ELSE code[c]]
    /\ cut' = {c \in Calls : InStack(c)}
    /\ UNCHANGED <<connections, handled, failFlag, result, stack, http>>

Next ==
    \/ \E timed \in BOOLEAN :
          \/ \E c \in Blocking : CallBlocking(c, timed) \/ CallAfterQuit(c, timed)
          \/ \E c \in CallbackCalls : CallWithCallbacks(c, timed)
    \/ \E c \in Calls : Return(c) \/ Error(c) \/ Finished(c) \/ Late(c) \/ Timeout(c)
    \/ Destroy
    \/ \E n \in {0, 1} : Quit(n)

(* Timers run out and event loops return; an answer need not come. *)
Spec ==
    /\ Init /\ [][Next]_vars
    /\ \A c \in Calls : WF_vars(Return(c)) /\ WF_vars(Timeout(c))

-----------------------------------------------------------------------------
(* Type invariant; the calls on the stack are those that wait. *)
TypeOK ==
    /\ reply \in [Calls -> {"none", "pending", "failed", "over"}]
    /\ timer \in [Calls -> BOOLEAN]
    /\ isCalled \in [Calls -> BOOLEAN]
    /\ code \in [Calls -> {NoCode, 0, 1}]
    /\ failFlag \in [Calls -> BOOLEAN]
    /\ result \in [Calls -> {"none", "true", "false"}]
    /\ stack \in Seq(Blocking)
    /\ http \in BOOLEAN /\ quit \in BOOLEAN
    /\ answers \in [Calls -> Seq(Outcomes)]
    /\ cut \in SUBSET Calls
    /\ \A c \in Blocking : InStack(c) <=> reply[c] # "none" /\ result[c] = "none"
    /\ \A j, k \in 1 .. Len(stack) : stack[j] = stack[k] => j = k

(* Safety: of a reply's error, its finished that follows, and the timer that
   races both, one reaches the caller and the others do nothing. *)
AnsweredOnce == \A c \in Calls : Len(answers[c]) <= 1

(* Safety: however calls nest and whatever is handled in whose event loop, a
   blocking call returns true if and only if its own reply finished, unless the
   thread was told to quit meanwhile. *)
ResultIsAnswer ==
    \A c \in Calls :
        result[c] # "none" /\ c \notin cut =>
            (result[c] = "true" <=> answers[c] = <<"finished">>)

(* Safety: the handlers of a blocking call that has returned never use its frame
   again, although its reply may still finish and its timer run out. *)
FrameIsLeftAlone ==
    \A c \in Calls : result[c] # "none" /\ c \notin cut => isCalled[c]

(* Liveness: a blocking call returns; only one without a timeout and without an
   answer, itself or one nested in it, can keep it for ever. *)
CallsReturn ==
    \A c \in Blocking :
        InStack(c) ~> \/ ~InStack(c)
                      \/ \E d \in Blocking : InStack(d) /\ ~timer[d] /\ ~isCalled[d]

(* Liveness: a call with a timeout hears of its end, even if the object it was
   made on is destroyed: its timer does not belong to that. *)
CallbacksCome ==
    \A c \in CallbackCalls : timer[c] ~> answers[c] # <<>> \/ quit
=============================================================================
