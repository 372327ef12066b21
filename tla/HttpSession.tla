---------------------------- MODULE HttpSession ----------------------------
(***************************************************************************)
(* JQHttpServer::Session of src/cpp/JQHttpServer/library: one connection,  *)
(* from its first byte to the deletion of the session.                     *)
(*                                                                         *)
(* The session lives in the server's thread: it parses what the socket has *)
(* read, one line per action, writes the reply and deletes itself when all *)
(* is written, when the request is bad, or when its 30 seconds are over.   *)
(* Handlers run in other threads; their replies, and deleteLater, are      *)
(* events posted to the server's thread, whose event loop ends when the    *)
(* server is closed.                                                       *)
(*                                                                         *)
(* A line is a sequence of symbols that stand for pieces of its text; the  *)
(* first one says what the line is.  Anything after the head is the body.  *)
(***************************************************************************)
EXTENDS Integers, Sequences, SequencesExt

CONSTANTS Requests,    (* what clients send, and the value of its Content-Length line  *)
          Probe,       (* symbols a session accepts before the first CRLF; 4 bytes     *)
          Chunk,       (* what is read of a file or buffer at a time: 512 KiB          *)
          MaxContent,  (* bound: the size of a file or buffer                          *)
          MaxCalls     (* bound: calls of reply functions by all handlers              *)

Symbols   == {"get", "post", "other", "short", "length", "header", "colon", "plain", "text", "CRLF"}
NoLength  == -1
NoDevice  == -1
Replies   == {"text", "device", "bytes"}

ASSUME HttpSessionAssumption ==
    /\ Requests \subseteq [stream : Seq(Symbols), length : Int]
    /\ Probe \in Nat
    /\ Chunk \in Nat \ {0}
    /\ MaxContent \in Nat
    /\ MaxCalls \in Nat

VARIABLES
    request,        \* what this client sends
    received,       \* how much of it has been read
    session,        \* the Session object: "alive" or "deleted"
    socket,         \* ioDevice_: "open", or "gone" when its owner has deleted it
    pc,             \* where the server's thread is: its event loop, a part of the parser,
                    \* or "ended" when the event loop has returned
    buffer,         \* buffer_
    method,         \* requestMethod_, "none" while it is empty
    headerDone,     \* headerAcceptedFinish_
    contentLength,  \* contentLength_
    body,           \* the size of requestBody_
    timer,          \* timerForClose_: "off" or "on"
    posted,         \* events posted to the session: replies, and "delete"
    alreadyReply,   \* alreadyReply_
    wait,           \* waitWrittenByteCount_
    unsent,         \* written to the socket, not yet reported by bytesWritten
    device,         \* what is left of ioDeviceForReply_, or NoDevice
    accepted,       \* history: how often the request was handed to a handler
    calls,          \* history: calls of reply functions
    replies,        \* history: replies begun on the socket
    reasons         \* history: why the session was told to delete itself

parser == <<buffer, method, headerDone, contentLength, body, accepted>>
reply  == <<alreadyReply, wait, unsent, device, replies>>
vars   == <<request, received, session, socket, pc, parser, timer, posted, reply, calls, reasons>>

-----------------------------------------------------------------------------
(* What a request is, by the bytes alone: the reference the parser is checked
   against.  The head ends with the first empty line after the first one. *)
HeadEnds(s)  == {i \in 2 .. Len(s) - 1 : s[i] = "CRLF" /\ s[i + 1] = "CRLF"}
HeadSize(s)  == 1 + (CHOOSE i \in HeadEnds(s) : \A j \in HeadEnds(s) : i <= j)
BodySize(s)  == Len(s) - HeadSize(s)
LengthLine(s, i) == s[i - 1] = "CRLF" /\ s[i] = "length"
Announced(s) == IF \E i \in 2 .. HeadSize(s) : LengthLine(s, i) THEN request.length ELSE NoLength
Complete(s)  == HeadEnds(s) # {} /\ Announced(s) \in {NoLength, BodySize(s)}

(* Every line of the head is what it should be. *)
WellFormed(s) ==
    /\ HeadEnds(s) # {}
    /\ s[1] \in {"get", "post"}
    /\ \A i \in 2 .. HeadSize(s) - 1 :
          s[i - 1] = "CRLF" => s[i] \in {"length", "header", "CRLF"}

Received == SubSeq(request.stream, 1, received)

-----------------------------------------------------------------------------
Init ==
    /\ request \in Requests
    /\ received = 0
    /\ session = "alive"
    /\ socket = "open"
    /\ pc = "loop"
    /\ buffer = <<>>
    /\ method = "none"
    /\ headerDone = FALSE
    /\ contentLength = NoLength
    /\ body = 0
    /\ timer = "off"
    /\ posted = <<>>
    /\ alreadyReply = FALSE
    /\ wait = 0
    /\ unsent = 0
    /\ device = NoDevice
    /\ accepted = 0
    /\ calls = 0
    /\ replies = 0
    /\ reasons = {}

(* deleteLater, when the events in queue are posted: its event is posted once. *)
DeleteAfter(queue, why) ==
    /\ posted' = IF "delete" \in Range(queue) THEN queue ELSE Append(queue, "delete")
    /\ reasons' = reasons \union {why}

DeleteLater(why) == DeleteAfter(posted, why)

NoDelete == UNCHANGED <<posted, reasons>>

-----------------------------------------------------------------------------
(* readyRead: whatever has arrived goes to the parser. *)
ReadyRead(n) ==
    /\ session = "alive" /\ pc = "loop" /\ socket = "open"
    /\ received + n <= Len(request.stream)
    /\ buffer' = buffer \o SubSeq(request.stream, received + 1, received + n)
    /\ received' = received + n
    /\ pc' = IF headerDone THEN "setup2" ELSE "setup1"
    /\ UNCHANGED <<request, session, socket, method, headerDone, contentLength, body, accepted,
                   timer, posted, reply, calls, reasons>>

(* The parser's frame; when it returns, readyRead starts the timer. *)
Parse ==
    /\ session = "alive"
    /\ UNCHANGED <<request, received, session, socket, reply, calls>>

(* Mutant: the timer is stopped before parsing and not started again. *)
ReturnUntimed == pc' = "loop" /\ timer' = "off"

Return == pc' = "loop" /\ timer' = "on"
Again  == UNCHANGED <<pc, timer>>

(* inspectionBufferSetup1, one round of its loop *)
Eol      == SelectInSeq(buffer, LAMBDA s : s = "CRLF")
HasLine  == Eol > 0
Line     == SubSeq(buffer, 1, Eol - 1)
NextLine == buffer' = SubSeq(buffer, Eol + 1, Len(buffer))

(* The symbols that have a colon in them; "colon" begins with it. *)
Colon == {"length", "header", "colon"}

(* index <= 0: the colon is looked for in the whole buffer, later lines included. *)
NoKey == Range(buffer) \cap Colon = {} \/ buffer[1] = "colon"

Incomplete ==
    /\ pc = "setup1" /\ Parse
    /\ ~HasLine
    /\ \/ method = "none" /\ Len(buffer) > Probe /\ DeleteLater("rejected")
       \/ ~(method = "none" /\ Len(buffer) > Probe) /\ NoDelete
    /\ Return
    /\ UNCHANGED parser

EmptyRequestLine ==
    /\ pc = "setup1" /\ Parse
    /\ Eol = 1 /\ method = "none"
    /\ DeleteLater("rejected")
    /\ Return
    /\ UNCHANGED parser

(* A line that is not of three parts, or names a method that is not supported,
   which is stored all the same. *)
RequestLine ==
    /\ pc = "setup1" /\ Parse
    /\ Eol > 1 /\ method = "none"
    /\ NextLine
    /\ \/ /\ Line[1] \in {"get", "post"}
          /\ method' = Line[1]
          /\ NoDelete /\ Again
       \/ /\ Line[1] = "other"
          /\ method' = "other"
          /\ DeleteLater("rejected") /\ Return
       \/ /\ Line[1] \notin {"get", "post", "other"}
          /\ UNCHANGED method
          /\ DeleteLater("rejected") /\ Return
    /\ UNCHANGED <<headerDone, contentLength, body, accepted>>

(* Mutant: a body that comes with the head is left for the next read. *)
HeaderEndOnly ==
    /\ pc = "setup1" /\ Parse
    /\ Eol = 1 /\ method # "none"
    /\ NextLine
    /\ headerDone' = TRUE
    /\ UNCHANGED <<pc, timer, method, contentLength, body, accepted, posted, reasons>>

(* The empty line: the body begins, unless none of a POST's has arrived yet. *)
HeaderEnd ==
    /\ pc = "setup1" /\ Parse
    /\ Eol = 1 /\ method # "none"
    /\ NextLine
    /\ headerDone' = TRUE
    /\ pc' = IF method = "get" \/ (method = "post" /\ (contentLength > 0 => buffer' # <<>>))
             THEN "setup2" ELSE "setup1"
    /\ UNCHANGED <<timer, method, contentLength, body, accepted, posted, reasons>>

HeaderLine ==
    /\ pc = "setup1" /\ Parse
    /\ Eol > 1 /\ method # "none"
    /\ \/ /\ NoKey
          /\ DeleteLater("rejected") /\ Return
          /\ UNCHANGED <<buffer, contentLength>>
       \/ /\ ~NoKey
          /\ NextLine
          /\ contentLength' = IF Line[1] = "length" THEN request.length ELSE contentLength
          /\ NoDelete /\ Again
    /\ UNCHANGED <<method, headerDone, body, accepted>>

(* Mutant: the size of the body is not compared with its announced length. *)
BodyUnchecked ==
    /\ pc = "setup2" /\ Parse
    /\ body' = body + Len(buffer)
    /\ buffer' = <<>>
    /\ accepted' = accepted + 1
    /\ Return /\ NoDelete
    /\ UNCHANGED <<method, headerDone, contentLength>>

(* Mutant: a body that is longer than announced is taken for complete. *)
BodyAtLeast ==
    /\ pc = "setup2" /\ Parse
    /\ body' = body + Len(buffer)
    /\ buffer' = <<>>
    /\ accepted' = IF body' < contentLength THEN accepted ELSE accepted + 1
    /\ Return /\ NoDelete
    /\ UNCHANGED <<method, headerDone, contentLength>>

(* inspectionBufferSetup2: the body grows; when it has its length, or none was
   announced, the request is handed over.  The loop it is called from finds
   the buffer empty then and returns.  Every session has its callback set, by
   newSession, before it reads. *)
Body ==
    /\ pc = "setup2" /\ Parse
    /\ body' = body + Len(buffer)
    /\ buffer' = <<>>
    /\ accepted' = IF contentLength # NoLength /\ body' # contentLength THEN accepted ELSE accepted + 1
    /\ Return /\ NoDelete
    /\ UNCHANGED <<method, headerDone, contentLength>>

Parser ==
    \/ Incomplete \/ EmptyRequestLine \/ RequestLine \/ HeaderEnd \/ HeaderLine \/ Body

-----------------------------------------------------------------------------
(* The reply functions.  Those with text write it at once; those with a device
   (a file, an image, bytes) write a head and go on in bytesWritten. *)

(* JQHTTPSERVER_SESSION_PROTECTION returns from a session in a state like this. *)
Unusable == contentLength < -1 \/ wait < -1

(* A handler's thread: the call is posted to the server's thread, unless there
   was a reply already, for which replyBytes does not look here. *)
HandlerReplies(kind) ==
    /\ session = "alive"
    /\ accepted > 0 /\ calls < MaxCalls
    /\ calls' = calls + 1
    /\ posted' = IF Unusable \/ (alreadyReply /\ kind # "bytes") THEN posted
                 ELSE Append(posted, kind)
    /\ UNCHANGED <<request, received, session, socket, pc, parser, timer, reply, reasons>>

(* The server's thread takes an event from its queue. *)
Take(event) ==
    /\ session = "alive" /\ pc = "loop"
    /\ posted # <<>> /\ Head(posted) = event
    /\ UNCHANGED <<request, received, pc, parser, calls>>

DropReply(kind) ==
    /\ Take(kind)
    /\ Unusable \/ alreadyReply
    /\ posted' = Tail(posted)
    /\ UNCHANGED <<session, socket, timer, reply, reasons>>

(* The device is gone, which that of a living session is not as long as events
   are taken, or the file cannot be opened. *)
FailReply(kind) ==
    /\ Take(kind)
    /\ ~Unusable /\ ~alreadyReply
    /\ kind = "text" => socket = "gone"
    /\ alreadyReply' = TRUE
    /\ DeleteAfter(Tail(posted), "failed")
    /\ UNCHANGED <<session, socket, timer, wait, unsent, device, replies>>

(* Mutant: that there was a reply is looked at in the handler's thread only. *)
BeginReplyUnchecked(kind, content) ==
    /\ Take(kind)
    /\ ~Unusable
    /\ socket = "open"
    /\ alreadyReply' = TRUE
    /\ posted' = Tail(posted)
    /\ wait' = 1 + content
    /\ unsent' = 1
    /\ device' = IF kind = "text" THEN NoDevice ELSE content
    /\ replies' = replies + 1
    /\ UNCHANGED <<session, socket, timer, reasons>>

(* Mutant: the head is not counted. *)
BeginReplyBodyOnly(kind, content) ==
    /\ Take(kind)
    /\ ~Unusable /\ ~alreadyReply
    /\ socket = "open"
    /\ alreadyReply' = TRUE
    /\ posted' = Tail(posted)
    /\ wait' = content
    /\ unsent' = 1
    /\ device' = IF kind = "text" THEN NoDevice ELSE content
    /\ replies' = replies + 1
    /\ UNCHANGED <<session, socket, timer, reasons>>

(* Mutant: what the device holds is not counted. *)
BeginReplyHeadOnly(kind, content) ==
    /\ Take(kind)
    /\ ~Unusable /\ ~alreadyReply
    /\ socket = "open"
    /\ alreadyReply' = TRUE
    /\ posted' = Tail(posted)
    /\ wait' = 1
    /\ unsent' = 1
    /\ device' = IF kind = "text" THEN NoDevice ELSE content
    /\ replies' = replies + 1
    /\ UNCHANGED <<session, socket, timer, reasons>>

BeginReply(kind, content) ==
    /\ Take(kind)
    /\ ~Unusable /\ ~alreadyReply
    /\ socket = "open"
    /\ kind = "text" => content = 0
    /\ alreadyReply' = TRUE
    /\ posted' = Tail(posted)
    /\ wait' = 1 + content
    /\ unsent' = 1
    /\ device' = IF kind = "text" THEN NoDevice ELSE content
    /\ replies' = replies + 1
    /\ UNCHANGED <<session, socket, timer, reasons>>

Least(m, n) == IF m <= n THEN m ELSE n

(* Mutant: the piece that is read of the device is not written. *)
BytesWrittenUnread(n) ==
    /\ session = "alive" /\ pc = "loop" /\ socket = "open"
    /\ n <= unsent
    /\ wait' = wait - n
    /\ unsent' = unsent - n
    /\ device' = IF device > 0 THEN device - Least(Chunk, device) ELSE NoDevice
    /\ IF wait' = 0 THEN DeleteLater("sent") ELSE NoDelete
    /\ timer' = "on"
    /\ UNCHANGED <<request, received, session, socket, pc, parser, alreadyReply, replies, calls>>

(* bytesWritten: the session is over when it has counted all it waits for; until
   then every report has the next piece of the device written. *)
BytesWritten(n) ==
    /\ session = "alive" /\ pc = "loop" /\ socket = "open"
    /\ n <= unsent
    /\ wait' = wait - n
    /\ \/ /\ wait' = 0
          /\ unsent' = unsent - n
          /\ DeleteLater("sent")
          /\ UNCHANGED <<device, timer>>
       \/ /\ wait' # 0
          /\ device' = IF device > 0 THEN device - Least(Chunk, device) ELSE NoDevice
          /\ unsent' = unsent - n + (IF device > 0 THEN Least(Chunk, device) ELSE 0)
          /\ timer' = "on"
          /\ NoDelete
    /\ UNCHANGED <<request, received, session, socket, pc, parser, alreadyReply, replies, calls>>

-----------------------------------------------------------------------------
(* Mutant: the timer deletes the session itself. *)
TimeoutDeletes ==
    /\ session = "alive" /\ pc = "loop"
    /\ timer = "on"
    /\ session' = "deleted" /\ socket' = "gone" /\ timer' = "off" /\ posted' = <<>>
    /\ reasons' = reasons \union {"timeout"}
    /\ UNCHANGED <<request, received, pc, parser, reply, calls>>

Timeout ==
    /\ session = "alive" /\ pc = "loop"
    /\ timer = "on"
    /\ DeleteLater("timeout")
    /\ UNCHANGED <<request, received, session, socket, pc, parser, timer, reply, calls>>

(* The destructor takes the socket and the timer with it; events still posted to
   the object are discarded. *)
Destruct ==
    /\ session' = "deleted"
    /\ socket' = "gone"
    /\ timer' = "off"
    /\ posted' = <<>>

Delete ==
    /\ Take("delete")
    /\ Destruct
    /\ UNCHANGED <<reply, reasons>>

(* The server is closed: the event loop returns, and onFinish deletes the server
   with the sockets that are its children, which those of a TLS server are not.
   Nothing that waits for an event happens after that. *)
ServerFinishes ==
    /\ session = "alive" /\ pc = "loop"
    /\ pc' = "ended"
    /\ socket' \in {socket, "gone"}
    /\ UNCHANGED <<request, received, session, parser, timer, posted, reply, calls, reasons>>

(* The end of the server's thread carries out a deletion that is posted, wherever
   it is in the queue, and no other event. *)
DeleteAtThreadEnd ==
    /\ session = "alive" /\ pc = "ended"
    /\ "delete" \in Range(posted)
    /\ Destruct
    /\ UNCHANGED <<request, received, pc, parser, reply, calls, reasons>>

EventLoop ==
    \/ Parser
    \/ Timeout
    \/ Delete
    \/ \E kind \in Replies : DropReply(kind) \/ FailReply(kind)
    \/ \E kind \in Replies, content \in 0 .. MaxContent : BeginReply(kind, content)

Next ==
    \/ \E n \in 1 .. Len(request.stream) : ReadyRead(n)
    \/ EventLoop
    \/ \E kind \in Replies : HandlerReplies(kind)
    \/ \E n \in 1 .. 1 + MaxContent : BytesWritten(n)
    \/ ServerFinishes
    \/ DeleteAtThreadEnd

(* The server's thread handles its events as long as its loop runs; clients need
   not send or read, and nobody need close the server. *)
Spec == Init /\ [][Next]_vars /\ WF_vars(EventLoop)

-----------------------------------------------------------------------------
(* Type invariant: the members of the session and the history of its request. *)
TypeOK ==
    /\ request \in Requests
    /\ received \in 0 .. Len(request.stream)
    /\ session \in {"alive", "deleted"}
    /\ socket \in {"open", "gone"}
    /\ pc \in {"loop", "setup1", "setup2", "ended"}
    /\ buffer \in Seq(Symbols)
    /\ method \in {"none", "get", "post", "other"}
    /\ headerDone \in BOOLEAN
    /\ contentLength \in Int
    /\ body \in Nat
    /\ timer \in {"off", "on"}
    /\ posted \in Seq(Replies \union {"delete"})
    /\ alreadyReply \in BOOLEAN
    /\ wait \in Nat
    /\ unsent \in Nat
    /\ device \in Nat \union {NoDevice}
    /\ accepted \in Nat
    /\ calls \in 0 .. MaxCalls
    /\ replies \in Nat
    /\ reasons \in SUBSET {"rejected", "failed", "sent", "timeout"}

(* Safety: no handler sees half a request.  However the bytes were cut into
   reads, the ones up to some read made a whole request (lines 627-758).  A
   session that has rejected a line goes on with the next one when more is read
   before it is deleted, and promises nothing of what it makes of that. *)
AcceptedIsWhole ==
    accepted > 0 /\ "rejected" \notin reasons
        => \E n \in 0 .. received : Complete(SubSeq(request.stream, 1, n))

(* Safety: a whole request is not left lying.  When the last read ended where the
   request ends, and nothing in it was rejected, a handler was called (lines 687-699, 738-758). *)
WholeIsAccepted ==
    session = "alive" /\ pc = "loop" /\ "rejected" \notin reasons /\ Complete(Received)
        => accepted > 0

(* Safety: a request that announces its length is handled once, whatever follows
   it on the connection (lines 740-757). *)
AcceptedOnce == contentLength # NoLength => accepted <= 1

(* Safety: handlers in several threads may reply, and their calls pass the test
   of alreadyReply_ together; still one reply is written (lines 256-268). *)
RepliedOnce == replies <= 1

(* Safety: a session that deletes itself because all is written has left no byte
   of the head in the socket and none of the body in its device (lines 132-151). *)
SentIsComplete == "sent" \in reasons => wait = 0 /\ unsent = 0 /\ device <= 0

(* Safety: a reply does not stall.  While something is to be written, bytes are
   in the socket, so that another bytesWritten comes and goes on (lines 140-151). *)
NeverStalls == wait > 0 => unsent > 0

(* Liveness: a session that has read anything is deleted in the end, whatever the
   client and the handlers fail to do, unless the server is closed before, which
   leaves a session that has not asked for its deletion without an event loop to
   time out in (lines 111-117, 127, 161, 824-826).  A client's stream is finite
   here: it stops sending at some time, as one that does not starts the timer
   anew with every read.  One whose client never sends has no timer. *)
SessionsEnd == received > 0 ~> session = "deleted" \/ pc = "ended"

(* The session, seen as its server sees it. *)
Life == INSTANCE SessionLife
        WITH life <- CASE session = "deleted" -> "deleted"
                       [] session # "deleted" /\ "delete" \in Range(posted) -> "ending"
                       [] OTHER -> "open",
             handed <- accepted

(* Refinement: a session is one of SessionLife.  Whatever the order of replies,
   failures, reports and timeouts, it asks for its deletion once, the event loop
   carries that out, and no handler is called for a deleted session (lines
   113-170, 252-286, 738-758). *)
LifeSpec == Life!Spec

-----------------------------------------------------------------------------
(* What a comment of the parser says. *)

(* "no separator was found, which means that the data is not complete" (line 637):
   the rest is waited for, and a good request is not rejected for it. *)
GoodIsNotRejected == WellFormed(request.stream) => "rejected" \notin reasons
=============================================================================
