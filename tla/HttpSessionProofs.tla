------------------------- MODULE HttpSessionProofs -------------------------
(***************************************************************************)
(* One reply is written, it does not stall, and the session that deletes   *)
(* itself because of it has written all of it; whole requests and no other *)
(* ones are handed over, and one that announces its length once; the       *)
(* parser ends, and rejects a good request for one reason only.  For any   *)
(* requests, any way of cutting them into reads, any sizes and any number  *)
(* of calls of reply functions.                                            *)
(***************************************************************************)
EXTENDS HttpSession, Induction

Max0(d) == IF d = NoDevice THEN 0 ELSE d

(* The reply's state: what is waited for is in the socket or still in the device. *)
ReplyTypeOK ==
    /\ alreadyReply \in BOOLEAN
    /\ wait \in Nat
    /\ unsent \in Nat
    /\ device \in Nat \union {NoDevice}
    /\ replies \in Nat

Counted ==
    /\ ~alreadyReply => wait = 0 /\ unsent = 0 /\ device = NoDevice /\ replies = 0
    /\ replies <= 1
    /\ wait = unsent + Max0(device)
    /\ wait > 0 => unsent > 0
    /\ "sent" \in reasons => alreadyReply /\ wait = 0

ReplyInv == ReplyTypeOK /\ Counted

LEMMA InitReplyInv == Init => ReplyInv
  <1> SUFFICES ASSUME Init PROVE ReplyInv
    OBVIOUS
  <1>1. ~alreadyReply /\ alreadyReply \in BOOLEAN
    BY DEF Init
  <1>2. wait = 0 /\ unsent = 0 /\ device = NoDevice /\ replies = 0 /\ reasons = {}
    BY DEF Init
  <1>3. ReplyTypeOK
    BY <1>1, <1>2 DEF ReplyTypeOK
  <1>4. Counted
    BY <1>1, <1>2 DEF Counted, Max0, NoDevice
  <1> QED BY <1>3, <1>4 DEF ReplyInv

(* A piece of the device: as long as there is anything, it is not empty. *)
LEMMA LeastIsPositive ==
    ASSUME NEW d \in Nat, d > 0
    PROVE  Least(Chunk, d) \in 1 .. d
  BY HttpSessionAssumption DEF Least

LEMMA BytesWrittenStep ==
    ASSUME ReplyInv, NEW n \in 1 .. 1 + MaxContent, BytesWritten(n)
    PROVE  ReplyInv'
  <1>1. n \in Nat /\ n > 0 /\ n <= unsent
    BY HttpSessionAssumption DEF BytesWritten
  <1>2. wait' = wait - n /\ alreadyReply' = alreadyReply /\ replies' = replies
    BY DEF BytesWritten
  <1>3. wait \in Nat /\ unsent \in Nat /\ device \in Nat \union {NoDevice} /\ replies \in Nat
    BY DEF ReplyInv, ReplyTypeOK
  <1>4. wait = unsent + Max0(device) /\ alreadyReply /\ replies <= 1
    BY <1>1, <1>3 DEF ReplyInv, Counted
  <1>5. Max0(device) \in Nat
    BY <1>3 DEF Max0
  <1>6. wait' \in Nat
    BY <1>1, <1>2, <1>3, <1>4, <1>5
  <1>7. CASE wait' = 0
    <2>1. unsent' = unsent - n /\ device' = device
      BY <1>7 DEF BytesWritten
    <2>2. unsent' = 0 /\ Max0(device) = 0
      BY <1>1, <1>2, <1>3, <1>4, <1>5, <1>7, <2>1
    <2> QED BY <1>2, <1>3, <1>4, <1>7, <2>1, <2>2 DEF ReplyInv, ReplyTypeOK, Counted, Max0
  <1>8. CASE wait' # 0
    <2>1. /\ device' = IF device > 0 THEN device - Least(Chunk, device) ELSE NoDevice
          /\ unsent' = unsent - n + (IF device > 0 THEN Least(Chunk, device) ELSE 0)
          /\ reasons' = reasons
      BY <1>8 DEF BytesWritten, NoDelete
    <2>2. "sent" \notin reasons'
      BY <1>1, <1>3, <1>4, <1>5, <2>1 DEF ReplyInv, Counted
    <2>3. CASE device > 0
      <3>1. device \in Nat /\ Max0(device) = device
        BY <1>3, <2>3 DEF NoDevice, Max0
      <3>2. PICK piece \in 1 .. device : piece = Least(Chunk, device)
        BY <2>3, <3>1, LeastIsPositive
      <3>3. device' = device - piece /\ unsent' = unsent - n + piece
        BY <2>1, <2>3, <3>2
      <3>4. device' \in Nat /\ unsent' \in Nat /\ unsent' > 0 /\ wait' = unsent' + device'
        BY <1>1, <1>2, <1>3, <1>4, <3>1, <3>2, <3>3
      <3>5. Max0(device') = device'
        BY <3>4 DEF Max0, NoDevice
      <3> QED BY <1>2, <1>3, <1>4, <1>6, <2>2, <3>4, <3>5 DEF ReplyInv, ReplyTypeOK, Counted
    <2>4. CASE ~(device > 0)
      <3>1. Max0(device) = 0
        BY <1>3, <2>4 DEF Max0
      <3>2. device' = NoDevice /\ unsent' = unsent - n
        BY <1>1, <1>3, <2>1, <2>4
      <3>3. unsent' \in Nat /\ wait' = unsent' /\ Max0(device') = 0
        BY <1>1, <1>2, <1>3, <1>4, <3>1, <3>2 DEF Max0
      <3> QED BY <1>2, <1>3, <1>4, <1>6, <1>8, <2>2, <3>2, <3>3
              DEF ReplyInv, ReplyTypeOK, Counted
    <2> QED BY <2>3, <2>4
  <1> QED BY <1>7, <1>8

LEMMA BeginReplyStep ==
    ASSUME ReplyInv, NEW kind \in Replies, NEW content \in 0 .. MaxContent,
           BeginReply(kind, content)
    PROVE  ReplyInv'
  <1>1. content \in Nat /\ content # NoDevice
    BY HttpSessionAssumption DEF NoDevice
  <1>2. ~alreadyReply /\ alreadyReply' /\ alreadyReply' \in BOOLEAN /\ reasons' = reasons
    BY DEF BeginReply
  <1>3. wait' = 1 + content /\ unsent' = 1 /\ replies' = replies + 1
    BY DEF BeginReply
  <1>4. replies = 0 /\ wait = 0
    BY <1>2 DEF ReplyInv, Counted
  <1>5. Max0(device') = content /\ device' \in Nat \union {NoDevice}
    BY <1>1 DEF BeginReply, Max0
  <1>6. "sent" \notin reasons
    BY <1>2 DEF ReplyInv, Counted
  <1> QED BY <1>1, <1>2, <1>3, <1>4, <1>5, <1>6 DEF ReplyInv, ReplyTypeOK, Counted

(* Steps that leave the reply alone, but for what they say of the deletion. *)
LEMMA ReplyUnchanged ==
    ASSUME ReplyInv, UNCHANGED reply, "sent" \in reasons' => "sent" \in reasons
    PROVE  ReplyInv'
  BY DEF reply, ReplyInv, ReplyTypeOK, Counted, Max0

LEMMA ReplyStep ==
    ASSUME ReplyInv, [Next]_vars
    PROVE  ReplyInv'
  <1>1. ASSUME NEW n \in 1 .. 1 + MaxContent, BytesWritten(n)
        PROVE  ReplyInv'
    BY <1>1, BytesWrittenStep
  <1>2. ASSUME NEW kind \in Replies, NEW content \in 0 .. MaxContent, BeginReply(kind, content)
        PROVE  ReplyInv'
    BY <1>2, BeginReplyStep
  <1>3. ASSUME NEW kind \in Replies, FailReply(kind)
        PROVE  ReplyInv'
    <2>1. alreadyReply' = TRUE /\ UNCHANGED <<wait, unsent, device, replies>>
      BY <1>3 DEF FailReply
    <2>2. reasons' = reasons \union {"failed"}
      BY <1>3 DEF FailReply, DeleteAfter
    <2>3. ~alreadyReply
      BY <1>3 DEF FailReply
    <2>4. "sent" \notin reasons'
      BY <2>2, <2>3 DEF ReplyInv, Counted
    <2> QED BY <2>1, <2>4 DEF ReplyInv, ReplyTypeOK, Counted, Max0
  <1>4. CASE Parser
    BY <1>4, ReplyUnchanged
       DEF Parser, Incomplete, EmptyRequestLine, RequestLine, HeaderEnd, HeaderLine, Body,
           Parse, DeleteLater, DeleteAfter, NoDelete
  <1>5. CASE Timeout \/ Delete \/ ServerFinishes \/ DeleteAtThreadEnd
    BY <1>5, ReplyUnchanged
       DEF Timeout, Delete, ServerFinishes, DeleteAtThreadEnd, DeleteLater, DeleteAfter
  <1>6. ASSUME NEW kind \in Replies, DropReply(kind) \/ HandlerReplies(kind)
        PROVE  ReplyInv'
    BY <1>6, ReplyUnchanged DEF DropReply, HandlerReplies
  <1>7. ASSUME NEW n \in 1 .. Len(request.stream), ReadyRead(n)
        PROVE  ReplyInv'
    BY <1>7, ReplyUnchanged DEF ReadyRead
  <1>8. CASE UNCHANGED vars
    BY <1>8, ReplyUnchanged DEF vars
  <1> QED BY <1>1, <1>2, <1>3, <1>4, <1>5, <1>6, <1>7, <1>8 DEF Next, EventLoop

LEMMA ReplyInvariance == Spec => []ReplyInv
  BY InitReplyInv, ReplyStep, PTL DEF Spec

-----------------------------------------------------------------------------
(* Once a request has been handed over the head is done for good, the buffer is
   empty between reads, and every read makes the body longer than announced. *)
AcceptInv ==
    /\ request \in Requests
    /\ received \in Nat
    /\ contentLength \in Int
    /\ accepted \in Nat
    /\ pc = "setup2" => headerDone
    /\ accepted > 0 =>
          /\ headerDone
          /\ \/ pc \in {"loop", "ended"} /\ buffer = <<>>
             \/ pc = "setup2" /\ Len(buffer) \in Nat \ {0}
    /\ accepted > 0 /\ contentLength # NoLength =>
          accepted = 1 /\ body \in Int /\ body >= contentLength

LEMMA InitAcceptInv == Init => AcceptInv
  <1> SUFFICES ASSUME Init PROVE AcceptInv
    OBVIOUS
  <1>1. /\ request \in Requests /\ received = 0 /\ contentLength = NoLength
        /\ accepted = 0 /\ pc = "loop"
    BY DEF Init
  <1> QED BY <1>1 DEF AcceptInv, NoLength

LEMMA ReadStep ==
    ASSUME AcceptInv, NEW n \in 1 .. Len(request.stream), ReadyRead(n)
    PROVE  AcceptInv'
  <1>1. request.stream \in Seq(Symbols)
    BY HttpSessionAssumption DEF AcceptInv
  <1>2. n \in Nat /\ n > 0 /\ received \in Nat /\ received + n <= Len(request.stream)
    BY <1>1 DEF ReadyRead, AcceptInv
  <1>3. /\ received' = received + n
        /\ buffer' = buffer \o SubSeq(request.stream, received + 1, received + n)
        /\ pc = "loop" /\ pc' = IF headerDone THEN "setup2" ELSE "setup1"
        /\ UNCHANGED <<request, headerDone, contentLength, body, accepted>>
    BY DEF ReadyRead
  <1>4. CASE accepted > 0
    <2>1. buffer = <<>> /\ headerDone
      BY <1>3, <1>4 DEF AcceptInv
    <2>2. /\ SubSeq(request.stream, received + 1, received + n) \in Seq(Symbols)
          /\ Len(SubSeq(request.stream, received + 1, received + n)) = n
      BY <1>1, <1>2
    <2>3. Len(buffer') = n
      BY <1>3, <2>1, <2>2
    <2>4. pc' = "setup2" /\ headerDone'
      BY <1>3, <2>1
    <2> QED BY <1>2, <1>3, <1>4, <2>3, <2>4 DEF AcceptInv
  <1>5. CASE ~(accepted > 0)
    BY <1>2, <1>3, <1>5 DEF AcceptInv
  <1> QED BY <1>4, <1>5

LEMMA BodyStep ==
    ASSUME AcceptInv, Body
    PROVE  AcceptInv'
  <1>1. /\ pc = "setup2" /\ headerDone
        /\ body' = body + Len(buffer) /\ buffer' = <<>> /\ pc' = "loop"
        /\ UNCHANGED <<request, received, headerDone, contentLength>>
    BY DEF Body, Parse, Return, AcceptInv
  <1>2. accepted' = IF contentLength # NoLength /\ body' # contentLength
                    THEN accepted ELSE accepted + 1
    BY DEF Body
  <1>3. accepted' \in Nat
    BY <1>2 DEF AcceptInv
  <1>4. ASSUME contentLength # NoLength, accepted' > 0
        PROVE  accepted' = 1 /\ body' \in Int /\ body' >= contentLength
    <2>1. CASE accepted > 0
      <3>1. accepted = 1 /\ body \in Int /\ body >= contentLength /\ Len(buffer) \in Nat \ {0}
        BY <1>1, <1>4, <2>1 DEF AcceptInv
      <3>2. body' \in Int /\ body' > contentLength
        BY <1>1, <3>1 DEF AcceptInv
      <3> QED BY <1>2, <1>4, <3>1, <3>2 DEF AcceptInv
    <2>2. CASE ~(accepted > 0)
      <3>1. accepted = 0 /\ contentLength \in Int
        BY <2>2 DEF AcceptInv
      <3>2. body' = contentLength
        BY <1>2, <1>4, <3>1
      <3> QED BY <1>2, <3>1, <3>2
    <2> QED BY <2>1, <2>2
  <1> QED BY <1>1, <1>3, <1>4 DEF AcceptInv

(* Rounds of the parser's loop come before the request is handed over. *)
LEMMA HeadStep ==
    ASSUME AcceptInv,
           Incomplete \/ EmptyRequestLine \/ RequestLine \/ HeaderEnd \/ HeaderLine
    PROVE  AcceptInv'
  <1>1. pc = "setup1" /\ UNCHANGED <<request, received, accepted>>
    BY DEF Incomplete, EmptyRequestLine, RequestLine, HeaderEnd, HeaderLine, Parse, parser
  <1>2. accepted = 0
    BY <1>1 DEF AcceptInv
  <1>3. contentLength' \in Int
    BY HttpSessionAssumption
       DEF AcceptInv, Incomplete, EmptyRequestLine, RequestLine, HeaderEnd, HeaderLine, parser
  <1>4. pc' = "setup2" => headerDone'
    BY <1>1 DEF Incomplete, EmptyRequestLine, RequestLine, HeaderEnd, HeaderLine, Return, Again
  <1> QED BY <1>1, <1>2, <1>3, <1>4 DEF AcceptInv

LEMMA AcceptStep ==
    ASSUME AcceptInv, [Next]_vars
    PROVE  AcceptInv'
  <1>1. ASSUME NEW n \in 1 .. Len(request.stream), ReadyRead(n)
        PROVE  AcceptInv'
    BY <1>1, ReadStep
  <1>2. CASE Parser
    BY <1>2, BodyStep, HeadStep DEF Parser
  <1>3. CASE UNCHANGED <<request, received, pc, parser>>
    BY <1>3 DEF parser, AcceptInv
  <1>4. ASSUME NEW kind \in Replies, DropReply(kind) \/ FailReply(kind) \/ HandlerReplies(kind)
        PROVE  AcceptInv'
    BY <1>3, <1>4 DEF DropReply, FailReply, HandlerReplies, Take
  <1>5. ASSUME NEW kind \in Replies, NEW content \in 0 .. MaxContent, BeginReply(kind, content)
        PROVE  AcceptInv'
    BY <1>3, <1>5 DEF BeginReply, Take
  <1>6. ASSUME NEW n \in 1 .. 1 + MaxContent, BytesWritten(n)
        PROVE  AcceptInv'
    BY <1>3, <1>6 DEF BytesWritten
  <1>7. CASE Timeout \/ Delete \/ DeleteAtThreadEnd \/ UNCHANGED vars
    BY <1>3, <1>7 DEF Timeout, Delete, DeleteAtThreadEnd, Take, vars
  <1>8. CASE ServerFinishes
    BY <1>8 DEF ServerFinishes, parser, AcceptInv
  <1> QED BY <1>1, <1>2, <1>4, <1>5, <1>6, <1>7, <1>8 DEF Next, EventLoop

LEMMA AcceptInvariance == Spec => []AcceptInv
  BY InitAcceptInv, AcceptStep, PTL DEF Spec

-----------------------------------------------------------------------------
(* However many handlers reply, one reply is written (lines 256-268). *)
THEOREM OneReplyIsWritten == Spec => []RepliedOnce
  <1>1. ReplyInv => RepliedOnce
    BY DEF ReplyInv, Counted, RepliedOnce
  <1> QED BY <1>1, ReplyInvariance, PTL

(* A session that ends because its reply is written has written all of it, head,
   file, image or bytes, however the socket reports it (lines 132-151). *)
THEOREM SentRepliesAreComplete == Spec => []SentIsComplete
  <1>1. ReplyInv => SentIsComplete
    <2> SUFFICES ASSUME ReplyInv, "sent" \in reasons
                 PROVE  wait = 0 /\ unsent = 0 /\ device <= 0
      BY DEF SentIsComplete
    <2>1. wait = 0 /\ wait = unsent + Max0(device) /\ unsent \in Nat
          /\ device \in Nat \union {NoDevice}
      BY DEF ReplyInv, ReplyTypeOK, Counted
    <2> QED BY <2>1 DEF Max0, NoDevice
  <1> QED BY <1>1, ReplyInvariance, PTL

(* While anything is to be written there are bytes in the socket, whose report
   has the next piece written (lines 140-151). *)
THEOREM RepliesDoNotStall == Spec => []NeverStalls
  <1>1. ReplyInv => NeverStalls
    BY DEF ReplyInv, Counted, NeverStalls
  <1> QED BY <1>1, ReplyInvariance, PTL

(* A request with a length is handed to a handler once, whatever else arrives on
   its connection (lines 738-758). *)
THEOREM RequestsAreAcceptedOnce == Spec => []AcceptedOnce
  <1>1. AcceptInv => AcceptedOnce
    BY DEF AcceptInv, AcceptedOnce
  <1> QED BY <1>1, AcceptInvariance, PTL

-----------------------------------------------------------------------------
(* The session's life: it has asked for its deletion while "delete" is posted. *)
Asked == "delete" \in Range(posted)

Events == Replies \union {"delete"}

LifeInv == session \in {"alive", "deleted"} /\ posted \in Seq(Events)

LEMMA RangeOfAppend ==
    ASSUME NEW s \in Seq(Events), NEW e \in Events
    PROVE  Append(s, e) \in Seq(Events) /\ Range(Append(s, e)) = Range(s) \union {e}
  <1>1. /\ DOMAIN s = 1 .. Len(s) /\ DOMAIN Append(s, e) = 1 .. Len(s) + 1
        /\ \A i \in 1 .. Len(s) : Append(s, e)[i] = s[i]
        /\ Append(s, e)[Len(s) + 1] = e /\ Len(s) \in Nat
    OBVIOUS
  <1>2. \A x : x \in Range(Append(s, e)) <=> x \in Range(s) \union {e}
    BY <1>1 DEF Range
  <1> QED BY <1>2

LEMMA RangeOfTail ==
    ASSUME NEW s \in Seq(Events), s # <<>>
    PROVE  Tail(s) \in Seq(Events) /\ Range(s) = Range(Tail(s)) \union {Head(s)}
  <1>1. /\ DOMAIN s = 1 .. Len(s) /\ DOMAIN Tail(s) = 1 .. Len(s) - 1
        /\ \A i \in 1 .. Len(s) - 1 : Tail(s)[i] = s[i + 1]
        /\ Head(s) = s[1] /\ Len(s) \in Nat \ {0} /\ Tail(s) \in Seq(Events)
    OBVIOUS
  <1>2. ASSUME NEW x \in Range(s) PROVE x \in Range(Tail(s)) \union {Head(s)}
    <2>1. PICK i \in 1 .. Len(s) : s[i] = x
      BY <1>1 DEF Range
    <2>2. CASE i = 1
      BY <1>1, <2>1, <2>2
    <2>3. CASE i # 1
      <3>1. i - 1 \in 1 .. Len(s) - 1 /\ Tail(s)[i - 1] = x
        BY <1>1, <2>1, <2>3
      <3> QED BY <1>1, <3>1 DEF Range
    <2> QED BY <2>2, <2>3
  <1>3. ASSUME NEW x \in Range(Tail(s)) \union {Head(s)} PROVE x \in Range(s)
    BY <1>1, <1>3 DEF Range
  <1> QED BY <1>1, <1>2, <1>3

(* deleteLater: its event is posted, once, behind the others. *)
LEMMA DeletePosts ==
    ASSUME NEW queue \in Seq(Events), NEW why, DeleteAfter(queue, why)
    PROVE  posted' \in Seq(Events) /\ Asked'
  BY RangeOfAppend DEF DeleteAfter, Asked, Events

(* What the steps of SessionLife are in terms of the session. *)
LEMMA LifeSteps ==
    ASSUME LifeInv,
           \/ session' = session /\ (Asked' <=> Asked) /\ accepted' = accepted
           \/ session' = "alive" /\ session = "alive" /\ Asked' /\ accepted' = accepted
           \/ session = "alive" /\ Asked /\ session' = "deleted" /\ accepted' = accepted
           \/ /\ session' = "alive" /\ session = "alive" /\ (Asked' <=> Asked)
              /\ accepted' = accepted + 1
    PROVE  [Life!Next]_(Life!vars)
  BY DEF LifeInv, Asked, Life!Next, Life!HandOver, Life!End, Life!Delete, Life!vars

(* What every step keeps, and how it looks from the server. *)
LifeGoesOn == posted' \in Seq(Events) /\ session' \in {"alive", "deleted"} /\ [Life!Next]_(Life!vars)

LEMMA DeletionStep ==
    ASSUME LifeInv, session = "alive", UNCHANGED <<session, accepted>>,
           NEW queue \in Seq(Events), NEW why, DeleteAfter(queue, why)
    PROVE  LifeGoesOn
  <1>1. posted' \in Seq(Events) /\ Asked'
    BY DeletePosts
  <1> QED BY <1>1, LifeSteps DEF LifeGoesOn

LEMMA QuietStep ==
    ASSUME LifeInv, UNCHANGED <<session, accepted>>,
           posted' \in Seq(Events), Asked' <=> Asked
    PROVE  LifeGoesOn
  BY LifeSteps DEF LifeGoesOn, LifeInv

LEMMA SilentStep ==
    ASSUME LifeInv, UNCHANGED <<session, accepted, posted>>
    PROVE  LifeGoesOn
  BY QuietStep DEF LifeInv, Asked

LEMMA ParserLife ==
    ASSUME LifeInv, Parser
    PROVE  LifeGoesOn
  <1>1. session = "alive" /\ session' = session /\ posted \in Seq(Events)
    BY DEF LifeInv, Parser, Incomplete, EmptyRequestLine, RequestLine, HeaderEnd, HeaderLine,
           Body, Parse
  <1>2. CASE Body
    <2>1. posted' = posted /\ accepted' \in {accepted, accepted + 1}
      BY <1>2 DEF Body, NoDelete
    <2> QED BY <1>1, <2>1, LifeSteps DEF LifeGoesOn, Asked
  <1>3. CASE ~Body
    <2>1. accepted' = accepted
      BY <1>3 DEF Parser, Incomplete, EmptyRequestLine, RequestLine, HeaderEnd, HeaderLine, parser
    <2>2. posted' = posted \/ \E why \in {"rejected"} : DeleteAfter(posted, why)
      BY <1>3 DEF Parser, Incomplete, EmptyRequestLine, RequestLine, HeaderEnd, HeaderLine,
             DeleteLater, NoDelete
    <2> QED BY <1>1, <2>1, <2>2, SilentStep, DeletionStep
  <1> QED BY <1>2, <1>3

(* The head of the queue is taken by a reply, and the deletion stays posted. *)
LEMMA TakeReply ==
    ASSUME LifeInv, NEW kind \in Replies, Take(kind)
    PROVE  /\ session = "alive" /\ accepted' = accepted
           /\ Tail(posted) \in Seq(Events)
           /\ "delete" \in Range(Tail(posted)) <=> Asked
  <1>1. kind # "delete"
    BY DEF Replies
  <1>2. posted \in Seq(Events) /\ posted # <<>> /\ Head(posted) = kind
    BY DEF LifeInv, Take
  <1> QED BY <1>1, <1>2, RangeOfTail DEF Take, Asked, parser

LEMMA ReplyLife ==
    ASSUME LifeInv, NEW kind \in Replies, NEW content \in 0 .. MaxContent,
           DropReply(kind) \/ FailReply(kind) \/ BeginReply(kind, content)
    PROVE  LifeGoesOn
  <1>1. Take(kind) /\ session' = session
    BY DEF DropReply, FailReply, BeginReply
  <1>2. posted' = Tail(posted) \/ DeleteAfter(Tail(posted), "failed")
    BY DEF DropReply, FailReply, BeginReply
  <1>3. CASE posted' = Tail(posted)
    BY <1>1, <1>3, TakeReply, QuietStep DEF Asked
  <1>4. CASE DeleteAfter(Tail(posted), "failed")
    BY <1>1, <1>4, TakeReply, DeletionStep
  <1> QED BY <1>2, <1>3, <1>4

LEMMA HandlerLife ==
    ASSUME LifeInv, NEW kind \in Replies, HandlerReplies(kind)
    PROVE  LifeGoesOn
  <1>1. UNCHANGED <<session, accepted>> /\ posted \in Seq(Events)
    BY DEF HandlerReplies, LifeInv, parser
  <1>2. kind \in Events /\ kind # "delete"
    BY DEF Replies, Events
  <1>3. posted' = posted \/ posted' = Append(posted, kind)
    BY DEF HandlerReplies
  <1>4. CASE posted' = posted
    BY <1>1, <1>4, QuietStep DEF Asked
  <1>5. CASE posted' = Append(posted, kind)
    <2>1. Range(posted') = Range(posted) \union {kind}
      BY <1>1, <1>2, <1>5, RangeOfAppend
    <2>2. posted' \in Seq(Events)
      BY <1>1, <1>2, <1>5
    <2> QED BY <1>1, <1>2, <2>1, <2>2, QuietStep DEF Asked
  <1> QED BY <1>3, <1>4, <1>5

LEMMA LifeStep ==
    ASSUME LifeInv, [Next]_vars
    PROVE  LifeGoesOn
  <1>1. CASE Parser
    BY <1>1, ParserLife
  <1>2. ASSUME NEW kind \in Replies, DropReply(kind) \/ FailReply(kind)
        PROVE  LifeGoesOn
    <2>1. 0 \in 0 .. MaxContent
      BY HttpSessionAssumption
    <2> QED BY <1>2, <2>1, ReplyLife
  <1>3. ASSUME NEW kind \in Replies, NEW content \in 0 .. MaxContent, BeginReply(kind, content)
        PROVE  LifeGoesOn
    BY <1>3, ReplyLife
  <1>4. ASSUME NEW kind \in Replies, HandlerReplies(kind)
        PROVE  LifeGoesOn
    BY <1>4, HandlerLife
  <1>5. CASE Timeout
    <2>1. session = "alive" /\ UNCHANGED <<session, accepted>> /\ DeleteAfter(posted, "timeout")
      BY <1>5 DEF Timeout, DeleteLater, parser
    <2> QED BY <2>1, DeletionStep DEF LifeInv
  <1>6. ASSUME NEW n \in 1 .. 1 + MaxContent, BytesWritten(n)
        PROVE  LifeGoesOn
    <2>1. session = "alive" /\ UNCHANGED <<session, accepted>>
      BY <1>6 DEF BytesWritten, parser
    <2>2. posted' = posted \/ DeleteAfter(posted, "sent")
      BY <1>6 DEF BytesWritten, DeleteLater, NoDelete
    <2> QED BY <2>1, <2>2, SilentStep, DeletionStep DEF LifeInv
  <1>7. CASE Delete
    <2>1. /\ session = "alive" /\ session' = "deleted" /\ posted' = <<>> /\ accepted' = accepted
          /\ posted # <<>> /\ Head(posted) = "delete" /\ posted \in Seq(Events)
      BY <1>7 DEF Delete, Destruct, Take, parser, LifeInv
    <2>2. Asked
      BY <2>1, RangeOfTail DEF Asked
    <2>3. posted' \in Seq(Events)
      BY <2>1
    <2> QED BY <2>1, <2>2, <2>3, LifeSteps DEF LifeGoesOn
  <1>8. CASE ServerFinishes
    BY <1>8, SilentStep DEF ServerFinishes, parser
  <1>9. ASSUME NEW n \in 1 .. Len(request.stream), ReadyRead(n)
        PROVE  LifeGoesOn
    BY <1>9, SilentStep DEF ReadyRead
  <1>10. CASE UNCHANGED vars
    BY <1>10, SilentStep DEF vars, parser
  <1>11. CASE DeleteAtThreadEnd
    <2>1. /\ session = "alive" /\ session' = "deleted" /\ posted' = <<>> /\ accepted' = accepted
          /\ Asked
      BY <1>11 DEF DeleteAtThreadEnd, Destruct, parser, Asked
    <2>2. posted' \in Seq(Events)
      BY <2>1
    <2> QED BY <2>1, <2>2, LifeSteps DEF LifeGoesOn
  <1> QED BY <1>1, <1>2, <1>3, <1>4, <1>5, <1>6, <1>7, <1>8, <1>9, <1>10, <1>11
          DEF Next, EventLoop

(* The session is one of SessionLife: it asks for its deletion before it is
   deleted, and hands over nothing afterwards (lines 113-170, 252-286, 738-758). *)
THEOREM SessionImplementsLife == Spec => LifeSpec
  <1>1. Init => LifeInv /\ Life!Init
    <2> SUFFICES ASSUME Init PROVE LifeInv /\ Life!Init
      OBVIOUS
    <2>1. session = "alive" /\ posted = <<>> /\ accepted = 0
      BY DEF Init
    <2>2. posted \in Seq(Events) /\ "delete" \notin Range(posted)
      BY <2>1 DEF Range
    <2> QED BY <2>1, <2>2 DEF LifeInv, Life!Init
  <1>2. LifeInv /\ [Next]_vars => LifeInv' /\ [Life!Next]_(Life!vars)
    BY LifeStep DEF LifeGoesOn, LifeInv
  <1> QED BY <1>1, <1>2, PTL DEF Spec, LifeSpec, Life!Spec

-----------------------------------------------------------------------------
(* The parser against the bytes.  Taken is how much of the stream it has left
   behind; buffer_ is what has been read since. *)
Stream == request.stream
Taken  == received - Len(buffer)

Bytes ==
    /\ request \in Requests
    /\ received \in 0 .. Len(Stream)
    /\ buffer \in Seq(Symbols)
    /\ Len(buffer) <= received
    /\ \A i \in 1 .. Len(buffer) : buffer[i] = Stream[Taken + i]

LEMMA StreamIs ==
    ASSUME Bytes
    PROVE  /\ Stream \in Seq(Symbols) /\ Len(Stream) \in Nat /\ request.length \in Int
           /\ received \in Nat /\ received <= Len(Stream)
           /\ Len(buffer) \in Nat /\ Taken \in Nat /\ Taken + Len(buffer) = received
  <1>1. Stream \in Seq(Symbols) /\ request.length \in Int
    BY HttpSessionAssumption DEF Bytes, Stream
  <1>2. Len(buffer) \in Nat /\ Len(Stream) \in Nat
    BY <1>1 DEF Bytes
  <1> QED BY <1>1, <1>2 DEF Bytes, Taken

(* Eol is the end of the first line of the buffer, or 0. *)
LEMMA EolIs ==
    ASSUME buffer \in Seq(Symbols)
    PROVE  \/ Eol = 0 /\ \A i \in 1 .. Len(buffer) : buffer[i] # "CRLF"
           \/ /\ Eol \in 1 .. Len(buffer) /\ buffer[Eol] = "CRLF"
              /\ \A i \in 1 .. Eol - 1 : buffer[i] # "CRLF"
  <1> DEFINE I == {i \in 1 .. Len(buffer) : buffer[i] = "CRLF"}
  <1>1. Eol = IF I # {} THEN CHOOSE x \in I : \A y \in I : x <= y ELSE 0
    BY DEF Eol, SelectInSeq, Min
  <1>2. Len(buffer) \in Nat
    OBVIOUS
  <1>3. CASE I = {}
    BY <1>1, <1>3
  <1>4. CASE I # {}
    <2>1. I \in SUBSET Nat
      BY <1>2
    <2>2. \E x \in I : \A y \in I : x <= y
      BY <1>4, <2>1, LeastElement
    <2>3. Eol \in I /\ \A y \in I : Eol <= y
      BY <1>1, <1>4, <2>2
    <2>4. ASSUME NEW i \in 1 .. Eol - 1 PROVE buffer[i] # "CRLF"
      <3>1. i \in 1 .. Len(buffer) /\ ~(Eol <= i)
        BY <1>2, <2>3
      <3> QED BY <2>3, <3>1
    <2> QED BY <2>3, <2>4
  <1> QED BY <1>3, <1>4

(* The line that ends at Eol is taken out of the buffer and left behind. *)
LEMMA LineIsTaken ==
    ASSUME Bytes, Eol > 0, NextLine, UNCHANGED <<request, received>>
    PROVE  /\ Bytes' /\ Eol \in 1 .. Len(buffer)
           /\ Taken' = Taken + Eol /\ Len(buffer') = Len(buffer) - Eol
           /\ Stream[Taken + Eol] = "CRLF"
           /\ \A i \in Taken + 1 .. Taken + Eol - 1 : Stream[i] # "CRLF"
           /\ Taken + Eol <= received
  <1>1. /\ buffer \in Seq(Symbols) /\ received \in Nat /\ Len(buffer) \in Nat /\ Taken \in Nat
        /\ Taken + Len(buffer) = received
    BY StreamIs DEF Bytes
  <1>2. /\ Eol \in 1 .. Len(buffer) /\ buffer[Eol] = "CRLF"
        /\ \A i \in 1 .. Eol - 1 : buffer[i] # "CRLF"
    BY <1>1, EolIs
  <1>3. PICK e : e = Eol
    OBVIOUS
  <1>4. e \in Nat /\ e >= 1 /\ e <= Len(buffer)
    BY <1>1, <1>2, <1>3
  <1>5. buffer' = SubSeq(buffer, e + 1, Len(buffer))
    BY <1>3 DEF NextLine
  <1>6. /\ buffer' \in Seq(Symbols) /\ Len(buffer') = Len(buffer) - e
        /\ \A i \in 1 .. Len(buffer) - e : buffer'[i] = buffer[e + i]
    BY <1>1, <1>4, <1>5
  <1>7. Taken' = Taken + e
    BY <1>1, <1>4, <1>6 DEF Taken
  <1>8. ASSUME NEW i \in 1 .. Len(buffer') PROVE buffer'[i] = Stream'[Taken' + i]
    <2>1. i \in Nat /\ e + i \in 1 .. Len(buffer) /\ buffer'[i] = buffer[e + i]
      BY <1>1, <1>4, <1>6
    <2>2. buffer[e + i] = Stream[Taken + (e + i)]
      BY <2>1 DEF Bytes
    <2>3. Taken + (e + i) = Taken' + i
      BY <1>1, <1>4, <1>7, <2>1
    <2> QED BY <2>1, <2>2, <2>3 DEF Stream
  <1>9. Bytes'
    BY <1>1, <1>4, <1>6, <1>8 DEF Bytes, Stream
  <1>10. Stream[Taken + e] = "CRLF"
    BY <1>2, <1>3, <1>4 DEF Bytes
  <1>11. ASSUME NEW i \in Taken + 1 .. Taken + e - 1 PROVE Stream[i] # "CRLF"
    <2>1. i - Taken \in 1 .. Len(buffer) /\ i - Taken \in 1 .. e - 1 /\ Taken + (i - Taken) = i
      BY <1>1, <1>4
    <2> QED BY <1>2, <1>3, <2>1 DEF Bytes
  <1> QED BY <1>1, <1>3, <1>4, <1>6, <1>7, <1>9, <1>10, <1>11

LEMMA ConcatIs ==
    ASSUME NEW s \in Seq(Symbols), NEW t \in Seq(Symbols)
    PROVE  /\ s \o t \in Seq(Symbols) /\ Len(s \o t) = Len(s) + Len(t)
           /\ \A i \in 1 .. Len(s) + Len(t) :
                 (s \o t)[i] = IF i <= Len(s) THEN s[i] ELSE t[i - Len(s)]
  OBVIOUS

(* A read puts bytes behind the buffer and takes none. *)
LEMMA ReadKeepsBytes ==
    ASSUME Bytes, NEW n \in 1 .. Len(request.stream), ReadyRead(n)
    PROVE  Bytes' /\ Taken' = Taken /\ received' = received + n
  <1>1. /\ Stream \in Seq(Symbols) /\ Len(Stream) \in Nat /\ received \in Nat
        /\ buffer \in Seq(Symbols) /\ Len(buffer) \in Nat /\ Taken \in Nat
        /\ Taken + Len(buffer) = received
    BY StreamIs DEF Bytes
  <1>2. n \in Nat /\ received + n <= Len(Stream)
    BY <1>1 DEF ReadyRead, Stream
  <1>3. PICK piece : piece = SubSeq(Stream, received + 1, received + n)
    OBVIOUS
  <1>4. /\ piece \in Seq(Symbols) /\ Len(piece) = n
        /\ \A i \in 1 .. n : piece[i] = Stream[received + i]
    BY <1>1, <1>2, <1>3
  <1>5. request' = request /\ received' = received + n /\ buffer' = buffer \o piece
    BY <1>3 DEF ReadyRead, Stream
  <1>6. /\ buffer' \in Seq(Symbols) /\ Len(buffer') = Len(buffer) + n
        /\ \A i \in 1 .. Len(buffer) + n :
              buffer'[i] = IF i <= Len(buffer) THEN buffer[i] ELSE piece[i - Len(buffer)]
    BY <1>1, <1>4, <1>5, ConcatIs
  <1>7. Taken' = Taken
    BY <1>1, <1>2, <1>5, <1>6 DEF Taken
  <1>8. ASSUME NEW i \in 1 .. Len(buffer') PROVE buffer'[i] = Stream'[Taken' + i]
    <2>1. i \in 1 .. Len(buffer) + n /\ Stream' = Stream
      BY <1>5, <1>6 DEF Stream
    <2>2. CASE i <= Len(buffer)
      <3>1. i \in 1 .. Len(buffer) /\ buffer'[i] = buffer[i]
        BY <1>1, <1>6, <2>1, <2>2
      <3> QED BY <1>7, <2>1, <3>1 DEF Bytes
    <2>3. CASE ~(i <= Len(buffer))
      <3>1. i - Len(buffer) \in 1 .. n /\ received + (i - Len(buffer)) = Taken + i
        BY <1>1, <1>2, <2>1, <2>3
      <3>2. buffer'[i] = piece[i - Len(buffer)]
        BY <1>6, <2>1, <2>3
      <3>3. piece[i - Len(buffer)] = Stream[Taken + i]
        BY <1>4, <3>1
      <3> QED BY <1>7, <2>1, <3>2, <3>3
    <2> QED BY <2>2, <2>3
  <1>9. received' \in 0 .. Len(Stream') /\ Len(buffer') <= received'
    BY <1>1, <1>2, <1>5, <1>6 DEF Stream
  <1>10. Bytes'
    BY <1>5, <1>6, <1>8, <1>9 DEF Bytes
  <1> QED BY <1>5, <1>7, <1>10

ParserTypeOK ==
    /\ pc \in {"loop", "setup1", "setup2", "ended"}
    /\ method \in {"none", "get", "post", "other"}
    /\ headerDone \in BOOLEAN
    /\ contentLength \in Int
    /\ body \in Nat
    /\ accepted \in Nat

(* A round of the parser's loop leaves the bytes alone or takes a line. *)
LEMMA HeadTypeStep ==
    ASSUME Bytes, ParserTypeOK,
           Incomplete \/ EmptyRequestLine \/ RequestLine \/ HeaderEnd \/ HeaderLine
    PROVE  Bytes' /\ ParserTypeOK'
  <1>1. UNCHANGED <<request, received, body, accepted>>
    BY DEF Incomplete, EmptyRequestLine, RequestLine, HeaderEnd, HeaderLine, Parse, parser
  <1>2. buffer' = buffer \/ (Eol > 0 /\ NextLine)
    <2>1. Eol = 1 => Eol > 0
      OBVIOUS
    <2>2. Eol > 1 => Eol > 0
      BY EolIs DEF Bytes
    <2> QED BY <2>1, <2>2
            DEF Incomplete, EmptyRequestLine, RequestLine, HeaderEnd, HeaderLine, parser
  <1>3. Bytes'
    <2>1. CASE buffer' = buffer
      BY <1>1, <2>1 DEF Bytes, Stream, Taken
    <2> QED BY <1>1, <1>2, <2>1, LineIsTaken
  <1>4. contentLength' \in Int
    BY StreamIs DEF ParserTypeOK, Incomplete, EmptyRequestLine, RequestLine, HeaderEnd, HeaderLine,
                    parser
  <1>5. headerDone' \in BOOLEAN
    BY DEF ParserTypeOK, Incomplete, EmptyRequestLine, RequestLine, HeaderEnd, HeaderLine, parser
  <1>6. method' \in {"none", "get", "post", "other"}
    BY DEF ParserTypeOK, Incomplete, EmptyRequestLine, RequestLine, HeaderEnd, HeaderLine, parser
  <1>7. pc' \in {"loop", "setup1", "setup2", "ended"}
    BY DEF ParserTypeOK, Incomplete, EmptyRequestLine, RequestLine, HeaderEnd, HeaderLine,
           Return, Again
  <1> QED BY <1>1, <1>3, <1>4, <1>5, <1>6, <1>7 DEF ParserTypeOK

LEMMA BodyTypeStep ==
    ASSUME Bytes, ParserTypeOK, Body
    PROVE  Bytes' /\ ParserTypeOK' /\ Taken' = received
  <1>1. /\ UNCHANGED <<request, received, method, headerDone, contentLength>>
        /\ buffer' = <<>> /\ body' = body + Len(buffer) /\ pc' = "loop"
        /\ accepted' \in {accepted, accepted + 1}
    BY DEF Body, Parse, Return
  <1>2. Len(buffer') = 0 /\ buffer' \in Seq(Symbols) /\ Len(buffer) \in Nat /\ received \in Nat
    BY <1>1, StreamIs
  <1>3. Taken' = received
    BY <1>1, <1>2 DEF Taken
  <1>4. Bytes'
    BY <1>1, <1>2 DEF Bytes, Stream
  <1>5. body' \in Nat /\ accepted' \in Nat
    BY <1>1, <1>2 DEF ParserTypeOK
  <1> QED BY <1>1, <1>3, <1>4, <1>5 DEF ParserTypeOK

-----------------------------------------------------------------------------
(* Where the head of the stream ends, as far as it has been seen. *)
NoEmptyLine(n) == \A i \in 2 .. n - 1 : ~(Stream[i] = "CRLF" /\ Stream[i + 1] = "CRLF")

HeadIs(h) ==
    /\ h \in Nat /\ h >= 3
    /\ Stream[h - 1] = "CRLF" /\ Stream[h] = "CRLF"
    /\ NoEmptyLine(h - 1)

LengthUpTo(n) == IF \E i \in 2 .. n : LengthLine(Stream, i) THEN request.length ELSE NoLength

(* A prefix of the stream that goes beyond the end of its head is whole when it
   has the body that the head announces. *)
LEMMA WholeWithBody ==
    ASSUME Bytes, NEW h \in Nat, HeadIs(h), NEW n \in h .. Len(Stream)
    PROVE  Complete(SubSeq(Stream, 1, n)) <=> LengthUpTo(h) \in {NoLength, n - h}
  <1>1. Stream \in Seq(Symbols) /\ Len(Stream) \in Nat /\ h >= 3
    BY StreamIs DEF HeadIs
  <1>2. n \in Nat /\ h <= n /\ n <= Len(Stream)
    BY <1>1
  <1>3. PICK s : s = SubSeq(Stream, 1, n)
    OBVIOUS
  <1>4. Len(s) = n /\ \A i \in 1 .. n : s[i] = Stream[i]
    BY <1>1, <1>2, <1>3
  <1>5. h - 1 \in HeadEnds(s)
    <2>1. h - 1 \in 2 .. Len(s) - 1 /\ h - 1 \in 1 .. n /\ h \in 1 .. n /\ (h - 1) + 1 = h
      BY <1>1, <1>2, <1>4
    <2>2. s[h - 1] = "CRLF" /\ s[h] = "CRLF"
      BY <1>4, <2>1 DEF HeadIs
    <2> QED BY <2>1, <2>2 DEF HeadEnds
  <1>6. ASSUME NEW j \in HeadEnds(s) PROVE j \in Nat /\ h - 1 <= j
    <2>1. j \in 2 .. n - 1 /\ s[j] = "CRLF" /\ s[j + 1] = "CRLF"
      BY <1>4, <1>6 DEF HeadEnds
    <2>2. j \in 1 .. n /\ j + 1 \in 1 .. n /\ j \in Nat
      BY <1>2, <2>1
    <2>3. Stream[j] = "CRLF" /\ Stream[j + 1] = "CRLF"
      BY <1>4, <2>1, <2>2
    <2>4. j \notin 2 .. (h - 1) - 1
      BY <2>3 DEF HeadIs, NoEmptyLine
    <2> QED BY <1>1, <2>1, <2>2, <2>4
  <1>7. HeadSize(s) = h
    <2>1. \A i \in HeadEnds(s) : (\A j \in HeadEnds(s) : i <= j) => i = h - 1
      BY <1>1, <1>5, <1>6
    <2>2. (CHOOSE i \in HeadEnds(s) : \A j \in HeadEnds(s) : i <= j) = h - 1
      BY <1>5, <1>6, <2>1
    <2>3. HeadSize(s) = 1 + (h - 1)
      BY <2>2 DEF HeadSize
    <2> QED BY <1>1, <2>3
  <1>8. Announced(s) = LengthUpTo(h)
    <2>1. \A i \in 2 .. h : i \in 1 .. n /\ i - 1 \in 1 .. n
      BY <1>1, <1>2
    <2>2. \A i \in 2 .. h : LengthLine(s, i) <=> LengthLine(Stream, i)
      BY <1>4, <2>1 DEF LengthLine
    <2> QED BY <1>7, <2>2 DEF Announced, LengthUpTo
  <1>9. BodySize(s) = n - h
    BY <1>4, <1>7 DEF BodySize
  <1> QED BY <1>3, <1>5, <1>8, <1>9 DEF Complete

(* One in which no line is empty is not. *)
LEMMA NotWholeInHead ==
    ASSUME Bytes, NEW n \in 0 .. Len(Stream), NoEmptyLine(n)
    PROVE  ~Complete(SubSeq(Stream, 1, n))
  <1>1. Stream \in Seq(Symbols) /\ Len(Stream) \in Nat
    BY StreamIs
  <1>2. PICK s : s = SubSeq(Stream, 1, n)
    OBVIOUS
  <1>3. n \in Nat /\ Len(s) = n /\ \A i \in 1 .. n : s[i] = Stream[i]
    BY <1>1, <1>2
  <1>4. ASSUME NEW i \in HeadEnds(s) PROVE FALSE
    <2>1. i \in 2 .. n - 1 /\ s[i] = "CRLF" /\ s[i + 1] = "CRLF"
      BY <1>3, <1>4 DEF HeadEnds
    <2>2. i \in 1 .. n /\ i + 1 \in 1 .. n
      BY <1>3, <2>1
    <2>3. Stream[i] = "CRLF" /\ Stream[i + 1] = "CRLF"
      BY <1>3, <2>1, <2>2
    <2> QED BY <2>1, <2>3 DEF NoEmptyLine
  <1> QED BY <1>2, <1>4 DEF Complete

-----------------------------------------------------------------------------
(* The parser is in the head: no request has been handed over, and it knows of
   the lines it has left behind. *)
InHead ==
    /\ accepted = 0 /\ body = 0
    /\ pc # "setup2"
    /\ NoEmptyLine(Taken)
    /\ contentLength = LengthUpTo(Taken)
    /\ method = "none" => Taken = 0
    /\ method # "none" => Taken >= 2 /\ Stream[Taken] = "CRLF" /\ method \in {"get", "post"}
    /\ pc = "loop" => \A i \in 1 .. Len(buffer) : buffer[i] # "CRLF"

SomeReadIsWhole == \E n \in 0 .. received : Complete(SubSeq(Stream, 1, n))

(* It is past the head: between reads the body is not what was announced, or the
   request has been handed over. *)
PastHead ==
    /\ HeadIs(Taken - body)
    /\ contentLength = LengthUpTo(Taken - body)
    /\ pc = "setup1" => buffer = <<>> /\ contentLength > 0 /\ body = 0 /\ accepted = 0
    /\ pc = "loop" => buffer = <<>> /\ (accepted > 0 \/ contentLength \notin {NoLength, body})
    /\ accepted > 0 => SomeReadIsWhole

(* Nothing is promised once a line has been rejected. *)
Scanned == "rejected" \notin reasons => IF headerDone THEN PastHead ELSE InHead

ScanInv == Bytes /\ ParserTypeOK /\ Scanned

LEMMA InitScanInv == Init => ScanInv
  <1> SUFFICES ASSUME Init PROVE ScanInv
    OBVIOUS
  <1>0. ~headerDone /\ headerDone \in BOOLEAN
    BY DEF Init
  <1>1. /\ request \in Requests /\ received = 0 /\ buffer = <<>> /\ method = "none"
        /\ contentLength = NoLength /\ body = 0 /\ accepted = 0 /\ pc = "loop"
    BY DEF Init
  <1>2. Stream \in Seq(Symbols)
    BY <1>1, HttpSessionAssumption DEF Stream
  <1>3. Len(buffer) = 0 /\ buffer \in Seq(Symbols) /\ Len(Stream) \in Nat
    BY <1>1, <1>2
  <1>4. Bytes /\ Taken = 0
    <2>0. received = 0
      BY <1>1
    <2>1. Taken = 0
      BY <1>3, <2>0 DEF Taken
    <2>2. received \in 0 .. Len(Stream) /\ Len(buffer) <= received
      BY <1>1, <1>3
    <2>3. \A i \in 1 .. Len(buffer) : FALSE
      BY <1>3
    <2> QED BY <1>1, <1>3, <2>1, <2>2, <2>3 DEF Bytes
  <1>5. ParserTypeOK
    BY <1>0, <1>1 DEF ParserTypeOK, NoLength
  <1>6. NoEmptyLine(0) /\ LengthUpTo(0) = NoLength
    BY DEF NoEmptyLine, LengthUpTo
  <1>7. InHead
    BY <1>1, <1>3, <1>4, <1>6 DEF InHead
  <1> QED BY <1>0, <1>4, <1>5, <1>7 DEF ScanInv, Scanned

LEMMA ScanRead ==
    ASSUME ScanInv, NEW n \in 1 .. Len(request.stream), ReadyRead(n)
    PROVE  ScanInv'
  <1>1. Bytes' /\ Taken' = Taken /\ received' = received + n
    BY ReadKeepsBytes DEF ScanInv
  <1>2. /\ UNCHANGED <<request, method, headerDone, contentLength, body, accepted, reasons>>
        /\ pc = "loop" /\ pc' = IF headerDone THEN "setup2" ELSE "setup1"
    BY DEF ReadyRead
  <1>3. ParserTypeOK'
    BY <1>2 DEF ScanInv, ParserTypeOK
  <1>4. Stream' = Stream
    BY <1>2 DEF Stream
  <1>5. ASSUME "rejected" \notin reasons, headerDone PROVE PastHead'
    <2>1. PastHead
      BY <1>5 DEF ScanInv, Scanned
    <2>2. SomeReadIsWhole => SomeReadIsWhole'
      <3>1. \A i \in 0 .. received : i \in 0 .. received'
        BY <1>1, StreamIs DEF ScanInv
      <3>2. \A s : Complete(s)' <=> Complete(s)
        BY <1>2 DEF Complete, HeadEnds, HeadSize, BodySize, Announced, LengthLine
      <3> QED BY <1>4, <3>1, <3>2 DEF SomeReadIsWhole
    <2> QED BY <1>1, <1>2, <1>4, <1>5, <2>1, <2>2
            DEF PastHead, HeadIs, NoEmptyLine, LengthUpTo, LengthLine
  <1>6. ASSUME "rejected" \notin reasons, ~headerDone PROVE InHead'
    <2>1. InHead
      BY <1>6 DEF ScanInv, Scanned
    <2> QED BY <1>1, <1>2, <1>4, <1>6, <2>1 DEF InHead, NoEmptyLine, LengthUpTo, LengthLine
  <1>7. Scanned'
    BY <1>2, <1>5, <1>6 DEF Scanned
  <1> QED BY <1>1, <1>3, <1>7 DEF ScanInv

(* A round that finds no line, or ends, leaves the parser as it is. *)
LEMMA ScanIncomplete ==
    ASSUME ScanInv, Incomplete
    PROVE  Scanned'
  <1>1. /\ UNCHANGED <<request, received, buffer, method, headerDone, contentLength, body, accepted>>
        /\ pc = "setup1" /\ pc' = "loop" /\ ~HasLine
    BY DEF Incomplete, Parse, Return, parser
  <1>2. Taken' = Taken /\ Stream' = Stream
    BY <1>1 DEF Taken, Stream
  <1>3. "rejected" \notin reasons' => "rejected" \notin reasons
    BY DEF Incomplete, DeleteLater, DeleteAfter, NoDelete
  <1>4. \A i \in 1 .. Len(buffer) : buffer[i] # "CRLF"
    BY <1>1, EolIs DEF HasLine, ScanInv, Bytes
  <1>5. InHead => InHead'
    BY <1>1, <1>2, <1>4 DEF InHead, NoEmptyLine, LengthUpTo, LengthLine
  <1>6. PastHead => PastHead'
    <2> SUFFICES ASSUME PastHead PROVE PastHead'
      OBVIOUS
    <2>1. buffer' = <<>> /\ contentLength > 0 /\ body = 0 /\ accepted = 0 /\ contentLength \in Int
      BY <1>1 DEF PastHead, ScanInv, ParserTypeOK
    <2>2. contentLength' \notin {NoLength, body'} /\ accepted' = 0
      BY <1>1, <2>1 DEF NoLength
    <2> QED BY <1>1, <1>2, <2>1, <2>2 DEF PastHead, HeadIs, NoEmptyLine, LengthUpTo, LengthLine
  <1> QED BY <1>1, <1>3, <1>5, <1>6 DEF ScanInv, Scanned

(* A round that takes a line is in the head. *)
LEMMA LinesAreInHead ==
    ASSUME ScanInv, "rejected" \notin reasons, pc = "setup1", Eol > 0
    PROVE  ~headerDone /\ InHead
  <1>1. Eol \in 1 .. Len(buffer)
    BY EolIs DEF ScanInv, Bytes
  <1>2. buffer # <<>>
    BY <1>1
  <1>3. ~headerDone
    BY <1>2 DEF ScanInv, Scanned, PastHead
  <1> QED BY <1>3 DEF ScanInv, Scanned

(* What a line with a text adds to the head: no empty line, and a length when it
   begins where a line begins and is one of lengths. *)
LEMMA LineInHead ==
    ASSUME Bytes, Eol > 1, NextLine, UNCHANGED <<request, received>>,
           Taken > 0 => Stream[Taken] = "CRLF",
           NoEmptyLine(Taken)
    PROVE  /\ NoEmptyLine(Taken + Eol)
           /\ Taken = 0 => LengthUpTo(Taken + Eol) = NoLength /\ LengthUpTo(Taken) = NoLength
           /\ Taken >= 1 => LengthUpTo(Taken + Eol) =
                                IF Line[1] = "length" THEN request.length ELSE LengthUpTo(Taken)
  <1>1. /\ Taken \in Nat /\ Len(buffer) \in Nat /\ buffer \in Seq(Symbols)
        /\ Eol \in 1 .. Len(buffer)
        /\ Stream[Taken + Eol] = "CRLF"
        /\ \A i \in Taken + 1 .. Taken + Eol - 1 : Stream[i] # "CRLF"
    <2>1. Eol > 0
      BY EolIs DEF Bytes
    <2> QED BY <2>1, StreamIs, LineIsTaken DEF Bytes
  <1>2. PICK t, e \in Nat : t = Taken /\ e = Eol
    BY <1>1
  <1>3. /\ e > 1 /\ Stream[t + e] = "CRLF" /\ \A i \in t + 1 .. t + e - 1 : Stream[i] # "CRLF"
        /\ t > 0 => Stream[t] = "CRLF"
        /\ NoEmptyLine(t)
    BY <1>1, <1>2
  <1>4. NoEmptyLine(t + e)
    <2> SUFFICES ASSUME NEW i \in 2 .. t + e - 1
                 PROVE  ~(Stream[i] = "CRLF" /\ Stream[i + 1] = "CRLF")
      BY DEF NoEmptyLine
    <2>1. CASE i <= t - 1
      <3>1. i \in 2 .. t - 1
        BY <1>2, <2>1
      <3> QED BY <1>3, <3>1 DEF NoEmptyLine
    <2>2. CASE i = t
      <3>1. i + 1 \in t + 1 .. t + e - 1
        BY <1>2, <1>3, <2>2
      <3> QED BY <1>3, <3>1
    <2>3. CASE i > t
      <3>1. i \in t + 1 .. t + e - 1
        BY <1>2, <2>3
      <3> QED BY <1>3, <3>1
    <2> QED BY <1>2, <2>1, <2>2, <2>3
  <1>5. ASSUME NEW i \in 2 .. t + e, LengthLine(Stream, i)
        PROVE  i \in 2 .. t \/ (i = t + 1 /\ t >= 1)
    <2>1. i - 1 \notin t + 1 .. t + e - 1
      BY <1>3, <1>5 DEF LengthLine
    <2> QED BY <1>2, <1>5, <2>1
  <1>6. ASSUME t = 0 PROVE LengthUpTo(t + e) = NoLength /\ LengthUpTo(t) = NoLength
    <2>1. \A i \in 2 .. t + e : ~LengthLine(Stream, i)
      BY <1>2, <1>5, <1>6
    <2>2. \A i \in 2 .. t : i \in 2 .. t + e
      BY <1>2
    <2> QED BY <2>1, <2>2 DEF LengthUpTo
  <1>7. ASSUME t >= 1
        PROVE  LengthUpTo(t + e) = IF Line[1] = "length" THEN request.length ELSE LengthUpTo(t)
    <2>1. Line[1] = Stream[t + 1]
      <3>1. Line[1] = buffer[1]
        BY <1>1, <1>2, <1>3 DEF Line
      <3>2. 1 \in 1 .. Len(buffer)
        BY <1>1, <1>2, <1>3
      <3> QED BY <1>2, <3>1, <3>2 DEF Bytes
    <2>2. t + 1 \in 2 .. t + e /\ (t + 1) - 1 = t
      BY <1>2, <1>3, <1>7
    <2>3. Line[1] = "length" <=> LengthLine(Stream, t + 1)
      BY <1>2, <1>3, <1>7, <2>1, <2>2 DEF LengthLine
    <2>4. \A i \in 2 .. t : i \in 2 .. t + e
      BY <1>2
    <2> QED BY <1>5, <2>2, <2>3, <2>4 DEF LengthUpTo
  <1> QED BY <1>2, <1>4, <1>6, <1>7

LEMMA ScanRequestLine ==
    ASSUME ScanInv, RequestLine
    PROVE  Scanned'
  <1> SUFFICES ASSUME "rejected" \notin reasons' PROVE ~headerDone' /\ InHead'
    BY DEF Scanned
  <1>1. /\ pc = "setup1" /\ Eol > 1 /\ method = "none" /\ NextLine
        /\ UNCHANGED <<request, received, headerDone, contentLength, body, accepted>>
    BY DEF RequestLine, Parse
  <1>2. /\ "rejected" \notin reasons
        /\ method' \in {"get", "post"} /\ pc' = "setup1"
    BY <1>1 DEF RequestLine, DeleteLater, DeleteAfter, NoDelete, Again
  <1>3. Eol > 0 /\ Taken \in Nat
    BY <1>1, EolIs, StreamIs DEF ScanInv, Bytes
  <1>4. ~headerDone /\ InHead
    BY <1>1, <1>2, <1>3, LinesAreInHead
  <1>5. Taken = 0 /\ NoEmptyLine(Taken)
    BY <1>1, <1>4 DEF InHead
  <1>6. /\ Bytes' /\ Eol \in 1 .. Len(buffer) /\ Taken' = Taken + Eol
        /\ Stream[Taken + Eol] = "CRLF" /\ Stream' = Stream
    BY <1>1, <1>3, LineIsTaken DEF ScanInv, Stream
  <1>7. /\ NoEmptyLine(Taken + Eol)
        /\ LengthUpTo(Taken + Eol) = NoLength /\ LengthUpTo(Taken) = NoLength
    BY <1>1, <1>3, <1>5, LineInHead DEF ScanInv
  <1>8. NoEmptyLine(Taken)' /\ LengthUpTo(Taken)' = NoLength
    BY <1>1, <1>6, <1>7 DEF NoEmptyLine, LengthUpTo, LengthLine
  <1>9. Taken' >= 2 /\ Stream'[Taken'] = "CRLF"
    BY <1>1, <1>3, <1>6, StreamIs DEF ScanInv
  <1>10. contentLength' = LengthUpTo(Taken)'
    BY <1>1, <1>4, <1>7, <1>8 DEF InHead
  <1> QED BY <1>1, <1>2, <1>4, <1>8, <1>9, <1>10 DEF InHead

LEMMA ScanHeaderLine ==
    ASSUME ScanInv, HeaderLine
    PROVE  Scanned'
  <1> SUFFICES ASSUME "rejected" \notin reasons' PROVE ~headerDone' /\ InHead'
    BY DEF Scanned
  <1>1. /\ pc = "setup1" /\ Eol > 1 /\ method # "none"
        /\ UNCHANGED <<request, received, method, headerDone, body, accepted>>
    BY DEF HeaderLine, Parse
  <1>2. /\ "rejected" \notin reasons /\ NextLine /\ pc' = "setup1"
        /\ contentLength' = IF Line[1] = "length" THEN request.length ELSE contentLength
    BY <1>1 DEF HeaderLine, DeleteLater, DeleteAfter, NoDelete, Again
  <1>3. Eol > 0 /\ Taken \in Nat
    BY <1>1, EolIs, StreamIs DEF ScanInv, Bytes
  <1>4. ~headerDone /\ InHead
    BY <1>1, <1>2, <1>3, LinesAreInHead
  <1>5. /\ Taken >= 2 /\ Stream[Taken] = "CRLF" /\ NoEmptyLine(Taken)
        /\ contentLength = LengthUpTo(Taken) /\ method \in {"get", "post"}
    BY <1>1, <1>4 DEF InHead
  <1>6. /\ Bytes' /\ Eol \in 1 .. Len(buffer) /\ Taken' = Taken + Eol
        /\ Stream[Taken + Eol] = "CRLF" /\ Stream' = Stream
    BY <1>1, <1>2, <1>3, LineIsTaken DEF ScanInv, Stream
  <1>7. /\ NoEmptyLine(Taken + Eol)
        /\ LengthUpTo(Taken + Eol) = IF Line[1] = "length" THEN request.length ELSE LengthUpTo(Taken)
    <2>1. Taken >= 1
      BY <1>3, <1>5
    <2> QED BY <1>1, <1>2, <1>5, <2>1, LineInHead DEF ScanInv
  <1>8. NoEmptyLine(Taken)' /\ LengthUpTo(Taken)' = contentLength'
    BY <1>1, <1>2, <1>5, <1>6, <1>7 DEF NoEmptyLine, LengthUpTo, LengthLine
  <1>9. Taken' >= 2 /\ Stream'[Taken'] = "CRLF"
    BY <1>3, <1>5, <1>6, StreamIs DEF ScanInv
  <1> QED BY <1>1, <1>2, <1>4, <1>5, <1>8, <1>9 DEF InHead

(* The empty line is where the head of the stream ends. *)
LEMMA ScanHeaderEnd ==
    ASSUME ScanInv, HeaderEnd
    PROVE  Scanned'
  <1> SUFFICES ASSUME "rejected" \notin reasons' PROVE headerDone' /\ PastHead'
    BY DEF Scanned
  <1>1. /\ pc = "setup1" /\ Eol = 1 /\ method # "none" /\ NextLine /\ headerDone' = TRUE
        /\ pc' = IF method = "get" \/ (method = "post" /\ (contentLength > 0 => buffer' # <<>>))
                 THEN "setup2" ELSE "setup1"
        /\ UNCHANGED <<request, received, method, contentLength, body, accepted, reasons>>
    BY DEF HeaderEnd, Parse
  <1>2. "rejected" \notin reasons
    BY <1>1
  <1>3. ~headerDone /\ InHead
    BY <1>1, <1>2, LinesAreInHead
  <1>4. /\ Taken >= 2 /\ Stream[Taken] = "CRLF" /\ NoEmptyLine(Taken)
        /\ contentLength = LengthUpTo(Taken) /\ method \in {"get", "post"}
        /\ body = 0 /\ accepted = 0 /\ Taken \in Nat
    BY <1>1, <1>3, StreamIs DEF InHead, ScanInv
  <1>5. Taken' = Taken + 1 /\ Stream[Taken + 1] = "CRLF" /\ Stream' = Stream
    BY <1>1, LineIsTaken DEF ScanInv, Stream
  <1>6. PICK h \in Nat : h = Taken + 1 /\ h = Taken' - body'
    BY <1>1, <1>4, <1>5
  <1>7. HeadIs(h)
    <2>1. h - 1 = Taken /\ h >= 3
      BY <1>4, <1>6
    <2> QED BY <1>4, <1>5, <1>6, <2>1 DEF HeadIs
  <1>8. LengthUpTo(h) = LengthUpTo(Taken)
    <2>1. \A i \in 2 .. h : i \in 2 .. Taken \/ i = h
      BY <1>4, <1>6
    <2>2. \A i \in 2 .. Taken : i \in 2 .. h
      BY <1>4, <1>6
    <2>3. ~LengthLine(Stream, h)
      BY <1>5, <1>6 DEF LengthLine
    <2> QED BY <2>1, <2>2, <2>3 DEF LengthUpTo
  <1>9. pc' = "setup1" => buffer' = <<>> /\ contentLength' > 0
    BY <1>1, <1>4
  <1>10. HeadIs(Taken - body)' /\ LengthUpTo(Taken - body)' = LengthUpTo(h)
    BY <1>1, <1>5, <1>6, <1>7 DEF HeadIs, NoEmptyLine, LengthUpTo, LengthLine
  <1>11. pc' # "loop" /\ accepted' = 0 /\ body' = 0 /\ contentLength' = LengthUpTo(Taken - body)'
    BY <1>1, <1>4, <1>8, <1>10
  <1> QED BY <1>1, <1>9, <1>10, <1>11 DEF PastHead

(* The request is handed over when the bytes read so far are the whole of it. *)
LEMMA ScanBody ==
    ASSUME ScanInv, Body
    PROVE  Scanned'
  <1> SUFFICES ASSUME "rejected" \notin reasons' PROVE headerDone' /\ PastHead'
    BY DEF Scanned
  <1>1. /\ pc = "setup2" /\ pc' = "loop"
        /\ body' = body + Len(buffer) /\ buffer' = <<>>
        /\ accepted' = IF contentLength # NoLength /\ body' # contentLength
                       THEN accepted ELSE accepted + 1
        /\ UNCHANGED <<request, received, headerDone, contentLength, reasons>>
    BY DEF Body, Parse, Return, NoDelete
  <1>2. headerDone /\ PastHead
    BY <1>1 DEF ScanInv, Scanned, InHead
  <1>3. /\ Len(buffer) \in Nat /\ Taken \in Nat /\ Taken + Len(buffer) = received
        /\ received <= Len(Stream) /\ Len(Stream) \in Nat /\ body \in Nat
    BY StreamIs DEF ScanInv, ParserTypeOK
  <1>4. Taken' = received /\ Stream' = Stream
    BY <1>1, BodyTypeStep DEF ScanInv, Stream
  <1>5. PICK h \in Nat : h = Taken - body
    BY <1>2 DEF PastHead, HeadIs
  <1>6. HeadIs(h) /\ contentLength = LengthUpTo(h)
    BY <1>2, <1>5 DEF PastHead
  <1>7. Taken' - body' = h /\ h + body' = received
    BY <1>1, <1>3, <1>4, <1>5
  <1>8. HeadIs(Taken - body)' /\ contentLength' = LengthUpTo(Taken - body)'
    BY <1>1, <1>4, <1>6, <1>7 DEF HeadIs, NoEmptyLine, LengthUpTo, LengthLine
  <1>9. \A s : Complete(s)' <=> Complete(s)
    BY <1>1 DEF Complete, HeadEnds, HeadSize, BodySize, Announced, LengthLine
  <1>10. CASE contentLength # NoLength /\ body' # contentLength
    <2>1. accepted' = accepted
      BY <1>1, <1>10
    <2>2. accepted' > 0 => SomeReadIsWhole'
      BY <1>1, <1>2, <1>4, <1>9, <2>1 DEF PastHead, SomeReadIsWhole
    <2> QED BY <1>1, <1>2, <1>8, <1>10, <2>2 DEF PastHead
  <1>11. CASE ~(contentLength # NoLength /\ body' # contentLength)
    <2>1. accepted' > 0
      BY <1>1, <1>11 DEF ScanInv, ParserTypeOK
    <2>2. received \in h .. Len(Stream) /\ received - h = body' /\ received \in 0 .. received
      BY <1>1, <1>3, <1>5, <1>7
    <2>3. contentLength \in {NoLength, received - h}
      BY <1>11, <2>2
    <2>4. Complete(SubSeq(Stream, 1, received))
      BY <1>6, <2>2, <2>3, WholeWithBody DEF ScanInv
    <2>5. SomeReadIsWhole'
      BY <1>1, <1>4, <1>9, <2>2, <2>4 DEF SomeReadIsWhole
    <2> QED BY <1>1, <1>2, <1>8, <2>1, <2>5 DEF PastHead
  <1> QED BY <1>10, <1>11

(* Steps that leave the parser and what it has read alone. *)
LEMMA ScanUnchanged ==
    ASSUME ScanInv, UNCHANGED <<request, received, pc, parser>>, reasons \subseteq reasons'
    PROVE  ScanInv'
  <1>1. /\ UNCHANGED <<request, received, pc, buffer, method, headerDone, contentLength, body,
                       accepted, Taken, Stream>>
    BY DEF parser, Taken, Stream
  <1>2. Bytes' /\ ParserTypeOK'
    BY <1>1 DEF ScanInv, Bytes, ParserTypeOK
  <1>3. InHead => InHead'
    BY <1>1 DEF InHead, NoEmptyLine, LengthUpTo, LengthLine
  <1>4. \A s : Complete(s)' <=> Complete(s)
    BY <1>1 DEF Complete, HeadEnds, HeadSize, BodySize, Announced, LengthLine
  <1>5. PastHead => PastHead'
    BY <1>1, <1>4
       DEF PastHead, HeadIs, NoEmptyLine, LengthUpTo, LengthLine, SomeReadIsWhole
  <1> QED BY <1>1, <1>2, <1>3, <1>5 DEF ScanInv, Scanned

(* The end of the event loop: what held between reads holds for good. *)
LEMMA ScanFinishes ==
    ASSUME ScanInv, ServerFinishes
    PROVE  ScanInv'
  <1>1. /\ UNCHANGED <<request, received, buffer, method, headerDone, contentLength, body,
                       accepted, reasons, Taken, Stream>>
        /\ pc = "loop" /\ pc' = "ended"
    BY DEF ServerFinishes, parser, Taken, Stream
  <1>2. Bytes' /\ ParserTypeOK'
    BY <1>1 DEF ScanInv, Bytes, ParserTypeOK
  <1>3. InHead => InHead'
    BY <1>1 DEF InHead, NoEmptyLine, LengthUpTo, LengthLine
  <1>4. \A s : Complete(s)' <=> Complete(s)
    BY <1>1 DEF Complete, HeadEnds, HeadSize, BodySize, Announced, LengthLine
  <1>5. PastHead => PastHead'
    BY <1>1, <1>4
       DEF PastHead, HeadIs, NoEmptyLine, LengthUpTo, LengthLine, SomeReadIsWhole
  <1> QED BY <1>1, <1>2, <1>3, <1>5 DEF ScanInv, Scanned

LEMMA ScanParser ==
    ASSUME ScanInv, Parser
    PROVE  ScanInv'
  <1>1. CASE Body
    BY <1>1, ScanBody, BodyTypeStep DEF ScanInv
  <1>2. CASE EmptyRequestLine
    <2>1. "rejected" \in reasons'
      BY <1>2 DEF EmptyRequestLine, DeleteLater, DeleteAfter
    <2> QED BY <1>2, <2>1, HeadTypeStep DEF ScanInv, Scanned
  <1>3. CASE Incomplete \/ RequestLine \/ HeaderLine \/ HeaderEnd
    <2>1. Scanned'
      BY <1>3, ScanIncomplete, ScanRequestLine, ScanHeaderLine, ScanHeaderEnd
    <2> QED BY <1>3, <2>1, HeadTypeStep DEF ScanInv
  <1> QED BY <1>1, <1>2, <1>3 DEF Parser

LEMMA ScanStep ==
    ASSUME ScanInv, [Next]_vars
    PROVE  ScanInv'
  <1>1. ASSUME NEW n \in 1 .. Len(request.stream), ReadyRead(n)
        PROVE  ScanInv'
    BY <1>1, ScanRead
  <1>2. CASE Parser
    BY <1>2, ScanParser
  <1>3. ASSUME NEW kind \in Replies, DropReply(kind) \/ FailReply(kind) \/ HandlerReplies(kind)
        PROVE  ScanInv'
    BY <1>3, ScanUnchanged DEF DropReply, FailReply, HandlerReplies, Take, DeleteAfter
  <1>4. ASSUME NEW kind \in Replies, NEW content \in 0 .. MaxContent, BeginReply(kind, content)
        PROVE  ScanInv'
    BY <1>4, ScanUnchanged DEF BeginReply, Take
  <1>5. ASSUME NEW n \in 1 .. 1 + MaxContent, BytesWritten(n)
        PROVE  ScanInv'
    BY <1>5, ScanUnchanged DEF BytesWritten, DeleteLater, DeleteAfter, NoDelete
  <1>6. CASE Timeout \/ Delete \/ DeleteAtThreadEnd \/ UNCHANGED vars
    BY <1>6, ScanUnchanged
       DEF Timeout, Delete, DeleteAtThreadEnd, Take, DeleteLater, DeleteAfter, vars
  <1>7. CASE ServerFinishes
    BY <1>7, ScanFinishes
  <1> QED BY <1>1, <1>2, <1>3, <1>4, <1>5, <1>6, <1>7 DEF Next, EventLoop

LEMMA ScanInvariance == Spec => []ScanInv
  BY InitScanInv, ScanStep, PTL DEF Spec

(* No handler sees half a request: when one is called, the bytes up to some read
   are a whole request, however they were cut into reads (lines 627-758). *)
THEOREM AcceptedRequestsAreWhole == Spec => []AcceptedIsWhole
  <1>1. ScanInv => AcceptedIsWhole
    <2> SUFFICES ASSUME ScanInv, accepted > 0, "rejected" \notin reasons
                 PROVE  \E n \in 0 .. received : Complete(SubSeq(request.stream, 1, n))
      BY DEF AcceptedIsWhole
    <2>1. headerDone
      BY DEF ScanInv, Scanned, InHead
    <2> QED BY <2>1 DEF ScanInv, Scanned, PastHead, SomeReadIsWhole, Stream
  <1> QED BY <1>1, ScanInvariance, PTL

(* A whole request is not left lying: when the last read ended with it, the parser
   has handed it over before it returns (lines 687-699, 738-758). *)
THEOREM WholeRequestsAreAccepted == Spec => []WholeIsAccepted
  <1>1. ScanInv => WholeIsAccepted
    <2> SUFFICES ASSUME ScanInv, pc = "loop", "rejected" \notin reasons,
                        Complete(SubSeq(Stream, 1, received))
                 PROVE  accepted > 0
      BY DEF WholeIsAccepted, Received, Stream
    <2>1. /\ Len(buffer) \in Nat /\ Taken \in Nat /\ Taken + Len(buffer) = received
          /\ received <= Len(Stream) /\ Len(Stream) \in Nat /\ body \in Nat
      BY StreamIs DEF ScanInv, ParserTypeOK
    <2>2. CASE headerDone
      <3> SUFFICES ASSUME ~(accepted > 0) PROVE FALSE
        OBVIOUS
      <3>1. /\ HeadIs(Taken - body) /\ contentLength = LengthUpTo(Taken - body)
            /\ buffer = <<>> /\ contentLength \notin {NoLength, body}
        BY <2>2 DEF ScanInv, Scanned, PastHead
      <3>2. Taken = received
        BY <2>1, <3>1
      <3>3. PICK h \in Nat : h = Taken - body
        BY <3>1 DEF HeadIs
      <3>4. received \in h .. Len(Stream) /\ received - h = body
        BY <2>1, <3>2, <3>3
      <3>5. LengthUpTo(h) \in {NoLength, received - h}
        BY <3>1, <3>3, <3>4, WholeWithBody DEF ScanInv
      <3> QED BY <3>1, <3>3, <3>4, <3>5
    <2>3. CASE ~headerDone
      <3>1. NoEmptyLine(Taken) /\ \A i \in 1 .. Len(buffer) : buffer[i] # "CRLF"
        BY <2>3 DEF ScanInv, Scanned, InHead
      <3>2. ASSUME NEW i \in 2 .. received - 1, Stream[i] = "CRLF", Stream[i + 1] = "CRLF"
            PROVE  FALSE
        <4>1. i >= Taken
          BY <2>1, <3>1, <3>2 DEF NoEmptyLine
        <4>2. (i + 1) - Taken \in 1 .. Len(buffer) /\ Taken + ((i + 1) - Taken) = i + 1
          BY <2>1, <4>1
        <4>3. buffer[(i + 1) - Taken] = Stream[i + 1]
          BY <4>2 DEF ScanInv, Bytes
        <4> QED BY <3>1, <3>2, <4>2, <4>3
      <3>3. NoEmptyLine(received) /\ received \in 0 .. Len(Stream)
        BY <2>1, <3>2 DEF NoEmptyLine
      <3> QED BY <3>3, NotWholeInHead DEF ScanInv
    <2> QED BY <2>2, <2>3
  <1> QED BY <1>1, ScanInvariance, PTL

-----------------------------------------------------------------------------
(* What is left of the type invariant. *)
RestTypeOK ==
    /\ socket \in {"open", "gone"}
    /\ timer \in {"off", "on"}
    /\ calls \in 0 .. MaxCalls
    /\ reasons \in SUBSET {"rejected", "failed", "sent", "timeout"}

LEMMA RestStep ==
    ASSUME RestTypeOK, [Next]_vars
    PROVE  RestTypeOK'
  <1>1. MaxCalls \in Nat
    BY HttpSessionAssumption
  <1>2. CASE Parser
    BY <1>2 DEF RestTypeOK, Parser, Incomplete, EmptyRequestLine, RequestLine, HeaderEnd, HeaderLine,
                Body, Parse, Return, Again, DeleteLater, DeleteAfter, NoDelete
  <1>3. ASSUME NEW kind \in Replies, DropReply(kind) \/ FailReply(kind) \/ HandlerReplies(kind)
        PROVE  RestTypeOK'
    <2>1. UNCHANGED <<socket, timer>> /\ reasons' \in {reasons, reasons \union {"failed"}}
      BY <1>3 DEF DropReply, FailReply, HandlerReplies, DeleteAfter
    <2>2. calls' = calls \/ (calls < MaxCalls /\ calls' = calls + 1)
      BY <1>3 DEF DropReply, FailReply, HandlerReplies, Take
    <2> QED BY <1>1, <2>1, <2>2 DEF RestTypeOK
  <1>4. ASSUME NEW kind \in Replies, NEW content \in 0 .. MaxContent, BeginReply(kind, content)
        PROVE  RestTypeOK'
    BY <1>4 DEF RestTypeOK, BeginReply, Take
  <1>5. ASSUME NEW n \in 1 .. 1 + MaxContent, BytesWritten(n)
        PROVE  RestTypeOK'
    BY <1>5 DEF RestTypeOK, BytesWritten, DeleteLater, DeleteAfter, NoDelete
  <1>6. CASE Timeout \/ Delete \/ ServerFinishes \/ DeleteAtThreadEnd \/ UNCHANGED vars
    BY <1>6 DEF RestTypeOK, Timeout, Delete, ServerFinishes, DeleteAtThreadEnd, Destruct, Take,
                DeleteLater, DeleteAfter, vars
  <1>7. ASSUME NEW n \in 1 .. Len(request.stream), ReadyRead(n)
        PROVE  RestTypeOK'
    BY <1>7 DEF RestTypeOK, ReadyRead
  <1> QED BY <1>2, <1>3, <1>4, <1>5, <1>6, <1>7 DEF Next, EventLoop

(* The session's members keep their types: no count goes below zero, nothing is
   read beyond the stream, and the size of the body is never negative. *)
THEOREM SessionTypeCorrect == Spec => []TypeOK
  <1>1. Init => LifeInv /\ RestTypeOK
    <2> SUFFICES ASSUME Init PROVE LifeInv /\ RestTypeOK
      OBVIOUS
    <2>1. session = "alive" /\ posted = <<>>
      BY DEF Init
    <2>2. socket = "open" /\ timer = "off" /\ calls = 0 /\ reasons = {}
      BY DEF Init
    <2>3. 0 \in 0 .. MaxCalls
      BY HttpSessionAssumption
    <2> QED BY <2>1, <2>2, <2>3 DEF LifeInv, RestTypeOK
  <1>2. LifeInv /\ RestTypeOK /\ [Next]_vars => LifeInv' /\ RestTypeOK'
    BY LifeStep, RestStep DEF LifeGoesOn, LifeInv
  <1>3. ReplyInv /\ ScanInv /\ LifeInv /\ RestTypeOK => TypeOK
    BY DEF ReplyInv, ReplyTypeOK, ScanInv, Bytes, Stream, ParserTypeOK, LifeInv, Events,
           RestTypeOK, TypeOK
  <1> QED BY <1>1, <1>2, <1>3, ReplyInvariance, ScanInvariance, PTL DEF Spec

-----------------------------------------------------------------------------
(* Action property: a round of the parser's loop that does not return takes a line
   out of the buffer, so that the loop ends whatever was read (lines 631-731). *)
RoundsShrink == [][Parser /\ pc' # "loop" => Len(buffer') < Len(buffer)]_vars

(* The parser's loop ends: the buffer is what its rounds are counted by. *)
THEOREM ParserLoopEnds == Spec => RoundsShrink
  <1>1. ASSUME ScanInv, Parser, pc' # "loop"
        PROVE  Len(buffer') < Len(buffer)
    <2>1. RequestLine \/ HeaderEnd \/ HeaderLine
      BY <1>1 DEF Parser, Incomplete, EmptyRequestLine, Body, Return
    <2>2. NextLine /\ (Eol = 1 \/ Eol > 1) /\ UNCHANGED <<request, received>>
      BY <1>1, <2>1 DEF RequestLine, HeaderEnd, HeaderLine, Return, Parse
    <2>3. Eol > 0 /\ Eol \in Nat
      BY <2>2, <1>1, EolIs DEF ScanInv, Bytes
    <2>4. Len(buffer') = Len(buffer) - Eol /\ Len(buffer) \in Nat
      BY <1>1, <2>2, <2>3, LineIsTaken, StreamIs DEF ScanInv
    <2> QED BY <2>3, <2>4
  <1>2. ScanInv /\ [Next]_vars => [Parser /\ pc' # "loop" => Len(buffer') < Len(buffer)]_vars
    BY <1>1
  <1> QED BY <1>2, ScanInvariance, PTL DEF Spec, RoundsShrink

-----------------------------------------------------------------------------
(* Action property: a good request is rejected for one reason only, which is that
   more than Probe symbols of its request line were read before the line's end;
   no header line of it is, however the reads cut it (lines 637-731). *)
OnlyASplitRejects ==
    [][WellFormed(Stream) /\ "rejected" \in reasons' \ reasons
           => method = "none" /\ ~HasLine /\ Len(buffer) > Probe]_vars

(* Where a line of a good request begins, it says what line it is. *)
LEMMA GoodLine ==
    ASSUME Bytes, WellFormed(Stream), Taken >= 2, Stream[Taken] = "CRLF", NoEmptyLine(Taken),
           Stream[Taken + 1] # "CRLF"
    PROVE  Stream[Taken + 1] \in Colon \ {"colon"}
  <1>1. /\ Stream \in Seq(Symbols) /\ Len(Stream) \in Nat /\ Taken \in Nat
        /\ HeadEnds(Stream) # {}
    BY StreamIs DEF WellFormed
  <1>2. HeadEnds(Stream) \in SUBSET Nat
    BY <1>1 DEF HeadEnds
  <1>3. \E i \in HeadEnds(Stream) : \A j \in HeadEnds(Stream) : i <= j
    BY <1>1, <1>2, LeastElement
  <1>4. PICK m : m = CHOOSE i \in HeadEnds(Stream) : \A j \in HeadEnds(Stream) : i <= j
    OBVIOUS
  <1>5. m \in HeadEnds(Stream) /\ HeadSize(Stream) = 1 + m
    BY <1>3, <1>4 DEF HeadSize
  <1>6. m \in 2 .. Len(Stream) - 1 /\ Stream[m] = "CRLF" /\ Stream[m + 1] = "CRLF"
    BY <1>5 DEF HeadEnds
  <1>7. m \notin 2 .. Taken - 1 /\ m # Taken
    BY <1>6 DEF NoEmptyLine
  <1>8. Taken + 1 \in 2 .. HeadSize(Stream) - 1 /\ (Taken + 1) - 1 = Taken
    BY <1>1, <1>5, <1>6, <1>7
  <1> QED BY <1>8 DEF WellFormed, Colon

THEOREM GoodIsRejectedForASplit == Spec => OnlyASplitRejects
  <1>1. ASSUME ScanInv, [Next]_vars, WellFormed(Stream), "rejected" \in reasons' \ reasons
        PROVE  method = "none" /\ ~HasLine /\ Len(buffer) > Probe
    <2>1. Incomplete \/ EmptyRequestLine \/ RequestLine \/ HeaderLine
      BY <1>1 DEF Next, EventLoop, Parser, ReadyRead, Timeout, Delete, DropReply, FailReply, BeginReply,
             BytesWritten, ServerFinishes, DeleteAtThreadEnd, Take, HandlerReplies, HeaderEnd, Body, DeleteLater,
             DeleteAfter, NoDelete, vars
    <2>2. CASE Incomplete
      BY <1>1, <2>2 DEF Incomplete, NoDelete
    <2>3. ASSUME EmptyRequestLine \/ RequestLine \/ HeaderLine PROVE FALSE
      <3>1. pc = "setup1" /\ (Eol = 1 \/ Eol > 1)
        BY <2>3 DEF EmptyRequestLine, RequestLine, HeaderLine
      <3>2. Eol \in 1 .. Len(buffer) /\ Len(buffer) \in Nat /\ buffer \in Seq(Symbols) /\ Eol > 0
        BY <1>1, <3>1, EolIs DEF ScanInv, Bytes
      <3>3. InHead
        BY <1>1, <3>1, <3>2, LinesAreInHead
      <3>4. buffer[1] = Stream[Taken + 1] /\ Taken \in Nat
        BY <1>1, <3>2, StreamIs DEF ScanInv, Bytes
      <3>5. Eol > 1 => Line[1] = buffer[1]
        BY <3>2 DEF Line
      <3>6. CASE method = "none"
        <4>1. buffer[1] \in {"get", "post"}
          BY <1>1, <3>3, <3>4, <3>6 DEF InHead, WellFormed
        <4>2. ~EmptyRequestLine
          BY <3>2, <4>1, EolIs DEF EmptyRequestLine
        <4>3. ~RequestLine
          BY <1>1, <3>5, <4>1 DEF RequestLine, NoDelete
        <4> QED BY <2>3, <3>6, <4>2, <4>3 DEF HeaderLine
      <3>7. CASE method # "none"
        <4>1. HeaderLine /\ Eol > 1 /\ NoKey
          BY <1>1, <2>3, <3>7 DEF EmptyRequestLine, RequestLine, HeaderLine, NoDelete
        <4>2. buffer[1] # "CRLF"
          BY <3>2, <4>1, EolIs
        <4>3. buffer[1] \in Colon \ {"colon"}
          BY <1>1, <3>3, <3>4, <3>7, <4>2, GoodLine DEF InHead, ScanInv
        <4>4. buffer[1] \in Range(buffer)
          BY <3>2 DEF Range
        <4> QED BY <4>1, <4>3, <4>4 DEF NoKey
      <3> QED BY <3>6, <3>7
    <2> QED BY <2>1, <2>2, <2>3
  <1>2. ScanInv /\ [Next]_vars
        => [WellFormed(Stream) /\ "rejected" \in reasons' \ reasons
                => method = "none" /\ ~HasLine /\ Len(buffer) > Probe]_vars
    BY <1>1
  <1> QED BY <1>2, ScanInvariance, PTL DEF Spec, OnlyASplitRejects

-----------------------------------------------------------------------------
(* A session that has read anything is never left without a timer: whatever the
   client and the handlers do not do, a timeout comes (lines 111-127). *)
ReadIsTimed == received > 0 /\ session = "alive" /\ pc = "loop" => timer = "on"

TimedInv == ReadIsTimed /\ received \in Nat /\ (session = "deleted" => pc \in {"loop", "ended"})

THEOREM SessionsAreTimed == Spec => []ReadIsTimed
  <1>1. Init => TimedInv
    BY DEF Init, TimedInv, ReadIsTimed
  <1>2. ASSUME TimedInv, [Next]_vars PROVE TimedInv'
    <2>1. CASE Parser
      BY <1>2, <2>1 DEF TimedInv, ReadIsTimed, Parser, Incomplete, EmptyRequestLine, RequestLine,
              HeaderLine, HeaderEnd, Body, Parse, Return, Again
    <2>2. ASSUME NEW kind \in Replies, DropReply(kind) \/ FailReply(kind) \/ HandlerReplies(kind)
          PROVE  TimedInv'
      BY <1>2, <2>2 DEF TimedInv, ReadIsTimed, DropReply, FailReply, HandlerReplies, Take
    <2>3. ASSUME NEW kind \in Replies, NEW content \in 0 .. MaxContent, BeginReply(kind, content)
          PROVE  TimedInv'
      BY <1>2, <2>3 DEF TimedInv, ReadIsTimed, BeginReply, Take
    <2>4. ASSUME NEW n \in 1 .. 1 + MaxContent, BytesWritten(n)
          PROVE  TimedInv'
      BY <1>2, <2>4 DEF TimedInv, ReadIsTimed, BytesWritten
    <2>5. CASE Timeout \/ Delete \/ ServerFinishes \/ DeleteAtThreadEnd \/ UNCHANGED vars
      BY <1>2, <2>5 DEF TimedInv, ReadIsTimed, Timeout, Delete, ServerFinishes, DeleteAtThreadEnd,
              Destruct, Take, vars
    <2>6. ASSUME NEW n \in 1 .. Len(request.stream), ReadyRead(n)
          PROVE  TimedInv'
      BY <1>2, <2>6 DEF TimedInv, ReadIsTimed, ReadyRead
    <2> QED BY <1>2, <2>1, <2>2, <2>3, <2>4, <2>5, <2>6 DEF Next, EventLoop
  <1>3. TimedInv => ReadIsTimed
    BY DEF TimedInv
  <1> QED BY <1>1, <1>2, <1>3, PTL DEF Spec
=============================================================================
