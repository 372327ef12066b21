-------------------------- MODULE HttpClientProofs --------------------------
(***************************************************************************)
(* What JQNet::HTTP's calls return, for any number of calls, nested in any *)
(* way.  An answer, the flag the handlers share and the code of the event  *)
(* loop go together as long as the thread is not told to quit; nesting     *)
(* shows only in the stack.                                                *)
(***************************************************************************)
EXTENDS HttpClient, TLAPS

(* The handlers' flag is the memory of the answer. *)
FlagInv ==
    \A c \in Calls :
        \/ ~isCalled[c] /\ answers[c] = <<>>
        \/ isCalled[c] /\ \E o \in Outcomes : answers[c] = <<o>>

(* So are the code and the flag for a timeout, which make up the result. *)
CodeFor(c) == IF answers[c] = <<"finished">> THEN 1 ELSE 0
ExitInv ==
    \A c \in Blocking \ cut :
        /\ code[c] = IF isCalled[c] THEN CodeFor(c) ELSE NoCode
        /\ failFlag[c] => answers[c] = <<"timeout">>
        /\ result[c] # "none" => isCalled[c] /\ (result[c] = "true" <=> CodeFor(c) = 1)

(* Results are those of blocking calls, and only the order to quit cuts one. *)
MadeInv == \A c \in Calls : result[c] # "none" => c \in Blocking /\ reply[c] # "none"
CutInv  == ~quit => cut = {}

IInv == TypeOK /\ FlagInv /\ ExitInv /\ MadeInv /\ CutInv

-----------------------------------------------------------------------------
(* The stack of calls: one more, and one less. *)
LEMMA Push ==
    ASSUME NEW S, NEW s \in Seq(S), NEW c \in S
    PROVE  /\ <<c>> \o s \in Seq(S)
           /\ Len(<<c>> \o s) = Len(s) + 1
           /\ (<<c>> \o s)[1] = c
           /\ \A k \in 1 .. Len(s) : (<<c>> \o s)[k + 1] = s[k]
<1>1. <<c>> \in Seq(S) /\ Len(<<c>>) = 1 /\ <<c>>[1] = c
    OBVIOUS
<1> QED
    BY <1>1

LEMMA Pop ==
    ASSUME NEW S, NEW s \in Seq(S), s # <<>>
    PROVE  /\ Tail(s) \in Seq(S)
           /\ Len(Tail(s)) = Len(s) - 1
           /\ Head(s) = s[1] /\ 1 \in 1 .. Len(s)
           /\ \A k \in 1 .. Len(s) - 1 : Tail(s)[k] = s[k + 1]
OBVIOUS


(* A call that was not on the stack is pushed. *)
LEMMA PushStep ==
    ASSUME TypeOK, NEW c \in Blocking, ~InStack(c), stack' = <<c>> \o stack
    PROVE  /\ stack' \in Seq(Blocking)
           /\ \A d : InStack(d)' <=> d = c \/ InStack(d)
           /\ \A j, k \in 1 .. Len(stack') : stack'[j] = stack'[k] => j = k
<1>1. stack \in Seq(Blocking) /\ \A j, k \in 1 .. Len(stack) : stack[j] = stack[k] => j = k
    BY DEF TypeOK
<1>2. /\ stack' \in Seq(Blocking)
      /\ Len(stack') = Len(stack) + 1
      /\ stack'[1] = c
      /\ \A k \in 1 .. Len(stack) : stack'[k + 1] = stack[k]
    BY <1>1, Push
<1>3. \A k \in 1 .. Len(stack') : k # 1 => k - 1 \in 1 .. Len(stack) /\ stack'[k] = stack[k - 1]
    BY <1>1, <1>2
<1>4. ASSUME NEW d PROVE InStack(d)' <=> d = c \/ InStack(d)
  <2>1. InStack(d)' => d = c \/ InStack(d)
    BY <1>2, <1>3 DEF InStack
  <2>2. InStack(d) => InStack(d)'
    BY <1>1, <1>2 DEF InStack
  <2>3. InStack(c)'
    BY <1>1, <1>2 DEF InStack
  <2> QED
    BY <2>1, <2>2, <2>3
<1>5. ASSUME NEW j \in 1 .. Len(stack'), NEW k \in 1 .. Len(stack'), stack'[j] = stack'[k]
      PROVE  j = k
  <2>1. CASE j = 1 \/ k = 1
    BY <1>2, <1>3, <1>5, <2>1 DEF InStack
  <2>2. CASE j # 1 /\ k # 1
    <3>1. stack[j - 1] = stack[k - 1] /\ j - 1 \in 1 .. Len(stack) /\ k - 1 \in 1 .. Len(stack)
      BY <1>3, <1>5, <2>2
    <3>2. j - 1 = k - 1
      BY <1>1, <3>1
    <3> QED
      BY <1>1, <1>2, <3>2
  <2> QED
    BY <2>1, <2>2
<1> QED
    BY <1>2, <1>4, <1>5

(* The innermost call is popped. *)
LEMMA PopStep ==
    ASSUME TypeOK, stack # <<>>, NEW c, c = Head(stack), stack' = Tail(stack)
    PROVE  /\ c \in Blocking /\ InStack(c)
           /\ stack' \in Seq(Blocking)
           /\ \A d : InStack(d)' <=> d # c /\ InStack(d)
           /\ \A j, k \in 1 .. Len(stack') : stack'[j] = stack'[k] => j = k
<1>1. stack \in Seq(Blocking) /\ \A j, k \in 1 .. Len(stack) : stack[j] = stack[k] => j = k
    BY DEF TypeOK
<1>2. /\ stack' \in Seq(Blocking)
      /\ Len(stack') = Len(stack) - 1
      /\ c = stack[1] /\ 1 \in 1 .. Len(stack)
      /\ \A k \in 1 .. Len(stack') : stack'[k] = stack[k + 1]
    BY <1>1, Pop
<1>3. \A k \in 1 .. Len(stack') : k + 1 \in 1 .. Len(stack) /\ stack'[k] = stack[k + 1]
    BY <1>1, <1>2
<1>4. \A k \in 1 .. Len(stack) : k # 1 => k - 1 \in 1 .. Len(stack') /\ stack'[k - 1] = stack[k]
    BY <1>1, <1>2
<1>5. c \in Blocking /\ InStack(c)
    BY <1>1, <1>2 DEF InStack
<1>6. ASSUME NEW d PROVE InStack(d)' <=> d # c /\ InStack(d)
  <2>1. InStack(d)' => InStack(d)
    BY <1>3 DEF InStack
  <2>2. ~InStack(c)'
    BY <1>1, <1>2, <1>3 DEF InStack
  <2>3. d # c /\ InStack(d) => InStack(d)'
    BY <1>2, <1>4 DEF InStack
  <2> QED
    BY <2>1, <2>2, <2>3
<1>7. ASSUME NEW j \in 1 .. Len(stack'), NEW k \in 1 .. Len(stack'), stack'[j] = stack'[k]
      PROVE  j = k
    BY <1>1, <1>2, <1>3, <1>7
<1> QED
    BY <1>2, <1>5, <1>6, <1>7

-----------------------------------------------------------------------------
LEMMA InitInv == Init => IInv
<1> SUFFICES ASSUME Init PROVE IInv
    OBVIOUS
<1>1. http \in BOOLEAN /\ quit \in BOOLEAN
    BY Zenon DEF Init
<1>2. stack = <<>> /\ stack \in Seq(Blocking) /\ \A c \in Calls : reply[c] = "none"
    BY DEF Init
<1>3. \A c \in Blocking : ~InStack(c) /\ reply[c] = "none"
    BY <1>2 DEF InStack, Calls
<1>4. TypeOK
    BY <1>1, <1>2, <1>3 DEF Init, TypeOK
<1>5. \A c \in Calls : ~isCalled[c] /\ answers[c] = <<>>
    BY DEF Init
<1>6. \A c \in Blocking : ~isCalled[c] /\ ~failFlag[c] /\ code[c] = NoCode /\ result[c] = "none"
    BY DEF Init, Calls
<1>7. MadeInv /\ CutInv
    BY DEF Init, MadeInv, CutInv
<1> QED
    BY <1>4, <1>5, <1>6, <1>7 DEF IInv, FlagInv, ExitInv

(* A handler that finds the flag unset: its outcome, its exit code and its mark
   of a timeout agree. *)
LEMMA AnswerStep ==
    ASSUME IInv, NEW c \in Calls, NEW o \in Outcomes,
           Answer(c, o, IF o = "finished" THEN 1 ELSE 0),
           reply' \in [Calls -> {"none", "pending", "failed", "over"}],
           \A d \in Calls : reply'[d] = "none" <=> reply[d] = "none",
           failFlag' = IF o = "timeout" /\ c \in Blocking
                       THEN [failFlag EXCEPT ![c] = TRUE] ELSE failFlag
    PROVE  IInv'
<1> USE DEF IInv
<1>1. /\ isCalled \in [Calls -> BOOLEAN] /\ timer \in [Calls -> BOOLEAN]
      /\ answers \in [Calls -> Seq(Outcomes)]
      /\ code \in [Calls -> {NoCode, 0, 1}]
      /\ failFlag \in [Calls -> BOOLEAN]
    BY DEF TypeOK
<1>2. ~isCalled[c] /\ answers[c] = <<>>
    BY DEF Answer, FlagInv
<1>3. isCalled' = [isCalled EXCEPT ![c] = TRUE] /\ answers' = [answers EXCEPT ![c] = <<o>>]
    BY <1>1, <1>2 DEF Answer
<1>4. InStack(c)' <=> InStack(c)
    BY DEF Answer, InStack
<1>5. TypeOK'
  <2>1. isCalled' \in [Calls -> BOOLEAN] /\ timer' \in [Calls -> BOOLEAN]
    BY <1>1, <1>3 DEF Answer
  <2>2. answers' \in [Calls -> Seq(Outcomes)]
    BY <1>1, <1>3
  <2>3. code' \in [Calls -> {NoCode, 0, 1}] /\ failFlag' \in [Calls -> BOOLEAN]
    BY <1>1 DEF Answer
  <2>4. \A d \in Blocking : InStack(d)' <=> reply'[d] # "none" /\ result'[d] = "none"
    BY DEF Answer, InStack, TypeOK, Calls
  <2> QED
    BY <2>1, <2>2, <2>3, <2>4 DEF Answer, TypeOK
<1>6. FlagInv'
    BY <1>1, <1>3 DEF FlagInv
<1>7. ExitInv'
  <2> SUFFICES ASSUME NEW d \in Blocking \ cut
               PROVE  /\ code'[d] = IF isCalled'[d] THEN CodeFor(d)' ELSE NoCode
                      /\ failFlag'[d] => answers'[d] = <<"timeout">>
                      /\ result'[d] # "none" => isCalled'[d] /\ (result'[d] = "true" <=> CodeFor(d)' = 1)
    BY DEF ExitInv, Answer
  <2>1. d \in Calls
    BY DEF Calls
  <2>2. CASE d # c
    BY <1>1, <1>3, <2>1, <2>2 DEF ExitInv, Answer, CodeFor
  <2>3. CASE d = c
    <3>1. isCalled'[d] /\ answers'[d] = <<o>>
      BY <1>1, <1>3, <2>1, <2>3
    <3>2. code'[d] = IF o = "finished" THEN 1 ELSE 0
      BY <1>1, <2>1, <2>3 DEF Answer
    <3>3. CodeFor(d)' = IF o = "finished" THEN 1 ELSE 0
      BY <3>1 DEF CodeFor
    <3>4. failFlag'[d] => o = "timeout"
      <4>1. <<"timeout">> # <<>>
        OBVIOUS
      <4>2. ~failFlag[c]
        BY <1>2, <2>3, <4>1 DEF ExitInv
      <4> QED
        BY <1>1, <2>1, <2>3, <4>2
    <3>5. result'[d] = "none"
      BY <1>2, <2>3 DEF ExitInv, Answer
    <3> QED
      BY <3>1, <3>2, <3>3, <3>4, <3>5
  <2> QED
    BY <2>2, <2>3
<1>8. MadeInv' /\ CutInv'
    BY DEF MadeInv, CutInv, Answer
<1> QED
    BY <1>5, <1>6, <1>7, <1>8

(* A step that leaves the handlers' flags and answers alone. *)
LEMMA FlagUnchanged == FlagInv /\ UNCHANGED handled => FlagInv'
BY DEF FlagInv, handled

(* A blocking call in a thread that is not told to quit. *)
LEMMA CallBlockingStep ==
    ASSUME IInv, NEW c \in Blocking, NEW timed \in BOOLEAN, CallBlocking(c, timed)
    PROVE  IInv'
<1> USE DEF IInv
<1>1. c \in Calls /\ reply[c] = "none" /\ ~InStack(c) /\ result[c] = "none"
    BY DEF CallBlocking, Request, TypeOK, MadeInv, Calls
<1>2. /\ stack' \in Seq(Blocking)
      /\ \A d : InStack(d)' <=> d = c \/ InStack(d)
      /\ \A j, k \in 1 .. Len(stack') : stack'[j] = stack'[k] => j = k
    BY <1>1, PushStep DEF CallBlocking
<1>3. \A d \in Calls : reply'[d] = IF d = c THEN "pending" ELSE reply[d]
    BY DEF CallBlocking, TypeOK
<1>4. TypeOK'
  <2>1. /\ reply' \in [Calls -> {"none", "pending", "failed", "over"}]
        /\ timer' \in [Calls -> BOOLEAN]
    BY DEF CallBlocking, Request, TypeOK
  <2>2. \A d \in Blocking : InStack(d)' <=> reply'[d] # "none" /\ result'[d] = "none"
    BY <1>1, <1>2, <1>3 DEF CallBlocking, TypeOK, Calls
  <2> QED
    BY <1>2, <2>1, <2>2 DEF CallBlocking, TypeOK, handled
<1>5. FlagInv' /\ ExitInv'
    BY FlagUnchanged DEF CallBlocking, ExitInv, CodeFor, handled
<1>6. MadeInv' /\ CutInv'
    BY <1>3 DEF CallBlocking, MadeInv, CutInv
<1> QED
    BY <1>4, <1>5, <1>6

(* After the order to quit, exec does not wait. *)
LEMMA CallAfterQuitStep ==
    ASSUME IInv, NEW c \in Blocking, NEW timed \in BOOLEAN, CallAfterQuit(c, timed)
    PROVE  IInv'
<1> USE DEF IInv
<1>1. c \in Calls /\ reply[c] = "none" /\ ~InStack(c)
    BY DEF CallAfterQuit, Request, TypeOK, Calls
<1>2. /\ \A d \in Calls : d # c => reply'[d] = reply[d] /\ result'[d] = result[d]
      /\ reply'[c] # "none" /\ result'[c] = "true"
      /\ \A d : InStack(d)' <=> InStack(d)
    BY <1>1 DEF CallAfterQuit, TypeOK, InStack
<1>3. TypeOK'
  <2>1. /\ reply' \in [Calls -> {"none", "pending", "failed", "over"}]
        /\ timer' \in [Calls -> BOOLEAN]
        /\ result' \in [Calls -> {"none", "true", "false"}]
        /\ cut' \in SUBSET Calls
    BY <1>1 DEF CallAfterQuit, Request, TypeOK
  <2>2. \A d \in Blocking : InStack(d)' <=> reply'[d] # "none" /\ result'[d] = "none"
    BY <1>1, <1>2 DEF TypeOK, Calls
  <2> QED
    BY <2>1, <2>2 DEF CallAfterQuit, TypeOK, handled
<1>4. FlagInv'
    BY FlagUnchanged DEF CallAfterQuit
<1>5. ExitInv'
    BY <1>2 DEF CallAfterQuit, ExitInv, CodeFor, handled, Calls
<1>6. MadeInv' /\ CutInv'
    BY <1>2 DEF CallAfterQuit, MadeInv, CutInv
<1> QED
    BY <1>3, <1>4, <1>5, <1>6

(* The innermost event loop returns. *)
LEMMA ReturnStep ==
    ASSUME IInv, NEW c \in Calls, Return(c)
    PROVE  IInv'
<1> USE DEF IInv
<1>1. /\ c \in Blocking /\ InStack(c)
      /\ stack' \in Seq(Blocking)
      /\ \A d : InStack(d)' <=> d # c /\ InStack(d)
      /\ \A j, k \in 1 .. Len(stack') : stack'[j] = stack'[k] => j = k
    BY PopStep DEF Return
<1>2. reply[c] # "none" /\ result[c] = "none"
    BY <1>1 DEF TypeOK
<1>3. /\ \A d \in Calls : d # c => reply'[d] = reply[d] /\ result'[d] = result[d]
      /\ reply'[c] # "none" /\ result'[c] \in {"true", "false"}
      /\ result'[c] = "true" <=> code[c] # 0 /\ ~failFlag[c]
    BY <1>2 DEF Return, TypeOK
<1>4. TypeOK'
  <2>1. /\ reply' \in [Calls -> {"none", "pending", "failed", "over"}]
        /\ result' \in [Calls -> {"none", "true", "false"}]
    BY DEF Return, TypeOK
  <2>2. \A d \in Blocking : InStack(d)' <=> reply'[d] # "none" /\ result'[d] = "none"
    BY <1>1, <1>3 DEF TypeOK, Calls
  <2> QED
    BY <1>1, <2>1, <2>2 DEF Return, TypeOK, handled
<1>5. FlagInv'
    BY FlagUnchanged DEF Return
<1>6. ExitInv'
  <2> SUFFICES ASSUME NEW d \in Blocking \ cut
               PROVE  /\ code[d] = IF isCalled[d] THEN CodeFor(d) ELSE NoCode
                      /\ failFlag[d] => answers[d] = <<"timeout">>
                      /\ result'[d] # "none" => isCalled[d] /\ (result'[d] = "true" <=> CodeFor(d) = 1)
    BY DEF ExitInv, Return, handled, CodeFor
  <2>1. /\ code[d] = IF isCalled[d] THEN CodeFor(d) ELSE NoCode
        /\ failFlag[d] => answers[d] = <<"timeout">>
    BY DEF ExitInv
  <2>2. CASE d # c
    BY <1>3, <2>2 DEF ExitInv, Calls
  <2>3. CASE d = c
    <3>1. isCalled[c] /\ code[c] = CodeFor(c)
      BY <2>1, <2>3 DEF Return
    <3>2. failFlag[c] => CodeFor(c) = 0
      BY <2>1, <2>3 DEF CodeFor
    <3> QED
      BY <1>3, <2>1, <2>3, <3>1, <3>2 DEF CodeFor
  <2> QED
    BY <2>1, <2>2, <2>3
<1>7. MadeInv' /\ CutInv'
    BY <1>1, <1>3 DEF Return, MadeInv, CutInv
<1> QED
    BY <1>4, <1>5, <1>6, <1>7

(* What changes neither the stack nor what has been called keeps the rest. *)
LEMMA ReplyStep ==
    ASSUME IInv, UNCHANGED <<handled, frames, cut>>, quit' = quit,
           reply' \in [Calls -> {"none", "pending", "failed", "over"}],
           \A d \in Calls : reply'[d] = "none" => reply[d] = "none",
           \A d \in Calls : reply[d] = "none" => reply'[d] = "none" \/ d \notin Blocking,
           timer' \in [Calls -> BOOLEAN], http' \in BOOLEAN
    PROVE  IInv'
<1> USE DEF IInv, handled, frames
<1>1. \A d : InStack(d)' <=> InStack(d)
    BY DEF InStack
<1>2. \A d \in Blocking : InStack(d)' <=> reply'[d] # "none" /\ result'[d] = "none"
    BY <1>1 DEF TypeOK, Calls
<1>3. TypeOK'
    BY <1>2 DEF TypeOK
<1>4. FlagInv' /\ ExitInv' /\ MadeInv' /\ CutInv'
    BY FlagUnchanged DEF ExitInv, CodeFor, MadeInv, CutInv
<1> QED
    BY <1>3, <1>4

(* The order to quit comes over the calls that wait. *)
LEMMA QuitStep ==
    ASSUME IInv, NEW n \in {0, 1}, Quit(n)
    PROVE  IInv'
<1> USE DEF IInv
<1>1. quit' \in BOOLEAN
    BY Zenon DEF Quit
<1>2. cut = {} /\ cut' = {c \in Calls : InStack(c)}
    BY DEF Quit, CutInv
<1>3. code' \in [Calls -> {NoCode, 0, 1}] /\ \A c \in Calls \ cut' : code'[c] = code[c]
    BY <1>2 DEF Quit, TypeOK
<1>4. TypeOK'
  <2>1. \A c \in Blocking : InStack(c)' <=> reply'[c] # "none" /\ result'[c] = "none"
    BY DEF Quit, TypeOK, InStack, connections
  <2> QED
    BY <1>1, <1>2, <1>3, <2>1 DEF Quit, TypeOK, connections, handled
<1>5. FlagInv'
    BY FlagUnchanged DEF Quit
<1>6. ExitInv'
    BY <1>2, <1>3 DEF Quit, ExitInv, CodeFor, handled, Calls
<1>7. MadeInv' /\ CutInv'
    BY DEF Quit, MadeInv, CutInv, connections
<1> QED
    BY <1>4, <1>5, <1>6, <1>7

LEMMA NextInv == IInv /\ [Next]_vars => IInv'
<1> SUFFICES ASSUME IInv, [Next]_vars PROVE IInv'
    OBVIOUS
<1>1. ASSUME NEW c \in Blocking, NEW timed \in BOOLEAN, CallBlocking(c, timed) PROVE IInv'
    BY <1>1, CallBlockingStep
<1>2. ASSUME NEW c \in Blocking, NEW timed \in BOOLEAN, CallAfterQuit(c, timed) PROVE IInv'
    BY <1>2, CallAfterQuitStep
<1>3. ASSUME NEW c \in CallbackCalls, NEW timed \in BOOLEAN, CallWithCallbacks(c, timed)
      PROVE  IInv'
  <2>1. c \in Calls /\ c \notin Blocking
    BY CallsAssumption DEF Calls
  <2> QED
    BY <1>3, <2>1, ReplyStep DEF CallWithCallbacks, Request, IInv, TypeOK
<1>4. ASSUME NEW c \in Calls, Return(c) PROVE IInv'
    BY <1>4, ReturnStep
<1>5. ASSUME NEW c \in Calls, Error(c) PROVE IInv'
  <2>1. /\ reply' \in [Calls -> {"none", "pending", "failed", "over"}]
        /\ \A d \in Calls : reply'[d] = "none" <=> reply[d] = "none"
    BY <1>5 DEF Error, IInv, TypeOK
  <2>2. Answer(c, "error", IF "error" = "finished" THEN 1 ELSE 0)
    BY <1>5 DEF Error
  <2> QED
    BY <1>5, <2>1, <2>2, AnswerStep DEF Error, Outcomes
<1>6. ASSUME NEW c \in Calls, Finished(c) PROVE IInv'
  <2>1. /\ reply' \in [Calls -> {"none", "pending", "failed", "over"}]
        /\ \A d \in Calls : reply'[d] = "none" <=> reply[d] = "none"
    BY <1>6 DEF Finished, IInv, TypeOK
  <2>2. Answer(c, "finished", IF "finished" = "finished" THEN 1 ELSE 0)
    BY <1>6 DEF Finished
  <2> QED
    BY <1>6, <2>1, <2>2, AnswerStep DEF Finished, Outcomes
<1>7. ASSUME NEW c \in Calls, Late(c) PROVE IInv'
    BY <1>7, ReplyStep DEF Late, IInv, TypeOK
<1>8. ASSUME NEW c \in Calls, Timeout(c) PROVE IInv'
  <2>1. Answer(c, "timeout", IF "timeout" = "finished" THEN 1 ELSE 0)
    BY <1>8 DEF Timeout
  <2> QED
    BY <1>8, <2>1, AnswerStep DEF Timeout, Outcomes, IInv, TypeOK
<1>9. CASE Destroy
  <2>1. http' \in BOOLEAN
    BY <1>9, Zenon DEF Destroy
  <2> QED
    BY <1>9, <2>1, ReplyStep DEF Destroy, IInv, TypeOK
<1>10. ASSUME NEW n \in {0, 1}, Quit(n) PROVE IInv'
    BY <1>10, QuitStep
<1>11. CASE UNCHANGED vars
  <2>1. http' \in BOOLEAN
    BY <1>11, Zenon DEF vars, IInv, TypeOK
  <2> QED
    BY <1>11, <2>1, ReplyStep DEF vars, connections, IInv, TypeOK
<1> QED
    BY <1>1, <1>2, <1>3, <1>4, <1>5, <1>6, <1>7, <1>8, <1>9, <1>10, <1>11 DEF Next

LEMMA SpecInv == Spec => []IInv
BY InitInv, NextInv, PTL DEF Spec

-----------------------------------------------------------------------------
(* Type correctness; the stack holds the calls that wait, each of them once. *)
THEOREM TypeCorrect == Spec => []TypeOK
<1>1. IInv => TypeOK
    BY DEF IInv
<1> QED
    BY SpecInv, <1>1, PTL

(* Error, finished and timeout are handled once between them (lines 593, 604, 632). *)
THEOREM OneAnswer == Spec => []AnsweredOnce
<1>1. \A o \in Outcomes : Len(<<o>>) <= 1
    OBVIOUS
<1>2. ASSUME IInv PROVE AnsweredOnce
  <2> SUFFICES ASSUME NEW c \in Calls PROVE Len(answers[c]) <= 1
    BY DEF AnsweredOnce
  <2>1. CASE answers[c] = <<>>
    BY <2>1
  <2>2. CASE \E o \in Outcomes : answers[c] = <<o>>
    BY <1>1, <2>2
  <2> QED
    BY <1>2, <2>1, <2>2 DEF IInv, FlagInv
<1> QED
    BY SpecInv, <1>2, PTL

(* A blocking call reports its own reply, at any depth of nesting (lines 88-120). *)
THEOREM ResultIsOwnAnswer == Spec => []ResultIsAnswer
<1>1. ASSUME IInv PROVE ResultIsAnswer
  <2> SUFFICES ASSUME NEW c \in Calls, result[c] # "none", c \notin cut
               PROVE  result[c] = "true" <=> answers[c] = <<"finished">>
    BY DEF ResultIsAnswer
  <2>1. c \in Blocking
    BY <1>1 DEF IInv, MadeInv
  <2> QED
    BY <1>1, <2>1 DEF IInv, ExitInv, CodeFor
<1> QED
    BY SpecInv, <1>1, PTL

(* No handler comes back to a stack frame that is gone (lines 593, 604, 632). *)
THEOREM FrameIsNotTouched == Spec => []FrameIsLeftAlone
<1>1. ASSUME IInv PROVE FrameIsLeftAlone
  <2> SUFFICES ASSUME NEW c \in Calls, result[c] # "none", c \notin cut
               PROVE  isCalled[c]
    BY DEF FrameIsLeftAlone
  <2>1. c \in Blocking
    BY <1>1 DEF IInv, MadeInv
  <2> QED
    BY <1>1, <2>1 DEF IInv, ExitInv
<1> QED
    BY SpecInv, <1>1, PTL

-----------------------------------------------------------------------------
(* Safety: a call that waits can still be answered.  Until its event loop is told
   to exit its reply is there and none of its handlers has marked the flag, however
   calls nest, whatever object is destroyed and whatever comes late for other calls
   (lines 88-120, 593, 604, 632). *)
WaitingCanBeAnswered ==
    \A c \in Blocking : InStack(c) /\ code[c] = NoCode => reply[c] = "pending" /\ ~isCalled[c]

(* What has happened to a call has happened after it was made. *)
MadeFirst == \A c \in Calls : isCalled[c] \/ timer[c] => reply[c] # "none"

WaitInv == TypeOK /\ MadeFirst /\ WaitingCanBeAnswered

(* A handler that is called sets the code of the loop it answers. *)
LEMMA AnswerEndsWaiting ==
    ASSUME WaitInv, NEW c \in Calls, NEW o, NEW n \in {0, 1}, Answer(c, o, n),
           \A d \in Calls : d # c => reply'[d] = reply[d],
           reply[c] # "none", reply'[c] # "none"
    PROVE  MadeFirst' /\ WaitingCanBeAnswered'
<1>1. /\ isCalled \in [Calls -> BOOLEAN] /\ timer \in [Calls -> BOOLEAN]
      /\ code \in [Calls -> {NoCode, 0, 1}]
    BY DEF WaitInv, TypeOK
<1>2. stack' = stack /\ \A d : InStack(d)' <=> InStack(d)
    BY DEF Answer, InStack
<1>3. \A d \in Calls : d # c => isCalled'[d] = isCalled[d] /\ timer'[d] = timer[d] /\ code'[d] = code[d]
    BY <1>1 DEF Answer
<1>4. MadeFirst'
    BY <1>3 DEF WaitInv, MadeFirst
<1>5. c \in Blocking => code'[c] # NoCode
    BY <1>1 DEF Answer, NoCode
<1>6. ASSUME NEW d \in Blocking, InStack(d)', code'[d] = NoCode
      PROVE  reply'[d] = "pending" /\ ~isCalled'[d]
  <2>1. d # c /\ d \in Calls
    BY <1>5, <1>6 DEF Calls
  <2> QED
    BY <1>2, <1>3, <1>6, <2>1 DEF WaitInv, WaitingCanBeAnswered
<1> QED
    BY <1>4, <1>6 DEF WaitingCanBeAnswered

LEMMA WaitStep ==
    ASSUME WaitInv, [Next]_vars
    PROVE  MadeFirst' /\ WaitingCanBeAnswered'
<1>1. /\ reply \in [Calls -> {"none", "pending", "failed", "over"}]
      /\ isCalled \in [Calls -> BOOLEAN] /\ timer \in [Calls -> BOOLEAN]
      /\ code \in [Calls -> {NoCode, 0, 1}]
    BY DEF WaitInv, TypeOK
<1>2. \A c \in Blocking : c \in Calls /\ c \notin CallbackCalls
    BY CallsAssumption DEF Calls
<1>3. ASSUME NEW c \in Blocking, NEW timed \in BOOLEAN, CallBlocking(c, timed)
      PROVE  MadeFirst' /\ WaitingCanBeAnswered'
  <2>1. /\ reply' = [reply EXCEPT ![c] = "pending"] /\ timer' = [timer EXCEPT ![c] = timed]
        /\ UNCHANGED <<isCalled, code>> /\ stack' = <<c>> \o stack /\ reply[c] = "none"
    BY <1>3 DEF CallBlocking, Request, handled
  <2>2. ~InStack(c) /\ ~isCalled[c]
    BY <1>2, <2>1 DEF WaitInv, TypeOK, MadeFirst
  <2>3. \A d : InStack(d)' <=> d = c \/ InStack(d)
    BY <2>1, <2>2, PushStep DEF WaitInv
  <2>4. MadeFirst'
    BY <1>1, <1>2, <2>1 DEF WaitInv, MadeFirst
  <2>5. WaitingCanBeAnswered'
    BY <1>1, <1>2, <2>1, <2>2, <2>3 DEF WaitInv, WaitingCanBeAnswered
  <2> QED
    BY <2>4, <2>5
<1>4. ASSUME NEW c \in Blocking, NEW timed \in BOOLEAN, CallAfterQuit(c, timed)
      PROVE  MadeFirst' /\ WaitingCanBeAnswered'
  <2>1. /\ reply[c] = "none" /\ timer' = [timer EXCEPT ![c] = timed]
        /\ reply' = [reply EXCEPT ![c] = IF c \in StaticCalls THEN "over" ELSE "pending"]
        /\ UNCHANGED <<isCalled, code, stack>>
    BY <1>4 DEF CallAfterQuit, Request, handled
  <2>2. ~InStack(c)
    BY <1>2, <2>1 DEF WaitInv, TypeOK
  <2>3. MadeFirst'
    BY <1>1, <1>2, <2>1 DEF WaitInv, MadeFirst
  <2>4. WaitingCanBeAnswered'
    BY <1>1, <1>2, <2>1, <2>2 DEF WaitInv, WaitingCanBeAnswered, InStack
  <2> QED
    BY <2>3, <2>4
<1>5. ASSUME NEW c \in CallbackCalls, NEW timed \in BOOLEAN, CallWithCallbacks(c, timed)
      PROVE  MadeFirst' /\ WaitingCanBeAnswered'
  <2>1. /\ reply' = [reply EXCEPT ![c] = "pending"] /\ timer' = [timer EXCEPT ![c] = timed]
        /\ UNCHANGED <<isCalled, code, stack>> /\ c \in Calls
    BY <1>5 DEF CallWithCallbacks, Request, handled, frames, Calls
  <2>2. MadeFirst'
    BY <1>1, <2>1 DEF WaitInv, MadeFirst
  <2>3. WaitingCanBeAnswered'
    BY <1>1, <1>2, <2>1 DEF WaitInv, WaitingCanBeAnswered, InStack
  <2> QED
    BY <2>2, <2>3
<1>6. ASSUME NEW c \in Calls, Return(c) PROVE MadeFirst' /\ WaitingCanBeAnswered'
  <2>1. /\ stack # <<>> /\ c = Head(stack) /\ code[c] # NoCode /\ stack' = Tail(stack)
        /\ reply' = IF c \in StaticCalls THEN [reply EXCEPT ![c] = "over"] ELSE reply
        /\ UNCHANGED <<timer, isCalled, code>>
    BY <1>6 DEF Return, handled
  <2>2. \A d : InStack(d)' <=> d # c /\ InStack(d)
    BY <2>1, PopStep DEF WaitInv
  <2>3. MadeFirst'
    BY <1>1, <2>1 DEF WaitInv, MadeFirst
  <2>4. WaitingCanBeAnswered'
    BY <1>1, <1>2, <2>1, <2>2 DEF WaitInv, WaitingCanBeAnswered
  <2> QED
    BY <2>3, <2>4
<1>7. ASSUME NEW c \in Calls, Error(c) PROVE MadeFirst' /\ WaitingCanBeAnswered'
    BY <1>1, <1>7, AnswerEndsWaiting DEF Error
<1>8. ASSUME NEW c \in Calls, Finished(c) PROVE MadeFirst' /\ WaitingCanBeAnswered'
    BY <1>1, <1>8, AnswerEndsWaiting DEF Finished
<1>9. ASSUME NEW c \in Calls, Timeout(c) PROVE MadeFirst' /\ WaitingCanBeAnswered'
  <2>1. reply[c] # "none" /\ reply' = reply /\ Answer(c, "timeout", 0)
    BY <1>9 DEF Timeout, WaitInv, MadeFirst
  <2> QED
    BY <2>1, AnswerEndsWaiting
<1>10. ASSUME NEW c \in Calls, Late(c) PROVE MadeFirst' /\ WaitingCanBeAnswered'
  <2>1. /\ isCalled[c] /\ UNCHANGED <<timer, isCalled, code, stack>>
        /\ reply[c] # "none" /\ reply'[c] # "none"
        /\ \A d \in Calls : d # c => reply'[d] = reply[d]
    BY <1>1, <1>10 DEF Late, handled, frames
  <2>2. MadeFirst'
    BY <2>1 DEF WaitInv, MadeFirst
  <2>3. WaitingCanBeAnswered'
    BY <1>2, <2>1 DEF WaitInv, WaitingCanBeAnswered, InStack
  <2> QED
    BY <2>2, <2>3
<1>11. CASE Destroy
  <2>1. /\ \A c \in MemberCalls : ~InStack(c)
        /\ \A c \in Calls : reply'[c] = IF c \notin StaticCalls /\ reply[c] # "none" THEN "over" ELSE reply[c]
        /\ UNCHANGED <<timer, isCalled, code, stack>>
    BY <1>11 DEF Destroy, handled, frames
  <2>2. MadeFirst'
    BY <2>1 DEF WaitInv, MadeFirst
  <2>3. \A c \in Blocking : InStack(c) => reply'[c] = reply[c]
    BY <1>2, <2>1 DEF Blocking
  <2>4. WaitingCanBeAnswered'
    BY <2>1, <2>3 DEF WaitInv, WaitingCanBeAnswered, InStack
  <2> QED
    BY <2>2, <2>4
<1>12. ASSUME NEW n \in {0, 1}, Quit(n) PROVE MadeFirst' /\ WaitingCanBeAnswered'
  <2>1. /\ UNCHANGED <<reply, timer, isCalled, stack>>
        /\ \A c \in Calls : InStack(c) => code'[c] # NoCode
    BY <1>12 DEF Quit, connections, handled, NoCode
  <2> QED
    BY <1>2, <2>1 DEF WaitInv, MadeFirst, WaitingCanBeAnswered, InStack
<1>13. CASE UNCHANGED vars
    BY <1>13 DEF vars, connections, handled, frames, WaitInv, MadeFirst, WaitingCanBeAnswered, InStack
<1> QED
    BY <1>3, <1>4, <1>5, <1>6, <1>7, <1>8, <1>9, <1>10, <1>11, <1>12, <1>13 DEF Next

(* No waiting call is cut off from its answer: what keeps one for ever is only
   that nothing comes. *)
THEOREM WaitingIsNotInVain == Spec => []WaitingCanBeAnswered
<1>1. Init => MadeFirst /\ WaitingCanBeAnswered
    BY DEF Init, MadeFirst, WaitingCanBeAnswered, InStack
<1>2. TypeOK /\ MadeFirst /\ WaitingCanBeAnswered /\ [Next]_vars => MadeFirst' /\ WaitingCanBeAnswered'
    BY WaitStep DEF WaitInv
<1> QED
    BY TypeCorrect, <1>1, <1>2, PTL DEF Spec
=============================================================================
