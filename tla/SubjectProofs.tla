--------------------------- MODULE SubjectProofs ---------------------------
(* What a subject promises its observers, for any number of them and any depth
   of notifications inside each other. *)
EXTENDS Subject, TLAPS

(* While notifications are under way, those who have not read the last id are
   still to come in the innermost one: an outer one that goes on later need not
   reach anybody. *)
InnermostReaches ==
    \A o \in due : seen[o] # id => stack # <<>> /\ o \in Head(stack).rest

IInv == TypeOK /\ InnermostReaches

Frame == [at : setObjs, rest : SUBSET setObjs]

-----------------------------------------------------------------------------
LEMMA InitInv == Init => IInv
BY DEF Init, IInv, TypeOK, InnermostReaches

LEMMA PushFrame ==
    ASSUME NEW S, NEW s \in Seq(S), NEW x \in S
    PROVE  /\ <<x>> \o s \in Seq(S)
           /\ <<x>> \o s # <<>>
           /\ Head(<<x>> \o s) = x
<1>1. <<x>> \in Seq(S) /\ Len(<<x>>) = 1 /\ <<x>>[1] = x
    OBVIOUS
<1> QED
    BY <1>1

(* The one step of a notification: somebody reads the id as it is, or all have. *)
LEMMA TellStep ==
    ASSUME TypeOK, NEW left \in SUBSET setObjs, NEW outer \in Seq(Frame),
           TellNext(left, outer),
           id' \in Ids \union {-1}, UNCHANGED setObjs, due' \in SUBSET setObjs,
           \A o \in due' : seen[o] # id' => o \in left
    PROVE  IInv'
<1>1. seen \in [Observers -> Ids \union {-1}] /\ setObjs \in SUBSET Observers
    BY DEF TypeOK
<1>2. CASE left = {} /\ stack' = outer /\ UNCHANGED seen
    BY <1>1, <1>2 DEF IInv, TypeOK, InnermostReaches, Frame
<1>3. ASSUME NEW o \in left,
             stack' = <<[at |-> o, rest |-> left \ {o}]>> \o outer,
             seen' = [seen EXCEPT ![o] = id']
      PROVE  IInv'
  <2>1. [at |-> o, rest |-> left \ {o}] \in Frame
    BY DEF Frame
  <2>2. stack' \in Seq(Frame) /\ stack' # <<>> /\ Head(stack').rest = left \ {o}
    BY <1>3, <2>1, PushFrame
  <2>3. \A p \in due' : p # o => seen'[p] = seen[p]
    BY <1>1, <1>3
  <2>4. seen'[o] = id' /\ seen' \in [Observers -> Ids \union {-1}]
    BY <1>1, <1>3
  <2>5. TypeOK'
    BY <1>1, <2>2, <2>4 DEF TypeOK, Frame
  <2>6. InnermostReaches'
    BY <2>2, <2>3, <2>4 DEF InnermostReaches
  <2> QED
    BY <2>5, <2>6 DEF IInv
<1> QED
    BY <1>2, <1>3 DEF TellNext

(* Whoever is detached leaves every notification under way. *)
LEMMA DetachStep ==
    ASSUME IInv, NEW o \in Observers, Detach(o)
    PROVE  IInv'
<1>1. stack \in Seq(Frame)
    BY DEF IInv, TypeOK, Frame
<1>2. ASSUME NEW k \in 1 .. Len(stack)
      PROVE  /\ [stack[k] EXCEPT !.rest = @ \ {o}] \in Frame'
             /\ [stack[k] EXCEPT !.rest = @ \ {o}].rest = stack[k].rest \ {o}
  <2>1. stack[k] \in Frame
    BY <1>1
  <2>2. stack[k].at # o
    BY DEF Detach
  <2> QED
    BY <2>1, <2>2 DEF Frame, Detach
<1>3. stack' \in Seq(Frame') /\ Len(stack') = Len(stack)
    BY <1>1, <1>2 DEF Detach
<1>4. stack # <<>> => stack' # <<>> /\ Head(stack').rest = Head(stack).rest \ {o}
  <2> SUFFICES ASSUME stack # <<>> PROVE stack' # <<>> /\ Head(stack').rest = Head(stack).rest \ {o}
    OBVIOUS
  <2>1. 1 \in 1 .. Len(stack) /\ Head(stack) = stack[1]
    BY <1>1
  <2>2. stack' # <<>> /\ Head(stack') = stack'[1]
    BY <1>1, <1>3
  <2> QED
    BY <1>2, <2>1, <2>2 DEF Detach
<1>5. TypeOK'
    BY <1>3 DEF IInv, TypeOK, Detach, Frame
<1>6. InnermostReaches'
    BY <1>4 DEF IInv, InnermostReaches, Detach
<1> QED
    BY <1>5, <1>6 DEF IInv

LEMMA NextInv == IInv /\ [Next]_vars => IInv'
<1> SUFFICES ASSUME IInv, [Next]_vars PROVE IInv'
    OBVIOUS
<1>1. stack \in Seq(Frame)
    BY DEF IInv, TypeOK, Frame
<1>2. ASSUME NEW o \in Observers, Attach(o) PROVE IInv'
  <2>1. TypeOK'
    BY <1>2 DEF Attach, IInv, TypeOK
  <2>2. InnermostReaches'
    BY <1>2 DEF Attach, IInv, InnermostReaches
  <2> QED
    BY <2>1, <2>2 DEF IInv
<1>3. ASSUME NEW o \in Observers, Detach(o) PROVE IInv'
    BY <1>3, DetachStep
<1>4. ASSUME NEW i \in Ids, ChangeState(i) PROVE IInv'
    BY <1>1, <1>4, TellStep DEF ChangeState, IInv
<1>5. CASE UpdateReturns
  <2>1. Head(stack) \in Frame /\ Tail(stack) \in Seq(Frame)
    BY <1>1, <1>5 DEF UpdateReturns
  <2>2. Head(stack).rest \in SUBSET setObjs
    BY <2>1 DEF Frame
  <2>3. /\ id' = id /\ setObjs' = setObjs /\ due' = due
        /\ id \in Ids \union {-1} /\ due \in SUBSET setObjs
        /\ \A o \in due : seen[o] # id => o \in Head(stack).rest
    BY <1>5 DEF UpdateReturns, IInv, TypeOK, InnermostReaches
  <2> QED
    BY <1>5, <2>1, <2>2, <2>3, TellStep DEF UpdateReturns, IInv
<1>6. CASE UNCHANGED vars
    BY <1>6 DEF vars, IInv, TypeOK, InnermostReaches
<1> QED
    BY <1>2, <1>3, <1>4, <1>5, <1>6 DEF Next

LEMMA SpecInv == Spec => []IInv
BY InitInv, NextInv, PTL DEF Spec

-----------------------------------------------------------------------------
(* No notification, however deep, calls an observer that was detached (lines 57-64). *)
THEOREM DetachedIsNotCalled == Spec => []TypeOK
<1>1. IInv => TypeOK
    BY DEF IInv
<1> QED
    BY SpecInv, <1>1, PTL

(* Changes inside notifications reach everybody before the outermost returns
   (lines 29-38, 60-64). *)
THEOREM EverybodyIsTold == Spec => []NobodyIsStale
<1>1. IInv => NobodyIsStale
    BY DEF IInv, InnermostReaches, NobodyIsStale
<1> QED
    BY SpecInv, <1>1, PTL
=============================================================================
