---------------------------- MODULE BankerProofs ----------------------------
(***************************************************************************)
(* The banker's books agree with each other and with what there was, and   *)
(* stay within what check_precondition compares, for any numbers of        *)
(* processes and resources, any claims and any amounts asked for, of       *)
(* either sign.  Sums over the processes are by induction over a set.      *)
(***************************************************************************)
EXTENDS Banker, Induction

IInv ==
    /\ TypeOK
    /\ ClaimIsKept
    /\ NothingIsLost
    /\ CheckedIsCovered

(* The partial sums of which Total takes the last. *)
PartialSums(f, amount) ==
    /\ f \in [0 .. ProcNum -> Int]
    /\ f[0] = 0
    /\ \A n \in 1 .. ProcNum : f[n] = f[n - 1] + amount[n - 1]

LEMMA TotalIsPartialSum ==
    ASSUME NEW amount \in [Procs -> Int]
    PROVE  \E f : PartialSums(f, amount) /\ Total(amount) = f[ProcNum]
  <1> DEFINE Sums(f) == f = [n \in 0 .. ProcNum |-> IF n = 0 THEN 0 ELSE f[n - 1] + amount[n - 1]]
             step    == [n \in Nat \ {0} |->
                            [v \in Int |-> IF n - 1 \in Procs THEN v + amount[n - 1] ELSE v]]
  <1>1. step \in [Nat \ {0} -> [Int -> Int]]
    OBVIOUS
  <1> HIDE DEF step
  <1>2. PICK f \in [0 .. ProcNum -> Int] : Computes(f, 0, step, ProcNum)
    <2>1. 0 \in Int /\ ProcNum \in Nat
      BY BankerAssumption
    <2> QED BY <1>1, <2>1, FiniteRecursion
  <1>3. ASSUME NEW n \in 1 .. ProcNum PROVE f[n] = f[n - 1] + amount[n - 1]
    <2>1. n \in Nat \ {0} /\ n - 1 \in Procs /\ n - 1 \in 0 .. ProcNum
      BY BankerAssumption DEF Procs
    <2>2. f[n - 1] \in Int /\ f[n] = step[n][f[n - 1]]
      BY <1>2, <2>1 DEF Computes
    <2> QED BY <2>1, <2>2 DEF step
  <1>4. Sums(f)
    <2> DEFINE g == [n \in 0 .. ProcNum |-> IF n = 0 THEN 0 ELSE f[n - 1] + amount[n - 1]]
    <2>1. ASSUME NEW n \in 0 .. ProcNum PROVE f[n] = g[n]
      BY <1>2, <1>3, BankerAssumption DEF Computes
    <2>2. f = [n \in 0 .. ProcNum |-> f[n]]
      BY <1>2
    <2> QED BY <2>1, <2>2
  <1> DEFINE upTo == CHOOSE g : Sums(g)
  <1>5. Sums(upTo)
    BY <1>4
  <1>6. Total(amount) = upTo[ProcNum]
    BY DEF Total
  <1> HIDE DEF upTo
  <1>7. upTo = f
    <2> DEFINE T == {n \in Nat : n <= ProcNum => upTo[n] = f[n]}
    <2>1. 0 \in T
      BY <1>4, <1>5, BankerAssumption
    <2>2. ASSUME NEW n \in T \cap Nat PROVE n + 1 \in T
      <3>1. CASE n + 1 <= ProcNum
        <4>1. n + 1 \in 0 .. ProcNum /\ n + 1 # 0 /\ (n + 1) - 1 = n /\ upTo[n] = f[n]
          BY <2>2, <3>1, BankerAssumption
        <4>2. /\ upTo[n + 1] = upTo[n] + amount[n]
              /\ f[n + 1] = f[n] + amount[n]
          BY <1>4, <1>5, <4>1
        <4> QED BY <2>2, <4>1, <4>2
      <3> QED BY <2>2, <3>1
    <2> HIDE DEF T
    <2>3. Nat \subseteq T
      BY <2>1, <2>2, SetInduction
    <2>4. \A n \in 0 .. ProcNum : upTo[n] = f[n]
      BY <2>3, BankerAssumption DEF T
    <2>5. upTo = [n \in 0 .. ProcNum |-> upTo[n]]
      BY <1>5
    <2> QED BY <2>4, <2>5
  <1> QED BY <1>2, <1>3, <1>6, <1>7 DEF PartialSums, Computes

LEMMA TotalOfZeros == Total([p \in Procs |-> 0]) = 0
  <1>1. [p \in Procs |-> 0] \in [Procs -> Int]
    OBVIOUS
  <1>2. PICK f : PartialSums(f, [p \in Procs |-> 0]) /\ Total([p \in Procs |-> 0]) = f[ProcNum]
    BY <1>1, TotalIsPartialSum
  <1> DEFINE T == {n \in Nat : n <= ProcNum => f[n] = 0}
  <1>3. 0 \in T
    BY <1>2 DEF PartialSums
  <1>4. ASSUME NEW n \in T \cap Nat PROVE n + 1 \in T
    <2>1. CASE n + 1 <= ProcNum
      <3>1. n + 1 \in 1 .. ProcNum /\ n \in Procs /\ (n + 1) - 1 = n /\ f[n] = 0
        BY <1>4, <2>1, BankerAssumption DEF Procs
      <3>2. f[n + 1] = f[n] + 0
        BY <1>2, <3>1 DEF PartialSums
      <3> QED BY <1>4, <3>1, <3>2
    <2> QED BY <1>4, <2>1
  <1> HIDE DEF T
  <1>5. Nat \subseteq T
    BY <1>3, <1>4, SetInduction
  <1>6. ProcNum \in T
    BY <1>5, BankerAssumption
  <1> QED BY <1>2, <1>6 DEF T

(* When one process gets more, so much more is held in all. *)
LEMMA TotalChanges ==
    ASSUME NEW old \in [Procs -> Int], NEW new \in [Procs -> Int], NEW q \in Procs, NEW d \in Int,
           \A p \in Procs : new[p] = old[p] + (IF p = q THEN d ELSE 0)
    PROVE  Total(new) = Total(old) + d /\ Total(old) \in Int
  <1>1. PICK f : PartialSums(f, old) /\ Total(old) = f[ProcNum]
    BY TotalIsPartialSum
  <1>2. PICK g : PartialSums(g, new) /\ Total(new) = g[ProcNum]
    BY TotalIsPartialSum
  <1>3. ProcNum \in Nat /\ q \in Nat /\ q < ProcNum
    BY BankerAssumption DEF Procs
  <1> DEFINE T == {n \in Nat : n <= ProcNum => g[n] = f[n] + (IF n > q THEN d ELSE 0)}
  <1>4. 0 \in T
    BY <1>1, <1>2, <1>3 DEF PartialSums
  <1>5. ASSUME NEW n \in T \cap Nat PROVE n + 1 \in T
    <2>1. CASE n + 1 <= ProcNum
      <3>1. n + 1 \in 1 .. ProcNum /\ n \in Procs /\ n \in 0 .. ProcNum /\ (n + 1) - 1 = n
        BY <1>3, <1>5, <2>1 DEF Procs
      <3>2. f[n + 1] = f[n] + old[n] /\ g[n + 1] = g[n] + new[n]
        BY <1>1, <1>2, <3>1 DEF PartialSums
      <3>3. f[n] \in Int /\ old[n] \in Int /\ new[n] = old[n] + (IF n = q THEN d ELSE 0)
        BY <1>1, <3>1 DEF PartialSums
      <3>4. g[n] = f[n] + (IF n > q THEN d ELSE 0)
        BY <1>5, <2>1, <1>3
      <3>5. g[n + 1] = f[n + 1] + (IF n + 1 > q THEN d ELSE 0)
        BY <1>3, <1>5, <3>2, <3>3, <3>4
      <3> QED BY <1>5, <3>5
    <2> QED BY <1>5, <2>1
  <1> HIDE DEF T
  <1>6. ProcNum \in T
    BY <1>3, <1>4, <1>5, SetInduction
  <1>7. f[ProcNum] \in Int
    BY <1>1, <1>3 DEF PartialSums
  <1> QED BY <1>1, <1>2, <1>3, <1>6, <1>7 DEF T

(* try_alloc moves the request between the books and keeps their dimensions. *)
LEMMA Booking ==
    ASSUME TypeOK, curReq # NoRequest, curProc \in Procs, try_alloc
    PROVE  /\ curReq \in [Res -> Int]
           /\ available' \in [Res -> Int]
           /\ allocation' \in [Procs -> [Res -> Int]]
           /\ need' \in [Procs -> [Res -> Int]]
           /\ \A r \in Res : available'[r] = available[r] - curReq[r]
           /\ \A p \in Procs, r \in Res :
                /\ allocation'[p][r] = allocation[p][r] + (IF p = curProc THEN curReq[r] ELSE 0)
                /\ need'[p][r] = need[p][r] - (IF p = curProc THEN curReq[r] ELSE 0)
  <1>1. curReq \in [Res -> Int]
    BY BankerAssumption DEF TypeOK, Requests
  <1>2. /\ available' \in [Res -> Int]
        /\ \A r \in Res : available'[r] = available[r] - curReq[r]
    BY <1>1 DEF TypeOK, try_alloc, Minus
  <1>3. \A u, v \in [Res -> Int] : Plus(u, v) \in [Res -> Int] /\ Minus(u, v) \in [Res -> Int]
    BY DEF Plus, Minus
  <1>4. /\ allocation'= [allocation EXCEPT ![curProc] = Plus(allocation[curProc], curReq)]
        /\ need' = [need EXCEPT ![curProc] = Minus(need[curProc], curReq)]
    BY DEF try_alloc
  <1>5. allocation' \in [Procs -> [Res -> Int]] /\ need' \in [Procs -> [Res -> Int]]
    BY <1>1, <1>3, <1>4 DEF TypeOK
  <1>6. ASSUME NEW p \in Procs, NEW r \in Res
        PROVE  /\ allocation'[p][r] = allocation[p][r] + (IF p = curProc THEN curReq[r] ELSE 0)
               /\ need'[p][r] = need[p][r] - (IF p = curProc THEN curReq[r] ELSE 0)
    <2>1. allocation[p][r] \in Int /\ need[p][r] \in Int
      BY DEF TypeOK
    <2>2. CASE p = curProc
      <3>1. allocation'[p] = Plus(allocation[p], curReq) /\ need'[p] = Minus(need[p], curReq)
        BY <1>4, <2>2 DEF TypeOK
      <3> QED BY <2>2, <3>1 DEF Plus, Minus
    <2>3. CASE p # curProc
      BY <1>4, <2>1, <2>3 DEF TypeOK
    <2> QED BY <2>2, <2>3
  <1> QED BY <1>1, <1>2, <1>5, <1>6

(* The vectors of check_safety keep their dimensions through a round, *)
Vectors == [work : [Res -> Int], finish : [Procs -> BOOLEAN]]

LEMMA VisitType ==
    ASSUME NEW before \in Vectors, NEW p \in Procs,
           NEW alloc \in [Procs -> [Res -> Int]], NEW nd
    PROVE  Visit(before, p, alloc, nd) \in Vectors
  <1>1. before.work \in [Res -> Int] /\ before.finish \in [Procs -> BOOLEAN]
    BY DEF Vectors
  <1>2. Plus(before.work, alloc[p]) \in [Res -> Int]
    BY <1>1 DEF Plus
  <1>3. [before.finish EXCEPT ![p] = TRUE] \in [Procs -> BOOLEAN]
    BY <1>1
  <1> QED BY <1>2, <1>3 DEF Visit, Vectors

(* and so through all of them. *)
LEMMA SafetyPassType ==
    ASSUME NEW avail \in [Res -> Int], NEW alloc \in [Procs -> [Res -> Int]], NEW nd,
           finish \in [Procs -> BOOLEAN]
    PROVE  SafetyPass(avail, alloc, nd) \in Vectors
  <1> DEFINE start   == [work |-> avail, finish |-> finish]
             Next0(f) == [n \in 0 .. ProcNum |->
                            IF n = 0 THEN start ELSE Visit(f[n - 1], n - 1, alloc, nd)]
             step    == [n \in Nat \ {0} |->
                            [v \in Vectors |->
                                IF n - 1 \in Procs THEN Visit(v, n - 1, alloc, nd) ELSE v]]
  <1>1. start \in Vectors
    BY DEF Vectors
  <1>2. ProcNum \in Nat /\ \A n \in 1 .. ProcNum : n - 1 \in Procs /\ n - 1 \in 0 .. ProcNum
    BY BankerAssumption DEF Procs
  <1>3. step \in [Nat \ {0} -> [Vectors -> Vectors]]
    BY VisitType
  <1> HIDE DEF step, start
  <1>4. PICK f \in [0 .. ProcNum -> Vectors] : Computes(f, start, step, ProcNum)
    BY <1>1, <1>2, <1>3, FiniteRecursion
  <1>5. f = Next0(f)
    <2>1. ASSUME NEW n \in 0 .. ProcNum, n # 0
          PROVE  f[n] = Visit(f[n - 1], n - 1, alloc, nd)
      <3>1. n \in 1 .. ProcNum /\ n \in Nat \ {0} /\ n - 1 \in Procs /\ f[n - 1] \in Vectors
        BY <1>2, <2>1
      <3>2. f[n] = step[n][f[n - 1]]
        BY <1>4, <3>1 DEF Computes
      <3> QED BY <3>1, <3>2 DEF step
    <2>2. f[0] = start
      BY <1>4 DEF Computes
    <2>3. f = [n \in 0 .. ProcNum |-> f[n]]
      OBVIOUS
    <2> QED BY <2>1, <2>2, <2>3
  <1> DEFINE pass == CHOOSE g : g = Next0(g)
  <1>6. pass = Next0(pass)
    BY <1>5
  <1>7. SafetyPass(avail, alloc, nd) = pass[ProcNum]
    BY DEF SafetyPass, start
  <1> HIDE DEF pass
  <1> DEFINE T == {n \in Nat : n <= ProcNum => pass[n] \in Vectors}
  <1>8. 0 \in T
    BY <1>1, <1>2, <1>6
  <1>9. ASSUME NEW n \in T \cap Nat PROVE n + 1 \in T
    <2>1. CASE n + 1 <= ProcNum
      <3>1. /\ n + 1 \in 0 .. ProcNum /\ n + 1 # 0 /\ (n + 1) - 1 = n /\ n \in Procs
            /\ pass[n] \in Vectors
        BY <1>2, <1>9, <2>1 DEF Procs
      <3>2. pass[n + 1] = Visit(pass[n], n, alloc, nd)
        BY <1>6, <3>1
      <3> QED BY <1>9, <3>1, <3>2, VisitType
    <2> QED BY <1>9, <2>1
  <1> HIDE DEF T
  <1>10. ProcNum \in T
    BY <1>2, <1>8, <1>9, SetInduction
  <1> QED BY <1>2, <1>7, <1>10 DEF T

(* A grant keeps the sum: what is booked to a process is taken from what is left. *)
LEMMA GrantLosesNothing ==
    ASSUME TypeOK, NothingIsLost, curReq # NoRequest, curProc \in Procs, try_alloc
    PROVE  NothingIsLost'
  <1> SUFFICES ASSUME NEW r \in Res
               PROVE  available'[r] + Total(HeldOf(r)') = Capacity[r]
    BY DEF NothingIsLost, HeldOf
  <1>1. /\ curReq[r] \in Int /\ available'[r] = available[r] - curReq[r] /\ available[r] \in Int
        /\ allocation \in [Procs -> [Res -> Int]] /\ allocation' \in [Procs -> [Res -> Int]]
        /\ \A p \in Procs :
              allocation'[p][r] = allocation[p][r] + (IF p = curProc THEN curReq[r] ELSE 0)
    BY Booking DEF TypeOK
  <1>2. HeldOf(r) \in [Procs -> Int] /\ HeldOf(r)' \in [Procs -> Int]
    BY <1>1 DEF HeldOf
  <1>3. \A p \in Procs : HeldOf(r)'[p] = HeldOf(r)[p] + (IF p = curProc THEN curReq[r] ELSE 0)
    BY <1>1 DEF HeldOf
  <1>4. Total(HeldOf(r)') = Total(HeldOf(r)) + curReq[r] /\ Total(HeldOf(r)) \in Int
    <2>1. ASSUME NEW old, NEW new, NEW d, NEW q \in Procs,
                 old = HeldOf(r), new = HeldOf(r)', d = curReq[r], q = curProc
          PROVE  Total(new) = Total(old) + d /\ Total(old) \in Int
      <3>1. old \in [Procs -> Int] /\ new \in [Procs -> Int] /\ d \in Int
        BY <1>1, <1>2, <2>1
      <3>2. \A p \in Procs : new[p] = old[p] + (IF p = q THEN d ELSE 0)
        BY <1>3, <2>1
      <3> QED BY <3>1, <3>2, TotalChanges
    <2> QED BY <2>1
  <1>5. available[r] + Total(HeldOf(r)) = Capacity[r]
    BY DEF NothingIsLost
  <1> QED BY <1>1, <1>4, <1>5

LEMMA InitIInv == Init => IInv
  <1> SUFFICES ASSUME Init PROVE IInv
    OBVIOUS
  <1>1. available \in [Res -> Nat] /\ need \in [Procs -> [Res -> Nat]]
    BY BankerAssumption DEF Init
  <1>2. allocation \in [Procs -> [Res -> {0}]]
    BY DEF Init
  <1>3. 0 \in 0 .. ProcNum
    BY BankerAssumption
  <1>4. TypeOK
    <2>1. available \in [Res -> Int] /\ need \in [Procs -> [Res -> Int]]
      BY <1>1
    <2>2. allocation \in [Procs -> [Res -> Int]]
      BY <1>2
    <2>3. curProc \in 0 .. ProcNum /\ granted \in BOOLEAN
      BY <1>3 DEF Init
    <2>4. work \in [Res -> Int] /\ finish \in [Procs -> BOOLEAN]
      BY DEF Init
    <2> QED BY <2>1, <2>2, <2>3, <2>4 DEF Init, TypeOK
  <1>5. ClaimIsKept
    BY <1>1, <1>2 DEF Init, ClaimIsKept
  <1>6. NothingIsLost
    <2> SUFFICES ASSUME NEW r \in Res PROVE available[r] + Total(HeldOf(r)) = Capacity[r]
      BY DEF NothingIsLost
    <2>1. HeldOf(r) = [p \in Procs |-> 0]
      BY DEF Init, HeldOf
    <2>2. available[r] = Capacity[r] /\ Capacity[r] \in Nat
      BY BankerAssumption DEF Init
    <2> QED BY <2>1, <2>2, TotalOfZeros
  <1> QED BY <1>1, <1>4, <1>5, <1>6 DEF IInv, CheckedIsCovered, CheckedRes

(* A grant: every compared amount was at most what is left and what the process
   may still ask for, so neither falls below zero. *)
LEMMA GrantStep ==
    ASSUME IInv, curReq # NoRequest, Grant, curReq' = NoRequest, UNCHANGED curProc
    PROVE  IInv'
  <1>1. curProc \in Procs /\ check_precondition /\ try_alloc /\ granted' = TRUE
    BY DEF Grant, check_safety
  <1>2. /\ curReq \in [Res -> Int]
        /\ available' \in [Res -> Int]
        /\ allocation' \in [Procs -> [Res -> Int]]
        /\ need' \in [Procs -> [Res -> Int]]
        /\ \A r \in Res : available'[r] = available[r] - curReq[r]
        /\ \A p \in Procs, r \in Res :
             /\ allocation'[p][r] = allocation[p][r] + (IF p = curProc THEN curReq[r] ELSE 0)
             /\ need'[p][r] = need[p][r] - (IF p = curProc THEN curReq[r] ELSE 0)
    BY <1>1, Booking DEF IInv
  <1>3. TypeOK'
    <2>1. SafetyPass(available', allocation', need') \in Vectors
      BY <1>2, SafetyPassType DEF IInv, TypeOK
    <2>2. work' \in [Res -> Int] /\ finish' \in [Procs -> BOOLEAN]
      BY <2>1 DEF Grant, check_safety, Vectors
    <2> QED BY <1>1, <1>2, <2>2 DEF IInv, TypeOK
  <1>4. ClaimIsKept'
    <2> SUFFICES ASSUME NEW p \in Procs, NEW r \in Res
                 PROVE  need'[p][r] + allocation'[p][r] = MaxClaim[p][r]
      BY DEF ClaimIsKept
    <2>1. /\ need[p][r] + allocation[p][r] = MaxClaim[p][r]
          /\ need[p][r] \in Int /\ allocation[p][r] \in Int /\ curReq[r] \in Int
      BY <1>2 DEF IInv, ClaimIsKept, TypeOK
    <2> QED BY <1>2, <2>1
  <1>5. \A r \in CheckedRes : available'[r] >= 0
    BY <1>1, <1>2 DEF check_precondition, CheckedRes, IInv, TypeOK
  <1>6. ASSUME NEW p \in Procs, NEW r \in CheckedRes PROVE need'[p][r] >= 0
    <2>1. r \in Res /\ need[p][r] >= 0 /\ need[p][r] \in Int /\ curReq[r] \in Int
      BY <1>2 DEF IInv, CheckedIsCovered, CheckedRes, TypeOK
    <2>2. p = curProc => need[p][r] >= curReq[r]
      BY <1>1 DEF check_precondition
    <2> QED BY <1>2, <2>1, <2>2
  <1>7. CheckedIsCovered'
    BY <1>5, <1>6 DEF CheckedIsCovered, CheckedRes
  <1>8. NothingIsLost'
    BY <1>1, GrantLosesNothing DEF IInv
  <1> QED BY <1>3, <1>4, <1>7, <1>8 DEF IInv

(* Every other step leaves the books and the vectors alone. *)
LEMMA QuietStep ==
    ASSUME IInv, UNCHANGED <<books, work, finish>>, curProc' \in 0 .. ProcNum,
           curReq' \in Requests \union {NoRequest}, granted' \in BOOLEAN
    PROVE  IInv'
  <1>1. TypeOK' /\ ClaimIsKept' /\ CheckedIsCovered'
    BY DEF books, IInv, TypeOK, ClaimIsKept, CheckedIsCovered
  <1>2. NothingIsLost'
    BY DEF books, IInv, NothingIsLost, HeldOf
  <1> QED BY <1>1, <1>2 DEF IInv

LEMMA NextStep ==
    ASSUME IInv, [Next]_vars
    PROVE  IInv'
  <1>1. /\ curProc \in 0 .. ProcNum /\ granted \in BOOLEAN
        /\ curReq \in Requests \union {NoRequest}
    BY DEF IInv, TypeOK
  <1>2. ASSUME NEW p \in 0 .. ProcNum, NEW req \in Requests, SetRequest(p, req)
        PROVE  IInv'
    BY <1>1, <1>2, QuietStep DEF SetRequest
  <1>3. CASE Test
    <2>1. CASE Refuse
      BY <1>1, <1>3, <2>1, QuietStep DEF Test, Refuse
    <2>2. CASE Grant
      BY <1>3, <2>2, GrantStep DEF Test
    <2> QED BY <1>3, <2>1, <2>2 DEF Test
  <1>4. CASE TestWithoutRequest
    BY <1>1, <1>4, QuietStep DEF TestWithoutRequest
  <1>5. CASE UNCHANGED vars
    BY <1>1, <1>5, QuietStep DEF vars
  <1> QED BY <1>2, <1>3, <1>4, <1>5 DEF Next

LEMMA Invariance == Spec => []IInv
  BY InitIInv, NextStep, PTL DEF Spec

-----------------------------------------------------------------------------
(* The books keep their dimensions, and so do the vectors of check_safety
   (lines 74-117). *)
THEOREM BooksTypeCorrect == Spec => []TypeOK
  BY Invariance, PTL DEF IInv

(* What a process holds and may still ask for add up to its claim (lines 71-85). *)
THEOREM ClaimsAreKept == Spec => []ClaimIsKept
  BY Invariance, PTL DEF IInv

(* What is left of a resource and what all processes hold of it add up to what
   there was, however many processes there are (lines 72-79). *)
THEOREM NothingIsEverLost == Spec => []NothingIsLost
  BY Invariance, PTL DEF IInv

(* Of the resources that check_precondition compares, none is overdrawn and no
   process exceeds its claim (lines 60-70). *)
THEOREM CheckedResourcesAreSafe == Spec => []CheckedIsCovered
  BY Invariance, PTL DEF IInv

-----------------------------------------------------------------------------
(* Safety: every process holds no less than nothing and no more than its claim, and
   nothing is overdrawn. *)
HeldWithinClaim ==
    /\ \A p \in Procs, r \in Res : allocation[p][r] \in 0 .. MaxClaim[p][r]
    /\ \A r \in Res : available[r] >= 0

(* When nobody asks for a negative amount and there are no more resources than
   processes, as in the tables of initialize_prevs but not with the eight processes
   and ten resources of the default constructor, the comparison that stops at the
   shortest vector is enough for all of them (lines 16, 46-49, 60-85). *)
THEOREM ClaimsAreNotExceeded ==
    ASSUME Amounts \subseteq Nat, ResNum <= ProcNum
    PROVE  Spec => []HeldWithinClaim
  <1> DEFINE NothingOwed == \A p \in Procs, r \in Res : allocation[p][r] >= 0
  <1>1. Init => NothingOwed
    BY DEF Init
  <1>2. ASSUME IInv, NothingOwed, [Next]_vars PROVE NothingOwed'
    <2>1. CASE UNCHANGED books
      BY <1>2, <2>1 DEF books
    <2>2. ASSUME curReq # NoRequest, Grant PROVE NothingOwed'
      <3>1. curReq \in [Res -> Nat] /\ TypeOK /\ curProc \in Procs /\ try_alloc
        BY <1>2, <2>2 DEF IInv, TypeOK, Requests, Grant
      <3>2. \A p \in Procs, r \in Res :
              allocation'[p][r] = allocation[p][r] + (IF p = curProc THEN curReq[r] ELSE 0)
        BY <2>2, <3>1, Booking
      <3>3. ASSUME NEW p \in Procs, NEW r \in Res PROVE allocation'[p][r] >= 0
        <4>1. allocation[p][r] \in Int /\ allocation[p][r] >= 0 /\ curReq[r] \in Nat
          BY <1>2, <3>1 DEF TypeOK
        <4> QED BY <3>2, <4>1
      <3> QED BY <3>3
    <2> QED BY <1>2, <2>1, <2>2 DEF Next, SetRequest, Test, Refuse, TestWithoutRequest, vars
  <1>3. ASSUME IInv, NothingOwed PROVE HeldWithinClaim
    <2>1. \A r \in Res : r \in CheckedRes
      BY BankerAssumption DEF CheckedRes, Res
    <2>2. ASSUME NEW p \in Procs, NEW r \in Res PROVE allocation[p][r] \in 0 .. MaxClaim[p][r]
      <3>1. /\ need[p][r] \in Int /\ allocation[p][r] \in Int /\ MaxClaim[p][r] \in Nat
            /\ need[p][r] + allocation[p][r] = MaxClaim[p][r]
        BY <1>3, BankerAssumption DEF IInv, TypeOK, ClaimIsKept
      <3>2. need[p][r] >= 0 /\ allocation[p][r] >= 0
        BY <1>3, <2>1 DEF IInv, CheckedIsCovered
      <3> QED BY <3>1, <3>2
    <2>3. \A r \in Res : available[r] >= 0
      BY <1>3, <2>1 DEF IInv, CheckedIsCovered
    <2> QED BY <2>2, <2>3 DEF HeldWithinClaim
  <1> QED BY Invariance, <1>1, <1>2, <1>3, PTL DEF Spec
=============================================================================
