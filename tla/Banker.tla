------------------------------- MODULE Banker -------------------------------
(***************************************************************************)
(* BankerAlgorithm of src/cpp/Banker.cpp.  A caller names a process and    *)
(* the resources it asks for (set_cur_proc_req) and then tests the object  *)
(* (operator bool), which grants the request or refuses it.                *)
(*                                                                         *)
(* The class reads no claims itself: initialize_prevs, which a subclass    *)
(* overrides, would fill m_available, m_max and m_need.  MaxClaim and      *)
(* Capacity are what it put there; the base class leaves them all zero.    *)
(* Processes and resources count from 0 as in the code.                    *)
(***************************************************************************)
EXTENDS Integers, FiniteSets, Functions

CONSTANTS ProcNum,   (* m_proc_num                                          *)
          ResNum,    (* m_res_num                                           *)
          MaxClaim,  (* m_max: what each process may hold of each resource  *)
          Capacity,  (* what there is of each resource in the beginning     *)
          Amounts,   (* bound: the amounts callers ask for, of any sign     *)
          Depth      (* bound: no caller asks for what would take a book    *)
                     (* further than this from zero                         *)

Procs == 0 .. ProcNum - 1
Res   == 0 .. ResNum - 1

ASSUME BankerAssumption ==
    /\ ProcNum \in Nat \ {0}
    /\ ResNum \in Nat \ {0}
    /\ MaxClaim \in [Procs -> [Res -> Nat]]
    /\ Capacity \in [Res -> Nat]
    /\ Amounts \subseteq Int
    /\ Depth \in Nat

VARIABLES
    available,   \* m_available
    allocation,  \* m_allocation
    need,        \* m_need
    work,        \* m_work
    finish,      \* m_finish
    curProc,     \* m_cur_proc_idx
    curReq,      \* what m_cur_req_poi points to, or NoRequest
    granted      \* the last result of operator bool

books == <<available, allocation, need>>
vars  == <<books, work, finish, curProc, curReq, granted>>

NoRequest == [r \in {} |-> 0]
Requests  == [Res -> Amounts]

Plus(u, v)  == [r \in Res |-> u[r] + v[r]]
Minus(u, v) == [r \in Res |-> u[r] - v[r]]
Leq(u, v)   == \A r \in Res : u[r] <= v[r]

-----------------------------------------------------------------------------
Init ==
    /\ available = Capacity
    /\ allocation = [p \in Procs |-> [r \in Res |-> 0]]
    /\ need = MaxClaim
    /\ work = [r \in Res |-> 0]
    /\ finish = [p \in Procs |-> FALSE]
    /\ curProc = 0
    /\ curReq = NoRequest
    /\ granted = FALSE

InReach(p, req) ==
    \A r \in Res :
        /\ available[r] - req[r] \in -Depth .. Depth
        /\ p \in Procs => allocation[p][r] + req[r] \in -Depth .. Depth

(* The caller may name any process; the pointer it leaves is read by Test, so
   changing the vector meanwhile is the same as another call of SetRequest. *)
SetRequest(p, req) ==
    /\ InReach(p, req)
    /\ curProc' = p
    /\ curReq' = req
    /\ UNCHANGED <<books, work, finish, granted>>

(* The comparison stops at the shortest of m_available, the request and
   m_need, and m_need has an element per process, not per resource. *)
CheckedRes == {r \in Res : r < ProcNum}

(* Mutant: what is left is not looked at. *)
ClaimOnly ==
    \A r \in CheckedRes : need[curProc][r] >= curReq[r]

check_precondition ==
    \A r \in CheckedRes : available[r] >= curReq[r] /\ need[curProc][r] >= curReq[r]

(* Mutant: the claim stays as it was. *)
AllocateKeepsNeed ==
    /\ available' = Minus(available, curReq)
    /\ allocation' = [allocation EXCEPT ![curProc] = Plus(@, curReq)]
    /\ UNCHANGED need

(* Mutant: what was given is not taken from what is left. *)
AllocateFromNothing ==
    /\ allocation' = [allocation EXCEPT ![curProc] = Plus(@, curReq)]
    /\ need' = [need EXCEPT ![curProc] = Minus(@, curReq)]
    /\ UNCHANGED available

try_alloc ==
    /\ available' = Minus(available, curReq)
    /\ allocation' = [allocation EXCEPT ![curProc] = Plus(@, curReq)]
    /\ need' = [need EXCEPT ![curProc] = Minus(@, curReq)]

(* One round of the loop of check_safety.  It marks a process when the work
   vector is at most its need; one marked by an earlier call stays marked. *)
Visit(before, p, alloc, nd) ==
    IF ~before.finish[p] /\ Leq(before.work, nd[p])
    THEN [work   |-> Plus(before.work, alloc[p]),
          finish |-> [before.finish EXCEPT ![p] = TRUE]]
    ELSE before

(* The loop over all processes, from the given books. *)
SafetyPass(avail, alloc, nd) ==
    LET pass[n \in 0 .. ProcNum] ==
        IF n = 0 THEN [work |-> avail, finish |-> finish] ELSE Visit(pass[n - 1], n - 1, alloc, nd)
    IN  pass[ProcNum]

(* Its result is true whatever the pass found. *)
check_safety ==
    LET end == SafetyPass(available', allocation', need')
    IN  /\ work' = end.work
        /\ finish' = end.finish
        /\ granted' = TRUE

(* Nothing is booked, and no work is done. *)
Refuse ==
    /\ ~(curProc \in Procs /\ check_precondition)
    /\ granted' = FALSE
    /\ UNCHANGED <<books, work, finish>>

Grant ==
    /\ curProc \in Procs /\ check_precondition
    /\ try_alloc
    /\ check_safety

(* operator bool: the request is forgotten on every way out. *)
Test ==
    /\ curReq # NoRequest
    /\ Refuse \/ Grant
    /\ curReq' = NoRequest
    /\ UNCHANGED curProc

TestWithoutRequest ==
    /\ curReq = NoRequest
    /\ granted' = FALSE
    /\ UNCHANGED <<books, work, finish, curProc, curReq>>

Next ==
    \/ \E p \in 0 .. ProcNum, req \in Requests : SetRequest(p, req)
    \/ Test
    \/ TestWithoutRequest

Spec == Init /\ [][Next]_vars

-----------------------------------------------------------------------------
(* Type invariant: each book keeps its dimensions, and so do the vectors of check_safety. *)
TypeOK ==
    /\ available \in [Res -> Int]
    /\ allocation \in [Procs -> [Res -> Int]]
    /\ need \in [Procs -> [Res -> Int]]
    /\ work \in [Res -> Int]
    /\ finish \in [Procs -> BOOLEAN]
    /\ curProc \in 0 .. ProcNum
    /\ curReq \in Requests \union {NoRequest}
    /\ granted \in BOOLEAN

(* Safety: the two books of a process agree.  What it holds and what it may
   still ask for add up to its claim after any number of requests (lines 71-85). *)
ClaimIsKept ==
    \A p \in Procs, r \in Res : need[p][r] + allocation[p][r] = MaxClaim[p][r]

(* The sum of an amount per process. *)
Total(amount) ==
    LET upTo[n \in 0 .. ProcNum] == IF n = 0 THEN 0 ELSE upTo[n - 1] + amount[n - 1]
    IN  upTo[ProcNum]

HeldOf(r) == [p \in Procs |-> allocation[p][r]]

(* Safety: nothing is made or lost.  What is left and what all processes hold
   add up to what there was (lines 72-79). *)
NothingIsLost == \A r \in Res : available[r] + Total(HeldOf(r)) = Capacity[r]

(* Safety: of a resource that check_precondition compares, no more is ever given
   than is left, nor than the process claimed (lines 60-70), negative requests
   included.  Resources from the number of processes on are not compared, and
   escape this. *)
CheckedIsCovered ==
    \A r \in CheckedRes : available[r] >= 0 /\ \A p \in Procs : need[p][r] >= 0

-----------------------------------------------------------------------------
(* What the comment of the class says. *)

(* "the banker's algorithm that avoids deadlock" (line 9): the state is safe, there
   is an order in which every process can get the rest of its claim and end. *)
Safe ==
    \E order \in [1 .. ProcNum -> Procs] :
        /\ \A j, k \in 1 .. ProcNum : order[j] = order[k] => j = k
        /\ \A k \in 1 .. ProcNum, r \in Res :
            need[order[k]][r] <=
                available[r] + FoldFunction(LAMBDA a, b : a + b, 0,
                                            [j \in 1 .. k - 1 |-> allocation[order[j]][r]])
=============================================================================
