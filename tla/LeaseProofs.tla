---------------------------- MODULE LeaseProofs ----------------------------
(***************************************************************************)
(* What follows from the abstract specification of a pool: leases are      *)
(* exclusive.  A module that implements Lease inherits it.                 *)
(***************************************************************************)
EXTENDS Lease, TLAPS

\* The inductive invariant: a worker that a request holds is leased, and two
\* requests do not hold the same one.
LeaseInv == LeaseType /\ Exclusive

\* Every step of the abstract pool keeps leases exclusive.
LEMMA LeaseStep == NoWorker \notin Worker /\ LeaseInv /\ [Next]_leaseVars => LeaseInv'
<1> SUFFICES ASSUME NoWorker \notin Worker, LeaseInv, [Next]_leaseVars
             PROVE  LeaseInv'
    OBVIOUS
<1> USE DEF LeaseInv, LeaseType, Exclusive
<1>1. CASE \E w \in Worker : Create(w) \/ Retire(w)
    BY <1>1 DEF Create, Retire
<1>2. CASE \E c \in Client, w \in Worker : Grant(c, w)
    <2>1. PICK c \in Client, w \in Worker : Grant(c, w)
        BY <1>2
    <2>2. \A d \in Client : holder[d] # w
        BY <2>1 DEF Grant
    <2> QED
        BY <2>1, <2>2 DEF Grant
<1>3. CASE \E c \in Client, next \in {"free", "retired"} : Release(c, next)
    <2>1. PICK c \in Client, next \in {"free", "retired"} : Release(c, next)
        BY <1>3
    <2>2. \A d \in Client : d # c => holder[d] # holder[c]
        BY <2>1 DEF Release
    <2> QED
        BY <2>1, <2>2 DEF Release
<1>4. CASE UNCHANGED leaseVars
    BY <1>4 DEF leaseVars
<1> QED
    BY <1>1, <1>2, <1>3, <1>4 DEF Next

\* In every behaviour of the abstract pool no worker serves two requests at a
\* time, and a worker in use is neither free nor retired.
THEOREM LeaseIsExclusive == NoWorker \notin Worker /\ Spec => []Exclusive
<1>1. Init => LeaseInv
    BY DEF Init, LeaseInv, LeaseType, Exclusive
<1>2. LeaseInv => Exclusive
    BY DEF LeaseInv
<1>3. ASSUME NoWorker \notin Worker PROVE Spec => []Exclusive
    <2>1. LeaseInv /\ [Next]_leaseVars => LeaseInv'
        BY <1>3, LeaseStep
    <2> QED
        BY <1>1, <1>2, <2>1, PTL DEF Spec
<1> QED
    BY <1>3

=============================================================================
