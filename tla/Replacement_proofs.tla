--------------------------- MODULE Replacement_proofs ---------------------------
(* Theorems about Replacement, for every set of runs.                      *)
EXTENDS Replacement, TLAPS

\* What Recoverable rests on: nothing but the two deployments of the
\* transaction is intact, and there is no verdict without a candidate.
IInv ==
    /\ current \in Runs
    /\ candidate = {} \/ \E c \in Runs \ {current} : candidate = {c}
    /\ verified \in BOOLEAN
    /\ verified => candidate # {}
    /\ intact \subseteq {current} \cup candidate
    /\ Recoverable

LEMMA InitIInv == Init => IInv
    BY DEF Init, IInv, Recoverable, Prepared

LEMMA StepIInv == IInv /\ [Next]_vars => IInv'
<1> SUFFICES ASSUME IInv, [Next]_vars PROVE IInv'
    OBVIOUS
<1> USE DEF IInv, Recoverable, Prepared
<1>1. ASSUME NEW c \in Runs, Stage(c) PROVE IInv'
    BY <1>1 DEF Stage
<1>2. CASE Prepare
    BY <1>2 DEF Prepare
<1>3. CASE Verify
    BY <1>3 DEF Verify
<1>4. CASE DiscardCandidate
    BY <1>4 DEF DiscardCandidate
<1>5. CASE Rollback
    BY <1>5 DEF Rollback
<1>6. CASE Retire
    BY <1>6 DEF Retire
<1>7. CASE Activate
    BY <1>7 DEF Activate
<1>8. CASE UNCHANGED vars
    BY <1>8 DEF vars
<1> QED
    BY <1>1, <1>2, <1>3, <1>4, <1>5, <1>6, <1>7, <1>8 DEF Next

\* A replacement never leaves the laboratory without a deployment to go on
\* with, whatever is given up, rolled back or retired and in whatever order.
THEOREM AlwaysRecoverable == Spec => []Recoverable
<1>1. IInv => Recoverable
    BY DEF IInv
<1> QED
    BY InitIInv, StepIInv, <1>1, PTL DEF Spec
=============================================================================
