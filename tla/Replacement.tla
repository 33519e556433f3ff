------------------------------ MODULE Replacement ------------------------------
(***************************************************************************)
(* What a transactional update promises (updates.py, transactional_replace *)
(* and its protocol): the current deployment stays recoverable until a     *)
(* candidate was verified, and at the end exactly one of the two is left.  *)
(* The code rolls back and then discards; which of the two is finished     *)
(* first does not matter here, so a transaction ends when both are.        *)
(***************************************************************************)
CONSTANT Runs \* run identities

VARIABLES
    current,   \* the deployment a rollback would restore
    candidate, \* the one that is to replace it, a set of at most one run
    verified,  \* the candidate passed its checks
    intact     \* deployments that still have all of their data and program

vars == <<current, candidate, verified, intact>>

Init ==
    /\ current \in Runs
    /\ candidate = {}
    /\ verified = FALSE
    /\ intact = {current}

Stage(c) ==
    /\ candidate = {}
    /\ c \notin intact
    /\ candidate' = {c}
    /\ UNCHANGED <<current, verified, intact>>

\* The candidate is created beside the current deployment.
Prepare ==
    /\ intact' = intact \cup candidate
    /\ UNCHANGED <<current, candidate, verified>>

Prepared == candidate # {} /\ candidate \subseteq intact

Verify ==
    /\ Prepared
    /\ verified' = TRUE
    /\ UNCHANGED <<current, candidate, intact>>

\* Only beside an intact current deployment is a candidate given up.
DiscardCandidate ==
    /\ current \in intact
    /\ intact' = intact \ candidate
    /\ UNCHANGED <<current, candidate, verified>>

Rollback ==
    /\ current \in intact
    /\ candidate \cap intact = {}
    /\ candidate' = {}
    /\ verified' = FALSE
    /\ UNCHANGED <<current, intact>>

\* Only a verified candidate takes the place of the current deployment.
Retire ==
    /\ verified
    /\ Prepared
    /\ intact' = intact \ {current}
    /\ UNCHANGED <<current, candidate, verified>>

Activate ==
    /\ verified
    /\ Prepared
    /\ current \notin intact
    /\ current' \in candidate
    /\ candidate' = {}
    /\ verified' = FALSE
    /\ UNCHANGED intact

Next ==
    \/ \E c \in Runs : Stage(c)
    \/ Prepare \/ Verify \/ DiscardCandidate \/ Rollback \/ Retire \/ Activate

Spec == Init /\ [][Next]_vars

-----------------------------------------------------------------------------

\* There is always a deployment to go on with: the current one, or the
\* candidate that was verified in its place.
Recoverable == current \in intact \/ (verified /\ Prepared)
=============================================================================
