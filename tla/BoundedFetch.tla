------------------------------ MODULE BoundedFetch ------------------------------
(***************************************************************************)
(* fetch_bounded (httpio.py): a daemon thread opens and reads a response,  *)
(* its caller waits for the outcome until a deadline.  What the deadline   *)
(* cuts off is the caller's wait; the thread goes on by itself, and the    *)
(* caller can only close the response under it, if it has one.             *)
(***************************************************************************)
VARIABLES
    caller,  \* where the caller is, and in the end what it has got
    worker,  \* where its thread is
    expired, \* the deadline has passed, for the one of the two that is not done
    outcome, \* what the thread has to report
    slot,    \* the queue of one outcome
    held,    \* response_holder has the response
    open     \* the response is open

fetchVars == <<caller, worker, expired, outcome, slot, held, open>>

\* The body as it was published, one cut off by the peer or by the limit of
\* maximum + 1 bytes, and one that is different.
Bodies   == {"whole", "cut", "other"}
Outcomes == Bodies \cup {"error"}
Stages   == {"none", "opening", "holding", "reading", "putting", "clearing"}

-----------------------------------------------------------------------------

FetchInit ==
    /\ caller = "none"
    /\ worker = "none"
    /\ expired = FALSE
    /\ outcome = "none"
    /\ slot = "none"
    /\ held = FALSE
    /\ open = FALSE

Quiet ==
    /\ caller' = "none"
    /\ worker' = "none"
    /\ expired' = FALSE
    /\ outcome' = "none"
    /\ slot' = "none"
    /\ held' = FALSE
    /\ open' = FALSE

\* A thread that an earlier fetch left behind has gone with its process.
StartFetch ==
    /\ caller' = "waiting"
    /\ worker' = "opening"
    /\ expired' = FALSE
    /\ outcome' = "none"
    /\ slot' = "none"
    /\ held' = FALSE
    /\ open' = FALSE

Expire ==
    /\ worker # "none" \/ caller = "waiting"
    /\ ~expired
    /\ expired' = TRUE
    /\ UNCHANGED <<caller, worker, outcome, slot, held, open>>

-----------------------------------------------------------------------------
(* The thread.                                                             *)

\* The opener knows what is left of the deadline, but may return after it.
Open ==
    /\ worker = "opening"
    /\ worker' = "holding"
    /\ open' = TRUE
    /\ UNCHANGED <<caller, expired, outcome, slot, held>>

OpenFails ==
    /\ worker = "opening"
    /\ worker' = "putting"
    /\ outcome' = "error"
    /\ UNCHANGED <<caller, expired, slot, held, open>>

Hold ==
    /\ worker = "holding"
    /\ worker' = "reading"
    /\ held' = TRUE
    /\ UNCHANGED <<caller, expired, outcome, slot, open>>

\* Leaving the with block closes the response.
LeaveResponse(value) ==
    /\ worker' = "putting"
    /\ outcome' = value
    /\ open' = FALSE
    /\ UNCHANGED <<caller, expired, slot, held>>

\* The end of the body, or the limit.  The read before the end may outlast
\* the deadline; the one that reaches the limit may not.
ReadEnds(body) ==
    /\ worker = "reading"
    /\ open
    /\ LeaveResponse(body)

\* Mutant: only a response that was closed ends a read.
ReadStopsIfClosed ==
    /\ worker = "reading"
    /\ ~open
    /\ LeaveResponse("error")

\* Every read has the rest of the deadline as its own; a closed response ends
\* one at once.
ReadStops ==
    /\ worker = "reading"
    /\ expired \/ ~open
    /\ LeaveResponse("error")

ReadFails ==
    /\ worker = "reading"
    /\ LeaveResponse("error")

\* The queue is never full: a thread reports once.  What is put there when
\* nobody waits any longer goes with the queue.
Report ==
    /\ worker = "putting"
    /\ worker' = "clearing"
    /\ slot' = IF caller = "waiting" THEN outcome ELSE "none"
    /\ outcome' = "none"
    /\ UNCHANGED <<caller, expired, held, open>>

ClearHolder ==
    /\ worker = "clearing"
    /\ worker' = "none"
    /\ held' = FALSE
    /\ expired' = (expired /\ caller = "waiting")
    /\ UNCHANGED <<caller, outcome, slot, open>>

-----------------------------------------------------------------------------
(* The caller.                                                             *)

Receive ==
    /\ caller = "waiting"
    /\ slot # "none"
    /\ caller' = slot
    /\ slot' = "none"
    /\ expired' = (expired /\ worker # "none")
    /\ UNCHANGED <<worker, outcome, held, open>>

\* Mutant: the caller waits for its thread.
GiveUpJoins ==
    /\ caller = "waiting"
    /\ expired
    /\ slot = "none"
    /\ worker = "none"
    /\ caller' = "error"
    /\ UNCHANGED <<worker, expired, outcome, slot, held, open>>

\* queue.Empty: close what the thread has in hand.
GiveUpFetch ==
    /\ caller = "waiting"
    /\ expired
    /\ slot = "none"
    /\ caller' = "error"
    /\ open' = (open /\ ~held)
    /\ UNCHANGED <<worker, expired, outcome, slot, held>>

-----------------------------------------------------------------------------

FetchStep ==
    \/ Expire
    \/ Open \/ OpenFails \/ Hold \/ ReadStops \/ ReadFails \/ Report \/ ClearHolder
    \/ \E body \in Bodies : ReadEnds(body)
    \/ Receive \/ GiveUpFetch

\* Opening may take for ever, and so may the peer; everything else ends.
FetchFairness ==
    /\ WF_fetchVars(Expire)
    /\ WF_fetchVars(Hold) /\ WF_fetchVars(ReadStops)
    /\ WF_fetchVars(Report) /\ WF_fetchVars(ClearHolder)
    /\ WF_fetchVars(Receive \/ GiveUpFetch)

-----------------------------------------------------------------------------
(* Properties.                                                             *)

FetchTypeOK ==
    /\ caller \in {"none", "waiting"} \cup Outcomes
    /\ worker \in Stages
    /\ expired \in BOOLEAN
    /\ outcome \in Outcomes \cup {"none"}
    /\ slot \in Outcomes \cup {"none"}
    /\ held \in BOOLEAN
    /\ open \in BOOLEAN
    /\ open => worker \in {"holding", "reading"}

\* Whatever the peer does, and whichever of the two notices first, a response
\* that was opened is closed, also one that arrives when nobody waits for it.
ResponseCloses == open ~> ~open

\* The caller has an answer in the end, also when opening never returns.
FetchReturns == caller = "waiting" ~> caller # "waiting"
=============================================================================
