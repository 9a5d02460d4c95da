------------------------- MODULE MeasurementHandoff -------------------------
(***************************************************************************)
(* What EstimatorPipeline promises its callers, without a queue, a         *)
(* condition variable or a thread: every measurement whose Push() returned *)
(* true reaches the estimator exactly once and in the order of the pushes, *)
(* nothing is accepted any more once the hand-off is closed, and Stop()    *)
(* returns only when everything accepted has been delivered.               *)
(***************************************************************************)
EXTENDS Naturals, Sequences

CONSTANTS
    Measurement,    \* the measurements producers may push
    Capacity        \* the most that may be accepted and not yet delivered

VARIABLES
    accepted,       \* measurements accepted, in the order of acceptance
    delivered,      \* measurements the estimator has processed
    closed,         \* no further measurement is accepted
    stopped         \* the first Stop() has returned

vars == <<accepted, delivered, closed, stopped>>

Init ==
    /\ accepted = <<>>
    /\ delivered = <<>>
    /\ closed = FALSE
    /\ stopped = FALSE

Accept(m) ==
    /\ ~closed
    /\ Len(accepted) - Len(delivered) < Capacity
    /\ accepted' = Append(accepted, m)
    /\ UNCHANGED <<delivered, closed, stopped>>

Deliver ==
    /\ Len(delivered) < Len(accepted)
    /\ delivered' = Append(delivered, accepted[Len(delivered) + 1])
    /\ UNCHANGED <<accepted, closed, stopped>>

Close ==
    /\ ~closed
    /\ closed' = TRUE
    /\ UNCHANGED <<accepted, delivered, stopped>>

StopReturns ==
    /\ closed
    /\ ~stopped
    /\ delivered = accepted
    /\ stopped' = TRUE
    /\ UNCHANGED <<accepted, delivered, closed>>

Next ==
    \/ \E m \in Measurement : Accept(m)
    \/ Deliver
    \/ Close
    \/ StopReturns

Safety == Init /\ [][Next]_vars

Spec == Safety /\ WF_vars(Deliver) /\ WF_vars(StopReturns)
=============================================================================
