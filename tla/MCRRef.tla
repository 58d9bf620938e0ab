------------------------------- MODULE MCRRef -------------------------------
(* RRefContext for TLC, on either of two networks: one where messages and  *)
(* remote() may fail, as the constants say, and a reliable one, where they *)
(* do not.  On the reliable one, forked handles are also passed on before  *)
(* they are confirmed, and remote() is given a Python function.            *)
EXTENDS RRefContext

VARIABLE reliable \* which of the two it is

R == INSTANCE RRefContext
       WITH MaxRetries <- 0, SendErrors <- FALSE, RemoteErrors <- {},
            EarlyShare <- {"forked"}, ScriptPath <- FALSE

rvars == <<reliable, vars>>
If(b, A) == reliable = b /\ A /\ UNCHANGED reliable

MCInit == Init /\ reliable \in BOOLEAN
MCNext ==
  \/ If(FALSE, Next)
  \/ If(TRUE, R!ApplicationStep) \/ If(TRUE, R!RemoteCallStep)
  \/ \E f \in Fork : If(TRUE, R!DeliveryStep(f))

(* Fairness as in RRefContext, and only of the reliable network.           *)
MCFairness ==
  /\ WF_rvars(If(TRUE, R!RemoteCallStep))
  /\ \A f \in Fork : WF_rvars(If(TRUE, R!DeliveryStep(f)))
MCSpec == MCInit /\ [][MCNext]_rvars /\ MCFairness

(* The OwnerRRef is released, and forks_ is empty, once the application    *)
(* has let go of every handle (EventuallyReleased of RRefContext).         *)
ReleasedIfReliable == reliable => EventuallyReleased

(* Every to_here() returns (ToHereReturns of RRefContext).                 *)
ToHereReturnsIfReliable == reliable => ToHereReturns
=============================================================================
