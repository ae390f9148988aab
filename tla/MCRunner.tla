------------------------------- MODULE MCRunner -------------------------------
(* Runners for TLC: on their own, or in a group. *)
EXTENDS GroupRunner

VARIABLE alone      \* the runners are not in a group

mcVars == <<allVars, alone>>

MCInit == GroupInit /\ alone \in BOOLEAN

MCNext ==
    /\ \/ alone /\ RunnerNext /\ UNCHANGED groupVars
       \/ ~alone /\ GroupNext
    /\ UNCHANGED alone

\* What runners on their own need beyond GroupFairness (see RunnerFairness).
AloneFairness ==
    /\ WF_mcVars(alone /\ Receive /\ UNCHANGED <<groupVars, alone>>)
    /\ \A r \in Runners :
          /\ WF_mcVars(alone /\ Send(r, 1) /\ UNCHANGED <<groupVars, alone>>)
          /\ WF_mcVars((RunReturns(r) \/ RunCancelled(r)) /\ UNCHANGED <<groupVars, alone>>)

MCSpec == MCInit /\ [][MCNext]_mcVars /\ GroupFairness /\ AloneFairness

\* Runners on their own deliver (Runner, InterruptedDelivers): once its context
\* is done or it is interrupted, Run returns and RunAsync's result is received,
\* although the task may never stop (runner.go, Run: "to prevent blocking the
\* main thread indefinitely").
AloneDelivers == alone => InterruptedDelivers
===============================================================================
