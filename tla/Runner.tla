-------------------------------- MODULE Runner --------------------------------
(***************************************************************************)
(* Runners (pkg/runner/runner.go): each executes one long running task,    *)
(* can be interrupted, and delivers one result, the task's own or a        *)
(* timeout.  Four goroutines share a runner: the task, doTask that waits   *)
(* for it, the goroutine that Interrupt leaves behind to wait for the      *)
(* timeout, and the caller of Run.  There is no clock: a timeout may come  *)
(* at any time after it was armed.                                         *)
(***************************************************************************)
EXTENDS Naturals, Sequences, FiniteSets

CONSTANTS
    Runners,    \* the ids of the runners
    Unknown     \* the id "_unknown_" in the results of a group's timeout

ASSUME RunnerAssumption == IsFiniteSet(Runners) /\ Unknown \notin Runners

VARIABLES
    fn,             \* the task: "new", "running", "finished" (r.finished is
                    \* closed), "reported" (its result is in tmpCh)
    doTask,         \* "new", "select", "task" or "timeout" (the result it is
                    \* about to send), "done"
    interrupted,    \* r.interrupted
    stopper,        \* r.interrupt(): "none", "due", "called"
    watch,          \* the goroutine of Interrupt: "none", "waiting", "gone"
    interruptedCh,  \* is a value in the buffered channel
    caller,         \* Run: "none", "select", "stopping", "waiting", "returned"
    ctxDone,        \* the context of Run is done
    ch,             \* the channel given to RunAsync
    results         \* the results returned by Run or read from ch, in order

runnerVars == <<fn, doTask, interrupted, stopper, watch, interruptedCh, caller>>
chVars     == <<ch, results>>
vars       == <<runnerVars, ctxDone, chVars>>

Result == [id : Runners \cup {Unknown}, err : {"task", "timeout"}]

Finished(r) == fn[r] \in {"finished", "reported"}

Started(r) == doTask[r] # "new"

-----------------------------------------------------------------------------
(* Starting.  Running a runner twice panics.                               *)

Start(r) ==
    /\ ~Started(r)
    /\ doTask' = [doTask EXCEPT ![r] = "select"]
    /\ fn' = [fn EXCEPT ![r] = "running"]
    /\ UNCHANGED <<interrupted, stopper, watch, interruptedCh, ctxDone>>

Run(r) ==
    /\ Start(r)
    /\ caller' = [caller EXCEPT ![r] = "select"]
    /\ UNCHANGED chVars

RunAsync(r) == Start(r) /\ UNCHANGED <<caller, ch, results>>

-----------------------------------------------------------------------------
(* The task and doTask.                                                    *)

FnReturns(r) ==
    /\ fn[r] = "running"
    /\ fn' = [fn EXCEPT ![r] = "finished"]
    /\ UNCHANGED <<doTask, interrupted, stopper, watch, interruptedCh, caller,
                   ctxDone, chVars>>

FnReports(r) ==
    /\ fn[r] = "finished"
    /\ fn' = [fn EXCEPT ![r] = "reported"]
    /\ UNCHANGED <<doTask, interrupted, stopper, watch, interruptedCh, caller,
                   ctxDone, chVars>>

\* The select of doTask: when both channels are ready, either may be chosen.
TaskResult(r) ==
    /\ doTask[r] = "select" /\ fn[r] = "reported"
    /\ doTask' = [doTask EXCEPT ![r] = "task"]
    /\ UNCHANGED <<fn, interrupted, stopper, watch, interruptedCh, caller,
                   ctxDone, chVars>>

TimeoutResult(r) ==
    /\ doTask[r] = "select" /\ interruptedCh[r]
    /\ doTask' = [doTask EXCEPT ![r] = "timeout"]
    /\ interruptedCh' = [interruptedCh EXCEPT ![r] = FALSE]
    /\ UNCHANGED <<fn, interrupted, stopper, watch, caller, ctxDone, chVars>>

HasResult(r) == doTask[r] \in {"task", "timeout"}

ResultOf(r) == [id |-> r, err |-> doTask[r]]

\* Mutant: doTask waits in a loop and reports the task after the timeout.
SendAgain(r, cap) ==
    /\ HasResult(r) /\ caller[r] = "none"
    /\ Len(ch) < cap
    /\ ch' = Append(ch, ResultOf(r))
    /\ doTask' = [doTask EXCEPT ![r] = IF @ = "timeout" THEN "select" ELSE "done"]
    /\ UNCHANGED <<fn, interrupted, stopper, watch, interruptedCh, caller,
                   ctxDone, results>>

\* Sending on the channel of RunAsync, which has room for cap results.
Send(r, cap) ==
    /\ HasResult(r) /\ caller[r] = "none"
    /\ Len(ch) < cap
    /\ ch' = Append(ch, ResultOf(r))
    /\ doTask' = [doTask EXCEPT ![r] = "done"]
    /\ UNCHANGED <<fn, interrupted, stopper, watch, interruptedCh, caller,
                   ctxDone, results>>

\* Run's channel has no buffer: doTask sends when Run receives.
RunReturns(r) ==
    /\ HasResult(r) /\ caller[r] \in {"select", "waiting"}
    /\ caller' = [caller EXCEPT ![r] = "returned"]
    /\ doTask' = [doTask EXCEPT ![r] = "done"]
    /\ results' = Append(results, ResultOf(r))
    /\ UNCHANGED <<fn, interrupted, stopper, watch, interruptedCh, ctxDone, ch>>

-----------------------------------------------------------------------------
(* Interrupt: the first caller starts the timeout and calls the stopper.   *)

\* Mutant: the stopper is called but no timeout is started.
DoInterruptNoTimeout(r) ==
    /\ interrupted' = [interrupted EXCEPT ![r] = TRUE]
    /\ stopper' = [stopper EXCEPT ![r] = "due"]
    /\ UNCHANGED <<fn, doTask, watch, interruptedCh>>

DoInterrupt(r) ==
    /\ interrupted' = [interrupted EXCEPT ![r] = TRUE]
    /\ watch' = [watch EXCEPT ![r] = "waiting"]
    /\ stopper' = [stopper EXCEPT ![r] = "due"]
    /\ UNCHANGED <<fn, doTask, interruptedCh>>

\* Further calls do nothing.
Interrupt(r) ==
    /\ ~interrupted[r]
    /\ DoInterrupt(r)
    /\ UNCHANGED <<caller, ctxDone, chVars>>

\* Run's context is done.  If another caller interrupts, Run goes on.
RunCancelled(r) ==
    /\ caller[r] = "select" /\ ctxDone
    /\ \/ /\ ~interrupted[r]
          /\ DoInterrupt(r)
          /\ caller' = [caller EXCEPT ![r] = "stopping"]
       \/ /\ interrupted[r]
          /\ caller' = [caller EXCEPT ![r] = "waiting"]
          /\ UNCHANGED <<fn, doTask, interrupted, stopper, watch, interruptedCh>>
    /\ UNCHANGED <<ctxDone, chVars>>

CallStopper(r) ==
    /\ stopper[r] = "due"
    /\ stopper' = [stopper EXCEPT ![r] = "called"]
    /\ caller' = [caller EXCEPT ![r] = IF @ = "stopping" THEN "waiting" ELSE @]
    /\ UNCHANGED <<fn, doTask, interrupted, watch, interruptedCh, ctxDone, chVars>>

WatchFinished(r) ==
    /\ watch[r] = "waiting" /\ Finished(r)
    /\ watch' = [watch EXCEPT ![r] = "gone"]
    /\ UNCHANGED <<fn, doTask, interrupted, stopper, interruptedCh, caller,
                   ctxDone, chVars>>

WatchTimesOut(r) ==
    /\ watch[r] = "waiting"
    /\ watch' = [watch EXCEPT ![r] = "gone"]
    /\ interruptedCh' = [interruptedCh EXCEPT ![r] = TRUE]
    /\ UNCHANGED <<fn, doTask, interrupted, stopper, caller, ctxDone, chVars>>

ContextDone ==
    /\ ~ctxDone /\ ctxDone' = TRUE
    /\ UNCHANGED <<runnerVars, chVars>>

-----------------------------------------------------------------------------
(* Runners on their own: each is run with Run, or with RunAsync and a      *)
(* shared channel with one slot that its owner reads.                      *)

RunnerInit ==
    /\ fn = [r \in Runners |-> "new"]
    /\ doTask = [r \in Runners |-> "new"]
    /\ interrupted = [r \in Runners |-> FALSE]
    /\ stopper = [r \in Runners |-> "none"]
    /\ watch = [r \in Runners |-> "none"]
    /\ interruptedCh = [r \in Runners |-> FALSE]
    /\ caller = [r \in Runners |-> "none"]
    /\ ctxDone = FALSE
    /\ ch = <<>> /\ results = <<>>

\* The owner of the channel receives a result.
Receive ==
    /\ ch # <<>>
    /\ results' = Append(results, Head(ch)) /\ ch' = Tail(ch)
    /\ UNCHANGED <<runnerVars, ctxDone>>

\* What a runner's goroutines do by themselves, whoever started it.
Goroutines(r) ==
    \/ FnReports(r) \/ TaskResult(r) \/ TimeoutResult(r)
    \/ CallStopper(r) \/ WatchFinished(r) \/ WatchTimesOut(r)

RunnerNext ==
    \/ ContextDone \/ Receive
    \/ \E r \in Runners :
          Run(r) \/ RunAsync(r) \/ FnReturns(r) \/ Goroutines(r) \/ Send(r, 1)
          \/ RunReturns(r) \/ Interrupt(r) \/ RunCancelled(r)

\* Goroutines are scheduled, timers fire, stoppers return and the channel is
\* read.  Nothing is said about the task: it may ignore its stopper.
RunnerFairness ==
    /\ WF_vars(Receive)
    /\ \A r \in Runners :
          /\ WF_vars(FnReports(r)) /\ WF_vars(CallStopper(r))
          /\ WF_vars(TaskResult(r) \/ TimeoutResult(r))
          /\ WF_vars(WatchFinished(r) \/ WatchTimesOut(r))
          /\ WF_vars(Send(r, 1)) /\ WF_vars(RunReturns(r))
          /\ WF_vars(RunCancelled(r))

(* Properties. *)

Reported == results \o ch

\* A runner delivers one result, whichever of the task and the timeout wins
\* in doTask, and it is honest: the task's only when the task has returned,
\* a timeout only when the runner was interrupted (runner.go, doTask).
OneResultEach ==
    /\ \A i, j \in 1 .. Len(Reported) :
          i # j /\ Reported[i].id = Reported[j].id => Reported[i].id = Unknown
    /\ \A i \in 1 .. Len(Reported) : \A r \in Runners :
          Reported[i].id = r =>
             /\ doTask[r] = "done"
             /\ Reported[i].err = "task" => fn[r] = "reported"
             /\ Reported[i].err = "timeout" => interrupted[r]

\* Once its context is done or it is interrupted, Run returns and RunAsync's
\* result is received, although the task may never stop (runner.go, Run: "to
\* prevent blocking the main thread indefinitely").
InterruptedDelivers ==
    \A r \in Runners :
        (caller[r] = "select" /\ ctxDone) \/ (interrupted[r] /\ Started(r)) ~>
            IF caller[r] = "none" THEN \E i \in 1 .. Len(results) : results[i].id = r
            ELSE caller[r] = "returned"

-----------------------------------------------------------------------------
RunnerSpec == RunnerInit /\ [][RunnerNext]_vars /\ RunnerFairness
==============================================================================
