------------------------------ MODULE GroupRunner ------------------------------
(***************************************************************************)
(* Groups of runners (pkg/runner/grouprunner.go): every service of the     *)
(* repository runs its servers in one.  All runners of the group run       *)
(* together; when one ends, or the context is done, the others are         *)
(* interrupted one after the other, then a timeout for the whole group     *)
(* starts, and the group collects as many results as it has runners.       *)
(* ch is the buffered channel between the runners and the group.           *)
(***************************************************************************)
EXTENDS Runner

CONSTANTS
    Others      \* whom others interrupt: "group", or some runners

ASSUME GroupAssumption == Others \subseteq {"group"} \cup Runners

VARIABLES
    runners,        \* gr.runners
    group,          \* Run or the goroutine of RunAsync: "idle", "starting",
                    \* "first", "interrupt", "sweeping", "rest", "returned"
    ginterrupted,   \* gr.interrupted
    sweep,          \* the loop of Interrupt: "none", "look", "call" (at was
                    \* not finished), "stopping" (at's stopper runs), "over"
    todo, at,       \* the runners it has not looked at, and the one it is at
    timer,          \* the group's timeout: "off", "armed", "sent", "closed"
    gich,           \* is a value in gr.interruptedCh
    taken,          \* RunAsync: the results its caller has received
    async           \* RunAsync was called, not Run

callVars  == <<taken, async>>
groupVars == <<runners, group, ginterrupted, sweep, todo, at, timer, gich, callVars>>
allVars   == <<vars, groupVars>>

runnersCount == Cardinality(runners)

UnknownResult == [id |-> Unknown, err |-> "timeout"]

GroupInit ==
    /\ RunnerInit
    /\ runners = {} /\ group = "idle"
    /\ ginterrupted = FALSE /\ sweep = "none" /\ todo = {} /\ at = Unknown
    /\ timer = "off" /\ gich = FALSE /\ taken = 0 /\ async = FALSE

-----------------------------------------------------------------------------
(* Building and starting the group.  Adding to a started group, or adding  *)
(* an id twice, panics.                                                    *)

Add(r) ==
    /\ group = "idle" /\ r \notin runners
    /\ runners' = runners \cup {r}
    /\ UNCHANGED <<vars, group, ginterrupted, sweep, todo, at, timer, gich, callVars>>

StartGroup ==
    /\ group = "idle" /\ group' = "starting"
    /\ async' \in BOOLEAN
    /\ UNCHANGED <<vars, runners, ginterrupted, sweep, todo, at, timer, gich, taken>>

\* Mutant: the runners are started with Run, which nobody waits for.
StartMemberSync(r) ==
    /\ group = "starting" /\ r \in runners
    /\ Run(r)
    /\ UNCHANGED groupVars

StartMember(r) ==
    /\ group = "starting" /\ r \in runners
    /\ RunAsync(r)
    /\ UNCHANGED groupVars

AllStarted ==
    /\ group = "starting" /\ \A r \in runners : Started(r)
    /\ group' = "first"
    /\ UNCHANGED <<vars, runners, ginterrupted, sweep, todo, at, timer, gich, callVars>>

-----------------------------------------------------------------------------
(* The first result, a timeout after somebody else's Interrupt, or the     *)
(* context: whichever is chosen, the group is interrupted.                 *)

FirstResult ==
    /\ group = "first" /\ ch # <<>>
    /\ results' = Append(results, Head(ch)) /\ ch' = Tail(ch)
    /\ group' = "interrupt"
    /\ UNCHANGED <<runnerVars, ctxDone, runners, ginterrupted, sweep, todo, at,
                   timer, gich, callVars>>

FirstTimeout ==
    /\ group = "first" /\ gich
    /\ results' = Append(results, UnknownResult) /\ gich' = FALSE
    /\ group' = "interrupt"
    /\ UNCHANGED <<runnerVars, ctxDone, ch, runners, ginterrupted, sweep, todo,
                   at, timer, callVars>>

FirstContext ==
    /\ group = "first" /\ ctxDone /\ ~async
    /\ group' = "interrupt"
    /\ UNCHANGED <<vars, runners, ginterrupted, sweep, todo, at, timer, gich, callVars>>

-----------------------------------------------------------------------------
(* Interrupt: only the first call sweeps over the runners.                 *)

BeginSweep ==
    /\ ginterrupted' = TRUE
    /\ sweep' = "look" /\ todo' = runners
    /\ UNCHANGED <<runners, at, timer, gich, callVars>>

InterruptSelf ==
    /\ group = "interrupt"
    /\ \/ ~ginterrupted /\ BeginSweep /\ group' = "sweeping"
       \/ /\ ginterrupted /\ group' = "rest"
          /\ UNCHANGED <<runners, ginterrupted, sweep, todo, at, timer, gich, callVars>>
    /\ UNCHANGED vars

\* Nobody interrupts a group that is still being put together.
InterruptByOthers ==
    /\ "group" \in Others /\ group # "idle" /\ ~ginterrupted
    /\ BeginSweep
    /\ UNCHANGED <<vars, group>>

\* Mutant: the loop ends at the first runner that has finished.
LookStops(r) ==
    /\ sweep = "look" /\ r \in todo
    /\ \/ Finished(r) /\ todo' = {} /\ UNCHANGED <<sweep, at>>
       \/ ~Finished(r) /\ todo' = todo \ {r} /\ at' = r /\ sweep' = "call"
    /\ UNCHANGED <<vars, runners, group, ginterrupted, timer, gich, callVars>>

\* Mutant: the loop interrupts finished runners too.
LookUnchecked(r) ==
    /\ sweep = "look" /\ r \in todo
    /\ todo' = todo \ {r} /\ at' = r /\ sweep' = "call"
    /\ UNCHANGED <<vars, runners, group, ginterrupted, timer, gich, callVars>>

\* Finished runners are left alone.  The task may still end between this
\* look and the interrupt.
Look(r) ==
    /\ sweep = "look" /\ r \in todo
    /\ todo' = todo \ {r}
    /\ \/ Finished(r) /\ UNCHANGED <<sweep, at>>
       \/ ~Finished(r) /\ at' = r /\ sweep' = "call"
    /\ UNCHANGED <<vars, runners, group, ginterrupted, timer, gich, callVars>>

InterruptMember(r) ==
    /\ sweep = "call" /\ at = r
    /\ \/ ~interrupted[r] /\ DoInterrupt(r) /\ sweep' = "stopping" /\ at' = at
       \/ interrupted[r] /\ sweep' = "look" /\ at' = Unknown /\ UNCHANGED runnerVars
    /\ UNCHANGED <<caller, ctxDone, chVars, runners, group, ginterrupted, todo,
                   timer, gich, callVars>>

\* The stopper of the runner at hand returns and the loop goes on.
MemberStopped(r) ==
    /\ CallStopper(r)
    /\ IF sweep = "stopping" /\ at = r
       THEN sweep' = "look" /\ at' = Unknown
       ELSE UNCHANGED <<sweep, at>>
    /\ UNCHANGED <<runners, group, ginterrupted, todo, timer, gich, callVars>>

\* The loop is over: the group's timeout starts, and Run goes on if the call
\* was its own.
EndSweep ==
    /\ sweep = "look" /\ todo = {}
    /\ sweep' = "over" /\ timer' = "armed"
    /\ group' = IF group = "sweeping" THEN "rest" ELSE group
    /\ UNCHANGED <<vars, runners, ginterrupted, todo, at, gich, callVars>>

GroupTimesOut ==
    /\ timer = "armed" /\ timer' = "sent" /\ gich' = TRUE
    /\ UNCHANGED <<vars, runners, group, ginterrupted, sweep, todo, at, callVars>>

CloseInterrupted ==
    /\ timer = "sent" /\ timer' = "closed"
    /\ UNCHANGED <<vars, runners, group, ginterrupted, sweep, todo, at, gich, callVars>>

-----------------------------------------------------------------------------
(* The remaining results.  RunAsync hands each one to its caller before it *)
(* waits for the next.                                                     *)

Collecting == group = "rest" /\ (async => taken = Len(results))

RestResult ==
    /\ Collecting /\ Len(results) < runnersCount /\ ch # <<>>
    /\ results' = Append(results, Head(ch)) /\ ch' = Tail(ch)
    /\ UNCHANGED <<runnerVars, ctxDone, groupVars>>

\* A closed channel can be received from again and again.
RestTimeout ==
    /\ Collecting /\ Len(results) < runnersCount
    /\ gich \/ timer = "closed"
    /\ results' = Append(results, UnknownResult) /\ gich' = FALSE
    /\ UNCHANGED <<runnerVars, ctxDone, ch, runners, group, ginterrupted, sweep,
                   todo, at, timer, callVars>>

HandOver ==
    /\ async /\ group = "rest" /\ taken < Len(results)
    /\ taken' = taken + 1
    /\ UNCHANGED <<vars, runners, group, ginterrupted, sweep, todo, at, timer, gich,
                   async>>

Return ==
    /\ Collecting /\ Len(results) >= runnersCount
    /\ group' = "returned"
    /\ UNCHANGED <<vars, runners, ginterrupted, sweep, todo, at, timer, gich, callVars>>

-----------------------------------------------------------------------------
Collect == FirstResult \/ FirstTimeout \/ FirstContext \/ InterruptSelf
           \/ RestResult \/ RestTimeout \/ HandOver \/ Return

Sweep == EndSweep \/ \E r \in Runners : Look(r) \/ InterruptMember(r)

Timeout == GroupTimesOut \/ CloseInterrupted

\* Mutant: the channel has a single slot.
MemberSendsOneSlot(r) == Send(r, 1) /\ UNCHANGED groupVars

\* The channel has room for the results of all runners.
MemberSends(r) == Send(r, runnersCount) /\ UNCHANGED groupVars

MemberGoroutines(r) ==
    /\ FnReturns(r) \/ FnReports(r) \/ TaskResult(r) \/ TimeoutResult(r)
       \/ WatchFinished(r) \/ WatchTimesOut(r) \/ (r \in Others /\ Interrupt(r))
    /\ UNCHANGED groupVars

\* Run looks at its context in the first select only, RunAsync has none.
GroupContextDone ==
    /\ group = "first" /\ ~async
    /\ ContextDone /\ UNCHANGED groupVars

GroupNext ==
    \/ StartGroup \/ AllStarted \/ Collect \/ InterruptByOthers \/ Sweep \/ Timeout
    \/ GroupContextDone
    \/ \E r \in Runners :
          Add(r) \/ StartMember(r) \/ MemberGoroutines(r) \/ MemberSends(r)
          \/ MemberStopped(r)

\* As in Runner: every goroutine but the tasks and what the environment does.
GroupFairness ==
    /\ WF_allVars((\E r \in Runners : StartMember(r)) \/ AllStarted \/ Collect)
    /\ WF_allVars(Sweep) /\ WF_allVars(Timeout)
    /\ \A r \in Runners :
          /\ WF_allVars(MemberStopped(r))
          /\ WF_allVars(FnReports(r) /\ UNCHANGED groupVars)
          /\ WF_allVars(((TaskResult(r) \/ TimeoutResult(r)) /\ UNCHANGED groupVars)
                        \/ MemberSends(r))
          /\ WF_allVars((WatchFinished(r) \/ WatchTimesOut(r)) /\ UNCHANGED groupVars)

GroupSpec == GroupInit /\ [][GroupNext]_allVars
FairGroupSpec == GroupSpec /\ GroupFairness

-----------------------------------------------------------------------------
(* Properties. *)

\* Every variable of the runners and the group has its type; the sweep
\* only ever looks at members, and nobody waits in Run for one of them.
GroupTypeOK ==
    /\ fn \in [Runners -> {"new", "running", "finished", "reported"}]
    /\ doTask \in [Runners -> {"new", "select", "task", "timeout", "done"}]
    /\ interrupted \in [Runners -> BOOLEAN]
    /\ stopper \in [Runners -> {"none", "due", "called"}]
    /\ watch \in [Runners -> {"none", "waiting", "gone"}]
    /\ interruptedCh \in [Runners -> BOOLEAN]
    /\ caller \in [Runners -> {"none", "select", "stopping", "waiting", "returned"}]
    /\ group # "idle" => caller = [r \in Runners |-> "none"]
    /\ ctxDone \in BOOLEAN
    /\ ch \in Seq(Result) /\ results \in Seq(Result)
    /\ runners \subseteq Runners
    /\ group \in {"idle", "starting", "first", "interrupt", "sweeping", "rest",
                  "returned"}
    /\ ginterrupted \in BOOLEAN
    /\ sweep \in {"none", "look", "call", "stopping", "over"}
    /\ todo \subseteq runners
    /\ at \in runners \cup {Unknown}
    /\ timer \in {"off", "armed", "sent", "closed"}
    /\ gich \in BOOLEAN
    /\ taken \in Nat /\ async \in BOOLEAN

\* When the group returns it has one result per runner, no runner is named
\* twice, and no runner is left running that was not interrupted: a runner
\* without a result of its own ("_unknown_") has ended or was told to stop
\* (grouprunner.go, Run and Interrupt).
NobodyAbandoned ==
    group = "returned" /\ runners # {} =>
        /\ Len(results) = runnersCount
        /\ \A r \in runners : Finished(r) \/ interrupted[r]

\* The group does not interrupt a runner whose result made it interrupt the
\* others (grouprunner.go, Run: "it is NOT expected for the finished task's
\* stopper to be called in this case"), whoever else interrupts the runners.
EndedNotStopped ==
    group = "sweeping" /\ sweep = "call" =>
        \A i \in 1 .. Len(results) : results[i] # [id |-> at, err |-> "task"]

Provoked == (ctxDone /\ ~async) \/ ginterrupted \/ \E r \in runners : Finished(r)

\* Once the context is done, a runner has ended or the group is interrupted,
\* Run returns and RunAsync hands over all results, although no task may ever
\* stop; and no runner's goroutine is left waiting on a channel.
GroupReturns ==
    /\ (group = "first" /\ Provoked) ~> group = "returned"
    /\ \A r \in Runners :
          (Started(r) /\ (interrupted[r] \/ Finished(r))) ~> doTask[r] = "done"

-----------------------------------------------------------------------------
(* The inductive invariant behind NobodyAbandoned, OneResultEach and       *)
(* EndedNotStopped.                                                        *)

HonestResult(x) ==
    x.id \in Runners =>
        /\ doTask[x.id] = "done"
        /\ x.err = "task" => fn[x.id] = "reported"
        /\ x.err = "timeout" => interrupted[x.id]

\* What doTask is about to send, or has sent, is so.
Honest ==
    /\ \A r \in Runners :
          /\ doTask[r] = "task" => fn[r] = "reported"
          /\ doTask[r] = "timeout" => interrupted[r]
          /\ interruptedCh[r] => interrupted[r]
          /\ watch[r] # "none" => interrupted[r]
          /\ IF Started(r) THEN r \in runners ELSE fn[r] = "new"
    /\ \A i \in 1 .. Len(ch) : HonestResult(ch[i])
    /\ \A i \in 1 .. Len(results) : HonestResult(results[i])

\* Every result is in one place.
Distinct ==
    /\ \A i \in 1 .. Len(ch) : ch[i].id # Unknown
    /\ \A i, j \in 1 .. Len(ch) : i # j => ch[i].id # ch[j].id
    /\ \A i \in 1 .. Len(ch), j \in 1 .. Len(results) : ch[i].id # results[j].id
    /\ \A i, j \in 1 .. Len(results) :
          i # j /\ results[i].id = results[j].id => results[i].id = Unknown

\* The loop of Interrupt leaves nobody behind, and the group's timeout starts
\* when it is over.
Swept ==
    /\ sweep = "none" <=> ~ginterrupted
    /\ group = "idle" => ~ginterrupted
    /\ ginterrupted => \A r \in runners :
          r \in todo \/ (sweep = "call" /\ r = at) \/ Finished(r) \/ interrupted[r]
    /\ sweep = "over" => todo = {}
    /\ timer # "off" => sweep = "over"
    /\ gich => timer # "off"

\* The group gives up on a result only when the loop is over.
Patient == \A i \in 1 .. Len(results) : results[i].id = Unknown => sweep = "over"

\* The group reads as many results as it has runners.
Counted ==
    /\ group \in {"idle", "starting", "first"} => results = <<>>
    /\ runners # {} => Len(results) <= runnersCount
    /\ group = "returned" => Len(results) >= runnersCount

\* Run is not called for a runner of a group.
GroupTyped == GroupTypeOK /\ caller = [r \in Runners |-> "none"]

GroupInv == GroupTyped /\ Honest /\ Distinct /\ Swept /\ Patient /\ Counted
            /\ EndedNotStopped
================================================================================
