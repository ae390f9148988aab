--------------------------- MODULE GroupRunnerProofs ---------------------------
(***************************************************************************)
(* Proofs about GroupRunner, for every finite set of runners, for Run and  *)
(* for RunAsync, and whatever others interrupt.                            *)
(***************************************************************************)
EXTENDS GroupRunner, FiniteSetTheorems, TLAPS

USE DEF vars, runnerVars, chVars, allVars, groupVars, callVars

-----------------------------------------------------------------------------
(* Types. *)

\* NewGroup and New: everything starts with the right type.
LEMMA GroupTypeInit == GroupInit => GroupTyped
<1> SUFFICES ASSUME GroupInit PROVE GroupTyped
  OBVIOUS
<1>1. /\ fn \in [Runners -> {"new", "running", "finished", "reported"}]
      /\ doTask \in [Runners -> {"new", "select", "task", "timeout", "done"}]
      /\ stopper \in [Runners -> {"none", "due", "called"}]
      /\ watch \in [Runners -> {"none", "waiting", "gone"}]
      /\ ch \in Seq(Result) /\ results \in Seq(Result)
  BY DEF GroupInit, RunnerInit
<1>2. interrupted \in [Runners -> BOOLEAN] /\ interruptedCh \in [Runners -> BOOLEAN]
  BY Zenon DEF GroupInit, RunnerInit
<1>3. ctxDone \in BOOLEAN /\ ginterrupted \in BOOLEAN /\ gich \in BOOLEAN
  BY Zenon DEF GroupInit, RunnerInit
<1> QED
  BY <1>1, <1>2, <1>3 DEF GroupInit, RunnerInit, GroupTyped, GroupTypeOK

\* The result of a group's timeout is a result.
LEMMA UnknownType == UnknownResult \in Result
BY DEF UnknownResult, Result

\* Every step of a group and of its runners keeps the types.
LEMMA GroupTypeStep == GroupTyped /\ [GroupNext]_allVars => GroupTyped'
<1> SUFFICES ASSUME GroupTyped, [GroupNext]_allVars
             PROVE  GroupTyped'
  OBVIOUS
<1>1. ASSUME StartGroup PROVE GroupTyped'
  BY <1>1 DEF GroupTyped, GroupTypeOK, StartGroup
<1>2. ASSUME AllStarted PROVE GroupTyped'
  BY <1>2 DEF GroupTyped, GroupTypeOK, AllStarted
<1>3. ASSUME FirstResult PROVE GroupTyped'
  BY <1>3 DEF GroupTyped, GroupTypeOK, FirstResult
<1>4. ASSUME FirstTimeout PROVE GroupTyped'
  <2>1. gich' \in BOOLEAN
    BY <1>4, Zenon DEF FirstTimeout
  <2>2. results' \in Seq(Result)
    BY <1>4, UnknownType DEF GroupTyped, GroupTypeOK, FirstTimeout
  <2> QED
    BY <1>4, <2>1, <2>2 DEF GroupTyped, GroupTypeOK, FirstTimeout
<1>5. ASSUME FirstContext PROVE GroupTyped'
  BY <1>5 DEF GroupTyped, GroupTypeOK, FirstContext
<1>6. ASSUME InterruptSelf PROVE GroupTyped'
  BY <1>6 DEF GroupTyped, GroupTypeOK, InterruptSelf, BeginSweep
<1>7. ASSUME RestResult PROVE GroupTyped'
  BY <1>7 DEF GroupTyped, GroupTypeOK, RestResult
<1>8. ASSUME RestTimeout PROVE GroupTyped'
  <2>1. gich' \in BOOLEAN
    BY <1>8, Zenon DEF RestTimeout
  <2>2. results' \in Seq(Result)
    BY <1>8, UnknownType DEF GroupTyped, GroupTypeOK, RestTimeout
  <2> QED
    BY <1>8, <2>1, <2>2 DEF GroupTyped, GroupTypeOK, RestTimeout
<1>9. ASSUME HandOver PROVE GroupTyped'
  BY <1>9 DEF GroupTyped, GroupTypeOK, HandOver
<1>10. ASSUME Return PROVE GroupTyped'
  BY <1>10 DEF GroupTyped, GroupTypeOK, Return
<1>11. ASSUME InterruptByOthers PROVE GroupTyped'
  BY <1>11 DEF GroupTyped, GroupTypeOK, InterruptByOthers, BeginSweep
<1>12. ASSUME EndSweep PROVE GroupTyped'
  BY <1>12 DEF GroupTyped, GroupTypeOK, EndSweep
<1>13. ASSUME NEW r \in Runners, Look(r) PROVE GroupTyped'
  BY <1>13 DEF GroupTyped, GroupTypeOK, Look
<1>14. ASSUME NEW r \in Runners, InterruptMember(r) PROVE GroupTyped'
  <2>1. CASE ~interrupted[r]
    <3>1. /\ interrupted' \in [Runners -> BOOLEAN]
          /\ watch' \in [Runners -> {"none", "waiting", "gone"}]
          /\ stopper' \in [Runners -> {"none", "due", "called"}]
      <4>1. /\ interrupted' = [interrupted EXCEPT ![r] = TRUE]
            /\ watch' = [watch EXCEPT ![r] = "waiting"]
            /\ stopper' = [stopper EXCEPT ![r] = "due"]
        BY <1>14, <2>1 DEF InterruptMember, DoInterrupt
      <4>2. /\ interrupted \in [Runners -> BOOLEAN]
            /\ watch \in [Runners -> {"none", "waiting", "gone"}]
            /\ stopper \in [Runners -> {"none", "due", "called"}]
        BY DEF GroupTyped, GroupTypeOK
      <4> QED
        BY <4>1, <4>2
    <3>2. UNCHANGED <<fn, doTask, interruptedCh, caller, ctxDone, chVars, runners, group,
                      ginterrupted, todo, timer, gich, callVars>>
      BY <1>14, <2>1 DEF InterruptMember, DoInterrupt
    <3>3. sweep' = "stopping" /\ at' = at
      BY <1>14, <2>1 DEF InterruptMember
    <3> QED
      BY <3>1, <3>2, <3>3 DEF GroupTyped, GroupTypeOK, chVars, callVars
  <2>2. CASE interrupted[r]
    BY <1>14, <2>2 DEF GroupTyped, GroupTypeOK, InterruptMember, runnerVars
  <2> QED
    BY <2>1, <2>2
<1>15. ASSUME GroupTimesOut PROVE GroupTyped'
  BY <1>15 DEF GroupTyped, GroupTypeOK, GroupTimesOut
<1>16. ASSUME CloseInterrupted PROVE GroupTyped'
  BY <1>16 DEF GroupTyped, GroupTypeOK, CloseInterrupted
<1>17. ASSUME ContextDone, UNCHANGED groupVars PROVE GroupTyped'
  BY <1>17 DEF GroupTyped, GroupTypeOK, ContextDone
<1>18. ASSUME NEW r \in Runners, Add(r) PROVE GroupTyped'
  BY <1>18 DEF GroupTyped, GroupTypeOK, Add
<1>19. ASSUME NEW r \in Runners, StartMember(r) PROVE GroupTyped'
  BY <1>19 DEF GroupTyped, GroupTypeOK, StartMember, RunAsync, Start
<1>20. ASSUME NEW r \in Runners, FnReturns(r), UNCHANGED groupVars PROVE GroupTyped'
  BY <1>20 DEF GroupTyped, GroupTypeOK, FnReturns
<1>21. ASSUME NEW r \in Runners, FnReports(r), UNCHANGED groupVars PROVE GroupTyped'
  BY <1>21 DEF GroupTyped, GroupTypeOK, FnReports
<1>22. ASSUME NEW r \in Runners, TaskResult(r), UNCHANGED groupVars PROVE GroupTyped'
  BY <1>22 DEF GroupTyped, GroupTypeOK, TaskResult
<1>23. ASSUME NEW r \in Runners, TimeoutResult(r), UNCHANGED groupVars PROVE GroupTyped'
  BY <1>23 DEF GroupTyped, GroupTypeOK, TimeoutResult
<1>24. ASSUME NEW r \in Runners, WatchFinished(r), UNCHANGED groupVars PROVE GroupTyped'
  BY <1>24 DEF GroupTyped, GroupTypeOK, WatchFinished
<1>25. ASSUME NEW r \in Runners, WatchTimesOut(r), UNCHANGED groupVars PROVE GroupTyped'
  BY <1>25 DEF GroupTyped, GroupTypeOK, WatchTimesOut
<1>26. ASSUME NEW r \in Runners, Interrupt(r), UNCHANGED groupVars PROVE GroupTyped'
  BY <1>26 DEF GroupTyped, GroupTypeOK, Interrupt, DoInterrupt
<1>27. ASSUME NEW r \in Runners, MemberSends(r) PROVE GroupTyped'
  BY <1>27 DEF GroupTyped, GroupTypeOK, MemberSends, Send, HasResult, ResultOf, Result
<1>28. ASSUME NEW r \in Runners, MemberStopped(r) PROVE GroupTyped'
  BY <1>28 DEF GroupTyped, GroupTypeOK, MemberStopped, CallStopper
<1>29. ASSUME UNCHANGED allVars PROVE GroupTyped'
  BY <1>29 DEF GroupTyped, GroupTypeOK
<1> QED
  BY <1>1, <1>2, <1>3, <1>4, <1>5, <1>6, <1>7, <1>8, <1>9, <1>10, <1>11, <1>12, <1>13, <1>14, <1>15, <1>16, <1>17, <1>18, <1>19, <1>20, <1>21, <1>22, <1>23, <1>24, <1>25, <1>26, <1>27, <1>28, <1>29
     DEF GroupNext, GroupContextDone, Collect, Sweep, Timeout, MemberGoroutines

-----------------------------------------------------------------------------
(* What the steps leave alone. *)

\* Only runners that start, report, or are interrupted change a runner.
LEMMA RunnerSteps ==
    ASSUME [GroupNext]_allVars
    PROVE  \/ UNCHANGED <<fn, doTask, interrupted, watch, interruptedCh>>
           \/ \E r \in Runners :
                 StartMember(r) \/ InterruptMember(r) \/ MemberSends(r)
                 \/ FnReturns(r) \/ FnReports(r) \/ TaskResult(r) \/ TimeoutResult(r)
                 \/ WatchFinished(r) \/ WatchTimesOut(r) \/ Interrupt(r)
<1>1. CASE UNCHANGED allVars
  BY <1>1
<1>2. CASE StartGroup \/ AllStarted \/ InterruptByOthers \/ Timeout
  BY <1>2 DEF StartGroup, AllStarted, InterruptByOthers, Timeout, GroupTimesOut,
     CloseInterrupted
<1>3. CASE Collect
  BY <1>3 DEF Collect, FirstResult, FirstTimeout, FirstContext, InterruptSelf, RestResult,
     RestTimeout, HandOver, Return
<1>4. CASE Sweep
  BY <1>4 DEF Sweep, EndSweep, Look
<1>5. CASE ContextDone /\ UNCHANGED groupVars
  BY <1>5 DEF ContextDone
<1>6. ASSUME NEW r \in Runners, Add(r) \/ MemberStopped(r)
      PROVE  UNCHANGED <<fn, doTask, interrupted, watch, interruptedCh>>
  BY <1>6 DEF Add, MemberStopped, CallStopper
<1> QED
  BY <1>1, <1>2, <1>3, <1>4, <1>5, <1>6 DEF GroupNext, GroupContextDone, MemberGoroutines

\* Only the runners send, and only the group receives.
LEMMA ChannelSteps ==
    ASSUME [GroupNext]_allVars
    PROVE  \/ UNCHANGED <<ch, results>>
           \/ FirstResult \/ FirstTimeout \/ RestResult \/ RestTimeout
           \/ \E r \in Runners : MemberSends(r)
<1>1. CASE UNCHANGED allVars
  BY <1>1
<1>2. CASE StartGroup \/ AllStarted \/ InterruptByOthers \/ Timeout
  BY <1>2 DEF StartGroup, AllStarted, InterruptByOthers, Timeout, GroupTimesOut,
     CloseInterrupted
<1>3. CASE Collect
  BY <1>3 DEF Collect, FirstContext, InterruptSelf, HandOver, Return
<1>4. CASE Sweep
  BY <1>4 DEF Sweep, EndSweep, Look, InterruptMember
<1>5. CASE ContextDone /\ UNCHANGED groupVars
  BY <1>5 DEF ContextDone
<1>6. ASSUME NEW r \in Runners, Add(r) \/ MemberStopped(r) \/ StartMember(r) \/ MemberGoroutines(r)
      PROVE  UNCHANGED <<ch, results>>
  BY <1>6 DEF Add, MemberStopped, CallStopper, StartMember, RunAsync, Start,
     MemberGoroutines, FnReturns, FnReports, TaskResult, TimeoutResult, WatchFinished,
     WatchTimesOut, Interrupt
<1> QED
  BY <1>1, <1>2, <1>3, <1>4, <1>5, <1>6 DEF GroupNext, GroupContextDone

\* The set of runners is fixed once the group has started.
LEMMA MemberSteps ==
    ASSUME GroupTyped, [GroupNext]_allVars
    PROVE  /\ runners \subseteq runners'
           /\ runners' # runners => group = "idle" /\ group' = "idle"
<1>1. CASE UNCHANGED allVars
  BY <1>1
<1>2. CASE StartGroup \/ AllStarted \/ InterruptByOthers \/ Timeout
  BY <1>2 DEF StartGroup, AllStarted, InterruptByOthers, BeginSweep, Timeout, GroupTimesOut,
     CloseInterrupted
<1>3. CASE Collect
  BY <1>3 DEF Collect, FirstResult, FirstTimeout, FirstContext, InterruptSelf, BeginSweep,
     RestResult, RestTimeout, HandOver, Return
<1>4. CASE Sweep
  BY <1>4 DEF Sweep, EndSweep, Look, InterruptMember
<1>5. CASE ContextDone /\ UNCHANGED groupVars
  BY <1>5
<1>6. ASSUME NEW r \in Runners, StartMember(r) \/ MemberGoroutines(r) \/ MemberSends(r)
                                \/ MemberStopped(r)
      PROVE  UNCHANGED runners
  BY <1>6 DEF StartMember, MemberGoroutines, MemberSends, MemberStopped
<1>7. ASSUME NEW r \in Runners, Add(r)
      PROVE  runners \subseteq runners' /\ group = "idle" /\ group' = "idle"
  BY <1>7 DEF Add
<1> QED
  BY <1>1, <1>2, <1>3, <1>4, <1>5, <1>6, <1>7 DEF GroupNext, GroupContextDone

\* A task that has ended stays ended, an interrupt is never taken back, and
\* doTask sends once.
LEMMA Lasting ==
    ASSUME GroupTyped, Honest, [GroupNext]_allVars, NEW r \in Runners
    PROVE  /\ fn[r] = "reported" => fn'[r] = "reported"
           /\ Finished(r) => Finished(r)'
           /\ interrupted[r] => interrupted'[r]
           /\ doTask[r] = "done" => doTask'[r] = "done"
           /\ Started(r) => Started(r)'
<1> USE DEF GroupTyped, GroupTypeOK, Finished, Started
<1>1. CASE UNCHANGED <<fn, doTask, interrupted, watch, interruptedCh>>
  BY <1>1
<1>2. ASSUME NEW q \in Runners, StartMember(q) PROVE r = q => ~Started(r) /\ fn[r] = "new"
  BY <1>2 DEF StartMember, RunAsync, Start, Honest
<1>3. ASSUME NEW q \in Runners, StartMember(q)
      PROVE  (r # q => fn'[r] = fn[r] /\ doTask'[r] = doTask[r]) /\ interrupted' = interrupted
  BY <1>3 DEF StartMember, RunAsync, Start
<1>4. ASSUME NEW q \in Runners, InterruptMember(q) \/ Interrupt(q)
      PROVE  fn' = fn /\ doTask' = doTask /\ (interrupted[r] => interrupted'[r])
  <2>1. interrupted \in [Runners -> BOOLEAN]
    OBVIOUS
  <2>2. \/ fn' = fn /\ doTask' = doTask /\ interrupted' = [interrupted EXCEPT ![q] = TRUE]
        \/ UNCHANGED runnerVars
    BY <1>4 DEF InterruptMember, Interrupt, DoInterrupt
  <2> HIDE DEF GroupTyped, GroupTypeOK
  <2> QED
    BY <2>1, <2>2 DEF runnerVars
<1>5. ASSUME NEW q \in Runners, FnReturns(q) \/ FnReports(q)
      PROVE  /\ doTask' = doTask /\ interrupted' = interrupted
             /\ fn[r] = "reported" => fn'[r] = "reported"
             /\ Finished(r) => Finished(r)'
  BY <1>5 DEF FnReturns, FnReports
<1>6. ASSUME NEW q \in Runners, TaskResult(q) \/ TimeoutResult(q) \/ MemberSends(q)
      PROVE  /\ fn' = fn /\ interrupted' = interrupted
             /\ doTask[r] = "done" => doTask'[r] = "done"
             /\ Started(r) => Started(r)'
  BY <1>6 DEF TaskResult, TimeoutResult, MemberSends, Send, HasResult
<1>7. ASSUME NEW q \in Runners, WatchFinished(q) \/ WatchTimesOut(q)
      PROVE  fn' = fn /\ doTask' = doTask /\ interrupted' = interrupted
  BY <1>7 DEF WatchFinished, WatchTimesOut
<1> QED
  BY <1>1, <1>2, <1>3, <1>4, <1>5, <1>6, <1>7, RunnerSteps

-----------------------------------------------------------------------------
(* Results are honest, and each is in one place. *)

\* A result that is honest stays so.
LEMMA HonestResultLasts ==
    ASSUME GroupTyped, Honest, [GroupNext]_allVars, NEW x \in Result, HonestResult(x)
    PROVE  HonestResult(x)'
BY Lasting DEF HonestResult

\* The channels hold results.
LEMMA ChannelTypes ==
    ASSUME GroupTyped
    PROVE  /\ \A i \in 1 .. Len(ch) : ch[i] \in Result
           /\ \A i \in 1 .. Len(results) : results[i] \in Result
BY DEF GroupTyped, GroupTypeOK

\* The group receives a result: the first of the channel becomes its last.
LEMMA Received ==
    ASSUME GroupTyped, FirstResult \/ RestResult
    PROVE  /\ Len(ch) > 0 /\ Len(ch') = Len(ch) - 1 /\ Len(results') = Len(results) + 1
           /\ \A i \in 1 .. Len(ch') : ch'[i] = ch[i + 1]
           /\ \A i \in 1 .. Len(results) : results'[i] = results[i]
           /\ results'[Len(results) + 1] = ch[1]
<1>1. ch # <<>> /\ ch' = Tail(ch) /\ results' = Append(results, Head(ch))
  BY DEF FirstResult, RestResult
<1>2. ch \in Seq(Result) /\ results \in Seq(Result)
  BY DEF GroupTyped, GroupTypeOK
<1> QED
  BY <1>1, <1>2

\* The group gives up on a result and notes a timeout instead.
LEMMA TimedOut ==
    ASSUME GroupTyped, FirstTimeout \/ RestTimeout
    PROVE  /\ ch' = ch /\ Len(results') = Len(results) + 1
           /\ \A i \in 1 .. Len(results) : results'[i] = results[i]
           /\ results'[Len(results) + 1] = UnknownResult
<1>1. ch' = ch /\ results' = Append(results, UnknownResult)
  BY DEF FirstTimeout, RestTimeout
<1>2. results \in Seq(Result)
  BY DEF GroupTyped, GroupTypeOK
<1> QED
  BY <1>1, <1>2, UnknownType

\* A runner sends its result, which becomes the last in the channel.
LEMMA Sent ==
    ASSUME GroupTyped, NEW r \in Runners, MemberSends(r)
    PROVE  /\ results' = results /\ Len(ch') = Len(ch) + 1
           /\ \A i \in 1 .. Len(ch) : ch'[i] = ch[i]
           /\ ch'[Len(ch) + 1] = ResultOf(r)
           /\ doTask'[r] = "done" /\ HasResult(r)
<1>1. HasResult(r) => ResultOf(r) \in Result
  BY DEF HasResult, ResultOf, Result
<1> QED
  BY <1>1 DEF GroupTyped, GroupTypeOK, MemberSends, Send

\* doTask and the goroutine of Interrupt: what a runner is about to report
\* is so.
LEMMA HonestRunner ==
    ASSUME GroupTyped, Honest, [GroupNext]_allVars, NEW r \in Runners
    PROVE  /\ doTask'[r] = "task" => fn'[r] = "reported"
           /\ doTask'[r] = "timeout" => interrupted'[r]
           /\ interruptedCh'[r] => interrupted'[r]
           /\ watch'[r] # "none" => interrupted'[r]
           /\ IF Started(r)' THEN r \in runners' ELSE fn'[r] = "new"
<1> USE DEF GroupTyped, GroupTypeOK, Honest, Started
<1>0. runners \subseteq runners'
  BY MemberSteps
<1>1. CASE UNCHANGED <<fn, doTask, interrupted, watch, interruptedCh>>
  BY <1>0, <1>1
<1>2. ASSUME NEW q \in Runners, StartMember(q)
      PROVE  /\ UNCHANGED <<interrupted, watch, interruptedCh, runners>> /\ q \in runners
             /\ doTask' = [doTask EXCEPT ![q] = "select"] /\ fn' = [fn EXCEPT ![q] = "running"]
             /\ ~Started(q)
  BY <1>2 DEF StartMember, RunAsync, Start
<1>3. ASSUME NEW q \in Runners, InterruptMember(q) \/ Interrupt(q)
      PROVE  /\ UNCHANGED <<fn, doTask, interruptedCh>>
             /\ interrupted[r] => interrupted'[r]
             /\ watch'[r] = watch[r] \/ (watch'[r] = "waiting" /\ interrupted'[r])
  BY <1>3 DEF InterruptMember, Interrupt, DoInterrupt
<1>4. ASSUME NEW q \in Runners, FnReturns(q) \/ FnReports(q)
      PROVE  /\ UNCHANGED <<doTask, interrupted, watch, interruptedCh>>
             /\ fn[r] = "reported" => fn'[r] = "reported"
             /\ fn[r] = "new" => fn'[r] = "new"
  BY <1>4 DEF FnReturns, FnReports
<1>5. ASSUME NEW q \in Runners, TaskResult(q)
      PROVE  /\ UNCHANGED <<fn, interrupted, watch, interruptedCh>>
             /\ doTask' = [doTask EXCEPT ![q] = "task"]
             /\ doTask[q] = "select" /\ fn[q] = "reported"
  BY <1>5 DEF TaskResult
<1>6. ASSUME NEW q \in Runners, TimeoutResult(q)
      PROVE  /\ UNCHANGED <<fn, interrupted, watch>>
             /\ doTask' = [doTask EXCEPT ![q] = "timeout"]
             /\ interruptedCh' = [interruptedCh EXCEPT ![q] = FALSE]
             /\ doTask[q] = "select" /\ interrupted[q]
  BY <1>6 DEF TimeoutResult
<1>7. ASSUME NEW q \in Runners, MemberSends(q)
      PROVE  /\ UNCHANGED <<fn, interrupted, watch, interruptedCh>>
             /\ doTask' = [doTask EXCEPT ![q] = "done"] /\ Started(q)
  BY <1>7 DEF MemberSends, Send, HasResult
<1>8. ASSUME NEW q \in Runners, WatchFinished(q) \/ WatchTimesOut(q)
      PROVE  /\ UNCHANGED <<fn, doTask, interrupted>>
             /\ watch[q] = "waiting" /\ watch' = [watch EXCEPT ![q] = "gone"]
             /\ interruptedCh' \in {interruptedCh, [interruptedCh EXCEPT ![q] = TRUE]}
  BY <1>8 DEF WatchFinished, WatchTimesOut
<1>9. CASE \E q \in Runners : StartMember(q)
  BY <1>0, <1>2, <1>9
<1>10. CASE \E q \in Runners : InterruptMember(q) \/ Interrupt(q)
  BY <1>0, <1>3, <1>10
<1>11. CASE \E q \in Runners : FnReturns(q) \/ FnReports(q)
  BY <1>0, <1>4, <1>11
<1>12. CASE \E q \in Runners : TaskResult(q)
  BY <1>0, <1>5, <1>12
<1>13. CASE \E q \in Runners : TimeoutResult(q)
  BY <1>0, <1>6, <1>13
<1>14. CASE \E q \in Runners : MemberSends(q)
  BY <1>0, <1>7, <1>14
<1>15. CASE \E q \in Runners : WatchFinished(q) \/ WatchTimesOut(q)
  BY <1>0, <1>8, <1>15
<1> QED
  BY <1>1, <1>9, <1>10, <1>11, <1>12, <1>13, <1>14, <1>15, RunnerSteps

\* Whatever is received from a runner was true when it was sent, and still is.
LEMMA HonestStep ==
    ASSUME GroupTyped, Honest, [GroupNext]_allVars
    PROVE  Honest'
<1> DEFINE StillHonest(x) ==
             x.id \in Runners =>
                 /\ doTask'[x.id] = "done"
                 /\ x.err = "task" => fn'[x.id] = "reported"
                 /\ x.err = "timeout" => interrupted'[x.id]
<1>1. \A x \in Result : HonestResult(x) => StillHonest(x)
  BY HonestResultLasts DEF HonestResult
<1>2. /\ \A i \in 1 .. Len(ch) : StillHonest(ch[i])
      /\ \A i \in 1 .. Len(results) : StillHonest(results[i])
  BY <1>1, ChannelTypes DEF Honest
<1>3. Len(ch) \in Nat /\ Len(results) \in Nat
  BY DEF GroupTyped, GroupTypeOK
<1> HIDE DEF StillHonest
<1>4. /\ \A i \in 1 .. Len(ch') : StillHonest(ch'[i])
      /\ \A i \in 1 .. Len(results') : StillHonest(results'[i])
  <2>1. CASE UNCHANGED <<ch, results>>
    BY <1>2, <2>1
  <2>2. CASE FirstResult \/ RestResult
    <3>1. \A i \in 1 .. Len(ch') : i + 1 \in 1 .. Len(ch)
      BY <1>3, <2>2, Received
    <3>2. \A i \in 1 .. Len(results') : i \in 1 .. Len(results) \/ i = Len(results) + 1
      BY <1>3, <2>2, Received
    <3>3. \A i \in 1 .. Len(ch') : ch'[i] = ch[i + 1]
      BY <2>2, Received
    <3>4. \A i \in 1 .. Len(results') :
             \/ i \in 1 .. Len(results) /\ results'[i] = results[i]
             \/ results'[i] = ch[1] /\ 1 \in 1 .. Len(ch)
      BY <1>3, <2>2, <3>2, Received
    <3>5. \A i \in 1 .. Len(ch') : StillHonest(ch'[i])
      BY <1>2, <3>1, <3>3
    <3> QED
      BY <1>2, <3>4, <3>5
  <2>3. CASE FirstTimeout \/ RestTimeout
    <3>1. StillHonest(UnknownResult)
      BY RunnerAssumption DEF StillHonest, UnknownResult
    <3>2. \A i \in 1 .. Len(results') : i \in 1 .. Len(results) \/ i = Len(results) + 1
      BY <1>3, <2>3, TimedOut
    <3> QED
      BY <1>2, <2>3, <3>1, <3>2, TimedOut
  <2>4. ASSUME NEW r \in Runners, MemberSends(r)
        PROVE  <1>4!:
    <3>1. StillHonest(ResultOf(r))
      BY <2>4, Sent, Lasting DEF StillHonest, ResultOf, HasResult, Honest
    <3>2. \A i \in 1 .. Len(ch') : i \in 1 .. Len(ch) \/ i = Len(ch) + 1
      BY <1>3, <2>4, Sent
    <3> QED
      BY <1>2, <2>4, <3>1, <3>2, Sent
  <2> QED
    BY <2>1, <2>2, <2>3, <2>4, ChannelSteps
<1> QED
  BY <1>4, HonestRunner DEF Honest, HonestResult, StillHonest

\* A runner sends once, and a result moves from the channel to the group.
LEMMA DistinctStep ==
    ASSUME GroupTyped, Honest, Distinct, [GroupNext]_allVars
    PROVE  Distinct'
<1>1. Len(ch) \in Nat /\ Len(results) \in Nat
  BY DEF GroupTyped, GroupTypeOK
<1>2. CASE UNCHANGED <<ch, results>>
  BY <1>2 DEF Distinct
<1>3. CASE FirstResult \/ RestResult
  <2>1. \A i \in 1 .. Len(ch') : i + 1 \in 1 .. Len(ch) /\ ch'[i] = ch[i + 1] /\ i + 1 # 1
    BY <1>1, <1>3, Received
  <2>2. \A i \in 1 .. Len(results') :
           \/ i \in 1 .. Len(results) /\ results'[i] = results[i]
           \/ i = Len(results) + 1 /\ results'[i] = ch[1]
    BY <1>1, <1>3, Received
  <2>3. 1 \in 1 .. Len(ch)
    BY <1>1, <1>3, Received
  <2>4. \A i, j \in 1 .. Len(ch') : i # j => ch'[i].id # ch'[j].id
    <3> SUFFICES ASSUME NEW i \in 1 .. Len(ch'), NEW j \in 1 .. Len(ch'), i # j
                 PROVE  ch'[i].id # ch'[j].id
      OBVIOUS
    <3>1. i + 1 # j + 1
      BY <1>1, <1>3, Received
    <3> QED
      BY <2>1, <3>1 DEF Distinct
  <2>5. \A i \in 1 .. Len(ch') : ch'[i].id # Unknown
    BY <2>1 DEF Distinct
  <2>6. \A i \in 1 .. Len(ch'), j \in 1 .. Len(results') : ch'[i].id # results'[j].id
    <3> SUFFICES ASSUME NEW i \in 1 .. Len(ch'), NEW j \in 1 .. Len(results')
                 PROVE  ch'[i].id # results'[j].id
      OBVIOUS
    <3>1. i + 1 \in 1 .. Len(ch) /\ ch'[i] = ch[i + 1] /\ i + 1 # 1
      BY <2>1
    <3>2. CASE j \in 1 .. Len(results) /\ results'[j] = results[j]
      BY <3>1, <3>2 DEF Distinct
    <3>3. CASE results'[j] = ch[1]
      BY <2>3, <3>1, <3>3 DEF Distinct
    <3> QED
      BY <2>2, <3>2, <3>3
  <2>7. \A i, j \in 1 .. Len(results') :
           i # j /\ results'[i].id = results'[j].id => results'[i].id = Unknown
    BY <2>2, <2>3 DEF Distinct
  <2> QED
    BY <2>4, <2>5, <2>6, <2>7 DEF Distinct
<1>4. CASE FirstTimeout \/ RestTimeout
  <2>1. \A i \in 1 .. Len(results') :
           \/ i \in 1 .. Len(results) /\ results'[i] = results[i]
           \/ i = Len(results) + 1 /\ results'[i].id = Unknown
    BY <1>1, <1>4, TimedOut DEF UnknownResult
  <2> QED
    BY <1>4, <2>1, TimedOut DEF Distinct
<1>5. ASSUME NEW r \in Runners, MemberSends(r) PROVE Distinct'
  <2>1. /\ \A i \in 1 .. Len(ch) : ch[i].id # r
        /\ \A i \in 1 .. Len(results) : results[i].id # r
    BY <1>5, Sent DEF Honest, HonestResult, HasResult
  <2>2. \A i \in 1 .. Len(ch') :
           \/ i \in 1 .. Len(ch) /\ ch'[i] = ch[i]
           \/ i = Len(ch) + 1 /\ ch'[i].id = r
    <3>1. ResultOf(r).id = r
      BY DEF ResultOf
    <3> QED
      BY <1>1, <1>5, <3>1, Sent
  <2>3. r # Unknown
    BY RunnerAssumption
  <2>4. \A i, j \in 1 .. Len(ch') : i # j => ch'[i].id # ch'[j].id
    BY <2>1, <2>2 DEF Distinct
  <2>5. \A i \in 1 .. Len(ch') : ch'[i].id # Unknown
    BY <2>2, <2>3 DEF Distinct
  <2>6. results' = results
    BY <1>5, Sent
  <2>7. \A i \in 1 .. Len(ch'), j \in 1 .. Len(results') : ch'[i].id # results'[j].id
    BY <2>1, <2>2, <2>6 DEF Distinct
  <2> QED
    BY <2>4, <2>5, <2>6, <2>7 DEF Distinct
<1> QED
  BY <1>2, <1>3, <1>4, <1>5, ChannelSteps

-----------------------------------------------------------------------------
(* The loop of Interrupt. *)

\* Nobody is left behind by the loop, whatever the runners do meanwhile.
LEMMA SweptStep ==
    ASSUME GroupTyped, Honest, Swept, [GroupNext]_allVars
    PROVE  Swept'
<1> DEFINE Ended(r) == Finished(r) \/ interrupted[r]
<1>1. \A r \in Runners : Ended(r) => Ended(r)'
  BY Lasting
<1>2. runners \subseteq Runners /\ todo \subseteq runners
  BY DEF GroupTyped, GroupTypeOK
<1> HIDE DEF Ended
<1> DEFINE Left == \A r \in runners : r \in todo \/ (sweep = "call" /\ r = at) \/ Ended(r)
<1>3. /\ Swept <=> /\ sweep = "none" <=> ~ginterrupted
                   /\ group = "idle" => ~ginterrupted
                   /\ ginterrupted => Left
                   /\ sweep = "over" => todo = {}
                   /\ timer # "off" => sweep = "over"
                   /\ gich => timer # "off"
      /\ Swept' <=> /\ sweep' = "none" <=> ~ginterrupted'
                    /\ group' = "idle" => ~ginterrupted'
                    /\ ginterrupted' => Left'
                    /\ sweep' = "over" => todo' = {}
                    /\ timer' # "off" => sweep' = "over"
                    /\ gich' => timer' # "off"
  BY DEF Swept, Ended
<1>4. ASSUME UNCHANGED <<runners, ginterrupted, sweep, todo, at, timer>>,
             group' = "idle" => group = "idle", gich' => gich \/ timer # "off"
      PROVE  Swept'
  BY <1>1, <1>2, <1>3, <1>4
<1>5. CASE UNCHANGED groupVars
  BY <1>4, <1>5
<1>6. CASE StartGroup \/ AllStarted \/ CloseInterrupted \/ GroupTimesOut
  <2>1. CASE StartGroup \/ AllStarted
    BY <1>4, <2>1 DEF StartGroup, AllStarted
  <2>2. CASE CloseInterrupted \/ GroupTimesOut
    BY <1>1, <1>2, <1>3, <2>2 DEF CloseInterrupted, GroupTimesOut
  <2> QED
    BY <1>6, <2>1, <2>2
<1>7. CASE FirstResult \/ FirstTimeout \/ FirstContext \/ RestResult \/ RestTimeout \/ HandOver
           \/ Return
  BY <1>4, <1>7 DEF FirstResult, FirstTimeout, FirstContext, RestResult, RestTimeout,
     HandOver, Return
<1>8. CASE InterruptByOthers \/ InterruptSelf
  <2>1. CASE BeginSweep /\ ~ginterrupted /\ group' # "idle"
    BY <1>3, <2>1 DEF BeginSweep
  <2>2. CASE UNCHANGED <<runners, ginterrupted, sweep, todo, at, timer, gich>> /\ group' # "idle"
    BY <1>4, <2>2
  <2> QED
    BY <1>8, <2>1, <2>2 DEF InterruptByOthers, InterruptSelf
<1>9. ASSUME NEW r \in Runners, Look(r) PROVE Swept'
  BY <1>1, <1>2, <1>3, <1>9 DEF Look, Ended
<1>10. ASSUME NEW r \in Runners, InterruptMember(r) PROVE Swept'
  <2>1. Ended(r)'
    BY <1>10 DEF InterruptMember, DoInterrupt, GroupTyped, GroupTypeOK, Ended
  <2> QED
    BY <1>1, <1>2, <1>3, <1>10, <2>1 DEF InterruptMember
<1>11. CASE EndSweep
  BY <1>1, <1>2, <1>3, <1>11 DEF EndSweep
<1>12. ASSUME NEW r \in Runners, MemberStopped(r) PROVE Swept'
  BY <1>1, <1>2, <1>3, <1>12 DEF MemberStopped
<1>13. ASSUME NEW r \in Runners, Add(r) PROVE Swept'
  BY <1>3, <1>13 DEF Add
<1>14. ASSUME NEW r \in Runners, StartMember(r) \/ MemberGoroutines(r) \/ MemberSends(r)
       PROVE  UNCHANGED groupVars
  BY <1>14 DEF StartMember, MemberGoroutines, MemberSends
<1> QED
  BY <1>5, <1>6, <1>7, <1>8, <1>9, <1>10, <1>11, <1>12, <1>13, <1>14
     DEF GroupNext, GroupContextDone, Collect, Sweep, Timeout

\* Only Interrupt moves the loop on.
LEMMA SweepSteps ==
    ASSUME [GroupNext]_allVars
    PROVE  \/ UNCHANGED <<sweep, at>>
           \/ InterruptByOthers \/ InterruptSelf \/ EndSweep
           \/ \E r \in Runners : Look(r) \/ InterruptMember(r) \/ MemberStopped(r)
<1>1. CASE UNCHANGED allVars
  BY <1>1
<1>2. CASE StartGroup \/ AllStarted \/ Timeout
  BY <1>2 DEF StartGroup, AllStarted, Timeout, GroupTimesOut, CloseInterrupted
<1>3. CASE Collect
  BY <1>3 DEF Collect, FirstResult, FirstTimeout, FirstContext, RestResult, RestTimeout,
     HandOver, Return
<1>4. CASE ContextDone /\ UNCHANGED groupVars
  BY <1>4
<1>5. ASSUME NEW r \in Runners, Add(r) \/ StartMember(r) \/ MemberGoroutines(r) \/ MemberSends(r)
      PROVE  UNCHANGED <<sweep, at>>
  BY <1>5 DEF Add, StartMember, MemberGoroutines, MemberSends
<1> QED
  BY <1>1, <1>2, <1>3, <1>4, <1>5 DEF GroupNext, GroupContextDone, Sweep

\* The group's timeout starts only after the loop, so a result is only given
\* up when every runner has ended or was interrupted.
LEMMA PatientStep ==
    ASSUME GroupTyped, Distinct, Swept, Patient, [GroupNext]_allVars
    PROVE  Patient'
<1>1. Len(ch) \in Nat /\ Len(results) \in Nat
  BY DEF GroupTyped, GroupTypeOK
<1>2. sweep = "over" => sweep' = "over"
  BY SweepSteps DEF InterruptByOthers, InterruptSelf, BeginSweep, EndSweep, Look,
     InterruptMember, MemberStopped, Swept
<1>3. CASE UNCHANGED results
  BY <1>2, <1>3 DEF Patient
<1>4. CASE FirstResult \/ RestResult
  <2>1. 1 \in 1 .. Len(ch) /\ \A i \in 1 .. Len(results') :
           \/ i \in 1 .. Len(results) /\ results'[i] = results[i]
           \/ i = Len(results) + 1 /\ results'[i] = ch[1]
    BY <1>1, <1>4, Received
  <2> QED
    BY <1>2, <2>1 DEF Patient, Distinct
<1>5. CASE FirstTimeout \/ RestTimeout
  <2>1. sweep = "over"
    BY <1>5 DEF FirstTimeout, RestTimeout, Swept
  <2> QED
    BY <1>2, <2>1 DEF Patient
<1> QED
  BY <1>3, <1>4, <1>5, ChannelSteps, Sent

-----------------------------------------------------------------------------
(* Counting results. *)

\* The runners of a group can be counted.
LEMMA MemberCount ==
    ASSUME GroupTyped
    PROVE  /\ IsFiniteSet(runners) /\ runnersCount \in Nat
           /\ runners # {} => runnersCount >= 1
<1>1. IsFiniteSet(runners)
  BY RunnerAssumption, FS_Subset DEF GroupTyped, GroupTypeOK
<1>2. runnersCount \in Nat /\ (runnersCount = 0 <=> runners = {})
  BY <1>1, FS_CardinalityType, FS_EmptySet DEF runnersCount
<1> QED
  BY <1>1, <1>2

\* Run reads one result first and then as many as are missing.
LEMMA CountedStep ==
    ASSUME GroupTyped, Swept, Counted, [GroupNext]_allVars
    PROVE  Counted'
<1>1. Len(results) \in Nat
  BY DEF GroupTyped, GroupTypeOK
<1>2. runnersCount \in Nat /\ (runners # {} => runnersCount >= 1)
  BY MemberCount
<1>3. runners' = runners => runnersCount' = runnersCount
  BY DEF runnersCount
<1> HIDE DEF runnersCount
<1>4. ASSUME UNCHANGED <<runners, results>>, group' # "returned" \/ group = "returned",
             group' \in {"idle", "starting", "first"} => group \in {"idle", "starting", "first"}
      PROVE  Counted'
  BY <1>3, <1>4 DEF Counted
<1>5. CASE UNCHANGED <<runners, results, group>>
  BY <1>4, <1>5
<1>6. CASE StartGroup \/ AllStarted \/ FirstContext \/ InterruptSelf \/ EndSweep
  BY <1>4, <1>6 DEF StartGroup, AllStarted, FirstContext, InterruptSelf, BeginSweep, EndSweep
<1>7. CASE FirstResult \/ FirstTimeout
  <2>1. Len(results) = 0 /\ Len(results') = Len(results) + 1
    BY <1>7, Received, TimedOut DEF Counted, FirstResult, FirstTimeout
  <2> QED
    BY <1>2, <1>3, <1>7, <2>1 DEF Counted, FirstResult, FirstTimeout
<1>8. CASE RestResult \/ RestTimeout
  <2>1. Len(results) < runnersCount /\ Len(results') = Len(results) + 1
    BY <1>8, Received, TimedOut DEF RestResult, RestTimeout
  <2>2. group' = "rest" /\ runners' = runners
    BY <1>8 DEF RestResult, RestTimeout, Collecting
  <2> QED
    BY <1>1, <1>2, <1>3, <2>1, <2>2 DEF Counted
<1>9. CASE Return
  BY <1>3, <1>9 DEF Counted, Return
<1>10. ASSUME NEW r \in Runners, Add(r) PROVE Counted'
  <2>1. results' = <<>> /\ group' = "idle"
    BY <1>10 DEF Add, Counted
  <2>2. IsFiniteSet(runners')
    BY <1>10, RunnerAssumption, FS_Subset DEF Add, GroupTyped, GroupTypeOK
  <2>3. runnersCount' \in Nat
    BY <2>2, FS_CardinalityType DEF runnersCount
  <2>4. Len(results') = 0 /\ group' # "returned"
    BY <2>1
  <2> QED
    BY <2>1, <2>3, <2>4 DEF Counted
<1>11. CASE InterruptByOthers \/ Timeout \/ HandOver
  BY <1>5, <1>11 DEF InterruptByOthers, BeginSweep, Timeout, GroupTimesOut, CloseInterrupted,
     HandOver
<1>12. ASSUME NEW r \in Runners, Look(r) \/ InterruptMember(r) \/ StartMember(r)
                                 \/ MemberGoroutines(r) \/ MemberSends(r) \/ MemberStopped(r)
       PROVE  UNCHANGED <<runners, results, group>>
  BY <1>12 DEF Look, InterruptMember, StartMember, RunAsync, Start, MemberGoroutines, FnReturns,
     FnReports, TaskResult, TimeoutResult, WatchFinished, WatchTimesOut, Interrupt,
     MemberSends, Send, MemberStopped, CallStopper
<1>13. CASE ContextDone /\ UNCHANGED groupVars
  BY <1>5, <1>13 DEF ContextDone
<1>14. CASE UNCHANGED allVars
  BY <1>5, <1>14
<1> QED
  BY <1>5, <1>6, <1>7, <1>8, <1>9, <1>10, <1>11, <1>12, <1>13, <1>14
     DEF GroupNext, GroupContextDone, Collect, Sweep

\* As many different results as runners: every runner has one.
LEMMA EveryoneReported ==
    ASSUME GroupTyped, Honest, Distinct, Len(results) = runnersCount,
           \A i \in 1 .. Len(results) : results[i].id # Unknown,
           NEW r \in runners
    PROVE  \E i \in 1 .. Len(results) : results[i].id = r
<1> DEFINE n == Len(results)
           f == [i \in 1 .. n |-> results[i].id]
<1>1. n \in Nat /\ \A i \in 1 .. n : results[i] \in Result
  BY DEF GroupTyped, GroupTypeOK
<1>2. \A i \in 1 .. n : results[i].id \in runners
  <2> SUFFICES ASSUME NEW i \in 1 .. n PROVE results[i].id \in runners
    OBVIOUS
  <2>1. results[i].id \in Runners
    BY <1>1 DEF Result
  <2> QED
    BY <2>1 DEF Honest, HonestResult, Started
<1>3. \A i, j \in 1 .. n : results[i].id = results[j].id => i = j
  BY DEF Distinct
<1>4. f \in Injection(1 .. n, runners)
  BY <1>2, <1>3 DEF Injection, IsInjective
<1>5. IsFiniteSet(runners) /\ Cardinality(1 .. n) = Cardinality(runners)
  BY <1>1, MemberCount, FS_Interval DEF runnersCount
<1>6. f \in Surjection(1 .. n, runners)
  BY <1>4, <1>5, FS_Injection
<1> QED
  BY <1>6 DEF Surjection

\* While the group interrupts its runners itself it reads no results.
LEMMA SweepingSteps ==
    ASSUME [GroupNext]_allVars, group' = "sweeping"
    PROVE  results' = results /\ (group = "sweeping" \/ sweep' = "look")
<1>1. results' = results
  BY ChannelSteps DEF FirstResult, FirstTimeout, RestResult, RestTimeout, Collecting,
     MemberSends, Send
<1> SUFFICES group = "sweeping" \/ sweep' = "look"
  BY <1>1
<1>2. CASE UNCHANGED group
  BY <1>2
<1>3. CASE StartGroup \/ AllStarted \/ EndSweep
  BY <1>3 DEF StartGroup, AllStarted, EndSweep
<1>4. CASE Collect
  BY <1>4 DEF Collect, FirstResult, FirstTimeout, FirstContext, InterruptSelf, BeginSweep,
     RestResult, RestTimeout, HandOver, Return
<1>5. CASE InterruptByOthers \/ Timeout \/ UNCHANGED groupVars
  BY <1>5 DEF InterruptByOthers, Timeout, GroupTimesOut, CloseInterrupted
<1>6. ASSUME NEW r \in Runners, Look(r) \/ InterruptMember(r) \/ Add(r) \/ StartMember(r)
                \/ MemberGoroutines(r) \/ MemberSends(r) \/ MemberStopped(r)
      PROVE  UNCHANGED group
  BY <1>6 DEF Look, InterruptMember, Add, StartMember, MemberGoroutines, MemberSends,
     MemberStopped
<1> QED
  BY <1>2, <1>3, <1>4, <1>5, <1>6 DEF GroupNext, GroupContextDone, Sweep

\* A runner whose result the group has read before it interrupts the others
\* has ended, and the loop leaves it alone.
LEMMA EndedStep ==
    ASSUME GroupTyped, Honest, EndedNotStopped, [GroupNext]_allVars
    PROVE  EndedNotStopped'
<1>1. CASE \E r \in Runners : Look(r)
  <2> PICK r \in Runners : Look(r)
    BY <1>1
  <2>1. results' = results /\ (sweep' = "call" => at' = r /\ ~Finished(r))
    BY DEF Look
  <2>2. \A i \in 1 .. Len(results) : results[i] = [id |-> r, err |-> "task"] => Finished(r)
    BY DEF Honest, HonestResult, Finished
  <2> QED
    BY <2>1, <2>2 DEF EndedNotStopped
<1>2. CASE UNCHANGED <<sweep, at>>
  BY <1>2, SweepingSteps DEF EndedNotStopped
<1>3. CASE InterruptByOthers \/ InterruptSelf
  BY <1>3, SweepingSteps DEF InterruptByOthers, InterruptSelf, BeginSweep, EndedNotStopped
<1>4. CASE EndSweep
  BY <1>4 DEF EndSweep, EndedNotStopped
<1>5. ASSUME NEW r \in Runners, InterruptMember(r) \/ MemberStopped(r)
      PROVE  sweep' # "call" \/ UNCHANGED <<sweep, at>>
  BY <1>5 DEF InterruptMember, MemberStopped
<1>6. CASE sweep' # "call"
  BY <1>6 DEF EndedNotStopped
<1> QED
  BY <1>1, <1>2, <1>3, <1>4, <1>5, <1>6, SweepSteps

-----------------------------------------------------------------------------
(* The theorems. *)

\* A new group has sent, received and interrupted nothing.
LEMMA GroupInvInit == GroupInit => GroupInv
<1> SUFFICES ASSUME GroupInit PROVE GroupInv
  OBVIOUS
<1>1. GroupTyped
  BY GroupTypeInit
<1>2. Len(ch) = 0 /\ Len(results) = 0 /\ results = <<>>
  BY DEF GroupInit, RunnerInit
<1>3. Honest
  BY <1>2 DEF GroupInit, RunnerInit, Honest, Started
<1>4. Distinct /\ Patient
  BY <1>2 DEF Distinct, Patient
<1>5. Swept /\ EndedNotStopped
  BY DEF GroupInit, Swept, EndedNotStopped
<1>6. Counted
  BY <1>1, <1>2, MemberCount DEF GroupInit, Counted
<1> QED
  BY <1>1, <1>3, <1>4, <1>5, <1>6 DEF GroupInv

\* Every step keeps the invariant.
LEMMA GroupInvStep == GroupInv /\ [GroupNext]_allVars => GroupInv'
<1> SUFFICES ASSUME GroupInv, [GroupNext]_allVars PROVE GroupInv'
  OBVIOUS
<1>1. GroupTyped'
  BY GroupTypeStep DEF GroupInv
<1>2. Honest' /\ Distinct'
  BY HonestStep, DistinctStep DEF GroupInv
<1>3. Swept' /\ Patient'
  BY SweptStep, PatientStep DEF GroupInv
<1>4. Counted' /\ EndedNotStopped'
  BY CountedStep, EndedStep DEF GroupInv
<1> QED
  BY <1>1, <1>2, <1>3, <1>4 DEF GroupInv

\* Either all results are the runners' own, and then every runner has one, or
\* the group has given up on some after its loop was over.
LEMMA InvNobodyAbandoned == GroupInv => NobodyAbandoned
<1> SUFFICES ASSUME GroupInv, group = "returned", runners # {}
             PROVE  Len(results) = runnersCount /\ \A r \in runners : Finished(r) \/ interrupted[r]
  BY DEF NobodyAbandoned
<1>1. GroupTyped /\ Honest /\ Distinct /\ Swept /\ Patient /\ Counted
  BY DEF GroupInv
<1>2. Len(results) = runnersCount
  <2>1. Len(results) \in Nat /\ runnersCount \in Nat
    BY <1>1, MemberCount DEF GroupTyped, GroupTypeOK
  <2>2. Len(results) <= runnersCount /\ Len(results) >= runnersCount
    BY <1>1 DEF Counted
  <2> QED
    BY <2>1, <2>2
<1>3. ASSUME NEW r \in runners PROVE Finished(r) \/ interrupted[r]
  <2>1. CASE sweep = "over"
    BY <1>1, <2>1 DEF Swept
  <2>2. CASE sweep # "over"
    <3>1. PICK i \in 1 .. Len(results) : results[i].id = r
      BY <1>1, <1>2, <2>2, EveryoneReported DEF Patient
    <3>2. results[i] \in Result /\ r \in Runners
      BY <1>1 DEF GroupTyped, GroupTypeOK
    <3>3. results[i].err = "task" \/ results[i].err = "timeout"
      BY <3>2 DEF Result
    <3> QED
      BY <1>1, <3>1, <3>2, <3>3 DEF Honest, HonestResult, Finished
  <2> QED
    BY <2>1, <2>2
<1> QED
  BY <1>2, <1>3

\* What has been received and what is still in the channel, put together.
LEMMA PutTogether ==
    ASSUME ch \in Seq(Result), results \in Seq(Result), Distinct,
           \A i \in 1 .. Len(ch) : HonestResult(ch[i]),
           \A i \in 1 .. Len(results) : HonestResult(results[i])
    PROVE  OneResultEach
<1>1. Len(ch) \in Nat /\ Len(results) \in Nat /\ Len(Reported) = Len(results) + Len(ch)
  BY DEF Reported
<1>2. \A i \in 1 .. Len(Reported) :
         \/ i \in 1 .. Len(results) /\ Reported[i] = results[i]
         \/ i - Len(results) \in 1 .. Len(ch) /\ Reported[i] = ch[i - Len(results)]
  BY <1>1 DEF Reported
<1>3. ASSUME NEW i \in 1 .. Len(Reported), NEW j \in 1 .. Len(Reported), i # j,
             Reported[i].id = Reported[j].id
      PROVE  Reported[i].id = Unknown
  <2> DEFINE n == Len(results)
  <2>1. i - n # j - n
    BY <1>1, <1>3
  <2>2. CASE i \in 1 .. n /\ Reported[i] = results[i] /\ j \in 1 .. n /\ Reported[j] = results[j]
    BY <1>3, <2>2 DEF Distinct
  <2>3. CASE i - n \in 1 .. Len(ch) /\ Reported[i] = ch[i - n]
             /\ j - n \in 1 .. Len(ch) /\ Reported[j] = ch[j - n]
    BY <1>3, <2>1, <2>3 DEF Distinct
  <2>4. CASE i \in 1 .. n /\ Reported[i] = results[i]
             /\ j - n \in 1 .. Len(ch) /\ Reported[j] = ch[j - n]
    BY <1>3, <2>4 DEF Distinct
  <2>5. CASE i - n \in 1 .. Len(ch) /\ Reported[i] = ch[i - n]
             /\ j \in 1 .. n /\ Reported[j] = results[j]
    BY <1>3, <2>5 DEF Distinct
  <2> QED
    BY <1>2, <2>2, <2>3, <2>4, <2>5
<1>4. \A i \in 1 .. Len(Reported) : HonestResult(Reported[i])
  BY <1>2
<1> QED
  BY <1>3, <1>4 DEF OneResultEach, HonestResult

\* A group's results are distinct and honest.
LEMMA InvOneResultEach == GroupInv => OneResultEach
BY PutTogether DEF GroupInv, GroupTyped, GroupTypeOK, Honest

\* The variables of a group and its runners have their types.
THEOREM GroupTypeCorrect == GroupSpec => []GroupTypeOK
<1>1. GroupTyped => GroupTypeOK
  BY DEF GroupTyped
<1> QED
  BY <1>1, GroupTypeInit, GroupTypeStep, PTL DEF GroupSpec

\* The invariant holds in every reachable state.
LEMMA GroupInvAlways == GroupSpec => []GroupInv
<1> QED
  BY GroupInvInit, GroupInvStep, PTL DEF GroupSpec

\* A group of any size that returns has one result per runner and leaves no
\* runner that was not told to stop, whoever interrupted what (grouprunner.go,
\* Run, RunAsync and Interrupt).
THEOREM NobodyAbandonedAlways == GroupSpec => []NobodyAbandoned
<1> QED
  BY GroupInvAlways, InvNobodyAbandoned, PTL

\* Each runner of a group reports once, and what it reports is so (runner.go,
\* doTask).
THEOREM OneResultEachAlways == GroupSpec => []OneResultEach
<1> QED
  BY GroupInvAlways, InvOneResultEach, PTL

\* The group does not interrupt the runner whose end it answers to
\* (grouprunner.go, Run and Interrupt).
THEOREM EndedNotStoppedAlways == GroupSpec => []EndedNotStopped
<1>1. GroupInv => EndedNotStopped
  BY DEF GroupInv
<1> QED
  BY <1>1, GroupInvAlways, PTL

-----------------------------------------------------------------------------
(* Runners on their own. *)

\* What doTask and the goroutine of Interrupt know is so.
RunnerHonest ==
    \A r \in Runners :
        /\ doTask[r] = "task" => fn[r] = "reported"
        /\ doTask[r] = "timeout" => interrupted[r]
        /\ interruptedCh[r] => interrupted[r]
        /\ watch[r] # "none" => interrupted[r]
        /\ doTask[r] = "new" => fn[r] = "new"

RunnerTyped ==
    /\ fn \in [Runners -> {"new", "running", "finished", "reported"}]
    /\ doTask \in [Runners -> {"new", "select", "task", "timeout", "done"}]
    /\ interrupted \in [Runners -> BOOLEAN] /\ interruptedCh \in [Runners -> BOOLEAN]
    /\ watch \in [Runners -> {"none", "waiting", "gone"}]
    /\ ch \in Seq(Result) /\ results \in Seq(Result)

ResultsHonest ==
    /\ \A i \in 1 .. Len(ch) : HonestResult(ch[i])
    /\ \A i \in 1 .. Len(results) : HonestResult(results[i])

RunnerInv == RunnerTyped /\ RunnerHonest /\ ResultsHonest /\ Distinct

\* The invariant holds at the start.
LEMMA RunnerInvInit == RunnerInit => RunnerInv
<1> SUFFICES ASSUME RunnerInit PROVE RunnerInv
  OBVIOUS
<1>1. /\ fn \in [Runners -> {"new", "running", "finished", "reported"}]
      /\ doTask \in [Runners -> {"new", "select", "task", "timeout", "done"}]
      /\ watch \in [Runners -> {"none", "waiting", "gone"}]
      /\ ch \in Seq(Result) /\ results \in Seq(Result)
  BY DEF RunnerInit
<1>2. interrupted \in [Runners -> BOOLEAN] /\ interruptedCh \in [Runners -> BOOLEAN]
  BY Zenon DEF RunnerInit
<1>3. RunnerHonest
  BY DEF RunnerInit, RunnerHonest
<1>4. Len(ch) = 0 /\ Len(results) = 0
  BY DEF RunnerInit
<1> QED
  BY <1>1, <1>2, <1>3, <1>4 DEF RunnerInv, RunnerTyped, ResultsHonest, Distinct

\* The steps of one runner that touch no channel of results.
RunnerMoves(r) ==
    \/ Start(r)
    \/ FnReturns(r) \/ Goroutines(r) \/ Interrupt(r) \/ RunCancelled(r)

\* A step of the runners is one of these, a send, a receive or a return of Run.
LEMMA RunnerNextKinds ==
    ASSUME [RunnerNext]_vars
    PROVE  \/ UNCHANGED <<fn, doTask, interrupted, watch, interruptedCh, ch, results>>
           \/ Receive
           \/ \E r \in Runners : RunnerMoves(r) /\ UNCHANGED <<ch, results>>
           \/ \E r \in Runners : Send(r, 1) \/ RunReturns(r)
<1>1. CASE ContextDone \/ UNCHANGED vars
  BY <1>1 DEF ContextDone
<1>2. ASSUME NEW r \in Runners, Run(r) \/ RunAsync(r)
      PROVE  RunnerMoves(r) /\ UNCHANGED <<ch, results>>
  BY <1>2 DEF Run, RunAsync, RunnerMoves
<1>3. ASSUME NEW r \in Runners, FnReturns(r) \/ Goroutines(r) \/ Interrupt(r) \/ RunCancelled(r)
      PROVE  RunnerMoves(r) /\ UNCHANGED <<ch, results>>
  BY <1>3 DEF FnReturns, Goroutines, FnReports, TaskResult, TimeoutResult, CallStopper,
              WatchFinished, WatchTimesOut, Interrupt, RunCancelled, RunnerMoves
<1> QED
  BY <1>1, <1>2, <1>3 DEF RunnerNext

\* What such a step does to every runner.
LEMMA MovesSound ==
    ASSUME RunnerTyped, RunnerHonest, NEW q \in Runners, RunnerMoves(q)
    PROVE  /\ fn' \in [Runners -> {"new", "running", "finished", "reported"}]
           /\ doTask' \in [Runners -> {"new", "select", "task", "timeout", "done"}]
           /\ interrupted' \in [Runners -> BOOLEAN] /\ interruptedCh' \in [Runners -> BOOLEAN]
           /\ watch' \in [Runners -> {"none", "waiting", "gone"}]
           /\ RunnerHonest'
           /\ \A r \in Runners : /\ doTask[r] = "done" => doTask'[r] = "done"
                                 /\ fn[r] = "reported" => fn'[r] = "reported"
                                 /\ interrupted[r] => interrupted'[r]
<1> USE DEF RunnerTyped, RunnerHonest
<1>1. CASE Start(q)
  BY <1>1 DEF Start, Started
<1>2. CASE FnReturns(q) \/ FnReports(q)
  BY <1>2 DEF FnReturns, FnReports
<1>3. CASE TaskResult(q)
  BY <1>3 DEF TaskResult
<1>4. CASE TimeoutResult(q)
  <2>1. interruptedCh' \in [Runners -> BOOLEAN]
    BY <1>4 DEF TimeoutResult
  <2> QED
    BY <1>4, <2>1 DEF TimeoutResult
<1>5. CASE CallStopper(q)
  BY <1>5 DEF CallStopper
<1>6. CASE WatchFinished(q)
  BY <1>6 DEF WatchFinished
<1>7. CASE WatchTimesOut(q)
  BY <1>7 DEF WatchTimesOut
<1>8. CASE DoInterrupt(q)
  BY <1>8 DEF DoInterrupt
<1>9. CASE UNCHANGED <<fn, doTask, interrupted, watch, interruptedCh>>
  BY <1>9
<1> QED
  BY <1>1, <1>2, <1>3, <1>4, <1>5, <1>6, <1>7, <1>8, <1>9
     DEF RunnerMoves, Goroutines, Interrupt, RunCancelled

\* A runner delivers its result: to the channel, or to Run.
Delivers(r) ==
    /\ HasResult(r) /\ doTask' = [doTask EXCEPT ![r] = "done"]
    /\ UNCHANGED <<fn, interrupted, watch, interruptedCh>>
    /\ \/ ch' = Append(ch, ResultOf(r)) /\ results' = results
       \/ results' = Append(results, ResultOf(r)) /\ ch' = ch

\* The result that is delivered is the runner's first, and honest.
LEMMA DeliversSound ==
    ASSUME RunnerInv, NEW r \in Runners, Delivers(r)
    PROVE  RunnerInv'
<1>0. /\ RunnerTyped /\ RunnerHonest /\ ResultsHonest /\ Distinct
      /\ ch \in Seq(Result) /\ results \in Seq(Result)
      /\ Len(ch) \in Nat /\ Len(results) \in Nat
  BY DEF RunnerInv, RunnerTyped
<1>1. PICK x \in Result : x = ResultOf(r) /\ x.id = r /\ x.err = doTask[r]
  BY DEF Delivers, HasResult, ResultOf, Result
<1>2. /\ doTask' \in [Runners -> {"new", "select", "task", "timeout", "done"}]
      /\ doTask'[r] = "done" /\ \A q \in Runners : q # r => doTask'[q] = doTask[q]
      /\ UNCHANGED <<fn, interrupted, watch, interruptedCh>>
  BY <1>0 DEF Delivers, RunnerTyped
<1>3. RunnerHonest'
  BY <1>0, <1>2 DEF RunnerHonest, Delivers, HasResult
<1>4. ch' \in Seq(Result) /\ results' \in Seq(Result)
  <2>1. Append(ch, x) \in Seq(Result) /\ Append(results, x) \in Seq(Result)
    BY <1>0
  <2>2. \/ ch' = Append(ch, x) /\ results' = results
        \/ results' = Append(results, x) /\ ch' = ch
    BY <1>1 DEF Delivers
  <2> QED
    BY <1>0, <2>1, <2>2
<1>5. RunnerTyped'
  BY <1>0, <1>2, <1>4 DEF RunnerTyped
<1> DEFINE StillHonest(y) ==
             y.id \in Runners =>
                 /\ doTask'[y.id] = "done"
                 /\ y.err = "task" => fn'[y.id] = "reported"
                 /\ y.err = "timeout" => interrupted'[y.id]
<1>6. StillHonest(x) /\ x.id # Unknown
  <2>1. doTask[r] = "task" => fn'[r] = "reported"
    BY <1>0, <1>2 DEF RunnerHonest
  <2>2. doTask[r] = "timeout" => interrupted'[r]
    BY <1>0, <1>2 DEF RunnerHonest
  <2> QED
    BY <1>1, <1>2, <2>1, <2>2, RunnerAssumption
<1>7. \A y \in Result : HonestResult(y) => StillHonest(y)
  BY <1>2 DEF HonestResult
<1>8. /\ \A i \in 1 .. Len(ch) : StillHonest(ch[i]) /\ ch[i].id # r
      /\ \A i \in 1 .. Len(results) : StillHonest(results[i]) /\ results[i].id # r
  <2>1. doTask[r] # "done"
    BY DEF Delivers, HasResult
  <2>2. /\ \A i \in 1 .. Len(ch) : ch[i] \in Result /\ HonestResult(ch[i])
        /\ \A i \in 1 .. Len(results) : results[i] \in Result /\ HonestResult(results[i])
    BY <1>0 DEF ResultsHonest
  <2>3. \A y \in Result : HonestResult(y) => y.id # r
    BY <2>1 DEF HonestResult
  <2> HIDE DEF StillHonest
  <2> QED
    BY <1>7, <2>2, <2>3
<1>9. CASE ch' = Append(ch, x) /\ results' = results
  <2>1. \A i \in 1 .. Len(ch') :
           \/ i \in 1 .. Len(ch) /\ ch'[i] = ch[i]
           \/ i = Len(ch) + 1 /\ ch'[i] = x
    BY <1>0, <1>9
  <2>2. ResultsHonest'
    <3> HIDE DEF StillHonest
    <3>1. /\ \A i \in 1 .. Len(ch') : StillHonest(ch'[i])
          /\ \A i \in 1 .. Len(results') : StillHonest(results'[i])
      BY <1>6, <1>8, <1>9, <2>1
    <3> QED
      BY <3>1 DEF ResultsHonest, HonestResult, StillHonest
  <2>3. Distinct'
    <3> HIDE DEF StillHonest
    <3>1. \A i \in 1 .. Len(ch') : ch'[i].id # Unknown
      BY <1>0, <1>6, <2>1 DEF Distinct
    <3>2. ASSUME NEW i \in 1 .. Len(ch'), NEW j \in 1 .. Len(ch'), i # j
          PROVE  ch'[i].id # ch'[j].id
      <4>1. CASE i \in 1 .. Len(ch) /\ ch'[i] = ch[i] /\ j \in 1 .. Len(ch) /\ ch'[j] = ch[j]
        BY <1>0, <3>2, <4>1 DEF Distinct
      <4>2. CASE i \in 1 .. Len(ch) /\ ch'[i] = ch[i] /\ ch'[j] = x
        BY <1>1, <1>8, <4>2
      <4>3. CASE ch'[i] = x /\ j \in 1 .. Len(ch) /\ ch'[j] = ch[j]
        BY <1>1, <1>8, <4>3
      <4> QED
        BY <2>1, <3>2, <4>1, <4>2, <4>3
    <3>3. \A i \in 1 .. Len(ch'), j \in 1 .. Len(results) : ch'[i].id # results[j].id
      BY <1>0, <1>1, <1>8, <2>1 DEF Distinct
    <3>4. \A i, j \in 1 .. Len(results) :
             i # j /\ results[i].id = results[j].id => results[i].id = Unknown
      BY <1>0 DEF Distinct
    <3> QED
      BY <1>9, <3>1, <3>2, <3>3, <3>4 DEF Distinct
  <2> QED
    BY <1>3, <1>5, <2>2, <2>3 DEF RunnerInv
<1>10. CASE results' = Append(results, x) /\ ch' = ch
  <2>1. \A i \in 1 .. Len(results') :
           \/ i \in 1 .. Len(results) /\ results'[i] = results[i]
           \/ i = Len(results) + 1 /\ results'[i] = x
    BY <1>0, <1>10
  <2>2. ResultsHonest'
    <3> HIDE DEF StillHonest
    <3>1. /\ \A i \in 1 .. Len(ch') : StillHonest(ch'[i])
          /\ \A i \in 1 .. Len(results') : StillHonest(results'[i])
      BY <1>6, <1>8, <1>10, <2>1
    <3> QED
      BY <3>1 DEF ResultsHonest, HonestResult, StillHonest
  <2>3. Distinct'
    <3> HIDE DEF StillHonest
    <3>1. /\ \A i \in 1 .. Len(ch) : ch[i].id # Unknown
          /\ \A i, j \in 1 .. Len(ch) : i # j => ch[i].id # ch[j].id
      BY <1>0 DEF Distinct
    <3>2. \A i \in 1 .. Len(ch), j \in 1 .. Len(results') : ch[i].id # results'[j].id
      BY <1>0, <1>1, <1>8, <2>1 DEF Distinct
    <3>3. ASSUME NEW i \in 1 .. Len(results'), NEW j \in 1 .. Len(results'),
                 i # j, results'[i].id = results'[j].id
          PROVE  results'[i].id = Unknown
      <4>1. CASE /\ i \in 1 .. Len(results) /\ results'[i] = results[i]
                 /\ j \in 1 .. Len(results) /\ results'[j] = results[j]
        BY <1>0, <3>3, <4>1 DEF Distinct
      <4>2. CASE i \in 1 .. Len(results) /\ results'[i] = results[i] /\ results'[j] = x
        BY <1>1, <1>8, <3>3, <4>2
      <4>3. CASE results'[i] = x /\ j \in 1 .. Len(results) /\ results'[j] = results[j]
        BY <1>1, <1>8, <3>3, <4>3
      <4> QED
        BY <2>1, <3>3, <4>1, <4>2, <4>3
    <3> QED
      BY <1>10, <3>1, <3>2, <3>3 DEF Distinct
  <2> QED
    BY <1>3, <1>5, <2>2, <2>3 DEF RunnerInv
<1> QED
  BY <1>1, <1>9, <1>10 DEF Delivers

\* The owner of the channel receives what was sent.
LEMMA ReceiveSound == ASSUME RunnerInv, Receive PROVE RunnerInv'
<1>0. /\ RunnerTyped /\ RunnerHonest /\ ResultsHonest /\ Distinct
      /\ ch \in Seq(Result) /\ results \in Seq(Result)
      /\ Len(ch) \in Nat /\ Len(results) \in Nat
  BY DEF RunnerInv, RunnerTyped
<1>1. /\ ch # <<>> /\ ch' = Tail(ch) /\ results' = Append(results, Head(ch))
      /\ UNCHANGED <<fn, doTask, interrupted, watch, interruptedCh>>
  BY DEF Receive
<1>2. /\ 1 \in 1 .. Len(ch) /\ ch' \in Seq(Result) /\ results' \in Seq(Result)
      /\ \A i \in 1 .. Len(ch') : i + 1 \in 1 .. Len(ch) /\ ch'[i] = ch[i + 1] /\ i + 1 # 1
      /\ \A i \in 1 .. Len(results') :
            \/ i \in 1 .. Len(results) /\ results'[i] = results[i]
            \/ i = Len(results) + 1 /\ results'[i] = ch[1]
  BY <1>0, <1>1
<1>3. RunnerTyped' /\ RunnerHonest'
  BY <1>0, <1>1, <1>2 DEF RunnerTyped, RunnerHonest
<1>4. ResultsHonest'
  <2>1. \A x : HonestResult(x) => HonestResult(x)'
    BY <1>1 DEF HonestResult
  <2>2. \A i \in 1 .. Len(ch') : HonestResult(ch'[i])
    BY <1>0, <1>2 DEF ResultsHonest
  <2>3. \A i \in 1 .. Len(results') : HonestResult(results'[i])
    BY <1>0, <1>2 DEF ResultsHonest
  <2> QED
    BY <1>1, <2>2, <2>3 DEF ResultsHonest, HonestResult
<1>5. Distinct'
  <2>1. \A i, j \in 1 .. Len(ch') : i # j => ch'[i].id # ch'[j].id
    <3> SUFFICES ASSUME NEW i \in 1 .. Len(ch'), NEW j \in 1 .. Len(ch'), i # j
                 PROVE  ch'[i].id # ch'[j].id
      OBVIOUS
    <3>1. i + 1 \in 1 .. Len(ch) /\ ch'[i] = ch[i + 1]
      BY <1>2
    <3>2. j + 1 \in 1 .. Len(ch) /\ ch'[j] = ch[j + 1]
      BY <1>2
    <3>3. i + 1 # j + 1
      BY <1>0, <1>2
    <3>4. ch[i + 1].id # ch[j + 1].id
      BY <1>0, <3>1, <3>2, <3>3 DEF Distinct
    <3> QED
      BY <3>1, <3>2, <3>4
  <2>2. \A i \in 1 .. Len(ch') : ch'[i].id # Unknown
    BY <1>0, <1>2 DEF Distinct
  <2>3. \A i \in 1 .. Len(ch'), j \in 1 .. Len(results') : ch'[i].id # results'[j].id
    <3> SUFFICES ASSUME NEW i \in 1 .. Len(ch'), NEW j \in 1 .. Len(results')
                 PROVE  ch'[i].id # results'[j].id
      OBVIOUS
    <3>0. /\ i + 1 \in 1 .. Len(ch) /\ ch'[i] = ch[i + 1] /\ i + 1 # 1
          /\ 1 \in 1 .. Len(ch)
      BY <1>2
    <3>1. CASE j \in 1 .. Len(results) /\ results'[j] = results[j]
      <4>1. ch[i + 1].id # results[j].id
        BY <1>0, <3>0, <3>1 DEF Distinct
      <4> QED
        BY <3>0, <3>1, <4>1
    <3>2. CASE results'[j] = ch[1]
      <4>1. ch[i + 1].id # ch[1].id
        BY <1>0, <3>0 DEF Distinct
      <4> QED
        BY <3>0, <3>2, <4>1
    <3> QED
      BY <1>2, <3>1, <3>2
  <2>4. \A i, j \in 1 .. Len(results') :
           i # j /\ results'[i].id = results'[j].id => results'[i].id = Unknown
    <3> SUFFICES ASSUME NEW i \in 1 .. Len(results'), NEW j \in 1 .. Len(results'),
                        i # j, results'[i].id = results'[j].id
                 PROVE  results'[i].id = Unknown
      OBVIOUS
    <3>1. CASE /\ i \in 1 .. Len(results) /\ results'[i] = results[i]
               /\ j \in 1 .. Len(results) /\ results'[j] = results[j]
      BY <1>0, <3>1 DEF Distinct
    <3>2. CASE i \in 1 .. Len(results) /\ results'[i] = results[i] /\ results'[j] = ch[1]
      <4>1. ch[1].id # results[i].id
        BY <1>0, <1>2, <3>2 DEF Distinct
      <4> QED
        BY <3>2, <4>1
    <3>3. CASE results'[i] = ch[1] /\ j \in 1 .. Len(results) /\ results'[j] = results[j]
      <4>1. ch[1].id # results[j].id
        BY <1>0, <1>2, <3>3 DEF Distinct
      <4> QED
        BY <3>3, <4>1
    <3>4. \/ i \in 1 .. Len(results) /\ results'[i] = results[i]
          \/ i = Len(results) + 1 /\ results'[i] = ch[1]
      BY <1>2
    <3>5. \/ j \in 1 .. Len(results) /\ results'[j] = results[j]
          \/ j = Len(results) + 1 /\ results'[j] = ch[1]
      BY <1>2
    <3>6. ~(i = Len(results) + 1 /\ j = Len(results) + 1)
      OBVIOUS
    <3> QED
      BY <3>1, <3>2, <3>3, <3>4, <3>5, <3>6, Zenon
  <2> QED
    BY <2>1, <2>2, <2>3, <2>4 DEF Distinct
<1> QED
  BY <1>3, <1>4, <1>5 DEF RunnerInv

\* Every step of the runners keeps the invariant.
LEMMA RunnerInvStep == ASSUME RunnerInv, [RunnerNext]_vars PROVE RunnerInv'
<1>1. CASE UNCHANGED <<fn, doTask, interrupted, watch, interruptedCh, ch, results>>
  BY <1>1 DEF RunnerInv, RunnerTyped, RunnerHonest, ResultsHonest, HonestResult, Distinct
<1>2. CASE Receive
  BY <1>2, ReceiveSound
<1>3. ASSUME NEW r \in Runners, RunnerMoves(r), UNCHANGED <<ch, results>> PROVE RunnerInv'
  <2>1. /\ RunnerTyped /\ RunnerHonest /\ ResultsHonest /\ Distinct
        /\ \A i \in 1 .. Len(ch) : ch[i] \in Result
        /\ \A i \in 1 .. Len(results) : results[i] \in Result
    BY DEF RunnerInv, RunnerTyped
  <2>2. RunnerTyped' /\ RunnerHonest'
    BY <1>3, <2>1, MovesSound DEF RunnerTyped
  <2>3. \A q \in Runners : /\ doTask[q] = "done" => doTask'[q] = "done"
                           /\ fn[q] = "reported" => fn'[q] = "reported"
                           /\ interrupted[q] => interrupted'[q]
    BY <1>3, <2>1, MovesSound
  <2>4. /\ \A i \in 1 .. Len(ch) : HonestResult(ch[i])
        /\ \A i \in 1 .. Len(results) : HonestResult(results[i])
    BY <2>1 DEF ResultsHonest
  <2>5. ResultsHonest'
    BY <1>3, <2>1, <2>3, <2>4 DEF ResultsHonest, HonestResult, Result
  <2>6. Distinct'
    BY <1>3, <2>1 DEF Distinct
  <2> QED
    BY <2>2, <2>5, <2>6 DEF RunnerInv
<1>4. ASSUME NEW r \in Runners, Send(r, 1) \/ RunReturns(r) PROVE RunnerInv'
  <2>1. Delivers(r)
    BY <1>4 DEF Send, RunReturns, Delivers
  <2> QED
    BY <2>1, DeliversSound
<1> QED
  BY <1>1, <1>2, <1>3, <1>4, RunnerNextKinds

\* A runner that is run on its own, with Run or with RunAsync, delivers at most
\* one result, and it is honest, whichever of the task, the timeout, the context
\* and Interrupt comes first (runner.go, Run, RunAsync, Interrupt and doTask).
THEOREM RunnerDeliversOnce == RunnerSpec => []OneResultEach
<1>1. RunnerInv => OneResultEach
  BY PutTogether DEF RunnerInv, RunnerTyped, ResultsHonest
<1> QED
  BY <1>1, RunnerInvInit, RunnerInvStep, PTL DEF RunnerSpec

================================================================================
