----------------------- MODULE PostprocessingService -----------------------
(***************************************************************************)
(* The postprocessing service (services/postprocessing/pkg/service) with   *)
(* everything it talks to: the event bus, the key-value store that keeps   *)
(* one record per upload, the services that run the steps (antivirus,      *)
(* policies, custom ones), the storage provider that owns the upload       *)
(* session, and the administrator's resume and restart commands.           *)
(*                                                                         *)
(* Workers goroutines take events from one durable consumer, so the events *)
(* of one upload are handled concurrently and in any order; an event that  *)
(* is not acknowledged comes back.  processEvent is split where another    *)
(* goroutine or a crash can come in between: reading the record, writing   *)
(* it, publishing the next event, acknowledging.                           *)
(*                                                                         *)
(* Uploads are the uploads of at least one byte to a storage provider with *)
(* asynchronous postprocessing.  FinishUpload finalizes every other upload *)
(* itself and starts no postprocessing for it.                             *)
(***************************************************************************)
EXTENDS Postprocessing, Integers, FiniteSets

CONSTANTS
    Workers,            \* POSTPROCESSING_WORKERS goroutines
    Overwrites,         \* the uploads that write a new version of a file
    StepOutcomes(_),    \* the outcomes a step service may report
    PublishMaxRetries,  \* POSTPROCESSING_PUBLISH_MAX_RETRIES
    MaxFaults,          \* bound: failures, crashes and redeliveries
    MaxAdmin            \* bound: resume and restart commands

ASSUME ServiceAssumption ==
    /\ IsFiniteSet(Workers)
    /\ Overwrites \subseteq Uploads
    /\ "-" \notin Uploads
    /\ \A s \in StepSet : StepOutcomes(s) \subseteq Outcomes
    /\ PublishMaxRetries \in Nat
    /\ MaxFaults \in Nat /\ MaxAdmin \in Nat

VARIABLES
    store,      \* the record of each upload, NoPP if there is none
    bus,        \* how many copies of each event wait for their consumer
    worker,     \* what each worker goroutine is doing
    timers,     \* goroutines that sleep and then publish an event
    stopped,    \* Close was called
    session,    \* storage provider: the upload session
    file,       \* storage provider: the node the upload writes to
    handover,   \* storage provider: FinishUpload calls that have not published
    passed,     \* history: the steps that reported "continue" for an upload
    lost,       \* history: uploads whose pending work the system gave up
    faults,     \* history: the faults so far
    admin       \* history: the commands of the administrator so far

ppsVars == <<store, worker, timers, stopped>>
spVars  == <<session, file, handover>>
histVars == <<passed, lost, faults, admin>>
vars == <<store, bus, worker, timers, stopped, session, file, handover,
          passed, lost, faults, admin>>

-----------------------------------------------------------------------------
(* The events on the bus and the events a sleeping goroutine publishes.    *)

Delayed ==
         {StartPostprocessingStep(u, s) : u \in Uploads, s \in CurrentSteps}
    \cup {PostprocessingFinished(u, o) : u \in Uploads, o \in Outcomes}

Event ==
         Delayed
    \cup {BytesReceived(u) : u \in Uploads}
    \cup {PostprocessingStepFinished(u, s, o) : u \in Uploads, s \in StepSet, o \in Outcomes}
    \cup {PostprocessingRetry(u) : u \in Uploads}
    \cup {UploadReady(u, f) : u \in Uploads, f \in {"ok", "failed"}}
    \cup {ResumePostprocessing(u, "-") : u \in Uploads}
    \cup {ResumePostprocessing("-", s) : s \in CurrentSteps}
    \cup {RestartPostprocessing(u) : u \in Uploads}

\* A worker without an event to publish is told from one that has one.
ASSUME NoEventAssumption == NoEvent \notin Event

Timer == [kind : {"retry", "delay"}, ev : Delayed]

\* The bus keeps a count of copies: publishing adds one, taking removes one.
\* Nobody consumes PostprocessingRetry.
Publish(b, e) == IF e.type = "PostprocessingRetry" THEN b ELSE [b EXCEPT ![e] = @ + 1]

Taken(e) == [bus EXCEPT ![e] = @ - 1]

Idle == [pc |-> "idle", ev |-> NoEvent, pp |-> NoPP, next |-> NoEvent,
         ids |-> {}, attempt |-> 0, held |-> FALSE]

\* After an event a worker takes the next one, or leaves its loop when the
\* service is stopping.
Released == IF stopped THEN [Idle EXCEPT !.pc = "left"] ELSE Idle

\* A worker that took e and goes on at pc.
Busy(pc, e, pp, nxt) ==
    [pc |-> pc, ev |-> e, pp |-> pp, next |-> nxt, ids |-> {}, attempt |-> 0, held |-> TRUE]

\* A worker that has only the acknowledgement left to do, and one that has
\* written the record and has the next event to publish.
Acking(w) == [Idle EXCEPT !.pc = "ack", !.ev = worker[w].ev, !.held = worker[w].held]

Publishing(w) == [worker[w] EXCEPT !.pc = "publish", !.pp = NoPP]

Fault == faults < MaxFaults /\ faults' = faults + 1

-----------------------------------------------------------------------------
Init ==
    /\ store = [u \in Uploads |-> NoPP]
    /\ bus = [e \in Event |-> 0]
    /\ worker = [w \in Workers |-> Idle]
    /\ timers = [t \in Timer |-> 0]
    /\ stopped = FALSE
    /\ session = [u \in Uploads |-> "none"]
    /\ file = [u \in Uploads |-> "none"]
    /\ handover = {}
    /\ passed = [u \in Uploads |-> {}]
    /\ lost = {}
    /\ faults = 0
    /\ admin = 0

-----------------------------------------------------------------------------
(* The workers: the switch in processEvent up to the first write.          *)

\* Mutant: an event is taken from an empty bus.
CanTakeUnsent(w, e) == worker[w].pc = "idle" /\ bus[e] >= 0

\* A worker that waits may take e.  Its select may do so even when the service
\* is stopping: both cases are ready then.
CanTake(w, e) == worker[w].pc = "idle" /\ bus[e] > 0

\* Mutant: an upload that has a record is not started a second time.
HandleBytesReceivedOnce(w, u) ==
    LET e == BytesReceived(u)
        r == InitPP(New, u)
    IN  /\ CanTake(w, e)
        /\ bus' = Taken(e)
        /\ worker' = [worker EXCEPT ![w] =
              IF store[u] = NoPP THEN Busy("store", e, r.pp, r.next)
              ELSE Busy("ack", e, NoPP, NoEvent)]
        /\ UNCHANGED <<store, timers, stopped, spVars, histVars>>

\* A new record replaces whatever the store has; nothing is read.
HandleBytesReceived(w, u) ==
    LET e == BytesReceived(u)
        r == InitPP(New, u)
    IN  /\ CanTake(w, e)
        /\ bus' = Taken(e)
        /\ worker' = [worker EXCEPT ![w] = Busy("store", e, r.pp, r.next)]
        /\ UNCHANGED <<store, timers, stopped, spVars, histVars>>

\* The result of a step.  The outcome of the record, not of the event, decides
\* whether a goroutine is started that starts the current step again.
HandleStepFinished(w, u, s, o) ==
    LET e == PostprocessingStepFinished(u, s, o)
        r == NextStep(store[u], u, s, o)
        t == [kind |-> "retry", ev |-> StartPostprocessingStep(u, r.pp.currentStep)]
    IN  /\ CanTake(w, e)
        /\ store[u] # NoPP
        /\ bus' = Taken(e)
        /\ worker' = [worker EXCEPT ![w] = Busy("store", e, r.pp, r.next)]
        /\ timers' = IF r.pp.outcome = "retry" THEN [timers EXCEPT ![t] = @ + 1] ELSE timers
        /\ UNCHANGED <<store, stopped, spVars, histVars>>

\* The delay step is the only one the service runs itself.  The record moves
\* to the next step at once; the goroutine publishes that step after the delay.
HandleStartDelay(w, u) ==
    LET e == StartPostprocessingStep(u, "delay")
        r == next(store[u], u, "delay")
        t == [kind |-> "delay", ev |-> r.next]
    IN  /\ "delay" \in StepSet
        /\ CanTake(w, e)
        /\ store[u] # NoPP
        /\ bus' = Taken(e)
        /\ worker' = [worker EXCEPT ![w] = Busy("store", e, r.pp, NoEvent)]
        /\ timers' = [timers EXCEPT ![t] = @ + 1]
        /\ UNCHANGED <<store, stopped, spVars, histVars>>

\* The storage provider is done: a failed upload is kept, marked as finished,
\* the record of a successful one is deleted.
HandleUploadReady(w, u, f) ==
    LET e == UploadReady(u, f)
        p == IF f = "failed" THEN [store[u] EXCEPT !.finished = TRUE] ELSE store[u]
    IN  /\ CanTake(w, e)
        /\ store[u] # NoPP
        /\ bus' = Taken(e)
        /\ worker' = [worker EXCEPT ![w] =
                        Busy(IF f = "failed" THEN "mark" ELSE "delete", e, p, NoEvent)]
        /\ UNCHANGED <<store, timers, stopped, spVars, histVars>>

\* getPP fails: the event is logged and acknowledged.
HandleUnknownUpload(w, e) ==
    /\ CanTake(w, e)
    /\ \/ e.type \in {"PostprocessingStepFinished", "UploadReady"}
       \/ e.type = "StartPostprocessingStep" /\ e.step = "delay"
    /\ \/ store[e.id] = NoPP /\ UNCHANGED <<lost, faults>>
       \/ Fault /\ lost' = lost \cup {e.id}
    /\ bus' = Taken(e)
    /\ worker' = [worker EXCEPT ![w] = Busy("ack", e, NoPP, NoEvent)]
    /\ UNCHANGED <<store, timers, stopped, spVars, passed, admin>>

\* findUploadsByStep, or the one upload the command names.
HandleResume(w, e) ==
    /\ e.type = "ResumePostprocessing"
    /\ CanTake(w, e)
    /\ bus' = Taken(e)
    /\ worker' = [worker EXCEPT ![w] =
         [Busy("resume", e, NoPP, NoEvent) EXCEPT !.ids =
            IF e.step = "-" THEN {e.id}
            ELSE {u \in Uploads : store[u] # NoPP /\ store[u].currentStep = e.step}]]
    /\ UNCHANGED <<store, timers, stopped, spVars, histVars>>

-----------------------------------------------------------------------------
(* The workers: what follows the switch.                                   *)

\* resumePP for one of the uploads: an unknown one is restarted, a finished
\* one is left alone, else its current step is published again.  Nothing is
\* stored, and a failure is only logged.
ResumePP(w, u) ==
    /\ worker[w].pc = "resume"
    /\ u \in worker[w].ids
    /\ LET rest == worker[w].ids \ {u}
       IN  worker' = [worker EXCEPT ![w].ids = rest]
    /\ \/ /\ bus' = CASE store[u] = NoPP -> Publish(bus, RestartPostprocessing(u))
                      [] store[u] # NoPP /\ store[u].finished -> bus
                      [] OTHER -> Publish(bus, CurrentStep(store[u], u).next)
          /\ UNCHANGED faults
       \/ Fault /\ UNCHANGED bus
    /\ UNCHANGED <<store, timers, stopped, spVars, passed, lost, admin>>

\* The store deletes the record of a successful upload, or fails to.
DeleteRecord(w) ==
    /\ worker[w].pc = "delete"
    /\ \/ /\ store' = [store EXCEPT ![worker[w].ev.id] = NoPP]
          /\ worker' = [worker EXCEPT ![w].pc = "store"]
          /\ UNCHANGED faults
       \/ /\ Fault
          /\ worker' = [worker EXCEPT ![w] = Acking(w)]
          /\ UNCHANGED store
    /\ UNCHANGED <<bus, timers, stopped, spVars, passed, lost, admin>>

\* storePP succeeds: in the failed case of UploadReady, and after the switch.
StoreRecord(w) ==
    /\ worker[w].pc \in {"mark", "store"}
    /\ store' = [store EXCEPT ![worker[w].ev.id] = worker[w].pp]
    /\ worker' = [worker EXCEPT ![w] =
                    IF worker[w].next = NoEvent THEN Acking(w) ELSE Publishing(w)]
    /\ UNCHANGED <<bus, timers, stopped, spVars, histVars>>

\* An event that is not acknowledged is delivered again, unless it already was.
Returned(w) == IF worker[w].held THEN Publish(bus, worker[w].ev) ELSE bus

\* Mutant: the event is acknowledged although the record was not written.
StoreFailsAcked(w) ==
    /\ worker[w].pc = "store"
    /\ Fault
    /\ worker' = [worker EXCEPT ![w] = Released]
    /\ UNCHANGED <<store, bus, timers, stopped, spVars, passed, lost, admin>>

\* storePP fails after the switch: the event is not acknowledged.
StoreFails(w) ==
    /\ worker[w].pc = "store"
    /\ Fault
    /\ bus' = Returned(w)
    /\ worker' = [worker EXCEPT ![w] = Released]
    /\ UNCHANGED <<store, timers, stopped, spVars, passed, lost, admin>>

PublishNext(w) ==
    /\ worker[w].pc = "publish"
    /\ bus' = Publish(bus, worker[w].next)
    /\ worker' = [worker EXCEPT ![w] = Acking(w)]
    /\ UNCHANGED <<store, timers, stopped, spVars, histVars>>

\* An attempt to publish fails and another one follows.  The event may be on
\* the bus all the same: it is the answer that did not come in time.
PublishAttemptFails(w) ==
    /\ worker[w].pc = "publish"
    /\ worker[w].attempt < PublishMaxRetries
    /\ Fault
    /\ bus' \in {bus, Publish(bus, worker[w].next)}
    /\ worker' = [worker EXCEPT ![w].attempt = @ + 1]
    /\ UNCHANGED <<store, timers, stopped, spVars, passed, lost, admin>>

\* The service is stopping and so publishWithRetry gives up waiting: the event
\* is not acknowledged and the worker ends.
PublishStopped(w) ==
    /\ worker[w].pc = "publish"
    /\ stopped
    /\ worker[w].attempt > 0
    /\ bus' = Returned(w)
    /\ worker' = [worker EXCEPT ![w] = Released]
    /\ UNCHANGED <<store, timers, stopped, spVars, histVars>>

\* The deferred acknowledgement.
Ack(w) ==
    /\ \/ worker[w].pc = "ack"
       \/ worker[w].pc = "resume" /\ worker[w].ids = {}
    /\ worker' = [worker EXCEPT ![w] = Released]
    /\ UNCHANGED <<store, bus, timers, stopped, spVars, histVars>>

\* The other case of the select: the worker leaves its loop.
Leave(w) ==
    /\ worker[w].pc = "idle"
    /\ stopped
    /\ worker' = [worker EXCEPT ![w] = Released]
    /\ UNCHANGED <<store, bus, timers, stopped, spVars, histVars>>

\* AckWait passes while a worker still has the event, or its acknowledgement
\* is lost: the bus hands the event out again.
Redeliver(w) ==
    /\ worker[w].held
    /\ Fault
    /\ bus' = Publish(bus, worker[w].ev)
    /\ worker' = [worker EXCEPT ![w].held = FALSE]
    /\ UNCHANGED <<store, timers, stopped, spVars, passed, lost, admin>>

-----------------------------------------------------------------------------
(* Goroutines that sleep, and the life of the process.                     *)

\* The backoff or the delay is over.  A failure to publish is only logged.
TimerFires(t) ==
    /\ timers[t] > 0
    /\ timers' = [timers EXCEPT ![t] = @ - 1]
    /\ \/ bus' = Publish(bus, t.ev) /\ UNCHANGED <<lost, faults>>
       \/ Fault /\ lost' = lost \cup {t.ev.id} /\ UNCHANGED bus
    /\ UNCHANGED <<store, worker, stopped, spVars, passed, admin>>

\* The process ends and is started again: the events that the workers of ws
\* hold come back, the sleeping goroutines are gone.
Restarted(b, ws) ==
    /\ bus' = [e \in Event |-> b[e] + Cardinality({w \in ws :
                    worker[w].held /\ worker[w].ev = e})]
    /\ worker' = [w \in Workers |-> Idle]
    /\ lost' = lost \cup {u \in Uploads : \E t \in Timer : timers[t] > 0 /\ t.ev.id = u}
    /\ timers' = [t \in Timer |-> 0]
    /\ stopped' = FALSE
    /\ UNCHANGED <<store, spVars, passed, admin>>

Crash == Fault /\ Restarted(bus, Workers)

\* The last attempt to publish fails: ErrFatal, log.Fatal.  A service that is
\* stopping does not exit over it.
PublishFatal(w) ==
    /\ worker[w].pc = "publish"
    /\ worker[w].attempt = PublishMaxRetries
    /\ Fault
    /\ \E b \in {bus, Publish(bus, worker[w].next)} :
         IF stopped
         THEN /\ bus' = IF worker[w].held THEN Publish(b, worker[w].ev) ELSE b
              /\ worker' = [worker EXCEPT ![w] = Released]
              /\ UNCHANGED <<store, timers, stopped, spVars, passed, lost, admin>>
         ELSE Restarted(b, Workers)

\* storePP fails in the failed case of UploadReady: the bare error is unknown
\* to Run, which exits, but the event was acknowledged on the way out.
MarkFatal(w) ==
    /\ worker[w].pc = "mark"
    /\ Fault
    /\ Restarted(bus, Workers \ {w})

Close ==
    /\ ~stopped
    /\ Fault
    /\ stopped' = TRUE
    /\ UNCHANGED <<store, bus, worker, timers, spVars, passed, lost, admin>>

\* Run returns once every worker has left its loop.
Exit ==
    /\ stopped
    /\ \A w \in Workers : worker[w].pc = "left"
    /\ UNCHANGED faults
    /\ Restarted(bus, Workers)

-----------------------------------------------------------------------------
(* The services that run the steps.                                        *)

\* antivirus, policies or a custom service runs the step and reports.
RunStep(u, s, o) ==
    LET e == StartPostprocessingStep(u, s)
    IN  /\ s # "delay"
        /\ bus[e] > 0
        /\ o \in StepOutcomes(s)
        /\ bus' = Publish(Taken(e), PostprocessingStepFinished(u, s, o))
        /\ passed' = IF o = "continue" THEN [passed EXCEPT ![u] = @ \cup {s}] ELSE passed
        /\ UNCHANGED <<ppsVars, spVars, lost, faults, admin>>

\* A step service acknowledges an event when it takes it: if it exits before
\* it has published the result, the step is not run again.
StepServiceDies(u, s) ==
    /\ s # "delay"
    /\ bus[StartPostprocessingStep(u, s)] > 0
    /\ Fault
    /\ bus' = Taken(StartPostprocessingStep(u, s))
    /\ lost' = lost \cup {u}
    /\ UNCHANGED <<ppsVars, spVars, passed, admin>>

-----------------------------------------------------------------------------
(* The storage provider (decomposedfs).                                    *)

\* All bytes of the upload are there: CreateNodeForUpload marks the node as
\* processing and saves the session.  Nobody has been told so far.
FinishUpload(u) ==
    /\ session[u] = "none"
    /\ session' = [session EXCEPT ![u] = "open"]
    /\ file' = [file EXCEPT ![u] = "processing"]
    /\ handover' = handover \cup {u}
    /\ UNCHANGED <<bus, ppsVars, histVars>>

\* The same call goes on: the event that starts the postprocessing.
PublishBytesReceived(u) ==
    /\ u \in handover
    /\ handover' = handover \ {u}
    /\ bus' = Publish(bus, BytesReceived(u))
    /\ UNCHANGED <<session, file, ppsVars, histVars>>

\* The URL, the user or the publishing fails, or the process dies first.  The
\* call only returns the error: the node stays marked and the session open.
\* A publishing that fails may have put the event on the bus all the same.
FinishUploadFails(u) ==
    /\ u \in handover
    /\ Fault
    /\ handover' = handover \ {u}
    /\ \/ lost' = lost \cup {u} /\ UNCHANGED bus
       \/ bus' = Publish(bus, BytesReceived(u)) /\ UNCHANGED lost
    /\ UNCHANGED <<session, file, ppsVars, passed, admin>>

\* Cleanup with revertNodeMetadata: an earlier version is restored, a node
\* that was new is purged.
Reverted(u) ==
    IF file[u] # "processing" THEN file[u]
    ELSE IF u \in Overwrites THEN "reverted" ELSE "purged"

\* UploadReady is published, or the failure to do so is logged.
PublishReady(b, u, f) ==
    \/ bus' = Publish(b, UploadReady(u, f)) /\ UNCHANGED faults
    \/ Fault /\ bus' = b

\* Mutant: a session that was already removed is found.
NodeExistsUnchecked(u) == file[u] # "purged"

\* The session can be read and its node exists.
NodeExists(u) == session[u] \in {"open", "kept"} /\ file[u] # "purged"

\* PostprocessingFinished.  Without a session nothing is done, and without a
\* node the session is cleaned up; in neither case is UploadReady published.
\* An outcome that is not known is treated as "abort".  Reverting an upload a
\* second time fails, and Cleanup then returns before it removes the session.
HandleFinished(u, o) ==
    LET e == PostprocessingFinished(u, o)
    IN  /\ bus[e] > 0
        /\ \/ /\ ~NodeExists(u)
              /\ session' = [session EXCEPT ![u] = IF @ = "none" THEN "none" ELSE "gone"]
              /\ bus' = Taken(e)
              /\ UNCHANGED <<file, faults>>
           \/ /\ NodeExists(u)
              /\ o \notin {"continue", "delete"}
              /\ session' = [session EXCEPT ![u] = "kept"]
              /\ file' = [file EXCEPT ![u] = Reverted(u)]
              /\ PublishReady(Taken(e), u, "failed")
           \/ /\ NodeExists(u)
              /\ o = "delete"
              /\ session' = [session EXCEPT ![u] = IF file[u] = "reverted" THEN "kept" ELSE "gone"]
              /\ file' = [file EXCEPT ![u] = Reverted(u)]
              /\ PublishReady(Taken(e), u, "failed")
           \/ /\ NodeExists(u)
              /\ o = "continue"
              /\ session' = [session EXCEPT ![u] = "gone"]
              /\ file' = [file EXCEPT ![u] =
                            IF @ = "processing" THEN "accessible" ELSE "version"]
              /\ PublishReady(Taken(e), u, "ok")
        /\ UNCHANGED <<handover, ppsVars, passed, lost, admin>>

\* Finalize fails: the session is kept and the node stays marked.
FinalizeFails(u) ==
    LET e == PostprocessingFinished(u, "continue")
    IN  /\ bus[e] > 0
        /\ NodeExists(u)
        /\ Fault
        /\ session' = [session EXCEPT ![u] = "kept"]
        /\ bus' = Publish(Taken(e), UploadReady(u, "failed"))
        /\ UNCHANGED <<file, handover, ppsVars, passed, lost, admin>>

\* The storage provider, too, acknowledges before it handles.
ProviderDies(u, o) ==
    /\ bus[PostprocessingFinished(u, o)] > 0
    /\ Fault
    /\ bus' = Taken(PostprocessingFinished(u, o))
    /\ lost' = lost \cup {u}
    /\ UNCHANGED <<ppsVars, spVars, passed, admin>>

HandleRestart(u) ==
    LET e == RestartPostprocessing(u)
    IN  /\ bus[e] > 0
        /\ bus' = IF session[u] \in {"open", "kept"}
                  THEN Publish(Taken(e), BytesReceived(u)) ELSE Taken(e)
        /\ UNCHANGED <<ppsVars, spVars, histVars>>

-----------------------------------------------------------------------------
(* opencloud postprocessing resume [--restart]                             *)

Command ==
    /\ admin < MaxAdmin
    /\ admin' = admin + 1
    /\ \/ \E u \in Uploads : bus' = Publish(bus, ResumePostprocessing(u, "-"))
       \/ \E s \in CurrentSteps : bus' = Publish(bus, ResumePostprocessing("-", s))
       \/ \E u \in Uploads : bus' = Publish(bus, RestartPostprocessing(u))
    /\ UNCHANGED <<ppsVars, spVars, passed, lost, faults>>

-----------------------------------------------------------------------------
Handle(w) ==
    \/ \E u \in Uploads :
         \/ HandleBytesReceived(w, u)
         \/ \E s \in StepSet, o \in Outcomes : HandleStepFinished(w, u, s, o)
         \/ HandleStartDelay(w, u)
         \/ \E f \in {"ok", "failed"} : HandleUploadReady(w, u, f)
    \/ \E e \in Event : HandleUnknownUpload(w, e)
    \/ \E e \in Event : HandleResume(w, e)

Continue(w) ==
    \/ \E u \in Uploads : ResumePP(w, u)
    \/ DeleteRecord(w)
    \/ StoreRecord(w)
    \/ PublishNext(w)
    \/ PublishStopped(w)
    \/ Ack(w)
    \/ Leave(w)

WorkerFault(w) ==
    \/ StoreFails(w)
    \/ PublishAttemptFails(w)
    \/ PublishFatal(w)
    \/ MarkFatal(w)
    \/ Redeliver(w)

Provider(u) ==
    \/ \E o \in Outcomes : HandleFinished(u, o)
    \/ HandleRestart(u)

Next ==
    \/ \E w \in Workers : Handle(w) \/ Continue(w) \/ WorkerFault(w)
    \/ \E t \in Timer : TimerFires(t)
    \/ Crash \/ Close \/ Exit
    \/ \E u \in Uploads, s \in StepSet, o \in Outcomes : RunStep(u, s, o)
    \/ \E u \in Uploads, s \in StepSet : StepServiceDies(u, s)
    \/ \E u \in Uploads : FinishUpload(u) \/ PublishBytesReceived(u) \/ FinishUploadFails(u)
    \/ \E u \in Uploads : Provider(u) \/ FinalizeFails(u)
    \/ \E u \in Uploads, o \in Outcomes : ProviderDies(u, o)
    \/ Command

Spec == Init /\ [][Next]_vars

(* Goroutines are scheduled, the bus delivers, sleeps end, the step         *)
(* services and the storage provider handle what they are sent, and a call  *)
(* that has marked a node goes on.  Nothing says that bytes arrive or that  *)
(* the administrator does anything, and no fault is fair.                   *)
Fairness ==
    /\ \A w \in Workers : WF_vars(Handle(w)) /\ WF_vars(Continue(w))
    /\ \A t \in Timer : WF_vars(TimerFires(t))
    /\ \A u \in Uploads, s \in StepSet : WF_vars(\E o \in Outcomes : RunStep(u, s, o))
    /\ \A u \in Uploads : WF_vars(Provider(u)) /\ WF_vars(PublishBytesReceived(u))
    /\ WF_vars(Exit)

FairSpec == Spec /\ Fairness

-----------------------------------------------------------------------------
(* Properties.                                                             *)

WorkerState ==
    [pc : {"idle", "store", "mark", "delete", "publish", "ack", "resume", "left"},
     ev : Event \cup {NoEvent}, pp : PP \cup {NoPP}, next : Event \cup {NoEvent},
     ids : SUBSET Uploads, attempt : Nat, held : BOOLEAN]

\* The type invariant.  Beyond the shapes of the variables: every record says
\* how its steps ended once they have ended, so CurrentStep never publishes an
\* empty outcome, and no event count drops below zero.
TypeOK ==
    /\ store \in [Uploads -> PP \cup {NoPP}]
    /\ \A u \in Uploads : store[u] # NoPP => ValidPP(store[u])
    /\ bus \in [Event -> Nat]
    /\ worker \in [Workers -> WorkerState]
    /\ \A w \in Workers : worker[w].pp # NoPP => ValidPP(worker[w].pp)
    /\ timers \in [Timer -> Nat]
    /\ stopped \in BOOLEAN
    /\ session \in [Uploads -> {"none", "open", "kept", "gone"}]
    /\ file \in [Uploads -> {"none", "processing", "accessible", "reverted", "purged", "version"}]
    /\ handover \subseteq Uploads
    /\ passed \in [Uploads -> SUBSET StepSet]
    /\ lost \subseteq Uploads
    /\ faults \in Nat
    /\ admin \in Nat

\* The steps that check the bytes.  The delay step only takes time.
Checks == StepSet \ {"delay"}

\* A file becomes readable, as itself or as a version, only after every
\* configured check has accepted the bytes: next() walks the steps by name and
\* resume starts from the stored step, whatever was redelivered, retried,
\* resumed, restarted or overwritten in between.
AllStepsPassed ==
    \A u \in Uploads : file[u] \in {"accessible", "version"} => Checks \subseteq passed[u]

\* The events that move the postprocessing of u on when they are handled.
Driving(u) ==
         {BytesReceived(u)}
    \cup {StartPostprocessingStep(u, s) : s \in StepSet}
    \cup {PostprocessingStepFinished(u, s, o) : s \in StepSet, o \in Outcomes}
    \cup {PostprocessingFinished(u, o) : o \in Outcomes}

\* w will publish what follows from e and, should it fail, the bus delivers e
\* again.
Holds(w, e) ==
    /\ worker[w].pc \in {"store", "publish"}
    /\ worker[w].held
    /\ worker[w].ev = e
    /\ worker[w].next \in Delayed

\* Something is on its way that moves u on.
Pending(u) ==
    \E e \in Driving(u) :
        \/ bus[e] > 0
        \/ \E w \in Workers : Holds(w, e)
        \/ \E t \in Timer : timers[t] > 0 /\ t.ev = e

\* An upload the storage provider waits for is never forgotten: as long as its
\* session is open, some event, worker or timer will move it on, or the call
\* that opened it has still to publish its start.  Excepted are the losses that
\* the code logs, or reports to the client, and goes on from: a FinishUpload
\* that fails or dies between marking the node and publishing BytesReceived, a
\* timer that dies with the process or cannot publish, a record that cannot be
\* read, a step service or a storage provider that dies with an event in its
\* hands.  No other fault costs an upload its postprocessing: not a record
\* that cannot be written, not a worker that cannot publish the next event, not
\* a crash between the two, a redelivery or an outdated record written back.
NoUploadForgotten ==
    \A u \in Uploads : session[u] = "open" /\ u \notin lost => Pending(u) \/ u \in handover

Lifecycle == INSTANCE UploadLifecycle
                WITH content <- file,       \* what readers see of the node
                     accepted <- passed

\* The service and the storage provider together implement UploadLifecycle.
LifecycleSpec == Lifecycle!Spec

\* Every upload that was received is decided on, unless its pending work was
\* given up in one of the ways NoUploadForgotten names.  A step service may ask
\* for a retry every time it is asked: it is NextStep that ends the retries,
\* although a second worker may write back a record with fewer failures.
EveryUploadDecided ==
    \A u \in Uploads : session[u] = "open" ~> (session[u] # "open" \/ u \in lost)

=============================================================================
