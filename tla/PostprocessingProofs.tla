------------------------ MODULE PostprocessingProofs ------------------------
(***************************************************************************)
(* Proofs about PostprocessingService, for every set of uploads, every     *)
(* list of steps, every number of workers and every bound.                 *)
(***************************************************************************)
EXTENDS PostprocessingInvariants, FiniteSetTheorems, TLAPS

-----------------------------------------------------------------------------
(* The record operations keep records valid and return events of the bus.  *)

\* The events that step() and finished() return are events a goroutine may
\* publish after a sleep, and so events of the bus.
LEMMA DelayedEvents ==
    ASSUME NEW u \in Uploads
    PROVE  /\ \A s \in CurrentSteps : StartPostprocessingStep(u, s) \in Delayed
           /\ \A o \in Outcomes : PostprocessingFinished(u, o) \in Delayed
BY DEF Delayed

\* Every event a handler names is an event of the bus.
LEMMA BusEvents ==
    ASSUME NEW u \in Uploads
    PROVE  /\ BytesReceived(u) \in Event
           /\ \A s \in CurrentSteps : StartPostprocessingStep(u, s) \in Event
           /\ \A o \in Outcomes : PostprocessingFinished(u, o) \in Event
           /\ \A s \in StepSet, o \in Outcomes : PostprocessingStepFinished(u, s, o) \in Event
           /\ PostprocessingRetry(u) \in Event
           /\ \A f \in {"ok", "failed"} : UploadReady(u, f) \in Event
BY DEF Delayed, Event

\* step() keeps a record valid.
LEMMA StepValid ==
    ASSUME NEW pp \in PP, NEW u \in Uploads, NEW s \in StepSet
    PROVE  /\ ValidPP(step(pp, u, s).pp)
           /\ step(pp, u, s).next \in Delayed
BY StepsAssumption, DelayedEvents DEF step, ValidPP, PP, CurrentSteps

\* finished() keeps a record valid.
LEMMA FinishedValid ==
    ASSUME NEW pp \in PP, NEW u \in Uploads, NEW o \in Outcomes
    PROVE  /\ ValidPP(finished(pp, u, o).pp)
           /\ finished(pp, u, o).next \in Delayed
BY DelayedEvents DEF finished, ValidPP, PP, CurrentSteps

\* next() keeps a record valid.
LEMMA NextValid ==
    ASSUME NEW pp \in PP, NEW u \in Uploads, NEW s
    PROVE  /\ ValidPP(next(pp, u, s).pp)
           /\ next(pp, u, s).next \in Delayed
<1> DEFINE Has(i) == Steps[i] = s /\ i + 1 <= Len(Steps)
           k == CHOOSE i \in 1 .. Len(Steps) : Has(i)
<1>1. CASE \E i \in 1 .. Len(Steps) : Has(i)
  <2>1. k \in 1 .. Len(Steps) /\ Has(k)
    BY <1>1
  <2>3. next(pp, u, s) = step(pp, u, Steps[1 + k])
    BY <1>1 DEF next
  <2> HIDE DEF k
  <2>2. Steps[1 + k] \in StepSet
    <3>1. Len(Steps) \in Nat
      BY StepsAssumption
    <3>2. 1 + k \in 1 .. Len(Steps)
      BY <2>1, <3>1
    <3> QED
      BY <3>2 DEF StepSet
  <2> QED
    BY <2>2, <2>3, StepValid
<1>2. CASE ~ \E i \in 1 .. Len(Steps) : Has(i)
  <2>1. next(pp, u, s) = finished(pp, u, "continue")
    BY <1>2 DEF next
  <2> QED
    BY <2>1, FinishedValid DEF Outcomes
<1> QED
  BY <1>1, <1>2

\* Init() turns the fresh record into a valid one.
LEMMA InitValid ==
    ASSUME NEW u \in Uploads
    PROVE  /\ ValidPP(InitPP(New, u).pp)
           /\ InitPP(New, u).next \in Delayed
<1>1. New \in PP
  BY DEF New, PP, CurrentSteps
<1>2. CASE Len(Steps) = 0
  BY <1>1, <1>2, FinishedValid DEF InitPP, Outcomes
<1>3. CASE Len(Steps) # 0
  <2>1. Steps[1] \in StepSet
    BY <1>3, StepsAssumption DEF StepSet
  <2> QED
    BY <1>1, <1>3, <2>1, StepValid DEF InitPP
<1> QED
  BY <1>2, <1>3

\* NextStep() keeps a record valid.
LEMMA NextStepValid ==
    ASSUME NEW pp \in PP, ValidPP(pp), NEW u \in Uploads, NEW s \in StepSet, NEW o \in Outcomes
    PROVE  /\ ValidPP(NextStep(pp, u, s, o).pp)
           /\ NextStep(pp, u, s, o).next \in Event
<1> DEFINE failed == [pp EXCEPT !.failures = @ + 1]
<1>1. failed \in PP /\ ValidPP(failed)
  BY DEF PP, ValidPP
<1>2. Delayed \subseteq Event
  BY DEF Event
<1>3. CASE o = "continue"
  BY <1>2, <1>3, NextValid DEF NextStep
<1>4. CASE o = "retry" /\ failed.failures > MaxRetries
  <2>1. NextStep(pp, u, s, o) = finished(failed, u, "abort")
    BY <1>4 DEF NextStep
  <2> QED
    BY <1>1, <1>2, <2>1, FinishedValid DEF Outcomes
<1>5. CASE o = "retry" /\ ~(failed.failures > MaxRetries)
  <2>2. NextStep(pp, u, s, o) = retry(failed, u)
    BY <1>5 DEF NextStep
  <2>3. ValidPP(retry(failed, u).pp)
    BY <1>1 DEF retry, ValidPP, PP, Outcomes
  <2>4. retry(failed, u).next \in Event
    BY BusEvents DEF retry
  <2> QED
    BY <2>2, <2>3, <2>4
<1>6. CASE o # "continue" /\ o # "retry"
  <2>1. NextStep(pp, u, s, o) = finished(pp, u, o)
    BY <1>6 DEF NextStep
  <2> QED
    BY <1>2, <2>1, FinishedValid
<1> QED
  BY <1>3, <1>4, <1>5, <1>6

\* CurrentStep() publishes a proper event for a valid record.
LEMMA CurrentStepValid ==
    ASSUME NEW pp \in PP, ValidPP(pp), NEW u \in Uploads
    PROVE  CurrentStep(pp, u).next \in Delayed
BY DelayedEvents DEF CurrentStep, finished, step, ValidPP, PP, CurrentSteps

-----------------------------------------------------------------------------
(* Type correctness.                                                       *)

\* Counting up or down a copy of an event that is there keeps the bus a bus.
LEMMA BusType ==
    ASSUME NEW b \in [Event -> Nat], NEW e
    PROVE  Publish(b, e) \in [Event -> Nat]
<1>1. CASE e \in Event
  <2>1. [b EXCEPT ![e] = b[e] + 1] \in [Event -> Nat]
    BY <1>1
  <2> QED
    BY <2>1 DEF Publish
<1>2. CASE e \notin Event
  <2>1. [b EXCEPT ![e] = b[e] + 1] = b
    BY <1>2
  <2> QED
    BY <2>1 DEF Publish
<1> QED
  BY <1>1, <1>2

\* Starting one more goroutine keeps the timers timers.
LEMMA TimersType ==
    ASSUME timers \in [Timer -> Nat], NEW t
    PROVE  [timers EXCEPT ![t] = @ + 1] \in [Timer -> Nat]
<1>1. CASE t \in Timer
  BY <1>1
<1>2. CASE t \notin Timer
  <2>1. [timers EXCEPT ![t] = timers[t] + 1] = timers
    BY <1>2
  <2> QED
    BY <2>1
<1> QED
  BY <1>1, <1>2

\* Taking a copy that is there keeps the bus a bus.
LEMMA TakenType ==
    ASSUME bus \in [Event -> Nat], NEW e \in Event, bus[e] > 0
    PROVE  Taken(e) \in [Event -> Nat]
BY DEF Taken

\* An idle worker and one that has just taken an event are proper workers.
LEMMA WorkerType ==
    /\ Idle \in WorkerState /\ Released \in WorkerState /\ Released.pp = NoPP
    /\ \A pc \in {"store", "mark", "delete", "ack", "resume"}, e \in Event,
          pp \in PP \cup {NoPP}, n \in Event \cup {NoEvent} :
            Busy(pc, e, pp, n) \in WorkerState
BY DEF Idle, Released, Busy, WorkerState

\* A worker stays a proper worker when its place, its uploads to resume, its
\* attempts or its hold on the event change.
LEMMA WorkerFieldType ==
    ASSUME NEW r \in WorkerState
    PROVE  /\ [r EXCEPT !.pc = "store"] \in WorkerState
           /\ [r EXCEPT !.pc = "publish", !.pp = NoPP] \in WorkerState
           /\ \A i \in SUBSET Uploads : [r EXCEPT !.ids = i] \in WorkerState
           /\ [r EXCEPT !.attempt = @ + 1] \in WorkerState
           /\ [r EXCEPT !.held = FALSE] \in WorkerState
<1>1. [r EXCEPT !.pc = "store"] \in WorkerState
  BY DEF WorkerState
<1>2. [r EXCEPT !.pc = "publish", !.pp = NoPP] \in WorkerState
  BY DEF WorkerState
<1>3. \A i \in SUBSET Uploads : [r EXCEPT !.ids = i] \in WorkerState
  BY DEF WorkerState
<1>4. [r EXCEPT !.attempt = @ + 1] \in WorkerState
  BY DEF WorkerState
<1>5. [r EXCEPT !.held = FALSE] \in WorkerState
  BY DEF WorkerState
<1> QED
  BY <1>1, <1>2, <1>3, <1>4, <1>5

\* The end of the process puts events back and forgets workers and timers.
LEMMA RestartedType ==
    ASSUME TypeOK, NEW b \in [Event -> Nat], NEW ws \in SUBSET Workers,
           faults' \in Nat, Restarted(b, ws)
    PROVE  TypeOK'
<1> USE DEF Restarted, TypeOK
<1>1. bus' \in [Event -> Nat]
  <2> DEFINE H(e) == {w \in ws : worker[w].held /\ worker[w].ev = e}
  <2>1. \A e \in Event : Cardinality(H(e)) \in Nat
    <3> TAKE e \in Event
    <3>1. IsFiniteSet(H(e))
      BY ServiceAssumption, FS_Subset
    <3> HIDE DEF H
    <3> QED
      BY <3>1, FS_CardinalityType
  <2>2. bus' = [e \in Event |-> b[e] + Cardinality(H(e))]
    OBVIOUS
  <2> HIDE DEF H
  <2> QED
    BY <2>1, <2>2
<1>2. worker' \in [Workers -> WorkerState] /\ \A w \in Workers : worker'[w].pp = NoPP
  BY WorkerType DEF Idle
<1>3. lost' \subseteq Uploads /\ timers' \in [Timer -> Nat]
  OBVIOUS
<1> QED
  BY <1>1, <1>2, <1>3 DEF spVars

\* Every step of the system keeps the types.
LEMMA TypeStep == TypeOK /\ [Next]_vars => TypeOK'
<1> SUFFICES ASSUME TypeOK, [Next]_vars
             PROVE  TypeOK'
  OBVIOUS
<1> USE DEF TypeOK
<1>0. Delayed \subseteq Event /\ "retry" \in Outcomes
  BY DEF Event, Outcomes
<1>1. ASSUME NEW w \in Workers, NEW u \in Uploads, HandleBytesReceived(w, u)
      PROVE  TypeOK'
  <2>1. BytesReceived(u) \in Event
    BY BusEvents
  <2>2. ValidPP(InitPP(New, u).pp) /\ InitPP(New, u).pp \in PP /\ InitPP(New, u).next \in Event
    BY <1>0, InitValid DEF ValidPP
  <2>3. Busy("store", BytesReceived(u), InitPP(New, u).pp, InitPP(New, u).next) \in WorkerState
    BY <2>1, <2>2, WorkerType
  <2>4. bus' \in [Event -> Nat]
    BY <1>1, <2>1, TakenType DEF HandleBytesReceived, CanTake
  <2> QED
    BY <1>1, <2>2, <2>3, <2>4 DEF HandleBytesReceived, Busy, spVars, histVars
<1>2. ASSUME NEW w \in Workers, NEW u \in Uploads, NEW s \in StepSet, NEW o \in Outcomes,
             HandleStepFinished(w, u, s, o)
      PROVE  TypeOK'
  <2> DEFINE e == PostprocessingStepFinished(u, s, o)
             r == NextStep(store[u], u, s, o)
  <2>1. e \in Event
    BY BusEvents
  <2>2. ValidPP(r.pp) /\ r.pp \in PP /\ r.next \in Event
    BY <1>2, NextStepValid DEF HandleStepFinished, ValidPP
  <2>3. Busy("store", e, r.pp, r.next) \in WorkerState
    BY <2>1, <2>2, WorkerType
  <2>4. bus' \in [Event -> Nat]
    BY <1>2, <2>1, TakenType DEF HandleStepFinished, CanTake
  <2>5. timers' \in [Timer -> Nat]
    BY <1>2, TimersType DEF HandleStepFinished
  <2>6. worker' = [worker EXCEPT ![w] = Busy("store", e, r.pp, r.next)]
    BY <1>2 DEF HandleStepFinished
  <2>7. UNCHANGED <<store, stopped, spVars, histVars>>
    BY <1>2 DEF HandleStepFinished
  <2>8. Busy("store", e, r.pp, r.next).pp = r.pp
    BY DEF Busy
  <2> HIDE DEF e, r
  <2> QED
    BY <2>2, <2>3, <2>4, <2>5, <2>6, <2>7, <2>8 DEF spVars, histVars
<1>3. ASSUME NEW w \in Workers, NEW u \in Uploads, HandleStartDelay(w, u)
      PROVE  TypeOK'
  <2> DEFINE e == StartPostprocessingStep(u, "delay")
             r == next(store[u], u, "delay")
  <2>1. e \in Event
    BY <1>3, BusEvents DEF HandleStartDelay, CurrentSteps
  <2>2. ValidPP(r.pp) /\ r.pp \in PP
    BY <1>3, NextValid DEF HandleStartDelay, ValidPP
  <2>3. Busy("store", e, r.pp, NoEvent) \in WorkerState
    BY <2>1, <2>2, WorkerType
  <2>4. bus' \in [Event -> Nat]
    BY <1>3, <2>1, TakenType DEF HandleStartDelay, CanTake
  <2>5. timers' \in [Timer -> Nat]
    BY <1>3, TimersType DEF HandleStartDelay
  <2>6. worker' = [worker EXCEPT ![w] = Busy("store", e, r.pp, NoEvent)]
    BY <1>3 DEF HandleStartDelay
  <2>7. UNCHANGED <<store, stopped, spVars, histVars>>
    BY <1>3 DEF HandleStartDelay
  <2>8. Busy("store", e, r.pp, NoEvent).pp = r.pp
    BY DEF Busy
  <2> HIDE DEF e, r
  <2> QED
    BY <2>2, <2>3, <2>4, <2>5, <2>6, <2>7, <2>8 DEF spVars, histVars
<1>4. ASSUME NEW w \in Workers, NEW u \in Uploads, NEW f \in {"ok", "failed"},
             HandleUploadReady(w, u, f)
      PROVE  TypeOK'
  <2> DEFINE e == UploadReady(u, f)
             p == IF f = "failed" THEN [store[u] EXCEPT !.finished = TRUE] ELSE store[u]
             pc == IF f = "failed" THEN "mark" ELSE "delete"
  <2>1. e \in Event
    BY BusEvents
  <2>2. ValidPP(p) /\ p \in PP
    BY <1>4 DEF HandleUploadReady, ValidPP, PP
  <2>3. Busy(pc, e, p, NoEvent) \in WorkerState
    BY <2>1, <2>2, WorkerType
  <2>4. bus' \in [Event -> Nat]
    BY <1>4, <2>1, TakenType DEF HandleUploadReady, CanTake
  <2>6. worker' = [worker EXCEPT ![w] = Busy(pc, e, p, NoEvent)]
    BY <1>4 DEF HandleUploadReady
  <2>7. UNCHANGED <<store, timers, stopped, spVars, histVars>>
    BY <1>4 DEF HandleUploadReady
  <2>8. Busy(pc, e, p, NoEvent).pp = p
    BY DEF Busy
  <2> HIDE DEF e, p, pc
  <2> QED
    BY <2>2, <2>3, <2>4, <2>6, <2>7, <2>8 DEF spVars, histVars
<1>5. ASSUME NEW w \in Workers, NEW e \in Event, HandleUnknownUpload(w, e)
      PROVE  TypeOK'
  <2>1. Busy("ack", e, NoPP, NoEvent) \in WorkerState /\ Busy("ack", e, NoPP, NoEvent).pp = NoPP
    BY WorkerType DEF Busy
  <2>2. bus' \in [Event -> Nat]
    BY <1>5, TakenType DEF HandleUnknownUpload, CanTake
  <2>3. e.id \in Uploads
    BY <1>5 DEF HandleUnknownUpload, Event, Delayed, BytesReceived, StartPostprocessingStep,
       PostprocessingStepFinished, PostprocessingRetry, PostprocessingFinished, UploadReady,
       ResumePostprocessing, RestartPostprocessing
  <2>4. lost' \subseteq Uploads /\ faults' \in Nat
    BY <1>5, <2>3 DEF HandleUnknownUpload, Fault
  <2> QED
    BY <1>5, <2>1, <2>2, <2>4 DEF HandleUnknownUpload, spVars
<1>6. ASSUME NEW w \in Workers, NEW e \in Event, HandleResume(w, e)
      PROVE  TypeOK'
  <2> DEFINE ids == IF e.step = "-" THEN {e.id}
                    ELSE {u \in Uploads : store[u] # NoPP /\ store[u].currentStep = e.step}
             b == [Busy("resume", e, NoPP, NoEvent) EXCEPT !.ids = ids]
  <2>1. bus' \in [Event -> Nat]
    BY <1>6, TakenType DEF HandleResume, CanTake
  <2>2. e.step = "-" => e.id \in Uploads
    BY <1>6, StepsAssumption DEF HandleResume, Event, Delayed, BytesReceived, StartPostprocessingStep,
       PostprocessingStepFinished, PostprocessingRetry, PostprocessingFinished, UploadReady,
       ResumePostprocessing, RestartPostprocessing, CurrentSteps
  <2>3. ids \in SUBSET Uploads
    BY <2>2
  <2>4. b \in WorkerState /\ b.pp = NoPP
    BY <2>3 DEF Busy, WorkerState
  <2>5. worker' = [worker EXCEPT ![w] = b]
    BY <1>6 DEF HandleResume
  <2> HIDE DEF b
  <2> QED
    BY <1>6, <2>1, <2>4, <2>5 DEF HandleResume, spVars, histVars
<1>7. ASSUME NEW w \in Workers, NEW u \in Uploads, ResumePP(w, u)
      PROVE  TypeOK'
  <2>1. bus' \in [Event -> Nat] /\ faults' \in Nat
    BY <1>7, BusType DEF ResumePP, Fault
  <2>2. worker' \in [Workers -> WorkerState]
    <3>1. worker[w].ids \ {u} \in SUBSET Uploads
      BY DEF WorkerState
    <3>2. [worker[w] EXCEPT !.ids = worker[w].ids \ {u}] \in WorkerState
      BY <3>1, WorkerFieldType
    <3> QED
      BY <1>7, <3>2 DEF ResumePP
  <2>3. \A x \in Workers : worker'[x].pp = worker[x].pp
    BY <1>7 DEF ResumePP, WorkerState
  <2> QED
    BY <1>7, <2>1, <2>2, <2>3 DEF ResumePP, spVars
<1>8. ASSUME NEW w \in Workers, DeleteRecord(w)
      PROVE  TypeOK'
  <2>1. Acking(w) \in WorkerState /\ Acking(w).pp = NoPP
    BY DEF Acking, Idle, WorkerState
  <2>2. worker' \in [Workers -> WorkerState]
    <3>1. [worker[w] EXCEPT !.pc = "store"] \in WorkerState
      BY WorkerFieldType
    <3>2. worker' = [worker EXCEPT ![w] = [worker[w] EXCEPT !.pc = "store"]]
          \/ worker' = [worker EXCEPT ![w] = Acking(w)]
      BY <1>8 DEF DeleteRecord
    <3> QED
      BY <2>1, <3>1, <3>2
  <2>3. \A x \in Workers : worker'[x].pp = worker[x].pp \/ worker'[x].pp = NoPP
    BY <1>8, <2>1 DEF DeleteRecord, WorkerState
  <2>4. faults' \in Nat
    BY <1>8 DEF DeleteRecord, Fault
  <2>5. store' \in [Uploads -> PP \cup {NoPP}]
        /\ \A u \in Uploads : store'[u] = store[u] \/ store'[u] = NoPP
    BY <1>8 DEF DeleteRecord
  <2> QED
    BY <1>8, <2>2, <2>3, <2>4, <2>5 DEF DeleteRecord, spVars
<1>9. ASSUME NEW w \in Workers, StoreRecord(w)
      PROVE  TypeOK'
  <2>1. Acking(w) \in WorkerState /\ Acking(w).pp = NoPP
    BY DEF Acking, Idle, WorkerState
  <2>2. Publishing(w) \in WorkerState /\ Publishing(w).pp = NoPP
    <3>1. worker[w] \in WorkerState
      OBVIOUS
    <3>2. Publishing(w) \in WorkerState
      BY <3>1, WorkerFieldType DEF Publishing
    <3>3. Publishing(w).pp = NoPP
      BY <3>1 DEF Publishing, WorkerState
    <3> QED
      BY <3>2, <3>3
  <2>3. worker' \in [Workers -> WorkerState]
        /\ \A x \in Workers : worker'[x].pp = worker[x].pp \/ worker'[x].pp = NoPP
    BY <1>9, <2>1, <2>2 DEF StoreRecord
  <2>4. worker[w].pp \in PP \cup {NoPP} /\ (worker[w].pp # NoPP => ValidPP(worker[w].pp))
    BY DEF WorkerState
  <2>5. store' \in [Uploads -> PP \cup {NoPP}]
        /\ \A u \in Uploads : store'[u] = store[u] \/ store'[u] = worker[w].pp
    BY <1>9, <2>4 DEF StoreRecord
  <2> QED
    BY <1>9, <2>3, <2>4, <2>5 DEF StoreRecord, spVars, histVars
<1>10. ASSUME NEW w \in Workers, StoreFails(w) \/ PublishStopped(w)
       PROVE  TypeOK'
  <2>1. bus' \in [Event -> Nat]
    BY <1>10, BusType DEF StoreFails, PublishStopped, Returned
  <2>2. worker' = [worker EXCEPT ![w] = Released] /\ faults' \in Nat
    BY <1>10 DEF StoreFails, PublishStopped, Fault, histVars
  <2> QED
    BY <1>10, <2>1, <2>2, WorkerType DEF StoreFails, PublishStopped, spVars, histVars
<1>11. ASSUME NEW w \in Workers, PublishNext(w)
       PROVE  TypeOK'
  <2>1. Acking(w) \in WorkerState /\ Acking(w).pp = NoPP
    BY DEF Acking, Idle, WorkerState
  <2>2. bus' \in [Event -> Nat]
    BY <1>11, BusType DEF PublishNext
  <2> QED
    BY <1>11, <2>1, <2>2 DEF PublishNext, spVars, histVars
<1>12. ASSUME NEW w \in Workers, PublishAttemptFails(w)
       PROVE  TypeOK'
  <2>1. bus' \in [Event -> Nat] /\ faults' \in Nat
    BY <1>12, BusType DEF PublishAttemptFails, Fault
  <2>2. worker' \in [Workers -> WorkerState]
    BY <1>12, WorkerFieldType DEF PublishAttemptFails
  <2>3. \A x \in Workers : worker'[x].pp = worker[x].pp
    BY <1>12 DEF PublishAttemptFails, WorkerState
  <2> QED
    BY <1>12, <2>1, <2>2, <2>3 DEF PublishAttemptFails, spVars
<1>13. ASSUME NEW w \in Workers, PublishFatal(w)
       PROVE  TypeOK'
  <2>1. faults' \in Nat
    BY <1>13 DEF PublishFatal, Fault
  <2>2. PICK b \in {bus, Publish(bus, worker[w].next)} :
          IF stopped
          THEN /\ bus' = IF worker[w].held THEN Publish(b, worker[w].ev) ELSE b
               /\ worker' = [worker EXCEPT ![w] = Released]
               /\ UNCHANGED <<store, timers, stopped, spVars, passed, lost, admin>>
          ELSE Restarted(b, Workers)
    BY <1>13 DEF PublishFatal
  <2>3. b \in [Event -> Nat]
    BY BusType
  <2>4. CASE stopped
    <3>1. bus' \in [Event -> Nat]
      BY <2>2, <2>3, <2>4, BusType
    <3> QED
      BY <2>1, <2>2, <2>4, <3>1, WorkerType DEF spVars
  <2>5. CASE ~stopped
    BY <2>1, <2>2, <2>3, <2>5, RestartedType
  <2> QED
    BY <2>4, <2>5
<1>14. ASSUME NEW w \in Workers, MarkFatal(w)
       PROVE  TypeOK'
  BY <1>14, RestartedType DEF MarkFatal, Fault
<1>15. ASSUME Crash \/ Exit
       PROVE  TypeOK'
  BY <1>15, RestartedType DEF Crash, Exit, Fault
<1>16. ASSUME NEW w \in Workers, Ack(w) \/ Leave(w)
       PROVE  TypeOK'
  BY <1>16, WorkerType DEF Ack, Leave, spVars, histVars
<1>17. ASSUME NEW w \in Workers, Redeliver(w)
       PROVE  TypeOK'
  <2>1. bus' \in [Event -> Nat] /\ faults' \in Nat
    BY <1>17, BusType DEF Redeliver, Fault
  <2>2. worker' \in [Workers -> WorkerState]
    BY <1>17, WorkerFieldType DEF Redeliver
  <2>3. \A x \in Workers : worker'[x].pp = worker[x].pp
    BY <1>17 DEF Redeliver, WorkerState
  <2> QED
    BY <1>17, <2>1, <2>2, <2>3 DEF Redeliver, spVars
<1>18. ASSUME NEW t \in Timer, TimerFires(t)
       PROVE  TypeOK'
  <2>1. t.ev.id \in Uploads
    BY DEF Timer, Delayed, StartPostprocessingStep, PostprocessingFinished
  <2>2. bus' \in [Event -> Nat] /\ faults' \in Nat /\ lost' \subseteq Uploads
    BY <1>18, <2>1, BusType DEF TimerFires, Fault
  <2>3. timers' \in [Timer -> Nat]
    BY <1>18 DEF TimerFires
  <2> QED
    BY <1>18, <2>2, <2>3 DEF TimerFires, spVars
<1>19. ASSUME Close
       PROVE  TypeOK'
  BY <1>19 DEF Close, Fault, spVars
<1>20. ASSUME NEW u \in Uploads, NEW s \in StepSet, NEW o \in Outcomes, RunStep(u, s, o)
       PROVE  TypeOK'
  <2>1. bus' \in [Event -> Nat]
    BY <1>20, BusEvents, TakenType, BusType DEF RunStep, CurrentSteps
  <2>2. passed' \in [Uploads -> SUBSET StepSet]
    BY <1>20 DEF RunStep
  <2> QED
    BY <1>20, <2>1, <2>2 DEF RunStep, ppsVars, spVars
<1>21. ASSUME NEW u \in Uploads, NEW s \in StepSet, StepServiceDies(u, s)
       PROVE  TypeOK'
  <2>1. bus' \in [Event -> Nat] /\ faults' \in Nat /\ lost' \subseteq Uploads
    BY <1>21, BusEvents, TakenType DEF StepServiceDies, CurrentSteps, Fault
  <2> QED
    BY <1>21, <2>1 DEF StepServiceDies, ppsVars, spVars
<1>22. ASSUME NEW u \in Uploads, FinishUpload(u)
       PROVE  TypeOK'
  BY <1>22 DEF FinishUpload, ppsVars, histVars
<1>29. ASSUME NEW u \in Uploads, PublishBytesReceived(u)
       PROVE  TypeOK'
  <2>1. bus' \in [Event -> Nat]
    BY <1>29, BusType DEF PublishBytesReceived
  <2> QED
    BY <1>29, <2>1 DEF PublishBytesReceived, ppsVars, histVars
<1>30. ASSUME NEW u \in Uploads, FinishUploadFails(u)
       PROVE  TypeOK'
  <2>1. bus' \in [Event -> Nat] /\ faults' \in Nat /\ lost' \subseteq Uploads
    BY <1>30, BusType DEF FinishUploadFails, Fault
  <2> QED
    BY <1>30, <2>1 DEF FinishUploadFails, ppsVars
<1>23. ASSUME NEW u \in Uploads, NEW o \in Outcomes, HandleFinished(u, o)
       PROVE  TypeOK'
  <2>1. Taken(PostprocessingFinished(u, o)) \in [Event -> Nat]
    BY <1>23, BusEvents, TakenType DEF HandleFinished
  <2>2. bus' \in [Event -> Nat] /\ faults' \in Nat
    BY <1>23, <2>1, BusType DEF HandleFinished, PublishReady, Fault
  <2>3. /\ session' \in [Uploads -> {"none", "open", "kept", "gone"}]
        /\ file' \in [Uploads -> {"none", "processing", "accessible", "reverted", "purged", "version"}]
    BY <1>23 DEF HandleFinished, Reverted
  <2> QED
    BY <1>23, <2>2, <2>3 DEF HandleFinished, ppsVars
<1>24. ASSUME NEW u \in Uploads, FinalizeFails(u)
       PROVE  TypeOK'
  <2>1. Taken(PostprocessingFinished(u, "continue")) \in [Event -> Nat]
    BY <1>24, BusEvents, TakenType DEF FinalizeFails, Outcomes
  <2>2. bus' \in [Event -> Nat] /\ faults' \in Nat
    BY <1>24, <2>1, BusType DEF FinalizeFails, Fault
  <2> QED
    BY <1>24, <2>2 DEF FinalizeFails, ppsVars
<1>25. ASSUME NEW u \in Uploads, NEW o \in Outcomes, ProviderDies(u, o)
       PROVE  TypeOK'
  <2>1. bus' \in [Event -> Nat] /\ faults' \in Nat /\ lost' \subseteq Uploads
    BY <1>25, BusEvents, TakenType DEF ProviderDies, Fault
  <2> QED
    BY <1>25, <2>1 DEF ProviderDies, ppsVars, spVars
<1>26. ASSUME NEW u \in Uploads, HandleRestart(u)
       PROVE  TypeOK'
  <2>1. RestartPostprocessing(u) \in Event
    BY DEF Event
  <2>2. bus' \in [Event -> Nat]
    BY <1>26, <2>1, TakenType, BusType DEF HandleRestart
  <2> QED
    BY <1>26, <2>2 DEF HandleRestart, ppsVars, spVars, histVars
<1>27. ASSUME Command
       PROVE  TypeOK'
  <2>1. bus' \in [Event -> Nat] /\ admin' \in Nat
    BY <1>27, BusType DEF Command
  <2> QED
    BY <1>27, <2>1 DEF Command, ppsVars, spVars
<1>28. ASSUME UNCHANGED vars
       PROVE  TypeOK'
  BY <1>28 DEF vars
<1> QED
  BY <1>1, <1>2, <1>3, <1>4, <1>5, <1>6, <1>7, <1>8, <1>9, <1>10, <1>11, <1>12, <1>13, <1>14,
     <1>15, <1>16, <1>17, <1>18, <1>19, <1>20, <1>21, <1>22, <1>23, <1>24, <1>25, <1>26, <1>27, <1>28,
     <1>29, <1>30
     DEF Next, Handle, Continue, WorkerFault, Provider

\* Type correctness holds in every reachable state: records stay valid, event
\* and timer counts stay natural numbers.
THEOREM TypeCorrect == Spec => []TypeOK
<1>1. ASSUME Init PROVE TypeOK
  <2>1. worker \in [Workers -> WorkerState] /\ \A w \in Workers : worker[w].pp = NoPP
    BY <1>1, WorkerType DEF Init, Idle
  <2>2. bus \in [Event -> Nat] /\ timers \in [Timer -> Nat]
    BY <1>1 DEF Init
  <2>3. passed \in [Uploads -> SUBSET StepSet]
    BY <1>1 DEF Init
  <2> QED
    BY <1>1, <2>1, <2>2, <2>3 DEF Init, TypeOK
<1> QED
  BY <1>1, TypeStep, PTL DEF Spec

-----------------------------------------------------------------------------
(* A file becomes readable only after every check has accepted it.         *)

\* When the step before is done too, the step after it is reached; when the
\* last step is done, all checks have accepted the upload.
LEMMA NextJust ==
    ASSUME NEW p \in [Uploads -> SUBSET StepSet], NEW pp \in PP, NEW u \in Uploads,
           NEW s \in StepSet, Reached(p[u], s), s = "delay" \/ s \in p[u]
    PROVE  /\ JustRecord(p[u], next(pp, u, s).pp)
           /\ JustEvent(p, next(pp, u, s).next)
<1> DEFINE Has(i) == Steps[i] = s /\ i + 1 <= Len(Steps)
           k == CHOOSE i \in 1 .. Len(Steps) : Has(i)
<1>0. Len(Steps) \in Nat
  BY StepsAssumption
<1>1. CASE \E i \in 1 .. Len(Steps) : Has(i)
  <2>1. k \in 1 .. Len(Steps) /\ Has(k)
    BY <1>1
  <2>2. next(pp, u, s) = step(pp, u, Steps[1 + k])
    BY <1>1 DEF next
  <2> HIDE DEF k
  <2>3. 1 + k \in 1 .. Len(Steps)
    BY <1>0, <2>1
  <2>4. Reached(p[u], Steps[1 + k])
    <3> SUFFICES ASSUME NEW i \in 1 .. Len(Steps), NEW j \in 1 .. Len(Steps),
                        Steps[i] = Steps[1 + k], j < i, Steps[j] # "delay"
                 PROVE  Steps[j] \in p[u]
      BY DEF Reached
    <3>1. i = 1 + k
      BY <2>3, StepsAssumption
    <3>2. j < k \/ j = k
      BY <1>0, <2>1, <3>1
    <3> QED
      BY <2>1, <3>2 DEF Reached
  <2>5. Steps[1 + k] \in StepSet /\ Steps[1 + k] # "finished"
    BY <2>3, StepsAssumption DEF StepSet
  <2>6. JustRecord(p[u], step(pp, u, Steps[1 + k]).pp)
    BY <2>4, <2>5 DEF JustRecord, step, PP
  <2>7. JustEvent(p, step(pp, u, Steps[1 + k]).next)
    BY <2>4 DEF JustEvent, step, StartPostprocessingStep
  <2> QED
    BY <2>2, <2>6, <2>7
<1>2. CASE ~ \E i \in 1 .. Len(Steps) : Has(i)
  <2>1. next(pp, u, s) = finished(pp, u, "continue")
    BY <1>2 DEF next
  <2>2. PICK l \in 1 .. Len(Steps) : Steps[l] = s
    BY DEF StepSet
  <2>3. l = Len(Steps)
    BY <1>0, <1>2, <2>2
  <2>4. ASSUME NEW x \in Checks PROVE x \in p[u]
    <3>1. PICK j \in 1 .. Len(Steps) : Steps[j] = x
      BY DEF Checks, StepSet
    <3>2. j < l \/ j = l
      BY <1>0, <2>3
    <3> QED
      BY <2>2, <2>4, <3>1, <3>2 DEF Reached, Checks
  <2>5. Checks \subseteq p[u]
    BY <2>4
  <2>6. JustRecord(p[u], finished(pp, u, "continue").pp)
    BY <2>5, StepsAssumption DEF JustRecord, finished, PP
  <2>7. JustEvent(p, finished(pp, u, "continue").next)
    BY <2>5 DEF JustEvent, finished, PostprocessingFinished
  <2> QED
    BY <2>1, <2>6, <2>7
<1> QED
  BY <1>1, <1>2

\* An end needs all checks only when it is a good one.
LEMMA FinishedJust ==
    ASSUME NEW p \in [Uploads -> SUBSET StepSet], NEW pp \in PP, NEW u \in Uploads,
           NEW o \in Outcomes, o = "continue" => Checks \subseteq p[u]
    PROVE  /\ JustRecord(p[u], finished(pp, u, o).pp)
           /\ JustEvent(p, finished(pp, u, o).next)
<1>1. JustRecord(p[u], finished(pp, u, o).pp)
  BY StepsAssumption DEF JustRecord, finished, PP
<1>2. JustEvent(p, finished(pp, u, o).next)
  BY DEF JustEvent, finished, PostprocessingFinished
<1> QED
  BY <1>1, <1>2

\* The first step is reached by everybody.
LEMMA InitJust ==
    ASSUME NEW p \in [Uploads -> SUBSET StepSet], NEW u \in Uploads
    PROVE  /\ JustRecord(p[u], InitPP(New, u).pp)
           /\ JustEvent(p, InitPP(New, u).next)
<1>0. Len(Steps) \in Nat /\ New \in PP
  BY StepsAssumption DEF New, PP, CurrentSteps
<1>1. CASE Len(Steps) = 0
  <2>1. Checks = {}
    BY <1>1 DEF Checks, StepSet
  <2>2. InitPP(New, u) = finished(New, u, "continue")
    BY <1>1 DEF InitPP
  <2> QED
    BY <1>0, <2>1, <2>2, FinishedJust DEF Outcomes
<1>2. CASE Len(Steps) # 0
  <2>1. 1 \in 1 .. Len(Steps)
    BY <1>0, <1>2
  <2>2. Reached(p[u], Steps[1])
    <3> SUFFICES ASSUME NEW i \in 1 .. Len(Steps), NEW j \in 1 .. Len(Steps),
                        Steps[i] = Steps[1], j < i
                 PROVE  FALSE
      BY DEF Reached
    <3>1. i = 1
      BY <2>1, StepsAssumption
    <3> QED
      BY <1>0, <3>1
  <2>3. Steps[1] # "finished"
    BY <2>1, StepsAssumption DEF StepSet
  <2>4. InitPP(New, u) = step(New, u, Steps[1])
    BY <1>2 DEF InitPP
  <2> QED
    BY <1>0, <2>2, <2>3, <2>4 DEF JustRecord, JustEvent, step, StartPostprocessingStep, PP
<1> QED
  BY <1>1, <1>2

\* A result that was reported with good reason leads to a record and an event
\* with good reason.
LEMMA NextStepJust ==
    ASSUME NEW p \in [Uploads -> SUBSET StepSet], NEW pp \in PP, NEW u \in Uploads,
           NEW s \in StepSet, NEW o \in Outcomes,
           JustRecord(p[u], pp), JustEvent(p, PostprocessingStepFinished(u, s, o))
    PROVE  LET r == NextStep(pp, u, s, o)
           IN  /\ JustRecord(p[u], r.pp)
               /\ JustEvent(p, r.next)
               /\ JustEvent(p, StartPostprocessingStep(u, r.pp.currentStep))
<1> DEFINE r == NextStep(pp, u, s, o)
           failed == [pp EXCEPT !.failures = @ + 1]
<1>1. Reached(p[u], s) /\ (o = "continue" => s \in p[u])
  BY DEF JustEvent, PostprocessingStepFinished
<1>2. JustRecord(p[u], r.pp) /\ JustEvent(p, r.next)
  <2>1. CASE o = "continue"
    BY <1>1, <2>1, NextJust DEF NextStep
  <2>2. CASE o \notin {"continue", "retry"}
    <3>1. r = finished(pp, u, o)
      BY <2>2 DEF NextStep
    <3> QED
      BY <2>2, <3>1, FinishedJust
  <2>3. CASE o = "retry" /\ failed.failures > MaxRetries
    <3>1. r = finished(failed, u, "abort")
      BY <2>3 DEF NextStep
    <3>2. failed \in PP
      BY DEF PP
    <3> QED
      BY <3>1, <3>2, FinishedJust DEF Outcomes
  <2>4. CASE o = "retry" /\ ~(failed.failures > MaxRetries)
    <3>1. r = retry(failed, u)
      BY <2>4 DEF NextStep
    <3>2. JustRecord(p[u], retry(failed, u).pp)
      <4>1. retry(failed, u).pp.currentStep = pp.currentStep
            /\ retry(failed, u).pp.outcome = "retry"
        BY DEF retry, PP
      <4> QED
        BY <4>1 DEF JustRecord
    <3>3. JustEvent(p, retry(failed, u).next)
      BY DEF JustEvent, retry, PostprocessingRetry
    <3> QED
      BY <3>1, <3>2, <3>3
  <2> QED
    BY <2>1, <2>2, <2>3, <2>4
<1> HIDE DEF r
<1>3. JustEvent(p, StartPostprocessingStep(u, r.pp.currentStep))
  BY <1>2 DEF JustRecord, JustEvent, StartPostprocessingStep
<1> QED
  BY <1>2, <1>3 DEF r

\* Resuming a record asks for a step, or for the end, with good reason.
LEMMA CurrentStepJust ==
    ASSUME NEW p \in [Uploads -> SUBSET StepSet], NEW pp \in PP, NEW u \in Uploads,
           JustRecord(p[u], pp)
    PROVE  JustEvent(p, CurrentStep(pp, u).next)
BY DEF JustRecord, JustEvent, CurrentStep, step, finished,
       StartPostprocessingStep, PostprocessingFinished

\* Publishing an event with good reason leaves only such events on the bus.
LEMMA PublishJust ==
    ASSUME NEW p, NEW b \in [Event -> Nat], JustBus(p, b), NEW e, e \in Event => JustEvent(p, e)
    PROVE  JustBus(p, Publish(b, e))
<1>1. ASSUME NEW x \in Event, Publish(b, e)[x] > 0, x # e PROVE b[x] > 0
  BY <1>1 DEF Publish
<1> QED
  BY <1>1 DEF JustBus

\* Taking an event adds none.
LEMMA TakenJust ==
    ASSUME NEW p, bus \in [Event -> Nat], JustBus(p, bus), NEW e \in Event
    PROVE  JustBus(p, Taken(e))
<1>1. ASSUME NEW x \in Event, Taken(e)[x] > 0 PROVE bus[x] > 0
  BY <1>1 DEF Taken
<1> QED
  BY <1>1 DEF JustBus

\* What is justified stays so when more checks accept the upload.
LEMMA JustGrows ==
    ASSUME NEW p, NEW q, NEW e \in Event, \A u \in Uploads : p[u] \subseteq q[u], JustEvent(p, e)
    PROVE  JustEvent(q, e)
<1>1. e.type \in {"StartPostprocessingStep", "PostprocessingStepFinished", "PostprocessingFinished"}
        => e.id \in Uploads
  BY DEF Event, Delayed, BytesReceived, StartPostprocessingStep, PostprocessingStepFinished,
     PostprocessingRetry, PostprocessingFinished, UploadReady, ResumePostprocessing,
     RestartPostprocessing
<1> QED
  BY <1>1 DEF JustEvent, Reached

\* So does what a record says.
LEMMA RecordGrows ==
    ASSUME NEW p, NEW q, NEW pp, p \subseteq q, JustRecord(p, pp)
    PROVE  JustRecord(q, pp)
BY DEF JustRecord, Reached

\* The other events ask for nothing that needs a reason.
LEMMA OtherJust ==
    ASSUME NEW p, NEW u
    PROVE  /\ JustEvent(p, BytesReceived(u))
           /\ \A f : JustEvent(p, UploadReady(u, f))
           /\ \A s : JustEvent(p, ResumePostprocessing(u, s))
           /\ JustEvent(p, RestartPostprocessing(u))
BY DEF JustEvent, BytesReceived, UploadReady, ResumePostprocessing, RestartPostprocessing

\* A worker that has nothing to say says nothing wrong.
LEMMA IdleJust ==
    ASSUME NEW p
    PROVE  /\ JustWorker(p, Idle)
           /\ JustWorker(p, Released)
           /\ \A w \in Workers : JustWorker(p, worker[w]) => JustWorker(p, Acking(w))
<1>1. JustWorker(p, Idle)
  BY NoEventAssumption DEF JustWorker, Idle
<1>3. JustWorker(p, Released)
  BY NoEventAssumption DEF JustWorker, Idle, Released
<1>2. ASSUME NEW w \in Workers, JustWorker(p, worker[w])
      PROVE  JustWorker(p, Acking(w))
  <2>1. Acking(w).ev = worker[w].ev /\ Acking(w).next = NoEvent /\ Acking(w).pp = NoPP
    BY DEF Acking, Idle
  <2> QED
    BY <1>2, <2>1, NoEventAssumption DEF JustWorker
<1> QED
  BY <1>1, <1>2, <1>3

\* A worker that took an event with good reason and computed from it a record
\* and an event with good reason.
LEMMA BusyJust ==
    ASSUME NEW p, NEW pc, NEW e, NEW pp, NEW n, JustEvent(p, e),
           n \in Event => JustEvent(p, n),
           pp # NoPP => e.id \in Uploads /\ JustRecord(p[e.id], pp)
    PROVE  JustWorker(p, Busy(pc, e, pp, n))
BY DEF JustWorker, Busy

\* What a restart puts back on the bus was taken from it before.
LEMMA RestartedJust ==
    ASSUME TypeOK, StepOrder, NEW b \in [Event -> Nat], JustBus(passed, b),
           NEW ws \in SUBSET Workers, Restarted(b, ws)
    PROVE  StepOrder'
<1>1. ASSUME NEW e \in Event, bus'[e] > 0 PROVE JustEvent(passed, e)
  <2> DEFINE back == {w \in ws : worker[w].held /\ worker[w].ev = e}
  <2>1. bus'[e] = b[e] + Cardinality(back)
    BY <1>1 DEF Restarted
  <2>2. b[e] > 0 \/ back # {}
    <3>1. CASE back = {}
      <4>1. Cardinality(back) = 0
        BY <3>1, FS_EmptySet
      <4> HIDE DEF back
      <4> QED
        BY <1>1, <2>1, <4>1
    <3> QED
      BY <3>1
  <2>3. CASE b[e] > 0
    BY <2>3 DEF JustBus
  <2>4. CASE back # {}
    BY <2>4 DEF StepOrder, JustWorker
  <2> QED
    BY <2>2, <2>3, <2>4
<1>2. passed' = passed /\ store' = store /\ file' = file
  BY DEF Restarted, spVars
<1>3. JustBus(passed', bus')
  BY <1>1, <1>2 DEF JustBus
<1>4. \A t \in Timer : timers'[t] > 0 => JustEvent(passed', t.ev)
  BY DEF Restarted
<1>5. \A w \in Workers : JustWorker(passed', worker'[w])
  BY IdleJust DEF Restarted
<1> QED
  BY <1>2, <1>3, <1>4, <1>5 DEF StepOrder, AllStepsPassed

\* Every step keeps the order of the checks.
LEMMA StepOrderStep ==
    ASSUME TypeOK, StepOrder, [Next]_vars
    PROVE  StepOrder'
<1>0. /\ bus \in [Event -> Nat] /\ timers \in [Timer -> Nat]
      /\ store \in [Uploads -> PP \cup {NoPP}] /\ worker \in [Workers -> WorkerState]
      /\ passed \in [Uploads -> SUBSET StepSet]
      /\ session \in [Uploads -> {"none", "open", "kept", "gone"}]
      /\ file \in [Uploads -> {"none", "processing", "accessible", "reverted", "purged", "version"}]
  BY DEF TypeOK
<1>a. /\ JustBus(passed, bus) /\ \A w \in Workers : JustWorker(passed, worker[w])
      /\ \A t \in Timer : timers[t] > 0 => JustEvent(passed, t.ev)
      /\ \A u \in Uploads : store[u] # NoPP => JustRecord(passed[u], store[u])
      /\ AllStepsPassed
  BY DEF StepOrder
<1>1. ASSUME NEW w \in Workers, NEW u \in Uploads, HandleBytesReceived(w, u)
      PROVE  StepOrder'
  <2> DEFINE e == BytesReceived(u)
             r == InitPP(New, u)
             b == Busy("store", e, r.pp, r.next)
  <2>1. JustBus(passed, bus')
    BY <1>0, <1>1, <1>a, TakenJust, BusEvents DEF HandleBytesReceived
  <2>2. JustWorker(passed, b)
    <3>1. e.id = u
      BY DEF BytesReceived
    <3> QED
      BY <1>0, <3>1, InitJust, OtherJust, BusyJust
  <2>3. worker' = [worker EXCEPT ![w] = b]
    BY <1>1 DEF HandleBytesReceived
  <2> HIDE DEF b
  <2> QED
    BY <1>0, <1>1, <1>a, <2>1, <2>2, <2>3
       DEF HandleBytesReceived, StepOrder, AllStepsPassed, spVars, histVars
<1>2. ASSUME NEW w \in Workers, NEW u \in Uploads, NEW s \in StepSet, NEW o \in Outcomes,
             HandleStepFinished(w, u, s, o)
      PROVE  StepOrder'
  <2> DEFINE e == PostprocessingStepFinished(u, s, o)
             r == NextStep(store[u], u, s, o)
             b == Busy("store", e, r.pp, r.next)
             k == [kind |-> "retry", ev |-> StartPostprocessingStep(u, r.pp.currentStep)]
  <2>1. e \in Event /\ bus[e] > 0 /\ store[u] # NoPP /\ e.id = u
    BY <1>2, BusEvents DEF HandleStepFinished, CanTake, PostprocessingStepFinished
  <2>2. JustEvent(passed, e) /\ JustBus(passed, bus')
    BY <1>0, <1>2, <1>a, <2>1, TakenJust DEF HandleStepFinished, JustBus
  <2>3. /\ JustRecord(passed[u], r.pp) /\ JustEvent(passed, r.next)
        /\ JustEvent(passed, StartPostprocessingStep(u, r.pp.currentStep))
    BY <1>0, <1>a, <2>1, <2>2, NextStepJust
  <2>4. JustWorker(passed, b)
    BY <2>1, <2>2, <2>3, BusyJust
  <2>5. worker' = [worker EXCEPT ![w] = b]
    BY <1>2 DEF HandleStepFinished
  <2>6. timers' = timers \/ timers' = [timers EXCEPT ![k] = @ + 1]
    BY <1>2 DEF HandleStepFinished
  <2>7. JustEvent(passed, k.ev)
    BY <2>3
  <2> HIDE DEF b, k, r, e
  <2>8. \A t \in Timer : timers'[t] > 0 => JustEvent(passed, t.ev)
    BY <1>0, <1>a, <2>6, <2>7
  <2> QED
    BY <1>0, <1>2, <1>a, <2>2, <2>4, <2>5, <2>8
       DEF HandleStepFinished, StepOrder, AllStepsPassed, spVars, histVars
<1>3. ASSUME NEW w \in Workers, NEW u \in Uploads, HandleStartDelay(w, u)
      PROVE  StepOrder'
  <2> DEFINE e == StartPostprocessingStep(u, "delay")
             r == next(store[u], u, "delay")
             b == Busy("store", e, r.pp, NoEvent)
             k == [kind |-> "delay", ev |-> r.next]
  <2>1. e \in Event /\ bus[e] > 0 /\ store[u] # NoPP /\ e.id = u /\ "delay" \in StepSet
    BY <1>3, BusEvents DEF HandleStartDelay, CanTake, StartPostprocessingStep, CurrentSteps
  <2>2. JustEvent(passed, e) /\ JustBus(passed, bus')
    BY <1>0, <1>3, <1>a, <2>1, TakenJust DEF HandleStartDelay, JustBus
  <2>3. Reached(passed[u], "delay")
    BY <2>1, <2>2 DEF JustEvent, StartPostprocessingStep
  <2>4. JustRecord(passed[u], r.pp) /\ JustEvent(passed, r.next)
    BY <1>0, <2>1, <2>3, NextJust
  <2>5. JustWorker(passed, b)
    BY <2>1, <2>2, <2>4, BusyJust, NoEventAssumption
  <2>6. worker' = [worker EXCEPT ![w] = b] /\ timers' = [timers EXCEPT ![k] = @ + 1]
    BY <1>3 DEF HandleStartDelay
  <2>7. JustEvent(passed, k.ev)
    BY <2>4
  <2> HIDE DEF b, k, r, e
  <2>8. \A t \in Timer : timers'[t] > 0 => JustEvent(passed, t.ev)
    BY <1>0, <1>a, <2>6, <2>7
  <2> QED
    BY <1>0, <1>3, <1>a, <2>2, <2>5, <2>6, <2>8
       DEF HandleStartDelay, StepOrder, AllStepsPassed, spVars, histVars
<1>4. ASSUME NEW w \in Workers, NEW u \in Uploads, NEW f \in {"ok", "failed"},
             HandleUploadReady(w, u, f)
      PROVE  StepOrder'
  <2> DEFINE e == UploadReady(u, f)
             pp == IF f = "failed" THEN [store[u] EXCEPT !.finished = TRUE] ELSE store[u]
             b == Busy(IF f = "failed" THEN "mark" ELSE "delete", e, pp, NoEvent)
  <2>1. e \in Event /\ store[u] # NoPP /\ e.id = u
    BY <1>4, BusEvents DEF HandleUploadReady, UploadReady
  <2>2. JustBus(passed, bus')
    BY <1>0, <1>4, <1>a, <2>1, TakenJust DEF HandleUploadReady
  <2>3. JustRecord(passed[u], pp)
    <3>1. pp.currentStep = store[u].currentStep /\ pp.outcome = store[u].outcome
      BY <1>0, <2>1 DEF PP
    <3> QED
      BY <1>a, <2>1, <3>1 DEF JustRecord
  <2>4. JustWorker(passed, b)
    BY <2>1, <2>3, OtherJust, BusyJust, NoEventAssumption
  <2>5. worker' = [worker EXCEPT ![w] = b]
    BY <1>4 DEF HandleUploadReady
  <2> HIDE DEF b
  <2> QED
    BY <1>0, <1>4, <1>a, <2>2, <2>4, <2>5
       DEF HandleUploadReady, StepOrder, AllStepsPassed, spVars, histVars
<1>5. ASSUME NEW w \in Workers, NEW e \in Event, HandleUnknownUpload(w, e)
      PROVE  StepOrder'
  <2>1. JustEvent(passed, e) /\ JustBus(passed, bus')
    BY <1>0, <1>5, <1>a, TakenJust DEF HandleUnknownUpload, CanTake, JustBus
  <2>2. JustWorker(passed, Busy("ack", e, NoPP, NoEvent))
    BY <2>1, BusyJust, NoEventAssumption
  <2> QED
    BY <1>0, <1>5, <1>a, <2>1, <2>2
       DEF HandleUnknownUpload, StepOrder, AllStepsPassed, spVars
<1>6. ASSUME NEW w \in Workers, NEW e \in Event, HandleResume(w, e)
      PROVE  StepOrder'
  <2> DEFINE ids == IF e.step = "-" THEN {e.id}
                    ELSE {u \in Uploads : store[u] # NoPP /\ store[u].currentStep = e.step}
             b == [Busy("resume", e, NoPP, NoEvent) EXCEPT !.ids = ids]
  <2>1. JustEvent(passed, e) /\ JustBus(passed, bus')
    BY <1>0, <1>6, <1>a, TakenJust DEF HandleResume, CanTake, JustBus
  <2>2. b.ev = e /\ b.pp = NoPP /\ b.next = NoEvent
    BY DEF Busy
  <2>3. worker' = [worker EXCEPT ![w] = b]
    BY <1>6 DEF HandleResume
  <2> HIDE DEF b
  <2>4. JustWorker(passed, b)
    BY <2>1, <2>2, NoEventAssumption DEF JustWorker
  <2> QED
    BY <1>0, <1>6, <1>a, <2>1, <2>3, <2>4
       DEF HandleResume, StepOrder, AllStepsPassed, spVars, histVars
<1>7. ASSUME NEW w \in Workers, NEW u \in Uploads, ResumePP(w, u)
      PROVE  StepOrder'
  <2>1. JustBus(passed, bus')
    <3>1. JustBus(passed, Publish(bus, RestartPostprocessing(u)))
      BY <1>0, <1>a, OtherJust, PublishJust
    <3>2. CASE store[u] = NoPP
      BY <1>7, <1>a, <3>1, <3>2 DEF ResumePP
    <3>3. CASE store[u] # NoPP
      <4>1. JustEvent(passed, CurrentStep(store[u], u).next)
        BY <1>0, <1>a, <3>3, CurrentStepJust
      <4>2. JustBus(passed, Publish(bus, CurrentStep(store[u], u).next))
        BY <1>0, <1>a, <4>1, PublishJust
      <4> QED
        BY <1>7, <1>a, <3>3, <4>2 DEF ResumePP
    <3> QED
      BY <3>2, <3>3
  <2>2. \A x \in Workers : /\ worker'[x].ev = worker[x].ev
                           /\ worker'[x].next = worker[x].next
                           /\ worker'[x].pp = worker[x].pp
    BY <1>0, <1>7 DEF ResumePP, WorkerState
  <2>3. \A x \in Workers : JustWorker(passed, worker'[x])
    BY <1>a, <2>2 DEF JustWorker
  <2> QED
    BY <1>7, <1>a, <2>1, <2>3 DEF ResumePP, StepOrder, AllStepsPassed, spVars
<1>8. ASSUME NEW w \in Workers, DeleteRecord(w)
      PROVE  StepOrder'
  <2>1. JustWorker(passed, Acking(w))
    BY <1>a, IdleJust
  <2>2. JustWorker(passed, [worker[w] EXCEPT !.pc = "store"])
    BY <1>0, <1>a DEF JustWorker, WorkerState
  <2>3. worker' = [worker EXCEPT ![w] = [worker[w] EXCEPT !.pc = "store"]]
        \/ worker' = [worker EXCEPT ![w] = Acking(w)]
    BY <1>8 DEF DeleteRecord
  <2>4. \A x \in Workers : JustWorker(passed, worker'[x])
    BY <1>0, <1>a, <2>1, <2>2, <2>3
  <2>5. \A u \in Uploads : store'[u] = store[u] \/ store'[u] = NoPP
    BY <1>0, <1>8 DEF DeleteRecord
  <2> QED
    BY <1>8, <1>a, <2>4, <2>5 DEF DeleteRecord, StepOrder, AllStepsPassed, spVars
<1>9. ASSUME NEW w \in Workers, StoreRecord(w)
      PROVE  StepOrder'
  <2>1. JustWorker(passed, Acking(w))
    BY <1>a, IdleJust
  <2>2. JustWorker(passed, Publishing(w))
    BY <1>0, <1>a DEF Publishing, JustWorker, WorkerState
  <2>3. \A x \in Workers : JustWorker(passed, worker'[x])
    BY <1>0, <1>9, <1>a, <2>1, <2>2 DEF StoreRecord
  <2>4. \A u \in Uploads : store'[u] # NoPP => JustRecord(passed[u], store'[u])
    BY <1>0, <1>9, <1>a DEF StoreRecord, JustWorker
  <2> QED
    BY <1>9, <1>a, <2>3, <2>4 DEF StoreRecord, StepOrder, AllStepsPassed, spVars, histVars
<1>b. ASSUME NEW w \in Workers, NEW b \in [Event -> Nat], JustBus(passed, b)
      PROVE  /\ JustBus(passed, Publish(b, worker[w].ev))
             /\ JustBus(passed, Publish(b, worker[w].next))
  BY <1>a, <1>b, PublishJust DEF JustWorker
<1>10. ASSUME NEW w \in Workers, StoreFails(w) \/ PublishStopped(w)
       PROVE  StepOrder'
  <2>1. JustBus(passed, bus') /\ worker' = [worker EXCEPT ![w] = Released]
    BY <1>0, <1>10, <1>a, <1>b DEF StoreFails, PublishStopped, Returned
  <2> QED
    BY <1>0, <1>10, <1>a, <2>1, IdleJust
       DEF StoreFails, PublishStopped, StepOrder, AllStepsPassed, spVars, histVars
<1>11. ASSUME NEW w \in Workers, PublishNext(w)
       PROVE  StepOrder'
  <2>1. JustBus(passed, bus') /\ worker' = [worker EXCEPT ![w] = Acking(w)]
    BY <1>0, <1>11, <1>a, <1>b DEF PublishNext
  <2>2. JustWorker(passed, Acking(w))
    BY <1>a, IdleJust
  <2> QED
    BY <1>0, <1>11, <1>a, <2>1, <2>2 DEF PublishNext, StepOrder, AllStepsPassed, spVars, histVars
<1>12. ASSUME NEW w \in Workers, PublishAttemptFails(w) \/ Redeliver(w)
       PROVE  StepOrder'
  <2>1. JustBus(passed, bus')
    BY <1>0, <1>12, <1>a, <1>b DEF PublishAttemptFails, Redeliver
  <2>2. \A x \in Workers : /\ worker'[x].ev = worker[x].ev
                           /\ worker'[x].next = worker[x].next
                           /\ worker'[x].pp = worker[x].pp
    BY <1>0, <1>12 DEF PublishAttemptFails, Redeliver, WorkerState
  <2>3. \A x \in Workers : JustWorker(passed, worker'[x])
    BY <1>a, <2>2 DEF JustWorker
  <2> QED
    BY <1>12, <1>a, <2>1, <2>3
       DEF PublishAttemptFails, Redeliver, StepOrder, AllStepsPassed, spVars
<1>13. ASSUME NEW w \in Workers, PublishFatal(w)
       PROVE  StepOrder'
  <2>1. PICK b \in {bus, Publish(bus, worker[w].next)} :
          IF stopped
          THEN /\ bus' = IF worker[w].held THEN Publish(b, worker[w].ev) ELSE b
               /\ worker' = [worker EXCEPT ![w] = Released]
               /\ UNCHANGED <<store, timers, stopped, spVars, passed, lost, admin>>
          ELSE Restarted(b, Workers)
    BY <1>13 DEF PublishFatal
  <2>2. b \in [Event -> Nat] /\ JustBus(passed, b)
    BY <1>0, <1>a, <1>b, BusType
  <2>3. CASE stopped
    BY <1>0, <1>a, <1>b, <2>1, <2>2, <2>3, IdleJust DEF StepOrder, AllStepsPassed, spVars
  <2>4. CASE ~stopped
    BY <2>1, <2>2, <2>4, RestartedJust
  <2> QED
    BY <2>3, <2>4
<1>14. ASSUME NEW w \in Workers, MarkFatal(w)
       PROVE  StepOrder'
  BY <1>0, <1>14, <1>a, RestartedJust DEF MarkFatal
<1>15. ASSUME Crash \/ Exit
       PROVE  StepOrder'
  BY <1>0, <1>15, <1>a, RestartedJust DEF Crash, Exit
<1>16. ASSUME NEW w \in Workers, Ack(w) \/ Leave(w)
       PROVE  StepOrder'
  BY <1>0, <1>16, <1>a, IdleJust DEF Ack, Leave, StepOrder, AllStepsPassed, spVars, histVars
<1>18. ASSUME NEW t \in Timer, TimerFires(t)
       PROVE  StepOrder'
  <2>1. JustEvent(passed, t.ev)
    BY <1>18, <1>a DEF TimerFires
  <2>2. JustBus(passed, bus')
    BY <1>0, <1>18, <1>a, <2>1, PublishJust DEF TimerFires
  <2>3. \A x \in Timer : timers'[x] > 0 => timers[x] > 0
    BY <1>0, <1>18 DEF TimerFires
  <2> QED
    BY <1>18, <1>a, <2>2, <2>3 DEF TimerFires, StepOrder, AllStepsPassed, spVars
<1>19. ASSUME Close \/ UNCHANGED vars
       PROVE  StepOrder'
  BY <1>19, <1>a DEF Close, vars, StepOrder, AllStepsPassed, spVars
<1>20. ASSUME NEW u \in Uploads, NEW s \in StepSet, NEW o \in Outcomes, RunStep(u, s, o)
       PROVE  StepOrder'
  <2> DEFINE e == StartPostprocessingStep(u, s)
             f == PostprocessingStepFinished(u, s, o)
  <2>1. e \in Event /\ bus[e] > 0
    BY <1>20, BusEvents DEF RunStep, CurrentSteps
  <2>2. \A x \in Uploads : passed[x] \subseteq passed'[x]
    BY <1>0, <1>20 DEF RunStep
  <2>3. JustBus(passed', Taken(e))
    <3>1. JustBus(passed, Taken(e))
      BY <1>0, <1>a, <2>1, TakenJust
    <3> QED
      BY <2>2, <3>1, JustGrows DEF JustBus
  <2>4. JustEvent(passed', f)
    <3>1. JustEvent(passed, e)
      BY <1>a, <2>1 DEF JustBus
    <3>2. JustEvent(passed', e)
      BY <2>1, <2>2, <3>1, JustGrows
    <3>3. Reached(passed'[u], s)
      BY <3>2 DEF JustEvent, StartPostprocessingStep
    <3>4. o = "continue" => s \in passed'[u]
      BY <1>0, <1>20 DEF RunStep
    <3> QED
      BY <3>3, <3>4 DEF JustEvent, PostprocessingStepFinished
  <2>5. JustBus(passed', bus')
    <3>1. bus' = Publish(Taken(e), f)
      BY <1>20 DEF RunStep
    <3>2. Taken(e) \in [Event -> Nat]
      BY <1>0, <2>1, TakenType
    <3> QED
      BY <2>3, <2>4, <3>1, <3>2, PublishJust
  <2>6. \A x \in Workers : JustWorker(passed', worker[x])
    BY <1>a, <2>2, JustGrows, RecordGrows DEF JustWorker
  <2>7. \A t \in Timer : t.ev \in Event
    BY DEF Timer, Event
  <2>8. \A t \in Timer : timers[t] > 0 => JustEvent(passed', t.ev)
    BY <1>a, <2>2, <2>7, JustGrows
  <2>9. \A x \in Uploads : store[x] # NoPP => JustRecord(passed'[x], store[x])
    BY <1>a, <2>2, RecordGrows
  <2> QED
    BY <1>20, <1>a, <2>2, <2>5, <2>6, <2>8, <2>9
       DEF RunStep, StepOrder, AllStepsPassed, ppsVars, spVars
<1>21. ASSUME NEW u \in Uploads, NEW s \in StepSet, StepServiceDies(u, s)
       PROVE  StepOrder'
  <2>1. JustBus(passed, bus')
    BY <1>0, <1>21, <1>a, BusEvents, TakenJust DEF StepServiceDies, CurrentSteps
  <2> QED
    BY <1>21, <1>a, <2>1 DEF StepServiceDies, StepOrder, AllStepsPassed, ppsVars, spVars
<1>22. ASSUME NEW u \in Uploads, FinishUpload(u)
       PROVE  StepOrder'
  <2>1. AllStepsPassed'
    BY <1>0, <1>22, <1>a DEF FinishUpload, AllStepsPassed, histVars
  <2> QED
    BY <1>22, <1>a, <2>1 DEF FinishUpload, StepOrder, ppsVars, histVars
<1>28. ASSUME NEW u \in Uploads, PublishBytesReceived(u) \/ FinishUploadFails(u)
       PROVE  StepOrder'
  <2>1. JustBus(passed, bus')
    BY <1>0, <1>28, <1>a, OtherJust, PublishJust DEF PublishBytesReceived, FinishUploadFails
  <2> QED
    BY <1>28, <1>a, <2>1
       DEF PublishBytesReceived, FinishUploadFails, StepOrder, AllStepsPassed, ppsVars, histVars
<1>23. ASSUME NEW u \in Uploads, NEW o \in Outcomes, HandleFinished(u, o)
       PROVE  StepOrder'
  <2> DEFINE e == PostprocessingFinished(u, o)
  <2>1. e \in Event /\ bus[e] > 0
    BY <1>23, BusEvents DEF HandleFinished
  <2>2. JustBus(passed, Taken(e)) /\ Taken(e) \in [Event -> Nat]
    BY <1>0, <1>a, <2>1, TakenJust, TakenType
  <2>3. \A f : JustBus(passed, Publish(Taken(e), UploadReady(u, f)))
    BY <2>2, OtherJust, PublishJust
  <2>4. JustBus(passed, bus')
    BY <1>23, <2>2, <2>3 DEF HandleFinished, PublishReady
  <2>5. o = "continue" => Checks \subseteq passed[u]
    BY <1>a, <2>1 DEF JustBus, JustEvent, PostprocessingFinished
  <2>6. AllStepsPassed'
    <3>1. passed' = passed
      BY <1>23 DEF HandleFinished
    <3>2. file' \in [Uploads -> {"none", "processing", "accessible", "reverted", "purged", "version"}]
          /\ \A x \in Uploads : x # u => file'[x] = file[x]
      BY <1>0, <1>23 DEF HandleFinished, Reverted
    <3>3. o # "continue" => file'[u] = file[u] \/ file'[u] \in {"reverted", "purged"}
      BY <1>0, <1>23 DEF HandleFinished, Reverted
    <3> QED
      BY <1>a, <2>5, <3>1, <3>2, <3>3 DEF AllStepsPassed
  <2> QED
    BY <1>23, <1>a, <2>4, <2>6 DEF HandleFinished, StepOrder, ppsVars
<1>24. ASSUME NEW u \in Uploads, FinalizeFails(u)
       PROVE  StepOrder'
  <2> DEFINE e == PostprocessingFinished(u, "continue")
  <2>1. e \in Event /\ bus[e] > 0
    BY <1>24, BusEvents DEF FinalizeFails, Outcomes
  <2>2. JustBus(passed, bus')
    BY <1>0, <1>24, <1>a, <2>1, TakenJust, TakenType, OtherJust, PublishJust DEF FinalizeFails
  <2> QED
    BY <1>24, <1>a, <2>2 DEF FinalizeFails, StepOrder, AllStepsPassed, ppsVars
<1>25. ASSUME NEW u \in Uploads, NEW o \in Outcomes, ProviderDies(u, o)
       PROVE  StepOrder'
  <2>1. JustBus(passed, bus')
    BY <1>0, <1>25, <1>a, BusEvents, TakenJust DEF ProviderDies
  <2> QED
    BY <1>25, <1>a, <2>1 DEF ProviderDies, StepOrder, AllStepsPassed, ppsVars, spVars
<1>26. ASSUME NEW u \in Uploads, HandleRestart(u)
       PROVE  StepOrder'
  <2> DEFINE e == RestartPostprocessing(u)
  <2>1. e \in Event /\ bus[e] > 0
    BY <1>26 DEF HandleRestart, Event
  <2>2. JustBus(passed, bus')
    BY <1>0, <1>26, <1>a, <2>1, TakenJust, TakenType, OtherJust, PublishJust DEF HandleRestart
  <2> QED
    BY <1>26, <1>a, <2>2 DEF HandleRestart, StepOrder, AllStepsPassed, ppsVars, spVars, histVars
<1>27. ASSUME Command
       PROVE  StepOrder'
  <2>1. JustBus(passed, bus')
    BY <1>0, <1>27, <1>a, OtherJust, PublishJust DEF Command
  <2> QED
    BY <1>27, <1>a, <2>1 DEF Command, StepOrder, AllStepsPassed, ppsVars, spVars
<1> QED
  BY <1>1, <1>2, <1>3, <1>4, <1>5, <1>6, <1>7, <1>8, <1>9, <1>10, <1>11, <1>12, <1>13, <1>14,
     <1>15, <1>16, <1>18, <1>19, <1>20, <1>21, <1>22, <1>23, <1>24, <1>25, <1>26, <1>27, <1>28
     DEF Next, Handle, Continue, WorkerFault, Provider

\* Nothing is ever published, recorded or released without the checks it needs.
LEMMA StepOrderAlways == Spec => []StepOrder
<1>1. ASSUME Init PROVE StepOrder
  <2>1. \A w \in Workers : JustWorker(passed, worker[w])
    BY <1>1, IdleJust DEF Init
  <2>2. JustBus(passed, bus)
    BY <1>1 DEF Init, JustBus
  <2>3. \A t \in Timer : timers[t] = 0
    BY <1>1 DEF Init
  <2>4. \A u \in Uploads : store[u] = NoPP
    BY <1>1 DEF Init
  <2>5. AllStepsPassed
    BY <1>1 DEF Init, AllStepsPassed
  <2> QED
    BY <2>1, <2>2, <2>3, <2>4, <2>5 DEF StepOrder
<1> QED
  BY <1>1, StepOrderStep, TypeCorrect, PTL DEF Spec

\* A file becomes readable only after every configured check has accepted its
\* bytes, for any list of steps, number of workers and number of faults.
THEOREM AllStepsPassedAlways == Spec => []AllStepsPassed
<1>1. StepOrder => AllStepsPassed
  BY DEF StepOrder
<1> QED
  BY <1>1, StepOrderAlways, PTL

=============================================================================
