---------------------- MODULE PostprocessingRefinement ----------------------
(***************************************************************************)
(* PostprocessingService implements UploadLifecycle: every step of the     *)
(* service, the step services and the storage provider is a step of the    *)
(* life of an upload, or changes nothing of it.                            *)
(*                                                                         *)
(* Besides StepOrder the mapping needs to know that nothing happens for an *)
(* upload that was not received, and which nodes a session can still have. *)
(***************************************************************************)
EXTENDS PostprocessingProofs

Received == {u \in Uploads : session[u] # "none"}

\* Event e is a command of the administrator, or about an upload of k.
KnownEvent(k, e) ==
    e.type \in {"ResumePostprocessing", "RestartPostprocessing"} \/ e.id \in k

KnownBus(k, b) == \A e \in Event : b[e] > 0 => KnownEvent(k, e)

KnownWorker(k, r) ==
    /\ r.ev \in Event => KnownEvent(k, r.ev)
    /\ r.next \in Event => KnownEvent(k, r.next)
    /\ r.pp # NoPP => r.ev.id \in k

\* A session that can be read has not released its bytes.
SessionNode(s, f) ==
    /\ s = "none" => f = "none"
    /\ s \in {"open", "kept"} => f \in {"processing", "reverted", "purged"}
    /\ s = "gone" => f # "none"

\* Only uploads that were received are worked on.
OnlyReceived ==
    /\ KnownBus(Received, bus)
    /\ \A t \in Timer : timers[t] > 0 => KnownEvent(Received, t.ev)
    /\ \A u \in Uploads : store[u] # NoPP => u \in Received
    /\ \A w \in Workers : KnownWorker(Received, worker[w])
    /\ \A u \in Uploads : SessionNode(session[u], file[u])
    /\ handover \subseteq Received

-----------------------------------------------------------------------------
(* What is known stays known.                                              *)

\* The operations of a record return events about its upload.
LEMMA NextAbout ==
    ASSUME NEW pp, NEW u, NEW s, NEW o
    PROVE  /\ InitPP(pp, u).next.id = u
           /\ next(pp, u, s).next.id = u
           /\ NextStep(pp, u, s, o).next.id = u
           /\ CurrentStep(pp, u).next.id = u
<1>1. \A p, x : step(p, u, x).next.id = u /\ finished(p, u, x).next.id = u /\ retry(p, u).next.id = u
  BY DEF step, finished, retry, StartPostprocessingStep, PostprocessingFinished, PostprocessingRetry
<1>2. \A p, x : next(p, u, x).next.id = u
  BY <1>1 DEF next
<1>3. InitPP(pp, u).next.id = u /\ CurrentStep(pp, u).next.id = u
  BY <1>1 DEF InitPP, CurrentStep
<1>4. NextStep(pp, u, s, o).next.id = u
  BY <1>1, <1>2 DEF NextStep
<1> QED
  BY <1>2, <1>3, <1>4

\* Publishing an event about a known upload.
LEMMA PublishKnown ==
    ASSUME NEW k, NEW b \in [Event -> Nat], KnownBus(k, b), NEW e, e \in Event => KnownEvent(k, e)
    PROVE  KnownBus(k, Publish(b, e))
<1>1. ASSUME NEW x \in Event, Publish(b, e)[x] > 0, x # e PROVE b[x] > 0
  BY <1>1 DEF Publish
<1> QED
  BY <1>1 DEF KnownBus

\* Taking an event adds none.
LEMMA TakenKnown ==
    ASSUME NEW k, bus \in [Event -> Nat], KnownBus(k, bus), NEW e \in Event
    PROVE  KnownBus(k, Taken(e))
<1>1. ASSUME NEW x \in Event, Taken(e)[x] > 0 PROVE bus[x] > 0
  BY <1>1 DEF Taken
<1> QED
  BY <1>1 DEF KnownBus

\* A worker without an event, and one that has only its acknowledgement left.
LEMMA IdleKnown ==
    ASSUME NEW k
    PROVE  /\ KnownWorker(k, Idle)
           /\ KnownWorker(k, Released)
           /\ \A w \in Workers : KnownWorker(k, worker[w]) => KnownWorker(k, Acking(w))
<1>1. KnownWorker(k, Idle)
  BY NoEventAssumption DEF KnownWorker, Idle
<1>2. KnownWorker(k, Released)
  BY NoEventAssumption DEF KnownWorker, Idle, Released
<1>3. ASSUME NEW w \in Workers, KnownWorker(k, worker[w])
      PROVE  KnownWorker(k, Acking(w))
  <2>1. Acking(w).ev = worker[w].ev /\ Acking(w).next = NoEvent /\ Acking(w).pp = NoPP
    BY DEF Acking, Idle
  <2> QED
    BY <1>3, <2>1, NoEventAssumption DEF KnownWorker
<1> QED
  BY <1>1, <1>2, <1>3

\* A worker that took an event about a known upload.
LEMMA BusyKnown ==
    ASSUME NEW k, NEW pc, NEW e, NEW pp, NEW n, KnownEvent(k, e),
           n \in Event => KnownEvent(k, n), pp # NoPP => e.id \in k
    PROVE  KnownWorker(k, Busy(pc, e, pp, n))
BY DEF KnownWorker, Busy

\* A restart puts back what was taken.
LEMMA RestartedKnown ==
    ASSUME TypeOK, OnlyReceived, NEW b \in [Event -> Nat], KnownBus(Received, b),
           NEW ws \in SUBSET Workers, Restarted(b, ws)
    PROVE  OnlyReceived'
<1>1. ASSUME NEW e \in Event, bus'[e] > 0 PROVE KnownEvent(Received, e)
  <2> DEFINE back == {w \in ws : worker[w].held /\ worker[w].ev = e}
  <2>1. bus'[e] = b[e] + Cardinality(back)
    BY <1>1 DEF Restarted
  <2>2. b[e] > 0 \/ back # {}
    <3>1. CASE back = {}
      <4>1. Cardinality(back) = 0
        BY <3>1, FS_EmptySet
      <4> HIDE DEF back
      <4> QED
        BY <1>1, <2>1, <4>1
    <3> QED
      BY <3>1
  <2>3. CASE b[e] > 0
    BY <2>3 DEF KnownBus
  <2>4. CASE back # {}
    BY <2>4 DEF OnlyReceived, KnownWorker
  <2> QED
    BY <2>2, <2>3, <2>4
<1>2. Received' = Received /\ store' = store /\ file' = file /\ session' = session /\ handover' = handover
  BY DEF Restarted, spVars, Received
<1>3. KnownBus(Received', bus')
  BY <1>1, <1>2 DEF KnownBus
<1>4. \A t \in Timer : timers'[t] > 0 => KnownEvent(Received', t.ev)
  BY DEF Restarted
<1>5. \A w \in Workers : KnownWorker(Received', worker'[w])
  BY IdleKnown DEF Restarted
<1> QED
  BY <1>2, <1>3, <1>4, <1>5 DEF OnlyReceived

\* A step that leaves the storage provider alone.
LEMMA SameNodes ==
    ASSUME OnlyReceived, UNCHANGED spVars,
           KnownBus(Received, bus'),
           \A t \in Timer : timers'[t] > 0 => KnownEvent(Received, t.ev),
           \A u \in Uploads : store'[u] # NoPP => u \in Received,
           \A w \in Workers : KnownWorker(Received, worker'[w])
    PROVE  OnlyReceived'
<1>1. Received' = Received /\ session' = session /\ file' = file /\ handover' = handover
  BY DEF spVars, Received
<1> QED
  BY <1>1 DEF OnlyReceived

\* Every step works on uploads that were received.
LEMMA OnlyReceivedStep ==
    ASSUME TypeOK, OnlyReceived, [Next]_vars
    PROVE  OnlyReceived'
<1>0. /\ bus \in [Event -> Nat] /\ timers \in [Timer -> Nat]
      /\ store \in [Uploads -> PP \cup {NoPP}] /\ worker \in [Workers -> WorkerState]
      /\ session \in [Uploads -> {"none", "open", "kept", "gone"}]
      /\ file \in [Uploads -> {"none", "processing", "accessible", "reverted", "purged", "version"}]
  BY DEF TypeOK
<1>a. /\ KnownBus(Received, bus) /\ \A w \in Workers : KnownWorker(Received, worker[w])
      /\ \A t \in Timer : timers[t] > 0 => KnownEvent(Received, t.ev)
      /\ \A u \in Uploads : store[u] # NoPP => u \in Received
      /\ \A u \in Uploads : SessionNode(session[u], file[u])
      /\ handover \subseteq Received
  BY DEF OnlyReceived
<1>1. ASSUME NEW w \in Workers, NEW u \in Uploads, HandleBytesReceived(w, u)
      PROVE  OnlyReceived'
  <2> DEFINE e == BytesReceived(u)
             r == InitPP(New, u)
             b == Busy("store", e, r.pp, r.next)
  <2>1. e \in Event /\ bus[e] > 0 /\ e.id = u /\ e.type = "BytesReceived"
    BY <1>1, BusEvents DEF HandleBytesReceived, CanTake, BytesReceived
  <2>2. u \in Received /\ KnownEvent(Received, e) /\ KnownBus(Received, bus')
    BY <1>0, <1>1, <1>a, <2>1, TakenKnown DEF HandleBytesReceived, KnownBus, KnownEvent
  <2>3. KnownWorker(Received, b)
    BY <2>1, <2>2, NextAbout, BusyKnown DEF KnownEvent
  <2>4. worker' = [worker EXCEPT ![w] = b]
    BY <1>1 DEF HandleBytesReceived
  <2> HIDE DEF b
  <2>5. \A x \in Workers : KnownWorker(Received, worker'[x])
    BY <1>0, <1>a, <2>3, <2>4
  <2> QED
    BY <1>1, <1>a, <2>2, <2>5, SameNodes DEF HandleBytesReceived
<1>2. ASSUME NEW w \in Workers, NEW u \in Uploads, NEW s \in StepSet, NEW o \in Outcomes,
             HandleStepFinished(w, u, s, o)
      PROVE  OnlyReceived'
  <2> DEFINE e == PostprocessingStepFinished(u, s, o)
             r == NextStep(store[u], u, s, o)
             b == Busy("store", e, r.pp, r.next)
             k == [kind |-> "retry", ev |-> StartPostprocessingStep(u, r.pp.currentStep)]
  <2>1. e \in Event /\ store[u] # NoPP /\ e.id = u
    BY <1>2, BusEvents DEF HandleStepFinished, PostprocessingStepFinished
  <2>2. u \in Received /\ KnownEvent(Received, e) /\ KnownBus(Received, bus')
    BY <1>0, <1>2, <1>a, <2>1, TakenKnown DEF HandleStepFinished, KnownEvent
  <2>3. KnownWorker(Received, b)
    BY <2>1, <2>2, NextAbout, BusyKnown DEF KnownEvent
  <2>4. worker' = [worker EXCEPT ![w] = b]
    BY <1>2 DEF HandleStepFinished
  <2>5. timers' = timers \/ timers' = [timers EXCEPT ![k] = @ + 1]
    BY <1>2 DEF HandleStepFinished
  <2>6. KnownEvent(Received, k.ev)
    BY <2>2 DEF KnownEvent, StartPostprocessingStep
  <2> HIDE DEF b, k, r, e
  <2>7. \A t \in Timer : timers'[t] > 0 => KnownEvent(Received, t.ev)
    BY <1>0, <1>a, <2>5, <2>6
  <2>8. \A x \in Workers : KnownWorker(Received, worker'[x])
    BY <1>0, <1>a, <2>3, <2>4
  <2> QED
    BY <1>2, <1>a, <2>2, <2>7, <2>8, SameNodes DEF HandleStepFinished
<1>3. ASSUME NEW w \in Workers, NEW u \in Uploads, HandleStartDelay(w, u)
      PROVE  OnlyReceived'
  <2> DEFINE e == StartPostprocessingStep(u, "delay")
             r == next(store[u], u, "delay")
             b == Busy("store", e, r.pp, NoEvent)
             k == [kind |-> "delay", ev |-> r.next]
  <2>1. e \in Event /\ store[u] # NoPP /\ e.id = u
    BY <1>3, BusEvents DEF HandleStartDelay, StartPostprocessingStep, CurrentSteps
  <2>2. u \in Received /\ KnownEvent(Received, e) /\ KnownBus(Received, bus')
    BY <1>0, <1>3, <1>a, <2>1, TakenKnown DEF HandleStartDelay, KnownEvent
  <2>3. KnownWorker(Received, b)
    BY <2>1, <2>2, BusyKnown, NoEventAssumption
  <2>4. worker' = [worker EXCEPT ![w] = b] /\ timers' = [timers EXCEPT ![k] = @ + 1]
    BY <1>3 DEF HandleStartDelay
  <2>5. KnownEvent(Received, k.ev)
    BY <2>2, NextAbout DEF KnownEvent
  <2> HIDE DEF b, k, r, e
  <2>6. \A t \in Timer : timers'[t] > 0 => KnownEvent(Received, t.ev)
    BY <1>0, <1>a, <2>4, <2>5
  <2>7. \A x \in Workers : KnownWorker(Received, worker'[x])
    BY <1>0, <1>a, <2>3, <2>4
  <2> QED
    BY <1>3, <1>a, <2>2, <2>6, <2>7, SameNodes DEF HandleStartDelay
<1>4. ASSUME NEW w \in Workers, NEW u \in Uploads, NEW f \in {"ok", "failed"},
             HandleUploadReady(w, u, f)
      PROVE  OnlyReceived'
  <2> DEFINE e == UploadReady(u, f)
             pp == IF f = "failed" THEN [store[u] EXCEPT !.finished = TRUE] ELSE store[u]
             b == Busy(IF f = "failed" THEN "mark" ELSE "delete", e, pp, NoEvent)
  <2>1. e \in Event /\ store[u] # NoPP /\ e.id = u
    BY <1>4, BusEvents DEF HandleUploadReady, UploadReady
  <2>2. u \in Received /\ KnownEvent(Received, e) /\ KnownBus(Received, bus')
    BY <1>0, <1>4, <1>a, <2>1, TakenKnown DEF HandleUploadReady, KnownEvent
  <2>3. KnownWorker(Received, b)
    BY <2>1, <2>2, BusyKnown, NoEventAssumption
  <2>4. worker' = [worker EXCEPT ![w] = b]
    BY <1>4 DEF HandleUploadReady
  <2> HIDE DEF b
  <2>5. \A x \in Workers : KnownWorker(Received, worker'[x])
    BY <1>0, <1>a, <2>3, <2>4
  <2> QED
    BY <1>4, <1>a, <2>2, <2>5, SameNodes DEF HandleUploadReady
<1>5. ASSUME NEW w \in Workers, NEW e \in Event, HandleUnknownUpload(w, e)
      PROVE  OnlyReceived'
  <2>1. KnownEvent(Received, e) /\ KnownBus(Received, bus')
    BY <1>0, <1>5, <1>a, TakenKnown DEF HandleUnknownUpload, CanTake, KnownBus
  <2>2. KnownWorker(Received, Busy("ack", e, NoPP, NoEvent))
    BY <2>1, BusyKnown, NoEventAssumption
  <2>3. \A x \in Workers : KnownWorker(Received, worker'[x])
    BY <1>0, <1>5, <1>a, <2>2 DEF HandleUnknownUpload
  <2> QED
    BY <1>5, <1>a, <2>1, <2>3, SameNodes DEF HandleUnknownUpload
<1>6. ASSUME NEW w \in Workers, NEW e \in Event, HandleResume(w, e)
      PROVE  OnlyReceived'
  <2> DEFINE ids == IF e.step = "-" THEN {e.id}
                    ELSE {u \in Uploads : store[u] # NoPP /\ store[u].currentStep = e.step}
             b == [Busy("resume", e, NoPP, NoEvent) EXCEPT !.ids = ids]
  <2>1. KnownEvent(Received, e) /\ KnownBus(Received, bus')
    BY <1>0, <1>6, <1>a, TakenKnown DEF HandleResume, CanTake, KnownBus
  <2>2. b.ev = e /\ b.pp = NoPP /\ b.next = NoEvent
    BY DEF Busy
  <2>3. worker' = [worker EXCEPT ![w] = b]
    BY <1>6 DEF HandleResume
  <2> HIDE DEF b
  <2>4. \A x \in Workers : KnownWorker(Received, worker'[x])
    BY <1>0, <1>a, <2>1, <2>2, <2>3, NoEventAssumption DEF KnownWorker
  <2> QED
    BY <1>6, <1>a, <2>1, <2>4, SameNodes DEF HandleResume
<1>7. ASSUME NEW w \in Workers, NEW u \in Uploads, ResumePP(w, u)
      PROVE  OnlyReceived'
  <2>1. KnownBus(Received, bus')
    <3>1. KnownBus(Received, Publish(bus, RestartPostprocessing(u)))
      <4>1. KnownEvent(Received, RestartPostprocessing(u))
        BY DEF KnownEvent, RestartPostprocessing
      <4> QED
        BY <1>0, <1>a, <4>1, PublishKnown
    <3>2. CASE store[u] = NoPP
      BY <1>7, <1>a, <3>1, <3>2 DEF ResumePP
    <3>3. CASE store[u] # NoPP
      <4>1. KnownEvent(Received, CurrentStep(store[u], u).next)
        BY <1>a, <3>3, NextAbout DEF KnownEvent
      <4>2. KnownBus(Received, Publish(bus, CurrentStep(store[u], u).next))
        BY <1>0, <1>a, <4>1, PublishKnown
      <4> QED
        BY <1>7, <1>a, <3>3, <4>2 DEF ResumePP
    <3> QED
      BY <3>2, <3>3
  <2>2. \A x \in Workers : /\ worker'[x].ev = worker[x].ev
                           /\ worker'[x].next = worker[x].next
                           /\ worker'[x].pp = worker[x].pp
    BY <1>0, <1>7 DEF ResumePP, WorkerState
  <2>3. \A x \in Workers : KnownWorker(Received, worker'[x])
    BY <1>a, <2>2 DEF KnownWorker
  <2> QED
    BY <1>7, <1>a, <2>1, <2>3, SameNodes DEF ResumePP
<1>8. ASSUME NEW w \in Workers, DeleteRecord(w)
      PROVE  OnlyReceived'
  <2>1. KnownWorker(Received, Acking(w))
    BY <1>a, IdleKnown
  <2>2. KnownWorker(Received, [worker[w] EXCEPT !.pc = "store"])
    BY <1>0, <1>a DEF KnownWorker, WorkerState
  <2>3. worker' = [worker EXCEPT ![w] = [worker[w] EXCEPT !.pc = "store"]]
        \/ worker' = [worker EXCEPT ![w] = Acking(w)]
    BY <1>8 DEF DeleteRecord
  <2>4. \A x \in Workers : KnownWorker(Received, worker'[x])
    BY <1>0, <1>a, <2>1, <2>2, <2>3
  <2>5. \A u \in Uploads : store'[u] = store[u] \/ store'[u] = NoPP
    BY <1>0, <1>8 DEF DeleteRecord
  <2> QED
    BY <1>8, <1>a, <2>4, <2>5, SameNodes DEF DeleteRecord
<1>9. ASSUME NEW w \in Workers, StoreRecord(w)
      PROVE  OnlyReceived'
  <2>1. KnownWorker(Received, Acking(w))
    BY <1>a, IdleKnown
  <2>2. KnownWorker(Received, Publishing(w))
    BY <1>0, <1>a DEF Publishing, KnownWorker, WorkerState
  <2>3. \A x \in Workers : KnownWorker(Received, worker'[x])
    BY <1>0, <1>9, <1>a, <2>1, <2>2 DEF StoreRecord
  <2>4. \A u \in Uploads : store'[u] # NoPP => u \in Received
    BY <1>0, <1>9, <1>a DEF StoreRecord, KnownWorker
  <2> QED
    BY <1>9, <1>a, <2>3, <2>4, SameNodes DEF StoreRecord
<1>b. ASSUME NEW w \in Workers, NEW b \in [Event -> Nat], KnownBus(Received, b)
      PROVE  /\ KnownBus(Received, Publish(b, worker[w].ev))
             /\ KnownBus(Received, Publish(b, worker[w].next))
  BY <1>a, <1>b, PublishKnown DEF KnownWorker
<1>10. ASSUME NEW w \in Workers, StoreFails(w) \/ PublishStopped(w)
       PROVE  OnlyReceived'
  <2>1. KnownBus(Received, bus') /\ worker' = [worker EXCEPT ![w] = Released]
    BY <1>0, <1>10, <1>a, <1>b DEF StoreFails, PublishStopped, Returned
  <2>2. \A x \in Workers : KnownWorker(Received, worker'[x])
    BY <1>0, <1>a, <2>1, IdleKnown
  <2> QED
    BY <1>10, <1>a, <2>1, <2>2, SameNodes DEF StoreFails, PublishStopped
<1>11. ASSUME NEW w \in Workers, PublishNext(w)
       PROVE  OnlyReceived'
  <2>1. KnownBus(Received, bus') /\ worker' = [worker EXCEPT ![w] = Acking(w)]
    BY <1>0, <1>11, <1>a, <1>b DEF PublishNext
  <2>2. \A x \in Workers : KnownWorker(Received, worker'[x])
    BY <1>0, <1>a, <2>1, IdleKnown
  <2> QED
    BY <1>11, <1>a, <2>1, <2>2, SameNodes DEF PublishNext
<1>12. ASSUME NEW w \in Workers, PublishAttemptFails(w) \/ Redeliver(w)
       PROVE  OnlyReceived'
  <2>1. KnownBus(Received, bus')
    BY <1>0, <1>12, <1>a, <1>b DEF PublishAttemptFails, Redeliver
  <2>2. \A x \in Workers : /\ worker'[x].ev = worker[x].ev
                           /\ worker'[x].next = worker[x].next
                           /\ worker'[x].pp = worker[x].pp
    <3>0. worker \in [Workers -> WorkerState]
      BY <1>0
    <3>1. CASE worker' = [worker EXCEPT ![w].attempt = @ + 1]
      BY <3>0, <3>1 DEF WorkerState
    <3>2. CASE worker' = [worker EXCEPT ![w].held = FALSE]
      BY <3>0, <3>2 DEF WorkerState
    <3> QED
      BY <1>12, <3>1, <3>2 DEF PublishAttemptFails, Redeliver
  <2>3. \A x \in Workers : KnownWorker(Received, worker'[x])
    BY <1>a, <2>2 DEF KnownWorker
  <2> QED
    BY <1>12, <1>a, <2>1, <2>3, SameNodes DEF PublishAttemptFails, Redeliver
<1>13. ASSUME NEW w \in Workers, PublishFatal(w)
       PROVE  OnlyReceived'
  <2>1. PICK b \in {bus, Publish(bus, worker[w].next)} :
          IF stopped
          THEN /\ bus' = IF worker[w].held THEN Publish(b, worker[w].ev) ELSE b
               /\ worker' = [worker EXCEPT ![w] = Released]
               /\ UNCHANGED <<store, timers, stopped, spVars, passed, lost, admin>>
          ELSE Restarted(b, Workers)
    BY <1>13 DEF PublishFatal
  <2>2. b \in [Event -> Nat] /\ KnownBus(Received, b)
    BY <1>0, <1>a, <1>b, BusType
  <2>3. CASE stopped
    <3>1. KnownBus(Received, bus')
      BY <1>b, <2>1, <2>2, <2>3
    <3>2. \A x \in Workers : KnownWorker(Received, worker'[x])
      BY <1>0, <1>a, <2>1, <2>3, IdleKnown
    <3> QED
      BY <1>a, <2>1, <2>3, <3>1, <3>2, SameNodes
  <2>4. CASE ~stopped
    BY <2>1, <2>2, <2>4, RestartedKnown
  <2> QED
    BY <2>3, <2>4
<1>14. ASSUME NEW w \in Workers, MarkFatal(w)
       PROVE  OnlyReceived'
  BY <1>0, <1>14, <1>a, RestartedKnown DEF MarkFatal
<1>15. ASSUME Crash \/ Exit
       PROVE  OnlyReceived'
  BY <1>0, <1>15, <1>a, RestartedKnown DEF Crash, Exit
<1>16. ASSUME NEW w \in Workers, Ack(w) \/ Leave(w)
       PROVE  OnlyReceived'
  <2>1. \A x \in Workers : KnownWorker(Received, worker'[x])
    BY <1>0, <1>16, <1>a, IdleKnown DEF Ack, Leave
  <2> QED
    BY <1>16, <1>a, <2>1, SameNodes DEF Ack, Leave
<1>18. ASSUME NEW t \in Timer, TimerFires(t)
       PROVE  OnlyReceived'
  <2>1. KnownEvent(Received, t.ev)
    BY <1>18, <1>a DEF TimerFires
  <2>2. KnownBus(Received, bus')
    BY <1>0, <1>18, <1>a, <2>1, PublishKnown DEF TimerFires
  <2>3. \A x \in Timer : timers'[x] > 0 => timers[x] > 0
    BY <1>0, <1>18 DEF TimerFires
  <2> QED
    BY <1>18, <1>a, <2>2, <2>3, SameNodes DEF TimerFires
<1>19. ASSUME Close \/ UNCHANGED vars
       PROVE  OnlyReceived'
  BY <1>19, <1>a, SameNodes DEF Close, vars, spVars
<1>20. ASSUME NEW u \in Uploads, NEW s \in StepSet, NEW o \in Outcomes, RunStep(u, s, o)
       PROVE  OnlyReceived'
  <2> DEFINE e == StartPostprocessingStep(u, s)
             f == PostprocessingStepFinished(u, s, o)
  <2>1. e \in Event /\ bus[e] > 0
    BY <1>20, BusEvents DEF RunStep, CurrentSteps
  <2>2. u \in Received
    BY <1>a, <2>1 DEF KnownBus, KnownEvent, StartPostprocessingStep
  <2>3. KnownBus(Received, Taken(e)) /\ Taken(e) \in [Event -> Nat]
    BY <1>0, <1>a, <2>1, TakenKnown, TakenType
  <2>4. KnownEvent(Received, f) /\ bus' = Publish(Taken(e), f)
    BY <1>20, <2>2 DEF RunStep, KnownEvent, PostprocessingStepFinished
  <2> HIDE DEF e, f
  <2>5. KnownBus(Received, bus')
    BY <2>3, <2>4, PublishKnown
  <2> QED
    BY <1>20, <1>a, <2>5, SameNodes DEF RunStep, ppsVars
<1>21. ASSUME NEW u \in Uploads, NEW s \in StepSet, StepServiceDies(u, s)
       PROVE  OnlyReceived'
  <2>1. KnownBus(Received, bus')
    BY <1>0, <1>21, <1>a, BusEvents, TakenKnown DEF StepServiceDies, CurrentSteps
  <2> QED
    BY <1>21, <1>a, <2>1, SameNodes DEF StepServiceDies, ppsVars
<1>22. ASSUME NEW u \in Uploads, FinishUpload(u)
       PROVE  OnlyReceived'
  <2>1. Received \subseteq Received' /\ u \in Received'
    BY <1>0, <1>22 DEF FinishUpload, Received
  <2>2. handover' \subseteq Received'
    BY <1>22, <1>a, <2>1 DEF FinishUpload
  <2>3. KnownBus(Received', bus')
    BY <1>22, <1>a, <2>1 DEF KnownBus, KnownEvent, FinishUpload
  <2>4. \A w \in Workers : KnownWorker(Received', worker[w])
    BY <1>a, <2>1 DEF KnownWorker, KnownEvent
  <2>5. \A t \in Timer : timers[t] > 0 => KnownEvent(Received', t.ev)
    BY <1>a, <2>1 DEF KnownEvent
  <2>6. \A x \in Uploads : SessionNode(session'[x], file'[x])
    BY <1>0, <1>22, <1>a DEF FinishUpload, SessionNode
  <2> QED
    BY <1>22, <1>a, <2>1, <2>2, <2>3, <2>4, <2>5, <2>6 DEF FinishUpload, OnlyReceived, ppsVars
<1>c. ASSUME Received' = Received, KnownBus(Received, bus'), UNCHANGED ppsVars, handover' \subseteq handover,
             \A x \in Uploads : SessionNode(session'[x], file'[x])
      PROVE  OnlyReceived'
  BY <1>a, <1>c DEF OnlyReceived, ppsVars
<1>23. ASSUME NEW u \in Uploads, NEW o \in Outcomes, HandleFinished(u, o)
       PROVE  OnlyReceived'
  <2> DEFINE e == PostprocessingFinished(u, o)
  <2>1. e \in Event /\ bus[e] > 0
    BY <1>23, BusEvents DEF HandleFinished
  <2>2. KnownBus(Received, Taken(e)) /\ Taken(e) \in [Event -> Nat] /\ u \in Received
    BY <1>0, <1>a, <2>1, TakenKnown, TakenType DEF KnownBus, KnownEvent, PostprocessingFinished
  <2>3. \A f : KnownBus(Received, Publish(Taken(e), UploadReady(u, f)))
    <3>1. \A f : KnownEvent(Received, UploadReady(u, f))
      BY <2>2 DEF KnownEvent, UploadReady
    <3> QED
      BY <2>2, <3>1, PublishKnown
  <2>4. KnownBus(Received, bus')
    BY <1>23, <2>2, <2>3 DEF HandleFinished, PublishReady
  <2>5. Received' = Received
    BY <1>0, <1>23, <2>2 DEF HandleFinished, Received
  <2>6. \A x \in Uploads : SessionNode(session'[x], file'[x])
    BY <1>0, <1>23, <1>a DEF HandleFinished, SessionNode, NodeExists, Reverted
  <2> QED
    BY <1>23, <1>c, <2>4, <2>5, <2>6 DEF HandleFinished
<1>24. ASSUME NEW u \in Uploads, FinalizeFails(u)
       PROVE  OnlyReceived'
  <2> DEFINE e == PostprocessingFinished(u, "continue")
  <2>1. e \in Event /\ bus[e] > 0
    BY <1>24, BusEvents DEF FinalizeFails, Outcomes
  <2>2. KnownBus(Received, Taken(e)) /\ Taken(e) \in [Event -> Nat] /\ u \in Received
    BY <1>0, <1>a, <2>1, TakenKnown, TakenType DEF KnownBus, KnownEvent, PostprocessingFinished
  <2>3. KnownEvent(Received, UploadReady(u, "failed"))
    BY <2>2 DEF KnownEvent, UploadReady
  <2>4. KnownBus(Received, bus')
    BY <1>24, <2>2, <2>3, PublishKnown DEF FinalizeFails
  <2>5. Received' = Received
    BY <1>0, <1>24, <2>2 DEF FinalizeFails, Received
  <2>6. \A x \in Uploads : SessionNode(session'[x], file'[x])
    BY <1>0, <1>24, <1>a DEF FinalizeFails, SessionNode, NodeExists
  <2> QED
    BY <1>24, <1>c, <2>4, <2>5, <2>6 DEF FinalizeFails
<1>28. ASSUME NEW u \in Uploads, PublishBytesReceived(u) \/ FinishUploadFails(u)
       PROVE  OnlyReceived'
  <2>1. KnownEvent(Received, BytesReceived(u))
    BY <1>28, <1>a DEF PublishBytesReceived, FinishUploadFails, KnownEvent, BytesReceived
  <2>2. KnownBus(Received, bus')
    BY <1>0, <1>28, <1>a, <2>1, PublishKnown DEF PublishBytesReceived, FinishUploadFails
  <2>3. Received' = Received /\ session' = session /\ file' = file /\ handover' \subseteq handover
    BY <1>28 DEF PublishBytesReceived, FinishUploadFails, Received
  <2>4. UNCHANGED ppsVars
    BY <1>28 DEF PublishBytesReceived, FinishUploadFails
  <2> QED
    BY <1>a, <1>c, <2>2, <2>3, <2>4
<1>25. ASSUME NEW u \in Uploads, NEW o \in Outcomes, ProviderDies(u, o)
       PROVE  OnlyReceived'
  <2>1. KnownBus(Received, bus')
    BY <1>0, <1>25, <1>a, BusEvents, TakenKnown DEF ProviderDies
  <2> QED
    BY <1>25, <1>a, <2>1, SameNodes DEF ProviderDies, ppsVars
<1>26. ASSUME NEW u \in Uploads, HandleRestart(u)
       PROVE  OnlyReceived'
  <2> DEFINE e == RestartPostprocessing(u)
  <2>1. e \in Event /\ bus[e] > 0
    BY <1>26 DEF HandleRestart, Event
  <2>2. KnownBus(Received, Taken(e)) /\ Taken(e) \in [Event -> Nat]
    BY <1>0, <1>a, <2>1, TakenKnown, TakenType
  <2>3. session[u] \in {"open", "kept"} => KnownEvent(Received, BytesReceived(u))
    BY DEF KnownEvent, BytesReceived, Received
  <2>4. KnownBus(Received, bus')
    BY <1>26, <2>2, <2>3, PublishKnown DEF HandleRestart
  <2> QED
    BY <1>26, <1>a, <2>4, SameNodes DEF HandleRestart, ppsVars
<1>27. ASSUME Command
       PROVE  OnlyReceived'
  <2>1. \A u, s : /\ KnownEvent(Received, ResumePostprocessing(u, s))
                  /\ KnownEvent(Received, RestartPostprocessing(u))
    BY DEF KnownEvent, ResumePostprocessing, RestartPostprocessing
  <2>2. KnownBus(Received, bus')
    BY <1>0, <1>27, <1>a, <2>1, PublishKnown DEF Command
  <2> QED
    BY <1>27, <1>a, <2>2, SameNodes DEF Command, ppsVars
<1> QED
  BY <1>1, <1>2, <1>3, <1>4, <1>5, <1>6, <1>7, <1>8, <1>9, <1>10, <1>11, <1>12, <1>13, <1>14,
     <1>15, <1>16, <1>18, <1>19, <1>20, <1>21, <1>22, <1>23, <1>24, <1>25, <1>26, <1>27, <1>28
     DEF Next, Handle, Continue, WorkerFault, Provider

-----------------------------------------------------------------------------
(* The refinement.                                                         *)

\* Every step is one of the life of an upload, or changes nothing of it.
LEMMA LifecycleStep ==
    ASSUME TypeOK, StepOrder, OnlyReceived, [Next]_vars
    PROVE  [Lifecycle!Next]_(Lifecycle!vars)
<1>0. /\ bus \in [Event -> Nat]
      /\ passed \in [Uploads -> SUBSET StepSet]
      /\ session \in [Uploads -> {"none", "open", "kept", "gone"}]
      /\ file \in [Uploads -> {"none", "processing", "accessible", "reverted", "purged", "version"}]
  BY DEF TypeOK
<1>1. ASSUME file' = file, passed' = passed
      PROVE  [Lifecycle!Next]_(Lifecycle!vars)
  BY <1>1 DEF Lifecycle!vars
<1>2. ASSUME NEW w \in Workers, Handle(w) \/ Continue(w) \/ WorkerFault(w)
      PROVE  file' = file /\ passed' = passed
  <2>1. CASE Handle(w)
    BY <2>1 DEF Handle, HandleBytesReceived, HandleStepFinished, HandleStartDelay,
       HandleUploadReady, HandleUnknownUpload, HandleResume, spVars, histVars
  <2>2. CASE Continue(w)
    BY <2>2 DEF Continue, ResumePP, DeleteRecord, StoreRecord, PublishNext, PublishStopped,
       Ack, Leave, spVars, histVars
  <2>3. CASE WorkerFault(w)
    BY <2>3 DEF WorkerFault, StoreFails, PublishAttemptFails, PublishFatal, MarkFatal,
       Redeliver, Restarted, spVars
  <2> QED
    BY <1>2, <2>1, <2>2, <2>3
<1>3. ASSUME \/ \E t \in Timer : TimerFires(t)
             \/ Crash \/ Close \/ Exit \/ Command
             \/ \E u \in Uploads, s \in StepSet : StepServiceDies(u, s)
             \/ \E u \in Uploads : HandleRestart(u) \/ FinalizeFails(u)
             \/ \E u \in Uploads : PublishBytesReceived(u) \/ FinishUploadFails(u)
             \/ \E u \in Uploads, o \in Outcomes : ProviderDies(u, o)
             \/ UNCHANGED vars
      PROVE  file' = file /\ passed' = passed
  BY <1>3 DEF TimerFires, Crash, Close, Exit, Command, StepServiceDies, HandleRestart,
     FinalizeFails, ProviderDies, PublishBytesReceived, FinishUploadFails, Restarted,
     vars, spVars, histVars
<1>4. ASSUME NEW u \in Uploads, NEW s \in StepSet, NEW o \in Outcomes, RunStep(u, s, o)
      PROVE  [Lifecycle!Next]_(Lifecycle!vars)
  <2>1. file' = file
        /\ (passed' = passed \/ passed' = [passed EXCEPT ![u] = @ \cup {s}])
    BY <1>4 DEF RunStep, spVars
  <2>2. u \in Received /\ s \in Checks
    <3>1. StartPostprocessingStep(u, s) \in Event /\ bus[StartPostprocessingStep(u, s)] > 0
      BY <1>4, BusEvents DEF RunStep, CurrentSteps
    <3> QED
      BY <1>4, <3>1 DEF OnlyReceived, KnownBus, KnownEvent, StartPostprocessingStep, RunStep, Checks
  <2>3. file[u] # "none"
    BY <1>0, <2>2 DEF Received, OnlyReceived, SessionNode
  <2>4. CASE passed' = passed
    BY <1>1, <2>1, <2>4
  <2>5. CASE passed' = [passed EXCEPT ![u] = @ \cup {s}]
    <3>1. Lifecycle!Accept(u, s)
      BY <2>1, <2>3, <2>5 DEF Lifecycle!Accept
    <3> QED
      BY <2>2, <3>1 DEF Lifecycle!Next
  <2> QED
    BY <2>1, <2>4, <2>5
<1>5. ASSUME NEW u \in Uploads, FinishUpload(u)
      PROVE  [Lifecycle!Next]_(Lifecycle!vars)
  <2>1. file[u] = "none"
    BY <1>5 DEF FinishUpload, OnlyReceived, SessionNode
  <2>2. Lifecycle!Receive(u)
    BY <1>5, <2>1 DEF FinishUpload, histVars, Lifecycle!Receive
  <2> QED
    BY <2>2 DEF Lifecycle!Next
<1>6. ASSUME NEW u \in Uploads, NEW o \in Outcomes, HandleFinished(u, o)
      PROVE  [Lifecycle!Next]_(Lifecycle!vars)
  <2>1. passed' = passed
    BY <1>6 DEF HandleFinished
  <2>2. CASE ~NodeExists(u)
    BY <1>1, <1>6, <2>1, <2>2 DEF HandleFinished
  <2>3. CASE NodeExists(u) /\ o # "continue"
    <3>1. file' = [file EXCEPT ![u] = Reverted(u)]
      BY <1>6, <2>3 DEF HandleFinished
    <3>2. CASE file[u] # "processing"
      <4>1. file' = file
        BY <1>0, <3>1, <3>2 DEF Reverted
      <4> QED
        BY <1>1, <2>1, <4>1
    <3>3. CASE file[u] = "processing"
      <4>1. Lifecycle!Reject(u)
        BY <2>1, <3>1, <3>3 DEF Reverted, Lifecycle!Reject
      <4> QED
        BY <4>1 DEF Lifecycle!Next
    <3> QED
      BY <3>2, <3>3
  <2>4. CASE NodeExists(u) /\ o = "continue"
    <3>1. file' = [file EXCEPT ![u] = IF @ = "processing" THEN "accessible" ELSE "version"]
      BY <1>6, <2>4 DEF HandleFinished
    <3>2. file[u] \in {"processing", "reverted"}
      BY <2>4 DEF NodeExists, OnlyReceived, SessionNode
    <3>3. Checks \subseteq passed[u]
      <4>1. PostprocessingFinished(u, o) \in Event /\ bus[PostprocessingFinished(u, o)] > 0
        BY <1>6, BusEvents DEF HandleFinished
      <4> QED
        BY <2>4, <4>1 DEF StepOrder, JustBus, JustEvent, PostprocessingFinished
    <3>4. CASE file[u] = "processing"
      <4>1. Lifecycle!Release(u)
        BY <2>1, <3>1, <3>3, <3>4 DEF Lifecycle!Release
      <4> QED
        BY <4>1 DEF Lifecycle!Next
    <3>5. CASE file[u] = "reverted"
      <4>1. Lifecycle!Recover(u)
        BY <2>1, <3>1, <3>3, <3>5 DEF Lifecycle!Recover
      <4> QED
        BY <4>1 DEF Lifecycle!Next
    <3> QED
      BY <3>2, <3>4, <3>5
  <2> QED
    BY <2>2, <2>3, <2>4
<1> QED
  BY <1>1, <1>2, <1>3, <1>4, <1>5, <1>6 DEF Next, Provider

\* Only uploads that were received are worked on, always.
LEMMA OnlyReceivedAlways == Spec => []OnlyReceived
<1>1. ASSUME Init PROVE OnlyReceived
  <2>1. KnownBus(Received, bus)
    BY <1>1 DEF Init, KnownBus
  <2>2. \A w \in Workers : KnownWorker(Received, worker[w])
    BY <1>1, IdleKnown DEF Init
  <2>3. (\A t \in Timer : timers[t] = 0) /\ (\A u \in Uploads : store[u] = NoPP)
    BY <1>1 DEF Init
  <2>4. \A u \in Uploads : SessionNode(session[u], file[u])
    BY <1>1 DEF Init, SessionNode
  <2> QED
    BY <1>1, <2>1, <2>2, <2>3, <2>4 DEF Init, OnlyReceived
<1> QED
  BY <1>1, TypeCorrect, OnlyReceivedStep, PTL DEF Spec

\* The service, the step services and the storage provider together implement
\* UploadLifecycle, for every list of steps, every number of workers and every
\* number of faults: while an upload is processed nobody reads its bytes, they
\* become readable only when every check has accepted them, and a file that is
\* readable stays so.
THEOREM ImplementsLifecycle == Spec => LifecycleSpec
<1>1. Init => Lifecycle!Init
  BY DEF Init, Lifecycle!Init
<1> QED
  BY <1>1, TypeCorrect, StepOrderAlways, OnlyReceivedAlways, LifecycleStep, PTL
     DEF Spec, LifecycleSpec, Lifecycle!Spec

=============================================================================
