----------------------- MODULE PostprocessingProgress -----------------------
(***************************************************************************)
(* No upload is forgotten: as long as the storage provider waits for an    *)
(* upload, and nothing of it was given up, some event, worker or timer     *)
(* moves it on.  The inductive invariant is Progress                       *)
(* (PostprocessingInvariants).                                             *)
(*                                                                         *)
(* The actions are first reduced to a few kinds of steps, which say what   *)
(* they take from the bus, what they put there and what becomes of one     *)
(* worker.  The parts of the invariant are then proved about the kinds.    *)
(***************************************************************************)
EXTENDS PostprocessingRefinement

-----------------------------------------------------------------------------
(* Events.                                                                 *)

\* The events that move an upload on are events about it.
LEMMA DrivingEvents ==
    ASSUME NEW u \in Uploads, NEW e \in Driving(u)
    PROVE  /\ e \in Event /\ e.id = u
           /\ e.type \in {"BytesReceived", "StartPostprocessingStep", "PostprocessingStepFinished",
                          "PostprocessingFinished"}
           /\ e.type = "BytesReceived" => e = BytesReceived(u)
           /\ e.type = "StartPostprocessingStep" =>
                \E s \in StepSet : e = StartPostprocessingStep(u, s)
           /\ e.type = "PostprocessingStepFinished" =>
                \E s \in StepSet, o \in Outcomes : e = PostprocessingStepFinished(u, s, o)
           /\ e.type = "PostprocessingFinished" => \E o \in Outcomes : e = PostprocessingFinished(u, o)
<1>1. CASE e = BytesReceived(u)
  BY <1>1, BusEvents DEF BytesReceived
<1>2. ASSUME NEW s \in StepSet, e = StartPostprocessingStep(u, s) PROVE e \in Event /\ e.id = u
          /\ e.type = "StartPostprocessingStep"
  BY <1>2, BusEvents DEF StartPostprocessingStep, CurrentSteps
<1>3. ASSUME NEW s \in StepSet, NEW o \in Outcomes, e = PostprocessingStepFinished(u, s, o)
      PROVE  e \in Event /\ e.id = u /\ e.type = "PostprocessingStepFinished"
  BY <1>3, BusEvents DEF PostprocessingStepFinished
<1>4. ASSUME NEW o \in Outcomes, e = PostprocessingFinished(u, o)
      PROVE  e \in Event /\ e.id = u /\ e.type = "PostprocessingFinished"
  BY <1>4, BusEvents DEF PostprocessingFinished
<1>5. \/ e = BytesReceived(u)
      \/ \E s \in StepSet : e = StartPostprocessingStep(u, s)
      \/ \E s \in StepSet, o \in Outcomes : e = PostprocessingStepFinished(u, s, o)
      \/ \E o \in Outcomes : e = PostprocessingFinished(u, o)
  BY DEF Driving
<1> QED
  BY <1>1, <1>2, <1>3, <1>4, <1>5

\* The events that are handled without looking at the record move it on, too.
LEMMA FinishingDrives ==
    ASSUME NEW u \in Uploads
    PROVE  Finishing(u) \subseteq Driving(u)
<1> SUFFICES ASSUME NEW e \in Finishing(u) PROVE e \in Driving(u)
  OBVIOUS
<1>1. \/ \E o \in Outcomes : e = PostprocessingFinished(u, o)
      \/ \E s \in StepSet, o \in {"abort", "delete"} : e = PostprocessingStepFinished(u, s, o)
      \/ \E s \in StepSet : e = PostprocessingStepFinished(u, s, "continue")
      \/ \E s \in StepSet : e = StartPostprocessingStep(u, s)
      \/ e = BytesReceived(u)
  BY DEF Finishing
<1> QED
  BY <1>1 DEF Driving, Outcomes

\* Which of them end the postprocessing.
LEMMA FinishingForms ==
    ASSUME NEW u \in Uploads
    PROVE  /\ \A o \in Outcomes : PostprocessingFinished(u, o) \in Finishing(u)
           /\ \A s \in StepSet : Last(s) => PostprocessingStepFinished(u, s, "continue") \in Finishing(u)
           /\ \A s \in StepSet, o \in {"abort", "delete"} :
                PostprocessingStepFinished(u, s, o) \in Finishing(u)
           /\ \A s \in StepSet, o \in Outcomes : PostprocessingStepFinished(u, s, o) \in Finishing(u) =>
                o \in {"abort", "delete"} \/ (o = "continue" /\ Last(s))
           /\ \A s \in StepSet : StartPostprocessingStep(u, s) \in Finishing(u) => s = "delay" /\ Last(s)
           /\ BytesReceived(u) \in Finishing(u) <=> Len(Steps) = 0
<1>1. /\ \A o \in Outcomes : PostprocessingFinished(u, o) \in Finishing(u)
      /\ \A s \in StepSet : Last(s) => PostprocessingStepFinished(u, s, "continue") \in Finishing(u)
      /\ \A s \in StepSet, o \in {"abort", "delete"} :
           PostprocessingStepFinished(u, s, o) \in Finishing(u)
      /\ Len(Steps) = 0 => BytesReceived(u) \in Finishing(u)
  BY DEF Finishing
<1>2. ASSUME NEW e \in Finishing(u)
      PROVE  \/ e.type = "PostprocessingFinished"
             \/ e.type = "PostprocessingStepFinished" /\ e.step \in StepSet
                  /\ (e.outcome \in {"abort", "delete"} \/ (e.outcome = "continue" /\ Last(e.step)))
             \/ e.type = "StartPostprocessingStep" /\ e.step = "delay" /\ Last(e.step)
             \/ e.type = "BytesReceived" /\ Len(Steps) = 0
  <2>1. \/ \E o \in Outcomes : e = PostprocessingFinished(u, o)
        \/ \E s \in StepSet, o \in {"abort", "delete"} : e = PostprocessingStepFinished(u, s, o)
        \/ \E s \in StepSet : Last(s) /\ e = PostprocessingStepFinished(u, s, "continue")
        \/ \E s \in StepSet : s = "delay" /\ Last(s) /\ e = StartPostprocessingStep(u, s)
        \/ e = BytesReceived(u) /\ Len(Steps) = 0
    BY DEF Finishing
  <2> QED
    BY <2>1 DEF PostprocessingFinished, PostprocessingStepFinished, StartPostprocessingStep, BytesReceived
<1>3. \A s \in StepSet, o \in Outcomes : PostprocessingStepFinished(u, s, o) \in Finishing(u) =>
                o \in {"abort", "delete"} \/ (o = "continue" /\ Last(s))
  BY <1>2 DEF PostprocessingStepFinished
<1>4. \A s \in StepSet : StartPostprocessingStep(u, s) \in Finishing(u) => s = "delay" /\ Last(s)
  BY <1>2 DEF StartPostprocessingStep
<1>5. BytesReceived(u) \in Finishing(u) => Len(Steps) = 0
  BY <1>2 DEF BytesReceived
<1> QED
  BY <1>1, <1>3, <1>4, <1>5

-----------------------------------------------------------------------------
(* What the operations of a record publish.                                *)

\* next() moves the upload on, and finishes it after the last step.
LEMMA NextFollows ==
    ASSUME NEW pp \in PP, NEW u \in Uploads, NEW s \in StepSet
    PROVE  LET r == next(pp, u, s)
           IN  /\ r.next \in Driving(u)
               /\ Last(s) => r.next \in Finishing(u)
               /\ r.pp.currentStep = "finished" => Last(s)
               /\ r.pp.failures = pp.failures
<1> DEFINE Has(i) == Steps[i] = s /\ i + 1 <= Len(Steps)
           k == CHOOSE i \in 1 .. Len(Steps) : Has(i)
<1>0. Len(Steps) \in Nat
  BY StepsAssumption
<1>1. CASE \E i \in 1 .. Len(Steps) : Has(i)
  <2>1. k \in 1 .. Len(Steps) /\ Has(k)
    BY <1>1
  <2>2. next(pp, u, s) = step(pp, u, Steps[1 + k])
    BY <1>1 DEF next
  <2> HIDE DEF k
  <2>3. PICK x : x = Steps[1 + k]
    OBVIOUS
  <2>4. x \in StepSet /\ x # "finished"
    BY <1>0, <2>1, <2>3, StepsAssumption DEF StepSet
  <2>5. ~Last(s)
    BY <1>0, <2>1 DEF Last
  <2>6. step(pp, u, x).next = StartPostprocessingStep(u, x) /\ step(pp, u, x).pp.currentStep = x
        /\ step(pp, u, x).pp.failures = pp.failures
    BY DEF step, PP
  <2> QED
    BY <2>2, <2>3, <2>4, <2>5, <2>6 DEF Driving
<1>2. CASE ~ \E i \in 1 .. Len(Steps) : Has(i)
  <2>1. next(pp, u, s) = finished(pp, u, "continue")
    BY <1>2 DEF next
  <2>2. Last(s)
    BY <1>0, <1>2 DEF Last
  <2>3. finished(pp, u, "continue").next = PostprocessingFinished(u, "continue")
        /\ finished(pp, u, "continue").pp.failures = pp.failures
    BY DEF finished, PP
  <2> QED
    BY <2>1, <2>2, <2>3, FinishingForms, FinishingDrives DEF Outcomes
<1> QED
  BY <1>1, <1>2

\* Init starts the first step, or finishes an upload without steps.
LEMMA InitFollows ==
    ASSUME NEW u \in Uploads
    PROVE  LET r == InitPP(New, u)
           IN  /\ r.next \in Driving(u) /\ r.next \in Delayed
               /\ BytesReceived(u) \in Finishing(u) => r.next \in Finishing(u)
               /\ r.pp.currentStep = "finished" => BytesReceived(u) \in Finishing(u)
               /\ r.pp \in PP
<1>0. Len(Steps) \in Nat /\ New \in PP
  BY StepsAssumption DEF New, PP, CurrentSteps
<1>1. CASE Len(Steps) = 0
  <2>1. InitPP(New, u).next = PostprocessingFinished(u, "continue")
    BY <1>1 DEF InitPP, finished
  <2> QED
    BY <1>1, <2>1, FinishingForms, FinishingDrives, InitValid DEF Outcomes, ValidPP
<1>2. CASE Len(Steps) # 0
  <2>1. PICK x : x = Steps[1]
    OBVIOUS
  <2>2. x \in StepSet /\ x # "finished"
    BY <1>0, <1>2, <2>1, StepsAssumption DEF StepSet
  <2>3. /\ InitPP(New, u).next = StartPostprocessingStep(u, x)
        /\ InitPP(New, u).pp.currentStep = x
    BY <1>0, <1>2, <2>1 DEF InitPP, step, PP
  <2> QED
    BY <1>2, <2>2, <2>3, FinishingForms, InitValid DEF Driving, ValidPP
<1> QED
  BY <1>1, <1>2

\* A result moves the upload on unless it asks for another attempt, which is
\* up to the timer then; a record that is finished before its failures exceed
\* the limit was finished by this result or before it.
LEMMA NextStepFollows ==
    ASSUME NEW pp \in PP, NEW u \in Uploads, NEW s \in StepSet, NEW o \in Outcomes, ValidPP(pp)
    PROVE  LET r == NextStep(pp, u, s, o)
               e == PostprocessingStepFinished(u, s, o)
           IN  /\ r.pp \in PP /\ r.next \in Event
               /\ r.next \in Delayed \/ r.next.type = "PostprocessingRetry"
               /\ r.next \in Delayed => r.next \in Driving(u)
               /\ e \in Finishing(u) => r.next \in Finishing(u) /\ r.next \in Delayed
               /\ r.next \notin Delayed =>
                    /\ e \notin Finishing(u)
                    /\ r.pp.outcome = "retry" /\ r.pp.currentStep = pp.currentStep
                    /\ pp.failures <= MaxRetries
               /\ r.pp.currentStep = "finished" /\ r.pp.failures <= MaxRetries =>
                    \/ e \in Finishing(u)
                    \/ pp.currentStep = "finished" /\ pp.failures <= MaxRetries
<1> DEFINE r == NextStep(pp, u, s, o)
           e == PostprocessingStepFinished(u, s, o)
           failed == [pp EXCEPT !.failures = @ + 1]
<1>0. r.pp \in PP /\ r.next \in Event /\ failed \in PP /\ failed.failures = pp.failures + 1
      /\ failed.currentStep = pp.currentStep /\ pp.failures \in Nat /\ MaxRetries \in Nat
  BY NextStepValid, MaxRetriesAssumption DEF ValidPP, PP
<1>a. \A x \in Outcomes : /\ finished(pp, u, x).next = PostprocessingFinished(u, x)
                          /\ finished(failed, u, x).next = PostprocessingFinished(u, x)
                          /\ PostprocessingFinished(u, x) \in Delayed
                          /\ PostprocessingFinished(u, x) \in Finishing(u)
                          /\ PostprocessingFinished(u, x) \in Driving(u)
  BY DelayedEvents, FinishingForms, FinishingDrives DEF finished, PostprocessingFinished
<1>b. \A q \in PP, x \in Outcomes : finished(q, u, x).pp.failures = q.failures
  BY DEF finished, PP
<1>c. \A q \in PP : /\ retry(q, u).pp.failures = q.failures /\ retry(q, u).pp.outcome = "retry"
                    /\ retry(q, u).pp.currentStep = q.currentStep
                    /\ retry(q, u).next = PostprocessingRetry(u)
  BY DEF retry, PP
<1>d. PostprocessingRetry(u) \notin Delayed /\ PostprocessingRetry(u).type = "PostprocessingRetry"
  <2>1. \A x \in Delayed : x.type \in {"StartPostprocessingStep", "PostprocessingFinished"}
    BY DEF Delayed, StartPostprocessingStep, PostprocessingFinished
  <2> QED
    BY <2>1 DEF PostprocessingRetry
<1>1. CASE o = "continue"
  <2>1. r = next(pp, u, s)
    BY <1>1 DEF NextStep
  <2>2. r.next \in Delayed /\ r.next \in Driving(u)
    BY <2>1, NextValid, NextFollows
  <2>3. Last(s) <=> e \in Finishing(u)
    BY <1>1, FinishingForms
  <2> QED
    BY <1>0, <2>1, <2>2, <2>3, NextFollows
<1>2. CASE o \in {"abort", "delete"}
  <2>1. r = finished(pp, u, o) /\ e \in Finishing(u)
    BY <1>2, FinishingForms DEF NextStep
  <2> QED
    BY <1>0, <1>a, <2>1
<1>3. CASE o = "retry" /\ pp.failures + 1 > MaxRetries
  <2>1. r = finished(failed, u, "abort") /\ e \notin Finishing(u)
    BY <1>0, <1>3, FinishingForms DEF NextStep
  <2>2. r.pp.failures = pp.failures + 1
    BY <1>0, <1>b, <2>1 DEF Outcomes
  <2> QED
    BY <1>0, <1>3, <1>a, <2>1, <2>2 DEF Outcomes
<1>4. CASE o = "retry" /\ ~(pp.failures + 1 > MaxRetries)
  <2>1. r = retry(failed, u) /\ e \notin Finishing(u)
    BY <1>0, <1>4, FinishingForms DEF NextStep
  <2>2. r.pp.failures = pp.failures + 1 /\ r.pp.currentStep = pp.currentStep /\ r.pp.outcome = "retry"
        /\ r.next = PostprocessingRetry(u)
    BY <1>0, <1>c, <2>1
  <2>3. r.next \notin Delayed /\ r.next.type = "PostprocessingRetry"
    BY <1>d, <2>2
  <2> QED
    BY <1>0, <1>4, <2>1, <2>2, <2>3
<1> QED
  BY <1>1, <1>2, <1>3, <1>4 DEF Outcomes

-----------------------------------------------------------------------------
(* The kinds of steps.                                                     *)

\* The bus after a step that may take the events of minus and publishes those
\* of plus.
BusBy(minus, plus) ==
    \A e \in Event :
        /\ bus'[e] > 0 => bus[e] > 0 \/ e \in plus
        /\ bus[e] > 0 /\ e \notin minus => bus'[e] > 0
        /\ e \in plus => bus'[e] > 0

\* The same for goroutines that are started.
TimersBy(plus) == \A t \in Timer : timers'[t] > 0 <=> timers[t] > 0 \/ t \in plus

SameService == store' = store /\ worker' = worker /\ timers' = timers
SameProvider == session' = session
OnlyWorker(w) == \A x \in Workers : x # w => worker'[x] = worker[x]

\* A worker takes an event.
TakesFrom(w, e) ==
    /\ e \in Event /\ bus[e] > 0 /\ worker[w].pc = "idle"
    /\ BusBy({e}, {}) /\ OnlyWorker(w) /\ store' = store /\ SameProvider
    /\ worker'[w].ev = e /\ worker'[w].held

ToStore(w, pp, nxt) == worker'[w].pc = "store" /\ worker'[w].pp = pp /\ worker'[w].next = nxt

TakesBytes(w, u) ==
    /\ TakesFrom(w, BytesReceived(u))
    /\ ToStore(w, InitPP(New, u).pp, InitPP(New, u).next)
    /\ timers' = timers /\ lost' = lost

RetryTimer(u, pp) == [kind |-> "retry", ev |-> StartPostprocessingStep(u, pp.currentStep)]

TakesResult(w, u, s, o) ==
    LET r == NextStep(store[u], u, s, o)
    IN  /\ TakesFrom(w, PostprocessingStepFinished(u, s, o))
        /\ store[u] # NoPP
        /\ ToStore(w, r.pp, r.next)
        /\ TimersBy(IF r.pp.outcome = "retry" THEN {RetryTimer(u, r.pp)} ELSE {})
        /\ lost' = lost

DelayTimer(e) == [kind |-> "delay", ev |-> e]

TakesDelay(w, u) ==
    LET r == next(store[u], u, "delay")
    IN  /\ "delay" \in StepSet
        /\ TakesFrom(w, StartPostprocessingStep(u, "delay"))
        /\ store[u] # NoPP
        /\ ToStore(w, r.pp, NoEvent)
        /\ TimersBy({DelayTimer(r.next)})
        /\ lost' = lost

TakesReady(w, u, f) ==
    /\ TakesFrom(w, UploadReady(u, f))
    /\ worker'[w].pc \in {"mark", "delete"} /\ worker'[w].pp # NoPP /\ worker'[w].next = NoEvent
    /\ timers' = timers /\ lost' = lost

TakesUnknown(w, e) ==
    /\ TakesFrom(w, e)
    /\ e.type \in {"PostprocessingStepFinished", "UploadReady", "StartPostprocessingStep"}
    /\ worker'[w].pc = "ack" /\ worker'[w].next = NoEvent
    /\ timers' = timers
    /\ \/ store[e.id] = NoPP /\ lost' = lost
       \/ lost' = lost \cup {e.id}

TakesCommand(w, e) ==
    /\ TakesFrom(w, e)
    /\ e.type = "ResumePostprocessing"
    /\ worker'[w].pc = "resume" /\ worker'[w].next = NoEvent
    /\ timers' = timers /\ lost' = lost

\* A worker goes on with the event it took.
Keeps(w) ==
    /\ OnlyWorker(w) /\ SameProvider /\ timers' = timers /\ lost' = lost
    /\ worker'[w].ev = worker[w].ev

KeepsAll(w) ==
    /\ worker'[w].next = worker[w].next /\ worker'[w].pp = worker[w].pp

Acks(w) ==
    /\ worker'[w].pc = "ack" /\ worker'[w].next = NoEvent

Resumes(w, u) ==
    /\ worker[w].pc = "resume" /\ worker'[w].pc = "resume"
    /\ Keeps(w) /\ KeepsAll(w) /\ store' = store
    /\ \/ BusBy({}, {})
       \/ BusBy({}, {RestartPostprocessing(u)})
       \/ store[u] # NoPP /\ BusBy({}, {CurrentStep(store[u], u).next})

Deletes(w) ==
    /\ worker[w].pc = "delete" /\ worker'[w].pc = "store"
    /\ Keeps(w) /\ KeepsAll(w) /\ bus' = bus
    /\ store' = [store EXCEPT ![worker[w].ev.id] = NoPP]

Stores(w) ==
    /\ worker[w].pc \in {"mark", "store"}
    /\ Keeps(w) /\ bus' = bus
    /\ store' = [store EXCEPT ![worker[w].ev.id] = worker[w].pp]
    /\ \/ worker[w].next = NoEvent /\ Acks(w)
       \/ /\ worker[w].next # NoEvent /\ worker'[w].pc = "publish"
          /\ worker'[w].next = worker[w].next /\ worker'[w].held = worker[w].held

Skips(w) == worker[w].pc = "delete" /\ Keeps(w) /\ Acks(w) /\ bus' = bus /\ store' = store

Publishes(w) ==
    /\ worker[w].pc = "publish" /\ Keeps(w) /\ Acks(w) /\ store' = store
    /\ BusBy({}, {e \in Event : e = worker[w].next /\ e.type # "PostprocessingRetry"})

\* What a worker can put on the bus: the event that it took, and the next one.
Gives(w) ==
    {e \in Event : \/ e = worker[w].ev
                   \/ worker[w].pc = "publish" /\ e = worker[w].next}

BusMay(ws) ==
    \A e \in Event :
        /\ bus[e] > 0 => bus'[e] > 0
        /\ bus'[e] > 0 => bus[e] > 0 \/ \E w \in ws : e \in Gives(w)

GivesBack(w) ==
    \A e \in Event : e = worker[w].ev /\ e.type # "PostprocessingRetry" => bus'[e] > 0

Freed(w) == worker'[w].pc \in {"idle", "left"} /\ worker'[w].ev = NoEvent /\ worker'[w].next = NoEvent

Releases(w) ==
    /\ OnlyWorker(w) /\ Freed(w) /\ SameProvider
    /\ store' = store /\ timers' = timers /\ lost' = lost
    /\ BusMay({w})
    /\ worker[w].pc \in {"store", "publish"} /\ worker[w].held => GivesBack(w)

Repeats(w) ==
    /\ Keeps(w) /\ KeepsAll(w) /\ store' = store
    /\ worker'[w].pc = worker[w].pc
    /\ BusMay({w})
    /\ worker'[w].held = worker[w].held \/ GivesBack(w)

Fires(t) ==
    /\ timers[t] > 0 /\ \A x \in Timer : x # t => timers'[x] = timers[x]
    /\ store' = store /\ worker' = worker /\ SameProvider
    /\ \/ BusBy({}, {t.ev}) /\ lost' = lost
       \/ bus' = bus /\ lost' = lost \cup {t.ev.id}

Restarts ==
    /\ \A w \in Workers : Freed(w)
    /\ \A t \in Timer : timers'[t] = 0 /\ (timers[t] > 0 /\ t.ev.id \in Uploads => t.ev.id \in lost')
    /\ store' = store /\ SameProvider /\ lost \subseteq lost'
    /\ BusMay(Workers)
    /\ \A w \in Workers : worker[w].held /\ worker[w].pc # "mark" => GivesBack(w)

\* Nothing moves, but something may be given up.
Rests == SameService /\ SameProvider /\ lost \subseteq lost' /\ bus' = bus

RunsStep(u, s, o) ==
    /\ s # "delay" /\ bus[StartPostprocessingStep(u, s)] > 0
    /\ SameService /\ SameProvider /\ lost' = lost
    /\ BusBy({StartPostprocessingStep(u, s)}, {PostprocessingStepFinished(u, s, o)})

Loses(u, e) ==
    /\ e.id = u /\ SameService /\ SameProvider /\ lost' = lost \cup {u}
    /\ BusBy({e}, {})

Receives(u) ==
    /\ session[u] = "none" /\ session' = [session EXCEPT ![u] = "open"]
    /\ SameService /\ lost' = lost /\ bus' = bus
    /\ u \in handover'

Decides(u, o) ==
    /\ \A x \in Uploads : x # u => session'[x] = session[x]
    /\ SameService /\ lost' = lost
    /\ \/ /\ session[u] = "none" /\ session'[u] = "none"
          /\ BusBy({PostprocessingFinished(u, o)}, {})
       \/ /\ session'[u] \in {"kept", "gone"}
          /\ \/ BusBy({PostprocessingFinished(u, o)}, {})
             \/ \E f \in {"ok", "failed"} : BusBy({PostprocessingFinished(u, o)}, {UploadReady(u, f)})

\* The administrator asks for something, or the storage provider starts the
\* postprocessing, or is asked to start it again.
Asks ==
    /\ SameService /\ SameProvider /\ lost' = lost
    /\ \A e \in Event :
        /\ bus[e] > 0 /\ e.type # "RestartPostprocessing" => bus'[e] > 0
        /\ bus'[e] > 0 => \/ bus[e] > 0
                          \/ e.type \in {"ResumePostprocessing", "RestartPostprocessing"}
                          \/ \E u \in Uploads : e = BytesReceived(u)

Takes(w) ==
    \/ \E u \in Uploads :
         \/ TakesBytes(w, u)
         \/ \E s \in StepSet, o \in Outcomes : TakesResult(w, u, s, o)
         \/ TakesDelay(w, u)
         \/ \E f \in {"ok", "failed"} : TakesReady(w, u, f)
    \/ \E e \in Event : TakesUnknown(w, e) \/ TakesCommand(w, e)

GoesOn(w) ==
    \/ \E u \in Uploads : Resumes(w, u)
    \/ Deletes(w) \/ Stores(w) \/ Skips(w) \/ Publishes(w) \/ Releases(w) \/ Repeats(w)

Kinds ==
    \/ \E w \in Workers : Takes(w) \/ GoesOn(w)
    \/ \E t \in Timer : Fires(t)
    \/ Restarts \/ Rests \/ Asks
    \/ \E u \in Uploads, s \in StepSet, o \in Outcomes : RunsStep(u, s, o)
    \/ \E u \in Uploads, s \in StepSet : s # "delay" /\ Loses(u, StartPostprocessingStep(u, s))
    \/ \E u \in Uploads, o \in Outcomes : Loses(u, PostprocessingFinished(u, o)) \/ Decides(u, o)
    \/ \E u \in Uploads : Receives(u)

-----------------------------------------------------------------------------
(* Every step is of one of these kinds.                                    *)

\* Publishing and taking, event by event.
LEMMA PublishedOne ==
    ASSUME NEW b \in [Event -> Nat], NEW x
    PROVE  \A e \in Event :
              Publish(b, x)[e] > 0 <=> b[e] > 0 \/ (e = x /\ x.type # "PostprocessingRetry")
BY DEF Publish

\* The same for taking one.
LEMMA TakenOne ==
    ASSUME bus \in [Event -> Nat], NEW x \in Event, bus[x] > 0
    PROVE  /\ Taken(x) \in [Event -> Nat]
           /\ \A e \in Event : (Taken(x)[e] > 0 => bus[e] > 0) /\ (bus[e] > 0 /\ e # x => Taken(x)[e] > 0)
BY DEF Taken

\* The handlers take an event.
LEMMA TakenFrom ==
    ASSUME TypeOK, NEW w \in Workers, NEW e \in Event, CanTake(w, e), NEW c,
           bus' = Taken(e), worker' = [worker EXCEPT ![w] = c], c.ev = e, c.held,
           store' = store, session' = session
    PROVE  TakesFrom(w, e) /\ worker'[w] = c
<1>1. BusBy({e}, {})
  BY TakenOne DEF TypeOK, CanTake, BusBy
<1>2. worker'[w] = c /\ OnlyWorker(w)
  BY DEF TypeOK, OnlyWorker
<1> QED
  BY <1>1, <1>2 DEF TakesFrom, CanTake, SameProvider

\* The fields of a worker that has just taken an event.
LEMMA BusyFields ==
    ASSUME NEW pc, NEW e, NEW pp, NEW n
    PROVE  /\ Busy(pc, e, pp, n).pc = pc /\ Busy(pc, e, pp, n).ev = e /\ Busy(pc, e, pp, n).pp = pp
           /\ Busy(pc, e, pp, n).next = n /\ Busy(pc, e, pp, n).held
BY DEF Busy

\* A goroutine is started.
LEMMA TimerStarted ==
    ASSUME TypeOK, NEW t \in Timer, timers' = [timers EXCEPT ![t] = @ + 1]
    PROVE  TimersBy({t})
BY DEF TypeOK, TimersBy

\* The events that the handlers wait for.
LEMMA HandledEvents ==
    ASSUME NEW u \in Uploads
    PROVE  /\ BytesReceived(u) \in Event
           /\ \A s \in StepSet, o \in Outcomes : PostprocessingStepFinished(u, s, o) \in Event
           /\ \A s \in StepSet : StartPostprocessingStep(u, s) \in Event
           /\ \A f \in {"ok", "failed"} : UploadReady(u, f) \in Event
           /\ \A o \in Outcomes : PostprocessingFinished(u, o) \in Event
           /\ RestartPostprocessing(u) \in Event
<1>1. RestartPostprocessing(u) \in Event
  BY DEF Event
<1> QED
  BY <1>1, BusEvents DEF CurrentSteps

\* The handlers of the service are steps in which a worker takes an event.
LEMMA HandleKind ==
    ASSUME TypeOK, NEW w \in Workers, Handle(w)
    PROVE  Takes(w)
<1>1. ASSUME NEW u \in Uploads, HandleBytesReceived(w, u) PROVE TakesBytes(w, u)
  <2>1. PICK c : c = Busy("store", BytesReceived(u), InitPP(New, u).pp, InitPP(New, u).next)
    OBVIOUS
  <2>2. /\ CanTake(w, BytesReceived(u)) /\ bus' = Taken(BytesReceived(u))
        /\ worker' = [worker EXCEPT ![w] = c] /\ store' = store /\ timers' = timers
        /\ session' = session /\ lost' = lost
    BY <1>1, <2>1 DEF HandleBytesReceived, spVars, histVars
  <2>3. /\ c.ev = BytesReceived(u) /\ c.held /\ c.pc = "store"
        /\ c.pp = InitPP(New, u).pp /\ c.next = InitPP(New, u).next
    BY <2>1, BusyFields
  <2>4. TakesFrom(w, BytesReceived(u)) /\ worker'[w] = c
    BY <2>2, <2>3, HandledEvents, TakenFrom
  <2> QED
    BY <2>2, <2>3, <2>4 DEF TakesBytes, ToStore
<1>2. ASSUME NEW u \in Uploads, NEW s \in StepSet, NEW o \in Outcomes, HandleStepFinished(w, u, s, o)
      PROVE  TakesResult(w, u, s, o)
  <2>1. PICK e \in Event : e = PostprocessingStepFinished(u, s, o)
    BY HandledEvents
  <2>2. PICK r : r = NextStep(store[u], u, s, o)
    OBVIOUS
  <2>3. PICK c : c = Busy("store", e, r.pp, r.next)
    OBVIOUS
  <2>4. PICK t : t = RetryTimer(u, r.pp)
    OBVIOUS
  <2>5. /\ CanTake(w, e) /\ bus' = Taken(e) /\ store[u] # NoPP
        /\ worker' = [worker EXCEPT ![w] = c] /\ store' = store
        /\ timers' = IF r.pp.outcome = "retry" THEN [timers EXCEPT ![t] = @ + 1] ELSE timers
        /\ session' = session /\ lost' = lost
    BY <1>2, <2>1, <2>2, <2>3, <2>4 DEF HandleStepFinished, RetryTimer, spVars, histVars
  <2>6. c.ev = e /\ c.held /\ c.pc = "store" /\ c.pp = r.pp /\ c.next = r.next
    BY <2>3, BusyFields
  <2>7. TakesFrom(w, e) /\ worker'[w] = c
    BY <2>5, <2>6, TakenFrom
  <2>8. t \in Timer
    <3>1. store[u] \in PP /\ ValidPP(store[u])
      BY <2>5 DEF TypeOK, ValidPP
    <3>2. r.pp \in PP
      BY <2>2, <3>1, NextStepFollows
    <3> QED
      BY <2>4, <3>2, DelayedEvents DEF RetryTimer, Timer, PP
  <2>9. TimersBy(IF r.pp.outcome = "retry" THEN {t} ELSE {})
    <3>1. CASE r.pp.outcome = "retry"
      BY <2>5, <2>8, <3>1, TimerStarted
    <3>2. CASE r.pp.outcome # "retry"
      BY <2>5, <3>2 DEF TimersBy
    <3> QED
      BY <3>1, <3>2
  <2> QED
    BY <2>1, <2>2, <2>4, <2>5, <2>6, <2>7, <2>9 DEF TakesResult, ToStore
<1>3. ASSUME NEW u \in Uploads, HandleStartDelay(w, u) PROVE TakesDelay(w, u)
  <2>1. PICK e \in Event : e = StartPostprocessingStep(u, "delay") /\ "delay" \in StepSet
    BY <1>3, HandledEvents DEF HandleStartDelay
  <2>2. PICK r : r = next(store[u], u, "delay")
    OBVIOUS
  <2>3. PICK c : c = Busy("store", e, r.pp, NoEvent)
    OBVIOUS
  <2>4. PICK t : t = DelayTimer(r.next)
    OBVIOUS
  <2>5. /\ CanTake(w, e) /\ bus' = Taken(e) /\ store[u] # NoPP
        /\ worker' = [worker EXCEPT ![w] = c] /\ store' = store
        /\ timers' = [timers EXCEPT ![t] = @ + 1]
        /\ session' = session /\ lost' = lost
    BY <1>3, <2>1, <2>2, <2>3, <2>4 DEF HandleStartDelay, DelayTimer, spVars, histVars
  <2>6. c.ev = e /\ c.held /\ c.pc = "store" /\ c.pp = r.pp /\ c.next = NoEvent
    BY <2>3, BusyFields
  <2>7. TakesFrom(w, e) /\ worker'[w] = c
    BY <2>5, <2>6, TakenFrom
  <2>8. t \in Timer
    <3>1. r.next \in Delayed
      BY <2>2, <2>5, NextValid DEF TypeOK
    <3> QED
      BY <2>4, <3>1 DEF DelayTimer, Timer
  <2>9. TimersBy({t})
    BY <2>5, <2>8, TimerStarted
  <2> QED
    BY <2>1, <2>2, <2>4, <2>5, <2>6, <2>7, <2>9 DEF TakesDelay, ToStore
<1>4. ASSUME NEW u \in Uploads, NEW f \in {"ok", "failed"}, HandleUploadReady(w, u, f)
      PROVE  TakesReady(w, u, f)
  <2>1. PICK e \in Event : e = UploadReady(u, f)
    BY HandledEvents
  <2>2. PICK p : p = IF f = "failed" THEN [store[u] EXCEPT !.finished = TRUE] ELSE store[u]
    OBVIOUS
  <2>3. PICK pc \in {"mark", "delete"} : pc = IF f = "failed" THEN "mark" ELSE "delete"
    OBVIOUS
  <2>4. PICK c : c = Busy(pc, e, p, NoEvent)
    OBVIOUS
  <2>5. /\ CanTake(w, e) /\ bus' = Taken(e) /\ store[u] # NoPP
        /\ worker' = [worker EXCEPT ![w] = c] /\ store' = store /\ timers' = timers
        /\ session' = session /\ lost' = lost
    BY <1>4, <2>1, <2>2, <2>3, <2>4 DEF HandleUploadReady, spVars, histVars
  <2>6. c.ev = e /\ c.held /\ c.pc = pc /\ c.pp = p /\ c.next = NoEvent
    BY <2>4, BusyFields
  <2>7. TakesFrom(w, e) /\ worker'[w] = c
    BY <2>5, <2>6, TakenFrom
  <2>8. p # NoPP
    <3>1. store[u] \in PP
      BY <2>5 DEF TypeOK
    <3>2. p \in PP
      BY <2>2, <3>1 DEF PP
    <3> QED
      BY <3>2, NoPPAssumption
  <2> QED
    BY <2>1, <2>3, <2>5, <2>6, <2>7, <2>8 DEF TakesReady
<1>5. ASSUME NEW e \in Event, HandleUnknownUpload(w, e) PROVE TakesUnknown(w, e)
  <2>1. PICK c : c = Busy("ack", e, NoPP, NoEvent)
    OBVIOUS
  <2>2. /\ CanTake(w, e) /\ bus' = Taken(e)
        /\ worker' = [worker EXCEPT ![w] = c] /\ store' = store /\ timers' = timers
        /\ session' = session
        /\ e.type \in {"PostprocessingStepFinished", "UploadReady", "StartPostprocessingStep"}
        /\ (store[e.id] = NoPP /\ lost' = lost) \/ lost' = lost \cup {e.id}
    BY <1>5, <2>1 DEF HandleUnknownUpload, spVars
  <2>3. c.ev = e /\ c.held /\ c.pc = "ack" /\ c.next = NoEvent
    BY <2>1, BusyFields
  <2>4. TakesFrom(w, e) /\ worker'[w] = c
    BY <2>2, <2>3, TakenFrom
  <2> QED
    BY <2>2, <2>3, <2>4 DEF TakesUnknown
<1>6. ASSUME NEW e \in Event, HandleResume(w, e) PROVE TakesCommand(w, e)
  <2>1. PICK ids : ids = IF e.step = "-" THEN {e.id}
                         ELSE {u \in Uploads : store[u] # NoPP /\ store[u].currentStep = e.step}
    OBVIOUS
  <2>2. PICK c : c = [Busy("resume", e, NoPP, NoEvent) EXCEPT !.ids = ids]
    OBVIOUS
  <2>3. /\ CanTake(w, e) /\ bus' = Taken(e) /\ e.type = "ResumePostprocessing"
        /\ worker' = [worker EXCEPT ![w] = c] /\ store' = store /\ timers' = timers
        /\ session' = session /\ lost' = lost
    BY <1>6, <2>1, <2>2 DEF HandleResume, spVars, histVars
  <2>4. c.ev = e /\ c.held /\ c.pc = "resume" /\ c.next = NoEvent
    BY <2>2 DEF Busy
  <2>5. TakesFrom(w, e) /\ worker'[w] = c
    BY <2>3, <2>4, TakenFrom
  <2> QED
    BY <2>3, <2>4, <2>5 DEF TakesCommand
<1> QED
  BY <1>1, <1>2, <1>3, <1>4, <1>5, <1>6 DEF Handle, Takes

\* Workers that are free, and those that have only the acknowledgement left.
LEMMA FreeFields ==
    /\ Idle.pc = "idle" /\ Idle.ev = NoEvent /\ Idle.next = NoEvent
    /\ Released.pc \in {"idle", "left"} /\ Released.ev = NoEvent /\ Released.next = NoEvent
    /\ \A w \in Workers : Acking(w).pc = "ack" /\ Acking(w).next = NoEvent /\ Acking(w).ev = worker[w].ev
BY DEF Idle, Released, Acking

\* A worker that is changed, alone.
LEMMA WorkerChanged ==
    ASSUME TypeOK, NEW w \in Workers, NEW c, worker' = [worker EXCEPT ![w] = c]
    PROVE  worker'[w] = c /\ OnlyWorker(w)
BY DEF TypeOK, OnlyWorker

\* A worker that has put back the event it took.
LEMMA ReturnedOne ==
    ASSUME TypeOK, NEW w \in Workers, NEW b \in [Event -> Nat],
           \A e \in Event : /\ bus[e] > 0 => b[e] > 0
                            /\ b[e] > 0 => bus[e] > 0 \/ e \in Gives(w),
           bus' = IF worker[w].held THEN Publish(b, worker[w].ev) ELSE b
    PROVE  BusMay({w}) /\ (worker[w].held => GivesBack(w))
<1>1. PICK x : x = worker[w].ev
  OBVIOUS
<1>2. \A e \in Event : Publish(b, x)[e] > 0 <=> b[e] > 0 \/ (e = x /\ x.type # "PostprocessingRetry")
  BY PublishedOne
<1> QED
  BY <1>1, <1>2 DEF BusMay, GivesBack, Gives

\* What follows the switch is of these kinds.
LEMMA ContinueKind ==
    ASSUME TypeOK, NEW w \in Workers, Continue(w)
    PROVE  GoesOn(w)
<1>0. bus \in [Event -> Nat] /\ worker[w] \in WorkerState
  BY DEF TypeOK
<1>1. ASSUME NEW u \in Uploads, ResumePP(w, u) PROVE Resumes(w, u)
  <2>1. PICK c : c = [worker[w] EXCEPT !.ids = worker[w].ids \ {u}]
    OBVIOUS
  <2>2. c.pc = worker[w].pc /\ c.ev = worker[w].ev /\ c.next = worker[w].next /\ c.pp = worker[w].pp
    BY <1>0, <2>1 DEF WorkerState
  <2>3. /\ worker' = [worker EXCEPT ![w] = c] /\ worker[w].pc = "resume"
        /\ store' = store /\ timers' = timers /\ session' = session /\ lost' = lost
    BY <1>0, <1>1, <2>1 DEF ResumePP, spVars, TypeOK
  <2>4. worker'[w] = c /\ OnlyWorker(w)
    BY <2>3, WorkerChanged
  <2>5. \/ BusBy({}, {}) \/ BusBy({}, {RestartPostprocessing(u)})
        \/ store[u] # NoPP /\ BusBy({}, {CurrentStep(store[u], u).next})
    <3>1. \/ bus' = bus \/ bus' = Publish(bus, RestartPostprocessing(u))
          \/ store[u] # NoPP /\ bus' = Publish(bus, CurrentStep(store[u], u).next)
      BY <1>1 DEF ResumePP
    <3>2. CASE bus' = bus
      BY <3>2 DEF BusBy
    <3>3. CASE bus' = Publish(bus, RestartPostprocessing(u))
      <4>1. RestartPostprocessing(u).type # "PostprocessingRetry"
        BY DEF RestartPostprocessing
      <4> QED
        BY <1>0, <3>3, <4>1, PublishedOne DEF BusBy
    <3>4. CASE store[u] # NoPP /\ bus' = Publish(bus, CurrentStep(store[u], u).next)
      <4>1. store[u] \in PP /\ ValidPP(store[u])
        BY <3>4 DEF TypeOK, ValidPP
      <4>2. PICK x \in Delayed : x = CurrentStep(store[u], u).next
        BY <4>1, CurrentStepValid
      <4>3. x.type # "PostprocessingRetry"
        BY DEF Delayed, StartPostprocessingStep, PostprocessingFinished
      <4>4. BusBy({}, {x})
        BY <1>0, <3>4, <4>2, <4>3, PublishedOne DEF BusBy
      <4> QED
        BY <3>4, <4>2, <4>4
    <3> QED
      BY <3>1, <3>2, <3>3, <3>4
  <2> QED
    BY <2>2, <2>3, <2>4, <2>5 DEF Resumes, Keeps, KeepsAll, SameProvider
<1>2. CASE DeleteRecord(w)
  <2>1. PICK c : c = [worker[w] EXCEPT !.pc = "store"]
    OBVIOUS
  <2>2. c.pc = "store" /\ c.ev = worker[w].ev /\ c.next = worker[w].next /\ c.pp = worker[w].pp
    BY <1>0, <2>1 DEF WorkerState
  <2>3. /\ worker[w].pc = "delete" /\ bus' = bus /\ timers' = timers /\ session' = session /\ lost' = lost
        /\ \/ store' = [store EXCEPT ![worker[w].ev.id] = NoPP] /\ worker' = [worker EXCEPT ![w] = c]
           \/ store' = store /\ worker' = [worker EXCEPT ![w] = Acking(w)]
    BY <1>0, <1>2, <2>1 DEF DeleteRecord, spVars, TypeOK
  <2>4. CASE store' = [store EXCEPT ![worker[w].ev.id] = NoPP] /\ worker' = [worker EXCEPT ![w] = c]
    BY <2>2, <2>3, <2>4, WorkerChanged DEF GoesOn, Deletes, Keeps, KeepsAll, SameProvider
  <2>5. CASE store' = store /\ worker' = [worker EXCEPT ![w] = Acking(w)]
    <3>1. worker'[w] = Acking(w) /\ OnlyWorker(w)
      BY <2>5, WorkerChanged
    <3> QED
      BY <2>3, <2>5, <3>1, FreeFields DEF GoesOn, Skips, Keeps, Acks, SameProvider
  <2> QED
    BY <2>3, <2>4, <2>5
<1>3. CASE StoreRecord(w)
  <2>1. PICK c : c = Publishing(w)
    OBVIOUS
  <2>2. c.pc = "publish" /\ c.ev = worker[w].ev /\ c.next = worker[w].next /\ c.held = worker[w].held
    BY <1>0, <2>1 DEF WorkerState, Publishing
  <2>3. /\ worker[w].pc \in {"mark", "store"} /\ bus' = bus /\ timers' = timers /\ session' = session
        /\ lost' = lost /\ store' = [store EXCEPT ![worker[w].ev.id] = worker[w].pp]
        /\ \/ worker[w].next = NoEvent /\ worker' = [worker EXCEPT ![w] = Acking(w)]
           \/ worker[w].next # NoEvent /\ worker' = [worker EXCEPT ![w] = c]
    BY <1>3, <2>1 DEF StoreRecord, spVars, histVars
  <2>4. CASE worker[w].next # NoEvent /\ worker' = [worker EXCEPT ![w] = c]
    BY <2>2, <2>3, <2>4, WorkerChanged DEF GoesOn, Stores, Keeps, SameProvider
  <2>5. CASE worker[w].next = NoEvent /\ worker' = [worker EXCEPT ![w] = Acking(w)]
    <3>1. worker'[w] = Acking(w) /\ OnlyWorker(w)
      BY <2>5, WorkerChanged
    <3> QED
      BY <2>3, <2>5, <3>1, FreeFields DEF GoesOn, Stores, Keeps, Acks, SameProvider
  <2> QED
    BY <2>3, <2>4, <2>5
<1>4. CASE PublishNext(w)
  <2>1. /\ worker[w].pc = "publish" /\ bus' = Publish(bus, worker[w].next) /\ store' = store
        /\ worker' = [worker EXCEPT ![w] = Acking(w)] /\ timers' = timers /\ session' = session /\ lost' = lost
    BY <1>4 DEF PublishNext, spVars, histVars
  <2>2. worker'[w] = Acking(w) /\ OnlyWorker(w)
    BY <2>1, WorkerChanged
  <2>3. BusBy({}, {e \in Event : e = worker[w].next /\ e.type # "PostprocessingRetry"})
    BY <1>0, <2>1, PublishedOne DEF BusBy
  <2> QED
    BY <2>1, <2>2, <2>3, FreeFields DEF GoesOn, Publishes, Keeps, Acks, SameProvider
<1>5. CASE PublishStopped(w)
  <2>1. /\ worker[w].pc = "publish" /\ bus' = Returned(w) /\ store' = store
        /\ worker' = [worker EXCEPT ![w] = Released] /\ timers' = timers /\ session' = session /\ lost' = lost
    BY <1>5 DEF PublishStopped, spVars, histVars
  <2>2. worker'[w] = Released /\ OnlyWorker(w)
    BY <2>1, WorkerChanged
  <2>3. BusMay({w}) /\ (worker[w].held => GivesBack(w))
    BY <1>0, <2>1, ReturnedOne DEF Returned
  <2> QED
    BY <2>1, <2>2, <2>3, FreeFields DEF GoesOn, Releases, Freed, SameProvider
<1>6. CASE Ack(w) \/ Leave(w)
  <2>1. /\ worker[w].pc \in {"ack", "resume", "idle"} /\ bus' = bus /\ store' = store
        /\ worker' = [worker EXCEPT ![w] = Released] /\ timers' = timers /\ session' = session /\ lost' = lost
    BY <1>6 DEF Ack, Leave, spVars, histVars
  <2>2. worker'[w] = Released /\ OnlyWorker(w)
    BY <2>1, WorkerChanged
  <2>3. BusMay({w})
    BY <2>1 DEF BusMay
  <2> QED
    BY <2>1, <2>2, <2>3, FreeFields DEF GoesOn, Releases, Freed, SameProvider
<1> QED
  BY <1>1, <1>2, <1>3, <1>4, <1>5, <1>6 DEF Continue, GoesOn

\* The end of the process puts the events that were taken back.
LEMMA RestartKind ==
    ASSUME TypeOK, NEW b \in [Event -> Nat], NEW ws \in SUBSET Workers, Restarted(b, ws),
           \A w \in Workers : w \in ws \/ worker[w].pc = "mark",
           \A e \in Event : /\ bus[e] > 0 => b[e] > 0
                            /\ b[e] > 0 => bus[e] > 0 \/ \E w \in Workers : e \in Gives(w)
    PROVE  Restarts
<1>1. ASSUME NEW e \in Event
      PROVE  /\ bus[e] > 0 => bus'[e] > 0
             /\ bus'[e] > 0 => bus[e] > 0 \/ \E w \in Workers : e \in Gives(w)
             /\ (\E w \in ws : worker[w].held /\ worker[w].ev = e) => bus'[e] > 0
  <2> DEFINE back == {w \in ws : worker[w].held /\ worker[w].ev = e}
  <2>1. bus'[e] = b[e] + Cardinality(back) /\ b[e] \in Nat
    BY DEF Restarted
  <2>2. IsFiniteSet(back)
    <3>1. back \subseteq Workers
      OBVIOUS
    <3> QED
      BY <3>1, ServiceAssumption, FS_Subset
  <2>3. Cardinality(back) \in Nat /\ (Cardinality(back) = 0 <=> back = {})
    BY <2>2, FS_CardinalityType, FS_EmptySet
  <2>4. \A w \in back : e \in Gives(w)
    BY DEF Gives
  <2> HIDE DEF back
  <2>5. bus[e] > 0 => bus'[e] > 0
    BY <2>1, <2>3
  <2>6. back # {} => bus'[e] > 0
    BY <2>1, <2>3
  <2>7. bus'[e] > 0 => bus[e] > 0 \/ back # {} \/ \E w \in Workers : e \in Gives(w)
    BY <2>1, <2>3
  <2>8. back # {} <=> \E w \in ws : worker[w].held /\ worker[w].ev = e
    BY DEF back
  <2> QED
    BY <2>4, <2>5, <2>6, <2>7, <2>8 DEF back
<1>2. \A w \in Workers : Freed(w)
  BY FreeFields DEF Restarted, Freed
<1>3. \A t \in Timer : timers'[t] = 0 /\ (timers[t] > 0 /\ t.ev.id \in Uploads => t.ev.id \in lost')
  BY DEF Restarted
<1>4. store' = store /\ session' = session /\ lost \subseteq lost'
  BY DEF Restarted, spVars
<1> QED
  BY <1>1, <1>2, <1>3, <1>4 DEF Restarts, SameProvider, BusMay, GivesBack

\* The faults of a worker are of these kinds.
LEMMA WorkerFaultKind ==
    ASSUME TypeOK, NEW w \in Workers, WorkerFault(w)
    PROVE  GoesOn(w) \/ Restarts
<1>0. bus \in [Event -> Nat] /\ worker[w] \in WorkerState
  BY DEF TypeOK
<1>a. ASSUME worker[w].pc = "publish", NEW b \in {bus, Publish(bus, worker[w].next)}
      PROVE  /\ b \in [Event -> Nat]
             /\ \A e \in Event : /\ bus[e] > 0 => b[e] > 0
                                 /\ b[e] > 0 => bus[e] > 0 \/ e \in Gives(w)
  <2>1. PICK x : x = worker[w].next
    OBVIOUS
  <2>2. \A e \in Event : Publish(bus, x)[e] > 0 <=> bus[e] > 0 \/ (e = x /\ x.type # "PostprocessingRetry")
    BY <1>0, PublishedOne
  <2>3. Publish(bus, x) \in [Event -> Nat]
    BY <1>0, BusType
  <2> QED
    BY <1>0, <1>a, <2>1, <2>2, <2>3 DEF Gives
<1>1. CASE StoreFails(w)
  <2>1. /\ worker[w].pc = "store" /\ bus' = Returned(w) /\ store' = store
        /\ worker' = [worker EXCEPT ![w] = Released] /\ timers' = timers /\ session' = session /\ lost' = lost
    BY <1>1 DEF StoreFails, spVars
  <2>2. worker'[w] = Released /\ OnlyWorker(w)
    BY <2>1, WorkerChanged
  <2>3. BusMay({w}) /\ (worker[w].held => GivesBack(w))
    BY <1>0, <2>1, ReturnedOne DEF Returned
  <2> QED
    BY <2>1, <2>2, <2>3, FreeFields DEF GoesOn, Releases, Freed, SameProvider
<1>2. CASE PublishAttemptFails(w)
  <2>1. PICK c : c = [worker[w] EXCEPT !.attempt = worker[w].attempt + 1]
    OBVIOUS
  <2>2. /\ c.pc = worker[w].pc /\ c.ev = worker[w].ev /\ c.next = worker[w].next /\ c.pp = worker[w].pp
        /\ c.held = worker[w].held
    BY <1>0, <2>1 DEF WorkerState
  <2>3. /\ worker[w].pc = "publish" /\ bus' \in {bus, Publish(bus, worker[w].next)} /\ store' = store
        /\ worker' = [worker EXCEPT ![w] = c] /\ timers' = timers /\ session' = session /\ lost' = lost
    BY <1>0, <1>2, <2>1 DEF PublishAttemptFails, spVars, TypeOK
  <2>4. worker'[w] = c /\ OnlyWorker(w)
    BY <2>3, WorkerChanged
  <2>5. BusMay({w})
    BY <1>a, <2>3 DEF BusMay
  <2> QED
    BY <2>2, <2>3, <2>4, <2>5 DEF GoesOn, Repeats, Keeps, KeepsAll, SameProvider
<1>3. CASE PublishFatal(w)
  <2>1. PICK b \in {bus, Publish(bus, worker[w].next)} :
          IF stopped
          THEN /\ bus' = IF worker[w].held THEN Publish(b, worker[w].ev) ELSE b
               /\ worker' = [worker EXCEPT ![w] = Released]
               /\ UNCHANGED <<store, timers, stopped, spVars, passed, lost, admin>>
          ELSE Restarted(b, Workers)
    BY <1>3 DEF PublishFatal
  <2>2. /\ worker[w].pc = "publish" /\ b \in [Event -> Nat]
        /\ \A e \in Event : /\ bus[e] > 0 => b[e] > 0
                            /\ b[e] > 0 => bus[e] > 0 \/ e \in Gives(w)
    BY <1>3, <1>a DEF PublishFatal
  <2>3. CASE stopped
    <3>1. /\ bus' = IF worker[w].held THEN Publish(b, worker[w].ev) ELSE b
          /\ worker' = [worker EXCEPT ![w] = Released] /\ store' = store
          /\ timers' = timers /\ session' = session /\ lost' = lost
      BY <2>1, <2>3 DEF spVars
    <3>2. worker'[w] = Released /\ OnlyWorker(w)
      BY <3>1, WorkerChanged
    <3>3. BusMay({w}) /\ (worker[w].held => GivesBack(w))
      BY <2>2, <3>1, ReturnedOne
    <3> QED
      BY <3>1, <3>2, <3>3, FreeFields DEF GoesOn, Releases, Freed, SameProvider
  <2>4. CASE ~stopped
    BY <2>1, <2>2, <2>4, RestartKind
  <2> QED
    BY <2>3, <2>4
<1>4. CASE MarkFatal(w)
  BY <1>0, <1>4, RestartKind DEF MarkFatal
<1>5. CASE Redeliver(w)
  <2>1. PICK c : c = [worker[w] EXCEPT !.held = FALSE]
    OBVIOUS
  <2>2. c.pc = worker[w].pc /\ c.ev = worker[w].ev /\ c.next = worker[w].next /\ c.pp = worker[w].pp
    BY <1>0, <2>1 DEF WorkerState
  <2>3. /\ worker[w].held /\ bus' = Publish(bus, worker[w].ev) /\ store' = store
        /\ worker' = [worker EXCEPT ![w] = c] /\ timers' = timers /\ session' = session /\ lost' = lost
    BY <1>0, <1>5, <2>1 DEF Redeliver, spVars, TypeOK
  <2>4. worker'[w] = c /\ OnlyWorker(w)
    BY <2>3, WorkerChanged
  <2>5. BusMay({w}) /\ GivesBack(w)
    BY <1>0, <2>3, ReturnedOne
  <2> QED
    BY <2>2, <2>3, <2>4, <2>5 DEF GoesOn, Repeats, Keeps, KeepsAll, SameProvider
<1> QED
  BY <1>1, <1>2, <1>3, <1>4, <1>5 DEF WorkerFault

\* The storage provider decides on an upload.
LEMMA DecidesKind ==
    ASSUME TypeOK, NEW u \in Uploads, NEW o \in Outcomes,
           HandleFinished(u, o) \/ (FinalizeFails(u) /\ o = "continue")
    PROVE  Decides(u, o)
<1>1. PICK e \in Event : e = PostprocessingFinished(u, o)
  BY HandledEvents
<1>2. bus \in [Event -> Nat] /\ bus[e] > 0 /\ session \in [Uploads -> {"none", "open", "kept", "gone"}]
  BY <1>1 DEF TypeOK, HandleFinished, FinalizeFails
<1>3. /\ Taken(e) \in [Event -> Nat]
      /\ \A x \in Event : (Taken(e)[x] > 0 => bus[x] > 0) /\ (bus[x] > 0 /\ x # e => Taken(e)[x] > 0)
  BY <1>2, TakenOne
<1>4. ASSUME bus' = Taken(e) PROVE BusBy({e}, {})
  BY <1>3, <1>4 DEF BusBy
<1>5. ASSUME NEW f \in {"ok", "failed"}, bus' = Publish(Taken(e), UploadReady(u, f))
      PROVE  BusBy({e}, {UploadReady(u, f)})
  <2>1. UploadReady(u, f).type # "PostprocessingRetry"
    BY DEF UploadReady
  <2> QED
    BY <1>3, <1>5, <2>1, PublishedOne DEF BusBy
<1>6. SameService /\ lost' = lost
  BY DEF HandleFinished, FinalizeFails, SameService, ppsVars
<1>7. \/ /\ session[u] = "none" /\ session' = [session EXCEPT ![u] = "none"] /\ bus' = Taken(e)
      \/ /\ \E z \in {"kept", "gone"} : session' = [session EXCEPT ![u] = z]
         /\ \/ bus' = Taken(e)
            \/ \E f \in {"ok", "failed"} : bus' = Publish(Taken(e), UploadReady(u, f))
  BY <1>1 DEF HandleFinished, FinalizeFails, PublishReady
<1>8. /\ \A x \in Uploads : x # u => session'[x] = session[x]
      /\ \/ session[u] = "none" /\ session'[u] = "none" /\ bus' = Taken(e)
         \/ /\ session'[u] \in {"kept", "gone"}
            /\ \/ bus' = Taken(e)
               \/ \E f \in {"ok", "failed"} : bus' = Publish(Taken(e), UploadReady(u, f))
  BY <1>2, <1>7
<1> QED
  BY <1>1, <1>4, <1>5, <1>6, <1>8 DEF Decides

\* Everything that the service and what it talks to do is of these kinds.
LEMMA NextKinds ==
    ASSUME TypeOK, [Next]_vars
    PROVE  Kinds
<1>0. bus \in [Event -> Nat] /\ Delayed \subseteq Event /\ timers \in [Timer -> Nat]
  BY DEF TypeOK, Event
<1>1. ASSUME NEW w \in Workers, Handle(w) \/ Continue(w) \/ WorkerFault(w) PROVE Kinds
  BY <1>1, HandleKind, ContinueKind, WorkerFaultKind DEF Kinds
<1>2. ASSUME NEW t \in Timer, TimerFires(t) PROVE Kinds
  <2>1. PICK x \in Delayed : x = t.ev
    BY DEF Timer
  <2>2. x.type # "PostprocessingRetry"
    BY DEF Delayed, StartPostprocessingStep, PostprocessingFinished
  <2>3. bus' = Publish(bus, x) => BusBy({}, {x})
    BY <1>0, <2>1, <2>2, PublishedOne DEF BusBy
  <2>4. Fires(t)
    BY <1>0, <1>2, <2>1, <2>3 DEF TimerFires, Fires, spVars, SameProvider
  <2> QED
    BY <2>4 DEF Kinds
<1>3. CASE Crash \/ Exit
  <2>1. Restarted(bus, Workers)
    BY <1>3 DEF Crash, Exit
  <2> QED
    BY <1>0, <2>1, RestartKind DEF Kinds
<1>4. CASE Close \/ UNCHANGED vars
  BY <1>4 DEF Close, vars, Kinds, Rests, SameService, SameProvider, spVars
<1>5. ASSUME NEW u \in Uploads, NEW s \in StepSet, NEW o \in Outcomes, RunStep(u, s, o) PROVE Kinds
  <2>1. PICK e \in Event : e = StartPostprocessingStep(u, s)
    BY HandledEvents
  <2>2. PICK x \in Event : x = PostprocessingStepFinished(u, s, o) /\ x.type # "PostprocessingRetry"
    <3>1. PostprocessingStepFinished(u, s, o).type # "PostprocessingRetry"
      BY DEF PostprocessingStepFinished
    <3> QED
      BY <3>1, HandledEvents
  <2>3. s # "delay" /\ bus[e] > 0 /\ bus' = Publish(Taken(e), x)
    BY <1>5, <2>1, <2>2 DEF RunStep
  <2>4. SameService /\ SameProvider /\ lost' = lost
    BY <1>5 DEF RunStep, SameService, SameProvider, ppsVars, spVars
  <2>5. BusBy({e}, {x})
    BY <1>0, <2>2, <2>3, TakenOne, PublishedOne DEF BusBy
  <2>6. RunsStep(u, s, o)
    BY <2>1, <2>2, <2>3, <2>4, <2>5 DEF RunsStep
  <2> QED
    BY <2>6 DEF Kinds
<1>6. ASSUME NEW u \in Uploads, NEW s \in StepSet, StepServiceDies(u, s) PROVE Kinds
  <2>1. PICK e \in Event : e = StartPostprocessingStep(u, s) /\ e.id = u
    BY HandledEvents DEF StartPostprocessingStep
  <2>2. s # "delay" /\ bus[e] > 0 /\ bus' = Taken(e) /\ lost' = lost \cup {u}
    BY <1>6, <2>1 DEF StepServiceDies
  <2>3. SameService /\ SameProvider
    BY <1>6 DEF StepServiceDies, SameService, SameProvider, ppsVars, spVars
  <2>4. BusBy({e}, {})
    BY <1>0, <2>2, TakenOne DEF BusBy
  <2>5. s # "delay" /\ Loses(u, StartPostprocessingStep(u, s))
    BY <2>1, <2>2, <2>3, <2>4 DEF Loses
  <2> QED
    BY <2>5 DEF Kinds
<1>7. ASSUME NEW u \in Uploads, FinishUpload(u) PROVE Kinds
  <2>1. Receives(u)
    BY <1>7 DEF FinishUpload, Receives, SameService, ppsVars, histVars
  <2> QED
    BY <2>1 DEF Kinds
<1>14. ASSUME NEW u \in Uploads, PublishBytesReceived(u) \/ FinishUploadFails(u) PROVE Kinds
  <2>1. SameService /\ SameProvider
    BY <1>14 DEF PublishBytesReceived, FinishUploadFails, SameService, SameProvider, ppsVars
  <2>2. \/ bus' = bus /\ lost \subseteq lost'
        \/ bus' = Publish(bus, BytesReceived(u)) /\ lost' = lost
    BY <1>14 DEF PublishBytesReceived, FinishUploadFails, histVars
  <2>3. CASE bus' = bus /\ lost \subseteq lost'
    BY <2>1, <2>3 DEF Rests, Kinds
  <2>4. CASE bus' = Publish(bus, BytesReceived(u)) /\ lost' = lost
    <3>1. \A x \in Event : /\ bus[x] > 0 => bus'[x] > 0
                           /\ bus'[x] > 0 => bus[x] > 0 \/ x = BytesReceived(u)
      BY <1>0, <2>4, PublishedOne
    <3>2. Asks
      BY <2>1, <2>4, <3>1 DEF Asks
    <3> QED
      BY <3>2 DEF Kinds
  <2> QED
    BY <2>2, <2>3, <2>4
<1>8. ASSUME NEW u \in Uploads, NEW o \in Outcomes, HandleFinished(u, o) PROVE Kinds
  BY <1>8, DecidesKind DEF Kinds
<1>9. ASSUME NEW u \in Uploads, FinalizeFails(u) PROVE Kinds
  <2>1. PICK o \in Outcomes : o = "continue"
    BY DEF Outcomes
  <2> QED
    BY <1>9, <2>1, DecidesKind DEF Kinds
<1>10. ASSUME NEW u \in Uploads, NEW o \in Outcomes, ProviderDies(u, o) PROVE Kinds
  <2>1. PICK e \in Event : e = PostprocessingFinished(u, o) /\ e.id = u
    BY HandledEvents DEF PostprocessingFinished
  <2>2. bus[e] > 0 /\ bus' = Taken(e) /\ lost' = lost \cup {u}
    BY <1>10, <2>1 DEF ProviderDies
  <2>3. SameService /\ SameProvider
    BY <1>10 DEF ProviderDies, SameService, SameProvider, ppsVars, spVars
  <2>4. BusBy({e}, {})
    BY <1>0, <2>2, TakenOne DEF BusBy
  <2>5. Loses(u, PostprocessingFinished(u, o))
    BY <2>1, <2>2, <2>3, <2>4 DEF Loses
  <2> QED
    BY <2>5 DEF Kinds
<1>11. ASSUME NEW u \in Uploads, HandleRestart(u) PROVE Kinds
  <2>1. PICK e \in Event : e = RestartPostprocessing(u) /\ e.type = "RestartPostprocessing"
    BY HandledEvents DEF RestartPostprocessing
  <2>2. bus[e] > 0 /\ (bus' = Taken(e) \/ bus' = Publish(Taken(e), BytesReceived(u)))
    BY <1>11, <2>1 DEF HandleRestart
  <2>3. SameService /\ SameProvider /\ lost' = lost
    BY <1>11 DEF HandleRestart, SameService, SameProvider, ppsVars, spVars, histVars
  <2>4. \A x \in Event : /\ bus[x] > 0 /\ x # e => bus'[x] > 0
                         /\ bus'[x] > 0 => bus[x] > 0 \/ x = BytesReceived(u)
    BY <1>0, <2>2, TakenOne, PublishedOne
  <2>5. Asks
    BY <2>1, <2>3, <2>4 DEF Asks
  <2> QED
    BY <2>5 DEF Kinds
<1>12. CASE Command
  <2>1. PICK x : /\ bus' = Publish(bus, x)
                 /\ x.type \in {"ResumePostprocessing", "RestartPostprocessing"}
    <3>1. \A u, s : ResumePostprocessing(u, s).type = "ResumePostprocessing"
      BY DEF ResumePostprocessing
    <3>2. \A u : RestartPostprocessing(u).type = "RestartPostprocessing"
      BY DEF RestartPostprocessing
    <3>3. \/ \E u, s : bus' = Publish(bus, ResumePostprocessing(u, s))
          \/ \E u : bus' = Publish(bus, RestartPostprocessing(u))
      BY <1>12 DEF Command
    <3> QED
      BY <3>1, <3>2, <3>3
  <2>2. SameService /\ SameProvider /\ lost' = lost
    BY <1>12 DEF Command, SameService, SameProvider, ppsVars, spVars
  <2>3. Asks
    BY <1>0, <2>1, <2>2, PublishedOne DEF Asks
  <2> QED
    BY <2>3 DEF Kinds
<1>13. Next \/ UNCHANGED vars
  OBVIOUS
<1> QED
  BY <1>1, <1>2, <1>3, <1>4, <1>5, <1>6, <1>7, <1>8, <1>9, <1>10, <1>11, <1>12, <1>13, <1>14
     DEF Next, Provider

-----------------------------------------------------------------------------
(* Where things come from.                                                 *)

\* What is lost stays lost, what is decided stays decided, and a session is
\* opened when the bytes are there.
LEMMA KindsProvider ==
    ASSUME TypeOK, Kinds
    PROVE  /\ lost \subseteq lost'
           /\ \A u \in Uploads : /\ Decided(u) => Decided(u)'
                                 /\ session'[u] = "open" => session[u] = "open" \/ Receives(u)
<1>0. session \in [Uploads -> {"none", "open", "kept", "gone"}]
  BY DEF TypeOK
<1>1. ASSUME NEW w \in Workers, Takes(w)
      PROVE  session' = session /\ lost \subseteq lost'
  BY <1>1 DEF Takes, TakesBytes, TakesResult, TakesDelay, TakesReady, TakesUnknown, TakesCommand,
              TakesFrom, SameProvider
<1>2. ASSUME NEW w \in Workers, GoesOn(w)
      PROVE  session' = session /\ lost \subseteq lost'
  BY <1>2 DEF GoesOn, Resumes, Deletes, Stores, Skips, Publishes, Releases, Repeats, Keeps, SameProvider
<1>3. ASSUME NEW t \in Timer, Fires(t)
      PROVE  session' = session /\ lost \subseteq lost'
  BY <1>3 DEF Fires, SameProvider
<1>4. CASE Restarts \/ Rests \/ Asks
  BY <1>4 DEF Restarts, Rests, Asks, SameProvider, Decided
<1>5. ASSUME NEW u \in Uploads, NEW s \in StepSet, NEW o \in Outcomes, RunsStep(u, s, o)
      PROVE  session' = session /\ lost \subseteq lost'
  BY <1>5 DEF RunsStep, SameProvider
<1>6. ASSUME NEW u \in Uploads, NEW e, Loses(u, e)
      PROVE  session' = session /\ lost \subseteq lost'
  BY <1>6 DEF Loses, SameProvider
<1>7. ASSUME NEW u \in Uploads, NEW o \in Outcomes, Decides(u, o)
      PROVE  /\ lost \subseteq lost'
             /\ \A x \in Uploads : /\ Decided(x) => Decided(x)'
                                   /\ session'[x] = "open" => session[x] = "open"
  BY <1>7 DEF Decides, Decided
<1>8. ASSUME NEW u \in Uploads, Receives(u)
      PROVE  /\ lost \subseteq lost'
             /\ \A x \in Uploads : /\ Decided(x) => Decided(x)'
                                   /\ session'[x] = "open" => session[x] = "open" \/ x = u
  BY <1>0, <1>8 DEF Receives, Decided
<1>9. CASE session' = session /\ lost \subseteq lost'
  BY <1>9 DEF Decided
<1> QED
  BY <1>1, <1>2, <1>3, <1>4, <1>5, <1>6, <1>7, <1>8, <1>9 DEF Kinds

\* A record is only written and deleted by a worker that was about to do so.
LEMMA KindsStore ==
    ASSUME TypeOK, Kinds, NEW u \in Uploads
    PROVE  \/ store'[u] = store[u]
           \/ \E w \in Workers : Stores(w) /\ worker[w].ev.id = u /\ store'[u] = worker[w].pp
           \/ \E w \in Workers : Deletes(w) /\ worker[w].ev.id = u
<1>0. store \in [Uploads -> PP \cup {NoPP}]
  BY DEF TypeOK
<1>1. ASSUME NEW w \in Workers, Takes(w)
      PROVE  store' = store
  BY <1>1 DEF Takes, TakesBytes, TakesResult, TakesDelay, TakesReady, TakesUnknown, TakesCommand, TakesFrom
<1>2. ASSUME NEW w \in Workers, GoesOn(w)
      PROVE  store' = store \/ Stores(w) \/ Deletes(w)
  BY <1>2 DEF GoesOn, Resumes, Skips, Publishes, Releases, Repeats
<1>3. ASSUME NEW w \in Workers, Stores(w)
      PROVE  store'[u] = store[u] \/ (worker[w].ev.id = u /\ store'[u] = worker[w].pp)
  BY <1>0, <1>3 DEF Stores
<1>4. ASSUME NEW w \in Workers, Deletes(w)
      PROVE  store'[u] = store[u] \/ worker[w].ev.id = u
  BY <1>0, <1>4 DEF Deletes
<1>5. CASE store' = store
  BY <1>5
<1>6. (\E w \in Workers : GoesOn(w)) \/ store' = store
  BY <1>1 DEF Kinds, Fires, Restarts, Rests, Asks, RunsStep, Loses, Decides, Receives, SameService
<1> QED
  BY <1>2, <1>3, <1>4, <1>5, <1>6

\* Where an event on the bus comes from.
Source(e) ==
    \/ bus[e] > 0
    \/ \E w \in Workers : e \in Gives(w)
    \/ \E t \in Timer : timers[t] > 0 /\ t.ev = e
    \/ \E u \in Uploads : e = BytesReceived(u)
    \/ e.type \in {"ResumePostprocessing", "RestartPostprocessing"}
    \/ \E u \in Uploads, f \in {"ok", "failed"} : e = UploadReady(u, f) /\ Decided(u)'
    \/ \E u \in Uploads, s \in StepSet, o \in Outcomes :
          e = PostprocessingStepFinished(u, s, o) /\ bus[StartPostprocessingStep(u, s)] > 0
    \/ \E u \in Uploads : store[u] # NoPP /\ e = CurrentStep(store[u], u).next

\* An event on the bus comes from one of these.
LEMMA KindsBus ==
    ASSUME TypeOK, Kinds, NEW e \in Event, bus'[e] > 0
    PROVE  Source(e)
<1>1. ASSUME NEW w \in Workers, Takes(w) PROVE Source(e)
  BY <1>1 DEF Takes, TakesBytes, TakesResult, TakesDelay, TakesReady, TakesUnknown, TakesCommand,
              TakesFrom, BusBy, Source
<1>2. ASSUME NEW w \in Workers, GoesOn(w) PROVE Source(e)
  <2>1. ASSUME NEW u \in Uploads, Resumes(w, u) PROVE Source(e)
    <3>1. RestartPostprocessing(u).type = "RestartPostprocessing"
      BY DEF RestartPostprocessing
    <3> QED
      BY <2>1, <3>1 DEF Resumes, BusBy, Source
  <2>2. CASE Deletes(w) \/ Stores(w) \/ Skips(w)
    BY <2>2 DEF Deletes, Stores, Skips, Source
  <2>3. CASE Publishes(w)
    BY <2>3 DEF Publishes, BusBy, Source, Gives
  <2>4. CASE Releases(w) \/ Repeats(w)
    BY <2>4 DEF Releases, Repeats, BusMay, Source
  <2> QED
    BY <1>2, <2>1, <2>2, <2>3, <2>4 DEF GoesOn
<1>3. ASSUME NEW t \in Timer, Fires(t) PROVE Source(e)
  BY <1>3 DEF Fires, BusBy, Source
<1>4. CASE Restarts \/ Rests \/ Asks
  BY <1>4 DEF Restarts, Rests, Asks, BusMay, Source
<1>5. ASSUME NEW u \in Uploads, NEW s \in StepSet, NEW o \in Outcomes, RunsStep(u, s, o) PROVE Source(e)
  BY <1>5 DEF RunsStep, BusBy, Source
<1>6. ASSUME NEW u \in Uploads, NEW x, Loses(u, x) PROVE Source(e)
  BY <1>6 DEF Loses, BusBy, Source
<1>7. ASSUME NEW u \in Uploads, NEW o \in Outcomes, Decides(u, o) PROVE Source(e)
  BY <1>7 DEF Decides, BusBy, Source, Decided
<1>8. ASSUME NEW u \in Uploads, Receives(u) PROVE Source(e)
  BY <1>8 DEF Receives, Source
<1> QED
  BY <1>1, <1>2, <1>3, <1>4, <1>5, <1>6, <1>7, <1>8 DEF Kinds

\* A goroutine is only started for an upload that has a record.
LEMMA KindsTimers ==
    ASSUME TypeOK, Kinds, NEW t \in Timer, timers'[t] > 0, timers[t] = 0
    PROVE  store[t.ev.id] # NoPP
<1>1. ASSUME NEW w \in Workers, NEW u \in Uploads, NEW s \in StepSet, NEW o \in Outcomes,
             TakesResult(w, u, s, o)
      PROVE  store[t.ev.id] # NoPP
  <2>1. t = RetryTimer(u, NextStep(store[u], u, s, o).pp) /\ store[u] # NoPP
    BY <1>1 DEF TakesResult, TimersBy
  <2> QED
    BY <2>1 DEF RetryTimer, StartPostprocessingStep
<1>2. ASSUME NEW w \in Workers, NEW u \in Uploads, TakesDelay(w, u)
      PROVE  store[t.ev.id] # NoPP
  <2>1. t = DelayTimer(next(store[u], u, "delay").next) /\ store[u] # NoPP
    BY <1>2 DEF TakesDelay, TimersBy
  <2> QED
    BY <2>1, NextAbout DEF DelayTimer
<1>3. ASSUME NEW w \in Workers, Takes(w), timers' # timers
      PROVE  \E u \in Uploads : TakesDelay(w, u) \/ \E s \in StepSet, o \in Outcomes : TakesResult(w, u, s, o)
  BY <1>3 DEF Takes, TakesBytes, TakesReady, TakesUnknown, TakesCommand
<1>4. ASSUME NEW w \in Workers, GoesOn(w) PROVE timers' = timers
  BY <1>4 DEF GoesOn, Resumes, Deletes, Stores, Skips, Publishes, Releases, Repeats, Keeps
<1>5. ASSUME NEW x \in Timer, Fires(x) PROVE FALSE
  BY <1>5 DEF Fires
<1>6. ~Restarts
  BY DEF Restarts
<1>7. timers' # timers
  OBVIOUS
<1> QED
  BY <1>1, <1>2, <1>3, <1>4, <1>5, <1>6, <1>7
     DEF Kinds, Rests, Asks, RunsStep, Loses, Decides, Receives, SameService

\* What becomes of a worker.
Becomes(w) ==
    \/ worker'[w] = worker[w]
    \/ Freed(w)
    \/ Takes(w)
    \/ worker'[w].ev = worker[w].ev /\ Acks(w)
    \/ worker'[w].ev = worker[w].ev /\ KeepsAll(w) /\ (worker'[w].pc = worker[w].pc \/ Deletes(w))
    \/ /\ worker'[w].ev = worker[w].ev /\ worker'[w].next = worker[w].next
       /\ Stores(w) /\ worker'[w].pc = "publish" /\ worker[w].next # NoEvent

\* Every step leaves a worker alone or does one of these things with it.
LEMMA KindsWorker ==
    ASSUME TypeOK, Kinds, NEW w \in Workers
    PROVE  Becomes(w)
<1>1. ASSUME NEW x \in Workers, Takes(x) PROVE Becomes(w)
  <2>1. CASE x = w
    BY <1>1, <2>1 DEF Becomes
  <2>2. CASE x # w
    <3>1. OnlyWorker(x)
      BY <1>1 DEF Takes, TakesBytes, TakesResult, TakesDelay, TakesReady, TakesUnknown, TakesCommand,
                  TakesFrom
    <3> QED
      BY <2>2, <3>1 DEF OnlyWorker, Becomes
  <2> QED
    BY <2>1, <2>2
<1>2. ASSUME NEW x \in Workers, GoesOn(x) PROVE Becomes(w)
  <2>1. CASE x # w
    BY <1>2, <2>1 DEF GoesOn, Resumes, Deletes, Stores, Skips, Publishes, Releases, Repeats, Keeps,
                      OnlyWorker, Becomes
  <2>2. CASE x = w
    BY <1>2, <2>2 DEF GoesOn, Resumes, Deletes, Stores, Skips, Publishes, Releases, Repeats, Keeps, Becomes
  <2> QED
    BY <2>1, <2>2
<1>3. CASE Restarts
  BY <1>3 DEF Restarts, Becomes
<1>4. CASE worker' = worker
  BY <1>4 DEF Becomes
<1> QED
  BY <1>1, <1>2, <1>3, <1>4
     DEF Kinds, Fires, Rests, Asks, RunsStep, Loses, Decides, Receives, SameService

-----------------------------------------------------------------------------
(* UploadReady is around only for uploads that were decided on.            *)

\* The event that a worker takes was on the bus.
LEMMA TakesOne ==
    ASSUME TypeOK, NEW w \in Workers, Takes(w)
    PROVE  \E e \in Event : TakesFrom(w, e)
BY DEF Takes, TakesBytes, TakesResult, TakesDelay, TakesReady, TakesUnknown, TakesCommand, TakesFrom

\* Which types of events are about uploads.
LEMMA EventIds ==
    ASSUME NEW e \in Event
    PROVE  /\ e.type \in {"UploadReady", "PostprocessingStepFinished", "StartPostprocessingStep"} =>
                e.id \in Uploads
           /\ e \in Delayed => e.type \in {"StartPostprocessingStep", "PostprocessingFinished"}
<1>1. e \in Delayed => /\ e.type \in {"StartPostprocessingStep", "PostprocessingFinished"}
                       /\ e.id \in Uploads
  BY DEF Delayed, StartPostprocessingStep, PostprocessingFinished
<1>2. \/ e \in Delayed
      \/ e.id \in Uploads
      \/ e.type = "ResumePostprocessing"
  BY DEF Event, BytesReceived, PostprocessingStepFinished, PostprocessingRetry, UploadReady,
         ResumePostprocessing, RestartPostprocessing
<1> QED
  BY <1>1, <1>2

\* UploadReady is published for such an upload, and stays so.
LEMMA ReadyStep ==
    ASSUME TypeOK, Progress, Kinds
    PROVE  ReadyDecided'
<1>0. \A u \in Uploads : Decided(u) => Decided(u)'
  BY KindsProvider
<1>1. \A e \in Event : ReadyEvent(e) => ReadyEvent(e)'
  BY <1>0, EventIds DEF ReadyEvent
<1>2. ASSUME NEW e \in Event, bus'[e] > 0 PROVE ReadyEvent(e)'
  <2>1. SUFFICES ASSUME e.type = "UploadReady" PROVE Decided(e.id)'
    BY DEF ReadyEvent
  <2>2. Source(e)
    BY <1>2, KindsBus
  <2>3. CASE bus[e] > 0
    BY <1>1, <2>1, <2>3 DEF Progress, ReadyDecided, ReadyEvent
  <2>4. ASSUME NEW w \in Workers, e \in Gives(w) PROVE Decided(e.id)'
    <3>1. e = worker[w].ev \/ e = worker[w].next
      BY <2>4 DEF Gives
    <3>2. e # worker[w].next
      BY <2>1, EventIds DEF Progress, Follows
    <3> QED
      BY <1>1, <2>1, <3>1, <3>2 DEF Progress, ReadyDecided, ReadyEvent
  <2>5. ASSUME NEW t \in Timer, t.ev = e PROVE FALSE
    BY <2>1, <2>5, EventIds DEF Timer
  <2>6. ASSUME NEW u \in Uploads, NEW f, e = UploadReady(u, f), Decided(u)' PROVE Decided(e.id)'
    BY <2>6 DEF UploadReady
  <2>7. ASSUME NEW u \in Uploads, store[u] # NoPP, e = CurrentStep(store[u], u).next PROVE FALSE
    <3>1. e \in Delayed
      BY <2>7, CurrentStepValid DEF TypeOK, ValidPP
    <3> QED
      BY <2>1, <3>1, EventIds
  <2>8. \A u \in Uploads : e # BytesReceived(u) /\ \A s, o : e # PostprocessingStepFinished(u, s, o)
    BY <2>1 DEF BytesReceived, PostprocessingStepFinished
  <2> QED
    BY <2>1, <2>2, <2>3, <2>4, <2>5, <2>6, <2>7, <2>8 DEF Source
<1>3. ASSUME NEW w \in Workers PROVE ReadyEvent(worker[w].ev)'
  <2>1. ReadyEvent(worker[w].ev) /\ worker[w].ev \in Event \cup {NoEvent}
    BY DEF Progress, ReadyDecided, TypeOK, WorkerState
  <2>2. CASE worker'[w].ev = worker[w].ev
    <3>1. PICK x : x = worker[w].ev
      OBVIOUS
    <3>2. CASE x \in Event
      <4>1. ReadyEvent(x)'
        BY <1>1, <2>1, <3>1, <3>2
      <4> QED
        BY <2>2, <3>1, <4>1 DEF ReadyEvent, Decided
    <3>3. CASE x \notin Event
      BY <2>2, <3>1, <3>3 DEF ReadyEvent, Event, Delayed
    <3> QED
      BY <3>2, <3>3
  <2>3. CASE Freed(w)
    BY <2>3, NoEventAssumption DEF Freed, ReadyEvent
  <2>4. CASE Takes(w)
    <3>1. PICK e \in Event : TakesFrom(w, e)
      BY <2>4, TakesOne
    <3>2. ReadyEvent(e)' /\ worker'[w].ev = e
      BY <1>1, <3>1 DEF TakesFrom, Progress, ReadyDecided
    <3> QED
      BY <3>2 DEF ReadyEvent, Decided
  <2> QED
    BY <2>2, <2>3, <2>4, KindsWorker DEF Becomes
<1> QED
  BY <1>2, <1>3 DEF ReadyDecided

-----------------------------------------------------------------------------
(* What a worker has in its hands fits.                                    *)

\* Follows looks at these fields only.
LEMMA SameFollows ==
    ASSUME NEW p, NEW q, Follows(p), q.ev = p.ev, q.next = p.next, q.pp = p.pp, q.pc = p.pc
    PROVE  Follows(q)
BY DEF Follows

\* It still fits after a step.
LEMMA FollowsStep ==
    ASSUME TypeOK, Progress, Kinds, NEW w \in Workers
    PROVE  Follows(worker[w])'
<1>0. /\ Follows(worker[w]) /\ worker[w] \in WorkerState /\ Delayed \subseteq Event
      /\ NoEvent \notin Event /\ NoEvent \notin Delayed
  BY NoEventAssumption DEF Progress, TypeOK, Event
<1> SUFFICES Follows(worker'[w])
  BY DEF Follows, Driving, Finishing
<1>1. CASE worker'[w] = worker[w]
  BY <1>0, <1>1
<1>2. CASE worker'[w].pc \in {"idle", "left", "ack", "resume"} /\ worker'[w].next = NoEvent
  BY <1>0, <1>2 DEF Follows
<1>3. CASE worker'[w].ev = worker[w].ev /\ KeepsAll(w) /\ (worker'[w].pc = worker[w].pc \/ Deletes(w))
  <2>1. CASE worker'[w].pc = worker[w].pc
    BY <1>0, <1>3, <2>1, SameFollows DEF KeepsAll
  <2>2. CASE Deletes(w)
    BY <1>0, <1>3, <2>2 DEF KeepsAll, Deletes, Follows
  <2> QED
    BY <1>3, <2>1, <2>2
<1>4. CASE /\ worker'[w].ev = worker[w].ev /\ worker'[w].next = worker[w].next
           /\ Stores(w) /\ worker'[w].pc = "publish" /\ worker[w].next # NoEvent
  <2>1. worker[w].next \in Event
    BY <1>0, <1>4 DEF WorkerState
  <2> QED
    BY <1>0, <1>4, <2>1 DEF Follows
<1>5. CASE Takes(w)
  <2>1. ASSUME NEW u \in Uploads, TakesBytes(w, u) PROVE Follows(worker'[w])
    <3>1. PICK r : r = InitPP(New, u)
      OBVIOUS
    <3>2. /\ r.next \in Driving(u) /\ r.next \in Delayed /\ r.pp \in PP
          /\ BytesReceived(u) \in Finishing(u) => r.next \in Finishing(u)
      BY <3>1, InitFollows
    <3>3. BytesReceived(u).id = u
      BY DEF BytesReceived
    <3>5. worker'[w].ev = BytesReceived(u) /\ worker'[w].pc = "store" /\ worker'[w].pp = r.pp
          /\ worker'[w].next = r.next
      BY <2>1, <3>1 DEF TakesBytes, TakesFrom, ToStore
    <3> QED
      BY <3>2, <3>3, <3>5, NoPPAssumption DEF Follows
  <2>2. ASSUME NEW u \in Uploads, NEW s \in StepSet, NEW o \in Outcomes, TakesResult(w, u, s, o)
        PROVE  Follows(worker'[w])
    <3>0. store[u] \in PP /\ ValidPP(store[u])
      BY <2>2 DEF TakesResult, TypeOK, ValidPP
    <3>1. PICK r : r = NextStep(store[u], u, s, o)
      OBVIOUS
    <3>2. PICK e : e = PostprocessingStepFinished(u, s, o)
      OBVIOUS
    <3>3. /\ r.pp \in PP
          /\ r.next \in Delayed \/ r.next.type = "PostprocessingRetry"
          /\ r.next \in Delayed => r.next \in Driving(u)
          /\ e \in Finishing(u) => r.next \in Finishing(u)
      BY <3>0, <3>1, <3>2, NextStepFollows
    <3>4. e.id = u
      BY <3>2 DEF PostprocessingStepFinished
    <3>5. worker'[w].ev = e /\ worker'[w].pc = "store" /\ worker'[w].pp = r.pp
          /\ worker'[w].next = r.next
      BY <2>2, <3>1, <3>2 DEF TakesResult, TakesFrom, ToStore
    <3> QED
      BY <3>3, <3>4, <3>5, NoPPAssumption DEF Follows
  <2>3. ASSUME NEW u \in Uploads, TakesDelay(w, u) PROVE Follows(worker'[w])
    <3>1. PICK r : r = next(store[u], u, "delay")
      OBVIOUS
    <3>2. r.pp \in PP
      BY <2>3, <3>1, NextValid DEF TakesDelay, TypeOK, ValidPP
    <3>3. worker'[w].ev.id = u /\ worker'[w].pc = "store" /\ worker'[w].pp = r.pp
          /\ worker'[w].next = NoEvent
      BY <2>3, <3>1 DEF TakesDelay, TakesFrom, ToStore, StartPostprocessingStep
    <3> QED
      BY <1>0, <3>2, <3>3, NoPPAssumption DEF Follows
  <2>4. ASSUME NEW u \in Uploads, NEW f \in {"ok", "failed"}, TakesReady(w, u, f) PROVE Follows(worker'[w])
    <3>1. UploadReady(u, f) \in Event /\ UploadReady(u, f).id = u /\ UploadReady(u, f).type = "UploadReady"
      BY HandledEvents DEF UploadReady
    <3> QED
      BY <1>0, <2>4, <3>1 DEF TakesReady, TakesFrom, Follows
  <2>5. ASSUME NEW e \in Event, TakesUnknown(w, e) \/ TakesCommand(w, e) PROVE Follows(worker'[w])
    BY <1>2, <2>5 DEF TakesUnknown, TakesCommand
  <2> QED
    BY <1>5, <2>1, <2>2, <2>3, <2>4, <2>5 DEF Takes
<1>6. Becomes(w)
  BY KindsWorker
<1> QED
  BY <1>1, <1>2, <1>3, <1>4, <1>5, <1>6 DEF Becomes, Freed, Acks

-----------------------------------------------------------------------------
(* An upload without a record has only its start on the way.               *)

\* The record of an upload that was not decided on is never deleted.
LEMMA UntouchedBefore ==
    ASSUME TypeOK, Progress, Kinds, NEW u \in Uploads, store'[u] = NoPP, ~Decided(u)'
    PROVE  /\ ~Decided(u) /\ store[u] = NoPP /\ Untouched(u)
           /\ \A w \in Workers : Stores(w) => worker[w].ev.id # u
<1>1. ~Decided(u)
  BY KindsProvider
<1>2. ASSUME NEW w \in Workers, Stores(w), worker[w].ev.id = u PROVE FALSE
  <2>1. worker[w].pp # NoPP
    BY <1>2 DEF Stores, Progress, Follows
  <2>2. store'[u] = worker[w].pp
    BY <1>2 DEF Stores, TypeOK
  <2> QED
    BY <2>1, <2>2
<1>3. ASSUME NEW w \in Workers, Deletes(w), worker[w].ev.id = u PROVE FALSE
  <2>1. worker[w].ev \in Event /\ worker[w].ev.type = "UploadReady"
    BY <1>3 DEF Deletes, Progress, Follows
  <2>2. Decided(u)
    BY <1>3, <2>1 DEF Progress, ReadyDecided, ReadyEvent
  <2> QED
    BY <1>1, <2>2
<1>4. store[u] = NoPP
  BY <1>2, <1>3, KindsStore
<1> QED
  BY <1>1, <1>2, <1>4 DEF Progress

\* As long as nothing was stored for an upload, only its start is on the way.
LEMMA UntouchedStep ==
    ASSUME TypeOK, TypeOK', Progress, Kinds, NEW u \in Uploads, store'[u] = NoPP, ~Decided(u)'
    PROVE  Untouched(u)'
<1>0. /\ ~Decided(u) /\ store[u] = NoPP /\ Untouched(u)
      /\ \A w \in Workers : Stores(w) => worker[w].ev.id # u
  BY UntouchedBefore
<1>a. NoEvent \notin Event /\ NoEvent \notin Driving(u)
  BY NoEventAssumption, DrivingEvents
<1>1. ASSUME NEW e \in Driving(u), e # BytesReceived(u) PROVE bus'[e] = 0
  <2>0. /\ e \in Event /\ e.id = u
        /\ e.type \in {"StartPostprocessingStep", "PostprocessingStepFinished", "PostprocessingFinished"}
    BY <1>1, DrivingEvents
  <2>1. SUFFICES ASSUME bus'[e] > 0 PROVE FALSE
    BY <2>0 DEF TypeOK
  <2>2. Source(e)
    BY <2>0, <2>1, KindsBus
  <2>3. bus[e] = 0
    BY <1>0, <1>1 DEF Untouched
  <2>4. \A w \in Workers : e \notin Gives(w)
    BY <1>0, <1>1 DEF Untouched, Gives
  <2>5. \A t \in Timer : ~(timers[t] > 0 /\ t.ev = e)
    BY <1>0, <2>0 DEF Untouched
  <2>6. \A v \in Uploads : e # BytesReceived(v) /\ \A f : e # UploadReady(v, f)
    BY <2>0 DEF BytesReceived, UploadReady
  <2>7. ASSUME NEW v \in Uploads, NEW s \in StepSet, NEW o \in Outcomes,
               e = PostprocessingStepFinished(v, s, o), bus[StartPostprocessingStep(v, s)] > 0
        PROVE  FALSE
    <3>1. v = u
      BY <2>0, <2>7 DEF PostprocessingStepFinished
    <3>2. StartPostprocessingStep(u, s) \in Driving(u) /\ StartPostprocessingStep(u, s) # BytesReceived(u)
      BY DEF Driving, StartPostprocessingStep, BytesReceived
    <3> QED
      BY <1>0, <2>7, <3>1, <3>2 DEF Untouched
  <2>8. ASSUME NEW v \in Uploads, store[v] # NoPP, e = CurrentStep(store[v], v).next PROVE FALSE
    BY <1>0, <2>0, <2>8, NextAbout
  <2> QED
    BY <2>0, <2>2, <2>3, <2>4, <2>5, <2>6, <2>7, <2>8 DEF Source
<1>2. ASSUME NEW t \in Timer, t.ev.id = u PROVE timers'[t] = 0
  <2>1. timers[t] = 0 /\ timers'[t] \in Nat
    BY <1>0, <1>2 DEF Untouched, TypeOK
  <2> QED
    BY <1>0, <1>2, <2>1, KindsTimers
<1>3. ASSUME NEW w \in Workers, worker'[w].ev \in Driving(u) PROVE worker'[w].ev = BytesReceived(u)
  <2>1. CASE worker'[w].ev = worker[w].ev
    BY <1>0, <1>3, <2>1 DEF Untouched
  <2>2. CASE Freed(w)
    BY <1>3, <1>a, <2>2 DEF Freed
  <2>3. CASE Takes(w)
    <3>1. PICK e \in Event : TakesFrom(w, e)
      BY <2>3, TakesOne
    <3> QED
      BY <1>0, <1>3, <3>1 DEF TakesFrom, Untouched
  <2> QED
    BY <2>1, <2>2, <2>3, KindsWorker DEF Becomes
<1>4. ASSUME NEW w \in Workers, worker'[w].pc = "publish" PROVE worker'[w].next \notin Driving(u)
  <2>1. CASE worker'[w].next = worker[w].next /\ worker'[w].pc = worker[w].pc
    BY <1>0, <1>4, <2>1 DEF Untouched
  <2>2. CASE Freed(w) \/ Acks(w) \/ Deletes(w)
    BY <1>4, <2>2 DEF Freed, Acks, Deletes
  <2>3. CASE Takes(w)
    BY <1>4, <2>3 DEF Takes, TakesBytes, TakesResult, TakesDelay, TakesReady, TakesUnknown, TakesCommand,
                      ToStore
  <2>4. CASE Stores(w) /\ worker'[w].next = worker[w].next
    <3>0. SUFFICES ASSUME worker[w].next \in Driving(u) PROVE FALSE
      BY <2>4
    <3>1. worker[w].next \in Event /\ worker[w].next.id = u /\ worker[w].next.type # "PostprocessingRetry"
      BY <3>0, DrivingEvents
    <3>2. worker[w].next \in Delayed
      BY <3>1 DEF Progress, Follows
    <3>3. worker[w].ev.id \in Uploads
      BY <2>4, <1>0 DEF Stores, Progress, Follows
    <3>4. worker[w].next \in Driving(worker[w].ev.id)
      BY <3>2 DEF Progress, Follows
    <3>5. worker[w].next.id = worker[w].ev.id
      BY <3>3, <3>4, DrivingEvents
    <3> QED
      BY <1>0, <2>4, <3>1, <3>5
  <2> QED
    BY <2>1, <2>2, <2>3, <2>4, KindsWorker DEF Becomes, KeepsAll
<1>5. Driving(u)' = Driving(u) /\ BytesReceived(u)' = BytesReceived(u)
  BY DEF Driving
<1> QED
  BY <1>1, <1>2, <1>3, <1>4, <1>5 DEF Untouched

-----------------------------------------------------------------------------
(* What is on its way for an upload stays on its way, or is replaced by     *)
(* what follows from it.                                                   *)

\* After the step there is an event around that moves u on as e did.
Succeeds(u, e) ==
    \E d \in Driving(u) : Around(d)' /\ (e \in Finishing(u) => d \in Finishing(u))

\* A worker that took the result of a step publishes what follows, or another
\* attempt is up to a goroutine, or the record was already finished and what
\* finished it is still on its way.
LEMMA ResultSucceeds ==
    ASSUME TypeOK, Progress, NEW u \in Uploads, Waiting(u), NEW w \in Workers,
           NEW s \in StepSet, NEW o \in Outcomes, TakesResult(w, u, s, o)
    PROVE  Succeeds(u, PostprocessingStepFinished(u, s, o))
<1>0. PICK e : e = PostprocessingStepFinished(u, s, o)
  OBVIOUS
<1>1. e \in Driving(u) /\ e \in Event
  BY <1>0, BusEvents DEF Driving
<1>2. store[u] \in PP /\ ValidPP(store[u]) /\ store[u] # NoPP
  BY DEF TakesResult, TypeOK, ValidPP
<1>3. PICK r : r = NextStep(store[u], u, s, o)
  OBVIOUS
<1>4. /\ r.next \notin Delayed =>
           /\ e \notin Finishing(u)
           /\ r.pp.outcome = "retry" /\ r.pp.currentStep = store[u].currentStep
           /\ store[u].failures <= MaxRetries
  BY <1>0, <1>2, <1>3, NextStepFollows
<1>5. /\ TakesFrom(w, e) /\ ToStore(w, r.pp, r.next)
      /\ TimersBy(IF r.pp.outcome = "retry" THEN {RetryTimer(u, r.pp)} ELSE {})
  BY <1>0, <1>3 DEF TakesResult
<1>6. CASE r.next \in Delayed
  <2>1. Holds(w, e)'
    BY <1>5, <1>6 DEF TakesFrom, ToStore, Holds
  <2> QED
    BY <1>0, <1>1, <2>1 DEF Succeeds, Around
<1>7. CASE r.next \notin Delayed /\ store[u].currentStep \in StepSet
  <2>1. PICK d : d = StartPostprocessingStep(u, store[u].currentStep)
    OBVIOUS
  <2>2. d \in Driving(u) /\ d \in Delayed
    BY <1>7, <2>1, DelayedEvents DEF Driving, CurrentSteps
  <2>3. PICK t : t = [kind |-> "retry", ev |-> d]
    OBVIOUS
  <2>4. t \in Timer /\ t.ev = d
    BY <2>2, <2>3 DEF Timer
  <2>5. timers'[t] > 0
    BY <1>4, <1>5, <1>7, <2>1, <2>3, <2>4 DEF TimersBy, RetryTimer
  <2> QED
    BY <1>0, <1>4, <1>7, <2>2, <2>4, <2>5 DEF Succeeds, Around
<1>8. CASE r.next \notin Delayed /\ store[u].currentStep \notin StepSet
  <2>1. store[u].currentStep = "finished"
    BY <1>2, <1>8 DEF PP, CurrentSteps
  <2>2. FinishPending(u)
    BY <1>2, <1>4, <1>8, <2>1 DEF Progress, FinishedRecords, FinishedRecord
  <2>3. PICK d \in Finishing(u) : Around(d)
    BY <2>2 DEF FinishPending
  <2>4. d \in Driving(u) /\ d \in Event /\ d # e
    BY <1>4, <1>8, FinishingDrives, DrivingEvents
  <2>5. CASE bus[d] > 0
    BY <1>0, <1>5, <2>4, <2>5 DEF TakesFrom, BusBy, Succeeds, Around
  <2>6. ASSUME NEW x \in Workers, Holds(x, d) PROVE Succeeds(u, e)
    <3>1. x # w
      BY <1>5, <2>6 DEF Holds, TakesFrom
    <3>2. Holds(x, d)'
      BY <1>5, <2>6, <3>1 DEF Holds, TakesFrom, OnlyWorker
    <3> QED
      BY <2>3, <2>4, <3>2 DEF Succeeds, Around
  <2>7. ASSUME NEW t \in Timer, timers[t] > 0, t.ev = d PROVE Succeeds(u, e)
    <3>1. timers'[t] > 0
      BY <1>5, <2>7 DEF TimersBy
    <3> QED
      BY <2>3, <2>4, <2>7, <3>1 DEF Succeeds, Around
  <2> QED
    BY <1>0, <2>3, <2>5, <2>6, <2>7 DEF Around
<1> QED
  BY <1>6, <1>7, <1>8

\* A worker that took an event moves the upload on.
LEMMA TakenSucceeds ==
    ASSUME TypeOK, Progress, NEW u \in Uploads, Waiting(u), Waiting(u)', NEW e \in Driving(u),
           bus[e] > 0, NEW w \in Workers, Takes(w)
    PROVE  Succeeds(u, e)
<1>0. /\ e \in Event /\ e.id = u /\ ~Decided(u)
      /\ e.type \in {"BytesReceived", "StartPostprocessingStep", "PostprocessingStepFinished",
                     "PostprocessingFinished"}
  BY DrivingEvents DEF Waiting, Decided
<1>1. CASE bus'[e] > 0
  BY <1>1 DEF Succeeds, Around
<1>2. ASSUME ~(bus'[e] > 0), NEW x, TakesFrom(w, x) PROVE x = e
  BY <1>0, <1>2 DEF TakesFrom, BusBy
<1>3. ASSUME ~(bus'[e] > 0), NEW v \in Uploads, TakesBytes(w, v) PROVE Succeeds(u, e)
  <2>1. BytesReceived(v) = e /\ v = u
    BY <1>0, <1>2, <1>3 DEF TakesBytes, BytesReceived
  <2>2. Holds(w, e)'
    BY <1>3, <2>1, InitFollows DEF TakesBytes, TakesFrom, ToStore, Holds
  <2> QED
    BY <2>2 DEF Succeeds, Around
<1>4. ASSUME ~(bus'[e] > 0), NEW v \in Uploads, NEW s \in StepSet, NEW o \in Outcomes,
             TakesResult(w, v, s, o)
      PROVE  Succeeds(u, e)
  <2>1. PostprocessingStepFinished(v, s, o) = e
    BY <1>2, <1>4 DEF TakesResult
  <2>2. v = u
    BY <1>0, <2>1 DEF PostprocessingStepFinished
  <2> QED
    BY <1>4, <2>1, <2>2, ResultSucceeds
<1>5. ASSUME ~(bus'[e] > 0), NEW v \in Uploads, TakesDelay(w, v) PROVE Succeeds(u, e)
  <2>1. StartPostprocessingStep(v, "delay") = e
    BY <1>2, <1>5 DEF TakesDelay
  <2>2. v = u
    BY <1>0, <2>1 DEF StartPostprocessingStep
  <2>3. PICK r : r = next(store[u], u, "delay")
    OBVIOUS
  <2>4. store[u] \in PP /\ ValidPP(store[u]) /\ "delay" \in StepSet
    BY <1>5, <2>2 DEF TakesDelay, TypeOK, ValidPP
  <2>5. r.next \in Driving(u) /\ r.next \in Delayed /\ (Last("delay") => r.next \in Finishing(u))
    BY <2>3, <2>4, NextFollows, NextValid
  <2>6. e \in Finishing(u) => Last("delay")
    BY <2>1, <2>2, <2>4, FinishingForms
  <2>7. PICK t : t = DelayTimer(r.next)
    OBVIOUS
  <2>8. t \in Timer /\ t.ev = r.next
    BY <2>5, <2>7 DEF Timer, DelayTimer
  <2>9. timers'[t] > 0
    BY <1>5, <2>2, <2>3, <2>7, <2>8 DEF TakesDelay, TimersBy
  <2> QED
    BY <2>5, <2>6, <2>8, <2>9 DEF Succeeds, Around
<1>6. ASSUME ~(bus'[e] > 0), NEW v \in Uploads, NEW f, TakesReady(w, v, f) PROVE FALSE
  <2>1. UploadReady(v, f) = e
    BY <1>2, <1>6 DEF TakesReady
  <2> QED
    BY <1>0, <2>1 DEF UploadReady
<1>7. ASSUME ~(bus'[e] > 0), NEW x \in Event, TakesUnknown(w, x) PROVE FALSE
  <2>1. x = e
    BY <1>2, <1>7 DEF TakesUnknown
  <2>2. e.type # "BytesReceived"
    BY <1>7, <2>1 DEF TakesUnknown
  <2>3. store[u] = NoPP
    BY <1>0, <1>7, <2>1 DEF TakesUnknown, Waiting
  <2>4. Untouched(u)
    BY <1>0, <2>3 DEF Progress
  <2>5. e # BytesReceived(u)
    BY <2>2 DEF BytesReceived
  <2> QED
    BY <2>4, <2>5 DEF Untouched
<1>8. ASSUME ~(bus'[e] > 0), NEW x \in Event, TakesCommand(w, x) PROVE FALSE
  <2>1. x = e
    BY <1>2, <1>8 DEF TakesCommand
  <2> QED
    BY <1>0, <1>8, <2>1 DEF TakesCommand
<1> QED
  BY <1>1, <1>3, <1>4, <1>5, <1>6, <1>7, <1>8 DEF Takes

\* What waits on the bus is handled, or stays there.
LEMMA OnBusSucceeds ==
    ASSUME TypeOK, Progress, Kinds, NEW u \in Uploads, Waiting(u), Waiting(u)', NEW e \in Driving(u),
           bus[e] > 0
    PROVE  Succeeds(u, e)
<1>0. /\ e \in Event /\ e.id = u
      /\ e.type \in {"BytesReceived", "StartPostprocessingStep", "PostprocessingStepFinished",
                     "PostprocessingFinished"}
  BY DrivingEvents
<1>1. CASE bus'[e] > 0
  BY <1>1 DEF Succeeds, Around
<1>2. ASSUME NEW w \in Workers, GoesOn(w) PROVE bus'[e] > 0
  BY <1>0, <1>2 DEF GoesOn, Resumes, Deletes, Stores, Skips, Publishes, Releases, Repeats, BusBy, BusMay
<1>3. ASSUME NEW t \in Timer, Fires(t) PROVE bus'[e] > 0
  BY <1>0, <1>3 DEF Fires, BusBy
<1>4. CASE Restarts \/ Rests \/ Asks
  BY <1>0, <1>1, <1>4 DEF Restarts, Rests, Asks, BusMay
<1>5. ASSUME NEW v \in Uploads, NEW s \in StepSet, NEW o \in Outcomes, RunsStep(v, s, o)
      PROVE  Succeeds(u, e)
  <2>1. CASE e = StartPostprocessingStep(v, s)
    <3>1. v = u /\ s # "delay"
      BY <1>0, <1>5, <2>1 DEF RunsStep, StartPostprocessingStep
    <3>2. e \notin Finishing(u)
      BY <2>1, <3>1, FinishingForms
    <3>3. PICK d : d = PostprocessingStepFinished(u, s, o)
      OBVIOUS
    <3>4. d \in Driving(u) /\ d \in Event
      BY <3>3, BusEvents DEF Driving
    <3>5. bus'[d] > 0
      BY <1>5, <3>1, <3>3, <3>4 DEF RunsStep, BusBy
    <3> QED
      BY <3>2, <3>4, <3>5 DEF Succeeds, Around
  <2>2. CASE e # StartPostprocessingStep(v, s)
    <3>1. bus'[e] > 0
      BY <1>0, <1>5, <2>2 DEF RunsStep, BusBy
    <3> QED
      BY <1>1, <3>1
  <2> QED
    BY <2>1, <2>2
<1>6. ASSUME NEW v \in Uploads, NEW x, Loses(v, x) PROVE bus'[e] > 0
  <2>1. e # x
    BY <1>0, <1>6 DEF Loses, Waiting
  <2> QED
    BY <1>0, <1>6, <2>1 DEF Loses, BusBy
<1>7. ASSUME NEW v \in Uploads, NEW o \in Outcomes, Decides(v, o) PROVE bus'[e] > 0
  <2>1. v # u
    BY <1>7 DEF Decides, Waiting
  <2>2. e # PostprocessingFinished(v, o)
    BY <1>0, <2>1 DEF PostprocessingFinished
  <2> QED
    BY <1>0, <1>7, <2>2 DEF Decides, BusBy
<1>8. ASSUME NEW v \in Uploads, Receives(v) PROVE bus'[e] > 0
  BY <1>0, <1>8 DEF Receives
<1> QED
  BY <1>1, <1>2, <1>3, <1>4, <1>5, <1>6, <1>7, <1>8, TakenSucceeds DEF Kinds

\* What a worker has in its hands goes on, or is delivered again.
LEMMA HeldSucceeds ==
    ASSUME TypeOK, Progress, Kinds, NEW u \in Uploads, NEW e \in Driving(u),
           NEW w \in Workers, Holds(w, e)
    PROVE  Succeeds(u, e)
<1>0. /\ e \in Event /\ e.id = u /\ e.type # "PostprocessingRetry"
      /\ worker[w].pc \in {"store", "publish"} /\ worker[w].held /\ worker[w].ev = e
      /\ worker[w].next \in Delayed /\ Follows(worker[w])
  BY DrivingEvents DEF Holds, Progress
<1>1. CASE worker'[w] = worker[w]
  <2>1. Holds(w, e)'
    BY <1>1 DEF Holds
  <2> QED
    BY <2>1 DEF Succeeds, Around
<1>2. CASE GivesBack(w)
  <2>1. bus'[e] > 0
    BY <1>0, <1>2 DEF GivesBack
  <2> QED
    BY <2>1 DEF Succeeds, Around
<1>3. CASE Stores(w)
  <2>1. worker[w].next # NoEvent
    BY <1>0, NoEventAssumption DEF Event
  <2>2. Holds(w, e)'
    BY <1>0, <1>3, <2>1 DEF Holds, Stores, Keeps
  <2> QED
    BY <2>2 DEF Succeeds, Around
<1>4. CASE Publishes(w)
  <2>1. PICK d : d = worker[w].next
    OBVIOUS
  <2>2. d \in Event /\ d \in Driving(u) /\ (e \in Finishing(u) => d \in Finishing(u))
    BY <1>0, <2>1 DEF Follows, Event
  <2>3. d.type # "PostprocessingRetry"
    BY <2>2, DrivingEvents
  <2>4. bus'[d] > 0
    BY <1>4, <2>1, <2>2, <2>3 DEF Publishes, BusBy
  <2> QED
    BY <2>2, <2>4 DEF Succeeds, Around
<1>5. CASE Repeats(w)
  <2>1. CASE worker'[w].held = worker[w].held
    <3>1. Holds(w, e)'
      BY <1>0, <1>5, <2>1 DEF Repeats, Holds, Keeps, KeepsAll
    <3> QED
      BY <3>1 DEF Succeeds, Around
  <2> QED
    BY <1>2, <1>5, <2>1 DEF Repeats
<1>6. ASSUME NEW x \in Workers, x # w, Takes(x) \/ GoesOn(x) PROVE worker'[w] = worker[w]
  <2>1. Takes(x) => OnlyWorker(x)
    BY DEF Takes, TakesBytes, TakesResult, TakesDelay, TakesReady, TakesUnknown, TakesCommand, TakesFrom
  <2>2. GoesOn(x) => OnlyWorker(x)
    BY DEF GoesOn, Resumes, Deletes, Stores, Skips, Publishes, Releases, Repeats, Keeps
  <2> QED
    BY <1>6, <2>1, <2>2 DEF OnlyWorker
<1>7. ~Takes(w)
  BY <1>0 DEF Takes, TakesBytes, TakesResult, TakesDelay, TakesReady, TakesUnknown, TakesCommand, TakesFrom
<1>8. GoesOn(w) => Stores(w) \/ Publishes(w) \/ GivesBack(w) \/ Repeats(w)
  BY <1>0 DEF GoesOn, Resumes, Deletes, Skips, Releases
<1>9. Restarts => GivesBack(w)
  BY <1>0 DEF Restarts
<1>10. CASE worker' = worker
  BY <1>1, <1>10
<1> QED
  BY <1>1, <1>2, <1>3, <1>4, <1>5, <1>6, <1>7, <1>8, <1>9, <1>10
     DEF Kinds, Fires, Rests, Asks, RunsStep, Loses, Decides, Receives, SameService

\* A goroutine sleeps on, publishes, or is given up.
LEMMA TimerSucceeds ==
    ASSUME TypeOK, Progress, Kinds, NEW u \in Uploads, Waiting(u)', NEW e \in Driving(u),
           NEW t \in Timer, timers[t] > 0, t.ev = e
    PROVE  Succeeds(u, e)
<1>0. e \in Event /\ e.id = u
  BY DrivingEvents
<1>1. CASE timers'[t] > 0
  BY <1>1 DEF Succeeds, Around
<1>2. ASSUME NEW w \in Workers, Takes(w) PROVE timers'[t] > 0
  BY <1>2 DEF Takes, TakesBytes, TakesResult, TakesDelay, TakesReady, TakesUnknown, TakesCommand, TimersBy
<1>3. ASSUME NEW w \in Workers, GoesOn(w) PROVE timers'[t] > 0
  BY <1>3 DEF GoesOn, Resumes, Deletes, Stores, Skips, Publishes, Releases, Repeats, Keeps
<1>4. ASSUME NEW x \in Timer, Fires(x) PROVE Succeeds(u, e)
  <2>1. CASE x # t
    BY <1>1, <1>4, <2>1 DEF Fires
  <2>2. CASE x = t
    <3>1. bus'[e] > 0
      BY <1>0, <1>4, <2>2 DEF Fires, BusBy, Waiting
    <3> QED
      BY <3>1 DEF Succeeds, Around
  <2> QED
    BY <2>1, <2>2
<1>5. ~Restarts
  BY <1>0 DEF Restarts, Waiting
<1>6. CASE timers' = timers
  BY <1>1, <1>6
<1> QED
  BY <1>1, <1>2, <1>3, <1>4, <1>5, <1>6
     DEF Kinds, Rests, Asks, RunsStep, Loses, Decides, Receives, SameService

\* Together: what is around has a successor, as long as the upload waits.
LEMMA MovesOn ==
    ASSUME TypeOK, Progress, Kinds, NEW u \in Uploads, Waiting(u), Waiting(u)', NEW e \in Driving(u),
           Around(e)
    PROVE  Succeeds(u, e)
BY OnBusSucceeds, HeldSucceeds, TimerSucceeds DEF Around

\* What ends the postprocessing is replaced by what ends it.
LEMMA FinishSucceeds ==
    ASSUME TypeOK, Progress, Kinds, NEW u \in Uploads, Waiting(u), Waiting(u)', NEW e \in Finishing(u),
           Around(e)
    PROVE  FinishPending(u)'
<1>1. Succeeds(u, e)
  BY MovesOn, FinishingDrives
<1>2. PICK d \in Driving(u) : Around(d)' /\ d \in Finishing(u)
  BY <1>1 DEF Succeeds
<1>3. Finishing(u)' = Finishing(u)
  BY DEF Finishing
<1> QED
  BY <1>2, <1>3 DEF FinishPending

-----------------------------------------------------------------------------
(* The parts of Progress that look at what is on its way.                  *)

\* A waiting upload waited before, or its bytes have just been received.
LEMMA WaitingBefore ==
    ASSUME TypeOK, Kinds, NEW u \in Uploads, Waiting(u)'
    PROVE  Waiting(u) \/ Receives(u)
BY KindsProvider DEF Waiting

\* A call that has not published publishes, or fails and is accounted for.
LEMMA HandoverEnds ==
    ASSUME TypeOK, [Next]_vars, NEW u \in handover
    PROVE  u \in handover' \/ u \in lost' \/ bus'[BytesReceived(u)] > 0
<1>0. /\ bus \in [Event -> Nat] /\ u \in Uploads /\ BytesReceived(u) \in Event
      /\ BytesReceived(u).type # "PostprocessingRetry"
  BY BusEvents DEF TypeOK, BytesReceived
<1>1. ASSUME NEW w \in Workers, Handle(w) \/ Continue(w) \/ WorkerFault(w)
      PROVE  handover' = handover
  <2>1. CASE Handle(w)
    BY <2>1 DEF Handle, HandleBytesReceived, HandleStepFinished, HandleStartDelay,
       HandleUploadReady, HandleUnknownUpload, HandleResume, spVars
  <2>2. CASE Continue(w)
    BY <2>2 DEF Continue, ResumePP, DeleteRecord, StoreRecord, PublishNext, PublishStopped,
       Ack, Leave, spVars
  <2>3. CASE WorkerFault(w)
    BY <2>3 DEF WorkerFault, StoreFails, PublishAttemptFails, PublishFatal, MarkFatal,
       Redeliver, Restarted, spVars
  <2> QED
    BY <1>1, <2>1, <2>2, <2>3
<1>2. ASSUME \/ \E t \in Timer : TimerFires(t)
             \/ Crash \/ Close \/ Exit \/ Command
             \/ \E v \in Uploads, s \in StepSet : StepServiceDies(v, s)
             \/ \E v \in Uploads, s \in StepSet, o \in Outcomes : RunStep(v, s, o)
             \/ \E v \in Uploads : HandleRestart(v) \/ FinalizeFails(v)
             \/ \E v \in Uploads, o \in Outcomes : ProviderDies(v, o) \/ HandleFinished(v, o)
             \/ UNCHANGED vars
      PROVE  handover' = handover
  BY <1>2 DEF TimerFires, Crash, Close, Exit, Command, StepServiceDies, RunStep, HandleRestart,
     FinalizeFails, ProviderDies, HandleFinished, Restarted, vars, spVars
<1>3. ASSUME NEW v \in Uploads, FinishUpload(v) PROVE u \in handover'
  BY <1>3 DEF FinishUpload
<1>4. ASSUME NEW v \in Uploads, PublishBytesReceived(v) \/ FinishUploadFails(v)
      PROVE  u \in handover' \/ u \in lost' \/ bus'[BytesReceived(u)] > 0
  <2>1. CASE v # u
    BY <1>4, <2>1 DEF PublishBytesReceived, FinishUploadFails
  <2>2. CASE v = u
    <3>1. u \in lost' \/ bus' = Publish(bus, BytesReceived(u))
      BY <1>4, <2>2 DEF PublishBytesReceived, FinishUploadFails
    <3> QED
      BY <1>0, <3>1, PublishedOne
  <2> QED
    BY <2>1, <2>2
<1> QED
  BY <1>1, <1>2, <1>3, <1>4 DEF Next, Provider

\* No upload is forgotten by a step.
LEMMA ForgottenStep ==
    ASSUME TypeOK, Progress, Kinds, [Next]_vars
    PROVE  NoUploadForgotten'
<1> SUFFICES ASSUME NEW u \in Uploads, Waiting(u)' PROVE Pending(u)' \/ u \in handover'
  BY DEF NoUploadForgotten, Waiting
<1>a. BytesReceived(u) \in Driving(u) /\ BytesReceived(u) \in Event
  BY BusEvents DEF Driving
<1>0. Driving(u)' = Driving(u)
  BY DEF Driving
<1>1. CASE Waiting(u)
  <2>1. Pending(u) \/ u \in handover
    BY <1>1 DEF Progress, NoUploadForgotten, Waiting
  <2>2. CASE Pending(u)
    <3>1. PICK e \in Driving(u) : Around(e)
      BY <2>2 DEF Pending, Around
    <3>2. PICK d \in Driving(u) : Around(d)'
      BY <1>1, <3>1, MovesOn DEF Succeeds
    <3> QED
      BY <1>0, <3>2 DEF Around, Pending
  <2>3. CASE u \in handover
    <3>1. u \in handover' \/ u \in lost' \/ bus'[BytesReceived(u)] > 0
      BY <2>3, HandoverEnds
    <3>2. CASE bus'[BytesReceived(u)] > 0
      BY <1>0, <1>a, <3>2 DEF Pending
    <3> QED
      BY <3>1, <3>2 DEF Waiting
  <2> QED
    BY <2>1, <2>2, <2>3
<1>2. CASE Receives(u)
  BY <1>2 DEF Receives
<1> QED
  BY <1>1, <1>2, WaitingBefore

\* A worker that takes an event and finishes the record took an event that ends
\* the postprocessing, or the record was finished before.
LEMMA TakesFinished ==
    ASSUME TypeOK, Progress, Kinds, NEW w \in Workers, Takes(w), NEW u \in Uploads, Waiting(u),
           Waiting(u)', worker'[w].pc = "store", worker'[w].ev.id = u,
           worker'[w].pp.currentStep = "finished", worker'[w].pp.failures <= MaxRetries
    PROVE  FinishPending(u)'
<1>0. ASSUME NEW e \in Finishing(u), TakesFrom(w, e) PROVE FinishPending(u)'
  <2>1. Around(e)
    BY <1>0 DEF TakesFrom, Around
  <2> QED
    BY <2>1, FinishSucceeds
<1>1. ASSUME NEW v \in Uploads, TakesBytes(w, v) PROVE FinishPending(u)'
  <2>1. v = u
    BY <1>1 DEF TakesBytes, TakesFrom, BytesReceived
  <2>2. BytesReceived(u) \in Finishing(u)
    BY <1>1, <2>1, InitFollows DEF TakesBytes, ToStore
  <2> QED
    BY <1>0, <1>1, <2>1, <2>2 DEF TakesBytes
<1>2. ASSUME NEW v \in Uploads, NEW s \in StepSet, NEW o \in Outcomes, TakesResult(w, v, s, o)
      PROVE  FinishPending(u)'
  <2>1. v = u
    BY <1>2 DEF TakesResult, TakesFrom, PostprocessingStepFinished
  <2>2. store[u] \in PP /\ ValidPP(store[u]) /\ store[u] # NoPP
    BY <1>2, <2>1 DEF TakesResult, TypeOK, ValidPP
  <2>3. PICK r : r = NextStep(store[u], u, s, o)
    OBVIOUS
  <2>4. r.pp.currentStep = "finished" /\ r.pp.failures <= MaxRetries
    BY <1>2, <2>1, <2>3 DEF TakesResult, ToStore
  <2>5. \/ PostprocessingStepFinished(u, s, o) \in Finishing(u)
        \/ store[u].currentStep = "finished" /\ store[u].failures <= MaxRetries
    BY <2>2, <2>3, <2>4, NextStepFollows
  <2>6. CASE PostprocessingStepFinished(u, s, o) \in Finishing(u)
    BY <1>0, <1>2, <2>1, <2>6 DEF TakesResult
  <2>7. CASE store[u].currentStep = "finished" /\ store[u].failures <= MaxRetries
    <3>1. FinishPending(u)
      BY <2>2, <2>7 DEF Progress, FinishedRecords, FinishedRecord
    <3> QED
      BY <3>1, FinishSucceeds DEF FinishPending
  <2> QED
    BY <2>5, <2>6, <2>7
<1>3. ASSUME NEW v \in Uploads, TakesDelay(w, v) PROVE FinishPending(u)'
  <2>1. v = u /\ "delay" \in StepSet
    BY <1>3 DEF TakesDelay, TakesFrom, StartPostprocessingStep
  <2>2. store[u] \in PP
    BY <1>3, <2>1 DEF TakesDelay, TypeOK
  <2>3. Last("delay")
    BY <1>3, <2>1, <2>2, NextFollows DEF TakesDelay, ToStore
  <2>4. StartPostprocessingStep(u, "delay") \in Finishing(u)
    BY <2>1, <2>3 DEF Finishing
  <2> QED
    BY <1>0, <1>3, <2>1, <2>4 DEF TakesDelay
<1>4. ASSUME NEW v \in Uploads, NEW f \in {"ok", "failed"}, TakesReady(w, v, f) PROVE FALSE
  BY <1>4 DEF TakesReady
<1>5. ASSUME NEW e \in Event, TakesUnknown(w, e) \/ TakesCommand(w, e) PROVE FALSE
  BY <1>5 DEF TakesUnknown, TakesCommand
<1> QED
  BY <1>1, <1>2, <1>3, <1>4, <1>5 DEF Takes

\* A finished record stays about to be acted upon.
LEMMA FinishedStep ==
    ASSUME TypeOK, Progress, OnlyReceived, Kinds, \A w \in Workers : Follows(worker[w])'
    PROVE  FinishedRecords'
<1>0. ASSUME NEW u \in Uploads, Waiting(u)', Receives(u)
      PROVE  /\ store'[u] = NoPP
             /\ \A w \in Workers : worker'[w].pp # NoPP => worker'[w].ev.id # u
  <2>1. u \notin Received
    BY <1>0 DEF Received, Receives
  <2> QED
    BY <1>0, <2>1 DEF Receives, SameService, OnlyReceived, KnownWorker
<1>1. ASSUME NEW u \in Uploads, Waiting(u), Waiting(u)', FinishPending(u) PROVE FinishPending(u)'
  BY <1>1, FinishSucceeds DEF FinishPending
<1>2. ASSUME NEW u \in Uploads, Waiting(u), NEW w \in Workers, worker[w].ev.id = u
      PROVE  worker[w].pc \notin {"mark", "delete"}
  BY <1>2 DEF Progress, Follows, ReadyDecided, ReadyEvent, Waiting, Decided
<1>3. ASSUME NEW u \in Uploads, store'[u] # NoPP, Waiting(u)', store'[u].currentStep = "finished",
             store'[u].failures <= MaxRetries
      PROVE  FinishPending(u)'
  <2>1. Waiting(u)
    BY <1>0, <1>3, WaitingBefore
  <2>2. CASE store'[u] = store[u]
    <3>1. FinishPending(u)
      BY <1>3, <2>1, <2>2 DEF Progress, FinishedRecords, FinishedRecord
    <3> QED
      BY <1>1, <1>3, <2>1, <3>1
  <2>3. ASSUME NEW w \in Workers, Stores(w), worker[w].ev.id = u, store'[u] = worker[w].pp
        PROVE  FinishPending(u)'
    <3>1. worker[w].pc = "store"
      BY <1>2, <2>1, <2>3 DEF Stores
    <3>2. FinishPending(u)
      BY <1>3, <2>1, <2>3, <3>1 DEF Progress, FinishedRecords, FinishedRecord
    <3> QED
      BY <1>1, <1>3, <2>1, <3>2
  <2>4. ASSUME NEW w \in Workers, Deletes(w), worker[w].ev.id = u PROVE FALSE
    BY <1>2, <2>1, <2>4 DEF Deletes
  <2> QED
    BY <2>2, <2>3, <2>4, KindsStore
<1>4. ASSUME NEW w \in Workers, worker'[w].pc = "store", NEW u \in Uploads, worker'[w].ev.id = u,
             Waiting(u)', worker'[w].pp.currentStep = "finished", worker'[w].pp.failures <= MaxRetries
      PROVE  FinishPending(u)'
  <2>0. worker'[w].pp # NoPP
    BY <1>4 DEF Follows
  <2>1. Waiting(u)
    BY <1>0, <1>4, <2>0, WaitingBefore
  <2>2. CASE worker'[w].pc = worker[w].pc /\ worker'[w].ev = worker[w].ev /\ worker'[w].pp = worker[w].pp
    <3>1. FinishPending(u)
      BY <1>4, <2>1, <2>2 DEF Progress, FinishedRecords, FinishedRecord
    <3> QED
      BY <1>1, <1>4, <2>1, <3>1
  <2>3. CASE Freed(w) \/ Acks(w) \/ worker'[w].pc = "publish"
    BY <1>4, <2>3 DEF Freed, Acks
  <2>4. CASE Deletes(w) /\ worker'[w].ev = worker[w].ev
    BY <1>2, <1>4, <2>1, <2>4 DEF Deletes
  <2>5. CASE Takes(w)
    BY <1>4, <2>1, <2>5, TakesFinished
  <2> QED
    BY <2>2, <2>3, <2>4, <2>5, KindsWorker DEF Becomes, KeepsAll
<1>5. \A w \in Workers : worker'[w].pc = "store" => worker'[w].ev.id \in Uploads
  BY DEF Follows
<1> QED
  BY <1>3, <1>4, <1>5 DEF FinishedRecords, FinishedRecord

-----------------------------------------------------------------------------
(* The invariant and the theorem.                                          *)

\* Nothing has happened yet: every worker is idle.
LEMMA ProgressInit ==
    ASSUME Init
    PROVE  Progress
<1>1. \A w \in Workers : /\ worker[w].pc = "idle" /\ worker[w].ev = NoEvent /\ worker[w].next = NoEvent
  BY DEF Init, Idle
<1>2. \A u \in Uploads : store[u] = NoPP /\ session[u] = "none"
  BY DEF Init
<1>3. (\A e \in Event : bus[e] = 0) /\ (\A t \in Timer : timers[t] = 0)
  BY DEF Init
<1>4. NoEvent \notin Event /\ NoEvent \notin Delayed
  BY NoEventAssumption DEF Event
<1>5. NoUploadForgotten
  BY <1>2 DEF NoUploadForgotten
<1>6. ASSUME NEW u \in Uploads PROVE Untouched(u)
  <2>1. \A e \in Driving(u) : e \in Event
    BY DrivingEvents
  <2> QED
    BY <1>1, <1>3, <1>4, <2>1 DEF Untouched
<1>7. ReadyDecided
  BY <1>1, <1>3, <1>4 DEF ReadyDecided, ReadyEvent
<1>8. FinishedRecords
  BY <1>1, <1>2 DEF FinishedRecords
<1>9. \A w \in Workers : Follows(worker[w])
  BY <1>1, <1>4 DEF Follows
<1> QED
  BY <1>5, <1>6, <1>7, <1>8, <1>9 DEF Progress

\* Every step keeps the invariant.
LEMMA ProgressStep ==
    ASSUME TypeOK, TypeOK', OnlyReceived, Progress, [Next]_vars
    PROVE  Progress'
<1>1. Kinds
  BY NextKinds
<1>2. \A w \in Workers : Follows(worker[w])'
  BY <1>1, FollowsStep
<1>3. NoUploadForgotten'
  BY <1>1, ForgottenStep
<1>4. \A u \in Uploads : (store[u] = NoPP /\ ~Decided(u) => Untouched(u))'
  BY <1>1, UntouchedStep
<1>5. ReadyDecided'
  BY <1>1, ReadyStep
<1>6. FinishedRecords'
  BY <1>1, <1>2, FinishedStep
<1> QED
  BY <1>2, <1>3, <1>4, <1>5, <1>6 DEF Progress

\* An upload the storage provider waits for is never forgotten, for every list
\* of steps, every number of workers, retries, faults and commands: as long as
\* its session is open, and none of the losses that NoUploadForgotten names has
\* hit it, some event, worker or goroutine will move it on, or the call that
\* received it has still to publish BytesReceived.
THEOREM NoUploadForgottenAlways == Spec => []NoUploadForgotten
<1>1. Progress => NoUploadForgotten
  BY DEF Progress
<1> QED
  BY <1>1, TypeCorrect, OnlyReceivedAlways, ProgressInit, ProgressStep, PTL DEF Spec

=============================================================================
