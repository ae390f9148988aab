---------------------- MODULE PostprocessingInvariants ----------------------
(***************************************************************************)
(* The inductive invariants behind AllStepsPassed and NoUploadForgotten:   *)
(* StepOrder, which PostprocessingProofs proves, and Progress, which       *)
(* PostprocessingProgress proves.  The module of the runs extends this     *)
(* one, so TLC can check both on its instances before they are proved.     *)
(***************************************************************************)
EXTENDS PostprocessingService

-----------------------------------------------------------------------------
(* AllStepsPassed: whatever asks for a step, reports one or says that all   *)
(* are done was preceded by the acceptance of all the checks before it.     *)
(* The operators take what has passed as a parameter, p.                    *)

\* All checks before step s have accepted the upload; q is what accepted it.
Reached(q, s) ==
    \A i, j \in 1 .. Len(Steps) :
        Steps[i] = s /\ j < i /\ Steps[j] # "delay" => Steps[j] \in q

\* Event e was published with good reason.
JustEvent(p, e) ==
    /\ e.type = "StartPostprocessingStep" /\ e.step \in StepSet => Reached(p[e.id], e.step)
    /\ e.type = "PostprocessingStepFinished" =>
         Reached(p[e.id], e.step) /\ (e.outcome = "continue" => e.step \in p[e.id])
    /\ e.type = "PostprocessingFinished" /\ e.outcome = "continue" => Checks \subseteq p[e.id]

\* The record of an upload that q has accepted tells nothing that is not so.
JustRecord(q, pp) ==
    /\ pp.currentStep \in StepSet => Reached(q, pp.currentStep)
    /\ pp.currentStep = "finished" /\ pp.outcome = "continue" => Checks \subseteq q

JustBus(p, b) == \A e \in Event : b[e] > 0 => JustEvent(p, e)

JustWorker(p, r) ==
    /\ r.ev \in Event => JustEvent(p, r.ev)
    /\ r.next \in Event => JustEvent(p, r.next)
    /\ r.pp # NoPP => r.ev.id \in Uploads /\ JustRecord(p[r.ev.id], r.pp)

StepOrder ==
    /\ JustBus(passed, bus)
    /\ \A t \in Timer : timers[t] > 0 => JustEvent(passed, t.ev)
    /\ \A u \in Uploads : store[u] # NoPP => JustRecord(passed[u], store[u])
    /\ \A w \in Workers : JustWorker(passed, worker[w])
    /\ AllStepsPassed

-----------------------------------------------------------------------------
(* NoUploadForgotten.                                                      *)

\* The storage provider waits for u, and nothing of u was given up.
Waiting(u) == session[u] = "open" /\ u \notin lost

Last(s) == \A i \in 1 .. Len(Steps) : Steps[i] = s => i = Len(Steps)

\* The events that lead to PostprocessingFinished whatever the record says.
Finishing(u) ==
         {PostprocessingFinished(u, o) : o \in Outcomes}
    \cup {PostprocessingStepFinished(u, s, o) : s \in StepSet, o \in {"abort", "delete"}}
    \cup {PostprocessingStepFinished(u, s, "continue") : s \in {x \in StepSet : Last(x)}}
    \cup {StartPostprocessingStep(u, s) : s \in {x \in StepSet : x = "delay" /\ Last(x)}}
    \cup {e \in {BytesReceived(u)} : Len(Steps) = 0}

\* Event e waits on the bus, is in the hands of a worker, or will be published
\* by a sleeping goroutine.
Around(e) ==
    \/ bus[e] > 0
    \/ \E w \in Workers : Holds(w, e)
    \/ \E t \in Timer : timers[t] > 0 /\ t.ev = e

\* Something is on its way that ends the postprocessing of u.
FinishPending(u) == \E e \in Finishing(u) : Around(e)

\* The storage provider has decided on u.
Decided(u) == session[u] \in {"kept", "gone"}

\* No record of u was ever written: only the start of its postprocessing can
\* be on its way.
Untouched(u) ==
    /\ \A e \in Driving(u) \ {BytesReceived(u)} : bus[e] = 0
    /\ \A t \in Timer : t.ev.id = u => timers[t] = 0
    /\ \A w \in Workers : worker[w].ev \in Driving(u) => worker[w].ev = BytesReceived(u)
    /\ \A w \in Workers : worker[w].pc = "publish" => worker[w].next \notin Driving(u)

\* A record that says that all steps are done, and was not driven there by its
\* failures, was put there by an event that is still being worked on.
FinishedRecord(u, pp) ==
    Waiting(u) /\ pp.currentStep = "finished" /\ pp.failures <= MaxRetries => FinishPending(u)

\* What a worker has in its hands fits to where it is, and what it will publish
\* follows from what it took.
Follows(r) ==
    /\ r.pc \in {"store", "mark", "delete"} => r.ev.id \in Uploads /\ r.pp # NoPP
    /\ r.pc \in {"mark", "delete"} => r.ev \in Event /\ r.ev.type = "UploadReady"
    /\ r.pc = "publish" => r.next \in Event
    /\ r.next \in Event => r.next \in Delayed \/ r.next.type = "PostprocessingRetry"
    /\ r.next \in Delayed => r.next \in Driving(r.ev.id)
    /\ r.next \in Delayed /\ r.ev \in Finishing(r.ev.id) => r.next \in Finishing(r.ev.id)

\* UploadReady is around only for an upload that was decided on.
ReadyEvent(e) == e \in Event /\ e.type = "UploadReady" => Decided(e.id)

ReadyDecided ==
    /\ \A e \in Event : bus[e] > 0 => ReadyEvent(e)
    /\ \A w \in Workers : ReadyEvent(worker[w].ev)

FinishedRecords ==
    /\ \A u \in Uploads : store[u] # NoPP => FinishedRecord(u, store[u])
    /\ \A w \in Workers : worker[w].pc = "store" => FinishedRecord(worker[w].ev.id, worker[w].pp)

Progress ==
    /\ NoUploadForgotten
    /\ \A u \in Uploads : store[u] = NoPP /\ ~Decided(u) => Untouched(u)
    /\ ReadyDecided
    /\ FinishedRecords
    /\ \A w \in Workers : Follows(worker[w])

=============================================================================
