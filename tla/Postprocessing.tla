--------------------------- MODULE Postprocessing ---------------------------
(***************************************************************************)
(* The postprocessing of one upload, as                                    *)
(* services/postprocessing/pkg/postprocessing/postprocessing.go computes   *)
(* it: a record that remembers which step is current, and functions that   *)
(* move the record and return the event to publish next.  The module has   *)
(* no state; PostprocessingService keeps the records.                      *)
(*                                                                         *)
(* In the code the methods mutate the receiver and return the event.  Here *)
(* each returns both, as [pp |-> ..., next |-> ...].                       *)
(***************************************************************************)
EXTENDS Naturals, Sequences

CONSTANTS
    Uploads,        \* the ids of uploads
    Steps,          \* the configured POSTPROCESSING_STEPS, in order
    MaxRetries,     \* POSTPROCESSING_MAX_RETRIES
    NoEvent,        \* a nil event
    NoPP            \* the record that is not there

StepSet == {Steps[i] : i \in 1 .. Len(Steps)}

\* A step is configured at most once: next() finds a step by its name.
\* "finished" is reserved: it is how a record says that all steps are done.
ASSUME StepsAssumption ==
    /\ Steps \in Seq(STRING)
    /\ \A i, j \in 1 .. Len(Steps) : Steps[i] = Steps[j] => i = j
    /\ "finished" \notin StepSet
    /\ "-" \notin StepSet

ASSUME MaxRetriesAssumption == MaxRetries \in Nat

ASSUME NoAssumption == NoEvent # NoPP

\* Status.Outcome of a fresh record is the empty string.
Outcomes == {"continue", "retry", "abort", "delete"}

CurrentSteps == StepSet \cup {"finished"}

-----------------------------------------------------------------------------
(* The events the services exchange.  A field an event does not have is "-". *)

BytesReceived(u) == [type |-> "BytesReceived", id |-> u, step |-> "-", outcome |-> "-"]

StartPostprocessingStep(u, s) ==
    [type |-> "StartPostprocessingStep", id |-> u, step |-> s, outcome |-> "-"]

PostprocessingStepFinished(u, s, o) ==
    [type |-> "PostprocessingStepFinished", id |-> u, step |-> s, outcome |-> o]

PostprocessingRetry(u) ==
    [type |-> "PostprocessingRetry", id |-> u, step |-> "-", outcome |-> "-"]

PostprocessingFinished(u, o) ==
    [type |-> "PostprocessingFinished", id |-> u, step |-> "-", outcome |-> o]

\* Failed is the outcome field: "failed" or "ok".
UploadReady(u, f) == [type |-> "UploadReady", id |-> u, step |-> "-", outcome |-> f]

ResumePostprocessing(u, s) ==
    [type |-> "ResumePostprocessing", id |-> u, step |-> s, outcome |-> "-"]

RestartPostprocessing(u) ==
    [type |-> "RestartPostprocessing", id |-> u, step |-> "-", outcome |-> "-"]

-----------------------------------------------------------------------------
(* The record and its operations. *)

PP == [currentStep : CurrentSteps, outcome : Outcomes \cup {"-"},
       failures : Nat, finished : BOOLEAN]

\* A record that is not there is told from every record.
ASSUME NoPPAssumption == NoPP \notin PP

\* A record whose steps are done says how they ended.
ValidPP(pp) == pp \in PP /\ (pp.currentStep = "finished" => pp.outcome \in Outcomes)

\* The record that the service builds for BytesReceived, before InitPP moves it.
\* currentStep is the empty string there; InitPP always overwrites it.
New == [currentStep |-> "finished", outcome |-> "-", failures |-> 0, finished |-> FALSE]

\* step() moves CurrentStep only: Status.Outcome keeps its last value.
step(pp, u, s) ==
    [pp |-> [pp EXCEPT !.currentStep = s], next |-> StartPostprocessingStep(u, s)]

finished(pp, u, o) ==
    [pp   |-> [pp EXCEPT !.currentStep = "finished", !.outcome = o],
     next |-> PostprocessingFinished(u, o)]

retry(pp, u) ==
    [pp |-> [pp EXCEPT !.outcome = "retry"], next |-> PostprocessingRetry(u)]

\* The step after current; the last one, and a step that is not configured,
\* finish the postprocessing.
next(pp, u, current) ==
    IF \E i \in 1 .. Len(Steps) : Steps[i] = current /\ i + 1 <= Len(Steps)
    THEN step(pp, u, Steps[1 + CHOOSE i \in 1 .. Len(Steps) :
                                   Steps[i] = current /\ i + 1 <= Len(Steps)])
    ELSE finished(pp, u, "continue")

\* Postprocessing.Init
InitPP(pp, u) ==
    IF Len(Steps) = 0 THEN finished(pp, u, "continue") ELSE step(pp, u, Steps[1])

\* Mutant: a failure that is retried is not counted.
NextStepUncounted(pp, u, finishedStep, outcome) ==
    IF outcome = "continue" THEN next(pp, u, finishedStep)
    ELSE IF outcome # "retry" THEN finished(pp, u, outcome)
    ELSE IF pp.failures + 1 > MaxRetries THEN finished(pp, u, "abort")
    ELSE retry(pp, u)

\* A failed step is started again until MaxRetries failures were counted.
NextStep(pp, u, finishedStep, outcome) ==
    LET failed == [pp EXCEPT !.failures = @ + 1]
    IN  IF outcome = "continue" THEN next(pp, u, finishedStep)
        ELSE IF outcome # "retry" THEN finished(pp, u, outcome)
        ELSE IF failed.failures > MaxRetries THEN finished(failed, u, "abort")
        ELSE retry(failed, u)

\* Mutant: resuming a finished record forgets how it ended.
CurrentStepForgetful(pp, u) ==
    IF pp.currentStep = "finished"
    THEN finished(pp, u, "continue")
    ELSE step(pp, u, pp.currentStep)

\* A finished record publishes its outcome again, else its step starts again.
CurrentStep(pp, u) ==
    IF pp.currentStep = "finished"
    THEN finished(pp, u, pp.outcome)
    ELSE step(pp, u, pp.currentStep)

=============================================================================
