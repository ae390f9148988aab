-------------------------- MODULE MCPostprocessing --------------------------
(* Instances of PostprocessingService for TLC. *)
EXTENDS PostprocessingInvariants

DelayTwoChecks == <<"delay", "virusscan", "policies">>
OneCheck == <<"virusscan">>

\* What antivirus and policies report.
ReportedOutcomes(s) ==
    CASE s = "virusscan" -> {"continue", "retry", "abort"}
      [] s = "policies"  -> {"continue", "delete"}
      [] OTHER           -> {"continue"}

\* The same without retries.
FinalOutcomes(s) == ReportedOutcomes(s) \ {"retry"}
=============================================================================
