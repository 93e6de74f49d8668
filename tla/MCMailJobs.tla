------------------------------ MODULE MCMailJobs ------------------------------
(* Instances of MailJobs for TLC.                                            *)
EXTENDS MailJobs

\* The jobs share no mark: one of them at a time shows all there is.
OneJob == {{"onboarding"}, {"digest"}, {"reminder"}}
=============================================================================
