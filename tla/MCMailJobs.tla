----------------------------- MODULE MCMailJobs -----------------------------
(* Small instances of MailJobs for TLC. *)
EXTENDS MailJobs, TLC
==============================================================================
