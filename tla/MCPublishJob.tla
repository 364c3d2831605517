---------------------------- MODULE MCPublishJob ----------------------------
(***************************************************************************)
(* Finite instances of PublishJob.  Ids are numbers because the run takes  *)
(* the oldest first; only the admin callers are interchangeable.           *)
(***************************************************************************)
EXTENDS PublishJob
=============================================================================
