---------------------------- MODULE MCLeadsOutbox ---------------------------
(***************************************************************************)
(* Instances of the leads' outbox for TLC.                                 *)
(***************************************************************************)
EXTENDS LeadsOutbox
=============================================================================
