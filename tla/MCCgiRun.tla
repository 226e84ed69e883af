------------------------------- MODULE MCCgiRun -------------------------------
(***************************************************************************)
(* Three clients, the script of one of which cannot be started.             *)
(***************************************************************************)
EXTENDS CgiRun
=============================================================================
