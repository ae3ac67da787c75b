------------------------------- MODULE MCIpc -------------------------------
(* Small instances of Ipc for TLC. *)
EXTENDS Ipc
============================================================================
