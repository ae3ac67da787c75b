------------------------------ MODULE Statorange ------------------------------
(***************************************************************************)
(* The program from its configuration to the line: main finds the           *)
(* configuration, apply_config makes items of it, and the loop updates and  *)
(* prints them.                                                            *)
(***************************************************************************)
EXTENDS Startup, StatusLine

ProgramInit == StartupInit /\ Init

\* Until the items are there nothing is printed; afterwards no file is read.
StartRunning == Launch /\ fate' = "running" /\ Construct(created')
StartFails   == Launch /\ fate' # "running" /\ UNCHANGED vars

ProgramNext ==
  \/ Search /\ UNCHANGED vars
  \/ StartRunning
  \/ StartFails
  \/ Round /\ UNCHANGED startupVars

Program == ProgramInit /\ [][ProgramNext]_<<startupVars, vars>>
==============================================================================
