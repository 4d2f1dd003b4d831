----------------------------- MODULE MCApplication -----------------------------
(***************************************************************************)
(* The files of a job and the window beside its documents for TLC, in one  *)
(* run: one part of MCPublication or of MCWindow is at work, and the other *)
(* composition stays at rest.  A behaviour of this composition is one of   *)
(* FilesSpec and one of WindowSpec, which the theorems about the two are   *)
(* theorems of.                                                            *)
(***************************************************************************)
EXTENDS MCPublication, MCWindow

ApplicationInit == FilesInit /\ WindowInit /\ (windowAtWork = "none" <=> atWork # "none")

ApplicationNext ==
  \/ FilesNext /\ UNCHANGED windowVars
  \/ WindowNext /\ UNCHANGED allVars

ApplicationSpec ==
  /\ ApplicationInit /\ [][ApplicationNext]_<<allVars, windowVars>>
  /\ WF_vars(AtPublication /\ Supervisor) /\ WindowFairness
=============================================================================
