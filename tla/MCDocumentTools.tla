---------------------------- MODULE MCDocumentTools ----------------------------
(***************************************************************************)
(* The tools that treat the documents for TLC, in one run: one of the      *)
(* pages of MCToolPages is at work, or a plan of MCPageTools is made and   *)
(* carried out, and the other composition stays at rest.  A behaviour of   *)
(* this one is a behaviour of ToolSpec and of PlansSpec, which the         *)
(* theorems about the two are theorems of.                                 *)
(***************************************************************************)
EXTENDS MCToolPages, MCPageTools

PlansAtRest == operation = "remove" /\ onDisk = 1

DocumentToolsInit == ToolInit /\ PlansInit /\ (toolAtWork # "none" => PlansAtRest)

DocumentToolsNext ==
  \/ ToolNext /\ UNCHANGED <<vars, plansVars>>
  \/ toolAtWork = "none" /\ PlansNext /\ UNCHANGED toolVars

DocumentToolsSpec ==
  DocumentToolsInit /\ [][DocumentToolsNext]_<<toolVars, vars, plansVars>>
=============================================================================
