----------------------------- MODULE MCPrograms -----------------------------
(***************************************************************************)
(* The example programs, those that wait for events and those that list or *)
(* convert something.  They are separate processes and share nothing: each *)
(* behaviour is that of one of them.                                       *)
(***************************************************************************)
EXTENDS MCEventLoops, MCTools

loopVars == << vars, captureVars, pipeVars >>
toolVars == << encapVars, gvars, wvars, tvars, lvars >>

NoLoop == pc = "none" /\ c_pc = "none" /\ p_pc = "none"

ProgramsInit == MCInit /\ ToolsInit

ProgramsNext ==
  \/ Unused({step, g_pc, w_pc, t_pc, l_pc}) /\ MCNext /\ UNCHANGED toolVars
  \/ NoLoop /\ ToolsNext /\ UNCHANGED loopVars

(* The fairness of MCSpec and of ToolsSpec. *)
ProgramsSpec ==
  /\ ProgramsInit /\ [][ProgramsNext]_<< loopVars, toolVars >>
  /\ Fairness /\ Captures!Fairness /\ Pipes!Fairness
  /\ WF_lvars(L!Reads)
=============================================================================
