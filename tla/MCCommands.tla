----------------------------- MODULE MCCommands -----------------------------
(***************************************************************************)
(* Small instances of three groups of commands of the helper: running a    *)
(* cell (CellExecution), talking to the model (ModelConversation), and the *)
(* commands on jobs, services and records (Resources).  They share no      *)
(* variable, and the gate lets one command through at a time, so that a    *)
(* behaviour here is about one of the groups.                              *)
(***************************************************************************)
EXTENDS CellExecution, ModelConversation, MCResources

VARIABLE group   (* which commands the behaviour is about                  *)

mcVars == <<cellVars, chatVars, vars, group>>

MCInit ==
    CellInit /\ ChatInit /\ StartsWithArc /\ group \in {"cells", "chat", "resources"}

Cells(A) == group = "cells" /\ A /\ UNCHANGED <<chatVars, vars, group>>
Chat(A) == group = "chat" /\ A /\ UNCHANGED <<cellVars, vars, group>>
OfResources(A) == group = "resources" /\ A /\ UNCHANGED <<cellVars, chatVars, group>>

(* An end of the helper counts with the choices and the faults.            *)
FewTogether == restarts' + choices' + faults' <= MaxTogether

MCNext == Cells(CellNext) \/ Chat(ChatNext) \/ OfResources(Next /\ FewTogether)

(* The fairness of CellExecution and of ModelConversation.                 *)
MCFairness ==
    /\ WF_mcVars(Cells(Reconnecting \/ Executing))
    /\ WF_mcVars(Cells(Reading))
    /\ \A h \in Handlers : WF_mcVars(Cells(Replying(h)))
    /\ WF_mcVars(Cells(KernelCompletes))
    /\ WF_mcVars(Cells(Interrupt))
    /\ WF_mcVars(Chat(Reply))

MCSpec == MCInit /\ [][MCNext]_mcVars /\ MCFairness

=============================================================================
