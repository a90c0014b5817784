----------------------------- MODULE AtMostOnce -----------------------------
(***************************************************************************)
(* What the helper promises about the commands a page sends it, whatever   *)
(* the page resends: one command executes at a time, a command that is     *)
(* still remembered is never executed again, a command is forgotten only   *)
(* to make room when Capacity others are remembered, and once a command    *)
(* is answered the executor is free again.  How long a command takes, and  *)
(* whether it ends, is its own affair.                                     *)
(***************************************************************************)
EXTENDS Naturals, FiniteSets

CONSTANTS Commands,   (* everything that can be remembered                 *)
          Capacity,   (* how many answers are remembered                   *)
          Nobody      (* the executor is free                              *)

VARIABLES executing,  (* the command being executed, or Nobody             *)
          answered,   (* the answer to the executing command is out        *)
          remembered  (* the commands whose answer is remembered           *)

vars == <<executing, answered, remembered>>

Init ==
    /\ executing = Nobody
    /\ answered = FALSE
    /\ remembered = {}

(* The answer to id is remembered; when the memory is full one older       *)
(* answer makes room for it.                                               *)
Remember(id) ==
    \/ /\ id \in remembered \/ Cardinality(remembered) < Capacity
       /\ remembered' = remembered \union {id}
    \/ /\ id \notin remembered
       /\ Cardinality(remembered) = Capacity
       /\ \E old \in remembered : remembered' = (remembered \ {old}) \union {id}

Begin(id) ==
    /\ executing = Nobody
    /\ id \notin remembered
    /\ executing' = id
    /\ answered' = FALSE
    /\ UNCHANGED remembered

Answer(id) ==
    /\ executing = id
    /\ ~answered
    /\ answered' = TRUE
    /\ Remember(id)
    /\ UNCHANGED executing

Release ==
    /\ executing # Nobody
    /\ answered
    /\ executing' = Nobody
    /\ answered' = FALSE
    /\ UNCHANGED remembered

(* A command that is served beside the executor, without claiming it.      *)
ServeAside(id) ==
    /\ Remember(id)
    /\ UNCHANGED <<executing, answered>>

Next ==
    \/ \E id \in Commands : Begin(id) \/ Answer(id) \/ ServeAside(id)
    \/ Release

Safety == Init /\ [][Next]_vars

Spec == Safety /\ WF_vars(Release)
=============================================================================
