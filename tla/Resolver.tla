------------------------------ MODULE Resolver ------------------------------
(***************************************************************************)
(* ResourceResolver (resolver.py): which of the resources that a provider  *)
(* lists, if any, is taken for the workspace of a project.  A resource is  *)
(* scored by the relations that name it and by what it has in common with  *)
(* what the user expects; the order of the list decides between equals.    *)
(*                                                                         *)
(* An attribute is a value of a small set, "" if it is not known; case is  *)
(* already folded.  A job name "hint" contains a word of the project's.    *)
(* created says on which side of created_after a resource was made.  The   *)
(* application type stands for the kind where the resource has none.       *)
(***************************************************************************)
EXTENDS Integers, Sequences, FiniteSets, FiniteSetsExt

ActiveStates == {"RUNNING", "COMPLETING", "READY", "BUSY", "IDLE"}
WaitStates == {"PENDING", "CONFIGURING", "QUEUED", "SUBMITTED"}
TerminalStates == {"COMPLETED", "FAILED", "CANCELLED", "CANCELED", "TIMEOUT", "PREEMPTED",
                   "NOT_IN_QUEUE", "STOPPED", "DELETED"}

Relations == {"linked", "workspace", "project_workspace", "association", "project_tag"}
Metadata == {"owner", "allocation", "application_type", "job_name", "cluster", "provider"}
Strong == Metadata \union {"start_time"}

(* What a piece of evidence counts.                                        *)
Weight ==
    [linked |-> 150, workspace |-> 150, project_workspace |-> 130, association |-> 130,
     project_tag |-> 120,
     owner |-> 15, allocation |-> 15, application_type |-> 14, job_name |-> 14,
     name_hint |-> 3, cluster |-> 10, provider |-> 8,
     start_time |-> 10, too_early |-> -10, expected_state |-> 5, other_state |-> -5,
     active |-> 8, waiting |-> 5]

Same(expected, actual) == expected # "" /\ expected = actual

Ids(c) == {c.id, c.opaque} \ {""}

(* What speaks against a resource whatever else speaks for it.             *)
Refuted(c, e) ==
    \/ c.id = "" \/ c.state \in TerminalStates
    \/ \E f \in {"owner", "cluster", "allocation"} : e[f] # "" /\ c[f] \notin {"", e[f]}
    \/ e.provider # "" /\ c.provider # e.provider

(* What names a resource of project p, of which ws are the workspaces.     *)
Related(p, ws, c, e) ==
    {r \in Relations :
        CASE r = "linked"            -> Ids(c) \intersect p.resources # {}
          [] r = "workspace"         -> Same(e.workspace, c.workspace)
          [] r = "project_workspace" -> ~Same(e.workspace, c.workspace) /\ c.workspace \in p.workspaces
          [] r = "association"       -> \E w \in ws : c.workspace = w.id \/ Ids(c) \intersect w.resources # {}
          [] r = "project_tag"       -> Same(c.project, p.id)}

(* What a resource has in common, or not, with what is expected.           *)
Matching(c, e) ==
    {f \in Metadata : Same(e[f], c[f])}
    \union {x \in {"name_hint"} : c.job_name = "hint" /\ e.job_name # "hint"}
    \union (IF e.created_after = "" \/ c.created = "" THEN {}
            ELSE IF c.created = "after" THEN {"start_time"} ELSE {"too_early"})
    \union (IF e.state = "" THEN {}
            ELSE IF e.state = c.state THEN {"expected_state"} ELSE {"other_state"})
    \union {x \in {"active"} : c.state \in ActiveStates}
    \union {x \in {"waiting"} : c.state \in WaitStates}

Score(p, ws, c, e) ==
    IF Refuted(c, e) THEN [value |-> -1, explicit |-> FALSE, strong |-> 0]
    ELSE LET related == Related(p, ws, c, e)
             evidence == related \union Matching(c, e)
         IN  [value |-> MapThenSumSet(LAMBDA x : Weight[x], evidence),
              explicit |-> related # {},
              strong |-> Cardinality(evidence \intersect Strong)]

(* Whether a resource may be taken without asking.  A faulty variant is    *)
(* content with three attributes.                                          *)
AutomaticFromThree(score) == score.explicit \/ score.strong >= 3

Automatic(score) == score.explicit \/ score.strong >= 4

(* The candidates, by their places in the list: those that are not         *)
(* excluded, the first of the best of them (sorted is stable), and those   *)
(* that come close to it.                                                  *)
Viable(scores) == {i \in DOMAIN scores : scores[i].value >= 0}

Top(scores) ==
    CHOOSE i \in Viable(scores) : \A j \in Viable(scores) \ {i} :
        scores[j].value < scores[i].value \/ (scores[j].value = scores[i].value /\ i < j)

(* A faulty variant takes the first of the best without looking further.   *)
TopAlone(scores) == {Top(scores)}

Plausible(scores) ==
    {i \in Viable(scores) : scores[i].value >= scores[Top(scores)].value - 8 /\ Automatic(scores[i])}

Decided(action, id, confidence) == [action |-> action, resource |-> id, confidence |-> confidence]

(* resolve, of the resources in the order in which they are listed.        *)
ResolvedFrom(listed, scores) ==
    LET top == listed[Top(scores)]  best == scores[Top(scores)]
        attach == IF top.state \in ActiveStates THEN "reuse"
                  ELSE IF top.state \in WaitStates THEN "wait" ELSE "choose"
    IN  IF ~Automatic(best) THEN Decided("choose", "", "none")
        ELSE IF Cardinality(Plausible(scores)) > 1 \/ attach = "choose" THEN Decided("choose", "", "low")
        ELSE Decided(attach, top.id, IF best.explicit \/ best.strong >= 5 THEN "high" ELSE "medium")

Resolve(p, ws, listed, e) ==
    LET scores == [i \in DOMAIN listed |-> Score(p, ws, listed[i], e)]
    IN  IF Viable(scores) = {} THEN Decided("start", "", "high") ELSE ResolvedFrom(listed, scores)

(* ControlPlane.resolve: without a project nothing is associated; what is  *)
(* expected is the current workspace and its owner.                        *)
Expected(workspace, owner) ==
    [workspace |-> workspace, owner |-> owner, allocation |-> "", application_type |-> "",
     job_name |-> "", cluster |-> "", provider |-> "", created_after |-> "", state |-> ""]

ResolveLocally(p, ws, current, listed) ==
    IF p.id = "" THEN Decided("choose", "", "low")
    ELSE Resolve(p, ws, listed,
                 IF \E w \in ws : w.id = current
                 THEN Expected(current, (CHOOSE w \in ws : w.id = current).owner) ELSE Expected("", ""))

=============================================================================
