----------------------------- MODULE Decisions -----------------------------
(***************************************************************************)
(* The questions that the helper and the hosted gateway answer without     *)
(* keeping anything: which resource to take for a workspace (job_list of   *)
(* helper.py, workspace_resolve of server.py) and where to run a workload  *)
(* (placement_preview and application_plan of helper.py, placement_plan    *)
(* and application_plan of server.py).  The same question is asked again   *)
(* and again; a provider lists its resources in any order each time.       *)
(***************************************************************************)
EXTENDS Resolver, Placement

CONSTANT
    Questions   (* what is asked; a question says what it is about          *)

(* A provider lists finitely many resources.                               *)
ASSUME QuestionsAssumption ==
    \A q \in Questions : q.about \in {"workspace", "jobs"} => IsFiniteSet(q.candidates)

VARIABLES
    asked,    (* the question                                               *)
    answers   (* the answers that were given to it                          *)

decisionVars == <<asked, answers>>

DecisionInit == asked \in Questions /\ answers = {}

Answer(a) == answers' = answers \union {a} /\ UNCHANGED asked

(* workspace_resolve: what the user expects is part of the request.        *)
ResolveWorkspace ==
    /\ asked.about = "workspace"
    /\ \E listed \in SetToSeqs(asked.candidates) :
          Answer(Resolve(asked.project, asked.workspaces, listed, asked.expected))

(* job_list: the jobs that Slurm lists, for the current workspace.         *)
ResolveJobs ==
    /\ asked.about = "jobs"
    /\ \E listed \in SetToSeqs(asked.candidates) :
          Answer(ResolveLocally(asked.project, asked.workspaces, asked.current, listed))

Registry == IF asked.hosted THEN HostedProviders ELSE DefaultProviders

(* placement_preview, for the profile's project.                           *)
PreviewPlacement ==
    /\ asked.about = "workload" /\ ~asked.hosted
    /\ Answer(Decide(Registry, asked.request, asked.allowed))

(* placement_plan, for the project that the request names.                 *)
PlanPlacement ==
    /\ asked.about = "workload" /\ asked.hosted
    /\ Answer(Decide(Registry, asked.request, asked.allowed))

(* application_plan of the helper.                                         *)
PlanApplication ==
    /\ asked.about = "application" /\ ~asked.hosted
    /\ Answer(Decide(Registry, RequestOf(asked.application), asked.allowed))

(* application_plan of the gateway: a provider that is unknown to it makes *)
(* the manifest invalid.                                                   *)
PlanHostedApplication ==
    /\ asked.about = "application" /\ asked.hosted
    /\ Answer(Decide(Registry, RequestOf(asked.application), asked.allowed))

DecisionNext ==
    \/ ResolveWorkspace \/ ResolveJobs
    \/ PreviewPlacement \/ PlanPlacement \/ PlanApplication \/ PlanHostedApplication

DecisionSpec == DecisionInit /\ [][DecisionNext]_decisionVars

-----------------------------------------------------------------------------
Attached == {a.resource : a \in {b \in answers : b.action \in {"reuse", "wait"}}}

IsResolution == asked.about \in {"workspace", "jobs"}

(* The order in which resources are listed never decides which of them is  *)
(* taken: two answers to one question that take a resource take the same   *)
(* one.  (Whether one is taken can depend on it.)  The resolver's promise  *)
(* is that it "never relies on DOM ordering" and never guesses across ties. *)
OrderNeverChooses ==
    IsResolution => \A r, s \in Attached : r = s

Intent ==
    IF asked.about = "workspace" THEN asked.expected
    ELSE IF \E w \in asked.workspaces : w.id = asked.current
         THEN Expected(asked.current, (CHOOSE w \in asked.workspaces : w.id = asked.current).owner)
         ELSE Expected("", "")

(* What is taken is in the list, can be used, contradicts nothing that is  *)
(* known of the user's intent, and is justified by a recorded relation or  *)
(* by at least four independent attributes; attributes alone never win     *)
(* over a resource that a recorded relation names and nothing speaks       *)
(* against.  The helper takes nothing without a project.                   *)
AttachmentIsJustified ==
    IsResolution => \A r \in Attached :
        LET Relation(c) == Related(asked.project, asked.workspaces, c, Intent) # {}
            Agreeing(c) ==
                {f \in Metadata : Same(Intent[f], c[f])}
                \union {x \in {"start_time"} : Intent.created_after # "" /\ c.created = "after"}
        IN  /\ asked.about = "jobs" => asked.project.id # ""
            /\ \E c \in asked.candidates :
                  /\ c.id = r /\ r # ""
                  /\ c.state \in ActiveStates \union WaitStates
                  /\ Intent.owner # "" /\ c.owner # "" => c.owner = Intent.owner
                  /\ Intent.provider # "" => c.provider = Intent.provider
                  /\ Relation(c) \/ Cardinality(Agreeing(c)) >= 4
                  /\ (\E d \in asked.candidates : Relation(d) /\ ~Refuted(d, Intent)) => Relation(c)

(* A provider is only to be used if the project allows it, it can do what  *)
(* is asked and it is enabled, so none but the browser when hosted.  None  *)
(* is to be used or proposed in place of the one that was asked for, and   *)
(* with a free choice an enabled one that fits is always found, and one    *)
(* that is planned when there is none.                                     *)
PlacementIsHonest ==
    asked.about \in {"workload", "application"} =>
        LET request == IF asked.about = "workload" THEN asked.request ELSE RequestOf(asked.application)
            allowed == {p \in ToSet(Registry) : asked.allowed = {} \/ p.id \in asked.allowed}
            fitting == {p \in allowed : Fits(p, request)}
            enabled == {p \in fitting : p.status = "available"}
        IN  \A a \in answers :
              /\ a.action = "use" => \E p \in enabled : p.id = a.provider
              /\ a.action = "use" /\ asked.hosted => a.provider = "browser"
              /\ request.preferred # "auto" => a.provider \in {request.preferred, ""}
              /\ request.preferred = "auto" /\ enabled # {} => a.action = "use"
              /\ request.preferred = "auto" /\ fitting # {} => \E p \in fitting : p.id = a.provider

=============================================================================
