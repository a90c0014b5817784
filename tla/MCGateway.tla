------------------------------ MODULE MCGateway ------------------------------
(***************************************************************************)
(* Small instances of Gateway and of Decisions: the requests that change    *)
(* something, and the questions that the gateway and the helper answer      *)
(* without keeping anything.  A behaviour is about the requests or about    *)
(* one question.                                                            *)
(***************************************************************************)
EXTENDS Gateway, Decisions

CONSTANTS k1, k2, k3, a1, a2, g1, g2

\* Two groups, which the actor has or not.
TwoClaims == {{}, {g1, g2}}
\* The operator maps one of them, or both with different roles.
TwoProvisions == {{<<g1, 1>>}, {<<g1, 1>>, <<g2, 3>>}}

Symmetry == Permutations({k1, k2, k3}) \cup Permutations({a1, a2})

-----------------------------------------------------------------------------
(* A project with two workspaces, resources that are related to it or not, *)
(* and what a user may expect of them.                                     *)

Project == [id |-> "p1", resources |-> {"o1"}, workspaces |-> {"w1", "w2"}]

NoProject == [id |-> "", resources |-> {}, workspaces |-> {}]

Workspaces ==
    {[id |-> "w1", resources |-> {"o2"}, owner |-> "x"],
     [id |-> "w2", resources |-> {}, owner |-> ""]}

Everything ==
    [workspace |-> "w1", owner |-> "x", allocation |-> "x", application_type |-> "x",
     job_name |-> "x", cluster |-> "x", provider |-> "x", created_after |-> "x", state |-> "RUNNING"]

ProviderOnly == [Everything EXCEPT !.workspace = "", !.allocation = "", !.application_type = "",
                                   !.job_name = "", !.cluster = "", !.created_after = "", !.state = ""]

Resource(id, state, created, known, other) ==
    [f \in Metadata |-> IF f \in known THEN "x" ELSE IF f = other \/ f = "provider" THEN "y" ELSE ""]
    @@ [id |-> id, opaque |-> "", state |-> state, workspace |-> "", project |-> "", created |-> created]

WithRelation(c) ==
    {c, [c EXCEPT !.project = "p1"], [c EXCEPT !.opaque = "o1"], [c EXCEPT !.opaque = "o2"],
     [c EXCEPT !.workspace = "w1"], [c EXCEPT !.workspace = "w2"]}

KnownSets ==
    {{}, {"provider"}, {"provider", "owner", "allocation"},
     {"provider", "owner", "allocation", "cluster"}, Metadata}

Candidates(id) ==
    UNION {WithRelation(Resource(id, state, created, known, other)) :
              state \in {"RUNNING", "COMPLETED"}, created \in {"", "before", "after"},
              known \in KnownSets, other \in {"job_name", "owner"}}
    \union {Resource(id, state, "after", Metadata, "owner") : state \in {"PENDING", "UNKNOWN"}}

Few(id) ==
    UNION {WithRelation(Resource(id, "RUNNING", "", known, "job_name")) : known \in {{"provider"}, Metadata}}

Listings ==
    {{a, b} : a \in Candidates("a"), b \in Few("b")}
    \union {{a, b, c} : a \in Few("a"), b \in Few("b"), c \in Few("c")}
    \union {{a, b} : a \in {Resource("a", "RUNNING", "before", known, "job_name") : known \in KnownSets},
                     b \in {Resource("b", "RUNNING", "", known, "job_name") : known \in KnownSets}}

-----------------------------------------------------------------------------
Workloads ==
    [mode : Modes, preferred : {"auto", "browser", "arc", "cloud", "unknown"}, gpu : BOOLEAN,
     packages : BOOLEAN, persistent : BOOLEAN, large : BOOLEAN]

Applications ==
    [type : Modes \union {"static"}, provider : {"auto", "arc", "common-platform"},
     gpu : BOOLEAN, packages : {FALSE}, persistent : BOOLEAN, large : BOOLEAN]

AllowedSets == {{}, {"browser", "arc"}, {"arc"}, {"common-platform", "cloud"}}

MCQuestions ==
    [about : {"workspace"}, project : {Project}, workspaces : {Workspaces},
     candidates : Listings, expected : {Everything, ProviderOnly}]
    \union
    [about : {"jobs"}, project : {Project, NoProject}, workspaces : {Workspaces},
     current : {"", "w1"}, candidates : {{a, b} : a \in Few("a"), b \in Few("b")}]
    \union
    [about : {"workload"}, request : Workloads, allowed : AllowedSets, hosted : BOOLEAN]
    \union
    [about : {"application"}, application : Applications, allowed : AllowedSets \ {{}},
     hosted : BOOLEAN]

-----------------------------------------------------------------------------
Silent == [about |-> "nothing"]

MCInit ==
    /\ Init
    /\ \/ asked = Silent /\ answers = {}
       \/ DecisionInit /\ groups = {} /\ direct = 0 /\ mapping = {<<g1, 1>>}

MCNext ==
    \/ asked = Silent /\ Next /\ UNCHANGED decisionVars
    \/ DecisionNext /\ UNCHANGED vars

MCSpec == MCInit /\ [][MCNext]_<<vars, decisionVars>>

=============================================================================
