----------------------------- MODULE Registries -----------------------------
(***************************************************************************)
(* The records of the local control plane, as values: the workspace        *)
(* registry of workspaces.py, the projects of projects.py, the job history *)
(* of jobs.py, and ControlPlane (control_plane.py), which changes them     *)
(* together.  A workspace registry is the sequence of its records in the   *)
(* order of updated_at, the oldest first; a job history is in the order of *)
(* insertion.                                                              *)
(*                                                                         *)
(* The id of a workspace is derived from what it stands for: a job, a      *)
(* resource of another kind, or a notebook server (stable_resource_id).    *)
(* sound says that WorkspaceRecord.__post_init__ would accept the record,  *)
(* that is its name and its metadata, which are not told apart.            *)
(***************************************************************************)
EXTENDS Naturals, Sequences, SequencesExt

CONSTANTS
    Allowed,         (* for each profile, the providers of its project      *)
    WorkspaceLimit,  (* WorkspaceRegistry.limit                             *)
    HistoryLimit     (* JobHistory.limit                                    *)

ASSUME RegistriesAssumption ==
    WorkspaceLimit \in Nat \ {0} /\ HistoryLimit \in Nat \ {0}

Profiles == DOMAIN Allowed

NoWorkspace == <<"none", 0>>

(* A bounded dictionary keeps the last entries; a faulty variant keeps one *)
(* too many.                                                               *)
OneTooMany(entries, limit) ==
    IF Len(entries) <= limit + 1 THEN entries
    ELSE SubSeq(entries, Len(entries) - limit, Len(entries))

Bounded(entries, limit) ==
    IF Len(entries) <= limit THEN entries
    ELSE SubSeq(entries, Len(entries) - limit + 1, Len(entries))

-----------------------------------------------------------------------------
(* WorkspaceRecord and WorkspaceRegistry *)

Transitions ==
    [new            |-> {"planning", "starting", "stopped", "failed"},
     planning       |-> {"starting", "stopping", "stopped", "failed"},
     starting       |-> {"queued", "ready", "degraded", "stopping", "failed"},
     queued         |-> {"starting", "ready", "degraded", "stopping", "failed"},
     ready          |-> {"busy", "input_required", "degraded", "recovering",
                         "stopping", "stopped", "failed"},
     busy           |-> {"ready", "input_required", "degraded", "recovering", "stopping", "failed"},
     input_required |-> {"busy", "ready", "degraded", "recovering", "stopping", "failed"},
     degraded       |-> {"ready", "recovering", "stopping", "stopped", "failed"},
     recovering     |-> {"ready", "busy", "input_required", "degraded", "stopping", "failed"},
     stopping       |-> {"stopped", "degraded", "failed"},
     stopped        |-> {"planning", "starting"},
     failed         |-> {},
     unknown        |-> {"planning", "starting", "stopped", "failed"}]

Legal(from, to) == to = from \/ to \in Transitions[from]

Ids(reg) == {r.id : r \in ToSet(reg)}

Get(reg, id) == CHOOSE r \in ToSet(reg) : r.id = id

Replaced(reg, record) == [i \in DOMAIN reg |-> IF reg[i].id = record.id THEN record ELSE reg[i]]

(* A change that sets updated_at; a faulty variant does not.               *)
ChangedOnly(reg, record) == Replaced(reg, record)

Touched(reg, record) ==
    LET place == CHOOSE i \in DOMAIN reg : reg[i].id = record.id
    IN  Append(RemoveAt(reg, place), record)

Record(id, project, provider, state, sound) ==
    [id |-> id, project |-> project, provider |-> provider, state |-> state,
     sound |-> sound, jobs |-> {}]

(* wanted.sound is about what the record becomes; described says that the  *)
(* call brings metadata, without which an existing record is not looked at *)
(* again.                                                                  *)
Follows(existing, wanted, described) ==
    (described => wanted.sound) /\ Legal(existing.state, wanted.state)

Accepts(reg, wanted, described) ==
    IF wanted.id \in Ids(reg)
    THEN LET existing == Get(reg, wanted.id)
         IN  /\ existing.project = wanted.project /\ existing.provider = wanted.provider
             /\ Follows(existing, wanted, described)
    ELSE wanted.sound

(* ensure: a record is created or brought up to date.  When the metadata   *)
(* of an existing record is refused, or its state cannot follow, its name  *)
(* and its metadata have been replaced before that is found.               *)
Ensured(reg, wanted, described) ==
    IF wanted.id \notin Ids(reg)
    THEN IF wanted.sound THEN Bounded(Append(reg, wanted), WorkspaceLimit) ELSE reg
    ELSE LET existing == Get(reg, wanted.id)
             renamed  == [existing EXCEPT !.sound = wanted.sound]
         IN  IF existing.project # wanted.project \/ existing.provider # wanted.provider
             THEN reg
             ELSE IF Follows(existing, wanted, described)
             THEN Touched(reg, [renamed EXCEPT !.state = wanted.state])
             ELSE Replaced(reg, renamed)

(* from_records: what the constructor of a record refuses is dropped.      *)
Restored(reg) ==
    LET kept[n \in 0..Len(reg)] ==
            IF n = 0 THEN <<>>
            ELSE IF reg[n].sound THEN Append(kept[n - 1], reg[n]) ELSE kept[n - 1]
    IN  kept[Len(reg)]

-----------------------------------------------------------------------------
(* ProjectRecord: the ids linked to it.  Which of them is active is left   *)
(* out: it is always the one linked last, and nothing here depends on it.  *)

NewProject == [workspaces |-> {}, jobs |-> {}]

LinkWorkspace(project, id) == [project EXCEPT !.workspaces = @ \union {id}]

(* A faulty variant keeps the last job only.                               *)
KeepJob(project, job) == [project EXCEPT !.jobs = {job}]

LinkJob(project, job) == [project EXCEPT !.jobs = @ \union {job}]

-----------------------------------------------------------------------------
(* JobHistory: of each job, whether it is known to have ended.             *)

Known(history) == {e.job : e \in ToSet(history)}

(* add: an entry that is there keeps its place.                            *)
Added(history, entry) ==
    IF entry.job \in Known(history)
    THEN [i \in DOMAIN history |-> IF history[i].job = entry.job THEN entry ELSE history[i]]
    ELSE Bounded(Append(history, entry), HistoryLimit)

(* update: a job that is not known, or not any more, becomes known.        *)
Updated(history, job, over) == Added(history, [job |-> job, over |-> over])

(* Those that job_list finds are waiting or running: one after the other,  *)
(* in the order of their numbers, those up to a number.                    *)
UpdatedAll(history, jobs, upto) ==
    LET after[n \in 0..upto] ==
            IF n = 0 THEN history
            ELSE IF n \in jobs THEN Updated(after[n - 1], n, FALSE) ELSE after[n - 1]
    IN  after[upto]

(* from_records: the entries saved last, put in one after the other.       *)
RestoredHistory(entries) ==
    LET recent == Bounded(entries, HistoryLimit)
        after[n \in 0..Len(recent)] ==
            IF n = 0 THEN <<>> ELSE Added(after[n - 1], recent[n])
    IN  after[Len(recent)]

-----------------------------------------------------------------------------
(* ControlPlane: the registry, its current id and the projects; ok says    *)
(* that the call returned.                                                 *)

Raises(plane) == [ok |-> FALSE, plane |-> plane]
Returns(plane) == [ok |-> TRUE, plane |-> plane]

EnsureWorkspace(plane, wanted, described) ==
    LET p   == wanted.project
        reg == Ensured(plane.workspaces, wanted, described)
    IN  IF wanted.provider \notin Allowed[p] THEN Raises(plane)
        ELSE IF ~Accepts(plane.workspaces, wanted, described) THEN Raises([plane EXCEPT !.workspaces = reg])
        ELSE Returns([workspaces |-> reg, current |-> wanted.id,
                      projects |-> [plane.projects EXCEPT ![p] = LinkWorkspace(@, wanted.id)]])

(* The workspace that a resource is associated with: the one selected, or  *)
(* the resource's own, which becomes current.                              *)
Target(plane, p, resource, selected, sound, described) ==
    IF selected = NoWorkspace
    THEN EnsureWorkspace(plane, Record(resource, p, "arc", "queued", sound), described)
    ELSE IF /\ selected \in Ids(plane.workspaces)
            /\ Get(plane.workspaces, selected).project = p
            /\ Get(plane.workspaces, selected).provider = "arc"
         THEN Returns(plane) ELSE Raises(plane)

(* associate_resource, of a job of ARC: the links of other providers and   *)
(* of the other kinds (endpoint, artifact, deployment, provider_resource)  *)
(* are left out.  A kind that is not supported is found out when the       *)
(* workspace exists.                                                       *)
Associate(plane, p, resource, selected, sound, described) ==
    LET target == Target(plane, p, resource, selected, sound, described)
        id     == IF selected = NoWorkspace THEN resource ELSE selected
        record == Get(target.plane.workspaces, id)
    IN  IF "arc" \notin Allowed[p] THEN Raises(plane)
        ELSE IF ~target.ok THEN target
        ELSE IF resource[1] # "job" THEN Raises(target.plane)
        ELSE Returns([workspaces |-> Touched(target.plane.workspaces,
                                             [record EXCEPT !.jobs = @ \union {resource[2]}]),
                      current |-> id,
                      projects |-> [target.plane.projects EXCEPT ![p] = LinkJob(@, resource[2])]])

(* Before the recovery file is written, the job submitted last is linked   *)
(* to the current project, whichever it is.                                *)
Settled(plane, p, last) ==
    IF last = 0 THEN plane ELSE [plane EXCEPT !.projects[p] = LinkJob(@, last)]

=============================================================================
