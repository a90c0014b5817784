----------------------------- MODULE Resources ------------------------------
(***************************************************************************)
(* The commands of the helper that use Slurm: jobs, the managed vLLM       *)
(* service with its SSH tunnel, and the records kept of them in memory and *)
(* in the recovery file.                                                   *)
(*                                                                         *)
(* Commands come one at a time (CommandGate), so each is one action.  What *)
(* Slurm does is part of it, and so is whether the answer comes back: an   *)
(* answer that is lost (the SSH connection times out, the helper ends)     *)
(* leaves what Slurm has done and nothing else.  What Slurm or the tunnel  *)
(* do while a command waits could as well happen after it: the records     *)
(* depend on the answer alone.                                             *)
(*                                                                         *)
(* Slurm, the tunnel's process and the end of the helper go their own way. *)
(* A compute node is named by the job that it was given to.                *)
(***************************************************************************)
EXTENDS Registries

CONSTANTS
    MaxJobs,      (* bound: jobs that Slurm accepts                         *)
    MaxRestarts,  (* bound: ends of the helper                              *)
    MaxChoices,   (* bound: associations, notebook servers and stops        *)
    MaxFaults,    (* bound: lost answers, failed writes, unreadable lists   *)
    MaxTogether   (* bound: choices and faults in one behaviour             *)

ASSUME ResourcesAssumption ==
    /\ MaxJobs \in Nat /\ MaxRestarts \in Nat /\ MaxChoices \in Nat
    /\ MaxFaults \in Nat /\ MaxTogether \in Nat

VARIABLES
    slurm,      (* the state of each job, "none" before it is submitted     *)
    profile,    (* with which the helper was started                        *)
    last,       (* last_job_id                                              *)
    jobHistory,
    plane,      (* the ControlPlane                                         *)
    service,    (* the ManagedService, job 0 for none                       *)
    tunnel,     (* to which node the local port leads, 0 for none, and      *)
                (* whether the process of the tunnel runs                   *)
    stray,      (* nodes to which a tunnel of an earlier process of the     *)
                (* helper was left leading, and may lead still              *)
    endpoints,  (* for each job, the node its registered endpoint leads to  *)
    saved,      (* the recovery file                                        *)
    told,       (* the submissions that were answered, with their profile   *)
    started,    (* the vLLM jobs this process of the helper has started     *)
    restarts, choices, faults

records == <<last, jobHistory, plane, saved>>
vllm == <<service, tunnel, stray, endpoints, started>>
bounds == <<restarts, choices, faults>>
vars == <<slurm, profile, records, vllm, told, bounds>>

Jobs == 1..MaxJobs
Active == {"PENDING", "RUNNING"}
Over == {"ended", "NOT_IN_QUEUE"}

NoService == [job |-> 0, node |-> 0, state |-> "SUBMITTED"]
NoTunnel == [to |-> 0, up |-> FALSE]

NewPlane == [workspaces |-> <<>>, current |-> NoWorkspace,
             projects |-> [p \in Profiles |-> NewProject]]

States == Active \union Over \union {"SUBMITTED"}
Sources == {<<"jupyter", 0>>, <<"browser", 0>>}
WorkspaceIds == Sources \union ({"job"} \X Jobs) \union {<<"other", 1>>}

WorkspaceRecords ==
    [id : WorkspaceIds, project : Profiles, provider : {"arc", "browser"},
     state : {"queued", "ready", "stopped"}, sound : BOOLEAN, jobs : SUBSET Jobs]
Projects == [workspaces : SUBSET WorkspaceIds, jobs : SUBSET Jobs]
Entries == [job : Jobs, over : BOOLEAN]

IsRegistry(reg) ==
    /\ reg \in Seq(WorkspaceRecords) /\ Len(reg) <= WorkspaceLimit
    /\ \A i, j \in DOMAIN reg : reg[i].id = reg[j].id => i = j
IsPlane(pl) ==
    /\ pl = [workspaces |-> pl.workspaces, current |-> pl.current, projects |-> pl.projects]
    /\ IsRegistry(pl.workspaces)
    /\ pl.current \in Ids(pl.workspaces) \union {NoWorkspace}
    /\ pl.projects \in [Profiles -> Projects]
IsHistory(h) ==
    /\ h \in Seq(Entries) /\ Len(h) <= HistoryLimit
    /\ \A i, j \in DOMAIN h : h[i].job = h[j].job => i = j

TypeOK ==
    /\ slurm \in [Jobs -> Active \union {"none", "ended"}]
    /\ profile \in Profiles /\ last \in 0..MaxJobs
    /\ IsHistory(jobHistory) /\ IsHistory(saved.jobHistory)
    /\ IsPlane(plane) /\ IsPlane(saved.plane)
    /\ saved.last \in 0..MaxJobs /\ saved.profile \in Profiles
    /\ service \in [job : 0..MaxJobs, node : 0..MaxJobs, state : States]
    /\ service.node \in {0, service.job}
    /\ tunnel \in [to : 0..MaxJobs, up : BOOLEAN] /\ stray \subseteq Jobs
    /\ endpoints \in [Jobs -> 0..MaxJobs]
    /\ told \subseteq [job : Jobs, profile : Profiles] /\ started \subseteq Jobs
    /\ restarts \in 0..MaxRestarts /\ choices \in 0..MaxChoices
    /\ faults \in 0..MaxFaults

Init ==
    /\ slurm = [j \in Jobs |-> "none"]
    /\ profile \in Profiles
    /\ last = 0 /\ jobHistory = <<>> /\ plane = NewPlane
    /\ saved = [last |-> 0, jobHistory |-> <<>>, plane |-> NewPlane, profile |-> profile]
    /\ service = NoService /\ tunnel = NoTunnel /\ stray = {}
    /\ endpoints = [j \in Jobs |-> 0] /\ started = {}
    /\ told = {} /\ restarts = 0 /\ choices = 0 /\ faults = 0

-----------------------------------------------------------------------------
(* persist_recovery_state: the file is replaced, or an error is raised.    *)

Fault ==
    /\ faults < MaxFaults /\ choices + faults < MaxTogether
    /\ faults' = faults + 1

File(lst, hist, pl) == [last |-> lst, jobHistory |-> hist, plane |-> pl, profile |-> profile]

Persist(lst, hist, pl, written) ==
    /\ last' = lst /\ jobHistory' = hist
    /\ plane' = Settled(pl, profile, lst)
    /\ saved' = IF written THEN File(lst, hist, plane') ELSE saved
    /\ IF written THEN UNCHANGED faults ELSE Fault

-----------------------------------------------------------------------------
(* Slurm and the tunnel's process, by themselves *)

Progress ==
    /\ \E j \in Jobs :
          \/ slurm[j] = "PENDING" /\ slurm' = [slurm EXCEPT ![j] = "RUNNING"]
          \/ slurm[j] \in Active /\ slurm' = [slurm EXCEPT ![j] = "ended"]
    /\ UNCHANGED <<profile, records, vllm, told, bounds>>

(* sbatch: job j is the next one.                                          *)
Queues(j) ==
    /\ slurm[j] = "none" /\ \A i \in 1..(j - 1) : slurm[i] # "none"
    /\ slurm' = [slurm EXCEPT ![j] = "PENDING"]

(* scancel: a job that has ended stays as it is.                           *)
Cancels(j) == slurm' = [slurm EXCEPT ![j] = IF @ \in Active THEN "ended" ELSE @]

(* squeue: a job that has ended may still be shown for a while.            *)
Report(shown) ==
    [j \in Jobs |-> IF slurm[j] = "ended" /\ ~shown THEN "NOT_IN_QUEUE" ELSE slurm[j]]

Submittable == {j \in Jobs : slurm[j] # "none"}

-----------------------------------------------------------------------------
(* Jobs *)

Tell(j, written) ==
    told' = IF written THEN told \union {[job |-> j, profile |-> profile]} ELSE told

Submitted(j) == Added(jobHistory, [job |-> j, over |-> FALSE])

(* job_submit: the job is at Slurm; whether the policy of the project      *)
(* allows it is asked afterwards.  A faulty variant saves too early.       *)
RecordSubmissionLate(j) ==
    LET a == Associate(plane, profile, <<"job", j>>, NoWorkspace, TRUE, TRUE)
    IN  /\ last' = j /\ jobHistory' = Submitted(j)
        /\ plane' = IF a.ok THEN Settled(a.plane, profile, j) ELSE a.plane
        /\ saved' = File(last, jobHistory, plane)
        /\ Tell(j, a.ok) /\ UNCHANGED faults

RecordSubmission(j) ==
    LET a == Associate(plane, profile, <<"job", j>>, NoWorkspace, TRUE, TRUE)
    IN  IF a.ok
        THEN \E written \in BOOLEAN :
                Persist(j, Submitted(j), a.plane, written) /\ Tell(j, written)
        ELSE /\ last' = j /\ jobHistory' = Submitted(j) /\ plane' = a.plane
             /\ UNCHANGED <<saved, told, faults>>

JobSubmit ==
    /\ \E j \in Jobs :
          /\ Queues(j)
          /\ RecordSubmission(j) \/ (Fault /\ UNCHANGED <<records, told>>)
    /\ UNCHANGED <<profile, vllm, restarts, choices>>

(* job_list: an array job has an id that update refuses, after the jobs    *)
(* listed before it have been entered; then nothing is saved.              *)
JobList ==
    /\ LET listed == {j \in Jobs : slurm[j] \in Active}
       IN  \/ \E written \in BOOLEAN :
                 Persist(last, UpdatedAll(jobHistory, listed, MaxJobs), plane, written)
           \/ /\ Fault
              /\ \E k \in listed : jobHistory' = UpdatedAll(jobHistory, listed, k)
              /\ UNCHANGED <<last, plane, saved>>
    /\ UNCHANGED <<slurm, profile, vllm, told, restarts, choices>>

(* Slurm may list a job that has ended or not: it is over either way.      *)
JobStatus ==
    /\ \E j \in Submittable, written \in BOOLEAN :
          Persist(last, Updated(jobHistory, j, slurm[j] = "ended"), plane, written)
    /\ UNCHANGED <<slurm, profile, vllm, told, restarts, choices>>

JobLogs ==
    /\ \E written \in BOOLEAN : Persist(last, jobHistory, plane, written)
    /\ UNCHANGED <<slurm, profile, vllm, told, restarts, choices>>

JobCancel ==
    /\ \E j \in Submittable :
          /\ Cancels(j)
          /\ \/ \E written \in BOOLEAN :
                   Persist(last, Updated(jobHistory, j, TRUE), plane, written)
             \/ Fault /\ UNCHANGED records
    /\ UNCHANGED <<profile, vllm, told, restarts, choices>>

-----------------------------------------------------------------------------
(* EndpointRegistry: one entry for the model that a job serves, replaced   *)
(* when it is entered again.  The URL is that of the tunnel's local port;  *)
(* here it is the node that the tunnel leads to.                           *)

Registered(job, node) == [endpoints EXCEPT ![job] = node]

Unregistered(job) == [endpoints EXCEPT ![job] = 0]

-----------------------------------------------------------------------------
(* The managed vLLM service *)

(* Whether one is tracked.  Faulty variants take one that waits for none,  *)
(* or do not ask.                                                          *)
TrackedUnlessWaiting == service.job # 0 /\ service.state \notin {"ended", "PENDING"}

NeverTracked == FALSE

Tracked == service.job # 0 /\ service.state # "ended"

VllmStart ==
    /\ ~Tracked
    /\ \E j \in Jobs :
          /\ Queues(j)
          /\ \/ /\ service' = [job |-> j, node |-> 0, state |-> "SUBMITTED"]
                /\ started' = started \union {j}
                /\ \E written \in BOOLEAN :
                      Persist(j, Submitted(j), plane, written) /\ Tell(j, written)
             \/ Fault /\ UNCHANGED <<service, started, records, told>>
    /\ UNCHANGED <<profile, tunnel, stray, endpoints, restarts, choices>>

(* The node is reported of a job that runs, and perhaps of one that did.   *)
Nodes(state) ==
    IF state = "RUNNING" THEN {service.job}
    ELSE IF state = "ended" THEN {service.node, service.job} ELSE {service.node}

VllmRefresh ==
    /\ service.job # 0
    /\ \E shown \in BOOLEAN :
          LET state == Report(shown)[service.job]
          IN  /\ \E node \in Nodes(state) : service' = [service EXCEPT !.state = state, !.node = node]
              /\ \E written \in BOOLEAN :
                    Persist(last, Updated(jobHistory, service.job, state \in Over), plane, written)
    /\ UNCHANGED <<slurm, profile, tunnel, stray, endpoints, started, told, restarts, choices>>

(* vllm_stop: the tunnel goes first, whatever becomes of the cancellation. *)
(* A faulty variant takes the cancellation for granted.                    *)
VllmStopUnasked ==
    /\ service.job # 0
    /\ tunnel' = NoTunnel
    /\ service' = [service EXCEPT !.state = "ended"]
    /\ \/ /\ Cancels(service.job)
          /\ endpoints' = Unregistered(service.job)
          /\ \E written \in BOOLEAN :
                Persist(last, Updated(jobHistory, service.job, TRUE), plane, written)
       \/ Fault /\ UNCHANGED <<slurm, endpoints, records>>
    /\ UNCHANGED <<profile, stray, started, told, restarts, choices>>

VllmStop ==
    /\ service.job # 0
    /\ tunnel' = NoTunnel
    /\ \/ /\ Cancels(service.job)
          /\ service' = [service EXCEPT !.state = "ended"]
          /\ endpoints' = Unregistered(service.job)
          /\ \E written \in BOOLEAN :
                Persist(last, Updated(jobHistory, service.job, TRUE), plane, written)
       \/ /\ Fault
          /\ Cancels(service.job) \/ UNCHANGED slurm
          /\ UNCHANGED <<service, endpoints, records>>
    /\ UNCHANGED <<profile, stray, started, told, restarts, choices>>

-----------------------------------------------------------------------------
(* The tunnel and the managed provider *)

(* vllm_tunnel: the old tunnel ends and the new one takes its place before *)
(* it is known whether it comes up.  It is taken to be up when its process *)
(* lives a moment later, which it does also where the local port is        *)
(* another's: the port then leads where a stray tunnel leads.  (What other *)
(* programs of the computer do with the port is left out.)                 *)
OpenTunnel ==
    /\ service.node # 0
    /\ \/ /\ tunnel' = [to |-> service.node, up |-> FALSE]
          /\ UNCHANGED endpoints
       \/ \E node \in {service.node} \union stray :
             /\ tunnel' = [to |-> node, up |-> TRUE]
             /\ endpoints' = Registered(service.job, node)
    /\ UNCHANGED <<slurm, profile, records, service, stray, started, told, bounds>>

TunnelDies ==
    /\ tunnel.up
    /\ tunnel' = [tunnel EXCEPT !.up = FALSE]
    /\ UNCHANGED <<slurm, profile, records, service, stray, endpoints, started, told, bounds>>

(* chat with the managed provider: the key is that of the service, the     *)
(* port that of the tunnel; the endpoint is registered when it answers.    *)
ManagedChat ==
    /\ service.job # 0 /\ tunnel.up
    /\ endpoints' = Registered(service.job, tunnel.to)
    /\ UNCHANGED <<slurm, profile, records, service, tunnel, stray, started, told, bounds>>

-----------------------------------------------------------------------------
(* Workspaces *)

Choice ==
    /\ choices < MaxChoices /\ choices + faults < MaxTogether
    /\ choices' = choices + 1

WithinBounds == choices' + faults' <= MaxTogether

(* associate_resource: a job, or a resource of a kind that is not          *)
(* supported, with a workspace or its own, which gets a name of any length *)
(* and any metadata, or none.                                              *)
AssociateResource ==
    /\ Choice
    /\ \E resource \in {<<"job", j>> : j \in Submittable} \union {<<"other", 1>>},
          selected \in Ids(plane.workspaces) \union {NoWorkspace} :
       \E sound, described \in IF selected = NoWorkspace THEN BOOLEAN ELSE {TRUE} :
          LET a == Associate(plane, profile, resource, selected, sound, described)
          IN  IF a.ok
              THEN \E written \in BOOLEAN : Persist(last, jobHistory, a.plane, written)
              ELSE plane' = a.plane /\ UNCHANGED <<last, jobHistory, saved, faults>>
    /\ WithinBounds
    /\ UNCHANGED <<slurm, profile, vllm, told, restarts>>

(* remember_workspace.                                                     *)
Remember(source, provider) ==
    LET e == EnsureWorkspace(plane, Record(source, profile, provider, "ready", TRUE), FALSE)
    IN  IF e.ok
        THEN \E written \in BOOLEAN : Persist(last, jobHistory, e.plane, written)
        ELSE plane' = e.plane /\ UNCHANGED <<last, jobHistory, saved, faults>>

(* The end of attach: a notebook server is attached.                       *)
AttachServer ==
    /\ Choice
    /\ Remember(<<"jupyter", 0>>, "arc")
    /\ WithinBounds
    /\ UNCHANGED <<slurm, profile, vllm, told, restarts>>

(* browser_workspace: the notebook of the course, in the browser.          *)
OpenBrowserNotebook ==
    /\ Choice
    /\ Remember(<<"browser", 0>>, "browser")
    /\ WithinBounds
    /\ UNCHANGED <<slurm, profile, vllm, told, restarts>>

(* The end of stop: the current workspace is stopped, if ARC provides it.  *)
(* When its state may not become stopped the command fails before it has   *)
(* changed a record, and there is no step.                                 *)
StopWorkspace ==
    /\ Choice
    /\ IF plane.current = NoWorkspace \/ Get(plane.workspaces, plane.current).provider # "arc"
       THEN \E written \in BOOLEAN : Persist(last, jobHistory, plane, written)
       ELSE LET record == Get(plane.workspaces, plane.current)
                stopped == Touched(plane.workspaces, [record EXCEPT !.state = "stopped"])
            IN  /\ Legal(record.state, "stopped")
                /\ \E written \in BOOLEAN :
                      Persist(last, jobHistory, [plane EXCEPT !.workspaces = stopped], written)
    /\ WithinBounds
    /\ UNCHANGED <<slurm, profile, vllm, told, restarts>>

-----------------------------------------------------------------------------
(* The helper ends, whatever it was doing, and starts with a profile.      *)
(* Nothing ends the process of the tunnel with it (lifecycle).             *)

Found ==
    LET reg == Restored(saved.plane.workspaces)
    IN  [workspaces |-> reg,
         current |-> IF saved.plane.current \in Ids(reg) THEN saved.plane.current ELSE NoWorkspace,
         projects |-> saved.plane.projects]

Restart ==
    /\ restarts < MaxRestarts /\ restarts' = restarts + 1
    /\ \E p \in Profiles :
          /\ profile' = p
          /\ plane' = IF saved.profile = p /\ saved.last \in Known(saved.jobHistory)
                      THEN Settled(Found, p, saved.last) ELSE Found
    /\ last' = saved.last /\ jobHistory' = RestoredHistory(saved.jobHistory)
    /\ service' = NoService /\ tunnel' = NoTunnel
    /\ stray' \in {stray, stray \union (IF tunnel.up THEN {tunnel.to} ELSE {})}
    /\ endpoints' = [j \in Jobs |-> 0] /\ started' = {}
    /\ UNCHANGED <<slurm, saved, told, choices, faults>>

Next ==
    \/ Progress \/ TunnelDies
    \/ JobSubmit \/ JobList \/ JobStatus \/ JobLogs \/ JobCancel
    \/ VllmStart \/ VllmRefresh \/ VllmStop \/ OpenTunnel \/ ManagedChat
    \/ AssociateResource \/ AttachServer \/ OpenBrowserNotebook \/ StopWorkspace
    \/ Restart

Spec == Init /\ [][Next]_vars

-----------------------------------------------------------------------------
(* Every job whose submission was answered is in the recovery file, in the *)
(* project of the profile it was submitted under: no restart, lost answer  *)
(* or later command, under whatever profile, loses it (helper.py job_submit *)
(* and vllm_start save before they answer).                                *)
SubmissionIsRecoverable ==
    \A t \in told : t.job \in saved.plane.projects[t.profile].jobs

(* A vLLM job that this process has started and that Slurm has not ended   *)
(* is the tracked one: a new service never pushes a running one out of     *)
(* reach of vllm_stop, also after a cancellation that failed.              *)
NoForgottenService ==
    \A j \in started : slurm[j] \in Active => service.job = j

(* What the records call ended has ended at Slurm: a cancellation that     *)
(* failed, a lost answer and a restart leave no record of an end that did  *)
(* not happen.                                                             *)
EndedIsTrue ==
    /\ \A h \in {jobHistory, saved.jobHistory} : \A e \in ToSet(h) : e.over => slurm[e.job] = "ended"
    /\ service.job # 0 /\ service.state \in Over => slurm[service.job] = "ended"

(* The key of the managed service, and the endpoint registered for it,     *)
(* lead to the node of that service or to a node that its job has given    *)
(* back, never to another service that runs: a tunnel that outlives its    *)
(* service, a new service and a tunnel that did not come up included.      *)
(* The exception is the tunnel that an earlier process of the helper has   *)
(* left: it may hold the port, and lead to a service that runs.            *)
KeyStaysUnlessStray ==
    /\ service.job # 0 /\ tunnel.up =>
          tunnel.to \in {service.job} \union stray \/ slurm[tunnel.to] = "ended"
    /\ \A j \in Jobs : endpoints[j] # 0 =>
          endpoints[j] \in {j} \union stray \/ slurm[endpoints[j]] = "ended"

(* The current workspace is the one that was updated last, in memory and   *)
(* in the file: so the registry, which drops the one not updated for the   *)
(* longest time when it is full, never drops the current one.              *)
CurrentIsNewest ==
    \A pl \in {plane, saved.plane} :
        pl.current # NoWorkspace =>
            pl.workspaces # <<>> /\ pl.workspaces[Len(pl.workspaces)].id = pl.current

(* The registry and the projects agree: a workspace is listed by the       *)
(* project it belongs to, and so are the jobs it is associated with, also  *)
(* after an association that failed half way and after a restart with      *)
(* another profile.                                                        *)
LinksAgree ==
    \A pl \in {plane, saved.plane} : \A r \in ToSet(pl.workspaces) :
        /\ r.id \in pl.projects[r.project].workspaces
        /\ r.jobs \subseteq pl.projects[r.project].jobs

-----------------------------------------------------------------------------
(* What the documentation says, and the code does not do *)

(* What is sent to the managed service arrives there: "prompts/tool        *)
(* results travel through a tracked localhost SSH tunnel to the user's ARC *)
(* compute-node service" (chat).                                           *)
TrafficReachesTheService ==
    service.job # 0 /\ tunnel.up => tunnel.to = service.job

=============================================================================
