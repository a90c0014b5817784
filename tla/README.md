# ARC Chat in TLA+

This directory holds a formal model of ARC Chat: TLA+ modules translated from
the Python and JavaScript under `src/`, instances that TLC checks, and theorems
that TLAPS proves. All source locations below are relative to `src/`.

ARC Chat puts a chat page in front of a Jupyter kernel on a cluster. A *local
helper* (`helper.py`), one asyncio process on the user's machine, serves the page,
holds the connection to the Jupyter server, asks a language model for Python
cells, runs the cells that the user approves, and submits Slurm jobs. A *hosted
gateway* (`hosted_gateway/`) is the multi-user variant: HTTP handlers over
PostgreSQL.

## 1. The system

| part | state it keeps | operations | what is hard about it | what makes it correct |
|---|---|---|---|---|
| **Command socket**: `helper.py` 1375-1491, `protocol.py`, the script of `arc-chat.html` | page: `pendingCommands`; helper: `clients`, `busy`, `inflight`, `replay`, `input_header` | send, connect and resend, receive, dispatch in a task, answer, release; input and interrupt beside the gate | several pages, lost connections, resends at every point of a command, handlers and tasks interleaved at each await | one command at a time; a command that is remembered is not run again; a remembered answer is never lost; a command whose dispatch ended is acknowledged |
| **Cell execution**: `helper.py` 696-791 | channel, `events`, reader task, `executing`, notebook cells | run, reconnect, read, reply to a prompt | a kernel shared with other clients, events of several requests on one channel, link loss, kernel death, saves that fail | a run that is reported finished was completed; what runs was saved; a run ends |
| **Workspace attachment**: `helper.py` 110-265, 289-316, 609-694, 1497-1519 | `base`, `notebook_path`, `session`/`kernel`, channel, recovery file, `workspaces` | attach (with recovery), detach, stop, quit, start | every await may fail half-way, answers are lost, the helper dies, the record and the kernel disagree | while a kernel is attached, notebook, kernel, channel and recovery file agree |
| **Model conversation**: `helper.py` 793-859, `model_providers.py`, `context_window.py` | `history`, `pending`, `pending_call` | chat, run, reject; retry; bounded history | a tool call must be answered before the next request, across failures | no unanswered call; a proposal belongs to the attached kernel |
| **Registries and control plane**: `workspaces.py`, `projects.py`, `control_plane.py` | bounded ordered dictionaries, the current workspace and project, associations | upsert, ensure, resolve, transition, link, associate, restore | eviction at the limit, updates that raise half-way, restart under another profile | the current record is never evicted; records and projects name each other |
| **Slurm jobs**: `jobs.py`, `helper.py` 1062-1132 | job history | submit, list, cancel, output | a submission is recorded only after it happened | a job whose submission was announced is never lost |
| **Managed vLLM service**: `services.py`, `helper.py` 1133-1186 | service record, tunnel process, endpoint registry | start, refresh, tunnel, stop | Slurm, the tunnel and the record change independently | a service that this process started and was told of is tracked while it runs; its key reaches no other service that runs, unless a tunnel outlived a restart |
| **Placement and resolution**: `providers.py`, `resolver.py` | none | decide, resolve, score | ties, margins, the order of the listing | what is attached or used is justified, and never by the order |
| **Artifacts, pipelines, proposals**: `artifacts.py`, `integration.py` | bounded stores, a graph | put, order, propose | cycles, eviction | the order is topological |
| **Hosted gateway**: `hosted_gateway/` | PostgreSQL tables, idempotency keys, platform events | create, resolve and stop a workspace, cancel a job, event stream, group synchronisation | concurrent transactions, retries with one key, events that commit out of order | one effect and one answer for each key; the membership is that of the request's groups |
| **Application state** `state.py`, **OOD browser** `ood.py`, **diagnostics**, **profiles**, **redaction**, **Kubernetes manifests**, **packaging** | little or none | see section 8 | | |

**How the parts interact.** A page sends an *envelope* through its WebSocket
connection to the handler of that connection (`socket`). The handler answers from
the replay cache, turns the command away, or creates a task (`work`) which calls
`dispatch`; `dispatch` calls `attach`, `chat`, `execute`, `stop_workspace` and the
job commands, one at a time because of the gate. `execute` shares the kernel's
channel with the reader task (through `events`), and the prompt (`input_header`)
with the handlers of all connections, which reply past the gate. `attach`,
`stop_workspace` and the job commands write the registries and the recovery file, which
the next start of the helper reads. `job_list` asks the resolver which of the listed jobs
belongs to the current workspace. The gateway shares no state with the helper, only the
code of resolver, placement and control plane.

`PROJECT.json` lists every hazard of this kind at its line, with the property
that watches it or the reason why none does.

## 2. The modules

    ReplayCache <-- CommandGate -- INSTANCE --> AtMostOnce      (abstract)
                      ^   +-- MCCommandGate                     (2 instances in one run)
                      +-- CommandGateProofs

    CellExecution, ModelConversation, MCResources <-- MCCommands    (3 groups in one run)
    Registries <-- Resources <-- MCResources                    (also a run of its own)

        CellExecution     <-- CellExecutionProofs
        ModelConversation <-- ModelConversationProofs --> Iteration
        Resources         <-- ResourcesProofs --> Iteration

    WorkspaceAttachment <-- MCWorkspaceAttachment               (3 instances)
        +-- WorkspaceAttachmentProofs

    Resolver, Placement <-- Decisions <-- MCGateway --> Gateway
                               +-- DecisionsProofs --> Iteration

    Gateway <-- MCGatewayRaces                                  (2 instances)
       |   +-- GatewayProofs
       +------ INSTANCE --> WorkspaceLedger                     (abstract)

An arrow is EXTENDS, unless it says INSTANCE. `MCCommands` extends three specifications that share no variable, and a
behaviour of its specification is one of any of them (`group`), while the others stand still; `MCGateway` does so with the gateway
and the decisions, and `MCCommandGate` with two sizes of the gate. A run is
then as large as the sum of its instances, not their product. The names of `CellExecution` and `ModelConversation`
have prefixes (`CellNext`, `ChatNext`, ...) so that they can be extended together.

The gate is what makes the split sound: `CommandGate` shows (and the proofs show for
every instance) that `dispatch` runs one command at a time, so `CellExecution` and
`WorkspaceAttachment` need a single program counter for the command being executed, and
in `Resources` and `ModelConversation` a command is one action, or one for each attempt.

An action is what one task of the event loop does between two awaits at which
the outside can intervene. Awaits that only hand data to the loop of the same
process are not separate steps.

### ReplayCache and CommandGate

`ReplayCache` is the class of `protocol.py` 58-77: the `OrderedDict` is the sequence
of its keys. `Get`, `Put` and `DroppedBy` are its operations; recursion is avoided so
that the provers can use it.

| `CommandGate` | in the code |
|---|---|
| `sent`, `waiting` | the UUIDs drawn, and `pendingCommands` of each page (`arc-chat.html` 63-67) |
| `phase`, `owner`, `inbox`, `outbox` | the WebSocket connections; `outbox` holds only the terminal answers that the page waits for |
| `handler` | what the handler of a connection awaits: an input reply or an interrupt |
| `busy`, `inflight`, `cache`, `prompt` | `Bridge.busy`, `.inflight`, `.replay`, `.input_header` |
| `task` | how far `work(d)` is: `scheduled` (created, not yet run), `running` (in `dispatch`), `answered` (before the `finally`) |
| `Send`, `Connect`, `Drop`, `Reload`, `Deliver` | `send`, `connect`, `ws.onclose`, the page's end, `handleMessage` |
| `ReplayAnswer`, `Admit`, `TurnAway`, `ClaimPrompt`, `NoPromptToClaim`, `BeginInterrupt` | the branches of `socket` for one packet |
| `ReplySent`, `ReplyFails`, `InputDone`, `InterruptDone`, `InterruptFails` | what the handler does after its awaits |
| `Start`, `Answer`, `Finish` | `work`: its two early returns and `inflight.add`; `dispatch` and `replay.put`; the `finally` |
| `runs`, `evicted`, `refused`, `replies` | history that the properties speak of; no guard reads it |

`dispatch` is opaque here. `AtMostOnce` says what pages may rely on: one command
executes at a time, one that is remembered is never begun, an answer is forgotten
only when the memory is full, and what has begun is answered and released.
`CommandGate` implements it with `remembered` mapped to the keys of the cache.

### CellExecution

`pc` follows the run command through `reconnect` (`checking`, `opening`), the first
save (`saving`), the send (`sending`), the loop over events (`waiting`) and the
`finally` (`ending`). `chan` has three values because a broken link is noticed only
later: `broken` still accepts a send and loses it. `events` and `wire` are the queue
of the bridge and what is on its way. The kernel is environment: it asks for
input, completes the head of `shell`, emits reply and idle in either order, dies and
is restarted by the server; other clients submit requests (number 0).

### WorkspaceAttachment

`pc` follows `attach`: `lookup` (GET of the sessions, for recovery), `adopting`
(channel to a recovered kernel), `creating` (kernel specs, new notebook), `posting`
(the new session), `opening` (its channel), `reconnecting`. Each call may fail, and
its answer may be lost after it took effect. `saved` is the recovery file and
`recovery_metadata`, which the code keeps equal. A workspace record is `absent`, `ready`
or `stopped`; every other state of the lifecycle is left to the registries. An attach that fails late can leave a channel to the
old kernel open with no kernel attached, and a run command then uses it and saves to the notebook of the new attempt: the properties say
nothing of a time in which no kernel is attached, and the hazard at `helper.py:730` names this. A kernel that was created before
`remember_workspace` raised was never announced; that it is orphaned is outside the properties too (the hazard at `helper.py:653`). `Restart`
is a quit, a crash or an end of the machine followed by a start, with the
launcher (`ARC_CHAT_STATE` set) or without.

### Registries and Resources

`Registries` holds the records of the control plane as values: the workspace registry is
the sequence of its records in the order of `updated_at`, which is the order in which
`upsert` evicts; `EnsureWorkspace` and `Associate` return what is left behind also when
they raise (`ok` is false), because the code changes some records before it finds out: an existing record gets its new name, and the
new metadata if they are given (`described`), before metadata that are refused or a forbidden state raise. `sound` says
whether name and metadata would pass the check of the constructor at the next start. Of
`associate_resource` only jobs of ARC are modelled; the other kinds and providers differ in the id they make.

| `Resources` | in the code |
|---|---|
| `slurm` | the jobs at the cluster (environment: `Progress`) |
| `profile`, `last`, `jobHistory`, `plane` | `Bridge.profile`, `.last_job_id`, `.job_history`, `.control_plane` |
| `service`, `tunnel`, `endpoints` | `.vllm_service`, `.vllm_tunnel`, `.endpoint_registry` |
| `stray` | nodes to which an ssh process of an earlier helper was left leading: `lifecycle` (1497-1507) does not stop it. It may have died with its parent, or hold the local port |
| `saved` | the recovery file (`persist_recovery_state`) |
| `told`, `started` | history: submissions that were answered, services this process started |
| `JobSubmit`, `JobList`, `JobStatus`, `JobLogs`, `JobCancel` | the `job_*` branches of `dispatch` |
| `VllmStart`, `VllmRefresh`, `VllmStop`, `OpenTunnel`, `ManagedChat` | the `vllm_*` branches, and `chat` with the managed provider |
| `AssociateResource`, `AttachServer`, `OpenBrowserNotebook`, `StopWorkspace` | `associate_resource`, the end of `attach`, `browser_workspace`, the end of `stop_workspace` |
| `Restart` | the end of the helper and `Bridge.__init__` under either profile |

A command is one step although it awaits SSH. The gate lets no other command run
meanwhile, so only Slurm, the tunnel process and the end of the helper move, and each can do
so before or after with the same effect, except between the effect at Slurm and its
answer: that is the `Fault` branch of each command (the answer is lost, and nothing
is recorded). A failed write of the recovery file is a `Fault` too. A job that has
ended may still be listed, or not (`Report`). `scancel` that succeeds has ended the job. A tunnel is `up` when its ssh process lives (`services.py` 279-283):
its port may then lead where a stray tunnel leads that kept it (`OpenTunnel`); other programs that hold the port are left out.

### Resolver, Placement and Decisions

`Resolver` and `Placement` are the pure functions of `resolver.py` and `providers.py`, as
operators: scores with the weights of the code, the order of a listing included
(`Resolve` takes a sequence); the fallback of a placement included. Attributes are
abstract values, known or not, agreeing or not. `Decisions` asks one question again and again, with the listing in
any order: a question is one of `workspace_resolve`, `job_list`, `placement_preview` /
`placement_plan`, `application_plan`, local or hosted. Its properties state
what an answer may be without using the scores.

### ModelConversation

The history, the request under way and its attempts; a message is its kind and size. `BoundedHistory` is
`bounded_history`, `Ask` to `RateLimited` are `chat` and `complete`, and `Run`, `Reject`, `Detach`,
`Attach` are what else touches the history. `WorkspaceAttachment` models the proposal again, across
failures inside `attach`; here attach and detach are whole.

### Gateway and WorkspaceLedger

`pc` follows a request through the middleware (`arrived`, `syncing`, `admitted`) and a mutation through
its transaction (`claiming`, `claimed`, `locked`, `closing`): one step for each statement that may wait for
a lock. The rows a transaction has written are its `draft` until `Commit`. What PostgreSQL does
is modelled by what the code relies on at READ COMMITTED (listed at the head of the module).
`Abort` ends a request at any statement (a timeout, a cancelled handler, the end of the
process). `Poll` is the event stream, from any `Last-Event-ID` it has reached. Any request may be repeated at any time, with the
same or another key. `WorkspaceLedger` says what clients may rely on: each key is executed once, in one step;
`Gateway` implements it with `table` mapped to the committed workspaces, `outcome` to the
committed keys, and `member` to the current membership. All requests are of one actor. `Forbid` is any refusal inside the
mutation (no membership, a provider that the project does not allow, `server.py:490`); the list of allowed providers is
not modelled, so it may happen at any time. `direct`, the membership that is not derived from groups, is fixed from the start: no statement of the repository writes
one. (If an operator removed it by hand, a user whose groups have a known digest would stay without a role until the groups change.)

## 3. The runs

| run | question | states | result |
|---|---|---|---|
| `gate` | Does the gate hold, is nothing dispatched twice, is no remembered answer lost, is every dispatched command acknowledged, is a prompt replied to once, and is it all an at-most-once executor, when pages lose their connections and resend? | 165 k | holds |
| `refused` | Does a command answered with "Wait for the current action" stay unexecuted? | | **violated** |
| `commands` | *Cells*: is a finished run completed, what runs saved, an old connection's end never taken for the new one's, and does a run end? *Chat*: is what the model is sent coherent, and does a request end? *Resources*: do announced submissions survive, is a service tracked while it runs, does its key reach no other one, do records agree with each other and with Slurm, across a lost answer or a failed write and a restart under another profile? | 242 k | holds |
| `kernel_restart` | Does a run end when the kernel dies under it? | | **violated** |
| `retry` | Does a retry send the request? | | **violated** |
| `traffic` | Does what is sent to the managed service arrive there? | | **violated** |
| `attachment` | Do notebook, kernel, channel, proposal and recovery file agree, while a kernel is attached, after any failure between the steps of attach, recover, detach, stop, restart? | 896 k (with symmetry) | holds |
| `stale_record` | Can the user attach again after a stop? | | **violated** |
| `recovery_lost` | Does the recovery file name the last announced kernel until the helper attaches again? | | **violated** |
| `gateway` | Does a key have one effect and one answer, is there no deadlock, is a synchronisation exact, and is it all a ledger that executes each key in one step? Is every attachment and placement justified whatever the order of the listing? | 440 k (with symmetry) | holds |
| `stale_groups` | Do older groups never overwrite newer ones? | | **violated** |
| `missed_event` | Does a stream that goes on from its last event get every event? | | **violated** |

What "a service tracked while it runs" covers is a service that this process of the helper started and whose number `sbatch` answered: one whose answer was lost was never
known, and a restart forgets the service (`vllm_service` is not in the recovery file), although its job is still in the project.

**Bounds, and why they are enough.** Each is a constant that appears in a guard, or a restriction that the MC module names.

* `gate`: a behaviour is one of two instances. In the one, a page with two connections (an old one whose handler still reads, and a
  new one), two commands and an interrupt, a cache of two. Two commands are needed
  for a refusal and for an overtaking resend, three ids for an eviction from a cache
  of two. One lost connection (`MaxDrops`) or reload suffices to resend at every
  point. In the other, two pages, two replies, two prompts, one loss: the smallest
  instance in which a failed send puts a prompt back over a newer one.
* `commands`, cells: two runs (the events of the first may arrive in the second), two losses,
  one request of another client, one `input()`, one kernel restart, one handler that
  replies. That two handlers compete for a prompt is the subject of `gate`.
* `commands`, chat: two sizes, a budget that three small messages
  or one large one fill, three attempts (as in the code), a history of five messages: it overflows the budget with a call and its result at the cut.
* `commands`, resources: two jobs (an old service and a new one), a registry of two and a history of one (both
  overflow), and two events out of: an end of the helper (one at most), an association,
  an attachment or a stop (two of them at most), a lost answer or failed write (one at most). An end of the helper counts with the others (`FewTogether`). Two profiles, of which one is not
  allowed to use ARC (the policy is asked after `sbatch`); the first start is with the other one, since under
  the restricted one no job gets a workspace.
* `attachment`: two servers (to change from one to the other), two kernels, two
  notebook names, one end of the helper. When the bound on kernels or notebooks is
  reached the attach can still fail, so nothing deadlocks for want of one more.
* `gateway`, requests: two at a time, three arrivals (so that a key is repeated during and after its first request, and a third
  request overlaps both), three keys, two applications, one change of groups or mapping,
  polls of one event.
* `gateway`, decisions: up to three listed resources, each from a set that covers every relation, states
  of all three sorts, and metadata that agree in part or contradict; project and expectation with and without owner. Every
  request and application there is.
* The runs that expect a violation are smaller: each is the shortest instance in which the claim fails. `traffic` is about
  jobs that run before they end (`RunBeforeTheyEnd`), without any fault or restart.

**Deadlock** is checked in the `attachment` runs. The others switch it off: with its bounds
used up and nothing to do the system is at rest, as an idle helper is.

**Symmetry** is used only in `attachment` (over the servers, invariants only) and in `gateway` (over keys and applications, in safety
properties only); no specification names one of these values.

**Mutants.** For each property of a passing run, `PROJECT.json` names a faulty variant
of one definition (a gate that looks at `inflight` only, a cache that evicts the wrong
end, a `finally` that forgets, a queue that is not replaced ...) with which TLC finds
the property violated. The variants stand next to the definition they replace.

## 4. Fairness

Safety is checked of `Spec`, without fairness. The liveness runs use `FairSpec`, with weak
fairness of

* the event loop: a handler with a frame, a task that is ready, and the reader go
  on (asyncio schedules what is ready);
* the page: it reconnects every two seconds, six times by itself (`arc-chat.html:145`) and then when its user asks for it (Reconnect);
  that it gets through in the end, and reads what it is sent, is an assumption on the network and the user;
* remote calls: the client session has a timeout, and pings (`heartbeat`) notice a lost link;
* the user's code: a cell ends, and a prompt is answered or interrupted. This is an
  assumption on the user: a cell that computes for ever is not an error of the helper.

`CommandGate` does *not* assume that a `dispatch` returns: finding 2 is one that does not. `DispatchedIsAcknowledged` is therefore
about commands whose dispatch ended, and holds also while another command keeps the gate for ever, because the cache is asked before the gate; that the
gate is released is not claimed. The abstract executor is fair in one respect only: what was answered is released
(`WF(Release)`), which is the `finally` of `work`.

`ModelConversation` has weak fairness of `Reply`: an attempt is answered or ends by the
timeout of the HTTP client (`ClientTimeout(total=180)`, `model_providers.py` 162-168). `Resources`
and `Gateway` are checked for safety; that the requests of the gateway do not wait for each other
in a circle is the invariant `Progress` (whenever requests are open, one of them waits for no lock that another holds). It speaks of the
guards of the locks (`Waits`) rather than of ENABLED, so that it can be proved.

No fairness makes the user send or run anything, the link fail, or the kernel die. Only
weak fairness is used: no action needs to be taken that is merely enabled now and then.

## 5. What is proved

Every safety property that a passing run checks is also a theorem. A theorem holds for every value of the constants that satisfies the assumption of its module:

| module | for any | assumed of the constants |
|---|---|---|
| `CommandGateProofs` | pages, connections, commands, prompts, losses | the cache limit is positive, the kinds of ids are disjoint, the names for "nothing" are no ids |
| `CellExecutionProofs` | numbers of runs, losses, other requests, prompts, restarts | they are natural numbers |
| `WorkspaceAttachmentProofs` | servers, kernels, notebooks, restarts | "no server" and "batch workspace" are no servers |
| `ResourcesProofs` | jobs, profiles, limits of registry and history, restarts, faults | the limits are positive |
| `GatewayProofs` | requests in progress, keys, applications, groups, mappings | roles are 1 to 6 (as in `admin.py`), requests are numbers |
| `DecisionsProofs` | projects, resources, expectations, requests, applications, allowed providers | a provider lists finitely many resources |
| `ModelConversationProofs` | message sizes, budget, attempts | sizes are positive |

| theorem | statement |
|---|---|
| `TypeCorrect`, `CellTypeCorrect`, `AttachmentTypeCorrect`, `ResourcesTypeCorrect`, `GatewayTypeCorrect`, `ConversationTypeCorrect` | `[]TypeOK` of each module (`CellTypeOK`, `ChatTypeOK` in two of them) |
| `PutKeeps` | after `Put` the new key is remembered, no other key is new, and the cache is within its limit |
| `GateIsSafe`, `DispatchedOnce`, `PromptAnsweredOnce` | `[]GateHolds`, `[]NoSecondDispatch`, `[]OneReplyPerPrompt` |
| `AnswersAreNotLost`, `AnswersTellTheTruth`, `WaitsEnd` | `[](AnswersComeBack /\ DispatchedComesBack)`, `[]AnswersAreTrue`, and the action property `WaitsEndWithAnAnswer` |
| `SocketIsAtMostOnce` | `Spec => Executor!Safety`: the command socket implements `AtMostOnce`, but for fairness |
| `SavedBeforeSent`, `FinishedIsTrue`, `EndOfOneConnection`, `WaitsForSomething` | `[]SourceIsSavedFirst`, `[]FinishedWasCompleted`, `[]EndIsCurrent`, `[]WaitingIsForSomething` |
| `SavedWhereItRuns`, `ChannelReachesKernel`, `ProposalHasItsKernel`, `CallsAreAnswered`, `RestartCanRecover` | `[]AttachmentIsCoherent`, `[]ChannelIsToKernel`, `[]ProposalIsForThisKernel`, `[]NoUnansweredCall`, `[]AnnouncedIsRecoverable` |
| `SubmissionsAreRecoverable`, `NoServiceIsForgotten`, `EndsAreTrue`, `KeysStayUnlessStray`, `TheCurrentIsNewest`, `RegistryAndProjectsAgree` | `[]SubmissionIsRecoverable`, `[]NoForgottenService`, `[]EndedIsTrue`, `[]KeyStaysUnlessStray`, `[]CurrentIsNewest`, `[]LinksAgree` |
| `KeyActsOnce`, `OneWorkspacePerApp`, `AnswerIsRemembered`, `EventsAreInOrder` | `[]OneEffectPerKey`, `[]OneActivePerApp`, `[]SameAnswer`, `[]LastEventTellsState` |
| `SynchronisationIsExact` | the action property `SyncIsExact`: a synchronisation leaves what the groups of *its own* request map to |
| `NobodyWaitsInACircle` | `[]Progress`, for the requests of one user |
| `GatewayIsLedger` | `Spec => IsLedger`: the gateway implements `WorkspaceLedger` |
| `NoQuestionIsLeft`, `WhatIsSentIsCoherent` | `[]QuestionsAreAnswered`, `[]SentHistoryIsCoherent` |
| `TheOrderNeverChooses`, `AttachmentsAreJustified`, `PlacementsAreHonest` | `DecisionSpec => []OrderNeverChooses`, `[]AttachmentIsJustified`, `[]PlacementIsHonest` |

Most of these properties are not inductive. Each module has an inductive invariant `IInv` (`DInv` in
`DecisionsProofs`); `Init => IInv` and `IInv /\ [Next]_vars => IInv'` are proved with one step for
each action, and each property follows from `IInv`, an action property from `IInv` and the step.

**The gate.** `IInv == TypeOK /\ HandlersServe /\ GateHolds /\ Ledger /\ PromptsKept`

* `HandlersServe`: a handler that awaits something serves an id of the kind it awaits
  for, so what it stores in the cache is not a command of `dispatch`.
* `Ledger`: a command that was dispatched is at work, or remembered, or evicted, and one that
  is only scheduled is not remembered. It is the reason why the two early returns of `work`
  (which leave `busy` up) are never taken, which `GateHolds` needs, and why `Start`
  dispatches nothing twice, which `NoSecondDispatch` needs.
* `PromptsKept`: a prompt is in one place only: on offer, claimed by one handler, or
  replied to; and no prompt has a number above `raised`. A failed send that puts a
  prompt back overwrites a newer offer but never offers one that was replied to.

The refinement maps the memory of `AtMostOnce` to the *set* of the keys of the cache, and what is executing
to the task at work. It needs besides `IInv` that no key is in the cache twice (`NoKeyTwice`), since the abstract
memory is full when its cardinality is the limit and the cache when its length is. `Answer`, an input reply and an interrupt that
are answered are `Remember` of the executor; `Start` is `Begin`; `Finish` is `Release`; every other step changes neither.

Three theorems are the safety half of `DispatchedIsAcknowledged`: what fairness has to bring to the page is always there to be
brought. `AnswersComeBack` says that a remembered answer that a page waits for is on its way on *each* connection of the page, or the
command is on its way to the cache; `DispatchedComesBack` says it from the dispatch on; `AnswersAreTrue` that nothing is
answered before it was done. With `IInv` their invariant is `AInv`:

* `WaitsKept`: a page waits for an id in one place of its list, and only for ids that were drawn; so what a page removes as it reads an answer
  is that id and nothing else, and a resend (`Resent`) puts all of the list on the new connection.
* `BegunRuns`: a task that runs was begun by a dispatch, so what it answers was done.

The order in `work` matters here: the answer enters the cache in the step in which the command ends, and is announced to the connections
that are live then; a page that connects later resends and finds it in the cache.

`AnswersComeBack` is a property of the run `gate`; the other two were checked by TLC on both instances before they were proved, and say less about
a small instance than `DispatchedIsAcknowledged`.

**Cell execution.** `IInv == TypeOK /\ SourceKept /\ StreamKept /\ OutcomeKept`

* `SourceKept`: the run under way is in the notebook in memory while it is saved, and in the saved one when it is sent.
* `StreamKept`: a reply or idle event that is on the wire or in the queue belongs to a run that the kernel has completed, or
  to another client; an end of stream is in the queue only when the channel is closed, because a new channel comes with a new queue.
* `OutcomeKept`: what `execute` has seen of its run it has seen of a completed one; here its test of the parent header is needed.

`WaitsForSomething` is the safety half of `RunEnds`: the loop of `execute` has no timeout, so it matters that it never waits for
nothing. While it waits on an open channel and no kernel was restarted, its request is at the kernel or each part of the outcome
that it has not seen is on the wire or in the queue: nothing between the kernel and the loop drops an event, because the reader forwards
while `executing`, which is set before the request is sent. When the channel is closed the end of the stream is in the queue; when it is broken, the reader
will notice. The exception for a restarted kernel is finding 2.

**The attachment.** The properties speak of the time between commands; the
invariant says what each intermediate step of `attach` owes them:

    IInv == TypeOK /\ BaseKept /\ AttachmentIsCoherent
                   /\ ChannelKept /\ ProposalKept /\ CallKept /\ RecoveryKept

* `BaseKept`: who attaches or is attached has a server; without it not even `TypeOK` is
  inductive, since a session might be made on no server.
* `ChannelKept`: while `attach` reopens a channel it is closed, so that a failure leaves none
  that leads elsewhere. `ProposalKept`: no proposal waits while a kernel that is new to the
  bridge is being taken. `CallKept`: `NoUnansweredCall` holds while a channel is reopened too.
* `RecoveryKept`: the kernel whose channel is opened first is not the announced one, and while
  the announced kernel is attached the record *in memory* is ready too, because any command
  on jobs and services may write it to the file.

**Resources.** `IInv` is `RecordsAreSound`, `ServiceIsSound`, `TunnelIsSound` and the types of the rest.

* `RecordsAreSound`: what the properties say of the recovery file is said of memory too, since the
  next command that saves writes the file from there. For the history, "over means ended" is made
  part of the set its entries are from, so that cutting and updating it (whatever the limit) need one
  lemma each; `PlaneIsSound` collects what each operation of the registry keeps also when it raises half-way.
* `ServiceIsSound`: the node of the service is none or that of its job, and a service that is tracked or
  was started is known to Slurm. Without the latter a new job could be given the number of a service that is believed to have run.
* `TunnelIsSound`: a tunnel that is up leads somewhere, and there is a service.

Two processes outlive what they belong to. A tunnel survives its service, and leads to a node that was given back until it is closed; a tunnel survives the helper
(`stray`), and may keep the local port. The first is why `KeyStaysUnlessStray` speaks of nodes that were given back, the second is its exception; what the
documentation promises is stronger and false (finding 6).

The restart rebuilds a registry from the file record by record, and `job_list` updates the history job by job. That
a property which each step keeps is kept by the whole is proved with the lemma `Iterates`, or its like, of the recursive function
itself (see below).

**The gateway.** The heart is what a lock excludes for as long as it is held:

* `LocksKept`: who holds a key holds it alone and its row is open; while a synchronisation
  holds the user's row nobody is in a transaction; an application's advisory lock has one holder; of two transactions about to commit no two
  write the same workspace.
* `DraftsKept`: what a transaction has read and will answer is *still so when it commits*: the active workspace it found, or that there was none,
  whether the workspace was ready, the membership. This is the step that the isolation level alone does not give.
* `AnswersKept`: what was told is what is stored with the key, and an effect has its key; hence the same answer and one effect.
* `EventsKept`, `NumbersSuffice`, `RowsKept`: events have numbers that were drawn, a number that is drawn is new, a
  workspace is created and stopped once; so an event that is committed late is still the last one of its workspace.
* `DigestKept`: the memberships are those of the groups whose digest is stored, so that a known digest needs no update. Hence `SynchronisationIsExact`; nothing
  in it compares the groups of two requests, and finding 7 is that nothing in the code does.

`NobodyWaitsInACircle` rests on the order in which locks are taken, for any number of requests: a transaction that is about to commit (`closing`) or a
synchronisation waits for nobody; one that has the application's advisory lock (`locked`) waits for the rows of a `closing` one only; one that has its key
(`claimed`) for those two; the others wait for the key or the user's row of one of these. Whoever has come furthest therefore does not wait. The scope is that of the model: the requests of one user; the user's row, keys, advisory locks and workspace rows. The key-share locks that
foreign keys take on projects and applications, for which `provision` may wait, are outside it. That `Waits` is about the code is
the lemma `WhoGoesOnDoesNotWait`: a statement that is executed was not waiting; TLC has checked the converse too, that a request which
does not wait has a statement to execute (with ENABLED, which the prover does not handle).

Under the mapping of `GatewayIsLedger`, `Commit` of a transaction is the one step of the ledger that executes its key; a
synchronisation and the operator's changes are its steps on the membership; all statements before a commit stutter.

**The conversation.** `IInv` says that the history is well formed (a result follows its call, a
question that is not last is answered), that a call without its result is the last message exactly while a cell is proposed, and that what is sent is the
bounded history. `WhatIsSentIsCoherent` then follows from facts about `BoundedHistory`: the places it keeps are the last ones, pairs of call and
result are taken or left together, and the newest group is always taken.

**Decisions.** `DInv` says that every answer given was the resolver's for some order of the listing, or the engine's. The theorems are then about the functions:

* a listing of a finite set is a bijection onto it, so that the best of the *places* is a best one of the *set* (`TakenIsBest`), and two that are both best, alone within 8 points of
  the best, are one (`OneBest`): no order can matter, also if resources share an id;
* the sum of the weights over the evidence is written out (`SumIsTotal`); a relation then gives at least 105 points, everything else together at most 102
  (`RelationsOutweigh`). So attributes never outweigh a relation; the margin is a few points, and a new
  attribute that counts as much as the others would break it;
* of the two registries as they are, only the browser and ARC are available (hosted: the browser alone) and neither is persistent, so the third branch of `DecideAuto` is
  never taken (`FreeChoiceIsHonest`).

**Data.** The provers cannot use the library's induction theorems, which take an operator as
a parameter, and lose arithmetic next to a RECURSIVE operator. The modules that are proved about therefore use recursive *functions*, or the folds of the
community modules, and `Iteration` states induction for *sets* of numbers: a set of naturals that is not empty has a least element (from the
well-foundedness of < in the library), so what holds of 0 and of n + 1 if of n is a set that has every number. That the function which a
fold or a recursive definition chooses satisfies its equation is shown by exhibiting one that does.

**What proving changed.** `TypeOK` of `ModelConversation` was false: a message that was cut has the size `ClipSize`, which need not be one of `Sizes`. `AttachmentIsJustified` took it for granted that resources have
different ids, which no provider promises; it now speaks of some resource with the id that was answered.

**Only model-checked:** liveness (`DispatchedIsAcknowledged`, `RunEnds`, `ChatEnds`, and of `IsAtMostOnceExecutor` what
`SocketIsAtMostOnce` leaves: the fairness of the executor) because the prover does not handle fairness; for `DispatchedIsAcknowledged` and `RunEnds` the safety half is proved, as said above; and the properties of the
runs that expect a violation, which are false.

## 6. What the runs found

1. **A refused command runs later** (`refused`). The error "Wait for the current action" has no
   `request_id` (`helper.py:1475`, `1486`), so the page keeps the command (`arc-chat.html:109`) and
   resends it when it reconnects, minutes later perhaps. `docs/TECHNICAL_PLAN.md:768` says that
   duplicate requests are suppressed, `:1037` that "UI reconnect must never replay code".
2. **A dead kernel holds the gate for ever** (`kernel_restart`). `execute` waits for the reply
   and the idle status of its own request (`helper.py:742-757`); a kernel that is restarted sends
   neither, the server's channel stays open, and an interrupt changes nothing.
3. **A stopped workspace blocks the next attach** (`stale_record`). The transition from stopped to
   ready is not allowed (`workspaces.py:46`), and `remember_workspace` (`helper.py:663`) raises
   after the kernel was created and its channel opened. The comment at `helper.py:644-645`
   says a stale record must never block a fresh attach. The attach is reported as failed with the kernel attached: a second click says
   `Already connected`, but the kernel was never announced and the recovery file does not name it.
4. **The recovery file is erased at start** (`recovery_lost`). Under the launcher, `persist_state`
   (`helper.py:1519`) writes the file with no base and no notebook before anyone attached.

5. **A retry sends the error instead of the conversation** (`retry`). After a 429 without a `Retry-After`
   header, `complete` parses the response into `body` (`model_providers.py:177`), the parameter that
   the next attempt posts (`:164`). The class says that a 429 is retried (`:145`).

6. **A tunnel survives its service** (`traffic`). `vllm_start` does not look at the tunnel (`helper.py:1133-1148`), and `chat` checks only that a
   service is tracked and that the tunnel's process lives (`:796-800`): after a service has ended at Slurm and a new one was started, prompts and key go to the
   node of the ended one. `docs/SECURITY_AND_DATA.md:15` says that they travel to the user's compute-node service.
7. **Older groups overwrite newer ones** (`stale_groups`). The groups come with each request and the row lock orders only the writes, so of two overlapping
   requests the older may write last. The comment at `store.py:111-112` says that this cannot happen. The next request repairs it.
8. **A stream misses events** (`missed_event`). An event whose number was drawn before, and committed after, one that a stream has delivered is
   never delivered to it (`store.py:346-353`), nor to a client that resumes with `Last-Event-ID`, which `docs/HOSTED_GATEWAY.md:36` offers. `LastEventTellsState` is about
   the table: who reads all of it learns the state.

Two more behaviours of the helper are reachable in the models and written down as hazards because no document says
what should happen: `stop_workspace` fails after it deleted the kernel when the current workspace is
that of a queued batch job (`helper.py:691`), and a reply that is resent while it is still awaited can answer
the next prompt (`helper.py:1463`).

Others were met while the newer modules were written. They are reachable in the models (the properties say what holds
besides), or lie in what is abstracted:

* `docs/HOSTED_GATEWAY.md:92` says that idempotency keys expire after 24 hours; no statement reads `expires_at`.
* `server.py:595`: the answer of `workspace_resolve` is looked up by the provider's id of a resource; if two providers use the
  same id, the opaque id of the last is answered.
* `helper.py:1069`: whether the project may use ARC is asked after `sbatch`; a refusal leaves a job
  that runs, in the history but in no project. `helper.py:222`: every write links the last job to
  the current project, also when it was submitted under another profile (the start, 177-183, is careful, the write is not).
* `helper.py:1091`: an array job's id is refused by the history in the middle of the loop of `job_list`.
* `workspaces.py:212`: `ensure` replaces a name, and metadata that are given, before it finds that the metadata are refused or that the state may not change,
  and the name without the check of the constructor; such a record is dropped at the next start, though `associate_resource` may have answered that it is saved.
* `helper.py:1497-1507`: the end of the helper does not stop the tunnel's process, and `services.py:279-283` takes a new tunnel for good when its process lives, also
  if the port was taken; `stray` is this, and the exception in `KeyStaysUnlessStray`.
* `resolver.py:277`: *which* resource is attached never depends on the order of the listing, but *whether* one is attached can, when two are
  equal in score: the first of the list is the top, and its relation or its attributes decide whether the choice is automatic. This is so with the same id and with
  different ones (two at 51 points, a running one with three strong attributes and a pending one with four). The intent at `resolver.py:3`, never to rely on an
  order, is met for the choice and not for whether one is made. A candidate that only carries the project's tag can outrank one that is linked, with enough
  agreeing metadata.
* `model_providers.py:195`: a `Retry-After` is cut at 30 s, so a server that asks for more is asked too early.

## 7. The plan

The modules of the plan are written, and every safety property that a passing run checks is proved. What is left:

1. Properties for the hazards of `PROJECT.json` that have none: the id of an input reply that is in no inflight set
   (`helper.py:1463`), a prompt that is put back after its run has ended (`:1457`), a stop when a batch workspace is current (`:691`),
   a session that was created and never announced (`:653`), a cell that runs on the channel of a recovery that failed late (`:730`).
   The models reach all of them; no document says what should happen.
2. The composition of gate and cell execution: that the single program counter of `CellExecution` is justified by `GateHolds` is
   argued here, not proved.
3. The resolver's choice when several resources carry a relation to different workspaces of one project.

## 8. What is not modelled, and why

* **Contents**: outputs of cells, wording of errors, progress events, what a job script or a notebook
  contains; a command is its id, a cell its number. Redaction and validation (`security.py`) process strings.
* **Malformed packets**: they raise before any state changes and cause an error event.
* **The application state machine** (`state.py`): when its table refuses a transition the helper forces it, so the table
  constrains nothing but the first step.
* **OOD browser automation** (`ood.py`): drives a real browser through pages outside the repository; attach takes the
  URL it finds as input. (Two things met while reading it: a chosen session is clicked by its position in the live list,
  `helper.py:512`, which may have changed since the choice was offered; and when a clicked session opens slowly, the next
  attempt takes the tab of an earlier one if that is still open, `helper.py` `discover_jupyter`.)
* **Artifacts and pipelines** (`artifacts.py`): files with hashes; `PipelineGraph` is called by tests only. **Integration proposals**
  (`integration.py`): a bounded list that nothing executes and no other part reads.
* **`WorkspaceRegistry.expire_stale`**, `remove` of registries and the observation of providers are called by tests only. (`expire_stale`
  raises in the middle of its loop when a record may not become degraded.)
* **The gateway's reading handlers**, its rate limit (arithmetic on a clock), the size of the connection pool, sessions and CSRF
  (`TurnAway` stands for every refusal before a mutation), `config.py` and `migrate.py`; of `admin.py` only what `provision` does to
  the group mappings.
* **Profiles, manifests of applications**: their validation; what they decide (allowed providers, the placement request) is
  modelled. **Diagnostics**: read-only.
* **The catalogue of models, pauses between attempts**, and what a model says.
* **Kubernetes manifests, packaging, the launcher**: generators and scripts. Only that the launcher sets
  `ARC_CHAT_STATE` matters, and is modelled (`Restart` of `WorkspaceAttachment`).
