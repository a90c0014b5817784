---------------------------- MODULE CommandGate ----------------------------
(***************************************************************************)
(* The local helper's command socket: browser pages that keep the commands *)
(* they wait for and resend them when they reconnect, the connections they *)
(* come through, the handler of each connection, the single busy gate in   *)
(* front of dispatch, and the replay cache.                                *)
(*                                                                         *)
(* The helper is one asyncio loop: an action of this module is what runs   *)
(* between two awaits.  A command is its request id (the pages draw fresh  *)
(* UUIDs, so an id always carries the same action and payload); what a     *)
(* dispatched command does is left to the modules of the components, but   *)
(* for one thing that the socket takes part in: a running Python cell may  *)
(* ask for input, and the reply to it goes past the gate.                  *)
(***************************************************************************)
EXTENDS ReplayCache, FiniteSets

CONSTANTS
    Pages,         (* browser tabs showing the interface                   *)
    Conns,         (* WebSocket connections to the helper                  *)
    WorkIds,       (* ids of commands that go through dispatch             *)
    InputIds,      (* ids of replies to an input prompt                    *)
    InterruptIds,  (* ids of interrupts of the kernel                      *)
    CacheLimit,    (* ReplayCache.limit                                    *)
    MaxPrompts,    (* bound: prompts raised by Python code                 *)
    MaxDrops,      (* bound: connections lost or pages reloaded            *)
    NoId,          (* no command                                           *)
    NoPage         (* the far end of a connection that is not in use       *)

Ids == WorkIds \union InputIds \union InterruptIds

ASSUME CommandGateAssumption ==
    /\ CacheLimit \in Nat \ {0}
    /\ MaxPrompts \in Nat
    /\ MaxDrops \in Nat
    /\ NoId \notin Ids
    /\ NoPage \notin Pages
    /\ WorkIds \intersect (InputIds \union InterruptIds) = {}
    /\ InputIds \intersect InterruptIds = {}

VARIABLES
    (* the pages *)
    sent,       (* ids drawn so far                                        *)
    waiting,    (* pendingCommands of each page, in insertion order        *)
    (* the connections *)
    phase,      (* "free", "open", or "closing": closed by its page while  *)
                (* the handler still reads what arrived before             *)
    owner,      (* the page at the other end                               *)
    inbox,      (* frames to the helper                                    *)
    outbox,     (* terminal answers to the page that it waits for          *)
    handler,    (* what the handler of the connection is awaiting          *)
    (* the bridge *)
    busy, inflight, cache,
    task,       (* progress of the task create_task(work(d)) of each id    *)
    prompt,     (* input_header: the prompt on offer, 0 for none           *)
    (* the kernel *)
    raised,     (* prompts raised so far                                   *)
    blocked,    (* the running cell is blocked in input()                  *)
    (* history and bounds *)
    runs,       (* how often a command was dispatched, counted up to 2     *)
    evicted,    (* ids the cache has dropped                               *)
    refused,    (* ids answered by an error that names no request          *)
    replies,    (* how many replies a prompt got, counted up to 2          *)
    drops

pageVars   == <<sent, waiting>>
connVars   == <<phase, owner, inbox, outbox>>
gateVars   == <<busy, inflight, task, runs>>
cacheVars  == <<cache, evicted>>
promptVars == <<prompt, raised, blocked, replies>>
vars == <<pageVars, connVars, handler, gateVars, cacheVars, promptVars, refused, drops>>

Idle == [pc |-> "idle", id |-> NoId, prompt |-> 0]

UpTo2(n) == IF n < 2 THEN n + 1 ELSE 2
AtWork(id) == task[id] # "none"

TypeOK ==
    /\ sent \subseteq Ids
    /\ waiting \in [Pages -> Seq(Ids)]
    /\ phase \in [Conns -> {"free", "open", "closing"}]
    /\ owner \in [Conns -> Pages \union {NoPage}]
    /\ inbox \in [Conns -> Seq(Ids)]
    /\ outbox \in [Conns -> SUBSET Ids]
    /\ handler \in [Conns -> [pc : {"idle", "sending", "sent", "interrupting"},
                              id : Ids \union {NoId}, prompt : 0..MaxPrompts]]
    /\ busy \in BOOLEAN
    /\ inflight \subseteq WorkIds
    /\ cache \in Seq(Ids) /\ Len(cache) <= CacheLimit
    /\ task \in [WorkIds -> {"none", "scheduled", "running", "answered"}]
    /\ prompt \in 0..MaxPrompts
    /\ raised \in 0..MaxPrompts
    /\ blocked \in BOOLEAN
    /\ runs \in [WorkIds -> 0..2]
    /\ evicted \subseteq Ids
    /\ refused \subseteq Ids
    /\ replies \in [1..MaxPrompts -> 0..2]
    /\ drops \in 0..MaxDrops

Init ==
    /\ sent = {}
    /\ waiting = [p \in Pages |-> <<>>]
    /\ phase = [c \in Conns |-> "free"]
    /\ owner = [c \in Conns |-> NoPage]
    /\ inbox = [c \in Conns |-> <<>>]
    /\ outbox = [c \in Conns |-> {}]
    /\ handler = [c \in Conns |-> Idle]
    /\ busy = FALSE
    /\ inflight = {}
    /\ cache = <<>>
    /\ task = [id \in WorkIds |-> "none"]
    /\ prompt = 0
    /\ raised = 0
    /\ blocked = FALSE
    /\ runs = [id \in WorkIds |-> 0]
    /\ evicted = {}
    /\ refused = {}
    /\ replies = [n \in 1..MaxPrompts |-> 0]
    /\ drops = 0

-----------------------------------------------------------------------------
(* Pages and connections *)

Live(p) == {c \in Conns : phase[c] = "open" /\ owner[c] = p}

(* send: the page keeps the envelope until a terminal answer names its id, *)
(* and sends it now if it has a connection.  The reply box comes up with   *)
(* the first prompt.                                                       *)
Send(p, id) ==
    /\ id \notin sent
    /\ id \in InputIds => raised > 0
    /\ sent' = sent \union {id}
    /\ waiting' = [waiting EXCEPT ![p] = Append(@, id)]
    /\ inbox' = [c \in Conns |-> IF c \in Live(p) THEN Append(inbox[c], id) ELSE inbox[c]]
    /\ UNCHANGED <<phase, owner, outbox, handler, gateVars, cacheVars, promptVars, refused, drops>>

(* What a page that reconnects sends first, and a faulty variant.          *)
ForgetsToResend(p) == <<>>
Resent(p) == waiting[p]

(* connect: a page without a connection opens one and resends, in order,   *)
(* every command it still waits for.                                       *)
Connect(p, c) ==
    /\ Live(p) = {}
    /\ phase[c] = "free"
    /\ phase' = [phase EXCEPT ![c] = "open"]
    /\ owner' = [owner EXCEPT ![c] = p]
    /\ inbox' = [inbox EXCEPT ![c] = Resent(p)]
    /\ outbox' = [outbox EXCEPT ![c] = {}]
    /\ UNCHANGED <<pageVars, handler, gateVars, cacheVars, promptVars, refused, drops>>

(* The page sees its connection close: what the helper had not received    *)
(* and what the page had not received is lost.                             *)
Lose(c) ==
    /\ phase[c] = "open"
    /\ drops < MaxDrops
    /\ drops' = drops + 1
    /\ phase' = [phase EXCEPT ![c] = "closing"]
    /\ \E n \in 0..Len(inbox[c]) : inbox' = [inbox EXCEPT ![c] = SubSeq(@, 1, n)]
    /\ outbox' = [outbox EXCEPT ![c] = {}]
    /\ UNCHANGED <<owner, handler, gateVars, cacheVars, promptVars, refused>>

Drop(c) == Lose(c) /\ UNCHANGED pageVars

(* The page is reloaded or closed: its pendingCommands go with it.         *)
Reload(c) ==
    /\ Lose(c)
    /\ waiting' = [waiting EXCEPT ![owner[c]] = <<>>]
    /\ UNCHANGED sent

(* handleMessage: a terminal answer ends the page's wait for its command.  *)
Deliver(c) ==
    /\ phase[c] = "open"
    /\ \E id \in outbox[c] :
         /\ outbox' = [outbox EXCEPT ![c] = @ \ {id}]
         /\ waiting' = [waiting EXCEPT ![owner[c]] = Without(@, id)]
    /\ UNCHANGED <<sent, phase, owner, inbox, handler, gateVars, cacheVars, promptVars, refused, drops>>

(* The handler has read everything: it leaves bridge.clients and waits for *)
(* the tasks it started, which run on.                                     *)
HandlerExits(c) ==
    /\ phase[c] = "closing"
    /\ inbox[c] = <<>>
    /\ handler[c] = Idle
    /\ phase' = [phase EXCEPT ![c] = "free"]
    /\ owner' = [owner EXCEPT ![c] = NoPage]
    /\ UNCHANGED <<pageVars, inbox, outbox, handler, gateVars, cacheVars, promptVars, refused, drops>>

-----------------------------------------------------------------------------
(* The handler of a connection *)

(* emit of a terminal answer, to every connection; the pages that do not   *)
(* wait for the command ignore it.                                         *)
Announce(id) ==
    outbox' = [c \in Conns |->
                 IF phase[c] = "open" /\ id \in Remembered(waiting[owner[c]])
                 THEN outbox[c] \union {id} ELSE outbox[c]]

StoreAnswer(id) ==
    /\ cache' = Put(cache, id, CacheLimit)
    /\ evicted' = evicted \union DroppedBy(cache, id, CacheLimit)

(* The handler takes the next frame.                                       *)
Takes(c, id) ==
    /\ phase[c] # "free"
    /\ handler[c] = Idle
    /\ inbox[c] # <<>>
    /\ id = Head(inbox[c])
    /\ inbox' = [inbox EXCEPT ![c] = Tail(@)]

NewTo(id) == id \notin Remembered(cache)

(* replay.get hits: the stored answer goes to this connection alone.       *)
ReplayAnswer(c, id) ==
    /\ Takes(c, id)
    /\ ~NewTo(id)
    /\ cache' = Get(cache, id)
    /\ outbox' = IF phase[c] = "open" THEN [outbox EXCEPT ![c] = @ \union {id}] ELSE outbox
    /\ UNCHANGED <<pageVars, phase, owner, handler, gateVars, evicted, promptVars, refused, drops>>

(* The gate's flag, and a faulty variant that asks for the commands in     *)
(* dispatch: it is up only once the task has started.                      *)
GateTakenOnceStarted == inflight # {}
GateTaken == busy

(* The gate is taken before the task gets to run.                          *)
Admit(c, id) ==
    /\ Takes(c, id)
    /\ id \in WorkIds
    /\ NewTo(id)
    /\ ~GateTaken
    /\ busy' = TRUE
    /\ task' = [task EXCEPT ![id] = "scheduled"]
    /\ UNCHANGED <<pageVars, phase, owner, outbox, handler, inflight, runs, cacheVars, promptVars, refused, drops>>

(* While the gate is taken: a resend of the executing command gets an      *)
(* answer that is not terminal, any other command an error that names no   *)
(* request, so that the page goes on waiting for it.  (So does the command *)
(* itself until its task has started; that is not counted as a refusal.)   *)
TurnAway(c, id) ==
    /\ Takes(c, id)
    /\ id \in WorkIds
    /\ NewTo(id)
    /\ GateTaken
    /\ refused' = IF AtWork(id) THEN refused ELSE refused \union {id}
    /\ UNCHANGED <<pageVars, phase, owner, outbox, handler, gateVars, cacheVars, promptVars, drops>>

(* A faulty variant: the prompt is taken down only by the next one.        *)
ClaimPromptAndKeepIt(c, id) ==
    /\ Takes(c, id)
    /\ id \in InputIds
    /\ NewTo(id)
    /\ prompt # 0
    /\ handler' = [handler EXCEPT ![c] = [pc |-> "sending", id |-> id, prompt |-> prompt]]
    /\ UNCHANGED <<pageVars, phase, owner, outbox, gateVars, cacheVars, promptVars, refused, drops>>

(* An input command claims the prompt before it awaits the kernel.         *)
ClaimPrompt(c, id) ==
    /\ Takes(c, id)
    /\ id \in InputIds
    /\ NewTo(id)
    /\ prompt # 0
    /\ handler' = [handler EXCEPT ![c] = [pc |-> "sending", id |-> id, prompt |-> prompt]]
    /\ prompt' = 0
    /\ UNCHANGED <<pageVars, phase, owner, outbox, gateVars, cacheVars, raised, blocked, replies, refused, drops>>

NoPromptToClaim(c, id) ==
    /\ Takes(c, id)
    /\ id \in InputIds
    /\ NewTo(id)
    /\ prompt = 0
    /\ refused' = refused \union {id}
    /\ UNCHANGED <<pageVars, phase, owner, outbox, handler, gateVars, cacheVars, promptVars, drops>>

(* The reply reaches the kernel, which unblocks the cell that asked.       *)
ReplySent(c) ==
    LET h == handler[c] IN
    /\ h.pc = "sending"
    /\ handler' = [handler EXCEPT ![c].pc = "sent"]
    /\ replies' = [replies EXCEPT ![h.prompt] = UpTo2(@)]
    /\ blocked' = IF h.prompt = raised THEN FALSE ELSE blocked
    /\ UNCHANGED <<pageVars, connVars, gateVars, cacheVars, prompt, raised, refused, drops>>

(* send_json raises: the claimed prompt is put back.                       *)
ReplyFails(c) ==
    LET h == handler[c] IN
    /\ h.pc = "sending"
    /\ prompt' = h.prompt
    /\ refused' = refused \union {h.id}
    /\ handler' = [handler EXCEPT ![c] = Idle]
    /\ UNCHANGED <<pageVars, connVars, gateVars, cacheVars, raised, blocked, replies, drops>>

(* After the events input_done and state are out.                          *)
InputDone(c) ==
    LET h == handler[c] IN
    /\ h.pc = "sent"
    /\ StoreAnswer(h.id)
    /\ Announce(h.id)
    /\ handler' = [handler EXCEPT ![c] = Idle]
    /\ UNCHANGED <<pageVars, phase, owner, inbox, gateVars, promptVars, refused, drops>>

(* An interrupt goes to the kernel past the gate and past inflight.        *)
BeginInterrupt(c, id) ==
    /\ Takes(c, id)
    /\ id \in InterruptIds
    /\ NewTo(id)
    /\ handler' = [handler EXCEPT ![c] = [pc |-> "interrupting", id |-> id, prompt |-> 0]]
    /\ UNCHANGED <<pageVars, phase, owner, outbox, gateVars, cacheVars, promptVars, refused, drops>>

InterruptDone(c) ==
    LET h == handler[c] IN
    /\ h.pc = "interrupting"
    /\ StoreAnswer(h.id)
    /\ Announce(h.id)
    /\ handler' = [handler EXCEPT ![c] = Idle]
    /\ UNCHANGED <<pageVars, phase, owner, inbox, gateVars, promptVars, refused, drops>>

InterruptFails(c) ==
    LET h == handler[c] IN
    /\ h.pc = "interrupting"
    /\ refused' = refused \union {h.id}
    /\ handler' = [handler EXCEPT ![c] = Idle]
    /\ UNCHANGED <<pageVars, connVars, gateVars, cacheVars, promptVars, drops>>

-----------------------------------------------------------------------------
(* The task of a command *)

(* The task starts.  Its two early returns leave busy as they found it.    *)
Start(id) ==
    /\ task[id] = "scheduled"
    /\ IF ~NewTo(id)
       THEN /\ cache' = Get(cache, id)
            /\ Announce(id)
            /\ task' = [task EXCEPT ![id] = "none"]
            /\ UNCHANGED <<busy, inflight, runs>>
       ELSE IF id \in inflight
       THEN /\ task' = [task EXCEPT ![id] = "none"]
            /\ UNCHANGED <<busy, inflight, runs, cache, outbox>>
       ELSE /\ inflight' = inflight \union {id}
            /\ busy' = TRUE
            /\ task' = [task EXCEPT ![id] = "running"]
            /\ runs' = [runs EXCEPT ![id] = UpTo2(@)]
            /\ UNCHANGED <<cache, outbox>>
    /\ UNCHANGED <<pageVars, phase, owner, inbox, handler, evicted, promptVars, refused, drops>>

(* dispatch returns or raises: either outcome is stored and announced.  A  *)
(* cell takes the prompt on offer down on its way out (execute, detach),   *)
(* any other command leaves one that was put back after its cell's end.    *)
Answer(id) ==
    /\ task[id] = "running"
    /\ task' = [task EXCEPT ![id] = "answered"]
    /\ StoreAnswer(id)
    /\ Announce(id)
    /\ prompt' \in IF blocked THEN {0} ELSE {0, prompt}
    /\ blocked' = FALSE
    /\ UNCHANGED <<pageVars, phase, owner, inbox, handler, busy, inflight, runs, raised, replies, refused, drops>>

(* The finally clause, once the answer is out.                             *)
Finish(id) ==
    /\ task[id] = "answered"
    /\ task' = [task EXCEPT ![id] = "none"]
    /\ inflight' = inflight \ {id}
    /\ busy' = FALSE
    /\ UNCHANGED <<pageVars, connVars, handler, runs, cacheVars, promptVars, refused, drops>>

(* The cell of the running command calls input(): the kernel asks, and the *)
(* helper puts the prompt on offer.                                        *)
AskForInput(id) ==
    /\ task[id] = "running"
    /\ ~blocked
    /\ raised < MaxPrompts
    /\ raised' = raised + 1
    /\ prompt' = raised + 1
    /\ blocked' = TRUE
    /\ UNCHANGED <<pageVars, connVars, handler, gateVars, cacheVars, replies, refused, drops>>

-----------------------------------------------------------------------------
PageStep ==
    \/ \E p \in Pages, id \in Ids : Send(p, id)
    \/ \E p \in Pages, c \in Conns : Connect(p, c)
    \/ \E c \in Conns : Drop(c) \/ Reload(c) \/ Deliver(c)

Receive(c) ==
    \E id \in Ids :
        \/ ReplayAnswer(c, id)
        \/ Admit(c, id)
        \/ TurnAway(c, id)
        \/ ClaimPrompt(c, id)
        \/ NoPromptToClaim(c, id)
        \/ BeginInterrupt(c, id)

Continue(c) ==
    \/ ReplySent(c) \/ ReplyFails(c) \/ InputDone(c)
    \/ InterruptDone(c) \/ InterruptFails(c)

TaskStep(id) == Start(id) \/ Answer(id) \/ Finish(id)

Next ==
    \/ PageStep
    \/ \E c \in Conns : Receive(c) \/ Continue(c) \/ HandlerExits(c)
    \/ \E id \in WorkIds : TaskStep(id) \/ AskForInput(id)

Spec == Init /\ [][Next]_vars

(***************************************************************************)
(* Fairness.  The event loop runs whatever is ready: a handler with a      *)
(* frame, a task that is scheduled or has its answer.  The awaits of a     *)
(* handler end: the reply and the interrupt of a kernel are calls with a   *)
(* timeout.  A page with nothing open reconnects, every two seconds and    *)
(* six times at most (arc-chat.html 145), then when its user asks for it   *)
(* (Reconnect); that it gets through in the end, and reads what it is      *)
(* sent, is assumed.  That dispatch ever returns is not: a cell may wait   *)
(* for ever (CellExecution).  Nothing makes the user send or the link fail.*)
(***************************************************************************)
Fairness ==
    /\ \A id \in WorkIds : WF_vars(Start(id)) /\ WF_vars(Finish(id))
    /\ \A c \in Conns :
          WF_vars(Receive(c)) /\ WF_vars(Continue(c)) /\ WF_vars(HandlerExits(c)) /\ WF_vars(Deliver(c))
    /\ \A p \in Pages : WF_vars(\E c \in Conns : Connect(p, c))

FairSpec == Spec /\ Fairness

-----------------------------------------------------------------------------
(* Safety *)

(* The gate: at most one command is between its admission and the end of   *)
(* its task, busy is up exactly then, and inflight names exactly the       *)
(* command that dispatch has begun.  No interleaving of resends, page      *)
(* reloads and cache hits leaves the helper busy with nothing to do, as an *)
(* early return of work would (socket and work of helper.py).              *)
GateHolds ==
    /\ \A i, j \in WorkIds : AtWork(i) /\ AtWork(j) => i = j
    /\ busy <=> \E id \in WorkIds : AtWork(id)
    /\ inflight = {id \in WorkIds : task[id] \in {"running", "answered"}}

(* A command is dispatched again only after the replay cache has dropped   *)
(* its answer, however often its page resends it: before it runs, while it *)
(* runs, between its answer and the release of the gate, or afterwards.    *)
NoSecondDispatch ==
    \A id \in WorkIds : runs[id] <= 1 \/ id \in evicted

(* A prompt gets at most one reply, whichever pages answer it and however  *)
(* often a failed send puts it back.                                       *)
OneReplyPerPrompt ==
    \A n \in 1..MaxPrompts : replies[n] <= 1

(* No answer is lost while it is remembered: when a page waits for a       *)
(* command that was answered, then on each connection it has the answer is *)
(* on its way to the page, or the command on its way to the helper, which  *)
(* answers from the cache; whatever connections break and whichever        *)
(* moment between the steps of the handlers and tasks they break at.       *)
AnswersComeBack ==
    \A p \in Pages : \A c \in Live(p) :
        Remembered(waiting[p]) \intersect Remembered(cache)
            \subseteq outbox[c] \union Remembered(inbox[c])

(* The same for a command of the gate from the moment dispatch begins it:  *)
(* unless the cache has dropped its answer, it still runs, or one of the   *)
(* two is on its way.                                                      *)
DispatchedComesBack ==
    \A p \in Pages : \A c \in Live(p), id \in WorkIds :
        id \in Remembered(waiting[p]) /\ runs[id] > 0 /\ id \notin evicted
            => task[id] = "running" \/ id \in outbox[c] \union Remembered(inbox[c])

(* What a page is told is done was done: an answer is on its way only for  *)
(* a command that was answered, and no command of the gate is answered     *)
(* that dispatch did not begin.                                            *)
Answered == Remembered(cache) \union evicted
AnswersAreTrue ==
    /\ \A c \in Conns : outbox[c] \subseteq Answered
    /\ \A id \in WorkIds : id \in Answered => runs[id] > 0

(* A page stops waiting for a command only when it was answered, or with   *)
(* all it waits for when it is reloaded or closed.                         *)
WaitsEndWithAnAnswer ==
    [][\A p \in Pages :
          \/ Remembered(waiting[p]) \ Remembered(waiting'[p]) \subseteq Answered
          \/ \E c \in Live(p) : Reload(c)]_vars

-----------------------------------------------------------------------------
(* The abstract executor *)

Executing ==
    IF \E id \in WorkIds : task[id] \in {"running", "answered"}
    THEN CHOOSE id \in WorkIds : task[id] \in {"running", "answered"}
    ELSE NoId

Executor == INSTANCE AtMostOnce WITH
                Commands   <- Ids,
                Capacity   <- CacheLimit,
                Nobody     <- NoId,
                executing  <- Executing,
                answered   <- \E id \in WorkIds : task[id] = "answered",
                remembered <- Remembered(cache)

(* The socket, the gate and the cache together are an at-most-once         *)
(* executor with a bounded memory, whatever pages and connections do.      *)
IsAtMostOnceExecutor == Executor!Spec

-----------------------------------------------------------------------------
(* Liveness *)

(* A page that waits for a command whose dispatch has ended gets its       *)
(* answer, or is gone: when the answer was lost with a connection, the     *)
(* resend after the reconnection finds it in the cache, unless the cache   *)
(* had to drop it; also while another command holds the gate, be it for    *)
(* ever, since the cache is asked before the gate.  That the page comes    *)
(* back is assumed: by itself it tries six times, then when the user asks. *)
DispatchedIsAcknowledged ==
    \A id \in WorkIds :
        runs[id] > 0 /\ task[id] # "running"
            ~> id \in evicted \/ \A p \in Pages : id \notin Remembered(waiting[p])

-----------------------------------------------------------------------------
(* What the documents say, and the code does not do *)

(* A command refused with an error ("Wait for the current action") never   *)
(* runs: the user was told it did not, and "duplicate Start Workspace or   *)
(* Run requests are suppressed".                                           *)
RefusedNeverRuns ==
    \A id \in WorkIds : id \in refused => runs[id] = 0
=============================================================================
