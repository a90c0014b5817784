--------------------------- MODULE CellExecution ---------------------------
(***************************************************************************)
(* One Python cell after another on an attached Jupyter kernel: the run    *)
(* command (execute and reconnect of the bridge), the reader task of the   *)
(* kernel's channel and its queue, the replies to input prompts, and, as   *)
(* the environment, the link to the Jupyter server and a kernel that other *)
(* clients use too.                                                        *)
(*                                                                         *)
(* Commands come one at a time (CommandGate), so there is one program      *)
(* counter for the run command; an action is what runs between two awaits  *)
(* that the outside can delay.  A request is the number of its run, 0 a    *)
(* request of another client; a cell is the number of the run that added   *)
(* it.  The output events of a cell and the application state that the     *)
(* page shows are left out.                                                *)
(***************************************************************************)
EXTENDS Naturals, Sequences, SequencesExt

CONSTANTS
    Handlers,    (* connections whose handler can take a reply to a prompt *)
    MaxRuns,     (* bound: run commands                                    *)
    MaxLosses,   (* bound: losses of the link                              *)
    MaxForeign,  (* bound: requests of other clients of the kernel         *)
    MaxAsks,     (* bound: calls of input()                                *)
    MaxKernelRestarts  (* bound: kernels that die and are restarted        *)

ASSUME CellExecutionAssumption ==
    /\ MaxRuns \in Nat /\ MaxLosses \in Nat /\ MaxForeign \in Nat
    /\ MaxAsks \in Nat /\ MaxKernelRestarts \in Nat

VARIABLES
    (* the run command *)
    pc, run,
    gotReply, gotIdle,  (* what execute has seen of its request            *)
    fault,              (* execute leaves its loop with an exception       *)
    verdict,            (* how each run ended                              *)
    (* the bridge *)
    chan,       (* "open", "broken" (lost, not noticed), "closed"; the     *)
                (* reader task runs until it is closed                     *)
    events,     (* the queue between reader and execute                    *)
    executing,
    header,     (* input_header: the request whose prompt is on offer, or 0 *)
    handler,    (* replies to prompts on their way                         *)
    cells,      (* the cells of the notebook in memory                     *)
    (* the Jupyter server and the kernel *)
    notebook,   (* the cells of the notebook as saved                      *)
    wire,       (* events on their way to the helper                       *)
    shell,      (* requests at the kernel, the head is executing           *)
    asking,     (* the executing cell is blocked in input()                *)
    completed,  (* runs the kernel has completed                           *)
    (* bounds *)
    losses, foreign, asks, kernelRestarts

runVars    == <<pc, run, gotReply, gotIdle, fault, verdict>>
inputVars  == <<header, handler>>
kernelVars == <<shell, asking, completed, foreign, asks, kernelRestarts>>
cellVars == <<runVars, chan, events, executing, inputVars, cells, notebook, wire, kernelVars, losses>>

Requests == 0..MaxRuns
Events == [req : Requests, kind : {"asks", "reply", "idle", "end"}]
Event(r, kind) == [req |-> r, kind |-> kind]
EndOfStream == Event(0, "end")
NoReply == [pc |-> "idle", prompt |-> 0]

CellTypeOK ==
    /\ pc \in {"idle", "checking", "opening", "saving", "sending", "waiting", "ending"}
    /\ run \in Requests
    /\ gotReply \in BOOLEAN /\ gotIdle \in BOOLEAN /\ fault \in BOOLEAN
    /\ verdict \in [1..MaxRuns -> {"none", "refused", "finished", "unknown"}]
    /\ chan \in {"open", "broken", "closed"}
    /\ events \in Seq(Events)
    /\ executing \in BOOLEAN /\ (executing <=> pc \in {"sending", "waiting"})
    /\ header \in Requests
    /\ handler \in [Handlers -> [pc : {"idle", "sending", "sent"}, prompt : Requests]]
    /\ cells \subseteq 1..MaxRuns /\ notebook \subseteq cells
    /\ wire \in Seq(Events)
    /\ shell \in Seq(Requests)
    /\ asking \in BOOLEAN
    /\ completed \subseteq 1..MaxRuns
    /\ losses \in 0..MaxLosses /\ foreign \in 0..MaxForeign
    /\ asks \in 0..MaxAsks /\ kernelRestarts \in 0..MaxKernelRestarts

CellInit ==
    /\ pc = "idle" /\ run = 0
    /\ gotReply = FALSE /\ gotIdle = FALSE /\ fault = FALSE
    /\ verdict = [r \in 1..MaxRuns |-> "none"]
    /\ chan = "open" /\ events = <<>> /\ executing = FALSE
    /\ header = 0 /\ handler = [h \in Handlers |-> NoReply]
    /\ cells = {} /\ notebook = {}
    /\ wire = <<>> /\ shell = <<>> /\ asking = FALSE /\ completed = {}
    /\ losses = 0 /\ foreign = 0 /\ asks = 0 /\ kernelRestarts = 0

-----------------------------------------------------------------------------
(* The run command: reconnect *)

(* execute: reconnects first if the channel is closed, else adds the cell. *)
BeginRun ==
    /\ pc = "idle"
    /\ run < MaxRuns
    /\ run' = run + 1
    /\ IF chan = "closed"
       THEN pc' = "checking" /\ UNCHANGED cells
       ELSE pc' = "saving" /\ cells' = cells \union {run'}
    /\ UNCHANGED <<gotReply, gotIdle, fault, verdict, chan, events, executing, inputVars,
                   notebook, wire, kernelVars, losses>>

(* The command ends with an error before anything was sent to the kernel.  *)
Refuse ==
    /\ pc' = "idle"
    /\ verdict' = [verdict EXCEPT ![run] = "refused"]
    /\ UNCHANGED <<run, gotReply, gotIdle, fault>>

FoundIdle ==
    /\ pc = "checking"
    /\ shell = <<>>
    /\ pc' = "opening"
    /\ UNCHANGED <<run, gotReply, gotIdle, fault, verdict, chan, events, executing, inputVars,
                   cells, notebook, wire, kernelVars, losses>>

(* The kernel is busy, or the server did not answer.                       *)
NotFoundIdle ==
    /\ pc = "checking"
    /\ Refuse
    /\ UNCHANGED <<chan, events, executing, inputVars, cells, notebook, wire, kernelVars, losses>>

(* open_channel replaces the queue before it connects; a faulty variant    *)
(* goes on with the old one.                                               *)
KeptQueue == events
FreshQueue == <<>>

ChannelOpens ==
    /\ pc = "opening"
    /\ chan' = "open"
    /\ wire' = <<>>
    /\ events' = FreshQueue
    /\ cells' = cells \union {run}
    /\ pc' = "saving"
    /\ UNCHANGED <<run, gotReply, gotIdle, fault, verdict, executing, inputVars, notebook,
                   kernelVars, losses>>

ChannelFails ==
    /\ pc = "opening"
    /\ events' = FreshQueue
    /\ Refuse
    /\ UNCHANGED <<chan, executing, inputVars, cells, notebook, wire, kernelVars, losses>>

-----------------------------------------------------------------------------
(* The run command: execute *)

(* The source is persisted before execution.                               *)
SourceSaved ==
    /\ pc = "saving"
    /\ notebook' = cells
    /\ executing' = TRUE
    /\ gotReply' = FALSE /\ gotIdle' = FALSE /\ fault' = FALSE
    /\ pc' = "sending"
    /\ UNCHANGED <<run, verdict, chan, events, inputVars, cells, wire, kernelVars, losses>>

(* A faulty variant: a save that fails does not stop the run.              *)
SourceNotSavedButGoesOn ==
    /\ pc = "saving"
    /\ executing' = TRUE
    /\ gotReply' = FALSE /\ gotIdle' = FALSE /\ fault' = FALSE
    /\ pc' = "sending"
    /\ UNCHANGED <<run, verdict, chan, events, inputVars, cells, notebook, wire, kernelVars, losses>>

SourceNotSaved ==
    /\ pc = "saving"
    /\ Refuse
    /\ UNCHANGED <<chan, events, executing, inputVars, cells, notebook, wire, kernelVars, losses>>

(* A channel that is lost but not yet closed takes the request and loses it. *)
RequestSent ==
    /\ pc = "sending"
    /\ chan # "closed"
    /\ shell' = IF chan = "open" THEN Append(shell, run) ELSE shell
    /\ pc' = "waiting"
    /\ UNCHANGED <<run, gotReply, gotIdle, fault, verdict, chan, events, executing, inputVars,
                   cells, notebook, wire, asking, completed, foreign, asks, kernelRestarts, losses>>

(* The finally clause of execute, up to its first await; a faulty variant  *)
(* leaves the reader feeding the queue.                                    *)
LeaveLoopStillExecuting(failed) ==
    /\ pc' = "ending"
    /\ fault' = failed
    /\ header' = 0
    /\ UNCHANGED executing

LeaveLoop(failed) ==
    /\ pc' = "ending"
    /\ fault' = failed
    /\ executing' = FALSE
    /\ header' = 0

RequestNotSent ==
    /\ pc = "sending"
    /\ chan # "open"
    /\ LeaveLoop(TRUE)
    /\ UNCHANGED <<run, gotReply, gotIdle, verdict, chan, events, handler, cells, notebook,
                   wire, kernelVars, losses>>

(* The answer of which request an event belongs to: the msg_id of its      *)
(* parent header; a faulty variant takes every event for its own.          *)
AnyIsOurs(e) == TRUE
IsOurs(e) == e.req = run

Await(e) == pc = "waiting" /\ events # <<>> /\ e = Head(events) /\ events' = Tail(events)

TakeEnd ==
    /\ Await(EndOfStream)
    /\ LeaveLoop(TRUE)
    /\ UNCHANGED <<run, gotReply, gotIdle, verdict, chan, handler, cells, notebook, wire,
                   kernelVars, losses>>

SkipEvent(e) ==
    /\ Await(e)
    /\ e # EndOfStream /\ ~IsOurs(e)
    /\ UNCHANGED <<runVars, chan, executing, inputVars, cells, notebook, wire, kernelVars, losses>>

TakePrompt(e) ==
    /\ Await(e)
    /\ IsOurs(e) /\ e.kind = "asks"
    /\ header' = e.req
    /\ UNCHANGED <<runVars, chan, executing, handler, cells, notebook, wire, kernelVars, losses>>

TakeOutcome(e) ==
    /\ Await(e)
    /\ IsOurs(e) /\ e.kind \in {"reply", "idle"}
    /\ gotReply' = (gotReply \/ e.kind = "reply")
    /\ gotIdle' = (gotIdle \/ e.kind = "idle")
    /\ IF gotReply' /\ gotIdle'
       THEN LeaveLoop(FALSE)
       ELSE UNCHANGED <<pc, fault, executing, header>>
    /\ UNCHANGED <<run, verdict, chan, handler, cells, notebook, wire, kernelVars, losses>>

(* The second save, which may fail, and how the run ended.                 *)
EndRun(saved) ==
    /\ pc = "ending"
    /\ notebook' = IF saved THEN cells ELSE notebook
    /\ verdict' = [verdict EXCEPT ![run] = IF fault THEN "unknown" ELSE "finished"]
    /\ pc' = "idle"
    /\ UNCHANGED <<run, gotReply, gotIdle, fault, chan, events, executing, inputVars, cells,
                   wire, kernelVars, losses>>

-----------------------------------------------------------------------------
(* The reader task *)

ReaderReads ==
    /\ chan # "closed"
    /\ wire # <<>>
    /\ wire' = Tail(wire)
    /\ events' = IF executing THEN Append(events, Head(wire)) ELSE events
    /\ UNCHANGED <<runVars, chan, executing, inputVars, cells, notebook, kernelVars, losses>>

(* A faulty variant: the reader ends without a word.                       *)
ReaderEndsSilently ==
    /\ chan = "broken"
    /\ wire = <<>>
    /\ chan' = "closed"
    /\ UNCHANGED <<runVars, events, executing, inputVars, cells, notebook, wire, kernelVars, losses>>

(* The loss is noticed: a close frame, or pings without an answer.         *)
ReaderEnds ==
    /\ chan = "broken"
    /\ wire = <<>>
    /\ chan' = "closed"
    /\ events' = IF executing THEN Append(events, EndOfStream) ELSE events
    /\ UNCHANGED <<runVars, executing, inputVars, cells, notebook, wire, kernelVars, losses>>

-----------------------------------------------------------------------------
(* Replies to prompts *)

Claim(h) ==
    /\ handler[h] = NoReply
    /\ header # 0
    /\ handler' = [handler EXCEPT ![h] = [pc |-> "sending", prompt |-> header]]
    /\ header' = 0
    /\ UNCHANGED <<runVars, chan, events, executing, cells, notebook, wire, kernelVars, losses>>

(* input() takes the next reply that arrives while it waits, whichever     *)
(* prompt it was for.                                                      *)
ReplySent(h) ==
    /\ handler[h].pc = "sending"
    /\ chan # "closed"
    /\ handler' = [handler EXCEPT ![h].pc = "sent"]
    /\ asking' = IF chan = "open" THEN FALSE ELSE asking
    /\ UNCHANGED <<runVars, chan, events, executing, header, cells, notebook, wire, shell,
                   completed, foreign, asks, kernelRestarts, losses>>

ReplyFails(h) ==
    /\ handler[h].pc = "sending"
    /\ chan # "open"
    /\ header' = handler[h].prompt
    /\ handler' = [handler EXCEPT ![h] = NoReply]
    /\ UNCHANGED <<runVars, chan, events, executing, cells, notebook, wire, kernelVars, losses>>

(* input_done is out.                                                      *)
InputDone(h) ==
    /\ handler[h].pc = "sent"
    /\ handler' = [handler EXCEPT ![h] = NoReply]
    /\ UNCHANGED <<runVars, chan, events, executing, header, cells, notebook, wire, kernelVars, losses>>

-----------------------------------------------------------------------------
(* The link and the kernel *)

Emitted(new) == IF chan = "open" THEN wire \o new ELSE wire

(* What the helper's host has received can still be read.                  *)
LinkLost ==
    /\ chan = "open"
    /\ losses < MaxLosses
    /\ losses' = losses + 1
    /\ chan' = "broken"
    /\ \E n \in 0..Len(wire) : wire' = SubSeq(wire, 1, n)
    /\ UNCHANGED <<runVars, events, executing, inputVars, cells, notebook, kernelVars>>

OtherClientRuns ==
    /\ foreign < MaxForeign
    /\ foreign' = foreign + 1
    /\ shell' = Append(shell, 0)
    /\ UNCHANGED <<runVars, chan, events, executing, inputVars, cells, notebook, wire,
                   asking, completed, asks, kernelRestarts, losses>>

KernelAsks ==
    /\ shell # <<>> /\ Head(shell) # 0
    /\ ~asking
    /\ asks < MaxAsks
    /\ asks' = asks + 1
    /\ asking' = TRUE
    /\ wire' = Emitted(<<Event(Head(shell), "asks")>>)
    /\ UNCHANGED <<runVars, chan, events, executing, inputVars, cells, notebook, shell,
                   completed, foreign, kernelRestarts, losses>>

(* The cell ends, by itself or interrupted.  The reply and the idle status *)
(* come over two sockets, in either order; everyone hears of the status.   *)
KernelCompletes ==
    /\ shell # <<>>
    /\ ~asking
    /\ LET r == Head(shell)
           reply == Event(r, "reply")
           idle  == Event(r, "idle")
       IN  /\ completed' = completed \union ({r} \ {0})
           /\ \/ wire' = Emitted(<<reply, idle>>)
              \/ wire' = Emitted(<<idle, reply>>)
    /\ shell' = Tail(shell)
    /\ UNCHANGED <<runVars, chan, events, executing, inputVars, cells, notebook, asking,
                   foreign, asks, kernelRestarts, losses>>

(* The kernel dies and the server restarts it: what it had to do is gone,  *)
(* and the status "restarting" has no parent that execute would heed.      *)
KernelRestarts ==
    /\ kernelRestarts < MaxKernelRestarts
    /\ kernelRestarts' = kernelRestarts + 1
    /\ shell' = <<>>
    /\ asking' = FALSE
    /\ UNCHANGED <<runVars, chan, events, executing, inputVars, cells, notebook, wire,
                   completed, foreign, asks, losses>>

(* The user interrupts the kernel: input() raises.                         *)
Interrupt ==
    /\ asking
    /\ asking' = FALSE
    /\ UNCHANGED <<runVars, chan, events, executing, inputVars, cells, notebook, wire, shell,
                   completed, foreign, asks, kernelRestarts, losses>>

-----------------------------------------------------------------------------
Reconnecting == FoundIdle \/ NotFoundIdle \/ ChannelOpens \/ ChannelFails
Taking == \E e \in Events : SkipEvent(e) \/ TakePrompt(e) \/ TakeOutcome(e)
Executing ==
    \/ SourceSaved \/ SourceNotSaved \/ RequestSent \/ RequestNotSent
    \/ TakeEnd \/ Taking
    \/ \E saved \in BOOLEAN : EndRun(saved)
Reading == ReaderReads \/ ReaderEnds
Replying(h) == ReplySent(h) \/ ReplyFails(h) \/ InputDone(h)

CellNext ==
    \/ BeginRun \/ Reconnecting \/ Executing
    \/ Reading
    \/ \E h \in Handlers : Claim(h) \/ Replying(h)
    \/ LinkLost \/ OtherClientRuns \/ KernelAsks \/ KernelCompletes
    \/ KernelRestarts \/ Interrupt

CellSpec == CellInit /\ [][CellNext]_cellVars

(***************************************************************************)
(* Fairness.  The event loop runs what is ready; the HTTP calls time out   *)
(* after a minute; pings notice a lost link; Python code ends; and a       *)
(* prompt is answered or interrupted.  The user need not run anything.     *)
(***************************************************************************)
Fairness ==
    /\ WF_cellVars(Reconnecting \/ Executing)
    /\ WF_cellVars(Reading)
    /\ \A h \in Handlers : WF_cellVars(Replying(h))
    /\ WF_cellVars(KernelCompletes)
    /\ WF_cellVars(Interrupt)

CellFairSpec == CellSpec /\ Fairness

-----------------------------------------------------------------------------
(* Properties *)

(* A run that is reported finished was completed by the kernel: events of  *)
(* other clients, of earlier runs and of a lost connection never end it    *)
(* (the parent header of execute's loop).                                  *)
FinishedWasCompleted ==
    \A r \in 1..MaxRuns : verdict[r] = "finished" => r \in completed

(* Whatever reaches the kernel is in the saved notebook, so that a run of  *)
(* unknown outcome can be inspected in Jupyter after any failure.          *)
SourceIsSavedFirst ==
    \A r \in 1..MaxRuns : r \in Range(shell) \union completed => r \in notebook

(* The end of one connection is never mistaken for the end of the next:    *)
(* while the channel lives, no end of stream is in the queue.              *)
EndIsCurrent ==
    chan # "closed" => EndOfStream \notin Range(events)

(* execute never waits for nothing: the end of the stream is in the queue  *)
(* if the channel is closed; while the channel is open and no kernel died, *)
(* the kernel has the request, or what execute has not yet seen of its     *)
(* outcome is on its way.  (A lost link that is not noticed yet is the     *)
(* reader's to notice.)  This is the safety half of RunEnds: the loop of   *)
(* execute has no timeout of its own.                                      *)
OnItsWay(kind) == Event(run, kind) \in Range(events) \union Range(wire)
OutcomeComes == (gotReply \/ OnItsWay("reply")) /\ (gotIdle \/ OnItsWay("idle"))

WaitingIsForSomething ==
    pc = "waiting" =>
        /\ chan = "closed" => EndOfStream \in Range(events)
        /\ chan = "open" /\ kernelRestarts = 0 => run \in Range(shell) \/ OutcomeComes

(* A run comes to an end, whenever the link is lost: between the check of  *)
(* the channel and the send, while execute waits, or while a prompt is     *)
(* being answered; unless the kernel dies under it.                        *)
RunEnds == pc # "idle" ~> pc = "idle" \/ kernelRestarts > 0

-----------------------------------------------------------------------------
(* What the code says of itself, and does not do *)

(* Who waits for the current action, or interrupts Python, gets the gate:  *)
(* the error that the gate answers with says so.                           *)
WaitingOrInterruptingHelps == pc # "idle" ~> pc = "idle"
=============================================================================
