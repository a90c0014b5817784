------------------------ MODULE WorkspaceAttachment ------------------------
(***************************************************************************)
(* How the bridge gets, loses and finds again its Jupyter kernel: attach,  *)
(* detach, stop, quit, a crash and the next start, with the workspace      *)
(* records and the recovery file.  Commands come one at a time             *)
(* (CommandGate), so pc says where an attach waits for the server; the     *)
(* helper may die, the link break and the user act in Jupyter at any time. *)
(*                                                                         *)
(* A kernel is the number of its creation, 0 no kernel; its session goes   *)
(* with it.  A notebook is the number of its name, 0 no notebook: the      *)
(* names that attach makes up are new each time.  A base is the URL of a   *)
(* Jupyter server.  Running cells is the subject of CellExecution.         *)
(***************************************************************************)
EXTENDS Naturals, Sequences

CONSTANTS
    Bases, NoBase,
    Batch,         (* the workspace of a batch job                          *)
    MaxKernels,    (* bound: kernels, and sessions, ever created            *)
    MaxNotebooks,  (* bound: notebook names made up                         *)
    MaxRestarts    (* bound: ends of the helper                             *)

ASSUME WorkspaceAttachmentAssumption ==
    /\ NoBase \notin Bases /\ Batch \notin Bases \union {NoBase}
    /\ MaxKernels \in Nat /\ MaxNotebooks \in Nat /\ MaxRestarts \in Nat

VARIABLES
    (* the bridge *)
    pc,
    base, notebook, kernel,
    chan,        (* the channel: to which kernel, and whether it is open    *)
    pending,     (* the kernel for which a cell is proposed, or 0           *)
    unanswered,  (* the history ends with a tool call without an answer     *)
    record,      (* the workspace record of each base                       *)
    current,     (* the current workspace: of a base, of a batch job, or    *)
                 (* NoBase for none or that of the browser notebook         *)
    outcome,     (* of the last attach                                      *)
    announced,   (* the kernel that the last new attachment was told about  *)
    (* the recovery file, of which recovery_metadata is a copy *)
    saved,
    (* the Jupyter servers *)
    made,        (* for each kernel, the server and notebook of its session *)
    live,        (* the kernels that exist                                  *)
    (* bounds *)
    notebooks, restarts

attachVars  == <<base, notebook, kernel>>
chatVars    == <<pending, unanswered>>
recordVars  == <<record, current>>
serverVars  == <<made, live>>
boundVars   == <<notebooks, restarts>>
vars == <<pc, attachVars, chan, chatVars, recordVars, outcome, announced, saved, serverVars, boundVars>>

Kernels   == 0..MaxKernels
Notebooks == 0..MaxNotebooks
Sessions  == [base : Bases, path : Notebooks]
Records   == [Bases -> {"absent", "ready", "stopped"}]
Workspaces == Bases \union {NoBase, Batch}
NoChannel == [to |-> 0, open |-> FALSE]

TypeOK ==
    /\ \/ pc = "idle"
       \/ pc \in {"lookup", "creating", "posting"} /\ kernel = 0
       \/ pc \in {"adopting", "opening", "reconnecting"} /\ kernel # 0
    /\ base \in Bases \union {NoBase}
    /\ notebook \in Notebooks /\ kernel \in Kernels
    /\ chan \in [to : Kernels, open : BOOLEAN]
    /\ pending \in Kernels /\ unanswered \in BOOLEAN
    /\ record \in Records /\ current \in Workspaces
    /\ outcome \in {"none", "attached", "error", "record"}
    /\ announced \in Kernels
    /\ saved \in [base : Bases \union {NoBase}, path : Notebooks,
                  record : Records, current : Workspaces]
    /\ made \in Seq(Sessions) /\ Len(made) <= MaxKernels
    /\ live \subseteq DOMAIN made
    /\ kernel \in {0} \union DOMAIN made
    /\ notebooks \in Notebooks /\ restarts \in 0..MaxRestarts

Init ==
    /\ pc = "idle"
    /\ base = NoBase /\ notebook = 0 /\ kernel = 0
    /\ chan = NoChannel
    /\ pending = 0 /\ unanswered = FALSE
    /\ record = [b \in Bases |-> "absent"] /\ current = NoBase
    /\ outcome = "none" /\ announced = 0
    /\ saved = [base |-> NoBase, path |-> 0, record |-> record, current |-> NoBase]
    /\ made = <<>> /\ live = {}
    /\ notebooks = 0 /\ restarts = 0

-----------------------------------------------------------------------------
(* The recovery file *)

Snapshot(rec, cur) == [base |-> base, path |-> notebook, record |-> rec, current |-> cur]

(* Writing it may fail, before or after it is replaced: the launcher's     *)
(* state file is written next.                                             *)
MayPersist(rec, cur) == saved' \in {saved, Snapshot(rec, cur)}

-----------------------------------------------------------------------------
(* attach *)

(* What detach forgets; a faulty variant leaves the proposed cell.         *)
ForgetsAllButProposal ==
    /\ kernel' = 0
    /\ chan' = NoChannel
    /\ UNCHANGED pending

Forgets ==
    /\ kernel' = 0
    /\ chan' = NoChannel
    /\ pending' = 0

Recoverable(b) == saved.base = b /\ saved.path # 0

(* With no kernel, or with one of another server, which is let go.         *)
AttachBegins(b) ==
    /\ pc = "idle"
    /\ kernel # 0 => b # base
    /\ IF kernel # 0 THEN Forgets ELSE UNCHANGED <<kernel, chan, pending>>
    /\ base' = b
    /\ outcome' = "none"
    /\ pc' = IF Recoverable(b) THEN "lookup" ELSE "creating"
    /\ UNCHANGED <<notebook, unanswered, recordVars, announced, saved, serverVars, boundVars>>

AttachAgain ==
    /\ pc = "idle"
    /\ kernel # 0
    /\ IF chan.open THEN pc' = pc /\ outcome' = "attached"
                    ELSE pc' = "reconnecting" /\ outcome' = "none"
    /\ UNCHANGED <<attachVars, chan, chatVars, recordVars, announced, saved, serverVars, boundVars>>

(* An attach ends with an error, unless it was to recover: then it goes on *)
(* without.  A faulty variant goes on with the kernel it gave up.          *)
GiveUpKeepingKernel(why) ==
    /\ IF pc = "adopting"
       THEN pc' = "creating" /\ UNCHANGED outcome
       ELSE pc' = "idle" /\ outcome' = why
    /\ UNCHANGED kernel

GiveUp(why) ==
    IF pc = "adopting"
    THEN pc' = "creating" /\ kernel' = 0 /\ UNCHANGED outcome
    ELSE pc' = "idle" /\ outcome' = why /\ UNCHANGED kernel

(* The session of the recorded notebook is there, and so is the notebook.  *)
SessionFound(k) ==
    /\ pc = "lookup"
    /\ k \in live /\ made[k] = [base |-> base, path |-> saved.path]
    /\ notebook' = saved.path
    /\ kernel' = k
    /\ pc' = "adopting"
    /\ UNCHANGED <<base, chan, chatVars, recordVars, outcome, announced, saved, serverVars, boundVars>>

(* It is not there, or the server did not answer.                          *)
SessionNotFound ==
    /\ pc = "lookup"
    /\ pc' = "creating"
    /\ UNCHANGED <<attachVars, chan, chatVars, recordVars, outcome, announced, saved, serverVars, boundVars>>

KernelSpecsFail ==
    /\ pc = "creating"
    /\ GiveUp("error")
    /\ UNCHANGED <<base, notebook, chan, chatVars, recordVars, announced, saved, serverVars, boundVars>>

NewNotebook(stored) ==
    /\ pc = "creating"
    /\ notebooks < MaxNotebooks
    /\ notebooks' = notebooks + 1
    /\ notebook' = notebooks'
    /\ IF stored THEN pc' = "posting" /\ UNCHANGED <<kernel, outcome>> ELSE GiveUp("error")
    /\ UNCHANGED <<base, chan, chatVars, recordVars, announced, saved, serverVars, restarts>>

Created == Len(made) + 1

(* POST of a session; the answer may be lost.                              *)
SessionCreated(answered) ==
    /\ pc = "posting"
    /\ Created <= MaxKernels
    /\ made' = Append(made, [base |-> base, path |-> notebook])
    /\ live' = live \union {Created}
    /\ IF answered THEN pc' = "opening" /\ kernel' = Created /\ UNCHANGED outcome
                   ELSE GiveUp("error")
    /\ UNCHANGED <<base, notebook, chan, chatVars, recordVars, announced, saved, boundVars>>

SessionRefused ==
    /\ pc = "posting"
    /\ GiveUp("error")
    /\ UNCHANGED <<base, notebook, chan, chatVars, recordVars, announced, saved, serverVars, boundVars>>

(* The history starts anew, as the memory of the model goes with the       *)
(* kernel; a faulty variant only drops the proposal.                       *)
DropsProposal == pending' = 0 /\ UNCHANGED unanswered
StartsAnew == pending' = 0 /\ unanswered' = FALSE

(* remember_workspace makes the record ready and current, unless it says   *)
(* stopped: that transition is not allowed, and attach fails.              *)
Remembered == [record EXCEPT ![base] = "ready"]

(* A faulty variant: the file is written first.                            *)
SavesBeforeRemembering == saved' = Snapshot(record, current)
Saves == saved' = Snapshot(Remembered, base)

ChannelOpens ==
    /\ pc \in {"adopting", "opening"}
    /\ kernel \in live
    /\ chan' = [to |-> kernel, open |-> TRUE]
    /\ StartsAnew
    /\ \/ /\ record[base] = "stopped"
          /\ GiveUp("record")
          /\ UNCHANGED <<recordVars, saved, announced>>
       \/ /\ record[base] # "stopped"
          /\ record' = Remembered /\ current' = base
          /\ \/ /\ Saves
                /\ pc' = "idle" /\ outcome' = "attached" /\ announced' = kernel
                /\ UNCHANGED kernel
             \/ /\ MayPersist(Remembered, base)
                /\ GiveUp("error")
                /\ UNCHANGED announced
    /\ UNCHANGED <<base, notebook, serverVars, boundVars>>

(* A session that was just created is deleted again, if the server is      *)
(* there to do it, and forgotten; a faulty variant leaves it attached.     *)
KeepsSession == UNCHANGED <<live, kernel>>
DropsSession == live' \in {live, live \ {kernel}} /\ kernel' = 0

ChannelFails ==
    /\ \/ pc = "adopting" /\ GiveUp("error") /\ UNCHANGED live
       \/ /\ pc = "opening"
          /\ DropsSession
          /\ pc' = "idle" /\ outcome' = "error"
    /\ UNCHANGED <<base, notebook, chan, chatVars, recordVars, announced, saved, made, boundVars>>

(* reconnect, of attach.                                                   *)
Reconnected ==
    /\ pc = "reconnecting"
    /\ kernel \in live
    /\ chan' = [to |-> kernel, open |-> TRUE]
    /\ pc' = "idle" /\ outcome' = "attached"
    /\ UNCHANGED <<attachVars, chatVars, recordVars, announced, saved, serverVars, boundVars>>

(* The kernel is busy or gone, or the server did not answer.               *)
NotReconnected ==
    /\ pc = "reconnecting"
    /\ GiveUp("error")
    /\ UNCHANGED <<base, notebook, chan, chatVars, recordVars, announced, saved, serverVars, boundVars>>

-----------------------------------------------------------------------------
(* The other commands *)

Detach ==
    /\ pc = "idle"
    /\ Forgets
    /\ UNCHANGED <<pc, base, notebook, unanswered, recordVars, outcome, announced, saved,
                   serverVars, boundVars>>

(* stop_workspace: deletes the session, forgets it, and marks the current  *)
(* workspace stopped; a batch workspace is queued, which cannot become     *)
(* stopped, and the command fails there.                                   *)
Stop ==
    /\ pc = "idle"
    /\ live' = live \ {kernel}
    /\ Forgets
    /\ record' = [b \in Bases |-> IF b = current THEN "stopped" ELSE record[b]]
    /\ IF current = Batch THEN UNCHANGED saved ELSE MayPersist(record', current)
    /\ UNCHANGED <<pc, base, notebook, unanswered, current, outcome, announced, made, boundVars>>

(* The server did not answer; it may have deleted the session.             *)
StopFails ==
    /\ pc = "idle"
    /\ kernel # 0
    /\ live' = live \ {kernel}
    /\ UNCHANGED <<pc, attachVars, chan, chatVars, recordVars, outcome, announced, saved, made, boundVars>>

(* The model answers with a call of run_python.                            *)
Propose ==
    /\ pc = "idle"
    /\ kernel # 0 /\ pending = 0
    /\ pending' = kernel /\ unanswered' = TRUE
    /\ UNCHANGED <<pc, attachVars, chan, recordVars, outcome, announced, saved, serverVars, boundVars>>

(* A cell runs, reconnecting first where that is needed; a cell that ends  *)
(* well answers the call that proposed it.                                 *)
Run(finished) ==
    /\ pc = "idle"
    /\ \/ chan.open /\ UNCHANGED chan
       \/ ~chan.open /\ kernel \in live /\ chan' = [to |-> kernel, open |-> TRUE]
    /\ IF finished /\ pending # 0
       THEN pending' = 0 /\ unanswered' = FALSE
       ELSE UNCHANGED chatVars
    /\ UNCHANGED <<pc, attachVars, recordVars, outcome, announced, saved, serverVars, boundVars>>

Reject ==
    /\ pc = "idle"
    /\ pending # 0
    /\ pending' = 0 /\ unanswered' = FALSE
    /\ UNCHANGED <<pc, attachVars, chan, recordVars, outcome, announced, saved, serverVars, boundVars>>

(* Commands on jobs and services persist too; to open the browser          *)
(* notebook, to submit a job, or to associate a resource with a workspace, *)
(* makes another workspace current first.                                  *)
PersistElsewhere(workspace) ==
    /\ pc = "idle"
    /\ workspace \in Bases => workspace = current \/ record[workspace] # "absent"
    /\ current' = workspace
    /\ MayPersist(record, workspace)
    /\ UNCHANGED <<pc, attachVars, chan, chatVars, record, outcome, announced, serverVars, boundVars>>

-----------------------------------------------------------------------------
(* The helper, the link and the user *)

(* The helper quits, which deletes the session if it can, or dies; it      *)
(* starts again with what the file says.  Started by the launcher, it      *)
(* persists at once.                                                       *)
Restart(launcher) ==
    /\ restarts < MaxRestarts
    /\ restarts' = restarts + 1
    /\ live' \in {live, live \ {kernel}}
    /\ pc' = "idle" /\ outcome' = "none"
    /\ base' = NoBase /\ notebook' = 0 /\ kernel' = 0
    /\ chan' = NoChannel
    /\ pending' = 0 /\ unanswered' = FALSE
    /\ record' = saved.record /\ current' = saved.current
    /\ saved' = IF launcher THEN [saved EXCEPT !.base = NoBase, !.path = 0] ELSE saved
    /\ UNCHANGED <<announced, made, notebooks>>

LinkLost ==
    /\ chan.open
    /\ chan' = [chan EXCEPT !.open = FALSE]
    /\ UNCHANGED <<pc, attachVars, chatVars, recordVars, outcome, announced, saved, serverVars, boundVars>>

(* The job of the server ends, or the user shuts the kernel down.          *)
KernelEnds(k) ==
    /\ k \in live
    /\ live' = live \ {k}
    /\ UNCHANGED <<pc, attachVars, chan, chatVars, recordVars, outcome, announced, saved, made, boundVars>>

(* The user opens a notebook in Jupyter, which gives it a session.         *)
UserOpens(k) ==
    /\ k \in DOMAIN made
    /\ \A l \in live : made[l] # made[k]
    /\ Created <= MaxKernels
    /\ made' = Append(made, made[k])
    /\ live' = live \union {Created}
    /\ UNCHANGED <<pc, attachVars, chan, chatVars, recordVars, outcome, announced, saved, boundVars>>

-----------------------------------------------------------------------------
Attaching ==
    \/ AttachAgain \/ \E b \in Bases : AttachBegins(b)
    \/ \E k \in live : SessionFound(k)
    \/ SessionNotFound \/ KernelSpecsFail
    \/ \E stored \in BOOLEAN : NewNotebook(stored)
    \/ \E answered \in BOOLEAN : SessionCreated(answered)
    \/ SessionRefused \/ ChannelOpens \/ ChannelFails
    \/ Reconnected \/ NotReconnected

Next ==
    \/ Attaching
    \/ Detach \/ Stop \/ StopFails
    \/ Propose \/ Reject \/ \E finished \in BOOLEAN : Run(finished)
    \/ \E w \in Workspaces : PersistElsewhere(w)
    \/ \E launcher \in BOOLEAN : Restart(launcher)
    \/ LinkLost
    \/ \E k \in DOMAIN made : KernelEnds(k) \/ UserOpens(k)

Spec == Init /\ [][Next]_vars

-----------------------------------------------------------------------------
(* Properties *)

(* The attached kernel is the kernel of the notebook and of the server     *)
(* that the bridge saves to, whatever step of an earlier attach or         *)
(* recovery failed (helper.py:609-669): a cell that runs on the attached   *)
(* kernel is saved in its notebook.  Nothing is said while no kernel is    *)
(* attached: a recovery that fails after it has opened the channel leaves  *)
(* it open, and execute (helper.py:730) then runs cells on the kernel it   *)
(* leads to, while base and notebook are those of the last attempt.        *)
AttachmentIsCoherent ==
    kernel # 0 => made[kernel] = [base |-> base, path |-> notebook]

(* Between commands an open channel leads to the attached kernel, if there *)
(* is one: after a change of server, a failed recovery, a reconnect.       *)
ChannelIsToKernel ==
    pc = "idle" /\ kernel # 0 /\ chan.open => chan.to = kernel

(* The cell that waits for the user's approval was proposed for the kernel *)
(* that is attached: it never outlives it.                                 *)
ProposalIsForThisKernel ==
    pending # 0 => pending = kernel

(* The model is never asked with a history that ends in an unanswered tool *)
(* call, which it would refuse: chat is possible again after a proposal    *)
(* was run, rejected or lost with its kernel.                              *)
NoUnansweredCall ==
    pc = "idle" /\ kernel # 0 /\ pending = 0 => ~unanswered

(* While a kernel that attach has announced is attached, the recovery file *)
(* names its notebook, and the record with which the helper would come     *)
(* back allows to attach it again.                                         *)
AnnouncedIsRecoverable ==
    pc = "idle" /\ kernel # 0 /\ kernel = announced =>
        /\ saved.base = base /\ saved.path = notebook
        /\ saved.record[base] = "ready"

-----------------------------------------------------------------------------
(* What the code says of itself, and does not do *)

(* "A stale record must never block a normal fresh attach" (attach).       *)
StaleRecordNeverBlocks == outcome # "record"

(* A helper restart can reattach the still-running session of a notebook:  *)
(* until the bridge attaches again, the recovery file names the kernel     *)
(* that was announced last.                                                *)
RestartKeepsTheRecord ==
    base = NoBase /\ announced \in live =>
        saved.base = made[announced].base /\ saved.path = made[announced].path
=============================================================================
