--------------------- MODULE WorkspaceAttachmentProofs ---------------------
(***************************************************************************)
(* The safety of attach, recovery, detach, stop and restart for any number *)
(* of servers, kernels, notebooks and ends of the helper: where a cell     *)
(* runs, where it is saved, for which kernel it was proposed and what the  *)
(* recovery file says never come apart.                                    *)
(***************************************************************************)
EXTENDS WorkspaceAttachment, TLAPS

(* Whoever attaches, or is attached, has a server.                         *)
BaseKept ==
    pc # "idle" \/ kernel # 0 => base \in Bases

(* A channel that is being reopened is closed until then.                  *)
ChannelKept ==
    /\ ChannelIsToKernel
    /\ pc = "reconnecting" => ~chan.open

(* No proposal waits while attach takes a kernel that is new to it.        *)
ProposalKept ==
    /\ ProposalIsForThisKernel
    /\ pc \in {"adopting", "opening"} => pending = 0

(* With a kernel attached, only a proposal leaves a call unanswered, while *)
(* the channel is being reopened too.                                      *)
CallKept ==
    pc \in {"idle", "reconnecting"} /\ kernel # 0 /\ pending = 0 => ~unanswered

(* The kernel that was announced exists, or existed, and is not the one    *)
(* whose channel attach opens first; while it is attached, the record in   *)
(* memory, which may be saved at any time, is as good as the saved one.    *)
RecoveryKept ==
    /\ announced \in {0} \union DOMAIN made
    /\ pc = "opening" => kernel # announced
    /\ pc \in {"idle", "reconnecting"} /\ kernel # 0 /\ kernel = announced =>
          /\ saved.base = base /\ saved.path = notebook
          /\ saved.record[base] = "ready" /\ record[base] = "ready"

IInv ==
    /\ TypeOK /\ BaseKept /\ AttachmentIsCoherent
    /\ ChannelKept /\ ProposalKept /\ CallKept /\ RecoveryKept
-----------------------------------------------------------------------------
(* A new session is added behind those that were made; it and they keep    *)
(* their numbers.                                                          *)
LEMMA SessionAdded ==
    ASSUME TypeOK, NEW session \in Sessions, Created <= MaxKernels,
           made' = Append(made, session)
    PROVE  /\ made' \in Seq(Sessions) /\ Len(made') <= MaxKernels
           /\ Created \in Kernels \ {0} /\ Created \notin DOMAIN made
           /\ DOMAIN made' = DOMAIN made \union {Created}
           /\ made'[Created] = session
           /\ \A k \in DOMAIN made : made'[k] = made[k]
  BY WorkspaceAttachmentAssumption DEF TypeOK, Created, Kernels

(* Where GiveUp leads to, and that it keeps the kernel only when the       *)
(* attach ends.                                                            *)
LEMMA GiveUpEnds ==
    ASSUME NEW why, GiveUp(why)
    PROVE  /\ pc = "adopting" => pc' = "creating" /\ kernel' = 0 /\ outcome' = outcome
           /\ pc # "adopting" => pc' = "idle" /\ kernel' = kernel /\ outcome' = why
  BY DEF GiveUp

(* The recovery file keeps its type, written or not.                       *)
LEMMA PersistType ==
    ASSUME TypeOK, NEW rec \in Records, NEW cur \in Workspaces,
           MayPersist(rec, cur) \/ saved' = Snapshot(rec, cur)
    PROVE  saved' \in [base : Bases \union {NoBase}, path : Notebooks,
                       record : Records, current : Workspaces]
  BY DEF TypeOK, MayPersist, Snapshot

-----------------------------------------------------------------------------
(* The types hold at the start, and every step keeps them.                 *)
LEMMA TypeInit == Init => TypeOK
<1> SUFFICES ASSUME Init PROVE TypeOK
  OBVIOUS
<1>1. 0 \in Kernels /\ 0 \in Notebooks /\ 0 \in 0..MaxRestarts
  BY WorkspaceAttachmentAssumption DEF Kernels, Notebooks
<1>2. record \in Records /\ NoBase \in Workspaces
  BY DEF Init, Records, Workspaces
<1>3. made \in Seq(Sessions) /\ Len(made) = 0 /\ live \subseteq DOMAIN made
  BY DEF Init
<1>4. saved \in [base : Bases \union {NoBase}, path : Notebooks,
                 record : Records, current : Workspaces]
  BY <1>1, <1>2 DEF Init
<1>5. chan \in [to : Kernels, open : BOOLEAN]
  BY <1>1 DEF Init, NoChannel
<1>6. pending \in Kernels /\ announced \in Kernels /\ Len(made) <= MaxKernels
  BY <1>1, <1>3, WorkspaceAttachmentAssumption DEF Init
<1> QED BY <1>1, <1>2, <1>3, <1>4, <1>5, <1>6 DEF Init, TypeOK

\* Every action keeps the types; a session is made on a server because of BaseKept.
LEMMA TypeStep == TypeOK /\ BaseKept /\ [Next]_vars => TypeOK'
<1> SUFFICES ASSUME TypeOK, BaseKept, [Next]_vars PROVE TypeOK'
  OBVIOUS
<1> USE DEF TypeOK, attachVars, chatVars, recordVars, serverVars, boundVars
<1>1. NoChannel \in [to : Kernels, open : BOOLEAN] /\ 0 \in Kernels /\ 0 \in Notebooks
  BY WorkspaceAttachmentAssumption DEF NoChannel, Kernels, Notebooks
<1>2. DOMAIN made \subseteq Kernels \ {0}
  BY WorkspaceAttachmentAssumption DEF Kernels
<1>3. ASSUME NEW k \in Kernels PROVE [to |-> k, open |-> TRUE] \in [to : Kernels, open : BOOLEAN]
  OBVIOUS
<1>4. ASSUME NEW b \in Bases, AttachBegins(b) PROVE TypeOK'
  BY <1>1, <1>4 DEF AttachBegins, Forgets
<1>5. ASSUME NEW k \in live, SessionFound(k) PROVE TypeOK'
  BY <1>2, <1>5 DEF SessionFound
<1>6. CASE AttachAgain \/ SessionNotFound
  BY <1>6 DEF AttachAgain, SessionNotFound
<1>7. CASE KernelSpecsFail \/ SessionRefused \/ NotReconnected
  BY <1>7, GiveUpEnds DEF KernelSpecsFail, SessionRefused, NotReconnected
<1>8. ASSUME NEW stored \in BOOLEAN, NewNotebook(stored) PROVE TypeOK'
  <2>1. notebooks' \in Notebooks
    BY <1>8, WorkspaceAttachmentAssumption DEF NewNotebook, Notebooks
  <2> QED BY <1>8, <2>1, GiveUpEnds DEF NewNotebook
<1>9. ASSUME NEW answered \in BOOLEAN, SessionCreated(answered) PROVE TypeOK'
  <2>1. [base |-> base, path |-> notebook] \in Sessions
    BY <1>9 DEF SessionCreated, BaseKept, Sessions
  <2>2. made' \in Seq(Sessions) /\ Len(made') <= MaxKernels
        /\ Created \in Kernels \ {0} /\ DOMAIN made' = DOMAIN made \union {Created}
    BY <1>9, <2>1, SessionAdded DEF SessionCreated
  <2> QED BY <1>9, <2>2, GiveUpEnds DEF SessionCreated
<1>10. CASE ChannelOpens
  <2>1. base \in Bases /\ Remembered \in Records /\ base \in Workspaces
    BY <1>10 DEF ChannelOpens, BaseKept, Remembered, Records, Workspaces
  <2>2. record' \in Records /\ current' \in Workspaces
    BY <1>10, <2>1 DEF ChannelOpens
  <2>3. saved' \in [base : Bases \union {NoBase}, path : Notebooks,
                    record : Records, current : Workspaces]
    BY <1>10, <2>1, PersistType DEF ChannelOpens, Saves
  <2>4. chan' \in [to : Kernels, open : BOOLEAN] /\ pending' = 0 /\ unanswered' = FALSE
    BY <1>3, <1>10 DEF ChannelOpens, StartsAnew
  <2>5. /\ kernel' \in {0, kernel} /\ announced' \in {announced, kernel}
        /\ pc' = "idle" \/ (pc' = "creating" /\ kernel' = 0)
        /\ outcome' \in {outcome, "attached", "record", "error"}
    BY <1>10, GiveUpEnds DEF ChannelOpens
  <2> QED BY <1>1, <1>10, <2>2, <2>3, <2>4, <2>5 DEF ChannelOpens
<1>11. CASE ChannelFails
  BY <1>1, <1>11, GiveUpEnds DEF ChannelFails, DropsSession
<1>12. CASE Reconnected
  BY <1>3, <1>12 DEF Reconnected
<1>13. CASE Detach
  BY <1>1, <1>13 DEF Detach, Forgets
<1>14. CASE Stop
  <2>1. record' \in Records
    BY <1>14 DEF Stop, Records
  <2>2. saved' \in [base : Bases \union {NoBase}, path : Notebooks,
                    record : Records, current : Workspaces]
    BY <1>14, <2>1, PersistType DEF Stop
  <2> QED BY <1>1, <1>14, <2>1, <2>2 DEF Stop, Forgets
<1>15. CASE StopFails \/ Propose \/ Reject \/ LinkLost
  BY <1>1, <1>15 DEF StopFails, Propose, Reject, LinkLost
<1>16. ASSUME NEW finished \in BOOLEAN, Run(finished) PROVE TypeOK'
  BY <1>1, <1>3, <1>16 DEF Run
<1>17. ASSUME NEW w \in Workspaces, PersistElsewhere(w) PROVE TypeOK'
  <2>1. saved' \in [base : Bases \union {NoBase}, path : Notebooks,
                    record : Records, current : Workspaces]
    BY <1>17, PersistType DEF PersistElsewhere
  <2> QED BY <1>17, <2>1 DEF PersistElsewhere
<1>18. ASSUME NEW launcher \in BOOLEAN, Restart(launcher) PROVE TypeOK'
  <2>1. restarts' \in 0..MaxRestarts
    BY <1>18, WorkspaceAttachmentAssumption DEF Restart
  <2>2. saved' \in [base : Bases \union {NoBase}, path : Notebooks,
                    record : Records, current : Workspaces]
    BY <1>1, <1>18 DEF Restart
  <2> QED BY <1>1, <1>18, <2>1, <2>2 DEF Restart
<1>19. ASSUME NEW k \in DOMAIN made, KernelEnds(k) PROVE TypeOK'
  BY <1>19 DEF KernelEnds
<1>20. ASSUME NEW k \in DOMAIN made, UserOpens(k) PROVE TypeOK'
  <2>1. made' \in Seq(Sessions) /\ Len(made') <= MaxKernels
        /\ DOMAIN made' = DOMAIN made \union {Created}
    BY <1>20, SessionAdded DEF UserOpens
  <2> QED BY <1>20, <2>1 DEF UserOpens
<1>21. CASE UNCHANGED vars
  BY <1>21 DEF vars
<1> QED BY <1>4, <1>5, <1>6, <1>7, <1>8, <1>9, <1>10, <1>11, <1>12, <1>13, <1>14, <1>15,
           <1>16, <1>17, <1>18, <1>19, <1>20, <1>21 DEF Next, Attaching
-----------------------------------------------------------------------------
(* The base is chosen when an attach begins, and kept.                     *)
LEMMA BaseStep == TypeOK /\ BaseKept /\ [Next]_vars => BaseKept'
<1> SUFFICES ASSUME TypeOK, BaseKept, [Next]_vars PROVE BaseKept'
  OBVIOUS
<1> USE DEF BaseKept, attachVars, chatVars, recordVars, serverVars, boundVars
<1>1. CASE Attaching
  <2>1. ASSUME NEW b \in Bases, AttachBegins(b) PROVE BaseKept'
    BY <2>1 DEF AttachBegins
  <2>2. ASSUME pc # "idle" \/ kernel # 0, UNCHANGED base PROVE BaseKept'
    BY <2>2
  <2> QED BY <1>1, <2>1, <2>2
          DEF Attaching, AttachAgain, SessionFound, SessionNotFound, KernelSpecsFail,
              NewNotebook, SessionCreated, SessionRefused, ChannelOpens, ChannelFails,
              Reconnected, NotReconnected
<1>2. CASE UNCHANGED <<pc, base>> /\ kernel' \in {0, kernel}
  BY <1>2
<1>3. ASSUME NEW launcher \in BOOLEAN, Restart(launcher) PROVE BaseKept'
  BY <1>3 DEF Restart
<1> QED BY <1>1, <1>2, <1>3
        DEF Next, Detach, Stop, Forgets, StopFails, Propose, Reject, Run,
            PersistElsewhere, LinkLost, KernelEnds, UserOpens, vars

-----------------------------------------------------------------------------
(* Base, notebook and kernel change together, or the kernel is dropped.    *)
LEMMA CoherentStep ==
    TypeOK /\ BaseKept /\ AttachmentIsCoherent /\ [Next]_vars => AttachmentIsCoherent'
<1> SUFFICES ASSUME TypeOK, BaseKept, AttachmentIsCoherent, [Next]_vars
             PROVE  AttachmentIsCoherent'
  OBVIOUS
<1> USE DEF AttachmentIsCoherent, attachVars, chatVars, recordVars, serverVars, boundVars
<1>1. CASE kernel' = 0
  BY <1>1
<1>2. CASE UNCHANGED <<base, notebook, kernel, made>>
  BY <1>2
<1>3. ASSUME NEW k \in live, SessionFound(k) PROVE AttachmentIsCoherent'
  BY <1>3 DEF SessionFound
<1>4. ASSUME NEW answered \in BOOLEAN, SessionCreated(answered) PROVE AttachmentIsCoherent'
  <2>1. kernel = 0 /\ [base |-> base, path |-> notebook] \in Sessions
    BY <1>4 DEF SessionCreated, BaseKept, TypeOK, Sessions
  <2>2. made'[Created] = [base |-> base, path |-> notebook]
    BY <1>4, <2>1, SessionAdded DEF SessionCreated
  <2>3. kernel' \in {0, Created}
    BY <1>4, <2>1, GiveUpEnds DEF SessionCreated
  <2> QED BY <1>4, <2>2, <2>3 DEF SessionCreated
<1>5. ASSUME NEW k \in DOMAIN made, UserOpens(k) PROVE AttachmentIsCoherent'
  <2>1. made[k] \in Sessions /\ kernel \in {0} \union DOMAIN made
    BY DEF TypeOK
  <2>2. \A l \in DOMAIN made : made'[l] = made[l]
    BY <1>5, <2>1, SessionAdded DEF UserOpens
  <2> QED BY <1>5, <2>1, <2>2 DEF UserOpens
<1>6. ASSUME NEW b \in Bases, AttachBegins(b) PROVE kernel' = 0
  BY <1>6 DEF AttachBegins, Forgets
<1>7. ASSUME NEW stored \in BOOLEAN, NewNotebook(stored) PROVE kernel' = 0
  BY <1>7, GiveUpEnds DEF NewNotebook, TypeOK
<1>8. CASE KernelSpecsFail \/ SessionRefused \/ NotReconnected \/ ChannelOpens \/ ChannelFails
  <2>1. kernel' \in {0, kernel} /\ UNCHANGED <<base, notebook, made>>
    BY <1>8, GiveUpEnds
    DEF KernelSpecsFail, SessionRefused, NotReconnected, ChannelOpens, ChannelFails, DropsSession
  <2> QED BY <1>1, <1>2, <2>1
<1>9. CASE Attaching
  BY <1>2, <1>3, <1>4, <1>1, <1>6, <1>7, <1>8, <1>9
  DEF Attaching, AttachAgain, SessionNotFound, Reconnected
<1>10. ASSUME NEW launcher \in BOOLEAN, Restart(launcher) PROVE kernel' = 0
  BY <1>10 DEF Restart
<1> QED BY <1>1, <1>2, <1>5, <1>9, <1>10
        DEF Next, Detach, Stop, Forgets, StopFails, Propose, Reject, Run,
            PersistElsewhere, LinkLost, KernelEnds, vars

-----------------------------------------------------------------------------
(* A channel is opened to the attached kernel, and closed with it.         *)
LEMMA ChannelStep == TypeOK /\ ChannelKept /\ [Next]_vars => ChannelKept'
<1> SUFFICES ASSUME TypeOK, ChannelKept, [Next]_vars PROVE ChannelKept'
  OBVIOUS
<1> USE DEF ChannelKept, ChannelIsToKernel, attachVars, chatVars, recordVars, serverVars, boundVars
<1>1. CASE pc' \notin {"idle", "reconnecting"}
  BY <1>1
<1>2. CASE pc' = "idle" /\ (kernel' = 0 \/ chan' = [to |-> kernel', open |-> TRUE])
  BY <1>2
<1>3. CASE UNCHANGED <<pc, kernel, chan>>
  BY <1>3
<1>4. CASE AttachAgain \/ NotReconnected
  BY <1>4 DEF AttachAgain, NotReconnected, GiveUp
<1>5. CASE ChannelOpens \/ ChannelFails \/ Reconnected
  BY <1>1, <1>2, <1>5, GiveUpEnds DEF ChannelOpens, ChannelFails, DropsSession, Reconnected
<1>6. CASE KernelSpecsFail \/ SessionRefused
  BY <1>6, GiveUpEnds DEF KernelSpecsFail, SessionRefused, TypeOK
<1>7. ASSUME NEW stored \in BOOLEAN, NewNotebook(stored) PROVE ChannelKept'
  BY <1>7, GiveUpEnds DEF NewNotebook, TypeOK
<1>8. ASSUME NEW answered \in BOOLEAN, SessionCreated(answered) PROVE ChannelKept'
  BY <1>8, GiveUpEnds DEF SessionCreated, TypeOK
<1>9. ASSUME NEW b \in Bases, AttachBegins(b) PROVE pc' \notin {"idle", "reconnecting"}
  BY <1>9 DEF AttachBegins
<1>10. CASE Attaching
  BY <1>1, <1>4, <1>5, <1>6, <1>7, <1>8, <1>9, <1>10 DEF Attaching, SessionFound, SessionNotFound
<1>11. ASSUME NEW finished \in BOOLEAN, Run(finished) PROVE ChannelKept'
  BY <1>11 DEF Run
<1>12. ASSUME NEW launcher \in BOOLEAN, Restart(launcher) PROVE ChannelKept'
  BY <1>12 DEF Restart
<1>13. CASE LinkLost
  BY <1>13 DEF LinkLost, TypeOK
<1> QED BY <1>2, <1>3, <1>10, <1>11, <1>12, <1>13
        DEF Next, Detach, Stop, Forgets, StopFails, Propose, Reject,
            PersistElsewhere, KernelEnds, UserOpens, vars
-----------------------------------------------------------------------------
(* A proposal is made for the attached kernel and dropped with it.         *)
LEMMA ProposalStep == TypeOK /\ ProposalKept /\ [Next]_vars => ProposalKept'
<1> SUFFICES ASSUME TypeOK, ProposalKept, [Next]_vars PROVE ProposalKept'
  OBVIOUS
<1> USE DEF ProposalKept, ProposalIsForThisKernel,
            attachVars, chatVars, recordVars, serverVars, boundVars
<1>1. kernel = 0 \/ pc \in {"adopting", "opening"} => pending = 0
  OBVIOUS
<1>2. CASE pending' = 0
  BY <1>2
<1>3. CASE UNCHANGED <<kernel, pending>> /\ pc' \notin {"adopting", "opening"}
  BY <1>3
<1>4. CASE UNCHANGED <<pc, kernel, pending>>
  BY <1>4
<1>5. ASSUME NEW b \in Bases, AttachBegins(b) PROVE pending' = 0
  BY <1>1, <1>5 DEF AttachBegins, Forgets
<1>6. ASSUME NEW k \in live, SessionFound(k) PROVE pending' = 0
  BY <1>1, <1>6 DEF SessionFound, TypeOK
<1>7. CASE SessionNotFound \/ KernelSpecsFail \/ SessionRefused
  BY <1>1, <1>2, <1>7 DEF SessionNotFound, KernelSpecsFail, SessionRefused, TypeOK
<1>8. ASSUME NEW stored \in BOOLEAN, NewNotebook(stored) PROVE pending' = 0
  BY <1>1, <1>8 DEF NewNotebook, TypeOK
<1>9. ASSUME NEW answered \in BOOLEAN, SessionCreated(answered) PROVE pending' = 0
  BY <1>1, <1>9 DEF SessionCreated, TypeOK
<1>10. CASE ChannelOpens \/ ChannelFails
  BY <1>1, <1>2, <1>10 DEF ChannelOpens, StartsAnew, ChannelFails
<1>11. CASE AttachAgain \/ Reconnected \/ NotReconnected
  BY <1>3, <1>4, <1>11, GiveUpEnds DEF AttachAgain, Reconnected, NotReconnected
<1>12. CASE Attaching
  BY <1>2, <1>5, <1>6, <1>7, <1>8, <1>9, <1>10, <1>11, <1>12 DEF Attaching
<1>13. CASE Propose
  BY <1>13 DEF Propose
<1>14. ASSUME NEW finished \in BOOLEAN, Run(finished) PROVE ProposalKept'
  BY <1>2, <1>4, <1>14 DEF Run
<1>15. ASSUME NEW launcher \in BOOLEAN, Restart(launcher) PROVE pending' = 0
  BY <1>15 DEF Restart
<1> QED BY <1>2, <1>4, <1>12, <1>13, <1>14, <1>15
        DEF Next, Detach, Stop, Forgets, StopFails, Reject,
            PersistElsewhere, LinkLost, KernelEnds, UserOpens, vars

-----------------------------------------------------------------------------
(* The call is answered when its proposal is run or rejected, and the      *)
(* history starts anew with each kernel that is attached.                  *)
LEMMA CallStep == TypeOK /\ CallKept /\ [Next]_vars => CallKept'
<1> SUFFICES ASSUME TypeOK, CallKept, [Next]_vars PROVE CallKept'
  OBVIOUS
<1> USE DEF CallKept, attachVars, chatVars, recordVars, serverVars, boundVars
<1>1. CASE pc' \notin {"idle", "reconnecting"} \/ kernel' = 0 \/ unanswered' = FALSE
  BY <1>1
<1>2. CASE pc \in {"idle", "reconnecting"} /\ UNCHANGED <<kernel, pending, unanswered>>
  BY <1>2
<1>3. CASE AttachAgain \/ Reconnected \/ NotReconnected
  BY <1>2, <1>3, GiveUpEnds DEF AttachAgain, Reconnected, NotReconnected
<1>4. CASE KernelSpecsFail \/ SessionRefused \/ SessionNotFound
  BY <1>1, <1>4, GiveUpEnds DEF KernelSpecsFail, SessionRefused, SessionNotFound, TypeOK
<1>5. ASSUME NEW stored \in BOOLEAN, NewNotebook(stored) PROVE CallKept'
  BY <1>1, <1>5, GiveUpEnds DEF NewNotebook, TypeOK
<1>6. ASSUME NEW answered \in BOOLEAN, SessionCreated(answered) PROVE CallKept'
  BY <1>1, <1>6, GiveUpEnds DEF SessionCreated, TypeOK
<1>7. CASE ChannelOpens \/ ChannelFails
  BY <1>1, <1>7, GiveUpEnds DEF ChannelOpens, StartsAnew, ChannelFails, DropsSession
<1>8. CASE Attaching
  BY <1>1, <1>3, <1>4, <1>5, <1>6, <1>7, <1>8 DEF Attaching, AttachBegins, SessionFound
<1>9. CASE Propose
  BY <1>9 DEF Propose
<1>10. ASSUME NEW finished \in BOOLEAN, Run(finished) PROVE CallKept'
  BY <1>1, <1>2, <1>10 DEF Run
<1>11. ASSUME NEW launcher \in BOOLEAN, Restart(launcher) PROVE CallKept'
  BY <1>1, <1>11 DEF Restart
<1>12. CASE UNCHANGED <<pc, kernel, pending, unanswered>>
  BY <1>12
<1> QED BY <1>1, <1>8, <1>9, <1>10, <1>11, <1>12
        DEF Next, Detach, Stop, Forgets, StopFails, Reject,
            PersistElsewhere, LinkLost, KernelEnds, UserOpens, vars

-----------------------------------------------------------------------------
(* What is written while an announced kernel is attached names it.         *)
LEMMA RecoveryStep ==
    TypeOK /\ BaseKept /\ AttachmentIsCoherent /\ RecoveryKept /\ [Next]_vars => RecoveryKept'
<1> SUFFICES ASSUME TypeOK, BaseKept, AttachmentIsCoherent, RecoveryKept, [Next]_vars
             PROVE  RecoveryKept'
  OBVIOUS
<1> USE DEF RecoveryKept, attachVars, chatVars, recordVars, serverVars, boundVars
<1>1. CASE kernel' = 0 /\ pc' # "opening" /\ UNCHANGED <<announced, made>>
  BY <1>1
<1>2. CASE pc' \in {"lookup", "creating", "posting", "adopting"} /\ UNCHANGED <<announced, made>>
  BY <1>2
<1>3. CASE pc \in {"idle", "reconnecting"} /\ pc' # "opening"
           /\ UNCHANGED <<base, notebook, kernel, record, announced, saved, made>>
  BY <1>3
<1>4. CASE UNCHANGED <<pc, base, notebook, kernel, record, announced, saved, made>>
  BY <1>4
<1>5. CASE AttachAgain \/ Reconnected \/ NotReconnected
  BY <1>3, <1>5, GiveUpEnds DEF AttachAgain, Reconnected, NotReconnected
<1>6. CASE KernelSpecsFail \/ SessionRefused
  BY <1>1, <1>6, GiveUpEnds DEF KernelSpecsFail, SessionRefused, TypeOK
<1>7. ASSUME NEW stored \in BOOLEAN, NewNotebook(stored) PROVE RecoveryKept'
  BY <1>1, <1>7, GiveUpEnds DEF NewNotebook, TypeOK
<1>8. ASSUME NEW answered \in BOOLEAN, SessionCreated(answered) PROVE RecoveryKept'
  <2>1. kernel = 0 /\ [base |-> base, path |-> notebook] \in Sessions
    BY <1>8 DEF SessionCreated, BaseKept, TypeOK, Sessions
  <2>2. Created \notin {0} \union DOMAIN made /\ DOMAIN made' = DOMAIN made \union {Created}
    BY <1>8, <2>1, SessionAdded DEF SessionCreated
  <2>3. \/ pc' = "opening" /\ kernel' = Created
        \/ pc' = "idle" /\ kernel' = 0
    BY <1>8, <2>1, GiveUpEnds DEF SessionCreated
  <2> QED BY <1>8, <2>2, <2>3 DEF SessionCreated
<1>9. CASE ChannelOpens
  <2>1. kernel \in DOMAIN made /\ base \in Bases /\ record \in Records
    BY <1>9 DEF ChannelOpens, BaseKept, TypeOK
  <2>2. CASE /\ pc' = "idle" /\ announced' = kernel /\ UNCHANGED <<base, notebook, kernel, made>>
             /\ record' = Remembered /\ Saves
    BY <2>1, <2>2 DEF Remembered, Saves, Snapshot, Records
  <2>3. CASE pc = "adopting" /\ pc' = "creating" /\ UNCHANGED <<announced, made>>
    BY <1>2, <2>3
  <2>4. CASE pc = "opening" /\ pc' = "idle" /\ UNCHANGED <<kernel, announced, made>>
    BY <2>4
  <2> QED BY <1>9, <2>2, <2>3, <2>4, GiveUpEnds DEF ChannelOpens
<1>10. CASE ChannelFails
  BY <1>1, <1>10, GiveUpEnds DEF ChannelFails, DropsSession
<1>11. CASE Attaching
  BY <1>2, <1>5, <1>6, <1>7, <1>8, <1>9, <1>10, <1>11
  DEF Attaching, AttachBegins, SessionFound, SessionNotFound
<1>12. CASE Stop \/ Detach
  BY <1>1, <1>12 DEF Stop, Detach, Forgets
<1>13. ASSUME NEW w \in Workspaces, PersistElsewhere(w) PROVE RecoveryKept'
  BY <1>13 DEF PersistElsewhere, MayPersist, Snapshot
<1>14. ASSUME NEW launcher \in BOOLEAN, Restart(launcher) PROVE RecoveryKept'
  BY <1>1, <1>14 DEF Restart
<1>15. ASSUME NEW k \in DOMAIN made, UserOpens(k) PROVE RecoveryKept'
  <2>1. DOMAIN made \subseteq DOMAIN made'
    BY <1>15, SessionAdded DEF UserOpens, TypeOK
  <2> QED BY <1>15, <2>1 DEF UserOpens
<1> QED BY <1>4, <1>11, <1>12, <1>13, <1>14, <1>15
        DEF Next, StopFails, Propose, Reject, Run, LinkLost, KernelEnds, vars

-----------------------------------------------------------------------------
(* IInv is an inductive invariant of the attachment.                       *)
THEOREM AttachmentInvariance == Spec => []IInv
<1>1. Init => IInv
  BY TypeInit
  DEF Init, IInv, BaseKept, AttachmentIsCoherent, ChannelKept, ChannelIsToKernel, ProposalKept,
      ProposalIsForThisKernel, CallKept, RecoveryKept, NoChannel
<1>2. IInv /\ [Next]_vars => IInv'
  BY TypeStep, BaseStep, CoherentStep, ChannelStep, ProposalStep, CallStep, RecoveryStep DEF IInv
<1> QED BY <1>1, <1>2, PTL DEF Spec

(* Every variable of the attachment keeps its type; in particular a kernel *)
(* is attached exactly in the steps of attach that need one.               *)
THEOREM AttachmentTypeCorrect == Spec => []TypeOK
  BY AttachmentInvariance, PTL DEF IInv

(* The attached kernel is the kernel of the notebook and of the server     *)
(* that the bridge saves to; nothing is said while none is attached.       *)
THEOREM SavedWhereItRuns == Spec => []AttachmentIsCoherent
  BY AttachmentInvariance, PTL DEF IInv

(* Between commands an open channel leads to the attached kernel.          *)
THEOREM ChannelReachesKernel == Spec => []ChannelIsToKernel
<1>1. IInv => ChannelIsToKernel
  BY DEF IInv, ChannelKept
<1> QED BY <1>1, AttachmentInvariance, PTL

(* A proposed cell never outlives the kernel it was proposed for.          *)
THEOREM ProposalHasItsKernel == Spec => []ProposalIsForThisKernel
<1>1. IInv => ProposalIsForThisKernel
  BY DEF IInv, ProposalKept
<1> QED BY <1>1, AttachmentInvariance, PTL

(* The model is never asked with an unanswered tool call.                  *)
THEOREM CallsAreAnswered == Spec => []NoUnansweredCall
<1>1. IInv => NoUnansweredCall
  BY DEF IInv, CallKept, NoUnansweredCall
<1> QED BY <1>1, AttachmentInvariance, PTL

(* While an announced kernel is attached, a restart can attach it again.   *)
THEOREM RestartCanRecover == Spec => []AnnouncedIsRecoverable
<1>1. IInv => AnnouncedIsRecoverable
  BY DEF IInv, RecoveryKept, AnnouncedIsRecoverable
<1> QED BY <1>1, AttachmentInvariance, PTL
=============================================================================
