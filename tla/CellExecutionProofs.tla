------------------------ MODULE CellExecutionProofs ------------------------
(***************************************************************************)
(* The safety of cell execution for any number of runs, losses of the      *)
(* link, other clients, prompts and restarts of the kernel: what runs was  *)
(* saved, what is reported finished was completed, and one connection's    *)
(* end is never taken for another's.                                       *)
(***************************************************************************)
EXTENDS CellExecution, SequenceTheorems, TLAPS

(* The run command works on a run of its own, whose cell is in memory once *)
(* the channel is there and in the saved notebook before it is sent.       *)
SourceKept ==
    /\ pc # "idle" => run \in 1..MaxRuns
    /\ pc = "saving" => run \in cells
    /\ pc = "sending" => run \in notebook
    /\ SourceIsSavedFirst

(* What the kernel may have sent: no end of stream, and an outcome only of *)
(* a run that it has completed (or of another client's request).           *)
Honest ==
    {e \in Events : /\ e.kind # "end"
                    /\ e.kind \in {"reply", "idle"} => e.req \in completed \union {0}}

(* An end of stream is put into the queue only, as the channel closes.     *)
StreamKept ==
    /\ Range(wire) \subseteq Honest
    /\ Range(events) \subseteq Honest \union {EndOfStream}
    /\ EndIsCurrent

(* What execute has seen of its run, it has seen of a completed one.       *)
OutcomeKept ==
    /\ pc = "sending" => ~gotReply /\ ~gotIdle
    /\ pc = "waiting" /\ (gotReply \/ gotIdle) => run \in completed
    /\ pc = "ending" /\ ~fault => run \in completed
    /\ FinishedWasCompleted

IInv == CellTypeOK /\ SourceKept /\ StreamKept /\ OutcomeKept

-----------------------------------------------------------------------------
(* What the operations on sequences do to the set of the elements.         *)
LEMMA RangeAppend ==
    ASSUME NEW S, NEW s \in Seq(S), NEW e \in S
    PROVE  Append(s, e) \in Seq(S) /\ Range(Append(s, e)) = Range(s) \union {e}
<1>1. Append(s, e) = s \o <<e>> /\ <<e>> \in Seq(S)
  BY AppendIsConcat
<1>2. Range(<<e>>) = {e}
  BY DEF Range
<1>3. Range(s \o <<e>>) = Range(s) \union Range(<<e>>)
  BY <1>1, RangeConcatenation
<1>4. Append(s, e) \in Seq(S)
  OBVIOUS
<1> QED BY <1>1, <1>2, <1>3, <1>4

\* Taking the head off a sequence adds no element.
LEMMA RangeTail ==
    ASSUME NEW S, NEW s \in Seq(S), s # <<>>
    PROVE  /\ Head(s) \in Range(s) /\ Tail(s) \in Seq(S)
           /\ Range(Tail(s)) \subseteq Range(s) /\ Range(s) \subseteq S
<1>1. Tail(s) \in Seq(S) /\ Len(Tail(s)) = Len(s) - 1
      /\ \A i \in 1..Len(Tail(s)) : Tail(s)[i] = s[i + 1]
  BY HeadTailProperties
<1>2. Len(s) \in Nat \ {0} /\ Head(s) = s[1]
  BY EmptySeq
<1>3. Range(s) = {s[i] : i \in 1..Len(s)} /\ Range(s) \subseteq S
  BY RangeEquality, RangeOfSeq
<1>4. Range(Tail(s)) = {Tail(s)[i] : i \in 1..Len(Tail(s))}
  BY <1>1, RangeEquality
<1>5. Head(s) \in Range(s)
  BY <1>2, <1>3
<1>6. ASSUME NEW i \in 1..Len(Tail(s)) PROVE Tail(s)[i] \in Range(s)
  BY <1>1, <1>2, <1>3, <1>6
<1> QED BY <1>1, <1>3, <1>4, <1>5, <1>6

\* A prefix has no element that the sequence has not.
LEMMA RangePrefix ==
    ASSUME NEW S, NEW s \in Seq(S), NEW n \in 0..Len(s)
    PROVE  SubSeq(s, 1, n) \in Seq(S) /\ Range(SubSeq(s, 1, n)) \subseteq Range(s)
<1>1. n \in Int /\ Len(s) \in Nat /\ \A i \in 1..n : s[i] \in S
  BY LenProperties, ElementOfSeq
<1>2. /\ SubSeq(s, 1, n) \in Seq(S) /\ Len(SubSeq(s, 1, n)) = n
      /\ \A i \in 1..n : SubSeq(s, 1, n)[i] = s[i]
  BY <1>1, SubSeqProperties
<1>3. Range(s) = {s[i] : i \in 1..Len(s)}
  BY RangeEquality
<1>4. Range(SubSeq(s, 1, n)) = {SubSeq(s, 1, n)[i] : i \in 1..n}
  BY <1>2, RangeEquality
<1> QED BY <1>1, <1>2, <1>3, <1>4

\* A concatenation has the elements of both sequences.
LEMMA RangeConcat ==
    ASSUME NEW S, NEW s \in Seq(S), NEW t \in Seq(S)
    PROVE  s \o t \in Seq(S) /\ Range(s \o t) = Range(s) \union Range(t)
  BY RangeConcatenation, ConcatProperties

(* What Emitted adds to the wire: some of the new events.                  *)
LEMMA EmittedAdds ==
    ASSUME NEW new \in Seq(Events), wire \in Seq(Events)
    PROVE  /\ Emitted(new) \in Seq(Events)
           /\ Range(Emitted(new)) \subseteq Range(wire) \union Range(new)
  BY RangeConcat DEF Emitted

-----------------------------------------------------------------------------
(* The types hold at the start, and every step keeps them.                 *)
LEMMA TypeInit == CellInit => CellTypeOK
<1> SUFFICES ASSUME CellInit PROVE CellTypeOK
  OBVIOUS
<1>1. 0 \in Requests /\ MaxRuns \in Nat /\ 1..MaxRuns \subseteq Requests
  BY CellExecutionAssumption DEF Requests
<1>2. handler \in [Handlers -> [pc : {"idle", "sending", "sent"}, prompt : Requests]]
  BY <1>1 DEF CellInit, NoReply
<1>3. 0 \in 0..MaxLosses /\ 0 \in 0..MaxForeign /\ 0 \in 0..MaxAsks /\ 0 \in 0..MaxKernelRestarts
  BY CellExecutionAssumption
<1>4. wire \in Seq(Events) /\ events \in Seq(Events) /\ shell \in Seq(Requests)
  BY DEF CellInit
<1>5. /\ pc = "idle" /\ run \in Requests /\ header \in Requests
      /\ executing = FALSE /\ (executing <=> pc \in {"sending", "waiting"})
      /\ verdict \in [1..MaxRuns -> {"none", "refused", "finished", "unknown"}]
  BY <1>1 DEF CellInit
<1>6. /\ gotReply \in BOOLEAN /\ gotIdle \in BOOLEAN /\ fault \in BOOLEAN /\ asking \in BOOLEAN
      /\ chan \in {"open", "broken", "closed"} /\ cells \subseteq 1..MaxRuns
      /\ notebook \subseteq cells /\ completed \subseteq 1..MaxRuns
  BY DEF CellInit
<1> QED BY <1>2, <1>3, <1>4, <1>5, <1>6 DEF CellInit, CellTypeOK

(* Where the finally clause of execute leaves the bridge.                  *)
LEMMA LeaveLoopEnds ==
    ASSUME NEW failed \in BOOLEAN, LeaveLoop(failed)
    PROVE  /\ pc' = "ending" /\ fault' = failed /\ header' = 0
           /\ executing' = FALSE /\ (executing' <=> pc' \in {"sending", "waiting"})
  BY DEF LeaveLoop

(* The run command's own steps: the reader, the wire and the kernel keep   *)
(* theirs.                                                                 *)
LEMMA TypeRunStep ==
    ASSUME CellTypeOK, SourceKept, BeginRun \/ Reconnecting \/ Executing
    PROVE  CellTypeOK'
<1> USE DEF CellTypeOK, runVars, inputVars, kernelVars
<1>1. MaxRuns \in Nat /\ 1..MaxRuns \subseteq Requests /\ 0 \in Requests
  BY CellExecutionAssumption DEF Requests
<1>2. pc # "idle" => run \in 1..MaxRuns
  BY DEF SourceKept
<1>3. CASE BeginRun
  <2>1. run' \in 1..MaxRuns
    BY <1>1, <1>3 DEF BeginRun, Requests
  <2>2. cells' \subseteq 1..MaxRuns /\ notebook' \subseteq cells'
    BY <1>3, <2>1 DEF BeginRun
  <2> QED BY <1>1, <1>3, <2>1, <2>2 DEF BeginRun
<1>4. ASSUME Refuse, pc # "idle"
      PROVE  /\ verdict' \in [1..MaxRuns -> {"none", "refused", "finished", "unknown"}]
             /\ UNCHANGED <<run, gotReply, gotIdle, fault>> /\ pc' = "idle"
  BY <1>4 DEF Refuse
<1>5. CASE FoundIdle
  BY <1>5 DEF FoundIdle
<1>6. CASE NotFoundIdle
  BY <1>4, <1>6 DEF NotFoundIdle
<1>7. CASE ChannelOpens
  <2>1. cells' \subseteq 1..MaxRuns /\ notebook' \subseteq cells'
    BY <1>2, <1>7 DEF ChannelOpens
  <2> QED BY <1>7, <2>1 DEF ChannelOpens, FreshQueue
<1>8. CASE ChannelFails
  BY <1>4, <1>8 DEF ChannelFails, FreshQueue
<1>9. CASE SourceSaved
  BY <1>9 DEF SourceSaved
<1>10. CASE SourceNotSaved
  BY <1>4, <1>10 DEF SourceNotSaved
<1>11. CASE RequestSent
  <2>1. shell' \in Seq(Requests)
    BY <1>11, AppendProperties DEF RequestSent
  <2> QED BY <1>11, <2>1 DEF RequestSent
<1>12. CASE RequestNotSent
  BY <1>1, <1>12, LeaveLoopEnds DEF RequestNotSent
<1>13. ASSUME NEW e, Await(e) PROVE events' \in Seq(Events) /\ e \in Events
  BY <1>13, RangeTail DEF Await
<1>14. CASE TakeEnd
  BY <1>1, <1>13, <1>14, LeaveLoopEnds DEF TakeEnd
<1>15. ASSUME NEW e \in Events, SkipEvent(e) PROVE CellTypeOK'
  BY <1>13, <1>15 DEF SkipEvent
<1>16. ASSUME NEW e \in Events, TakePrompt(e) PROVE CellTypeOK'
  BY <1>13, <1>16 DEF TakePrompt, Events
<1>17. ASSUME NEW e \in Events, TakeOutcome(e) PROVE CellTypeOK'
  <2>1. /\ gotReply' \in BOOLEAN /\ gotIdle' \in BOOLEAN /\ fault' \in BOOLEAN
        /\ header' \in Requests /\ events' \in Seq(Events)
    BY <1>1, <1>13, <1>17 DEF TakeOutcome, LeaveLoop
  <2>2. /\ pc' \in {"waiting", "ending"} /\ executing' \in BOOLEAN
        /\ (executing' <=> pc' \in {"sending", "waiting"})
    BY <1>17, LeaveLoopEnds DEF TakeOutcome, Await
  <2> QED BY <1>17, <2>1, <2>2 DEF TakeOutcome
<1>18. ASSUME NEW kept \in BOOLEAN, EndRun(kept) PROVE CellTypeOK'
  BY <1>2, <1>18 DEF EndRun
<1> QED BY <1>3, <1>5, <1>6, <1>7, <1>8, <1>9, <1>10, <1>11, <1>12, <1>14, <1>15, <1>16,
           <1>17, <1>18 DEF Reconnecting, Executing, Taking

\* Every action keeps the types; that the run command has a run of its own is needed.
LEMMA TypeStep == CellTypeOK /\ SourceKept /\ [CellNext]_cellVars => CellTypeOK'
<1> SUFFICES ASSUME CellTypeOK, SourceKept, [CellNext]_cellVars PROVE CellTypeOK'
  OBVIOUS
<1> USE DEF CellTypeOK, runVars, inputVars, kernelVars
<1>1. 0 \in Requests /\ EndOfStream \in Events /\ MaxRuns \in Nat
  BY CellExecutionAssumption DEF Requests, Events, EndOfStream, Event
<1>2. CASE BeginRun \/ Reconnecting \/ Executing
  BY <1>2, TypeRunStep
<1>3. CASE ReaderReads
  <2>1. wire' \in Seq(Events) /\ Head(wire) \in Events
    BY <1>3, RangeTail DEF ReaderReads
  <2> QED BY <1>3, <2>1, RangeAppend DEF ReaderReads
<1>4. CASE ReaderEnds
  BY <1>1, <1>4, RangeAppend DEF ReaderEnds
<1>5. ASSUME NEW h \in Handlers, Claim(h) \/ ReplySent(h) \/ ReplyFails(h) \/ InputDone(h)
      PROVE  CellTypeOK'
  <2>1. handler[h].prompt \in Requests /\ NoReply \in [pc : {"idle", "sending", "sent"}, prompt : Requests]
    BY <1>1 DEF NoReply
  <2>2. handler' \in [Handlers -> [pc : {"idle", "sending", "sent"}, prompt : Requests]]
    <3>1. CASE Claim(h)
      BY <3>1 DEF Claim
    <3>2. CASE ReplyFails(h) \/ InputDone(h)
      BY <2>1, <3>2 DEF ReplyFails, InputDone
    <3>3. CASE ReplySent(h)
      <4>1. [handler[h] EXCEPT !.pc = "sent"] \in [pc : {"idle", "sending", "sent"}, prompt : Requests]
        OBVIOUS
      <4> QED BY <3>3, <4>1 DEF ReplySent
    <3> QED BY <1>5, <3>1, <3>2, <3>3
  <2>3. header' \in Requests /\ asking' \in BOOLEAN
    BY <1>1, <1>5, <2>1 DEF Claim, ReplySent, ReplyFails, InputDone
  <2>4. UNCHANGED <<runVars, chan, events, executing, cells, notebook, wire, shell, completed, foreign, asks, kernelRestarts, losses>>
    BY <1>5 DEF Claim, ReplySent, ReplyFails, InputDone
  <2> QED BY <2>2, <2>3, <2>4
<1>6. CASE LinkLost
  <2>1. wire' \in Seq(Events)
    BY <1>6, RangePrefix DEF LinkLost
  <2>2. losses' \in 0..MaxLosses
    BY <1>6, CellExecutionAssumption DEF LinkLost
  <2> QED BY <1>6, <2>1, <2>2 DEF LinkLost
<1>7. CASE OtherClientRuns
  <2>1. shell' \in Seq(Requests) /\ foreign' \in 0..MaxForeign
    BY <1>1, <1>7, CellExecutionAssumption, AppendProperties DEF OtherClientRuns
  <2> QED BY <1>7, <2>1 DEF OtherClientRuns
<1>8. CASE KernelAsks
  <2>1. Head(shell) \in Requests
    BY <1>8, RangeTail DEF KernelAsks
  <2>2. <<Event(Head(shell), "asks")>> \in Seq(Events)
    BY <2>1 DEF Event, Events
  <2>3. wire' \in Seq(Events)
    BY <1>8, <2>2, EmittedAdds DEF KernelAsks
  <2>4. asks' \in 0..MaxAsks
    BY <1>8, CellExecutionAssumption DEF KernelAsks
  <2> QED BY <1>8, <2>3, <2>4 DEF KernelAsks
<1>9. CASE KernelCompletes
  <2>1. Head(shell) \in Requests /\ shell' \in Seq(Requests)
    BY <1>9, RangeTail DEF KernelCompletes
  <2> DEFINE reply == Event(Head(shell), "reply")
             idle  == Event(Head(shell), "idle")
  <2>2. <<reply, idle>> \in Seq(Events) /\ <<idle, reply>> \in Seq(Events)
    BY <2>1 DEF Event, Events
  <2>3. wire' = Emitted(<<reply, idle>>) \/ wire' = Emitted(<<idle, reply>>)
    BY <1>9 DEF KernelCompletes
  <2>4. wire' \in Seq(Events)
    BY <2>2, <2>3, EmittedAdds
  <2>5. completed' \subseteq 1..MaxRuns
    <3>1. completed' = completed \union ({Head(shell)} \ {0})
      BY <1>9 DEF KernelCompletes
    <3>2. Head(shell) = 0 \/ Head(shell) \in 1..MaxRuns
      BY <1>1, <2>1 DEF Requests
    <3> QED BY <3>1, <3>2
  <2> QED BY <1>9, <2>1, <2>4, <2>5 DEF KernelCompletes
<1>10. CASE KernelRestarts
  <2>1. kernelRestarts' \in 0..MaxKernelRestarts
    BY <1>10, CellExecutionAssumption DEF KernelRestarts
  <2>2. shell' \in Seq(Requests) /\ asking' = FALSE
    BY <1>10, EmptySeq DEF KernelRestarts
  <2> QED BY <1>10, <2>1, <2>2 DEF KernelRestarts
<1>11. CASE Interrupt
  BY <1>11 DEF Interrupt
<1>12. CASE UNCHANGED cellVars
  BY <1>12 DEF cellVars
<1> QED BY <1>2, <1>3, <1>4, <1>5, <1>6, <1>7, <1>8, <1>9, <1>10, <1>11, <1>12
        DEF CellNext, Reading, Replying

-----------------------------------------------------------------------------
(* A cell is in memory before it is saved and saved before it is sent.     *)
LEMMA SourceStep == CellTypeOK /\ SourceKept /\ [CellNext]_cellVars => SourceKept'
<1> SUFFICES ASSUME CellTypeOK, SourceKept, [CellNext]_cellVars PROVE SourceKept'
  OBVIOUS
<1> USE DEF SourceKept, SourceIsSavedFirst, CellTypeOK, runVars, inputVars, kernelVars
<1>1. CASE UNCHANGED <<run, shell, completed>> /\ pc' \in {pc, "idle", "ending", "waiting", "opening"}
           /\ (pc = "idle" => pc' = "idle") /\ cells \subseteq cells' /\ notebook \subseteq notebook'
  BY <1>1
<1>2. CASE BeginRun
  BY <1>2, CellExecutionAssumption DEF BeginRun, Requests
<1>3. CASE Reconnecting
  <2>1. CASE ChannelOpens
    BY <2>1 DEF ChannelOpens
  <2> QED BY <1>1, <1>3, <2>1 DEF Reconnecting, FoundIdle, NotFoundIdle, ChannelFails, Refuse
<1>4. CASE SourceSaved
  BY <1>4 DEF SourceSaved
<1>5. CASE RequestSent
  <2>1. shell' = shell \/ Range(shell') = Range(shell) \union {run}
    BY <1>5, RangeAppend DEF RequestSent
  <2> QED BY <1>5, <2>1 DEF RequestSent
<1>6. CASE SourceNotSaved \/ RequestNotSent \/ TakeEnd
  BY <1>1, <1>6 DEF SourceNotSaved, Refuse, RequestNotSent, TakeEnd, Await, LeaveLoop
<1>7. CASE Taking
  BY <1>1, <1>7 DEF Taking, SkipEvent, TakePrompt, TakeOutcome, Await, LeaveLoop
<1>8. ASSUME NEW kept \in BOOLEAN, EndRun(kept) PROVE SourceKept'
  BY <1>8 DEF EndRun
<1>9. CASE Executing
  BY <1>4, <1>5, <1>6, <1>7, <1>8, <1>9 DEF Executing
<1>10. CASE OtherClientRuns
  <2>1. 0 \in Requests
    BY CellExecutionAssumption DEF Requests
  <2>2. Range(shell') = Range(shell) \union {0}
    BY <1>10, <2>1, RangeAppend DEF OtherClientRuns
  <2> QED BY <1>10, <2>2 DEF OtherClientRuns
<1>11. CASE KernelCompletes
  <2>1. Head(shell) \in Range(shell) /\ Range(shell') \subseteq Range(shell)
    BY <1>11, RangeTail DEF KernelCompletes
  <2>2. completed' \subseteq completed \union {Head(shell)}
    BY <1>11 DEF KernelCompletes
  <2> QED BY <1>11, <2>1, <2>2 DEF KernelCompletes
<1>12. CASE KernelRestarts
  <2>1. Range(shell') = {}
    BY <1>12 DEF KernelRestarts, Range
  <2> QED BY <1>12, <2>1 DEF KernelRestarts
<1>13. CASE UNCHANGED <<pc, run, cells, notebook, shell, completed>>
  BY <1>13
<1> QED BY <1>2, <1>3, <1>9, <1>10, <1>11, <1>12, <1>13
        DEF CellNext, Reading, ReaderReads, ReaderEnds, Replying, Claim, ReplySent, ReplyFails,
            InputDone, LinkLost, KernelAsks, Interrupt, cellVars

-----------------------------------------------------------------------------
(* Honest events stay honest, as no completed run is forgotten.            *)
LEMMA HonestGrows ==
    ASSUME completed \subseteq completed'
    PROVE  Honest \subseteq Honest'
  BY DEF Honest

(* A pair is a sequence over every set that has its two members.           *)
LEMMA PairIs ==
  ASSUME NEW S, NEW a \in S, NEW b \in S
  PROVE  <<a, b>> \in Seq(S) /\ Range(<<a, b>>) \subseteq S
<1>1. DOMAIN <<a, b>> = 1..2 /\ <<a, b>>[1] = a /\ <<a, b>>[2] = b
  OBVIOUS
<1> QED BY <1>1 DEF Range

(* The wire carries honest events, and an end of stream is in the queue    *)
(* only while the channel is closed.                                       *)
LEMMA StreamStep == CellTypeOK /\ StreamKept /\ [CellNext]_cellVars => StreamKept'
<1> SUFFICES ASSUME CellTypeOK, StreamKept, [CellNext]_cellVars PROVE StreamKept'
  OBVIOUS
<1> USE DEF StreamKept, EndIsCurrent, runVars, inputVars, kernelVars
<1>1. EndOfStream \notin Honest /\ wire \in Seq(Events) /\ events \in Seq(Events)
  BY DEF Honest, EndOfStream, Event, CellTypeOK
<1>2. CASE /\ UNCHANGED completed /\ Range(wire') \subseteq Range(wire)
           /\ Range(events') \subseteq Range(events)
           /\ chan' = chan \/ chan = "open" \/ chan' = "closed"
  BY <1>2 DEF Honest
<1>3. Range(<<>>) = {}
  BY DEF Range
<1>4. CASE Reconnecting
  <2>1. CASE ChannelOpens
    BY <1>3, <2>1 DEF ChannelOpens, FreshQueue, Honest
  <2>2. CASE ChannelFails
    BY <1>2, <1>3, <2>2 DEF ChannelFails, FreshQueue
  <2> QED BY <1>2, <1>4, <2>1, <2>2 DEF Reconnecting, FoundIdle, NotFoundIdle
<1>5. ASSUME NEW e, Await(e) PROVE Range(events') \subseteq Range(events)
  BY <1>1, <1>5, RangeTail DEF Await
<1>6. CASE Executing
  <2>1. CASE TakeEnd
    BY <1>2, <1>5, <2>1 DEF TakeEnd
  <2>2. CASE Taking
    BY <1>2, <1>5, <2>2 DEF Taking, SkipEvent, TakePrompt, TakeOutcome
  <2> QED BY <1>2, <1>6, <2>1, <2>2
          DEF Executing, SourceSaved, SourceNotSaved, RequestSent, RequestNotSent, EndRun
<1>7. CASE ReaderReads
  <2>1. Head(wire) \in Honest /\ Range(wire') \subseteq Range(wire) /\ Head(wire) \in Events
    BY <1>1, <1>7, RangeTail DEF ReaderReads
  <2>2. Range(events') \subseteq Range(events) \union {Head(wire)}
    BY <1>1, <1>7, <2>1, RangeAppend DEF ReaderReads
  <2> QED BY <1>1, <1>7, <2>1, <2>2 DEF ReaderReads, Honest
<1>8. CASE ReaderEnds
  <2>1. EndOfStream \in Events
    BY CellExecutionAssumption DEF EndOfStream, Event, Events, Requests
  <2>2. Range(events') \subseteq Range(events) \union {EndOfStream}
    BY <1>1, <1>8, <2>1, RangeAppend DEF ReaderEnds
  <2> QED BY <1>8, <2>2 DEF ReaderEnds, Honest
<1>9. CASE LinkLost
  <2>1. Range(wire') \subseteq Range(wire)
    BY <1>1, <1>9, RangePrefix DEF LinkLost
  <2> QED BY <1>2, <1>9, <2>1 DEF LinkLost
<1>10. CASE KernelAsks
  <2> DEFINE new == <<Event(Head(shell), "asks")>>
  <2>1. Head(shell) \in Requests
    BY <1>10, RangeTail DEF KernelAsks, CellTypeOK
  <2>2. new \in Seq(Events) /\ Range(new) \subseteq Honest
    BY <2>1 DEF Event, Events, Honest, Range
  <2>3. Range(wire') \subseteq Range(wire) \union Range(new)
    BY <1>1, <1>10, <2>2, EmittedAdds DEF KernelAsks
  <2> QED BY <1>10, <2>2, <2>3 DEF KernelAsks, Honest
<1>11. CASE KernelCompletes
  <2> DEFINE reply == Event(Head(shell), "reply")
             idle  == Event(Head(shell), "idle")
  <2>1. Head(shell) \in Requests
    BY <1>11, RangeTail DEF KernelCompletes, CellTypeOK
  <2>2. completed \subseteq completed' /\ Head(shell) \in completed' \union {0}
    BY <1>11 DEF KernelCompletes
  <2>3. reply \in Honest' /\ idle \in Honest' /\ reply \in Events /\ idle \in Events
    BY <2>1, <2>2 DEF Honest, Event, Events
  <2>4. ASSUME NEW new \in {<<reply, idle>>, <<idle, reply>>}
        PROVE  new \in Seq(Events) /\ Range(new) \subseteq Honest'
    <3>1. /\ <<reply, idle>> \in Seq(Events) /\ <<idle, reply>> \in Seq(Events)
          /\ Range(<<reply, idle>>) \subseteq Honest' /\ Range(<<idle, reply>>) \subseteq Honest'
      BY <2>3, PairIs
    <3> QED BY <3>1
  <2>5. \E new \in {<<reply, idle>>, <<idle, reply>>} : wire' = Emitted(new)
    BY <1>11 DEF KernelCompletes
  <2>6. Range(wire') \subseteq Range(wire) \union Honest'
    BY <1>1, <2>4, <2>5, EmittedAdds
  <2>7. Honest \subseteq Honest'
    BY <2>2, HonestGrows
  <2> QED BY <1>11, <2>6, <2>7 DEF KernelCompletes
<1>12. CASE UNCHANGED <<chan, events, wire, completed>>
  BY <1>12 DEF Honest
<1> QED BY <1>4, <1>6, <1>7, <1>8, <1>9, <1>10, <1>11, <1>12
        DEF CellNext, BeginRun, Reading, Replying, Claim, ReplySent, ReplyFails,
            InputDone, OtherClientRuns, KernelRestarts, Interrupt, cellVars

-----------------------------------------------------------------------------
(* What ends a run is its own outcome, and that of a completed run.        *)
LEMMA OutcomeStep ==
    CellTypeOK /\ SourceKept /\ StreamKept /\ OutcomeKept /\ [CellNext]_cellVars => OutcomeKept'
<1> SUFFICES ASSUME CellTypeOK, SourceKept, StreamKept, OutcomeKept, [CellNext]_cellVars
             PROVE  OutcomeKept'
  OBVIOUS
<1> USE DEF OutcomeKept, FinishedWasCompleted, runVars, inputVars, kernelVars
<1>1. CASE UNCHANGED <<pc, run, gotReply, gotIdle, fault, verdict>> /\ completed \subseteq completed'
  BY <1>1
<1>2. CASE UNCHANGED <<verdict, completed>> /\ pc' \in {"checking", "opening", "saving"}
  BY <1>2
<1>3. verdict \in [1..MaxRuns -> {"none", "refused", "finished", "unknown"}]
      /\ (pc # "idle" => run \in 1..MaxRuns)
  BY DEF CellTypeOK, SourceKept
<1>4. CASE Refuse /\ UNCHANGED completed
  BY <1>3, <1>4 DEF Refuse
<1>5. CASE BeginRun \/ Reconnecting
  BY <1>2, <1>4, <1>5 DEF BeginRun, Reconnecting, FoundIdle, NotFoundIdle, ChannelOpens, ChannelFails
<1>6. CASE SourceSaved \/ SourceNotSaved \/ RequestSent
  BY <1>4, <1>6 DEF SourceSaved, SourceNotSaved, RequestSent
<1>7. CASE RequestNotSent \/ TakeEnd
  BY <1>7, LeaveLoopEnds DEF RequestNotSent, TakeEnd
<1>8. ASSUME NEW e \in Events, TakeOutcome(e) PROVE OutcomeKept'
  <2>1. e \in Range(events) /\ pc = "waiting"
    BY <1>8, RangeTail DEF TakeOutcome, Await, CellTypeOK
  <2>2. e \in Honest /\ e.req = run
    BY <1>8, <2>1 DEF TakeOutcome, IsOurs, StreamKept, EndOfStream, Event
  <2>3. run \in completed
    BY <1>3, <1>8, <2>1, <2>2 DEF TakeOutcome, Honest
  <2> QED BY <1>8, <2>1, <2>3 DEF TakeOutcome, LeaveLoop
<1>9. ASSUME NEW kept \in BOOLEAN, EndRun(kept) PROVE OutcomeKept'
  BY <1>3, <1>9 DEF EndRun
<1>10. CASE Executing
  BY <1>1, <1>6, <1>7, <1>8, <1>9, <1>10 DEF Executing, Taking, SkipEvent, TakePrompt
<1> QED BY <1>1, <1>5, <1>10
        DEF CellNext, Reading, ReaderReads, ReaderEnds, Replying, Claim, ReplySent, ReplyFails,
            InputDone, LinkLost, OtherClientRuns, KernelAsks, KernelCompletes, KernelRestarts,
            Interrupt, cellVars

-----------------------------------------------------------------------------
(* IInv is an inductive invariant of cell execution.                       *)
THEOREM CellInvariance == CellSpec => []IInv
<1>1. CellInit => IInv
  <2> SUFFICES ASSUME CellInit PROVE IInv
    OBVIOUS
  <2>1. Range(<<>>) = {}
    BY DEF Range
  <2>2. SourceKept
    BY <2>1 DEF CellInit, SourceKept, SourceIsSavedFirst
  <2>3. StreamKept
    BY <2>1 DEF CellInit, StreamKept, EndIsCurrent
  <2>4. OutcomeKept
    BY DEF CellInit, OutcomeKept, FinishedWasCompleted
  <2> QED BY <2>2, <2>3, <2>4, TypeInit DEF IInv
<1>2. IInv /\ [CellNext]_cellVars => IInv'
  BY TypeStep, SourceStep, StreamStep, OutcomeStep DEF IInv
<1> QED BY <1>1, <1>2, PTL DEF CellSpec

(* Every variable of cell execution keeps its type; in particular the      *)
(* bridge is executing exactly while a request is sent and waited for.     *)
THEOREM CellTypeCorrect == CellSpec => []CellTypeOK
  BY CellInvariance, PTL DEF IInv

(* Whatever has reached the kernel is in the saved notebook.               *)
THEOREM SavedBeforeSent == CellSpec => []SourceIsSavedFirst
  BY CellInvariance, PTL DEF IInv, SourceKept

(* A run that is reported finished was completed by the kernel.            *)
THEOREM FinishedIsTrue == CellSpec => []FinishedWasCompleted
  BY CellInvariance, PTL DEF IInv, OutcomeKept

(* The end of one connection is never taken for the end of the next.       *)
THEOREM EndOfOneConnection == CellSpec => []EndIsCurrent
  BY CellInvariance, PTL DEF IInv, StreamKept
-----------------------------------------------------------------------------
(* What taking the head off a sequence leaves: all the others.             *)
LEMMA RangeIsHeadAndTail ==
    ASSUME NEW S, NEW s \in Seq(S), s # <<>>
    PROVE  Range(s) \subseteq {Head(s)} \union Range(Tail(s))
<1>1. Tail(s) \in Seq(S) /\ Len(Tail(s)) = Len(s) - 1
      /\ \A i \in 1..Len(Tail(s)) : Tail(s)[i] = s[i + 1]
  BY HeadTailProperties
<1>2. Len(s) \in Nat \ {0} /\ Head(s) = s[1]
  BY EmptySeq
<1>3. Range(s) = {s[i] : i \in 1..Len(s)}
      /\ Range(Tail(s)) = {Tail(s)[i] : i \in 1..Len(Tail(s))}
  BY <1>1, RangeEquality
<1>4. ASSUME NEW i \in 1..Len(s), i # 1 PROVE s[i] \in Range(Tail(s))
  <2>1. i - 1 \in 1..Len(Tail(s)) /\ (i - 1) + 1 = i
    BY <1>1, <1>2, <1>4
  <2> QED BY <1>1, <1>3, <2>1
<1> QED BY <1>2, <1>3, <1>4

(* What the kernel emits is on the wire, all of it, if the link is there.  *)
LEMMA EmittedArrives ==
    ASSUME NEW new \in Seq(Events), wire \in Seq(Events)
    PROVE  /\ Range(wire) \subseteq Range(Emitted(new))
           /\ chan = "open" => Range(new) \subseteq Range(Emitted(new))
  BY RangeConcat DEF Emitted

(* Where what execute waits for is, when it waits: nothing is in the way   *)
(* of an event between the kernel and the loop of execute.                 *)
LEMMA NothingIsLost ==
    ASSUME UNCHANGED <<pc, run, gotReply, gotIdle, kernelRestarts>>, chan' = chan,
           Range(events) \subseteq Range(events'),
           Range(wire) \subseteq Range(events') \union Range(wire'),
           Range(shell) \subseteq Range(shell') \/ OutcomeComes',
           WaitingIsForSomething
    PROVE  WaitingIsForSomething'
<1>1. ASSUME NEW kind PROVE OnItsWay(kind) => Event(run, kind) \in Range(events') \union Range(wire')
  BY DEF OnItsWay
<1>2. ASSUME NEW kind PROVE Event(run', kind) = Event(run, kind)
  BY DEF Event
<1>3. OutcomeComes => OutcomeComes'
  BY <1>1, <1>2 DEF OutcomeComes, OnItsWay
<1> QED BY <1>3 DEF WaitingIsForSomething

(* execute takes from the queue only what it records, or what is of no     *)
(* account to it.                                                          *)
LEMMA TakingKeepsTheRest ==
    ASSUME CellTypeOK, StreamKept, WaitingIsForSomething, NEW e \in Events,
           SkipEvent(e) \/ TakePrompt(e) \/ TakeOutcome(e)
    PROVE  WaitingIsForSomething'
<1> USE DEF runVars, inputVars, kernelVars
<1>1. /\ pc = "waiting" /\ e = Head(events) /\ events' = Tail(events)
      /\ UNCHANGED <<run, chan, wire, shell, kernelRestarts>>
  BY DEF SkipEvent, TakePrompt, TakeOutcome, Await
<1>2. Range(events) \subseteq {e} \union Range(events') /\ e \in Range(events)
  <2>1. events \in Seq(Events) /\ events # <<>>
    BY DEF CellTypeOK, SkipEvent, TakePrompt, TakeOutcome, Await
  <2> QED BY <1>1, <2>1, RangeIsHeadAndTail, RangeTail
<1>3. e # EndOfStream
  <2>1. EndOfStream.kind = "end"
    BY DEF EndOfStream, Event
  <2>2. TakePrompt(e) \/ TakeOutcome(e) => e.kind # "end"
    BY DEF TakePrompt, TakeOutcome
  <2> QED BY <2>1, <2>2 DEF SkipEvent
<1>4. chan' = "closed" => EndOfStream \in Range(events')
  BY <1>1, <1>2, <1>3 DEF WaitingIsForSomething
<1>5. ASSUME NEW kind \in {"reply", "idle"}, OnItsWay(kind), e # Event(run, kind)
      PROVE  OnItsWay(kind)'
  <2>1. Event(run', kind) = Event(run, kind)
    BY <1>1 DEF Event
  <2> QED BY <1>1, <1>2, <1>5, <2>1 DEF OnItsWay
<1>6. CASE SkipEvent(e) \/ TakePrompt(e)
  <2>1. e # Event(run, "reply") /\ e # Event(run, "idle") /\ UNCHANGED <<gotReply, gotIdle>>
    BY <1>6 DEF SkipEvent, TakePrompt, IsOurs, Event
  <2>2. OutcomeComes => OutcomeComes'
    BY <1>5, <2>1 DEF OutcomeComes
  <2> QED BY <1>1, <1>4, <2>2 DEF WaitingIsForSomething
<1>7. CASE TakeOutcome(e)
  <2>1. /\ e.kind = "reply" => gotReply'
        /\ e.kind = "idle" => gotIdle'
        /\ (gotReply => gotReply') /\ (gotIdle => gotIdle')
    BY <1>7 DEF TakeOutcome
  <2>2. Event(run, "reply").kind = "reply" /\ Event(run, "idle").kind = "idle"
    BY DEF Event
  <2>3. OutcomeComes => OutcomeComes'
    BY <1>5, <2>1, <2>2 DEF OutcomeComes
  <2> QED BY <1>1, <1>4, <2>3 DEF WaitingIsForSomething
<1> QED BY <1>6, <1>7

(* Every step keeps it: the kernel sends an outcome for whatever it takes  *)
(* off its shell while the channel is open, the reader forwards it because *)
(* execute is executing, and a reader that ends says so.                   *)
LEMMA WaitingStep ==
    CellTypeOK /\ StreamKept /\ WaitingIsForSomething /\ [CellNext]_cellVars => WaitingIsForSomething'
<1> SUFFICES ASSUME CellTypeOK, StreamKept, WaitingIsForSomething, [CellNext]_cellVars
             PROVE  WaitingIsForSomething'
  OBVIOUS
<1> USE DEF runVars, inputVars, kernelVars
<1>1. wire \in Seq(Events) /\ events \in Seq(Events) /\ shell \in Seq(Requests)
      /\ (pc = "waiting" => executing)
  BY DEF CellTypeOK
<1>2. CASE pc' # "waiting"
  BY <1>2 DEF WaitingIsForSomething
<1>3. CASE UNCHANGED <<pc, run, gotReply, gotIdle, kernelRestarts, chan, events, wire, shell>>
  BY <1>3, NothingIsLost
<1>4. CASE UNCHANGED <<pc, run, gotReply, gotIdle>> /\ (chan' = "broken" \/ (kernelRestarts' > 0 /\ UNCHANGED <<chan, events>>))
  BY <1>4 DEF WaitingIsForSomething
<1>5. CASE BeginRun \/ Reconnecting
  BY <1>2, <1>5 DEF BeginRun, Reconnecting, FoundIdle, NotFoundIdle, ChannelOpens, ChannelFails, Refuse
<1>6. CASE RequestSent
  <2>1. chan = "open" => run \in Range(shell')
    <3>1. run \in Requests
      BY DEF CellTypeOK
    <3> QED BY <1>1, <1>6, <3>1, RangeAppend DEF RequestSent
  <2> QED BY <1>6, <2>1 DEF RequestSent, WaitingIsForSomething
<1>7. CASE Executing
  BY <1>2, <1>6, <1>7, TakingKeepsTheRest, LeaveLoopEnds
     DEF Executing, SourceSaved, SourceNotSaved, RequestNotSent, TakeEnd, Taking, EndRun, Refuse
<1>8. CASE ReaderReads /\ pc = "waiting"
  <2>1. Range(wire) \subseteq {Head(wire)} \union Range(wire') /\ Head(wire) \in Events
    BY <1>1, <1>8, RangeIsHeadAndTail, RangeTail DEF ReaderReads
  <2>2. Range(events') = Range(events) \union {Head(wire)}
    BY <1>1, <1>8, <2>1, RangeAppend DEF ReaderReads
  <2> QED BY <1>8, <2>1, <2>2, NothingIsLost DEF ReaderReads
<1>9. CASE ReaderEnds /\ pc = "waiting"
  <2>1. EndOfStream \in Events
    BY CellExecutionAssumption DEF EndOfStream, Event, Events, Requests
  <2>2. EndOfStream \in Range(events')
    BY <1>1, <1>9, <2>1, RangeAppend DEF ReaderEnds
  <2> QED BY <1>9, <2>2 DEF ReaderEnds, WaitingIsForSomething
<1>10. CASE LinkLost
  BY <1>4, <1>10 DEF LinkLost
<1>11. CASE OtherClientRuns
  <2>1. Range(shell) \subseteq Range(shell')
    <3>1. 0 \in Requests
      BY CellExecutionAssumption DEF Requests
    <3> QED BY <1>1, <1>11, <3>1, RangeAppend DEF OtherClientRuns
  <2> QED BY <1>11, <2>1, NothingIsLost DEF OtherClientRuns
<1>12. CASE KernelAsks
  <2>1. Head(shell) \in Requests
    BY <1>1, <1>12, RangeTail DEF KernelAsks
  <2>2. <<Event(Head(shell), "asks")>> \in Seq(Events)
    BY <2>1 DEF Event, Events
  <2>3. Range(wire) \subseteq Range(wire')
    BY <1>1, <1>12, <2>2, EmittedArrives DEF KernelAsks
  <2> QED BY <1>12, <2>3, NothingIsLost DEF KernelAsks
<1>13. CASE KernelCompletes
  <2> DEFINE reply == Event(Head(shell), "reply")
             idle  == Event(Head(shell), "idle")
  <2>1. Head(shell) \in Requests /\ Range(shell) \subseteq {Head(shell)} \union Range(shell')
    BY <1>1, <1>13, RangeIsHeadAndTail, RangeTail DEF KernelCompletes
  <2>2. reply \in Events /\ idle \in Events
    BY <2>1 DEF Event, Events
  <2>3. ASSUME NEW new \in {<<reply, idle>>, <<idle, reply>>}
        PROVE  new \in Seq(Events) /\ {reply, idle} \subseteq Range(new)
    <3>1. new \in Seq(Events) /\ Len(new) = 2
      <4> HIDE DEF reply, idle
      <4>1. CASE new = <<reply, idle>>
        BY <2>2, <4>1
      <4>2. CASE new = <<idle, reply>>
        BY <2>2, <4>2
      <4> QED BY <4>1, <4>2
    <3>2. {reply, idle} = {new[1], new[2]} /\ 1 \in 1..Len(new) /\ 2 \in 1..Len(new)
      BY <2>3, <3>1
    <3>3. Range(new) = {new[i] : i \in 1..Len(new)}
      BY <3>1, RangeEquality
    <3> QED BY <3>1, <3>2, <3>3
  <2>4. \E new \in {<<reply, idle>>, <<idle, reply>>} : wire' = Emitted(new)
    BY <1>13 DEF KernelCompletes
  <2>5. Range(wire) \subseteq Range(wire') /\ (chan = "open" => {reply, idle} \subseteq Range(wire'))
    BY <1>1, <2>3, <2>4, EmittedArrives
  <2>6. UNCHANGED <<pc, run, gotReply, gotIdle, kernelRestarts, chan, events>>
    BY <1>13 DEF KernelCompletes
  <2>7. CASE Head(shell) = run /\ chan = "open"
    <3>1. Event(run', "reply") = reply /\ Event(run', "idle") = idle
      BY <2>6, <2>7 DEF Event
    <3>2. OutcomeComes'
      BY <2>5, <2>7, <3>1 DEF OutcomeComes, OnItsWay
    <3> HIDE DEF reply, idle
    <3> QED BY <2>5, <2>6, <3>2, NothingIsLost
  <2>8. CASE Head(shell) # run /\ chan = "open"
    <3>1. run \in Range(shell) => run' \in Range(shell')
      BY <2>1, <2>6, <2>8
    <3>2. OutcomeComes => OutcomeComes'
      <4>1. ASSUME NEW kind PROVE OnItsWay(kind) => OnItsWay(kind)'
        <5>1. Event(run', kind) = Event(run, kind)
          BY <2>6 DEF Event
        <5> QED BY <2>5, <2>6, <5>1 DEF OnItsWay
      <4> QED BY <2>6, <4>1 DEF OutcomeComes
    <3> QED BY <2>6, <2>8, <3>1, <3>2 DEF WaitingIsForSomething
  <2>9. CASE chan # "open"
    BY <2>6, <2>9 DEF WaitingIsForSomething
  <2> QED BY <2>7, <2>8, <2>9
<1>14. CASE KernelRestarts
  <2>1. kernelRestarts' > 0
    BY <1>14, CellExecutionAssumption DEF KernelRestarts, CellTypeOK
  <2> QED BY <1>4, <1>14, <2>1 DEF KernelRestarts
<1>15. CASE Reading /\ pc # "waiting"
  BY <1>2, <1>15 DEF Reading, ReaderReads, ReaderEnds
<1> QED BY <1>3, <1>5, <1>7, <1>8, <1>9, <1>10, <1>11, <1>12, <1>13, <1>14, <1>15
        DEF CellNext, Reading, Replying, Claim, ReplySent, ReplyFails, InputDone, Interrupt, cellVars

(* The loop of execute, which has no timeout, waits only for what is still *)
(* to come: for any number of losses, prompts and other clients.           *)
THEOREM WaitsForSomething == CellSpec => []WaitingIsForSomething
<1>1. CellInit => WaitingIsForSomething
  BY DEF CellInit, WaitingIsForSomething
<1>2. IInv /\ WaitingIsForSomething /\ [CellNext]_cellVars => WaitingIsForSomething'
  BY WaitingStep DEF IInv
<1> QED BY <1>1, <1>2, CellInvariance, PTL DEF CellSpec
=============================================================================
