---------------------------- MODULE GatewayProofs ----------------------------
(***************************************************************************)
(* The safety of the hosted gateway for any number of requests in progress, *)
(* keys, applications, groups and changes: what the locks of its            *)
(* transactions keep true, and that it implements the ledger.               *)
(***************************************************************************)
EXTENDS Gateway, FiniteSetTheorems, TLAPS

\* A request in progress asks for something, and stops what is there.
RequestsKept ==
    \A r \in Requests : pc[r] # "idle" =>
        /\ request[r].key \in Keys /\ request[r].body \in Bodies
        /\ request[r].body.op = "stop" => workspaces[request[r].body.of] # Absent

\* The requests that may still draw a number: each has its arrival to show for it.
Undrawn == {r \in Requests : pc[r] \notin {"idle", "closing"}}
NumbersSuffice == IsFiniteSet(Undrawn) /\ nextSeq + Cardinality(Undrawn) <= arrivals

\* What each lock excludes, as long as it is held: another holder of the key, the
\* user's row, the application or the workspace; and a change of the membership.
LocksKept ==
    /\ \A r \in Requests : HoldsKey(r) => keys[request[r].key] = Open
    /\ \A r, s \in Requests : r # s /\ HoldsKey(r) /\ HoldsKey(s)
            => request[r].key # request[s].key
    /\ \A r, s \in Requests : pc[r] = "syncing" => ~HoldsKey(s)
    /\ \A r \in Requests : pc[r] = "locked" => Creates(r) /\ Member
    /\ \A r, s \in Requests, a \in Apps : r # s => ~(HoldsApp(r, a) /\ HoldsApp(s, a))
    /\ \A r, s \in Requests :
            r # s /\ pc[r] = "closing" /\ pc[s] = "closing" /\ draft[r].ws # 0
            => draft[r].ws # draft[s].ws

\* A workspace is not there yet, or ready, or stopped once; numbers not drawn name none.
RowsKept ==
    \A w \in Seqs :
        /\ \/ workspaces[w] = Absent
           \/ workspaces[w].app \in Apps /\ workspaces[w].state = "ready" /\ workspaces[w].version = 1
           \/ workspaces[w].app \in Apps /\ workspaces[w].state = "stopped" /\ workspaces[w].version = 2
        /\ w > nextSeq => workspaces[w] = Absent

\* What a transaction has read and will answer is still so when it commits.
CreateHolds(r) ==
    LET d == draft[r]  a == request[r].body.of IN
    \/ d.status = 403 /\ d.ws = 0 /\ d.seq = 0
    \/ d.status = 409 /\ d.ws \in ActiveOf(a) /\ d.seq = 0 /\ Member
    \/ /\ d.status = 201 /\ d.ws \in 1..nextSeq /\ d.seq = d.ws /\ Member
       /\ ActiveOf(a) = {} /\ workspaces[d.ws] = Absent
StopHolds(r) ==
    LET d == draft[r]  w == request[r].body.of IN
    \/ d.status = 404 /\ d.ws = 0 /\ d.seq = 0 /\ ~Member
    \/ d.status = 202 /\ d.ws = w /\ d.seq = 0 /\ Member /\ workspaces[w].state = "stopped"
    \/ d.status = 202 /\ d.ws = w /\ d.seq \in 1..nextSeq /\ Member /\ workspaces[w].state = "ready"
DraftsKept ==
    \A r \in Requests : pc[r] = "closing" =>
        /\ Creates(r) => CreateHolds(r)
        /\ request[r].body.op = "stop" => StopHolds(r)
        /\ request[r].body.op = "cancel" => draft[r] = [status |-> 503, ws |-> 0, seq |-> 0]
        /\ draft[r].seq # 0 => \A e \in events : e.ws = draft[r].ws => e.seq < draft[r].seq

\* Events tell of workspaces that are there, under numbers that were drawn.
EventsKept ==
    /\ \A e \in events : e.seq <= nextSeq /\ workspaces[e.ws] # Absent
    /\ LastEventTellsState

\* What was answered and done with a key is what is stored with it.
AnswersKept ==
    /\ \A t \in told : keys[t.key] = [body |-> t.body, status |-> t.status, ws |-> t.ws]
    /\ \A x \in effects : keys[x[1]] # Open
    /\ OneEffectPerKey

\* The membership is that of the groups the digest was taken of, once it was taken.
DigestKept ==
    snapshot.selected # {<<>>} =>
        granted = IF direct = 0 THEN Highest(snapshot.selected) ELSE 0

IInv ==
    /\ TypeOK /\ RequestsKept /\ NumbersSuffice /\ LocksKept /\ RowsKept /\ DraftsKept
    /\ EventsKept /\ OneActivePerApp /\ AnswersKept /\ DigestKept
-----------------------------------------------------------------------------
\* What a request may ask for.
LEMMA BodyCases ==
    ASSUME NEW b \in Bodies
    PROVE  /\ b # NoBody /\ b = [op |-> b.op, of |-> b.of]
           /\ b.op \in {"create", "stop", "cancel"}
           /\ b.op = "create" => b.of \in Apps
           /\ b.op = "stop" => b.of \in Seqs
           /\ b.op = "cancel" => b.of = NoApp
  BY DEF Bodies, NoBody

\* The highest of some roles is one of them.
LEMMA HighestIsARole ==
    ASSUME NEW sel, \A p \in sel : p[2] \in 1..6
    PROVE  Highest(sel) \in 0..6
<1> DEFINE Top(n) == (\E p \in sel : p[2] = n) /\ \A p \in sel : p[2] <= n
<1>1. CASE sel = {}
  BY <1>1 DEF Highest
<1>2. CASE sel # {}
  <2>1. PICK q \in sel : TRUE
    BY <1>2
  <2>2. \E n \in 1..6 : Top(n)
    <3>1. ASSUME \A p \in sel : p[2] <= 1 PROVE Top(1)
      BY <2>1, <3>1
    <3>2. ASSUME \A p \in sel : p[2] <= 2, ~\A p \in sel : p[2] <= 1 PROVE Top(2)
      BY <3>2
    <3>3. ASSUME \A p \in sel : p[2] <= 3, ~\A p \in sel : p[2] <= 2 PROVE Top(3)
      BY <3>3
    <3>4. ASSUME \A p \in sel : p[2] <= 4, ~\A p \in sel : p[2] <= 3 PROVE Top(4)
      BY <3>4
    <3>5. ASSUME \A p \in sel : p[2] <= 5, ~\A p \in sel : p[2] <= 4 PROVE Top(5)
      BY <3>5
    <3>6. ASSUME ~\A p \in sel : p[2] <= 5 PROVE Top(6)
      BY <3>6
    <3> HIDE DEF Top
    <3> QED BY <3>1, <3>2, <3>3, <3>4, <3>5, <3>6
  <2>3. Highest(sel) = CHOOSE n \in 1..6 : Top(n)
    BY <1>2 DEF Highest
  <2> HIDE DEF Top
  <2> QED BY <2>2, <2>3
<1> QED BY <1>1, <1>2

\* What is provisioned are pairs of a group and a role.
LEMMA ProvisionedRoles ==
    ASSUME NEW p \in UNION Provisions
    PROVE  p # <<>> /\ p[2] \in 1..6
<1>1. p = <<p[1], p[2]>> /\ p[2] \in 1..6
  BY GatewayAssumption
<1>2. <<p[1], p[2]>> # <<>>
  OBVIOUS
<1> QED BY <1>1, <1>2

-----------------------------------------------------------------------------
\* A request that ends leaves its place as it found it.
LEMMA EndTyped ==
    ASSUME TypeOK, NEW r \in Requests, End(r)
    PROVE  /\ pc' \in [Requests -> {"idle", "arrived", "syncing", "admitted", "claiming",
                                    "claimed", "locked", "closing"}]
           /\ request' \in [Requests -> [key : Keys \cup {0}, body : Bodies \cup {NoBody},
                                         claims : Claims \cup {{}}]]
           /\ draft' \in [Requests -> [status : Nat, ws : 0..MaxArrivals, seq : 0..MaxArrivals]]
<1>1. NoRequest \in [key : Keys \cup {0}, body : Bodies \cup {NoBody}, claims : Claims \cup {{}}]
  BY DEF NoRequest
<1>2. NoDraft \in [status : Nat, ws : 0..MaxArrivals, seq : 0..MaxArrivals]
  BY GatewayAssumption DEF NoDraft
<1> QED BY <1>1, <1>2 DEF End, Goto, TypeOK

\* A draft of the right types keeps the types of all of them.
LEMMA WriteTyped ==
    ASSUME TypeOK, NEW r \in Requests, NEW status \in Nat, NEW w \in 0..MaxArrivals,
           NEW seq \in 0..MaxArrivals, Write(r, status, w, seq)
    PROVE  draft' \in [Requests -> [status : Nat, ws : 0..MaxArrivals, seq : 0..MaxArrivals]]
  BY DEF Write, TypeOK

\* A number can be drawn as long as a request is there that has drawn none.
LEMMA NumberIsLeft ==
    ASSUME TypeOK, NumbersSuffice, NEW r \in Requests, pc[r] \notin {"idle", "closing"}
    PROVE  nextSeq + 1 \in Seqs /\ nextSeq + 1 <= arrivals
<1>1. Undrawn # {}
  BY DEF Undrawn
<1>2. Cardinality(Undrawn) \in Nat /\ Cardinality(Undrawn) # 0
  BY <1>1, FS_CardinalityType, FS_EmptySet DEF NumbersSuffice
<1> QED BY <1>2, GatewayAssumption DEF TypeOK, NumbersSuffice, Seqs

\* Types at the start.
LEMMA TypeInit == Init => TypeOK
<1> SUFFICES ASSUME Init PROVE TypeOK
  OBVIOUS
<1>1. direct \in 0..6 /\ granted \in 0..6 /\ groups \in Claims /\ mapping \in Provisions
  BY GatewayAssumption DEF Init
<1>2. /\ 0 \in 0..MaxArrivals /\ 0 \in 0..MaxChanges /\ 0 \in Nat /\ 0 \in 0..0
  BY GatewayAssumption
<1>3. keys \in [Keys -> [body : Bodies \cup {NoBody}, status : Nat, ws : 0..MaxArrivals]]
  BY <1>2 DEF Init, Open
<1>4. workspaces \in [Seqs -> [app : Apps \cup {NoApp},
                               state : {"absent", "ready", "stopped"}, version : 0..2]]
  BY DEF Init, Absent
<1>5. pc \in [Requests -> {"idle", "arrived", "syncing", "admitted", "claiming", "claimed",
                           "locked", "closing"}]
  BY DEF Init
<1>6. request \in [Requests -> [key : Keys \cup {0}, body : Bodies \cup {NoBody},
                                claims : Claims \cup {{}}]]
  BY DEF Init, NoRequest
<1>7. draft \in [Requests -> [status : Nat, ws : 0..MaxArrivals, seq : 0..MaxArrivals]]
  BY <1>2 DEF Init, NoDraft
<1>8. read \in [Requests -> SUBSET UNION Provisions]
  BY DEF Init
<1>9. events = {} /\ got = {} /\ told = {} /\ effects = {} /\ seen = 0 /\ nextSeq = 0
      /\ arrivals = 0 /\ changes = 0
  BY DEF Init
<1> QED BY <1>1, <1>2, <1>3, <1>4, <1>5, <1>6, <1>7, <1>8, <1>9 DEF TypeOK
\* A commit writes nothing, makes a workspace that was not there, or stops a ready one.
CommitNothing(r) == draft[r].seq = 0 /\ UNCHANGED <<workspaces, events, effects>>
CommitRow(r, row) ==
    LET d == draft[r] IN
    /\ d.seq \in Seqs /\ d.ws \in Seqs /\ d.seq <= nextSeq
    /\ workspaces' = [workspaces EXCEPT ![d.ws] = row]
    /\ events' = events \cup {[seq |-> d.seq, ws |-> d.ws, state |-> row.state]}
    /\ effects' = effects \cup {<<request[r].key, d.seq>>}
CommitMakes(r) ==
    LET d == draft[r]  a == request[r].body.of IN
    /\ request[r].body.op = "create" /\ a \in Apps /\ ActiveOf(a) = {}
    /\ d.ws = d.seq /\ workspaces[d.ws] = Absent
    /\ CommitRow(r, [app |-> a, state |-> "ready", version |-> 1])
CommitStops(r) ==
    LET old == workspaces[draft[r].ws] IN
    /\ old.app \in Apps /\ old.state = "ready" /\ old.version = 1
    /\ CommitRow(r, [app |-> old.app, state |-> "stopped", version |-> 2])

\* A commit writes no workspace, makes one, or stops one that is ready.
LEMMA CommitRows ==
    ASSUME TypeOK, RequestsKept, RowsKept, DraftsKept, NEW r \in Requests, Commit(r)
    PROVE  /\ pc[r] = "closing" /\ request[r].key \in Keys /\ request[r].body \in Bodies
           /\ CommitNothing(r) \/ CommitMakes(r) \/ CommitStops(r)
<1> DEFINE d == draft[r]  b == request[r].body
<1>1. pc[r] = "closing" /\ request[r].key \in Keys /\ b \in Bodies
  BY DEF Commit, RequestsKept
<1>2. /\ d.ws \in 0..MaxArrivals /\ d.seq \in 0..MaxArrivals
      /\ nextSeq \in 0..arrivals /\ arrivals \in 0..MaxArrivals
  BY DEF TypeOK
<1>3. /\ b.op = "create" => CreateHolds(r)
      /\ b.op = "stop" => StopHolds(r)
      /\ b.op = "cancel" => d.seq = 0
  BY <1>1 DEF DraftsKept, Creates
<1>4. b.op \in {"create", "stop", "cancel"} /\ (b.op = "create" => b.of \in Apps)
      /\ (b.op = "stop" => b.of \in Seqs)
  BY <1>1, BodyCases
<1>5. CASE d.seq = 0
  BY <1>1, <1>5 DEF Commit, Applied, CommitNothing
<1>6. CASE d.seq # 0 /\ b.op = "create"
  <2>1. /\ d.seq \in Seqs /\ d.ws \in Seqs /\ d.ws = d.seq /\ d.seq <= nextSeq
        /\ ActiveOf(b.of) = {} /\ workspaces[d.ws] = Absent
    BY <1>2, <1>3, <1>6, GatewayAssumption DEF CreateHolds, Seqs
  <2> DEFINE new == [app |-> b.of, state |-> "ready", version |-> 1]
  <2>2. workspaces' = [workspaces EXCEPT ![d.ws] = new]
    BY <1>6 DEF Commit, Applied, Creates
  <2>3. workspaces'[d.ws] = new
    BY <2>1, <2>2 DEF TypeOK
  <2>4. /\ events' = events \cup {[seq |-> d.seq, ws |-> d.ws, state |-> new.state]}
        /\ effects' = effects \cup {<<request[r].key, d.seq>>}
    BY <1>6, <2>3 DEF Commit
  <2> QED BY <1>1, <1>4, <1>6, <2>1, <2>2, <2>4 DEF CommitMakes, CommitRow
<1>7. CASE d.seq # 0 /\ b.op = "stop"
  <2>1. /\ d.seq \in Seqs /\ d.ws \in Seqs /\ d.seq <= nextSeq /\ d.ws = b.of
        /\ workspaces[d.ws].state = "ready"
    BY <1>2, <1>3, <1>4, <1>7, GatewayAssumption DEF StopHolds, Seqs
  <2>2. workspaces[d.ws].app \in Apps /\ workspaces[d.ws].version = 1
    BY <2>1 DEF RowsKept, Absent
  <2> DEFINE new == [app |-> workspaces[d.ws].app, state |-> "stopped", version |-> 2]
  <2>3. workspaces' = [workspaces EXCEPT ![d.ws] = new]
    <3>1. workspaces' = Applied(r) /\ ~Creates(r)
      BY <1>7 DEF Commit, Creates
    <3>2. Applied(r) = [workspaces EXCEPT ![d.ws] = [app |-> workspaces[d.ws].app,
                            state |-> "stopped", version |-> workspaces[d.ws].version + 1]]
      BY <1>7, <3>1 DEF Applied
    <3> QED BY <2>2, <3>1, <3>2
  <2>4. workspaces'[d.ws] = new
    BY <2>1, <2>3 DEF TypeOK
  <2>5. /\ events' = events \cup {[seq |-> d.seq, ws |-> d.ws, state |-> new.state]}
        /\ effects' = effects \cup {<<request[r].key, d.seq>>}
    BY <1>7, <2>4 DEF Commit
  <2> QED BY <1>1, <2>1, <2>2, <2>3, <2>5 DEF CommitStops, CommitRow
<1> QED BY <1>1, <1>3, <1>4, <1>5, <1>6, <1>7

\* What a commit writes has the types of the tables.
LEMMA CommitTyped ==
    ASSUME TypeOK, RequestsKept, RowsKept, DraftsKept, NEW r \in Requests, Commit(r)
    PROVE  /\ workspaces' \in [Seqs -> [app : Apps \cup {NoApp},
                                        state : {"absent", "ready", "stopped"}, version : 0..2]]
           /\ events' \subseteq [seq : Seqs, ws : Seqs, state : {"ready", "stopped"}]
           /\ effects' \subseteq Keys \X Seqs
<1>1. ASSUME NEW row \in [app : Apps \cup {NoApp}, state : {"absent", "ready", "stopped"},
                          version : 0..2],
             row.state \in {"ready", "stopped"}, CommitRow(r, row), request[r].key \in Keys
      PROVE  /\ workspaces' \in [Seqs -> [app : Apps \cup {NoApp},
                                          state : {"absent", "ready", "stopped"}, version : 0..2]]
             /\ events' \subseteq [seq : Seqs, ws : Seqs, state : {"ready", "stopped"}]
             /\ effects' \subseteq Keys \X Seqs
  <2>1. /\ draft[r].seq \in Seqs /\ draft[r].ws \in Seqs
        /\ workspaces' = [workspaces EXCEPT ![draft[r].ws] = row]
        /\ events' = events \cup {[seq |-> draft[r].seq, ws |-> draft[r].ws, state |-> row.state]}
        /\ effects' = effects \cup {<<request[r].key, draft[r].seq>>}
    BY <1>1 DEF CommitRow
  <2>2. [seq |-> draft[r].seq, ws |-> draft[r].ws, state |-> row.state]
            \in [seq : Seqs, ws : Seqs, state : {"ready", "stopped"}]
    BY <1>1, <2>1
  <2> QED BY <1>1, <2>1, <2>2 DEF TypeOK
<1>2. request[r].key \in Keys /\ (CommitNothing(r) \/ CommitMakes(r) \/ CommitStops(r))
  BY CommitRows
<1>3. CASE CommitNothing(r)
  BY <1>3 DEF CommitNothing, TypeOK
<1>4. CASE CommitMakes(r)
  <2> DEFINE row == [app |-> request[r].body.of, state |-> "ready", version |-> 1]
  <2>1. request[r].body.of \in Apps /\ CommitRow(r, row)
    BY <1>4 DEF CommitMakes
  <2>2. /\ row \in [app : Apps \cup {NoApp}, state : {"absent", "ready", "stopped"}, version : 0..2]
        /\ row.state \in {"ready", "stopped"}
    BY <2>1
  <2> HIDE DEF row
  <2> QED BY <1>1, <1>2, <2>1, <2>2
<1>5. CASE CommitStops(r)
  <2> DEFINE row == [app |-> workspaces[draft[r].ws].app, state |-> "stopped", version |-> 2]
  <2>1. workspaces[draft[r].ws].app \in Apps /\ CommitRow(r, row)
    BY <1>5 DEF CommitStops
  <2>2. /\ row \in [app : Apps \cup {NoApp}, state : {"absent", "ready", "stopped"}, version : 0..2]
        /\ row.state \in {"ready", "stopped"}
    BY <2>1
  <2> HIDE DEF row
  <2> QED BY <1>1, <1>2, <2>1, <2>2
<1> QED BY <1>2, <1>3, <1>4, <1>5

\* Every statement keeps the types.
LEMMA TypeStep ==
    TypeOK /\ RequestsKept /\ NumbersSuffice /\ RowsKept /\ DraftsKept /\ [Next]_vars => TypeOK'
<1> SUFFICES ASSUME TypeOK, RequestsKept, NumbersSuffice, RowsKept, DraftsKept, [Next]_vars
             PROVE  TypeOK'
  OBVIOUS
<1> USE DEF TypeOK, tables, stream
<1>1. 0 \in 0..MaxArrivals /\ MaxArrivals \in Nat /\ MaxChanges \in Nat
  BY GatewayAssumption
<1>2. ASSUME NEW r \in Requests, NEW k \in Keys, NEW body \in Bodies, Arrive(r, k, body)
      PROVE  TypeOK'
  <2>1. [key |-> k, body |-> body, claims |-> groups]
            \in [key : Keys \cup {0}, body : Bodies \cup {NoBody}, claims : Claims \cup {{}}]
    OBVIOUS
  <2>2. request' \in [Requests -> [key : Keys \cup {0}, body : Bodies \cup {NoBody},
                                   claims : Claims \cup {{}}]]
    BY <1>2, <2>1 DEF Arrive
  <2>3. arrivals' \in 0..MaxArrivals /\ nextSeq' \in 0..arrivals'
    BY <1>1, <1>2 DEF Arrive
  <2>4. pc' \in [Requests -> {"idle", "arrived", "syncing", "admitted", "claiming", "claimed",
                              "locked", "closing"}]
    BY <1>2 DEF Arrive, Goto
  <2> QED BY <1>2, <2>2, <2>3, <2>4 DEF Arrive
<1>3. ASSUME NEW r \in Requests, ReadMapping(r) PROVE TypeOK'
  <2>1. Selected(request[r].claims, mapping) \in SUBSET UNION Provisions
    BY DEF Selected
  <2>2. read' \in [Requests -> SUBSET UNION Provisions]
    BY <1>3, <2>1 DEF ReadMapping
  <2>3. pc' \in [Requests -> {"idle", "arrived", "syncing", "admitted", "claiming", "claimed",
                              "locked", "closing"}]
    BY <1>3 DEF ReadMapping, Goto
  <2> QED BY <1>3, <2>2, <2>3 DEF ReadMapping
<1>4. ASSUME NEW r \in Requests, Synchronise(r) PROVE TypeOK'
  <2>1. \A p \in read[r] : p[2] \in 1..6
    BY ProvisionedRoles
  <2>2. granted' \in 0..6
    BY <1>4, <2>1, HighestIsARole DEF Synchronise, Granted
  <2>3. read' \in [Requests -> SUBSET UNION Provisions]
    BY <1>4 DEF Synchronise
  <2>4. pc' \in [Requests -> {"idle", "arrived", "syncing", "admitted", "claiming", "claimed",
                              "locked", "closing"}]
    BY <1>4 DEF Synchronise, Goto
  <2> QED BY <1>4, <2>2, <2>3, <2>4 DEF Synchronise
<1>5. ASSUME NEW r \in Requests, Begin(r) \/ Claim(r) \/ Lock(r) PROVE TypeOK'
  <2>1. pc' \in [Requests -> {"idle", "arrived", "syncing", "admitted", "claiming", "claimed",
                              "locked", "closing"}]
    BY <1>5 DEF Begin, Claim, Lock, Goto
  <2> QED BY <1>5, <2>1 DEF Begin, Claim, Lock
<1>6. ASSUME NEW r \in Requests, TurnAway(r) \/ Abort(r) PROVE TypeOK'
  <2>1. read' \in [Requests -> SUBSET UNION Provisions]
    BY <1>6 DEF TurnAway, Abort
  <2>2. End(r) /\ UNCHANGED <<groups, tables, stream, arrivals, changes, told, effects>>
    BY <1>6 DEF TurnAway, Abort
  <2> QED BY <2>1, <2>2, EndTyped
<1>7. ASSUME NEW r \in Requests, Replay(r) PROVE TypeOK'
  <2>1. request[r].key \in Keys /\ request[r].body \in Bodies
    BY <1>7 DEF Replay, RequestsKept
  <2>2. told' \subseteq [key : Keys, body : Bodies, status : Nat, ws : 0..MaxArrivals]
    BY <1>7, <2>1 DEF Replay, Tell
  <2>3. End(r) /\ UNCHANGED <<groups, tables, read, stream, arrivals, changes, effects>>
    BY <1>7 DEF Replay
  <2> QED BY <2>2, <2>3, EndTyped
<1>8. ASSUME NEW r \in Requests, Goto(r, "closing"),
             NEW status \in Nat, NEW w \in 0..MaxArrivals, NEW seq \in 0..MaxArrivals,
             Write(r, status, w, seq), nextSeq' \in 0..arrivals,
             UNCHANGED <<groups, mapping, direct, granted, snapshot, keys, workspaces, events,
                         request, read, stream, arrivals, changes, told, effects>>
      PROVE  TypeOK'
  <2>1. pc' \in [Requests -> {"idle", "arrived", "syncing", "admitted", "claiming", "claimed",
                              "locked", "closing"}]
    BY <1>8 DEF Goto
  <2>2. draft' \in [Requests -> [status : Nat, ws : 0..MaxArrivals, seq : 0..MaxArrivals]]
    BY <1>8, WriteTyped
  <2> QED BY <1>8, <2>1, <2>2
<1>9. ASSUME NEW r \in Requests, Forbid(r) \/ Decline(r) PROVE TypeOK'
  BY <1>1, <1>8, <1>9 DEF Forbid, Decline
<1>10. ASSUME NEW r \in Requests, FindExisting(r) PROVE TypeOK'
  <2>1. PICK w \in ActiveOf(request[r].body.of) : Write(r, 409, w, 0)
    BY <1>10 DEF FindExisting
  <2>2. w \in 0..MaxArrivals
    BY <1>1 DEF ActiveOf, Seqs
  <2> QED BY <1>1, <1>8, <1>10, <2>1, <2>2 DEF FindExisting
<1>11. ASSUME NEW r \in Requests, pc[r] \notin {"idle", "closing"}
       PROVE  nextSeq + 1 \in 0..MaxArrivals /\ nextSeq + 1 \in 0..arrivals
  BY <1>1, <1>11, NumberIsLeft DEF Seqs
<1>12. ASSUME NEW r \in Requests, Insert(r) PROVE TypeOK'
  BY <1>8, <1>11, <1>12 DEF Insert
<1>13. ASSUME NEW r \in Requests, SelectToStop(r) PROVE TypeOK'
  <2>1. request[r].body.of \in 0..MaxArrivals
    BY <1>1, <1>13, BodyCases DEF SelectToStop, RequestsKept, Seqs
  <2>2. nextSeq + 1 \in 0..MaxArrivals /\ nextSeq + 1 \in 0..arrivals
    BY <1>11, <1>13 DEF SelectToStop
  <2> QED BY <1>1, <1>8, <1>13, <2>1, <2>2 DEF SelectToStop
<1>14. ASSUME NEW r \in Requests, Commit(r) PROVE TypeOK'
  <2> DEFINE d == draft[r]
  <2>1. request[r].key \in Keys /\ request[r].body \in Bodies
    BY <1>14, CommitRows
  <2>2. d.status \in Nat /\ d.ws \in 0..MaxArrivals
    OBVIOUS
  <2>3. keys' \in [Keys -> [body : Bodies \cup {NoBody}, status : Nat, ws : 0..MaxArrivals]]
    BY <1>14, <2>1, <2>2 DEF Commit
  <2>4. told' \subseteq [key : Keys, body : Bodies, status : Nat, ws : 0..MaxArrivals]
    BY <1>14, <2>1, <2>2 DEF Commit, Tell
  <2>5. /\ workspaces' \in [Seqs -> [app : Apps \cup {NoApp},
                                     state : {"absent", "ready", "stopped"}, version : 0..2]]
        /\ events' \subseteq [seq : Seqs, ws : Seqs, state : {"ready", "stopped"}]
        /\ effects' \subseteq Keys \X Seqs
    BY <1>14, CommitTyped
  <2>6. End(r) /\ UNCHANGED <<groups, mapping, direct, granted, snapshot, nextSeq, read, stream,
                              arrivals, changes>>
    BY <1>14 DEF Commit
  <2> QED BY <2>3, <2>4, <2>5, <2>6, EndTyped
<1>15. CASE Poll
  <2>1. Visible \subseteq Seqs
    BY DEF Visible
  <2>2. seen' \in 0..MaxArrivals /\ got' \subseteq Seqs
    <3>1. PICK upto \in Visible : got' = got \cup Delivered(upto) /\ seen' = upto
      BY <1>15 DEF Poll
    <3>2. upto \in Seqs /\ Delivered(upto) \subseteq Seqs
      BY <2>1 DEF Delivered
    <3>3. Seqs \subseteq 0..MaxArrivals
      BY <1>1 DEF Seqs
    <3> QED BY <3>1, <3>2, <3>3
  <2> QED BY <1>15, <2>2 DEF Poll
<1>16. CASE GroupsChange \/ Provision
  <2>1. changes' \in 0..MaxChanges /\ groups' \in Claims /\ mapping' \in Provisions
    BY <1>1, <1>16 DEF GroupsChange, Provision
  <2> QED BY <1>16, <2>1 DEF GroupsChange, Provision
<1>17. CASE UNCHANGED vars
  BY <1>17 DEF vars
<1> QED BY <1>2, <1>3, <1>4, <1>5, <1>6, <1>7, <1>9, <1>10, <1>12, <1>13, <1>14, <1>15,
           <1>16, <1>17 DEF Next, Statement
-----------------------------------------------------------------------------
(* What a step leaves alone.                                                *)

\* A request begins, goes on to another statement, writes its draft, or ends.
Begins(r) == /\ pc[r] = "idle" /\ pc'[r] = "arrived" /\ draft'[r] = draft[r]
             /\ \E k \in Keys, b \in Bodies :
                    /\ request'[r] = [key |-> k, body |-> b, claims |-> groups]
                    /\ b.op = "stop" => workspaces[b.of] # Absent
GoesOn(r) == /\ <<pc[r], pc'[r]>> \in {<<"arrived", "syncing">>, <<"syncing", "admitted">>,
                                       <<"admitted", "claiming">>, <<"claiming", "claimed">>,
                                       <<"claimed", "locked">>}
             /\ request'[r] = request[r] /\ draft'[r] = draft[r]
             /\ ReadMapping(r) \/ Synchronise(r) \/ Begin(r) \/ Claim(r) \/ Lock(r)
Drafts(r) == /\ pc[r] \in {"claimed", "locked"} /\ pc'[r] = "closing"
             /\ request'[r] = request[r]
             /\ Forbid(r) \/ FindExisting(r) \/ Insert(r) \/ SelectToStop(r) \/ Decline(r)
Ends(r) == pc[r] # "idle" /\ pc'[r] = "idle"
Others(r) == \A s \in Requests : s # r => /\ pc'[s] = pc[s] /\ request'[s] = request[s]
                                          /\ draft'[s] = draft[s]

\* At most one request moves in a step.
LEMMA OneMoves ==
    ASSUME TypeOK, Next
    PROVE  \/ \E r \in Requests : /\ Others(r)
                                  /\ Begins(r) \/ GoesOn(r) \/ Drafts(r) \/ Ends(r)
           \/ UNCHANGED <<pc, request, draft>>
<1> USE DEF TypeOK
<1>1. ASSUME NEW r \in Requests, NEW k \in Keys, NEW body \in Bodies, Arrive(r, k, body)
      PROVE  Others(r) /\ Begins(r)
  BY <1>1 DEF Arrive, Goto, Others, Begins
<1>2. ASSUME NEW r \in Requests, ReadMapping(r) \/ Synchronise(r) \/ Begin(r) \/ Claim(r) \/ Lock(r)
      PROVE  Others(r) /\ GoesOn(r)
  BY <1>2 DEF ReadMapping, Synchronise, Begin, Claim, Lock, Goto, Others, GoesOn
<1>3. ASSUME NEW r \in Requests, End(r), pc[r] # "idle"
      PROVE  Others(r) /\ Ends(r)
  BY <1>3 DEF End, Goto, Others, Ends
<1>4. ASSUME NEW r \in Requests, TurnAway(r) \/ Replay(r) \/ Commit(r) \/ Abort(r)
      PROVE  Others(r) /\ Ends(r)
  BY <1>3, <1>4 DEF TurnAway, Replay, Commit, Abort
<1>5. ASSUME NEW r \in Requests,
             Forbid(r) \/ FindExisting(r) \/ Insert(r) \/ SelectToStop(r) \/ Decline(r)
      PROVE  Others(r) /\ Drafts(r)
  <2>1. /\ pc[r] \in {"claimed", "locked"} /\ Goto(r, "closing") /\ request' = request
        /\ \E status, w, seq : Write(r, status, w, seq)
    BY <1>5 DEF Forbid, FindExisting, Insert, SelectToStop, Decline
  <2> QED BY <1>5, <2>1 DEF Goto, Write, Others, Drafts
<1>6. ASSUME Poll \/ GroupsChange \/ Provision
      PROVE  UNCHANGED <<pc, request, draft>>
  BY <1>6 DEF Poll, GroupsChange, Provision
<1> QED BY <1>1, <1>2, <1>4, <1>5, <1>6 DEF Next, Statement

\* Only a commit changes the rows, only a synchronisation the membership; the
\* numbers are drawn one by one, by a request that then has its draft.
LEMMA Frames ==
    ASSUME Next
    PROVE  /\ \/ UNCHANGED <<keys, workspaces, events, effects>>
              \/ \E r \in Requests : Commit(r)
           /\ UNCHANGED <<direct, granted, snapshot>> \/ \E r \in Requests : Synchronise(r)
           /\ direct' = direct
           /\ nextSeq' = nextSeq \/ nextSeq' = nextSeq + 1
           /\ \/ told' = told
              \/ \E r \in Requests : Commit(r) \/ Replay(r)
<1> USE DEF tables, stream
<1>1. ASSUME NEW r \in Requests, NEW k \in Keys, NEW body \in Bodies, Arrive(r, k, body)
      PROVE  UNCHANGED <<tables, told, effects>> /\ arrivals' = arrivals + 1
  BY <1>1 DEF Arrive
<1>2. ASSUME NEW r \in Requests,
             ReadMapping(r) \/ Begin(r) \/ Claim(r) \/ Lock(r) \/ TurnAway(r) \/ Abort(r)
             \/ Forbid(r) \/ FindExisting(r) \/ Decline(r)
      PROVE  UNCHANGED <<tables, told, effects, arrivals>>
  BY <1>2 DEF ReadMapping, Begin, Claim, Lock, TurnAway, Abort, Forbid, FindExisting, Decline
<1>3. ASSUME NEW r \in Requests, Synchronise(r)
      PROVE  UNCHANGED <<keys, workspaces, events, effects, direct, nextSeq, told, arrivals>>
  BY <1>3 DEF Synchronise
<1>4. ASSUME NEW r \in Requests, Replay(r)
      PROVE  UNCHANGED <<tables, effects, arrivals>>
  BY <1>4 DEF Replay
<1>5. ASSUME NEW r \in Requests, Insert(r) \/ SelectToStop(r)
      PROVE  /\ UNCHANGED <<keys, workspaces, events, effects, direct, granted, snapshot, told, arrivals>>
             /\ nextSeq' = nextSeq \/ nextSeq' = nextSeq + 1
  BY <1>5 DEF Insert, SelectToStop
<1>6. ASSUME NEW r \in Requests, Commit(r)
      PROVE  UNCHANGED <<direct, granted, snapshot, nextSeq, arrivals>>
  BY <1>6 DEF Commit
<1>7. ASSUME Poll \/ GroupsChange \/ Provision
      PROVE  UNCHANGED <<keys, workspaces, events, effects, direct, granted, snapshot,
                         nextSeq, told, arrivals>>
  BY <1>7 DEF Poll, GroupsChange, Provision
<1> QED BY <1>1, <1>2, <1>3, <1>4, <1>5, <1>6, <1>7 DEF Next, Statement

\* A workspace that is there stays there, and keeps its application.
LEMMA RowsStay ==
    ASSUME TypeOK, RequestsKept, RowsKept, DraftsKept, Next, NEW w \in Seqs,
           workspaces[w] # Absent
    PROVE  /\ workspaces'[w] # Absent /\ workspaces'[w].app = workspaces[w].app
           /\ workspaces[w].state = "stopped" => workspaces'[w] = workspaces[w]
<1>1. CASE workspaces' = workspaces
  BY <1>1
<1>2. ASSUME NEW r \in Requests, Commit(r)
      PROVE  /\ workspaces'[w] # Absent /\ workspaces'[w].app = workspaces[w].app
             /\ workspaces[w].state = "stopped" => workspaces'[w] = workspaces[w]
  <2>1. CASE CommitNothing(r)
    BY <2>1 DEF CommitNothing
  <2>2. CASE CommitMakes(r)
    BY <2>2 DEF CommitMakes, CommitRow, TypeOK
  <2>3. CASE CommitStops(r)
    <3> DEFINE row == [app |-> workspaces[draft[r].ws].app, state |-> "stopped", version |-> 2]
    <3>1. row # Absent /\ row.app = workspaces[draft[r].ws].app
      BY DEF Absent
    <3>2. workspaces' = [workspaces EXCEPT ![draft[r].ws] = row] /\ draft[r].ws \in Seqs
          /\ workspaces[draft[r].ws].state = "ready"
      BY <2>3 DEF CommitStops, CommitRow
    <3> HIDE DEF row
    <3> QED BY <3>1, <3>2 DEF TypeOK
  <2> QED BY <1>2, <2>1, <2>2, <2>3, CommitRows
<1> QED BY <1>1, <1>2, Frames

\* While a request holds its key nobody's membership changes.
LEMMA MemberStays ==
    ASSUME LocksKept, Next, NEW s \in Requests, HoldsKey(s)
    PROVE  Member' <=> Member
<1>1. ~\E r \in Requests : Synchronise(r)
  BY DEF LocksKept, Synchronise
<1> QED BY <1>1, Frames DEF Member
-----------------------------------------------------------------------------
\* A request in progress keeps its key and body until it ends.
LEMMA RequestsStep ==
    ASSUME TypeOK, RequestsKept, RowsKept, DraftsKept, Next
    PROVE  RequestsKept'
<1> SUFFICES ASSUME NEW s \in Requests, pc'[s] # "idle"
             PROVE  /\ request'[s].key \in Keys /\ request'[s].body \in Bodies
                    /\ request'[s].body.op = "stop" => workspaces'[request'[s].body.of] # Absent
  BY DEF RequestsKept
<1>1. CASE Begins(s)
  <2>1. PICK k \in Keys, b \in Bodies :
            /\ request'[s] = [key |-> k, body |-> b, claims |-> groups]
            /\ b.op = "stop" => workspaces[b.of] # Absent
    BY <1>1 DEF Begins
  <2> QED BY <2>1, BodyCases, RowsStay
<1>2. CASE pc[s] # "idle" /\ request'[s] = request[s]
  <2>1. request[s].key \in Keys /\ request[s].body \in Bodies
        /\ (request[s].body.op = "stop" => workspaces[request[s].body.of] # Absent)
    BY <1>2 DEF RequestsKept
  <2> QED BY <1>2, <2>1, BodyCases, RowsStay
<1> QED BY <1>1, <1>2, OneMoves DEF Others, GoesOn, Drafts, Ends

\* Who draws a number has an arrival for it.
LEMMA NumbersStep ==
    ASSUME TypeOK, NumbersSuffice, Next
    PROVE  NumbersSuffice'
<1>1. /\ Cardinality(Undrawn) \in Nat /\ nextSeq \in Nat /\ arrivals \in Nat
      /\ nextSeq + Cardinality(Undrawn) <= arrivals
  BY FS_CardinalityType, GatewayAssumption DEF NumbersSuffice, TypeOK
<1>2. ASSUME NEW r \in Requests, NEW k \in Keys, NEW body \in Bodies, Arrive(r, k, body)
      PROVE  NumbersSuffice'
  <2>1. Undrawn' = Undrawn \cup {r} /\ r \notin Undrawn
    BY <1>2 DEF Undrawn, Arrive, Goto, TypeOK
  <2>2. nextSeq' = nextSeq /\ arrivals' = arrivals + 1
    BY <1>2 DEF Arrive, tables
  <2> QED BY <1>1, <2>1, <2>2, FS_AddElement DEF NumbersSuffice
<1>3. ASSUME NEW r \in Requests, ReadMapping(r) \/ Synchronise(r) \/ Begin(r) \/ Claim(r) \/ Lock(r)
      PROVE  NumbersSuffice'
  <2>1. Undrawn' = Undrawn
    BY <1>3 DEF Undrawn, ReadMapping, Synchronise, Begin, Claim, Lock, Goto, TypeOK
  <2>2. nextSeq' = nextSeq /\ arrivals' = arrivals
    BY <1>3 DEF ReadMapping, Synchronise, Begin, Claim, Lock, tables
  <2> QED BY <2>1, <2>2 DEF NumbersSuffice
<1>4. ASSUME NEW r \in Requests,
             Forbid(r) \/ FindExisting(r) \/ Insert(r) \/ SelectToStop(r) \/ Decline(r)
      PROVE  NumbersSuffice'
  <2>1. Undrawn' = Undrawn \ {r} /\ r \in Undrawn
    BY <1>4 DEF Undrawn, Forbid, FindExisting, Insert, SelectToStop, Decline, Goto, TypeOK
  <2>2. (nextSeq' = nextSeq \/ nextSeq' = nextSeq + 1) /\ arrivals' = arrivals
    BY <1>4 DEF Forbid, FindExisting, Insert, SelectToStop, Decline, tables
  <2> QED BY <1>1, <2>1, <2>2, FS_RemoveElement DEF NumbersSuffice
<1>5. ASSUME NEW r \in Requests, TurnAway(r) \/ Replay(r) \/ Commit(r) \/ Abort(r)
      PROVE  NumbersSuffice'
  <2>1. Undrawn' = Undrawn \ {r}
    BY <1>5 DEF Undrawn, TurnAway, Replay, Commit, Abort, End, Goto, TypeOK
  <2>2. nextSeq' = nextSeq /\ arrivals' = arrivals
    BY <1>5 DEF TurnAway, Replay, Commit, Abort, tables
  <2> QED BY <1>1, <2>1, <2>2, FS_RemoveElement DEF NumbersSuffice
<1>6. ASSUME Poll \/ GroupsChange \/ Provision PROVE NumbersSuffice'
  <2>1. UNCHANGED <<pc, nextSeq, arrivals>>
    BY <1>6 DEF Poll, GroupsChange, Provision, tables
  <2> QED BY <2>1 DEF NumbersSuffice, Undrawn
<1> QED BY <1>2, <1>3, <1>4, <1>5, <1>6 DEF Next, Statement
\* A workspace is made once and stopped once.
LEMMA RowsStep ==
    ASSUME TypeOK, RequestsKept, RowsKept, DraftsKept, Next
    PROVE  RowsKept'
<1>1. /\ nextSeq \in Nat /\ nextSeq' \in Nat /\ nextSeq <= nextSeq'
      /\ \A w \in Seqs : w \in Nat /\ (w > nextSeq' => w > nextSeq)
  BY Frames, GatewayAssumption DEF TypeOK, Seqs
<1>2. CASE workspaces' = workspaces
  BY <1>1, <1>2 DEF RowsKept
<1>3. ASSUME NEW r \in Requests, Commit(r) PROVE RowsKept'
  <2>1. CASE CommitNothing(r)
    BY <1>1, <2>1 DEF CommitNothing, RowsKept
  <2>2. CASE CommitMakes(r)
    <3> DEFINE row == [app |-> request[r].body.of, state |-> "ready", version |-> 1]
    <3>1. /\ row.app \in Apps /\ row.state = "ready" /\ row.version = 1
          /\ draft[r].ws \in Seqs /\ draft[r].ws <= nextSeq
          /\ workspaces' = [workspaces EXCEPT ![draft[r].ws] = row]
      BY <2>2 DEF CommitMakes, CommitRow
    <3> HIDE DEF row
    <3> QED BY <1>1, <3>1 DEF RowsKept, TypeOK
  <2>3. CASE CommitStops(r)
    <3> DEFINE row == [app |-> workspaces[draft[r].ws].app, state |-> "stopped", version |-> 2]
    <3>1. /\ row.app \in Apps /\ row.state = "stopped" /\ row.version = 2
          /\ draft[r].ws \in Seqs /\ workspaces[draft[r].ws].state = "ready"
          /\ workspaces' = [workspaces EXCEPT ![draft[r].ws] = row]
      BY <2>3 DEF CommitStops, CommitRow
    <3>2. draft[r].ws <= nextSeq
      BY <1>1, <3>1 DEF RowsKept, Absent
    <3> HIDE DEF row
    <3> QED BY <1>1, <3>1, <3>2 DEF RowsKept, TypeOK
  <2> QED BY <1>3, <2>1, <2>2, <2>3, CommitRows
<1> QED BY <1>2, <1>3, Frames

\* The workspace a draft names is there or has its number.
LEMMA DraftsNamed ==
    ASSUME TypeOK, RequestsKept, RowsKept, DraftsKept,
           NEW s \in Requests, pc[s] = "closing"
    PROVE  draft[s].ws <= nextSeq
<1>1. nextSeq \in Nat /\ \A w \in Seqs : w \in Nat /\ (w > nextSeq \/ w <= nextSeq)
  BY GatewayAssumption DEF TypeOK, Seqs
<1>2. request[s].body \in Bodies
      /\ (request[s].body.op = "stop" => workspaces[request[s].body.of] # Absent)
  BY DEF RequestsKept
<1>3. /\ request[s].body.op \in {"create", "stop", "cancel"}
      /\ request[s].body.op = "stop" => request[s].body.of \in Seqs
  BY <1>2, BodyCases
<1>4. CASE request[s].body.op = "create"
  <2>1. CreateHolds(s)
    BY <1>4 DEF DraftsKept, Creates
  <2>2. \A w \in ActiveOf(request[s].body.of) : w \in Seqs /\ workspaces[w] # Absent
    BY DEF ActiveOf, Absent
  <2> QED BY <1>1, <2>1, <2>2 DEF CreateHolds, RowsKept
<1>5. CASE request[s].body.op = "stop"
  <2>1. StopHolds(s)
    BY <1>5 DEF DraftsKept
  <2>2. request[s].body.of <= nextSeq
    BY <1>1, <1>2, <1>3, <1>5 DEF RowsKept
  <2> QED BY <1>1, <2>1, <2>2 DEF StopHolds
<1>6. CASE request[s].body.op = "cancel"
  BY <1>1, <1>6 DEF DraftsKept
<1> QED BY <1>3, <1>4, <1>5, <1>6

\* The last event of a workspace keeps telling its state.
LEMMA EventsStep ==
    ASSUME TypeOK, RequestsKept, RowsKept, DraftsKept, EventsKept, Next
    PROVE  EventsKept'
<1>1. /\ nextSeq \in Nat /\ nextSeq' \in Nat /\ nextSeq <= nextSeq'
      /\ \A w \in Seqs : w \in Nat /\ (w <= nextSeq => w <= nextSeq')
      /\ \A e \in events : e.seq \in Seqs /\ e.ws \in Seqs
  BY Frames, GatewayAssumption DEF TypeOK, Seqs
<1>2. CASE workspaces' = workspaces /\ events' = events
  BY <1>1, <1>2 DEF EventsKept, LastEventTellsState
<1>3. ASSUME NEW r \in Requests, Commit(r) PROVE EventsKept'
  <2>1. ASSUME NEW row, CommitRow(r, row), row # Absent PROVE EventsKept'
    <3> DEFINE d == draft[r]  e0 == [seq |-> d.seq, ws |-> d.ws, state |-> row.state]
    <3>1. /\ d.seq \in Seqs /\ d.ws \in Seqs /\ d.seq <= nextSeq
          /\ workspaces' = [workspaces EXCEPT ![d.ws] = row]
          /\ events' = events \cup {e0}
      BY <2>1 DEF CommitRow
    <3>2. e0.seq = d.seq /\ e0.ws = d.ws /\ e0.state = row.state
      OBVIOUS
    <3>3. \A e \in events : e.ws = d.ws => e.seq < d.seq
      <4>1. pc[r] = "closing" /\ d.seq # 0
        BY <1>3, <3>1 DEF Commit, Seqs
      <4> QED BY <4>1 DEF DraftsKept
    <3>4. workspaces'[d.ws] = row /\ \A w \in Seqs : w # d.ws => workspaces'[w] = workspaces[w]
      BY <3>1 DEF TypeOK
    <3> HIDE DEF e0
    <3>5. \A e \in events' : e.seq <= nextSeq' /\ workspaces'[e.ws] # Absent
      BY <1>1, <2>1, <3>1, <3>2, <3>4 DEF EventsKept
    <3>6. LastEventTellsState'
      <4> SUFFICES ASSUME NEW w \in Seqs, workspaces'[w] # Absent
                   PROVE  \E e \in events' : /\ e.ws = w /\ e.state = workspaces'[w].state
                                             /\ \A f \in events' : f.ws = w => f.seq <= e.seq
        BY DEF LastEventTellsState
      <4>1. CASE w = d.ws
        <5>1. \A f \in events' : f.ws = w => f.seq <= e0.seq
          BY <1>1, <3>1, <3>2, <3>3, <4>1
        <5> QED BY <3>1, <3>2, <3>4, <4>1, <5>1
      <4>2. CASE w # d.ws
        <5>1. PICK e \in events : /\ e.ws = w /\ e.state = workspaces[w].state
                                  /\ \A f \in events : f.ws = w => f.seq <= e.seq
          BY <3>4, <4>2 DEF EventsKept, LastEventTellsState
        <5>2. \A f \in events' : f.ws = w => f.seq <= e.seq
          BY <3>1, <3>2, <4>2, <5>1
        <5> QED BY <3>1, <3>4, <4>2, <5>1, <5>2
      <4> QED BY <4>1, <4>2
    <3> QED BY <3>5, <3>6 DEF EventsKept
  <2>2. CASE CommitNothing(r)
    BY <1>1, <2>2 DEF CommitNothing, EventsKept, LastEventTellsState
  <2>3. CASE CommitMakes(r)
    <3> DEFINE row == [app |-> request[r].body.of, state |-> "ready", version |-> 1]
    <3>1. row # Absent /\ CommitRow(r, row)
      BY <2>3 DEF CommitMakes, Absent
    <3> QED BY <2>1, <3>1
  <2>4. CASE CommitStops(r)
    <3> DEFINE row == [app |-> workspaces[draft[r].ws].app, state |-> "stopped", version |-> 2]
    <3>1. row # Absent /\ CommitRow(r, row)
      BY <2>4 DEF CommitStops, Absent
    <3> QED BY <2>1, <3>1
  <2> QED BY <1>3, <2>2, <2>3, <2>4, CommitRows
<1> QED BY <1>2, <1>3, Frames

\* A workspace is made only for an application that has none active.
LEMMA ActiveStep ==
    ASSUME TypeOK, RequestsKept, RowsKept, DraftsKept, OneActivePerApp, Next
    PROVE  OneActivePerApp'
<1>1. CASE workspaces' = workspaces
  BY <1>1 DEF OneActivePerApp
<1>2. ASSUME NEW r \in Requests, Commit(r) PROVE OneActivePerApp'
  <2>1. CASE CommitNothing(r)
    BY <2>1 DEF CommitNothing, OneActivePerApp
  <2>2. CASE CommitMakes(r)
    <3> DEFINE a == request[r].body.of  row == [app |-> a, state |-> "ready", version |-> 1]
    <3>1. /\ row.app = a /\ draft[r].ws \in Seqs
          /\ workspaces' = [workspaces EXCEPT ![draft[r].ws] = row]
      BY <2>2 DEF CommitMakes, CommitRow
    <3>2. \A w \in Seqs : ~(workspaces[w].app = a /\ workspaces[w].state = "ready")
      BY <2>2 DEF CommitMakes, ActiveOf
    <3> HIDE DEF row, a
    <3> QED BY <3>1, <3>2 DEF OneActivePerApp, TypeOK
  <2>3. CASE CommitStops(r)
    <3> DEFINE row == [app |-> workspaces[draft[r].ws].app, state |-> "stopped", version |-> 2]
    <3>1. /\ row.state # "ready" /\ draft[r].ws \in Seqs
          /\ workspaces' = [workspaces EXCEPT ![draft[r].ws] = row]
      BY <2>3 DEF CommitStops, CommitRow
    <3> HIDE DEF row
    <3> QED BY <3>1 DEF OneActivePerApp, TypeOK
  <2> QED BY <1>2, <2>1, <2>2, <2>3, CommitRows
<1> QED BY <1>1, <1>2, Frames

\* What was told and done stays what is stored with the key.
LEMMA AnswersStep ==
    ASSUME TypeOK, RequestsKept, RowsKept, LocksKept, DraftsKept, AnswersKept, Next
    PROVE  AnswersKept'
<1> DEFINE Told(t) == [body |-> t.body, status |-> t.status, ws |-> t.ws]
<1>1. CASE UNCHANGED <<keys, effects, told>>
  BY <1>1 DEF AnswersKept, OneEffectPerKey
<1>2. ASSUME NEW r \in Requests, Replay(r), UNCHANGED <<keys, effects>> PROVE AnswersKept'
  <2> DEFINE row == keys[request[r].key]
             t == [key |-> request[r].key, body |-> request[r].body, status |-> row.status, ws |-> row.ws]
  <2>1. told' = told \/ (told' = told \cup {t} /\ row.body = request[r].body)
    BY <1>2 DEF Replay, Tell
  <2>2. row = [body |-> row.body, status |-> row.status, ws |-> row.ws]
    <3>1. request[r].key \in Keys
      BY <1>2 DEF Replay, RequestsKept
    <3> QED BY <3>1 DEF TypeOK
  <2>3. row.body = request[r].body => keys[t.key] = Told(t)
    BY <2>2
  <2> HIDE DEF t, row
  <2> QED BY <1>2, <2>1, <2>3 DEF AnswersKept, OneEffectPerKey
<1>3. ASSUME NEW r \in Requests, Commit(r) PROVE AnswersKept'
  <2> DEFINE k == request[r].key  d == draft[r]  b == request[r].body
             row == [body |-> b, status |-> d.status, ws |-> d.ws]
             t == [key |-> k, body |-> b, status |-> d.status, ws |-> d.ws]
  <2>1. k \in Keys /\ b \in Bodies /\ keys[k] = Open
    <3>1. k \in Keys /\ b \in Bodies /\ HoldsKey(r)
      BY <1>3, CommitRows DEF HoldsKey
    <3> QED BY <3>1 DEF LocksKept
  <2>2. row # Open /\ keys' = [keys EXCEPT ![k] = row] /\ told' = told \cup {t}
    BY <1>3, <2>1, BodyCases DEF Commit, Tell, Open
  <2>3. effects' = effects \/ \E n : effects' = effects \cup {<<k, n>>}
    BY <1>3 DEF Commit
  <2>4. keys'[k] = row /\ \A j \in Keys : j # k => keys'[j] = keys[j]
    BY <2>1, <2>2 DEF TypeOK
  <2>5. \A u \in told : u.key \in Keys /\ u.key # k
    <3> SUFFICES ASSUME NEW u \in told PROVE u.key \in Keys /\ u.key # k
      OBVIOUS
    <3>1. u.key \in Keys /\ u.body \in Bodies /\ keys[u.key] = Told(u)
      BY DEF TypeOK, AnswersKept
    <3>2. Told(u).body # Open.body
      BY <3>1, BodyCases DEF Open
    <3> QED BY <2>1, <3>1, <3>2
  <2>6. \A x \in effects : x[1] \in Keys /\ x[1] # k
    BY <2>1 DEF TypeOK, AnswersKept
  <2>7. t.key = k /\ Told(t) = row
    OBVIOUS
  <2> HIDE DEF t, row, k, d, b
  <2>8. \A u \in told' : keys'[u.key] = Told(u)
    BY <2>2, <2>4, <2>5, <2>7 DEF AnswersKept
  <2>9. \A x \in effects' : keys'[x[1]] # Open
    BY <2>2, <2>3, <2>4, <2>6 DEF AnswersKept
  <2>10. OneEffectPerKey'
    BY <2>3, <2>6 DEF AnswersKept, OneEffectPerKey
  <2> QED BY <2>8, <2>9, <2>10 DEF AnswersKept
<1>4. ASSUME NEW r \in Requests, Replay(r) PROVE UNCHANGED <<keys, effects>>
  BY <1>4 DEF Replay, tables
<1> QED BY <1>1, <1>2, <1>3, <1>4, Frames

\* A membership changes only with the groups that its digest was taken of.
LEMMA DigestStep ==
    ASSUME TypeOK, DigestKept, Next
    PROVE  DigestKept'
<1>1. CASE UNCHANGED <<direct, granted, snapshot>>
  BY <1>1 DEF DigestKept
<1>2. ASSUME NEW r \in Requests, Synchronise(r) PROVE DigestKept'
  <2>1. CASE KnownDigest(r)
    BY <1>2, <2>1 DEF Synchronise, DigestKept
  <2>2. CASE ~KnownDigest(r)
    BY <1>2, <2>2 DEF Synchronise, DigestKept, Granted
  <2> QED BY <2>1, <2>2
<1> QED BY <1>1, <1>2, Frames
\* Who holds a key or an application after a step held it before, or has just got it.
LEMMA Holding ==
    ASSUME TypeOK, RequestsKept, Next, NEW s \in Requests
    PROVE  /\ HoldsKey(s)' => /\ request'[s] = request[s]
                              /\ HoldsKey(s) \/ Claim(s)
           /\ pc'[s] = "syncing" => pc[s] = "syncing" \/ ReadMapping(s)
           /\ pc'[s] = "locked" => (pc[s] = "locked" \/ Lock(s)) /\ request'[s] = request[s]
           /\ \A a \in Apps : HoldsApp(s, a)' =>
                  /\ request'[s] = request[s]
                  /\ HoldsApp(s, a) \/ (Lock(s) /\ request[s].body.of = a)
           /\ pc'[s] = "closing" =>
                  /\ request'[s] = request[s]
                  /\ (pc[s] = "closing" /\ draft'[s] = draft[s]) \/ Drafts(s)
<1>1. \/ pc'[s] = pc[s] /\ request'[s] = request[s] /\ draft'[s] = draft[s]
      \/ Begins(s) \/ GoesOn(s) \/ Drafts(s) \/ Ends(s)
  BY OneMoves DEF Others
<1>2. CASE pc'[s] = pc[s] /\ request'[s] = request[s] /\ draft'[s] = draft[s]
  BY <1>2 DEF HoldsKey, HoldsApp, Creates
<1>3. CASE Begins(s) \/ Ends(s)
  BY <1>3 DEF Begins, Ends, HoldsKey, HoldsApp
<1>4. CASE GoesOn(s)
  <2>1. CASE ReadMapping(s) \/ Synchronise(s) \/ Begin(s)
    <3>1. pc[s] \notin {"claiming", "claimed"}
      BY <2>1 DEF ReadMapping, Synchronise, Begin
    <3>2. pc'[s] \notin {"claimed", "locked", "closing"}
      BY <1>4, <3>1 DEF GoesOn
    <3>3. pc'[s] = "syncing" => ReadMapping(s)
      BY <2>1 DEF Synchronise, Begin, Goto, TypeOK
    <3> QED BY <3>2, <3>3 DEF HoldsKey, HoldsApp
  <2>2. CASE Claim(s)
    <3>1. pc[s] = "claiming" /\ pc'[s] = "claimed" /\ request'[s] = request[s]
      BY <2>2 DEF Claim, Goto, TypeOK
    <3> QED BY <2>2, <3>1 DEF HoldsKey, HoldsApp
  <2>3. CASE Lock(s)
    <3>1. pc[s] = "claimed" /\ pc'[s] = "locked" /\ request'[s] = request[s]
      BY <2>3 DEF Lock, Goto, TypeOK
    <3> QED BY <2>3, <3>1 DEF HoldsKey, HoldsApp, Creates
  <2> QED BY <1>4, <2>1, <2>2, <2>3 DEF GoesOn
<1>5. CASE Drafts(s)
  <2>1. pc[s] \in {"claimed", "locked"} /\ pc'[s] = "closing" /\ request'[s] = request[s]
    BY <1>5 DEF Drafts
  <2>2. ASSUME NEW a \in Apps, HoldsApp(s, a)' PROVE HoldsApp(s, a)
    <3>1. request[s].body.op = "create" /\ request[s].body.of = a /\ draft'[s].status # 403
      BY <2>1, <2>2 DEF HoldsApp, Creates
    <3>2. CASE FindExisting(s) \/ Insert(s)
      BY <3>1, <3>2 DEF FindExisting, Insert, HoldsApp, Creates
    <3>3. CASE Forbid(s)
      BY <3>1, <3>3 DEF Forbid, Write, TypeOK
    <3>4. CASE SelectToStop(s) \/ Decline(s)
      BY <3>1, <3>4 DEF SelectToStop, Decline
    <3> QED BY <1>5, <3>2, <3>3, <3>4 DEF Drafts
  <2> QED BY <1>5, <2>1, <2>2 DEF HoldsKey
<1> QED BY <1>1, <1>2, <1>3, <1>4, <1>5

\* A draft names no workspace that another one names.
LEMMA DraftsApart ==
    ASSUME TypeOK, RequestsKept, RowsKept, DraftsKept,
           NEW r \in Requests, Drafts(r), NEW s \in Requests, s # r, pc[s] = "closing"
    PROVE  draft'[r].ws = 0 \/ draft'[r].ws # draft[s].ws
<1>1. draft[s].ws <= nextSeq /\ draft[s].ws \in Nat /\ nextSeq \in Nat
  BY DraftsNamed, GatewayAssumption DEF TypeOK
<1>2. CASE Forbid(r) \/ Decline(r)
  BY <1>2 DEF Forbid, Decline, Write, TypeOK
<1>3. CASE FindExisting(r)
  <2>1. PICK w \in ActiveOf(request[r].body.of) : RowFree(w) /\ Write(r, 409, w, 0)
    BY <1>3 DEF FindExisting
  <2>2. draft'[r].ws = w
    BY <2>1 DEF Write, TypeOK
  <2> QED BY <2>1, <2>2 DEF RowFree
<1>4. CASE Insert(r)
  <2>1. draft'[r].ws = nextSeq + 1
    BY <1>4 DEF Insert, Write, TypeOK
  <2> QED BY <1>1, <2>1
<1>5. CASE SelectToStop(r)
  <2>1. CASE ~Member
    BY <1>5, <2>1 DEF SelectToStop, Write, TypeOK
  <2>2. CASE Member
    <3>1. RowFree(request[r].body.of) /\ draft'[r].ws = request[r].body.of
      BY <1>5, <2>2 DEF SelectToStop, Write, TypeOK
    <3> QED BY <3>1 DEF RowFree
  <2> QED BY <2>1, <2>2
<1> QED BY <1>2, <1>3, <1>4, <1>5 DEF Drafts

\* A lock that is held keeps all others out until its transaction ends.
LEMMA LocksStep ==
    ASSUME TypeOK, RequestsKept, LocksKept, RowsKept, DraftsKept, Next
    PROVE  LocksKept'
<1>1. ASSUME NEW s \in Requests, HoldsKey(s)' PROVE keys'[request'[s].key] = Open
  <2>1. /\ request'[s] = request[s] /\ (HoldsKey(s) \/ Claim(s))
        /\ pc'[s] # "idle" /\ pc[s] # "idle" /\ keys[request[s].key] = Open
    BY <1>1, Holding DEF HoldsKey, Claim, LocksKept
  <2>2. ASSUME NEW r \in Requests, Commit(r) PROVE keys'[request[s].key] = keys[request[s].key]
    <3>1. pc[r] = "closing" /\ pc'[r] = "idle" /\ HoldsKey(r)
      BY <2>2 DEF Commit, End, Goto, TypeOK, HoldsKey
    <3>2. pc[s] = pc'[s] /\ s # r
      BY <1>1, <2>1, <3>1, OneMoves DEF Others, GoesOn, Begins, Drafts, HoldsKey
    <3>3. request[s].key # request[r].key
      BY <1>1, <3>1, <3>2 DEF LocksKept, HoldsKey
    <3>4. request[s].key \in Keys /\ request[r].key \in Keys
      BY <2>1, <3>1 DEF RequestsKept
    <3> QED BY <2>2, <3>3, <3>4 DEF Commit, TypeOK
  <2>3. keys'[request[s].key] = keys[request[s].key]
    BY <2>2, Frames
  <2> QED BY <2>1, <2>3
<1>2. ASSUME NEW r \in Requests, NEW s \in Requests, r # s, HoldsKey(r)', HoldsKey(s)'
      PROVE  request'[r].key # request'[s].key
  <2>1. /\ request'[r] = request[r] /\ (HoldsKey(r) \/ Claim(r))
        /\ request'[s] = request[s] /\ (HoldsKey(s) \/ Claim(s))
    BY <1>2, Holding
  <2>2. CASE Claim(r)
    <3>1. pc'[r] # pc[r]
      BY <2>2 DEF Claim, Goto, TypeOK
    <3>2. pc'[s] = pc[s]
      BY <1>2, <3>1, OneMoves DEF Others
    <3>3. HoldsKey(s)
      BY <1>2, <3>2 DEF HoldsKey
    <3> QED BY <2>1, <2>2, <3>3 DEF Claim, KeyFree
  <2>3. CASE Claim(s)
    <3>1. pc'[s] # pc[s]
      BY <2>3 DEF Claim, Goto, TypeOK
    <3>2. pc'[r] = pc[r]
      BY <1>2, <3>1, OneMoves DEF Others
    <3>3. HoldsKey(r)
      BY <1>2, <3>2 DEF HoldsKey
    <3> QED BY <2>1, <2>3, <3>3 DEF Claim, KeyFree
  <2> QED BY <1>2, <2>1, <2>2, <2>3 DEF LocksKept
<1>3. ASSUME NEW r \in Requests, NEW s \in Requests, pc'[r] = "syncing" PROVE ~HoldsKey(s)'
  <2>1. SUFFICES ASSUME HoldsKey(s)' PROVE FALSE
    OBVIOUS
  <2>2. (pc[r] = "syncing" \/ ReadMapping(r)) /\ (HoldsKey(s) \/ Claim(s))
    BY <1>3, <2>1, Holding
  <2>3. ~(pc[r] = "syncing" /\ HoldsKey(s)) /\ ~(pc[r] = "syncing" /\ Claim(s))
        /\ ~(ReadMapping(r) /\ HoldsKey(s))
    BY DEF LocksKept, Claim, UserFree, ReadMapping, UserUnused
  <2>4. ~(ReadMapping(r) /\ Claim(s))
    BY DEF ReadMapping, Claim, Goto, TypeOK
  <2> QED BY <2>2, <2>3, <2>4
<1>4. ASSUME NEW s \in Requests, pc'[s] = "locked" PROVE Creates(s)' /\ Member'
  <2>1. (pc[s] = "locked" \/ Lock(s)) /\ request'[s] = request[s]
    BY <1>4, Holding
  <2>2. Creates(s) /\ Member /\ HoldsKey(s)
    BY <2>1 DEF LocksKept, Lock, HoldsKey
  <2> QED BY <2>1, <2>2, MemberStays DEF Creates
<1>5. ASSUME NEW r \in Requests, NEW s \in Requests, NEW a \in Apps, r # s,
             HoldsApp(r, a)', HoldsApp(s, a)'
      PROVE  FALSE
  <2>1. /\ HoldsApp(r, a) \/ (Lock(r) /\ request[r].body.of = a)
        /\ HoldsApp(s, a) \/ (Lock(s) /\ request[s].body.of = a)
    BY <1>5, Holding
  <2>2. ~(HoldsApp(r, a) /\ HoldsApp(s, a))
    BY <1>5 DEF LocksKept
  <2>3. ~(Lock(r) /\ request[r].body.of = a /\ HoldsApp(s, a))
        /\ ~(Lock(s) /\ request[s].body.of = a /\ HoldsApp(r, a))
    BY DEF Lock, AppFree
  <2>4. ~(Lock(r) /\ Lock(s))
    BY <1>5 DEF Lock, Goto, TypeOK
  <2> QED BY <2>1, <2>2, <2>3, <2>4
<1>6. ASSUME NEW r \in Requests, NEW s \in Requests, r # s, pc'[r] = "closing",
             pc'[s] = "closing", draft'[r].ws # 0
      PROVE  draft'[r].ws # draft'[s].ws
  <2>1. /\ (pc[r] = "closing" /\ draft'[r] = draft[r]) \/ Drafts(r)
        /\ (pc[s] = "closing" /\ draft'[s] = draft[s]) \/ Drafts(s)
    BY <1>6, Holding
  <2>2. CASE pc[r] = "closing" /\ draft'[r] = draft[r] /\ pc[s] = "closing" /\ draft'[s] = draft[s]
    BY <1>6, <2>2 DEF LocksKept
  <2>3. ~(Drafts(r) /\ Drafts(s))
    <3>1. SUFFICES ASSUME Drafts(r), Drafts(s) PROVE FALSE
      OBVIOUS
    <3>2. pc'[r] # pc[r] /\ pc'[s] # pc[s]
      BY <3>1 DEF Drafts
    <3> QED BY <1>6, <3>2, OneMoves DEF Others
  <2>4. CASE Drafts(r) /\ pc[s] = "closing" /\ draft'[s] = draft[s]
    BY <1>6, <2>4, DraftsApart
  <2>5. CASE Drafts(s) /\ pc[r] = "closing" /\ draft'[r] = draft[r]
    BY <1>6, <2>5, DraftsApart
  <2> QED BY <2>1, <2>2, <2>3, <2>4, <2>5
<1> QED BY <1>1, <1>2, <1>3, <1>4, <1>5, <1>6 DEF LocksKept
\* What a transaction commits is not what another one has locked.
LEMMA OthersCommit ==
    ASSUME TypeOK, RequestsKept, RowsKept, LocksKept, DraftsKept,
           NEW r \in Requests, Commit(r), NEW s \in Requests, s # r, pc[s] = "closing"
    PROVE  /\ draft[s].ws \in Seqs =>
                  /\ workspaces'[draft[s].ws] = workspaces[draft[s].ws]
                  /\ \A e \in events' : e.ws = draft[s].ws => e \in events
           /\ \A a \in Apps : HoldsApp(s, a) /\ ActiveOf(a) = {} => ActiveOf(a)' = {}
<1>1. CASE CommitNothing(r)
  BY <1>1 DEF CommitNothing, ActiveOf
<1>2. pc[r] = "closing"
  BY DEF Commit
<1>3. ASSUME NEW row, CommitRow(r, row)
      PROVE  /\ draft[s].ws \in Seqs =>
                    /\ workspaces'[draft[s].ws] = workspaces[draft[s].ws]
                    /\ \A e \in events' : e.ws = draft[s].ws => e \in events
             /\ workspaces' = [workspaces EXCEPT ![draft[r].ws] = row] /\ draft[r].ws \in Seqs
  <2> DEFINE e0 == [seq |-> draft[r].seq, ws |-> draft[r].ws, state |-> row.state]
  <2>1. /\ draft[r].ws \in Seqs /\ draft[r].ws # 0
        /\ workspaces' = [workspaces EXCEPT ![draft[r].ws] = row]
        /\ events' = events \cup {e0} /\ e0.ws = draft[r].ws
    BY <1>3 DEF CommitRow, Seqs
  <2>2. draft[r].ws # draft[s].ws
    BY <1>2, <2>1 DEF LocksKept
  <2> HIDE DEF e0
  <2> QED BY <2>1, <2>2 DEF TypeOK
<1>4. CASE CommitMakes(r)
  <2> DEFINE b == request[r].body.of  row == [app |-> b, state |-> "ready", version |-> 1]
  <2>1. CommitRow(r, row) /\ row.app = b /\ request[r].body.op = "create" /\ draft[r].seq # 0
    BY <1>4 DEF CommitMakes, CommitRow, Seqs
  <2>2. HoldsApp(r, b)
    BY <1>2, <2>1 DEF DraftsKept, CreateHolds, HoldsApp, Creates
  <2>3. ASSUME NEW a \in Apps, HoldsApp(s, a), ActiveOf(a) = {} PROVE ActiveOf(a)' = {}
    <3>1. a # b
      BY <2>2, <2>3 DEF LocksKept
    <3>2. \A w \in Seqs : ~(workspaces[w].app = a /\ workspaces[w].state = "ready")
      BY <2>3 DEF ActiveOf
    <3> HIDE DEF row, b
    <3>3. \A w \in Seqs : ~(workspaces'[w].app = a /\ workspaces'[w].state = "ready")
      BY <1>3, <2>1, <3>1, <3>2 DEF TypeOK
    <3> QED BY <3>3 DEF ActiveOf
  <2> QED BY <1>3, <2>1, <2>3
<1>5. CASE CommitStops(r)
  <2> DEFINE row == [app |-> workspaces[draft[r].ws].app, state |-> "stopped", version |-> 2]
  <2>1. CommitRow(r, row) /\ row.state # "ready"
    BY <1>5 DEF CommitStops
  <2>2. ASSUME NEW a \in Apps, HoldsApp(s, a), ActiveOf(a) = {} PROVE ActiveOf(a)' = {}
    <3>1. \A w \in Seqs : ~(workspaces[w].app = a /\ workspaces[w].state = "ready")
      BY <2>2 DEF ActiveOf
    <3> HIDE DEF row
    <3>2. \A w \in Seqs : ~(workspaces'[w].app = a /\ workspaces'[w].state = "ready")
      BY <1>3, <2>1, <3>1 DEF TypeOK
    <3> QED BY <3>2 DEF ActiveOf
  <2> QED BY <1>3, <2>1, <2>2
<1> QED BY <1>1, <1>4, <1>5, CommitRows

\* A draft that is written is true when it is written.
LEMMA DraftIsTrue ==
    ASSUME TypeOK, RequestsKept, LocksKept, RowsKept, NumbersSuffice, EventsKept, Next,
           NEW s \in Requests, Drafts(s)
    PROVE  /\ Creates(s)' => CreateHolds(s)'
           /\ request'[s].body.op = "stop" => StopHolds(s)'
           /\ request'[s].body.op = "cancel" => draft'[s] = [status |-> 503, ws |-> 0, seq |-> 0]
           /\ draft'[s].seq # 0 =>
                  \A e \in events' : e.ws = draft'[s].ws => e.seq < draft'[s].seq
<1> USE DEF Creates
<1>1. /\ request'[s] = request[s] /\ request[s].body \in Bodies
      /\ request[s].body.op = "stop" => workspaces[request[s].body.of] # Absent
      /\ pc[s] \notin {"idle", "closing"}
  BY DEF Drafts, RequestsKept
<1>2. nextSeq \in Nat /\ nextSeq + 1 \in Seqs /\ \A e \in events : e.seq \in Nat /\ e.seq <= nextSeq
  <2>1. nextSeq \in Nat /\ \A e \in events : e.seq \in Nat
    BY GatewayAssumption DEF TypeOK, Seqs
  <2> QED BY <1>1, <2>1, NumberIsLeft DEF EventsKept
<1>3. UNCHANGED <<direct, granted, workspaces, events>>
  BY DEF Drafts, Forbid, FindExisting, Insert, SelectToStop, Decline, tables
<1>4. (Member' <=> Member) /\ \A a : ActiveOf(a)' = ActiveOf(a)
  BY <1>3 DEF Member, ActiveOf
<1>5. CASE Forbid(s)
  <2>1. draft'[s] = [status |-> 403, ws |-> 0, seq |-> 0] /\ request[s].body.op = "create"
    BY <1>5 DEF Forbid, Write, TypeOK
  <2> QED BY <1>1, <1>4, <2>1 DEF CreateHolds
<1>6. CASE Decline(s)
  <2>1. draft'[s] = [status |-> 503, ws |-> 0, seq |-> 0] /\ request[s].body.op = "cancel"
    BY <1>6 DEF Decline, Write, TypeOK
  <2> QED BY <1>1, <2>1
<1>7. CASE FindExisting(s)
  <2>1. PICK w \in ActiveOf(request[s].body.of) : Write(s, 409, w, 0)
    BY <1>7 DEF FindExisting
  <2>2. draft'[s] = [status |-> 409, ws |-> w, seq |-> 0]
    BY <2>1 DEF Write, TypeOK
  <2>3. request[s].body.op = "create" /\ Member
    BY <1>7 DEF FindExisting, LocksKept
  <2> QED BY <1>1, <1>4, <2>1, <2>2, <2>3 DEF CreateHolds
<1>8. CASE Insert(s)
  <2>1. /\ draft'[s] = [status |-> 201, ws |-> nextSeq + 1, seq |-> nextSeq + 1]
        /\ nextSeq' = nextSeq + 1 /\ ActiveOf(request[s].body.of) = {}
    BY <1>8 DEF Insert, Write, TypeOK
  <2>2. request[s].body.op = "create" /\ Member
    BY <1>8 DEF Insert, LocksKept
  <2>3. nextSeq + 1 \in 1..nextSeq'
    BY <1>2, <2>1
  <2>4. workspaces[nextSeq + 1] = Absent
    BY <1>2 DEF RowsKept
  <2>5. CreateHolds(s)'
    BY <1>1, <1>3, <1>4, <2>1, <2>2, <2>3, <2>4 DEF CreateHolds
  <2>6. \A e \in events' : e.ws = draft'[s].ws => e.seq < draft'[s].seq
    BY <1>2, <1>3, <2>1
  <2> QED BY <1>1, <2>2, <2>5, <2>6
<1>9. CASE SelectToStop(s)
  <2> DEFINE w == request[s].body.of
  <2>1. request[s].body.op = "stop" /\ w \in Seqs /\ workspaces[w] # Absent
    BY <1>1, <1>9, BodyCases DEF SelectToStop
  <2>2. \/ draft'[s] = [status |-> 404, ws |-> 0, seq |-> 0] /\ ~Member
        \/ draft'[s] = [status |-> 202, ws |-> w, seq |-> 0] /\ Member /\ workspaces[w].state = "stopped"
        \/ /\ draft'[s] = [status |-> 202, ws |-> w, seq |-> nextSeq + 1] /\ Member
           /\ workspaces[w].state # "stopped" /\ nextSeq' = nextSeq + 1
    BY <1>9 DEF SelectToStop, Write, TypeOK
  <2>3. workspaces[w].state \in {"ready", "stopped"}
    BY <2>1 DEF RowsKept
  <2>4. StopHolds(s)'
    <3>1. nextSeq' = nextSeq + 1 => nextSeq + 1 \in 1..nextSeq'
      BY <1>2
    <3> HIDE DEF w
    <3> QED BY <1>1, <1>3, <1>4, <2>2, <2>3, <3>1 DEF StopHolds, w
  <2>5. draft'[s].seq # 0 => \A e \in events' : e.ws = draft'[s].ws => e.seq < draft'[s].seq
    BY <1>2, <1>3, <2>2
  <2> QED BY <1>1, <2>1, <2>4, <2>5
<1> QED BY <1>5, <1>6, <1>7, <1>8, <1>9 DEF Drafts

\* What a transaction has read is not changed by another before it commits.
LEMMA DraftsStep ==
    ASSUME TypeOK, RequestsKept, LocksKept, RowsKept, NumbersSuffice, DraftsKept, EventsKept, Next
    PROVE  DraftsKept'
<1> SUFFICES ASSUME NEW s \in Requests, pc'[s] = "closing"
             PROVE  /\ Creates(s)' => CreateHolds(s)'
                    /\ request'[s].body.op = "stop" => StopHolds(s)'
                    /\ request'[s].body.op = "cancel" => draft'[s] = [status |-> 503, ws |-> 0, seq |-> 0]
                    /\ draft'[s].seq # 0 =>
                           \A e \in events' : e.ws = draft'[s].ws => e.seq < draft'[s].seq
  BY DEF DraftsKept
<1>1. request'[s] = request[s]
  BY Holding
<1>2. CASE Drafts(s)
  BY <1>2, DraftIsTrue
<1>3. CASE pc[s] = "closing" /\ draft'[s] = draft[s]
  <2> DEFINE d == draft[s]  b == request[s].body
  <2>1. b \in Bodies /\ (b.op = "stop" => b.of \in Seqs) /\ (b.op = "create" => b.of \in Apps)
    BY <1>3, BodyCases DEF RequestsKept
  <2>2. Member' <=> Member
    BY <1>3, MemberStays DEF HoldsKey
  <2>3. nextSeq \in Nat /\ nextSeq' \in Nat /\ \A n \in 1..nextSeq : n \in 1..nextSeq'
    BY Frames, GatewayAssumption DEF TypeOK
  <2>4. d.ws \in Seqs \/ d.ws = 0
    BY GatewayAssumption DEF TypeOK, Seqs
  <2>5. /\ d.ws \in Seqs => /\ workspaces'[d.ws] = workspaces[d.ws]
                            /\ \A e \in events' : e.ws = d.ws => e \in events
        /\ \A a \in Apps : HoldsApp(s, a) /\ ActiveOf(a) = {} => ActiveOf(a)' = {}
    <3>1. CASE UNCHANGED <<workspaces, events>>
      BY <3>1 DEF ActiveOf
    <3>2. ASSUME NEW r \in Requests, Commit(r)
          PROVE  /\ d.ws \in Seqs => /\ workspaces'[d.ws] = workspaces[d.ws]
                                     /\ \A e \in events' : e.ws = d.ws => e \in events
                 /\ \A a \in Apps : HoldsApp(s, a) /\ ActiveOf(a) = {} => ActiveOf(a)' = {}
      <4>1. r # s
        BY <3>2 DEF Commit, End, Goto, TypeOK
      <4> QED BY <1>3, <3>2, <4>1, OthersCommit
    <3> QED BY <3>1, <3>2, Frames
  <2>6. ASSUME b.op = "create" PROVE CreateHolds(s)'
    <3>1. CreateHolds(s) /\ b.of \in Apps
      BY <1>3, <2>1, <2>6 DEF DraftsKept, Creates
    <3>2. CASE d.status = 403 /\ d.ws = 0 /\ d.seq = 0
      BY <1>3, <2>2, <3>2 DEF CreateHolds
    <3>3. CASE d.status = 409 /\ d.ws \in ActiveOf(b.of) /\ d.seq = 0 /\ Member
      <4>1. d.ws \in Seqs /\ d.ws \in ActiveOf(b.of)'
        BY <1>1, <2>5, <3>3 DEF ActiveOf
      <4> QED BY <1>1, <1>3, <2>2, <3>3, <4>1 DEF CreateHolds
    <3>4. CASE /\ d.status = 201 /\ d.ws \in 1..nextSeq /\ d.seq = d.ws /\ Member
               /\ ActiveOf(b.of) = {} /\ workspaces[d.ws] = Absent
      <4>1. d.ws \in Seqs /\ HoldsApp(s, b.of)
        BY <1>3, <2>3, <2>4, <2>6, <3>4 DEF HoldsApp, Creates
      <4>2. ActiveOf(b.of)' = {} /\ workspaces'[d.ws] = Absent
        BY <1>1, <2>5, <3>1, <3>4, <4>1 DEF ActiveOf
      <4> QED BY <1>1, <1>3, <2>2, <2>3, <3>4, <4>2 DEF CreateHolds
    <3> QED BY <3>1, <3>2, <3>3, <3>4 DEF CreateHolds
  <2>7. ASSUME b.op = "stop" PROVE StopHolds(s)'
    <3>1. StopHolds(s) /\ b.of \in Seqs
      BY <1>3, <2>1, <2>7 DEF DraftsKept
    <3> QED BY <1>1, <1>3, <2>2, <2>3, <2>5, <3>1 DEF StopHolds
  <2>8. b.op = "cancel" => d = [status |-> 503, ws |-> 0, seq |-> 0]
    BY <1>3 DEF DraftsKept
  <2>9. ASSUME d.seq # 0 PROVE \A e \in events' : e.ws = d.ws => e.seq < d.seq
    <3>1. \A e \in events : e.ws = d.ws => e.seq < d.seq
      BY <1>3, <2>9 DEF DraftsKept
    <3>2. d.ws \in Seqs \/ \A e \in events' : e.ws # d.ws
      <4>1. events' \subseteq [seq : Seqs, ws : Seqs, state : {"ready", "stopped"}]
        <5>1. TypeOK'
          BY TypeStep
        <5> QED BY <5>1 DEF TypeOK
      <4>2. 0 \notin Seqs
        BY DEF Seqs
      <4> QED BY <2>4, <4>1, <4>2
    <3> QED BY <2>5, <3>1, <3>2
  <2> QED BY <1>1, <1>3, <2>6, <2>7, <2>8, <2>9 DEF Creates
<1> QED BY <1>2, <1>3, Holding
-----------------------------------------------------------------------------
\* The inductive invariant holds at the start.
LEMMA GatewayInit == Init => IInv
<1> SUFFICES ASSUME Init PROVE IInv
  OBVIOUS
<1>1. TypeOK
  BY TypeInit
<1>2. \A r \in Requests : pc[r] = "idle"
  BY DEF Init
<1>3. RequestsKept /\ LocksKept /\ DraftsKept
  BY <1>2 DEF RequestsKept, LocksKept, DraftsKept, HoldsKey, HoldsApp
<1>4. NumbersSuffice
  <2>1. Undrawn = {} /\ nextSeq = 0 /\ arrivals = 0
    BY <1>2 DEF Undrawn, Init
  <2> QED BY <2>1, FS_EmptySet DEF NumbersSuffice
<1>5. \A w \in Seqs : workspaces[w] = Absent
  BY DEF Init
<1>6. RowsKept /\ EventsKept
  BY <1>5 DEF RowsKept, EventsKept, LastEventTellsState, Init
<1>7. OneActivePerApp
  BY <1>5 DEF OneActivePerApp, Absent
<1>8. AnswersKept
  BY DEF Init, AnswersKept, OneEffectPerKey
<1>9. DigestKept
  BY DEF Init, DigestKept
<1> QED BY <1>1, <1>3, <1>4, <1>6, <1>7, <1>8, <1>9 DEF IInv

\* Every step keeps it.
LEMMA GatewayStep == IInv /\ [Next]_vars => IInv'
<1> SUFFICES ASSUME IInv, [Next]_vars PROVE IInv'
  OBVIOUS
<1>1. CASE Next
  BY <1>1, TypeStep, RequestsStep, NumbersStep, LocksStep, RowsStep, DraftsStep, EventsStep,
     ActiveStep, AnswersStep, DigestStep DEF IInv
<1>2. CASE UNCHANGED vars
  <2> USE <1>2 DEF vars, tables, stream
  <2>1. TypeOK'
    BY DEF IInv, TypeOK
  <2>2. RequestsKept' /\ NumbersSuffice'
    BY DEF IInv, RequestsKept, NumbersSuffice, Undrawn
  <2>3. LocksKept'
    BY DEF IInv, LocksKept, HoldsKey, HoldsApp, Creates, Member
  <2>4. RowsKept' /\ OneActivePerApp' /\ DigestKept'
    BY DEF IInv, RowsKept, OneActivePerApp, DigestKept
  <2>5. DraftsKept'
    BY DEF IInv, DraftsKept, CreateHolds, StopHolds, ActiveOf, Creates, Member
  <2>6. EventsKept' /\ AnswersKept'
    BY DEF IInv, EventsKept, LastEventTellsState, AnswersKept, OneEffectPerKey
  <2> QED BY <2>1, <2>2, <2>3, <2>4, <2>5, <2>6 DEF IInv
<1> QED BY <1>1, <1>2

\* What the locks of the transactions keep true is true at every moment.
THEOREM GatewayInvariance == Spec => []IInv
  BY GatewayInit, GatewayStep, PTL DEF Spec

\* The tables and the requests in progress keep their types: no number is handed out
\* beyond the arrivals, no version beyond the second (store.py's tables).
THEOREM GatewayTypeCorrect == Spec => []TypeOK
<1>1. IInv => TypeOK
  BY DEF IInv
<1> QED BY <1>1, GatewayInvariance, PTL

\* However many requests repeat a key, at the same time or later, and whichever of
\* them break off, one of them has an effect at most (run_idempotent).
THEOREM KeyActsOnce == Spec => []OneEffectPerKey
<1>1. IInv => OneEffectPerKey
  BY DEF IInv, AnswersKept
<1> QED BY <1>1, GatewayInvariance, PTL

\* Creations under different keys never leave two active workspaces of one
\* application (the advisory lock of create_on_connection).
THEOREM OneWorkspacePerApp == Spec => []OneActivePerApp
<1>1. IInv => OneActivePerApp
  BY DEF IInv
<1> QED BY <1>1, GatewayInvariance, PTL

\* Who repeats a key with the same request is given the same answer.
THEOREM AnswerIsRemembered == Spec => []SameAnswer
<1>1. IInv => SameAnswer
  <2> SUFFICES ASSUME IInv, NEW x \in told, NEW y \in told, x.key = y.key, x.body = y.body
               PROVE  x = y
    BY DEF SameAnswer
  <2>1. /\ x = [key |-> x.key, body |-> x.body, status |-> x.status, ws |-> x.ws]
        /\ y = [key |-> y.key, body |-> y.body, status |-> y.status, ws |-> y.ws]
    BY DEF IInv, TypeOK
  <2>2. [body |-> x.body, status |-> x.status, ws |-> x.ws]
            = [body |-> y.body, status |-> y.status, ws |-> y.ws]
    BY DEF IInv, AnswersKept
  <2>3. x.status = y.status /\ x.ws = y.ws
    BY <2>2
  <2> QED BY <2>1, <2>3
<1> QED BY <1>1, GatewayInvariance, PTL

\* Of the events of a workspace, the one with the highest number tells its state: the
\* row's lock orders the numbers as it orders the changes (stop_on_connection).
THEOREM EventsAreInOrder == Spec => []LastEventTellsState
<1>1. IInv => LastEventTellsState
  BY DEF IInv, EventsKept
<1> QED BY <1>1, GatewayInvariance, PTL

\* A synchronisation leaves the role of the groups its own request was told of, though
\* it writes nothing when the digest is the one it knows, from whichever request
\* (sync_course_group_memberships). It may overwrite that of a later request.
THEOREM SynchronisationIsExact == Spec => SyncIsExact
<1>1. IInv /\ [Next]_vars =>
        [\A r \in Requests : pc[r] = "syncing" /\ pc'[r] = "admitted"
            => granted' = IF direct = 0 THEN Highest(read[r]) ELSE 0]_vars
  <2> SUFFICES ASSUME IInv, Next, NEW r \in Requests, pc[r] = "syncing", pc'[r] = "admitted"
               PROVE  granted' = IF direct = 0 THEN Highest(read[r]) ELSE 0
    OBVIOUS
  <2>1. Synchronise(r)
    <3>1. GoesOn(r)
      BY OneMoves DEF IInv, Others, Begins, Drafts, Ends
    <3> QED BY <3>1 DEF GoesOn, ReadMapping, Begin, Claim, Lock
  <2>2. CASE KnownDigest(r)
    <3>1. snapshot.selected = read[r] /\ granted' = granted
      BY <2>1, <2>2 DEF Synchronise, KnownDigest
    <3>2. read[r] # {<<>>}
      BY ProvisionedRoles DEF IInv, TypeOK
    <3> QED BY <3>1, <3>2 DEF IInv, DigestKept
  <2>3. CASE ~KnownDigest(r)
    BY <2>1, <2>3 DEF Synchronise, Granted
  <2> QED BY <2>2, <2>3
<1> QED BY <1>1, GatewayInvariance, PTL DEF Spec, SyncIsExact

-----------------------------------------------------------------------------
(* The gateway implements the ledger: a commit is the ledger's step, a       *)
(* synchronisation changes the access, and nothing else is seen of it.       *)

\* The ledger begins empty.
LEMMA LedgerInit == Init => Ledger!Init
<1> SUFFICES ASSUME Init PROVE Ledger!Init
  OBVIOUS
<1>1. Member \in BOOLEAN
  BY DEF Member
<1> QED BY <1>1 DEF Init, Ledger!Init, Ledger!Ids, Ledger!Absent, Ledger!Open, Ledger!NoBody,
                    Seqs, Absent, Open, NoBody

\* A commit settles its key as the ledger does.
LEMMA LedgerCommit ==
    ASSUME IInv, NEW r \in Requests, Commit(r)
    PROVE  Ledger!Next
<1> DEFINE k == request[r].key  b == request[r].body  d == draft[r]
<1>1. /\ pc[r] = "closing" /\ k \in Keys /\ b \in Bodies /\ HoldsKey(r)
      /\ b.op = "stop" => workspaces[b.of] # Absent
  BY DEF Commit, IInv, RequestsKept, HoldsKey
<1>2. keys[k] = Ledger!Open
  BY <1>1 DEF IInv, LocksKept, Open, NoBody, Ledger!Open, Ledger!NoBody
<1>3. /\ b = [op |-> b.op, of |-> b.of] /\ b.op \in {"create", "stop", "cancel"}
      /\ b.op = "create" => b.of \in Apps
      /\ b.op = "stop" => b.of \in Seqs
      /\ b.op = "cancel" => b.of = NoApp
  BY <1>1, BodyCases
<1>4. Member' = Member
  BY DEF Commit, Member
<1>5. keys' = [keys EXCEPT ![k] = [body |-> b, status |-> d.status, ws |-> d.ws]]
  BY DEF Commit
<1>6. workspaces' = Applied(r)
  BY DEF Commit
<1>7. /\ Seqs = Ledger!Ids /\ Absent = Ledger!Absent
      /\ \A w \in Seqs : Ledger!Present(w) <=> workspaces[w] # Absent
      /\ \A a : Ledger!Active(a) = ActiveOf(a)
  <2>1. Seqs = Ledger!Ids /\ Absent = Ledger!Absent
    BY DEF Seqs, Absent, Ledger!Ids, Ledger!Absent
  <2>2. \A w \in Seqs : Ledger!Present(w) <=> workspaces[w] # Absent
    BY <2>1 DEF Ledger!Present
  <2>3. ASSUME NEW a PROVE Ledger!Active(a) = ActiveOf(a)
    BY <2>1, <2>2 DEF Ledger!Active, ActiveOf, Absent
  <2> QED BY <2>1, <2>2, <2>3
<1>8. CASE b.op = "create"
  <2>1. Ledger!Create(k, b.of)
    <3>1. CreateHolds(r)
      BY <1>1, <1>8 DEF IInv, DraftsKept, Creates
    <3>2. b = [op |-> "create", of |-> b.of]
      BY <1>3, <1>8
    <3>3. CASE d.status = 403 /\ d.ws = 0 /\ d.seq = 0
      <4>1. UNCHANGED workspaces
        BY <1>6, <3>3 DEF Applied
      <4> QED BY <1>2, <1>4, <1>5, <3>2, <3>3, <4>1 DEF Ledger!Create, Ledger!Settle
    <3>4. CASE d.status = 409 /\ d.ws \in ActiveOf(b.of) /\ d.seq = 0 /\ Member
      <4>1. UNCHANGED workspaces
        BY <1>6, <3>4 DEF Applied
      <4> QED BY <1>2, <1>4, <1>5, <1>7, <3>2, <3>4, <4>1 DEF Ledger!Create, Ledger!Settle
    <3>5. CASE /\ d.status = 201 /\ d.ws \in 1..nextSeq /\ d.seq = d.ws /\ Member
               /\ ActiveOf(b.of) = {} /\ workspaces[d.ws] = Absent
      <4>1. d.ws # 0 /\ d.ws \in Seqs
        BY <3>5, GatewayAssumption DEF IInv, TypeOK, Seqs
      <4>2. workspaces' = [workspaces EXCEPT ![d.ws] = [app |-> b.of, state |-> "ready", version |-> 1]]
        BY <1>6, <1>8, <3>5, <4>1 DEF Applied, Creates
      <4>3. Ledger!Active(b.of) = {} /\ d.ws \in Ledger!Ids /\ ~Ledger!Present(d.ws)
        BY <1>7, <3>5, <4>1
      <4>4. Ledger!Settle(k, [op |-> "create", of |-> b.of], 201, d.ws)
        BY <1>5, <3>2, <3>5 DEF Ledger!Settle
      <4> HIDE DEF d, b, k
      <4> QED BY <1>2, <1>4, <3>5, <4>2, <4>3, <4>4 DEF Ledger!Create
    <3> QED BY <3>1, <3>3, <3>4, <3>5 DEF CreateHolds
  <2> QED BY <1>1, <1>3, <1>8, <2>1 DEF Ledger!Next
<1>9. CASE b.op = "stop"
  <2>1. Ledger!Stop(k, b.of)
    <3>1. StopHolds(r)
      BY <1>1, <1>9 DEF IInv, DraftsKept
    <3>2. b = [op |-> "stop", of |-> b.of] /\ Ledger!Present(b.of) /\ b.of \in Seqs /\ ~Creates(r)
      BY <1>1, <1>3, <1>7, <1>9 DEF Creates
    <3>3. CASE d.status = 404 /\ d.ws = 0 /\ d.seq = 0 /\ ~Member
      <4>1. UNCHANGED workspaces
        BY <1>6, <3>3 DEF Applied
      <4> QED BY <1>2, <1>4, <1>5, <3>2, <3>3, <4>1 DEF Ledger!Stop, Ledger!Settle
    <3>4. CASE d.status = 202 /\ d.ws = b.of /\ d.seq = 0 /\ Member /\ workspaces[b.of].state = "stopped"
      <4>1. UNCHANGED workspaces
        BY <1>6, <3>4 DEF Applied
      <4> QED BY <1>2, <1>4, <1>5, <3>2, <3>4, <4>1 DEF Ledger!Stop, Ledger!Settle
    <3>5. CASE /\ d.status = 202 /\ d.ws = b.of /\ d.seq \in 1..nextSeq /\ Member
               /\ workspaces[b.of].state = "ready"
      <4>1. d.seq # 0
        BY <3>5
      <4>2. workspaces' = [workspaces EXCEPT ![b.of] = [app |-> @.app, state |-> "stopped",
                                                        version |-> @.version + 1]]
        BY <1>6, <3>2, <3>5, <4>1 DEF Applied
      <4> QED BY <1>2, <1>4, <1>5, <3>2, <3>5, <4>2 DEF Ledger!Stop, Ledger!Settle
    <3> QED BY <3>1, <3>3, <3>4, <3>5 DEF StopHolds
  <2> QED BY <1>1, <1>3, <1>7, <1>9, <2>1 DEF Ledger!Next
<1>10. CASE b.op = "cancel"
  <2>1. d = [status |-> 503, ws |-> 0, seq |-> 0]
    BY <1>1, <1>10 DEF IInv, DraftsKept
  <2>2. workspaces' = workspaces
    BY <1>6, <2>1 DEF Applied
  <2>3. b = [op |-> "cancel", of |-> NoApp]
    BY <1>3, <1>10
  <2>4. Ledger!Decline(k)
    BY <1>2, <1>4, <1>5, <2>1, <2>2, <2>3 DEF Ledger!Decline, Ledger!Settle
  <2> QED BY <1>1, <2>4 DEF Ledger!Next
<1> QED BY <1>3, <1>8, <1>9, <1>10

\* A statement is a step of the ledger, or leaves it alone.
LEMMA LedgerStep == IInv /\ [Next]_vars => [Ledger!Next]_(Ledger!ledger)
<1> SUFFICES ASSUME IInv, [Next]_vars PROVE [Ledger!Next]_(Ledger!ledger)
  OBVIOUS
<1>1. CASE UNCHANGED vars
  BY <1>1 DEF vars, tables, Ledger!ledger, Member
<1>2. ASSUME NEW r \in Requests, Commit(r) PROVE Ledger!Next
  BY <1>2, LedgerCommit
<1>3. ASSUME NEW r \in Requests, Synchronise(r) PROVE Ledger!Next
  <2>1. UNCHANGED <<workspaces, keys>> /\ Member' \in BOOLEAN
    BY <1>3 DEF Synchronise, Member
  <2> QED BY <2>1 DEF Ledger!Next, Ledger!AccessChanges
<1>4. CASE UNCHANGED <<keys, workspaces, direct, granted>>
  BY <1>4 DEF Ledger!ledger, Member
<1>5. CASE Next
  BY <1>2, <1>3, <1>4, <1>5, Frames
<1> QED BY <1>1, <1>5

\* To its clients the gateway is the ledger: each key is executed once, in one step,
\* against the tables of that moment, and its outcome stands (run_idempotent,
\* create_on_connection, stop_on_connection).
THEOREM GatewayIsLedger == Spec => IsLedger
  BY LedgerInit, LedgerStep, GatewayInvariance, PTL DEF Spec, IsLedger, Ledger!Spec
-----------------------------------------------------------------------------
\* A request that takes a step was not waiting, unless it is forbidden what it would
\* wait for: what Waits says is what the guards of the statements ask for.
LEMMA WhoGoesOnDoesNotWait ==
    ASSUME NEW r \in Requests, Statement(r), ~Forbid(r)
    PROVE  pc[r] # "idle" /\ ~Waits(r)
<1> USE DEF Waits
<1>1. CASE ReadMapping(r) \/ Synchronise(r) \/ Begin(r) \/ Commit(r)
  BY <1>1 DEF ReadMapping, Synchronise, Begin, Commit
<1>2. CASE Claim(r) \/ Replay(r)
  BY <1>2 DEF Claim, Replay
<1>3. CASE Lock(r) \/ SelectToStop(r) \/ Decline(r)
  BY <1>3 DEF Lock, SelectToStop, Decline, Creates
<1>4. CASE FindExisting(r) \/ Insert(r)
  BY <1>4 DEF FindExisting, Insert
<1> QED BY <1>1, <1>2, <1>3, <1>4 DEF Statement

\* The locks are taken in an order: the one that has come furthest does not wait.
LEMMA NobodyIsStuck == TypeOK /\ RequestsKept => Progress
<1> SUFFICES ASSUME TypeOK, RequestsKept, NEW q \in Requests, pc[q] # "idle"
             PROVE  \E r \in Requests : pc[r] # "idle" /\ ~Waits(r)
  BY DEF Progress
<1> DEFINE At(where) == \E r \in Requests : pc[r] = where
<1>1. ASSUME NEW r \in Requests, pc[r] \in {"syncing", "admitted", "closing"}
      PROVE  pc[r] # "idle" /\ ~Waits(r)
  BY <1>1 DEF Waits
<1>2. CASE At("syncing") \/ At("admitted") \/ At("closing")
  BY <1>1, <1>2
<1>3. CASE ~At("closing") /\ At("locked")
  <2>1. PICK r \in Requests : pc[r] = "locked"
    BY <1>3
  <2>2. \A w : RowFree(w)
    BY <1>3 DEF RowFree
  <2> QED BY <2>1, <2>2 DEF Waits
<1>4. CASE ~At("closing") /\ ~At("locked") /\ At("claimed")
  <2>1. PICK r \in Requests : pc[r] = "claimed"
    BY <1>4
  <2>2. \A w : RowFree(w) /\ AppFree(w)
    BY <1>4 DEF RowFree, AppFree, HoldsApp
  <2> QED BY <2>1, <2>2 DEF Waits
<1>5. CASE ~At("closing") /\ ~At("locked") /\ ~At("claimed") /\ ~At("syncing")
  <2>1. UserUnused /\ \A k : KeyFree(k)
    BY <1>5 DEF UserUnused, UserFree, KeyFree, HoldsKey
  <2>2. pc[q] \notin {"claimed", "locked"}
    BY <1>5
  <2> QED BY <2>1, <2>2 DEF Waits, UserUnused
<1> QED BY <1>2, <1>3, <1>4, <1>5

\* Requests of one actor do not wait for each other in a circle over the actor's row,
\* the keys, the advisory locks and the workspace rows, however many requests, keys,
\* applications and workspaces there are: while one is in progress, one holds all of
\* these that its next statement needs (the order of the locks in store.py, server.py).
THEOREM NobodyWaitsInACircle == Spec => []Progress
<1>1. IInv => Progress
  BY NobodyIsStuck DEF IInv
<1> QED BY <1>1, GatewayInvariance, PTL
=============================================================================
