------------------------------- MODULE Gateway -------------------------------
(***************************************************************************)
(* The hosted gateway: requests of one actor for workspaces of one project. *)
(* Every authenticated request first brings the actor's membership in line  *)
(* with the groups its proxy reported (sync_course_group_memberships), and  *)
(* a mutation then runs in a transaction keyed by its idempotency key       *)
(* (run_idempotent).  Each statement that may wait for a lock is a step.    *)
(* PostgreSQL is modelled by what the code relies on at READ COMMITTED:     *)
(* an insert that meets an uncommitted row of the same key waits for its    *)
(* transaction, FOR UPDATE waits for the holder of the row and reads what   *)
(* it left, a reference to the user's row bars FOR UPDATE on it, advisory   *)
(* locks last until the end of their transaction, and a sequence hands out  *)
(* its numbers at once, committed or not.                                   *)
(***************************************************************************)
EXTENDS Naturals, FiniteSets

CONSTANTS
    Requests,     \* places for requests in progress at the same time
    Keys,         \* idempotency keys
    Apps,         \* applications of the project
    NoApp,        \* no application
    Claims,       \* the sets of groups the identity provider may report
    Provisions,   \* the mappings (sets of <<group, role>>) an operator may provision
    DirectRoles,  \* the roles an operator may have given by hand; 0 is none
    BatchLimit,   \* events read by one poll of a stream
    MaxArrivals,  \* bound: requests that arrive
    MaxChanges    \* bound: changes of groups and mappings

ASSUME GatewayAssumption ==
    /\ NoApp \notin Apps /\ Requests \subseteq Nat
    /\ DirectRoles \subseteq 0..6
    /\ BatchLimit \in Nat \ {0}
    /\ MaxArrivals \in Nat /\ MaxChanges \in Nat
    /\ \A m \in Provisions : \A p \in m : p = <<p[1], p[2]>> /\ p[2] \in 1..6

VARIABLES
    \* the tables
    groups,     \* what the identity provider reports of the actor now
    mapping,    \* course_group_mappings of the project: {<<group, role>>}
    direct,     \* the role of a direct membership, 0 if there is none
    granted,    \* the role of a membership derived from groups, 0 if none
    snapshot,   \* user_group_snapshots: what the digest was taken of
    keys,       \* idempotency_keys, committed rows
    workspaces, \* workspaces, committed rows
    events,     \* platform_events, committed rows
    nextSeq,    \* the last value of the sequence behind event_seq
    \* the requests in progress
    pc,         \* how far each is
    request,    \* what it asks for
    read,       \* the mapping its synchronisation has read
    draft,      \* what its transaction has written and will answer
    \* a client that follows the event stream
    seen,       \* its Last-Event-ID
    got,        \* the numbers of the events it has received
    \* bounds and history
    arrivals,   \* requests that have arrived
    changes,    \* changes of groups and mappings so far
    told,       \* history: the outcomes clients were told
    effects     \* history: <<key, number>> of every committed change

tables == <<mapping, direct, granted, snapshot, keys, workspaces, events, nextSeq>>
stream == <<seen, got>>
vars == <<groups, tables, pc, request, read, draft, stream, arrivals, changes,
          told, effects>>

Seqs == 1..MaxArrivals
Bodies == [op : {"create"}, of : Apps] \cup [op : {"stop"}, of : Seqs]
          \cup [op : {"cancel"}, of : {NoApp}]
NoBody == [op |-> "none", of |-> NoApp]
Open == [body |-> NoBody, status |-> 0, ws |-> 0]
Absent == [app |-> NoApp, state |-> "absent", version |-> 0]
NoRequest == [key |-> 0, body |-> NoBody, claims |-> {}]
NoDraft == [status |-> 0, ws |-> 0, seq |-> 0]

-----------------------------------------------------------------------------
(* What the statements of the requests read and wait for.                   *)

HoldsKey(r) == pc[r] \in {"claimed", "locked", "closing"}
KeyFree(k) == \A s \in Requests : ~(HoldsKey(s) /\ request[s].key = k)

\* The user's row is locked by a synchronisation, and referred to by the
\* idempotency row of every open mutation.
\* Faulty variant: the synchronisation's transaction is open while the handler runs.
UserFreeLate == \A s \in Requests : pc[s] \notin {"syncing", "admitted", "claiming"}
UserFree == \A s \in Requests : pc[s] # "syncing"
UserUnused == UserFree /\ \A s \in Requests : ~HoldsKey(s)

Creates(r) == request[r].body.op = "create"
HoldsApp(s, a) == /\ Creates(s) /\ request[s].body.of = a
                  /\ \/ pc[s] = "locked"
                     \/ pc[s] = "closing" /\ draft[s].status # 403
AppFree(a) == \A s \in Requests : ~HoldsApp(s, a)

\* A row selected FOR UPDATE stays locked until the transaction ends.
RowFree(w) == \A s \in Requests : ~(pc[s] = "closing" /\ draft[s].ws = w)

Member == direct # 0 \/ granted # 0
ActiveOf(a) == {w \in Seqs : workspaces[w].app = a /\ workspaces[w].state = "ready"}

\* The part of the mapping that the groups select, and the role it gives.
Selected(claims, map) == {p \in map : p[1] \in claims}
Highest(sel) == IF sel = {} THEN 0
                ELSE CHOOSE n \in 1..6 : /\ \E p \in sel : p[2] = n
                                         /\ \A p \in sel : p[2] <= n

Goto(r, where) == pc' = [pc EXCEPT ![r] = where]

\* The request ends, with an answer that binds nobody.
End(r) ==
    /\ Goto(r, "idle")
    /\ request' = [request EXCEPT ![r] = NoRequest]
    /\ draft' = [draft EXCEPT ![r] = NoDraft]

\* The client is told the outcome of its key. That the answer may be lost makes no
\* difference: any client may ask anything again at any time (Arrive).
Tell(r, status, w) ==
    told' = told \cup {[key |-> request[r].key, body |-> request[r].body,
                        status |-> status, ws |-> w]}

Write(r, status, w, seq) ==
    draft' = [draft EXCEPT ![r] = [status |-> status, ws |-> w, seq |-> seq]]

-----------------------------------------------------------------------------
(* gateway_middleware: who asks, and what may they do?                      *)

\* A request comes in with the groups of this moment.
Arrive(r, k, body) ==
    /\ pc[r] = "idle" /\ arrivals < MaxArrivals
    /\ \A s \in Requests : s < r => pc[s] # "idle"   \* the first place that is free
    /\ body.op = "stop" => workspaces[body.of] # Absent
    /\ arrivals' = arrivals + 1
    /\ request' = [request EXCEPT ![r] =
                      [key |-> k, body |-> body, claims |-> groups]]
    /\ Goto(r, "arrived")
    /\ UNCHANGED <<groups, tables, read, draft, stream, changes, told, effects>>

\* sync_course_group_memberships waits for the user's row, then reads the mappings.
ReadMapping(r) ==
    /\ pc[r] = "arrived" /\ UserUnused
    /\ read' = [read EXCEPT ![r] = Selected(request[r].claims, mapping)]
    /\ Goto(r, "syncing")
    /\ UNCHANGED <<groups, tables, request, draft, stream, arrivals, changes,
                   told, effects>>

\* Nothing is written when the digest is the one of the last time; otherwise
\* the derived membership is deleted and, where no direct one is, made anew.
\* Faulty variant: the digest is taken of the groups only.
KnownGroups(r) == snapshot.claims = request[r].claims
KnownDigest(r) == snapshot = [claims |-> request[r].claims, selected |-> read[r]]
Granted(r) == IF direct = 0 THEN Highest(read[r]) ELSE 0

Synchronise(r) ==
    /\ pc[r] = "syncing"
    /\ IF KnownDigest(r)
       THEN UNCHANGED <<granted, snapshot>>
       ELSE /\ granted' = Granted(r)
            /\ snapshot' = [claims |-> request[r].claims, selected |-> read[r]]
    /\ read' = [read EXCEPT ![r] = {}]
    /\ Goto(r, "admitted")
    /\ UNCHANGED <<groups, mapping, direct, keys, workspaces, events, nextSeq, request,
                   draft, stream, arrivals, changes, told, effects>>

\* Refused before the transaction: a creation without access to the project, or
\* any mutation with a wrong origin or token, or beyond the rate.
TurnAway(r) ==
    /\ pc[r] = "admitted"
    /\ End(r)
    /\ UNCHANGED <<groups, tables, read, stream, arrivals, changes, told, effects>>

-----------------------------------------------------------------------------
(* run_idempotent: the transaction of a mutation.                           *)

\* The transaction begins with the insertion of its key.
Begin(r) ==
    /\ pc[r] = "admitted"
    /\ Creates(r) => Member
    /\ Goto(r, "claiming")
    /\ UNCHANGED <<groups, tables, request, read, draft, stream, arrivals, changes,
                   told, effects>>

\* Faulty variant: the key is looked up and then inserted, without waiting.
ClaimUnlocked(r) ==
    /\ pc[r] = "claiming"
    /\ UserFree /\ keys[request[r].key] = Open
    /\ Goto(r, "claimed")
    /\ UNCHANGED <<groups, tables, request, read, draft, stream, arrivals, changes,
                   told, effects>>

\* The insertion finds no row of the key, committed or not.
Claim(r) ==
    /\ pc[r] = "claiming"
    /\ UserFree /\ KeyFree(request[r].key) /\ keys[request[r].key] = Open
    /\ Goto(r, "claimed")
    /\ UNCHANGED <<groups, tables, request, read, draft, stream, arrivals, changes,
                   told, effects>>

\* A committed row of the key answers, if the request is the same.
Replay(r) ==
    LET row == keys[request[r].key] IN
    /\ pc[r] = "claiming" /\ KeyFree(request[r].key) /\ row # Open
    /\ IF row.body = request[r].body THEN Tell(r, row.status, row.ws)
                                    ELSE UNCHANGED told
    /\ End(r)
    /\ UNCHANGED <<groups, tables, read, stream, arrivals, changes, effects>>

\* create_on_connection: no membership, or a project that no longer allows the
\* browser, which the operator may have withdrawn since the first check. Which
\* providers a project allows is not modelled, so this may happen at any time.
Forbid(r) ==
    /\ pc[r] = "claimed" /\ Creates(r)
    /\ Write(r, 403, 0, 0)
    /\ Goto(r, "closing")
    /\ UNCHANGED <<groups, tables, request, read, stream, arrivals, changes,
                   told, effects>>

\* Faulty variant: no advisory lock.
LockNothing(r) ==
    /\ pc[r] = "claimed" /\ Creates(r) /\ Member
    /\ Goto(r, "locked")
    /\ UNCHANGED <<groups, tables, request, read, draft, stream, arrivals, changes,
                   told, effects>>

\* Otherwise it waits for the advisory lock of the actor and the application.
Lock(r) ==
    /\ pc[r] = "claimed" /\ Creates(r) /\ Member /\ AppFree(request[r].body.of)
    /\ Goto(r, "locked")
    /\ UNCHANGED <<groups, tables, request, read, draft, stream, arrivals, changes,
                   told, effects>>

\* An active workspace of the application is there: selected FOR UPDATE.
FindExisting(r) ==
    /\ pc[r] = "locked"
    /\ \E w \in ActiveOf(request[r].body.of) : RowFree(w) /\ Write(r, 409, w, 0)
    /\ Goto(r, "closing")
    /\ UNCHANGED <<groups, tables, request, read, stream, arrivals, changes,
                   told, effects>>

\* None is there: the row, its audit and its event are written. The number of
\* the event, which also names the workspace here, is drawn for good.
Insert(r) ==
    /\ pc[r] = "locked" /\ ActiveOf(request[r].body.of) = {}
    /\ nextSeq' = nextSeq + 1
    /\ Write(r, 201, nextSeq', nextSeq')
    /\ Goto(r, "closing")
    /\ UNCHANGED <<groups, mapping, direct, granted, snapshot, keys, workspaces, events,
                   request, read, stream, arrivals, changes, told, effects>>

\* Faulty variant: the row is read without FOR UPDATE.
ReadToStop(r) ==
    LET w == request[r].body.of IN
    /\ pc[r] = "claimed" /\ request[r].body.op = "stop"
    /\ IF ~Member
       THEN Write(r, 404, 0, 0) /\ UNCHANGED nextSeq
       ELSE IF workspaces[w].state = "stopped"
               THEN Write(r, 202, w, 0) /\ UNCHANGED nextSeq
               ELSE nextSeq' = nextSeq + 1 /\ Write(r, 202, w, nextSeq')
    /\ Goto(r, "closing")
    /\ UNCHANGED <<groups, mapping, direct, granted, snapshot, keys, workspaces, events,
                   request, read, stream, arrivals, changes, told, effects>>

\* stop_on_connection: the row is selected FOR UPDATE; a stopped one is left alone.
SelectToStop(r) ==
    LET w == request[r].body.of IN
    /\ pc[r] = "claimed" /\ request[r].body.op = "stop"
    /\ IF ~Member
       THEN Write(r, 404, 0, 0) /\ UNCHANGED nextSeq
       ELSE /\ RowFree(w)
            /\ IF workspaces[w].state = "stopped"
               THEN Write(r, 202, w, 0) /\ UNCHANGED nextSeq
               ELSE nextSeq' = nextSeq + 1 /\ Write(r, 202, w, nextSeq')
    /\ Goto(r, "closing")
    /\ UNCHANGED <<groups, mapping, direct, granted, snapshot, keys, workspaces, events,
                   request, read, stream, arrivals, changes, told, effects>>

\* disabled_cancel: not offered, and remembered as such.
Decline(r) ==
    /\ pc[r] = "claimed" /\ request[r].body.op = "cancel"
    /\ Write(r, 503, 0, 0)
    /\ Goto(r, "closing")
    /\ UNCHANGED <<groups, tables, request, read, stream, arrivals, changes,
                   told, effects>>

\* The outcome is stored with the key, and all of it becomes visible at once.
Applied(r) ==
    LET d == draft[r] IN
    IF d.seq = 0 THEN workspaces
    ELSE [workspaces EXCEPT ![d.ws] =
            IF Creates(r)
            THEN [app |-> request[r].body.of, state |-> "ready", version |-> 1]
            ELSE [app |-> @.app, state |-> "stopped", version |-> @.version + 1]]

\* Faulty variant: only a success is remembered.
CommitSuccess(r) ==
    LET d == draft[r]  k == request[r].key IN
    /\ pc[r] = "closing"
    /\ workspaces' = Applied(r)
    /\ keys' = IF d.status >= 400 THEN keys
               ELSE [keys EXCEPT ![k] = [body |-> request[r].body, status |-> d.status, ws |-> d.ws]]
    /\ IF d.seq = 0 THEN UNCHANGED <<events, effects>>
       ELSE /\ events' = events \cup {[seq |-> d.seq, ws |-> d.ws, state |-> workspaces'[d.ws].state]}
            /\ effects' = effects \cup {<<k, d.seq>>}
    /\ Tell(r, d.status, d.ws)
    /\ End(r)
    /\ UNCHANGED <<groups, mapping, direct, granted, snapshot, nextSeq, read, stream,
                   arrivals, changes>>

Commit(r) ==
    LET d == draft[r]  k == request[r].key IN
    /\ pc[r] = "closing"
    /\ workspaces' = Applied(r)
    /\ keys' = [keys EXCEPT ![k] = [body |-> request[r].body, status |-> d.status, ws |-> d.ws]]
    /\ IF d.seq = 0 THEN UNCHANGED <<events, effects>>
       ELSE /\ events' = events \cup {[seq |-> d.seq, ws |-> d.ws, state |-> workspaces'[d.ws].state]}
            /\ effects' = effects \cup {<<k, d.seq>>}
    /\ Tell(r, d.status, d.ws)
    /\ End(r)
    /\ UNCHANGED <<groups, mapping, direct, granted, snapshot, nextSeq, read, stream,
                   arrivals, changes>>

\* Faulty variant: the event is written on another connection of the pool.
AbortLeavingEvent(r) ==
    /\ pc[r] # "idle"
    /\ End(r)
    /\ read' = [read EXCEPT ![r] = {}]
    /\ events' = IF draft[r].seq = 0 THEN events
                 ELSE events \cup {[seq |-> draft[r].seq, ws |-> draft[r].ws,
                                    state |-> IF Creates(r) THEN "ready" ELSE "stopped"]}
    /\ UNCHANGED <<groups, mapping, direct, granted, snapshot, keys, workspaces, nextSeq,
                   stream, arrivals, changes, told, effects>>

\* A statement times out, the connection breaks or the replica dies: nothing of the
\* transaction remains, but the numbers it drew are gone.
Abort(r) ==
    /\ pc[r] # "idle"
    /\ End(r)
    /\ read' = [read EXCEPT ![r] = {}]
    /\ UNCHANGED <<groups, tables, stream, arrivals, changes, told, effects>>

-----------------------------------------------------------------------------
(* events_stream: a client polls, and resumes after the last event it got.  *)

Visible == {e.seq : e \in {x \in events : Member /\ x.seq > seen}}

\* Rows come by number, at most BatchLimit of them; the link may break after any.
Delivered(upto) == {n \in Visible : n <= upto}
Poll ==
    \E upto \in Visible :
        /\ Cardinality(Delivered(upto)) <= BatchLimit
        /\ got' = got \cup Delivered(upto)
        /\ seen' = upto
        /\ UNCHANGED <<groups, tables, pc, request, read, draft, arrivals, changes,
                       told, effects>>

-----------------------------------------------------------------------------
(* The identity provider and the operator.                                  *)

\* Nobody would notice a change after the last request.
GroupsChange ==
    /\ changes < MaxChanges /\ arrivals < MaxArrivals
    /\ groups' \in Claims \ {groups}
    /\ changes' = changes + 1
    /\ UNCHANGED <<tables, pc, request, read, draft, stream, arrivals, told, effects>>

\* provision replaces the mappings of the project in one transaction.
Provision ==
    /\ changes < MaxChanges
    /\ mapping' \in Provisions \ {mapping}
    /\ changes' = changes + 1
    /\ UNCHANGED <<groups, direct, granted, snapshot, keys, workspaces, events, nextSeq,
                   pc, request, read, draft, stream, arrivals, told, effects>>

Init ==
    /\ groups \in Claims /\ mapping \in Provisions /\ direct \in DirectRoles
    /\ granted = 0
    /\ snapshot = [claims |-> {}, selected |-> {<<>>}]  \* of nothing: no row yet
    /\ keys = [k \in Keys |-> Open]
    /\ workspaces = [w \in Seqs |-> Absent]
    /\ events = {} /\ nextSeq = 0
    /\ pc = [r \in Requests |-> "idle"]
    /\ request = [r \in Requests |-> NoRequest]
    /\ read = [r \in Requests |-> {}]
    /\ draft = [r \in Requests |-> NoDraft]
    /\ seen = 0 /\ got = {}
    /\ arrivals = 0 /\ changes = 0
    /\ told = {} /\ effects = {}

Statement(r) ==
    \/ ReadMapping(r) \/ Synchronise(r)
    \/ Begin(r) \/ Claim(r) \/ Replay(r)
    \/ Forbid(r) \/ Lock(r) \/ FindExisting(r) \/ Insert(r)
    \/ SelectToStop(r) \/ Decline(r) \/ Commit(r)

Next ==
    \/ \E r \in Requests :
          \/ \E k \in Keys, body \in Bodies : Arrive(r, k, body)
          \/ Statement(r) \/ TurnAway(r) \/ Abort(r)
    \/ Poll \/ GroupsChange \/ Provision

Spec == Init /\ [][Next]_vars

-----------------------------------------------------------------------------
(* Properties.                                                              *)

TypeOK ==
    /\ groups \in Claims /\ mapping \in Provisions
    /\ direct \in 0..6 /\ granted \in 0..6
    /\ keys \in [Keys -> [body : Bodies \cup {NoBody}, status : Nat, ws : 0..MaxArrivals]]
    /\ workspaces \in [Seqs -> [app : Apps \cup {NoApp},
                                 state : {"absent", "ready", "stopped"}, version : 0..2]]
    /\ events \subseteq [seq : Seqs, ws : Seqs, state : {"ready", "stopped"}]
    /\ nextSeq \in 0..arrivals /\ arrivals \in 0..MaxArrivals /\ changes \in 0..MaxChanges
    /\ pc \in [Requests -> {"idle", "arrived", "syncing", "admitted", "claiming", "claimed",
                            "locked", "closing"}]
    /\ request \in [Requests -> [key : Keys \cup {0}, body : Bodies \cup {NoBody},
                                  claims : Claims \cup {{}}]]
    /\ read \in [Requests -> SUBSET UNION Provisions]
    /\ draft \in [Requests -> [status : Nat, ws : 0..MaxArrivals, seq : 0..MaxArrivals]]
    /\ seen \in 0..MaxArrivals /\ got \subseteq Seqs
    /\ told \subseteq [key : Keys, body : Bodies, status : Nat, ws : 0..MaxArrivals]
    /\ effects \subseteq Keys \X Seqs

\* A key has one effect at most, however often its request is repeated, while or
\* after the first one runs, and whichever of them break off.
OneEffectPerKey == \A x, y \in effects : x[1] = y[1] => x = y

\* Different keys may ask for the same thing: an application has at most one
\* active workspace (the advisory lock around the check and the insertion).
OneActivePerApp ==
    \A v, w \in Seqs : workspaces[v].state = "ready" /\ workspaces[w].state = "ready"
                        /\ workspaces[v].app = workspaces[w].app => v = w

\* Who asks again with the same key and request is told the same.
SameAnswer ==
    \A x, y \in told : x.key = y.key /\ x.body = y.body => x = y

\* Of the committed events of a workspace the one with the highest number tells the
\* state it is in, although numbers are drawn before the commit and a transaction
\* may end after one that drew later. (Of the table: for who follows it as a stream
\* see ResumeMissesNothing.)
LastEventTellsState ==
    \A w \in Seqs : workspaces[w] # Absent =>
        \E e \in events : /\ e.ws = w /\ e.state = workspaces[w].state
                          /\ \A f \in events : f.ws = w => f.seq <= e.seq

\* When a synchronisation is over the actor has the highest role that the groups of
\* that request have in the mapping it read, also when the digest was known from
\* another request, before or after changes of groups and mapping; a direct membership
\* stands (store.py 106-159; nothing in the repository gives or takes a direct one, so
\* it stays what the operator made it). Of two that overlap either may come last: that
\* the older one does is what MCGatewayRaces shows.
SyncIsExact ==
    [][\A r \in Requests : pc[r] = "syncing" /\ pc'[r] = "admitted"
            => granted' = IF direct = 0 THEN Highest(read[r]) ELSE 0]_vars

\* The next statement of a request waits for what another one holds: the user's row,
\* the key, the application's advisory lock, or a workspace row.
Waits(r) ==
    LET key == request[r].key  b == request[r].body IN
    \/ pc[r] = "arrived" /\ ~UserUnused
    \/ pc[r] = "claiming" /\ (~KeyFree(key) \/ (keys[key] = Open /\ ~UserFree))
    \/ pc[r] = "claimed" /\ Member /\ \/ b.op = "create" /\ ~AppFree(b.of)
                                      \/ b.op = "stop" /\ ~RowFree(b.of)
    \/ pc[r] = "locked" /\ ActiveOf(b.of) # {} /\ \A w \in ActiveOf(b.of) : ~RowFree(w)

\* While requests of the actor are in progress, one of them can go on: the orders in
\* which they take its user row, the key, the advisory lock and a workspace row make
\* no cycle, and none of these outlives its transaction. (The locks that foreign keys
\* take on the rows of projects and applications, for which provision may wait and be
\* waited for, are left out.)
Progress ==
    (\E r \in Requests : pc[r] # "idle") => \E r \in Requests : pc[r] # "idle" /\ ~Waits(r)

\* What the code says of itself, and does not do: a client that resumes the stream
\* after the last number it got has every event up to there (events_stream; the
\* documentation offers "Last-Event-ID" for this).
ResumeMissesNothing == \A e \in events : e.seq <= seen => e.seq \in got

\* The gateway executes each key once, in one step, as the ledger says.
Ledger == INSTANCE WorkspaceLedger WITH
    MaxIds <- MaxArrivals, table <- workspaces, outcome <- keys, member <- Member
IsLedger == Ledger!Spec
=============================================================================
