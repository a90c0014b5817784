--------------------------- MODULE WorkspaceLedger ---------------------------
(***************************************************************************)
(* What the hosted gateway promises to its clients, without transactions,   *)
(* locks or retries: a request is named by its idempotency key; the first   *)
(* request with a key is executed once, in one step, against the tables as  *)
(* they are at that moment, and its outcome belongs to the key for ever.    *)
(***************************************************************************)
EXTENDS Naturals

CONSTANTS Keys,     \* idempotency keys of one actor
          Apps,     \* applications of one project
          NoApp,    \* no application
          MaxIds    \* workspace ids are 1..MaxIds

VARIABLES table,    \* table[w]: the record of workspace w, Absent at first
          outcome,  \* outcome[k]: the request with key k and its outcome, Open at first
          member    \* may the actor use the project?

ledger == <<table, outcome, member>>

Ids == 1..MaxIds
NoBody == [op |-> "none", of |-> NoApp]
Open == [body |-> NoBody, status |-> 0, ws |-> 0]
Absent == [app |-> NoApp, state |-> "absent", version |-> 0]
Present(w) == table[w] # Absent
Active(a) == {w \in Ids : Present(w) /\ table[w].app = a /\ table[w].state = "ready"}

Settle(k, body, status, w) ==
    outcome' = [outcome EXCEPT ![k] = [body |-> body, status |-> status, ws |-> w]]

\* A workspace is created if the actor may and has none of that application. (The
\* project may be closed to it for reasons that are not in the ledger.)
Create(k, a) ==
    LET body == [op |-> "create", of |-> a] IN
    /\ outcome[k] = Open
    /\ \/ /\ Settle(k, body, 403, 0)
          /\ UNCHANGED table
       \/ \E w \in Active(a) : /\ member
                               /\ Settle(k, body, 409, w)
                               /\ UNCHANGED table
       \/ \E w \in Ids :
            /\ member /\ Active(a) = {} /\ ~Present(w)
            /\ table' = [table EXCEPT ![w] = [app |-> a, state |-> "ready", version |-> 1]]
            /\ Settle(k, body, 201, w)
    /\ UNCHANGED member

\* A workspace is stopped, once; stopping a stopped one changes nothing.
Stop(k, w) ==
    LET body == [op |-> "stop", of |-> w] IN
    /\ outcome[k] = Open
    /\ \/ /\ ~(member /\ Present(w))
          /\ Settle(k, body, 404, 0)
          /\ UNCHANGED table
       \/ /\ member /\ Present(w)
          /\ table' = IF table[w].state = "stopped" THEN table
                      ELSE [table EXCEPT ![w] = [app |-> @.app, state |-> "stopped",
                                                 version |-> @.version + 1]]
          /\ Settle(k, body, 202, w)
    /\ UNCHANGED member

\* What the gateway does not offer changes nothing.
Decline(k) ==
    /\ outcome[k] = Open
    /\ Settle(k, [op |-> "cancel", of |-> NoApp], 503, 0)
    /\ UNCHANGED <<table, member>>

AccessChanges == member' \in BOOLEAN /\ UNCHANGED <<table, outcome>>

Init ==
    /\ table = [w \in Ids |-> Absent]
    /\ outcome = [k \in Keys |-> Open]
    /\ member \in BOOLEAN

Next ==
    \/ \E k \in Keys, a \in Apps : Create(k, a)
    \/ \E k \in Keys, w \in Ids : Stop(k, w)
    \/ \E k \in Keys : Decline(k)
    \/ AccessChanges

Spec == Init /\ [][Next]_ledger
=============================================================================
