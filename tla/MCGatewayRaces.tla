--------------------------- MODULE MCGatewayRaces ---------------------------
(***************************************************************************)
(* Instances of Gateway in which requests of one actor overtake each other: *)
(* what the code and its documentation say of them, and what happens.       *)
(***************************************************************************)
EXTENDS Gateway

CONSTANTS g1

VARIABLE refreshed  \* history: a request with the present groups has synchronised

OneProvision == {{<<g1, 1>>}}

MCInit == Init /\ refreshed = FALSE

MCNext ==
    /\ Next
    /\ refreshed' = (groups' = groups
                     /\ \/ refreshed
                        \/ \E r \in Requests : /\ pc[r] = "syncing" /\ pc'[r] = "admitted"
                                               /\ request[r].claims = groups)

MCSpec == MCInit /\ [][MCNext]_<<vars, refreshed>>

-----------------------------------------------------------------------------
\* Once a request with the present groups has synchronised, the memberships are those
\* of the present groups until these change: a "slow stale group snapshot cannot
\* overwrite a newer one" (the comment in sync_course_group_memberships).
NewestGroupsStand == refreshed => snapshot.claims = groups

=============================================================================
