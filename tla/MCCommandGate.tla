--------------------------- MODULE MCCommandGate ---------------------------
(***************************************************************************)
(* Two small instances of CommandGate for TLC, of which a behaviour is one *)
(* or the other: two commands and an interrupt from one page, or one       *)
(* command and two replies to its prompts from two pages.                  *)
(***************************************************************************)
EXTENDS CommandGate, TLC

CONSTANTS p1, p2, w1, w2, i1, i2

VARIABLE prompting   (* which instance it is *)

mcVars == <<vars, prompting>>

(* Of the two replies, and of the two pages, the first comes first.        *)
Within ==
    /\ UNCHANGED prompting
    /\ IF prompting
       THEN /\ sent' \intersect ({w2} \union InterruptIds) = {}
            /\ i2 \in sent' => i1 \in sent'
            /\ w1 \notin Remembered(waiting'[p2])
       ELSE /\ sent' \intersect InputIds = {} /\ raised' = 0
            /\ \A c \in Conns : owner'[c] # p2

MCInit == Init /\ prompting \in BOOLEAN

MCNext == Next /\ Within

(* Fairness of CommandGate, of what takes part in the instance.            *)
MCFairness ==
    /\ \A id \in WorkIds : WF_mcVars(Start(id) /\ Within) /\ WF_mcVars(Finish(id) /\ Within)
    /\ \A c \in Conns :
          /\ WF_mcVars(Receive(c) /\ Within) /\ WF_mcVars(Continue(c) /\ Within)
          /\ WF_mcVars(HandlerExits(c) /\ Within) /\ WF_mcVars(Deliver(c) /\ Within)
    /\ \A p \in Pages : WF_mcVars((\E c \in Conns : Connect(p, c)) /\ Within)

MCSpec == MCInit /\ [][MCNext]_mcVars /\ MCFairness

=============================================================================
