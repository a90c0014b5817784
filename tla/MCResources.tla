---------------------------- MODULE MCResources -----------------------------
(* A small instance of Resources: two profiles, of which one is not        *)
(* allowed to use ARC.                                                     *)
EXTENDS Resources

CONSTANTS research, course

TwoProfiles == research :> {"arc", "browser"} @@ course :> {"browser"}

StartsWithArc == Init /\ profile = research

(* The behaviours in which every job that ends has run: its node was its.  *)
RunBeforeTheyEnd == \A j \in Jobs : slurm[j] = "PENDING" => slurm'[j] # "ended"
MCRunSpec == StartsWithArc /\ [][Next /\ RunBeforeTheyEnd]_vars

=============================================================================
