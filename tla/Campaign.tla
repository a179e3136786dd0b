------------------------------ MODULE Campaign ------------------------------
(***************************************************************************)
(* What a benchmark script promises: it visits the points of its sweep in  *)
(* order, adds at most one row for each, and writes the table once, when   *)
(* all of them have been visited.  A script that fails writes nothing, and *)
(* only one that is fragile may fail.                                      *)
(***************************************************************************)
EXTENDS Naturals, Sequences

VARIABLES
    plan,    \* number of points of the sweep
    fragile, \* may an exception end the script?
    done,    \* number of points visited
    table,   \* the points that have a row
    phase    \* "running", "saved" or "lost"

campaignVars == <<plan, fragile, done, table, phase>>

CampaignInit ==
    /\ plan \in Nat /\ fragile \in BOOLEAN
    /\ done = 0 /\ table = <<>> /\ phase = "running"

Visit(n) ==
    /\ phase = "running" /\ done < plan
    /\ done' = done + 1
    /\ table' \in {table, Append(table, n)}
    /\ UNCHANGED <<plan, fragile, phase>>

Save ==
    /\ phase = "running" /\ done = plan
    /\ phase' = "saved"
    /\ UNCHANGED <<plan, fragile, done, table>>

Lose ==
    /\ phase = "running" /\ fragile
    /\ phase' = "lost"
    /\ UNCHANGED <<plan, fragile, done, table>>

CampaignNext == Visit(done + 1) \/ Save \/ Lose

CampaignSpec == CampaignInit /\ [][CampaignNext]_campaignVars
=============================================================================
