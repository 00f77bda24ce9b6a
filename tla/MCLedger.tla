------------------------------ MODULE MCLedger ------------------------------
\* A free trial that may be had once, with a monthly quota, and a plan to pay for,
\* with one quota; a code for money and one for the trial.
EXTENDS Ledger, TLC

CONSTANTS trial, gold, money, card

Prices == (trial :> 0) @@ (gold :> 1)
Durations == (trial :> 1) @@ (gold :> 1)
Limits == (trial :> 1) @@ (gold :> Unlimited)
Rewards == (money :> 1) @@ (card :> trial)
OnlyTrial == {trial}
OnlyGold == {gold}
OneCent == {0, 1}
AnEdit == {[plan |-> gold, status |-> "NONE", months |-> 0],
           [plan |-> NoPlan, status |-> "REVOKED", months |-> 1]}

Symmetry == Permutations(Emails) \cup Permutations(Users)

=============================================================================
