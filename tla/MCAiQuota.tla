----------------------------- MODULE MCAiQuota -----------------------------
EXTENDS AiQuota, TLC

MCBudgets == {NoBudget, 1}

Symmetry == Permutations(Calls)
=============================================================================
