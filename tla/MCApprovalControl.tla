-------------------------- MODULE MCApprovalControl --------------------------
EXTENDS ApprovalControl, TLC

CONSTANTS l1, l2

\* A rule for the whole company on issues of 1 or more, and one for the
\* warehouse of l1 on issues of 2 or more.
MCRules ==
    {[action |-> "issue", threshold |-> 1, locations |-> Locations,
      specificity |-> 1],
     [action |-> "issue", threshold |-> 2, locations |-> {l1},
      specificity |-> 2]}

Symmetry == Permutations(Keys) \union Permutations(Users)

=============================================================================
