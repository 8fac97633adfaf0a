----------------------------- MODULE MCAccounts -----------------------------
(* Instance of Accounts for TLC: two logins and two calls over two accounts. *)
EXTENDS Accounts, TLC

CONSTANTS a1, a2

Symmetry ==
    Permutations(Browsers) \cup Permutations(Flows) \cup Permutations(Logins)
    \cup Permutations(Calls) \cup Permutations(UserIds)
    \cup Permutations(RefreshTokens)

=============================================================================
