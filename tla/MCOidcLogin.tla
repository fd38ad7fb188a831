----------------------------- MODULE MCOidcLogin -----------------------------
(* Two logins, of one client or of two, with two key IDs and one rotation.   *)
EXTENDS OidcLogin, TLC

CONSTANTS l1, l2, A, B, k1, k2

MCLogins  == {l1, l2}
MCClients == {A, B}
MCKids    == {k1, k2}
MCPolicies ==
    [skew : {0, 1, 2}, notBefore : {FALSE}] \cup { [skew |-> 1, notBefore |-> TRUE] }

Symmetry == Permutations(MCLogins) \cup Permutations(MCClients) \cup Permutations(MCKids)
=============================================================================
