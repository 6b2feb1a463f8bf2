----------------------------- MODULE MCAccounts -----------------------------
(* Accounts on a small instance. *)
EXTENDS Accounts, TLC

\* The two realms share their secrets: only the realm in the token separates
\* them.  Access and refresh secrets differ.
MCSecretOf ==
  [realm \in {"tenant", "platform"} |->
     [kind \in {"access", "refresh"} |-> kind]]

MCSymmetry ==
  Permutations(Tenants) \cup Permutations(Users) \cup Permutations(Requests)
    \cup Permutations(Subdomains) \cup Permutations(Emails)
=============================================================================
