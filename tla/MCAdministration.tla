-------------------------- MODULE MCAdministration --------------------------
(* Requests and passwords are interchangeable. *)
EXTENDS Administration, TLC

Symmetry ==
  Permutations(Passwords) \cup Permutations(Logins) \cup Permutations(Changes)
    \cup Permutations(Requests)

=============================================================================
