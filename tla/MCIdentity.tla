------------------------------ MODULE MCIdentity ------------------------------
(* Instances of Identity for TLC: the values are in the .cfg file.           *)
EXTENDS Identity, TLC

Perms == Permutations(Phones) \cup Permutations(Workers)
=============================================================================
