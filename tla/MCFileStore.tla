---------------------------- MODULE MCFileStore ----------------------------
(***************************************************************************)
(* Instances of FileStore for TLC: two names for the same contents, so     *)
(* that two users and a shared picture compete for one reference count.    *)
(***************************************************************************)
EXTENDS FileStore, TLC

CONSTANTS m1

MCDigest == [f \in Files |-> m1]

Symmetry == Permutations(Users) \cup Permutations(Files)

=============================================================================
