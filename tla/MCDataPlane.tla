---------------------------- MODULE MCDataPlane ----------------------------
(* Small instances of DataPlane: accounts and slots are interchangeable.   *)
EXTENDS DataPlane, TLC

MCSymmetry == Permutations(Account) \cup Permutations(Slot)
=============================================================================
