-------------------------- MODULE MCOwnershipLease --------------------------
(* Small instances of OwnershipLease: two duplicates of one worker under   *)
(* one runtime, the same worker under another runtime, and the operator.   *)
EXTENDS OwnershipLease

CONSTANTS p1, p2, p3, adminScope, v1, v2

MCTwoRuntimes == {p1, p3}
MCDuplicates == {p1, p2}
MCScopeOf == [p \in Process |-> adminScope]
MCOwnerOf == [p \in Process |-> IF p = p3 THEN v2 ELSE v1]
=============================================================================
