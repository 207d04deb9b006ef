--------------------------- MODULE MCMessageUClient ---------------------------
(***************************************************************************)
(* Instances of the clients for TLC.                                       *)
(***************************************************************************)
EXTENDS MessageUClient, TLC

CONSTANTS p1, p2, n1, n2

\* Every user has a name of its own.
Own == [p \in Program |-> IF p = p1 THEN {n1} ELSE {n2}]

\* Every user may choose any name.
Shared == [p \in Program |-> Username]

\* The first name is a beginning of the second, and the empty name of both.
Beginnings == [name \in AnyName |-> IF name = n2 THEN {n1, EmptyName} ELSE {EmptyName}]

\* The programs are interchangeable, with their names where each has its own.
Swap == (p1 :> p2) @@ (p2 :> p1) @@ (n1 :> n2) @@ (n2 :> n1)

OwnSymmetry == Permutations(UUID) \cup Permutations(Key) \cup {Swap}
UUIDSymmetry == Permutations(UUID)
SharedSymmetry ==
  Permutations(UUID) \cup Permutations(Program) \cup Permutations(Username)
===============================================================================
