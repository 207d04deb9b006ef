-------------------------------- MODULE MCWire --------------------------------
(***************************************************************************)
(* An instance of the bytes of messages for TLC: lengths of two digits to  *)
(* the base five, so that a field holds up to 24 where the program's holds *)
(* up to 2^32 - 1.                                                         *)
(***************************************************************************)
EXTENDS Wire

\* Nothing, a content whose size has two digits, one whose payload wraps around
\* when it is encrypted, and the longest, whose own size does so, too.
ShortAndLongest == {0, 4, 22, 24}

\* A new server, and one whose numbers are about to outgrow their field.
NewAndWorn == {1, 23}
===============================================================================
