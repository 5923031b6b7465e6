----------------------------- MODULE MCByteOrder -----------------------------
(* Model-checking instances of ByteOrder.  Over two byte values every      *)
(* permutation of the bytes of a value is told apart from every other.     *)
EXTENDS ByteOrder
=============================================================================
