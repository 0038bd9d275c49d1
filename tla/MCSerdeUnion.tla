---------------------------- MODULE MCSerdeUnion ----------------------------
(* A one-byte header and a two-byte union whose members are one and two  *)
(* bytes long (msi against pad), over the byte values 0, 1 and 2.      *)
EXTENDS SerdeUnion, TLC

MCMemberLen == [msi |-> 1, pad |-> 2]
=============================================================================
