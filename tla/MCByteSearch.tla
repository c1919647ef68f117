---------------------------- MODULE MCByteSearch ----------------------------
(* Two byte values are enough to tell a match from a mismatch.             *)
EXTENDS ByteSearch

MCByte == {0, 1}
=============================================================================
