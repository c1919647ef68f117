---------------------------- MODULE MCApplication ----------------------------
(* Files of up to three bytes, mapped from two bytes on, under two paths;  *)
(* a mapping may still hold a file that no path names.                     *)
EXTENDS Application

CONSTANTS p, q, i, j, s, t

MCContents == { << >>, <<0>>, <<0, 1>>, <<1, 1, 1>> }
=============================================================================
