---------------------------- MODULE MCHttpRegistry ----------------------------
(*****************************************************************************)
(* Small instances of HttpRegistry for TLC.                                  *)
(*****************************************************************************)
EXTENDS HttpRegistry

CONSTANTS r1, r2, s1, s2, s3

TwoRequests == {r1, r2}
ThreeSids == {s1, s2, s3}
===============================================================================
