---------------------------- MODULE MCSessionPool ----------------------------
(*****************************************************************************)
(* Small instances of SessionPool for TLC.                                   *)
(*****************************************************************************)
EXTENDS SessionPool, TLC

CONSTANTS h1, h2, s1, s2, s3, s4, s5, w1

OneHost == {h1}
TwoHosts == {h1, h2}

ThreeSessions == {s1, s2, s3}
FourSessions == {s1, s2, s3, s4}
FiveSessions == {s1, s2, s3, s4, s5}

OneSweeper == {w1}

FileOnly == {"file"}

\* Hosts and session ids are interchangeable; no liveness run uses this.
Symmetric == Permutations(Hosts) \cup Permutations(Sessions)
===============================================================================
