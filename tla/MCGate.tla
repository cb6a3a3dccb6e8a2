-------------------------------- MODULE MCGate --------------------------------
(*****************************************************************************)
(* Small instances of Gate for TLC.                                          *)
(*****************************************************************************)
EXTENDS Gate, TLC

CONSTANTS h1, h2, c1, c2, c3

TwoHosts == {h1, h2}
TwoCalls == {c1, c2}
ThreeCalls == {c1, c2, c3}

Unrestricted ==
  [tools |-> Tools, hosts |-> Hosts, writes |-> TRUE, allowToggle |-> TRUE,
   startEnabled |-> FALSE]
ReadOnlyProfile == [Unrestricted EXCEPT !.writes = FALSE, !.startEnabled = TRUE]
Pinned == [Unrestricted EXCEPT !.allowToggle = FALSE]
PinnedWritable == [Pinned EXCEPT !.startEnabled = TRUE]
OneHostOnly == [Unrestricted EXCEPT !.hosts = {h1}, !.startEnabled = TRUE]
NoEscape == [Unrestricted EXCEPT !.tools = Tools \ {"call_api"}]

AllPolicies == {Unrestricted, ReadOnlyProfile, Pinned, PinnedWritable, OneHostOnly, NoEscape}
OpenPolicy == {[Unrestricted EXCEPT !.startEnabled = TRUE]}

\* Calls are interchangeable; hosts are not, for OneHostOnly tells them apart.
Symmetric == Permutations(Calls)
===============================================================================
