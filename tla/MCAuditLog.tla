------------------------------ MODULE MCAuditLog ------------------------------
(*****************************************************************************)
(* An instance of AuditLog: two processes, four generations of two lines,    *)
(* an entry that fits, one that is reduced once and one reduced twice.       *)
(*****************************************************************************)
EXTENDS AuditLog, TLC

Line(full, reduced, minimal) == [full |-> full, reduced |-> reduced, minimal |-> minimal]

MCEntries == {Line(2, 2, 2), Line(5, 2, 1), Line(5, 4, 2)}

Symmetry == Permutations(Writers)
===============================================================================
