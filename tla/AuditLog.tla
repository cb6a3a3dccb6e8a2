------------------------------- MODULE AuditLog -------------------------------
(*****************************************************************************)
(* The audit trail: an append-only file, rotated by size into a fixed        *)
(* number of generations (audit.mjs).  Generation 0 is the file itself,      *)
(* generation i the file with suffix .i.                                     *)
(*                                                                           *)
(* record() runs without giving way, so one process has one call of it at    *)
(* a time; two processes that share the directory (two stdio servers) take   *)
(* their file operations in turns.  An operation on a file may fail, and a   *)
(* process may end between any two of them.                                  *)
(*****************************************************************************)
EXTENDS Integers, FiniteSets

CONSTANTS
  None,
  Writers,     \* the processes that write the log
  MaxFiles,    \* the number of generations kept
  MaxBytes,    \* the size at which a file is rotated
  MaxLine,     \* the ceiling of one line
  Entries,     \* the sizes an entry can have: full, reduced, minimal
  MaxRecords,  \* BOUND: the number of records written
  MaxTorn      \* BOUND: the number of rotations torn

ASSUME LogAssumption ==
  /\ IsFiniteSet(Writers)
  /\ MaxFiles \in Nat \ {0} /\ MaxBytes \in Nat \ {0} /\ MaxLine \in Nat \ {0}
  /\ Entries \subseteq [full : Nat \ {0}, reduced : Nat \ {0}, minimal : 1..MaxLine]
  /\ MaxTorn \in Nat
  /\ None \notin [records : SUBSET [by : Writers, n : Nat], size : Nat]
  /\ None \notin 0..(MaxFiles - 1)

VARIABLES
  gen,         \* by generation: None, or its records and its size
  pc,          \* by process: "idle", "rotate", "open" or "write"
  turn,        \* by process: the step of its rotation, 0 outside
  fd,          \* by process: the generation its open file is now, or None
  written,     \* history: the number of records written
  collided,    \* history: two processes were in record() at once
  failed,      \* history: a rename of a rotation failed
  torn         \* history: the rotations a process ended in after two steps

vars == <<gen, pc, turn, fd, written, collided, failed, torn>>

Generations == 0..(MaxFiles - 1)

Kept == UNION {IF gen[i] = None THEN {} ELSE gen[i].records : i \in Generations}

\* Mutant: a line is written whatever its size.
SerializeWhole(e) == e.full

\* serialize: an entry above the ceiling is reduced, and reduced again.
Serialize(e) ==
  IF e.full <= MaxLine THEN e.full
  ELSE IF e.reduced <= MaxLine THEN e.reduced ELSE e.minimal

-------------------------------------------------------------------------------
Init ==
  /\ gen = [i \in Generations |-> None]
  /\ pc = [w \in Writers |-> "idle"]
  /\ turn = [w \in Writers |-> 0]
  /\ fd = [w \in Writers |-> None]
  /\ written = 0
  /\ collided = FALSE /\ failed = FALSE
  /\ torn = 0

\* Mutant: a file that has reached the limit is not yet rotated.
FullLate(size) == size > MaxBytes

Full(size) == size >= MaxBytes

\* record() begins: rotateIfNeeded stats the file.
Stat(w) ==
  /\ pc[w] = "idle"
  /\ LET rotate == gen[0] # None /\ Full(gen[0].size) /\ MaxFiles > 1
     IN /\ pc' = [pc EXCEPT ![w] = IF rotate THEN "rotate" ELSE "open"]
        /\ turn' = [turn EXCEPT ![w] = IF rotate THEN 1 ELSE 0]
  /\ collided' = (collided \/ \E v \in Writers \ {w} : pc[v] # "idle")
  /\ UNCHANGED <<gen, fd, written, failed, torn>>

\* Mutant: the young generations are moved first.
UpwardTarget(t) == t

\* The generation the t-th step of a rotation renames to: from the oldest down.
Target(t) == MaxFiles - t

\* Mutant: every step renames the file itself.
SourceCurrent(i) == 0

\* The generation it renames.
Source(i) == i - 1

\* One step of the rotation.  A file that is not there is passed over; a rename
\* that fails is too; an open file follows the name it was opened under.
Rename(w) ==
  LET i == Target(turn[w])
      j == Source(i)
      last == turn[w] = MaxFiles - 1
  IN /\ pc[w] = "rotate"
     /\ turn' = [turn EXCEPT ![w] = IF last THEN 0 ELSE @ + 1]
     /\ pc' = [pc EXCEPT ![w] = IF last THEN "open" ELSE "rotate"]
     /\ \/ /\ gen[j] # None
           /\ gen' = [gen EXCEPT ![i] = gen[j], ![j] = None]
           /\ fd' = [v \in Writers |-> IF fd[v] = i THEN None
                                       ELSE IF fd[v] = j THEN i ELSE fd[v]]
           /\ UNCHANGED failed
        \/ gen[j] # None /\ failed' = TRUE /\ UNCHANGED <<gen, fd>>
        \/ gen[j] = None /\ UNCHANGED <<gen, fd, failed>>
     /\ UNCHANGED <<written, collided, torn>>

\* Mutant: the file is opened, but not created.
OpenExisting(w) ==
  /\ pc[w] = "open"
  /\ pc' = [pc EXCEPT ![w] = "write"]
  /\ fd' = [fd EXCEPT ![w] = 0]
  /\ UNCHANGED <<gen, turn, written, collided, failed, torn>>

\* The file is opened for appending, and created if it is not there.
Open(w) ==
  /\ pc[w] = "open"
  /\ pc' = [pc EXCEPT ![w] = "write"]
  /\ fd' = [fd EXCEPT ![w] = 0]
  /\ gen' = IF gen[0] # None THEN gen
            ELSE [gen EXCEPT ![0] = [records |-> {}, size |-> 0]]
  /\ UNCHANGED <<turn, written, collided, failed, torn>>

\* The line is written, synced and the file closed.  What goes to a file that a
\* rotation has unlinked is gone.
Write(w, e) ==
  /\ pc[w] = "write"
  /\ written < MaxRecords
  /\ written' = written + 1
  /\ gen' = IF fd[w] = None THEN gen
            ELSE [gen EXCEPT ![fd[w]] =
                   [records |-> @.records \cup {[by |-> w, n |-> written + 1]},
                    size |-> @.size + Serialize(e)]]
  /\ pc' = [pc EXCEPT ![w] = "idle"]
  /\ fd' = [fd EXCEPT ![w] = None]
  /\ UNCHANGED <<turn, collided, failed, torn>>

\* The open or the write fails, which only the app log tells; or the process
\* ends here, and the next one begins at the stat.  A rotation that ends after
\* its second step leaves a gap below the two oldest generations.
GiveUp(w) ==
  /\ pc[w] # "idle"
  /\ IF turn[w] > 2 THEN torn < MaxTorn /\ torn' = torn + 1 ELSE torn' = torn
  /\ pc' = [pc EXCEPT ![w] = "idle"]
  /\ turn' = [turn EXCEPT ![w] = 0]
  /\ fd' = [fd EXCEPT ![w] = None]
  /\ UNCHANGED <<gen, written, collided, failed>>

Next ==
  \E w \in Writers :
    \/ Stat(w)
    \/ Rename(w)
    \/ Open(w)
    \/ \E e \in Entries : Write(w, e)
    \/ GiveUp(w)

Spec == Init /\ [][Next]_vars

-------------------------------------------------------------------------------
(*****************************************************************************)
(* Every variable has its type.  An open file is one that is there, and a    *)
(* process that writes without one has lost it to another's rotation.        *)
(*****************************************************************************)
TypeOK ==
  /\ gen \in [Generations ->
                {None} \cup [records : SUBSET [by : Writers, n : 1..written], size : Nat]]
  /\ pc \in [Writers -> {"idle", "rotate", "open", "write"}]
  /\ turn \in [Writers -> 0..(MaxFiles - 1)]
  /\ fd \in [Writers -> Generations \cup {None}]
  /\ written \in Nat /\ collided \in BOOLEAN /\ failed \in BOOLEAN /\ torn \in Nat
  /\ \A w \in Writers :
       /\ pc[w] = "rotate" <=> turn[w] # 0
       /\ fd[w] # None => pc[w] = "write" /\ gen[fd[w]] # None

(*****************************************************************************)
(* Each process's records are in order over the generations, an older one    *)
(* below a younger: always, whatever failed, ended or collided               *)
(* (audit.mjs:38-47).                                                        *)
(*****************************************************************************)
WriterOrdered ==
  \A i, j \in Generations : i < j /\ gen[i] # None /\ gen[j] # None =>
    \A r \in gen[i].records, s \in gen[j].records : r.by = s.by => s.n < r.n

(*****************************************************************************)
(* The trail has no hole: what is kept is the newest of what was written,    *)
(* as long as no rename failed and no two processes rotated at once          *)
(* (audit.mjs:38, "oldest dropped, then current -> .1").  A process that     *)
(* ends half way through a rotation makes no hole.                           *)
(*****************************************************************************)
NewestKept ==
  ~ collided /\ ~ failed =>
    \A r \in Kept : \A m \in r.n..written : \E s \in Kept : s.n = m

\* The number of lines that fill a file, all of them of the largest size.
LinesPerFile == (MaxBytes + MaxLine - 1) \div MaxLine

(*****************************************************************************)
(* No entry is big enough to roll the history out: while anything has been   *)
(* dropped, the generations hold at least as many records as fill all but    *)
(* one of them (audit.mjs:51-57).  A rotation torn half way costs one at     *)
(* most: the next drops the oldest although there is a gap (audit.mjs:39-47).*)
(*****************************************************************************)
RecentKept ==
  ~ collided /\ ~ failed /\ Cardinality(Kept) < written =>
    Cardinality(Kept) >= (MaxFiles - 1 - torn) * LinesPerFile

(*****************************************************************************)
(* A file outgrows the limit by at most one line of every process, as long   *)
(* as no rename failed (audit.mjs:37, :89).                                  *)
(*****************************************************************************)
FilesBounded ==
  ~ failed /\ MaxFiles > 1 => \A i \in Generations :
    gen[i] # None => gen[i].size < MaxBytes + Cardinality(Writers) * MaxLine
===============================================================================
