---------------------------- MODULE AuditLogProofs ----------------------------
(*****************************************************************************)
(* Proofs about AuditLog: the types, the order of each process's records,    *)
(* the absence of holes, the bound on the size of a file, and the length of  *)
(* the history kept.                                                         *)
(*****************************************************************************)
EXTENDS AuditLog, FiniteSetTheorems, TLAPS

\* A file as the invariants know it.
Files == [records : SUBSET [by : Writers, n : 1..written], size : Nat]

\* A process that is about to write has no record in a younger file than the
\* one it has open.
OpenIsYoungest ==
  \A w \in Writers : fd[w] # None =>
    \A i \in Generations : i < fd[w] /\ gen[i] # None =>
      \A r \in gen[i].records : r.by # w

OInv == TypeOK /\ WriterOrdered /\ OpenIsYoungest

\* No file is the value that stands for its absence.
LEMMA FileIsSome ==
  ASSUME written \in Nat, NEW f \in Files
  PROVE  f # None
<1>1. f \in [records : SUBSET [by : Writers, n : Nat], size : Nat]
  BY DEF Files
<1> QED BY <1>1, LogAssumption

\* The two generations a step of a rotation concerns.
LEMMA StepOfRotation ==
  ASSUME TypeOK, NEW w \in Writers, pc[w] = "rotate"
  PROVE  /\ Target(turn[w]) \in Generations \ {0}
         /\ Source(Target(turn[w])) \in Generations
         /\ Source(Target(turn[w])) = Target(turn[w]) - 1
         /\ turn[w] \in 1..(MaxFiles - 1)
BY LogAssumption DEF TypeOK, Generations, Target, Source

\* A line has a size, and it is under the ceiling.
LEMMA LineSize ==
  ASSUME NEW e \in Entries
  PROVE  Serialize(e) \in 1..MaxLine
BY LogAssumption DEF Serialize

\* What a rename does to the files, the open ones included.
LEMMA Renamed ==
  ASSUME OInv, NEW w \in Writers, pc[w] = "rotate",
         NEW i \in Generations \ {0}, NEW j \in Generations, j = i - 1,
         gen[j] # None,
         gen' = [gen EXCEPT ![i] = gen[j], ![j] = None],
         fd' = [v \in Writers |-> IF fd[v] = i THEN None
                                  ELSE IF fd[v] = j THEN i ELSE fd[v]]
  PROVE  /\ gen' \in [Generations -> {None} \cup Files]
         /\ gen'[i] = gen[j] /\ gen'[j] = None
         /\ \A k \in Generations \ {i, j} : gen'[k] = gen[k]
         /\ fd' \in [Writers -> Generations \cup {None}]
         /\ \A v \in Writers : fd'[v] # None =>
              fd[v] # None /\ fd[v] # i /\ fd'[v] = (IF fd[v] = j THEN i ELSE fd[v])
<1>1. gen \in [Generations -> {None} \cup Files]
  BY DEF OInv, TypeOK, Files
<1>2. i # j
  BY LogAssumption DEF Generations
<1>3. gen' \in [Generations -> {None} \cup Files] /\ gen'[i] = gen[j] /\ gen'[j] = None
      /\ \A k \in Generations \ {i, j} : gen'[k] = gen[k]
  BY <1>1, <1>2
<1>4. fd' \in [Writers -> Generations \cup {None}]
  BY DEF OInv, TypeOK
<1>5. \A v \in Writers : fd'[v] # None =>
        fd[v] # None /\ fd[v] # i /\ fd'[v] = (IF fd[v] = j THEN i ELSE fd[v])
  <2> SUFFICES ASSUME NEW v \in Writers, fd'[v] # None
               PROVE  fd[v] # None /\ fd[v] # i /\ fd'[v] = (IF fd[v] = j THEN i ELSE fd[v])
    OBVIOUS
  <2>1. j # None
    BY LogAssumption DEF Generations
  <2> QED BY <2>1 DEF OInv, TypeOK
<1> QED BY <1>3, <1>4, <1>5

LEMMA OInit == Init => OInv
<1> SUFFICES ASSUME Init PROVE OInv
  OBVIOUS
<1>1. TypeOK
  <2>1. gen \in [Generations -> {None} \cup Files]
    BY DEF Init
  <2>2. turn \in [Writers -> 0..(MaxFiles - 1)]
    BY LogAssumption DEF Init
  <2>3. \A w \in Writers : pc[w] = "idle" /\ turn[w] = 0 /\ fd[w] = None
    BY DEF Init
  <2> QED BY <2>1, <2>2, <2>3 DEF Init, TypeOK, Files
<1>2. WriterOrdered /\ OpenIsYoungest
  BY DEF Init, WriterOrdered, OpenIsYoungest
<1> QED BY <1>1, <1>2 DEF OInv

LEMMA OStat ==
  ASSUME OInv, NEW w \in Writers, Stat(w)
  PROVE  OInv'
<1>1. TypeOK'
  BY LogAssumption DEF OInv, Stat, TypeOK
<1>2. WriterOrdered' /\ OpenIsYoungest'
  BY DEF OInv, Stat, WriterOrdered, OpenIsYoungest
<1> QED BY <1>1, <1>2 DEF OInv

LEMMA ORename ==
  ASSUME OInv, NEW w \in Writers, Rename(w)
  PROVE  OInv'
<1> DEFINE i == Target(turn[w])
<1> DEFINE j == Source(i)
<1> USE DEF OInv
<1>1. /\ i \in Generations \ {0} /\ j \in Generations /\ j = i - 1
      /\ turn[w] \in 1..(MaxFiles - 1) /\ pc[w] = "rotate"
  BY StepOfRotation DEF Rename
<1>2. /\ pc' \in [Writers -> {"idle", "rotate", "open", "write"}]
      /\ turn' \in [Writers -> 0..(MaxFiles - 1)]
      /\ \A v \in Writers : pc'[v] = "rotate" <=> turn'[v] # 0
      /\ \A v \in Writers : pc[v] = "write" => pc'[v] = "write"
  BY <1>1, LogAssumption DEF Rename, TypeOK
<1>3. written' = written /\ collided' = collided /\ torn' = torn /\ failed' \in BOOLEAN
  BY DEF Rename, TypeOK
<1>4. CASE UNCHANGED <<gen, fd>>
  <2>1. TypeOK'
    BY <1>2, <1>3, <1>4 DEF TypeOK
  <2>2. WriterOrdered' /\ OpenIsYoungest'
    BY <1>4 DEF WriterOrdered, OpenIsYoungest
  <2> QED BY <2>1, <2>2
<1>5. CASE /\ gen[j] # None
           /\ gen' = [gen EXCEPT ![i] = gen[j], ![j] = None]
           /\ fd' = [v \in Writers |-> IF fd[v] = i THEN None
                                       ELSE IF fd[v] = j THEN i ELSE fd[v]]
  <2> HIDE DEF i, j
  <2>1. /\ gen' \in [Generations -> {None} \cup Files]
        /\ gen'[i] = gen[j] /\ gen'[j] = None
        /\ \A k \in Generations \ {i, j} : gen'[k] = gen[k]
        /\ fd' \in [Writers -> Generations \cup {None}]
        /\ \A v \in Writers : fd'[v] # None =>
             fd[v] # None /\ fd[v] # i /\ fd'[v] = (IF fd[v] = j THEN i ELSE fd[v])
    BY <1>1, <1>5, Renamed
  <2>2. TypeOK'
    <3>1. ASSUME NEW v \in Writers, fd'[v] # None
          PROVE  pc'[v] = "write" /\ gen'[fd'[v]] # None
      <4>1. fd[v] \in Generations /\ fd[v] # i /\ pc'[v] = "write" /\ gen[fd[v]] # None
        BY <1>2, <2>1, <3>1 DEF TypeOK
      <4>2. CASE fd[v] = j
        BY <1>5, <2>1, <3>1, <4>1, <4>2
      <4>3. CASE fd[v] # j
        BY <2>1, <3>1, <4>1, <4>3
      <4> QED BY <4>2, <4>3
    <3> QED BY <1>2, <1>3, <2>1, <3>1 DEF TypeOK, Files
  <2>3. WriterOrdered'
    <3> SUFFICES ASSUME NEW a \in Generations, NEW b \in Generations, a < b,
                        gen'[a] # None, gen'[b] # None,
                        NEW r \in gen'[a].records, NEW s \in gen'[b].records, r.by = s.by
                 PROVE  s.n < r.n
      BY DEF WriterOrdered
    <3>1. a # j /\ b # j
      BY <2>1
    <3>2. CASE b = i
      <4>1. a < j /\ a # i
        BY <1>1, <3>1, <3>2 DEF Generations
      <4> QED BY <1>1, <1>5, <2>1, <3>1, <3>2, <4>1 DEF WriterOrdered
    <3>3. CASE a = i
      <4>1. j < b /\ b # i
        BY <1>1, <3>3 DEF Generations
      <4> QED BY <1>1, <1>5, <2>1, <3>1, <3>3, <4>1 DEF WriterOrdered
    <3>4. CASE a # i /\ b # i
      BY <2>1, <3>1, <3>4 DEF WriterOrdered
    <3> QED BY <3>2, <3>3, <3>4
  <2>4. OpenIsYoungest'
    <3> SUFFICES ASSUME NEW v \in Writers, fd'[v] # None,
                        NEW a \in Generations, a < fd'[v], gen'[a] # None,
                        NEW r \in gen'[a].records
                 PROVE  r.by # v
      BY DEF OpenIsYoungest
    <3>1. a # j
      BY <2>1
    <3>2. CASE fd[v] = j
      <4>1. a < j /\ a # i
        BY <1>1, <2>1, <3>1, <3>2 DEF Generations
      <4> QED BY <1>1, <2>1, <3>1, <3>2, <4>1 DEF OpenIsYoungest
    <3>3. CASE fd[v] # j
      <4>1. fd'[v] = fd[v] /\ fd[v] # i /\ fd[v] \in Generations
        BY <2>1, <3>3 DEF TypeOK
      <4>2. CASE a = i
        <5>1. j < fd[v]
          BY <1>1, <4>1, <4>2 DEF Generations
        <5> QED BY <1>1, <1>5, <2>1, <4>1, <4>2, <5>1 DEF OpenIsYoungest
      <4>3. CASE a # i
        BY <2>1, <3>1, <4>1, <4>3 DEF OpenIsYoungest
      <4> QED BY <4>2, <4>3
    <3> QED BY <3>2, <3>3
  <2> QED BY <2>2, <2>3, <2>4
<1> QED BY <1>4, <1>5 DEF Rename

LEMMA OOpen ==
  ASSUME OInv, NEW w \in Writers, Open(w)
  PROVE  OInv'
<1> USE DEF OInv
<1>1. 0 \in Generations /\ 0 # None
  BY LogAssumption DEF Generations
<1>2. /\ gen' \in [Generations -> {None} \cup Files]
      /\ gen'[0] # None
      /\ gen[0] # None => gen' = gen
      /\ gen[0] = None => gen'[0].records = {}
      /\ \A k \in Generations \ {0} : gen'[k] = gen[k]
  <2>1. [records |-> {}, size |-> 0] \in Files
    BY DEF Files
  <2>2. [records |-> {}, size |-> 0] # None
    BY <2>1, FileIsSome DEF TypeOK
  <2>3. gen \in [Generations -> {None} \cup Files]
    BY DEF TypeOK, Files
  <2> QED BY <1>1, <2>1, <2>2, <2>3 DEF Open
<1>3. /\ pc[w] = "open" /\ pc' = [pc EXCEPT ![w] = "write"] /\ fd' = [fd EXCEPT ![w] = 0]
      /\ UNCHANGED <<turn, written, collided, failed, torn>>
  BY DEF Open
<1>4. TypeOK'
  <2>1. /\ pc' \in [Writers -> {"idle", "rotate", "open", "write"}]
        /\ fd' \in [Writers -> Generations \cup {None}]
    BY <1>1, <1>3 DEF TypeOK
  <2>2. ASSUME NEW v \in Writers
        PROVE  /\ pc'[v] = "rotate" <=> turn'[v] # 0
               /\ fd'[v] # None => pc'[v] = "write" /\ gen'[fd'[v]] # None
    <3>1. CASE v = w
      BY <1>2, <1>3, <3>1 DEF TypeOK
    <3>2. CASE v # w
      <4>1. pc'[v] = pc[v] /\ fd'[v] = fd[v] /\ turn'[v] = turn[v]
        BY <1>3, <3>2 DEF TypeOK
      <4> QED BY <1>2, <4>1 DEF TypeOK
    <3> QED BY <3>1, <3>2
  <2> QED BY <1>2, <1>3, <2>1, <2>2 DEF TypeOK, Files
<1>5. WriterOrdered'
  BY <1>2 DEF WriterOrdered
<1>6. OpenIsYoungest'
  <2> SUFFICES ASSUME NEW v \in Writers, fd'[v] # None,
                      NEW a \in Generations, a < fd'[v], gen'[a] # None,
                      NEW r \in gen'[a].records
               PROVE  r.by # v
    BY DEF OpenIsYoungest
  <2>1. v # w /\ fd'[v] = fd[v]
    BY <1>3 DEF TypeOK, Generations
  <2> QED BY <1>2, <2>1 DEF OpenIsYoungest
<1> QED BY <1>4, <1>5, <1>6

\* A line goes to the file that is open, if it is still there.
LEMMA Written ==
  ASSUME OInv, NEW w \in Writers, NEW e \in Entries, Write(w, e)
  PROVE  /\ pc[w] = "write" /\ pc' = [pc EXCEPT ![w] = "idle"] /\ fd' = [fd EXCEPT ![w] = None]
         /\ written' = written + 1 /\ UNCHANGED <<turn, collided, failed, torn>>
         /\ fd[w] = None => gen' = gen
         /\ fd[w] # None =>
              /\ fd[w] \in Generations /\ gen[fd[w]] # None
              /\ gen'[fd[w]] =
                   [records |-> gen[fd[w]].records \cup {[by |-> w, n |-> written + 1]},
                    size |-> gen[fd[w]].size + Serialize(e)]
              /\ \A k \in Generations \ {fd[w]} : gen'[k] = gen[k]
<1>1. fd[w] # None => fd[w] \in Generations /\ gen[fd[w]] # None
  BY DEF OInv, TypeOK
<1>2. DOMAIN gen = Generations
  BY DEF OInv, TypeOK
<1> QED BY <1>1, <1>2 DEF Write

LEMMA OWrite ==
  ASSUME OInv, NEW w \in Writers, NEW e \in Entries, Write(w, e)
  PROVE  OInv'
<1> DEFINE new == [by |-> w, n |-> written + 1]
<1> USE DEF OInv
<1>1. /\ pc[w] = "write" /\ pc' = [pc EXCEPT ![w] = "idle"] /\ fd' = [fd EXCEPT ![w] = None]
      /\ written' = written + 1 /\ UNCHANGED <<turn, collided, failed, torn>>
      /\ fd[w] = None => gen' = gen
      /\ fd[w] # None =>
           /\ fd[w] \in Generations /\ gen[fd[w]] # None
           /\ gen'[fd[w]] = [records |-> gen[fd[w]].records \cup {new},
                             size |-> gen[fd[w]].size + Serialize(e)]
           /\ \A k \in Generations \ {fd[w]} : gen'[k] = gen[k]
  BY Written
<1>2. \A k \in Generations : gen[k] # None => gen[k] \in Files
  BY DEF TypeOK, Files
<1>3. written \in Nat
  BY DEF TypeOK
<1>4. \A f \in Files : f \in Files'
  BY <1>1, <1>3 DEF Files
<1>5. ASSUME NEW k \in Generations
      PROVE  gen'[k] \in {None} \cup Files' /\ (gen[k] # None => gen'[k] # None)
  <2>1. CASE fd[w] # None /\ k = fd[w]
    <3>1. gen[k].records \subseteq [by : Writers, n : 1..written] /\ gen[k].size \in Nat
      BY <1>1, <1>2, <2>1 DEF Files
    <3>2. new \in [by : Writers, n : 1..(written + 1)]
      BY <1>3
    <3>3. gen[k].records \subseteq [by : Writers, n : 1..(written + 1)]
      BY <1>3, <3>1
    <3>4. gen[k].size + Serialize(e) \in Nat
      BY <3>1, LineSize, LogAssumption
    <3>5. gen'[k] \in Files'
      BY <1>1, <2>1, <3>2, <3>3, <3>4 DEF Files
    <3>6. gen'[k] # None
      <4>1. gen'[k] \in [records : SUBSET [by : Writers, n : Nat], size : Nat]
        BY <3>5, <1>1, <1>3 DEF Files
      <4> QED BY <4>1, LogAssumption
    <3> QED BY <3>5, <3>6
  <2>2. CASE ~ (fd[w] # None /\ k = fd[w])
    <3>1. gen'[k] = gen[k]
      BY <1>1, <2>2
    <3> QED BY <1>2, <1>4, <3>1
  <2> QED BY <2>1, <2>2
<1>6. TypeOK'
  <2>1. gen' \in [Generations -> {None} \cup Files']
    <3>1. gen' = [k \in Generations |-> gen'[k]]
      BY DEF Write, TypeOK
    <3> QED BY <1>5, <3>1
  <2>2. /\ pc' \in [Writers -> {"idle", "rotate", "open", "write"}]
        /\ fd' \in [Writers -> Generations \cup {None}]
    BY <1>1 DEF TypeOK
  <2>3. ASSUME NEW v \in Writers
        PROVE  /\ pc'[v] = "rotate" <=> turn'[v] # 0
               /\ fd'[v] # None => pc'[v] = "write" /\ gen'[fd'[v]] # None
    <3>1. CASE v = w
      BY <1>1, <3>1 DEF TypeOK
    <3>2. CASE v # w
      <4>1. pc'[v] = pc[v] /\ fd'[v] = fd[v] /\ turn'[v] = turn[v]
        BY <1>1, <3>2 DEF TypeOK
      <4> QED BY <1>5, <4>1 DEF TypeOK
    <3> QED BY <3>1, <3>2
  <2> QED BY <1>1, <1>3, <2>1, <2>2, <2>3 DEF TypeOK, Files
<1>7. ASSUME NEW k \in Generations, gen'[k] # None, NEW r \in gen'[k].records
      PROVE  /\ gen[k] # None
             /\ \/ r \in gen[k].records /\ r.n <= written
                \/ r = new /\ k = fd[w] /\ fd[w] # None
  <2>1. CASE fd[w] # None /\ k = fd[w]
    BY <1>1, <1>2, <1>3, <1>7, <2>1 DEF Files
  <2>2. CASE ~ (fd[w] # None /\ k = fd[w])
    <3>1. gen'[k] = gen[k]
      BY <1>1, <2>2
    <3> QED BY <1>2, <1>3, <1>7, <3>1 DEF Files
  <2> QED BY <2>1, <2>2
<1>8. WriterOrdered'
  <2> SUFFICES ASSUME NEW a \in Generations, NEW b \in Generations, a < b,
                      gen'[a] # None, gen'[b] # None,
                      NEW r \in gen'[a].records, NEW s \in gen'[b].records, r.by = s.by
               PROVE  s.n < r.n
    BY DEF WriterOrdered
  <2>1. CASE r = new /\ a = fd[w] /\ fd[w] # None
    <3>1. s \in gen[b].records /\ s.n <= written /\ gen[b] # None
      BY <1>7, <2>1 DEF Generations
    <3>2. s.n \in 1..written
      BY <1>2, <3>1 DEF Files
    <3> QED BY <1>3, <2>1, <3>2
  <2>2. CASE r \in gen[a].records
    <3>1. CASE s = new /\ b = fd[w] /\ fd[w] # None
      BY <1>7, <2>2, <3>1 DEF OpenIsYoungest
    <3>2. CASE s \in gen[b].records
      BY <1>7, <2>2, <3>2 DEF WriterOrdered
    <3> QED BY <1>7, <3>1, <3>2
  <2> QED BY <1>7, <2>1, <2>2
<1>9. OpenIsYoungest'
  <2> SUFFICES ASSUME NEW v \in Writers, fd'[v] # None,
                      NEW a \in Generations, a < fd'[v], gen'[a] # None,
                      NEW r \in gen'[a].records
               PROVE  r.by # v
    BY DEF OpenIsYoungest
  <2>1. v # w /\ fd'[v] = fd[v]
    BY <1>1 DEF TypeOK
  <2> QED BY <1>7, <2>1 DEF OpenIsYoungest
<1> QED BY <1>6, <1>8, <1>9

LEMMA OGiveUp ==
  ASSUME OInv, NEW w \in Writers, GiveUp(w)
  PROVE  OInv'
<1>1. TypeOK'
  BY LogAssumption DEF OInv, GiveUp, TypeOK
<1>2. \A v \in Writers : fd'[v] # None => fd'[v] = fd[v]
  BY DEF OInv, GiveUp, TypeOK
<1>3. WriterOrdered' /\ OpenIsYoungest'
  BY <1>2 DEF OInv, GiveUp, WriterOrdered, OpenIsYoungest
<1> QED BY <1>1, <1>3 DEF OInv

LEMMA OInductive == OInv /\ [Next]_vars => OInv'
<1> SUFFICES ASSUME OInv, [Next]_vars PROVE OInv'
  OBVIOUS
<1>1. CASE Next
  BY <1>1, OStat, ORename, OOpen, OWrite, OGiveUp DEF Next
<1>2. CASE UNCHANGED vars
  BY <1>2 DEF vars, OInv, TypeOK, WriterOrdered, OpenIsYoungest
<1> QED BY <1>1, <1>2

\* The log is well formed and in order at all times.
THEOREM LogInvariance == Spec => []OInv
BY OInit, OInductive, PTL DEF Spec

\* The types of the log: an open file is there.
THEOREM LogTypes == Spec => []TypeOK
<1>1. OInv => TypeOK
  BY DEF OInv
<1> QED BY <1>1, LogInvariance, PTL

\* Each process's records are in order over the generations, for any number of
\* processes and generations, whatever fails, ends or collides.
THEOREM RecordsInOrder == Spec => []WriterOrdered
<1>1. OInv => WriterOrdered
  BY DEF OInv
<1> QED BY <1>1, LogInvariance, PTL

-------------------------------------------------------------------------------
(*****************************************************************************)
(* No hole.  While one process at a time is in record() and no rename has    *)
(* failed, records are in order whoever wrote them, what is open is the      *)
(* file itself, and a step of a rotation finds its target empty, all but     *)
(* the first, which drops the oldest generation.                             *)
(*****************************************************************************)
Alone == \A v, w \in Writers : pc[v] # "idle" /\ pc[w] # "idle" => v = w

Ordered ==
  \A i, j \in Generations : i < j /\ gen[i] # None /\ gen[j] # None =>
    \A r \in gen[i].records, s \in gen[j].records : s.n < r.n

AtTheHead == \A w \in Writers : pc[w] = "write" => fd[w] = 0

RoomAhead ==
  \A w \in Writers : turn[w] > 1 => gen[Target(turn[w])] = None

NoHole == \A r \in Kept : \A m \in r.n..written : \E s \in Kept : s.n = m

Whole == Alone /\ Ordered /\ AtTheHead /\ RoomAhead /\ NoHole

HInv == OInv /\ (~ collided /\ ~ failed => Whole)

\* What is kept, record by record.
LEMMA KeptIs ==
  \A r : r \in Kept <=> \E k \in Generations : gen[k] # None /\ r \in gen[k].records
BY DEF Kept

\* The same of the next state.
LEMMA KeptIsNext ==
  \A r : r \in Kept' <=> \E k \in Generations : gen'[k] # None /\ r \in gen'[k].records
BY DEF Kept

LEMMA HInit == Init => HInv
<1> SUFFICES ASSUME Init PROVE HInv
  OBVIOUS
<1>1. Kept = {}
  BY DEF Init, Kept
<1>2. RoomAhead
  BY DEF Init, RoomAhead
<1>3. Alone /\ Ordered /\ AtTheHead /\ NoHole
  BY <1>1 DEF Init, Alone, Ordered, AtTheHead, NoHole
<1> QED BY <1>2, <1>3, OInit DEF HInv, Whole

\* A step that leaves the files alone keeps the log whole, if the process that
\* takes it stays or becomes the only one.
LEMMA HQuietStep ==
  ASSUME HInv, ~ collided', ~ failed', NEW w \in Writers, Stat(w) \/ GiveUp(w)
  PROVE  Whole'
<1>1. Whole /\ TypeOK
  BY DEF HInv, OInv, Stat, GiveUp
<1>2. gen' = gen /\ written' = written
  BY DEF Stat, GiveUp
<1>3. \A v \in Writers \ {w} : pc'[v] = pc[v] /\ turn'[v] = turn[v] /\ fd'[v] = fd[v]
  BY <1>1 DEF Stat, GiveUp, TypeOK
<1>4. Alone'
  <2>1. CASE Stat(w)
    <3>1. \A v \in Writers \ {w} : pc[v] = "idle"
      BY <2>1 DEF Stat
    <3> QED BY <1>3, <3>1 DEF Alone
  <2>2. CASE GiveUp(w)
    <3>1. pc'[w] = "idle"
      BY <1>1, <2>2 DEF GiveUp, TypeOK
    <3> QED BY <1>1, <1>3, <3>1 DEF Alone, Whole
  <2> QED BY <2>1, <2>2
<1>5. pc'[w] # "write" /\ turn'[w] \in {0, 1}
  BY <1>1 DEF Stat, GiveUp, TypeOK
<1>6. AtTheHead'
  BY <1>1, <1>3, <1>5 DEF AtTheHead, Whole
<1>7. RoomAhead'
  BY <1>1, <1>2, <1>3, <1>5 DEF RoomAhead, Whole, Target
<1>8. Kept' = Kept
  BY <1>2 DEF Kept
<1>9. Ordered' /\ NoHole'
  BY <1>1, <1>2, <1>8 DEF Ordered, NoHole, Whole
<1> QED BY <1>4, <1>6, <1>7, <1>9 DEF Whole

LEMMA HOpen ==
  ASSUME HInv, ~ collided', ~ failed', NEW w \in Writers, Open(w)
  PROVE  Whole'
<1>1. Whole /\ TypeOK
  BY DEF HInv, OInv, Open
<1>2. \A v \in Writers \ {w} : pc'[v] = pc[v] /\ fd'[v] = fd[v]
  BY <1>1 DEF Open, TypeOK
<1>3. pc[w] = "open" /\ pc'[w] = "write" /\ fd'[w] = 0 /\ turn' = turn /\ written' = written
  BY <1>1 DEF Open, TypeOK
<1>4. /\ \A k \in Generations \ {0} : gen'[k] = gen[k]
      /\ gen[0] # None => gen' = gen
      /\ gen[0] = None => gen'[0].records = {}
  BY <1>1, LogAssumption DEF Open, TypeOK, Generations
<1>5. Alone' /\ AtTheHead'
  BY <1>1, <1>2, <1>3 DEF Alone, AtTheHead, Whole
<1>6. Ordered'
  BY <1>1, <1>4 DEF Ordered, Whole
<1>7. RoomAhead'
  <2> SUFFICES ASSUME NEW v \in Writers, turn[v] > 1
               PROVE  gen'[Target(turn[v])] = None
    BY <1>3 DEF RoomAhead, Target
  <2>1. turn[v] \in 1..(MaxFiles - 1)
    BY <1>1 DEF TypeOK
  <2>2. Target(turn[v]) \in Generations \ {0}
    BY <2>1, LogAssumption DEF Target, Generations
  <2> QED BY <1>1, <1>4, <2>2 DEF RoomAhead, Whole
<1>8. \A r : r \in Kept' <=> r \in Kept
  BY <1>4, KeptIs, KeptIsNext
<1>9. NoHole'
  <2>1. Kept' = Kept
    BY <1>8
  <2> QED BY <1>1, <1>3, <2>1 DEF NoHole, Whole
<1> QED BY <1>5, <1>6, <1>7, <1>9 DEF Whole

LEMMA HWrite ==
  ASSUME HInv, ~ collided', ~ failed', NEW w \in Writers, NEW e \in Entries, Write(w, e)
  PROVE  Whole'
<1> DEFINE new == [by |-> w, n |-> written + 1]
<1>1. Whole /\ TypeOK /\ written \in Nat
  BY DEF HInv, OInv, Write, TypeOK
<1>2. /\ pc[w] = "write" /\ pc' = [pc EXCEPT ![w] = "idle"] /\ fd' = [fd EXCEPT ![w] = None]
      /\ written' = written + 1 /\ turn' = turn
  BY Written DEF HInv
<1>3. fd[w] = 0 /\ 0 # None /\ 0 \in Generations
  BY <1>1, <1>2, LogAssumption DEF AtTheHead, Whole, Generations
<1>4. /\ gen[0] # None
      /\ gen'[0].records = gen[0].records \cup {new}
      /\ \A k \in Generations \ {0} : gen'[k] = gen[k]
  <2>1. OInv
    BY DEF HInv
  <2>2. /\ gen[fd[w]] # None
        /\ gen'[fd[w]] = [records |-> gen[fd[w]].records \cup {new},
                          size |-> gen[fd[w]].size + Serialize(e)]
        /\ \A k \in Generations \ {fd[w]} : gen'[k] = gen[k]
    BY <1>3, <2>1, Written
  <2> QED BY <1>3, <2>2
<1>5. gen'[0] # None
  <2>1. OInv'
    BY OWrite DEF HInv
  <2>2. gen' = [gen EXCEPT ![0] =
          [records |-> gen[0].records \cup {new}, size |-> gen[0].size + Serialize(e)]]
    BY <1>3 DEF Write
  <2>3. gen[0].records \subseteq [by : Writers, n : 1..written] /\ gen[0].size \in Nat
    BY <1>1, <1>3, <1>4 DEF TypeOK
  <2>4. gen'[0] = [records |-> gen[0].records \cup {new}, size |-> gen[0].size + Serialize(e)]
    BY <1>1, <1>3, <2>2 DEF TypeOK
  <2>5. /\ gen[0].records \cup {new} \subseteq [by : Writers, n : Nat]
        /\ gen[0].size + Serialize(e) \in Nat
    BY <1>1, <2>3, LineSize, LogAssumption
  <2>6. gen'[0] \in [records : SUBSET [by : Writers, n : Nat], size : Nat]
    BY <2>4, <2>5
  <2> QED BY <2>6, LogAssumption
<1>6. Alone' /\ AtTheHead'
  BY <1>1, <1>2 DEF Alone, AtTheHead, Whole, TypeOK
<1>7. \A k \in Generations : gen[k] # None => \A r \in gen[k].records : r.n \in 1..written
  BY <1>1 DEF TypeOK
<1>8. Ordered'
  <2> SUFFICES ASSUME NEW a \in Generations, NEW b \in Generations, a < b,
                      gen'[a] # None, gen'[b] # None,
                      NEW r \in gen'[a].records, NEW s \in gen'[b].records
               PROVE  s.n < r.n
    BY DEF Ordered
  <2>1. b # 0 /\ gen[b] # None /\ s \in gen[b].records
    BY <1>4 DEF Generations
  <2>2. CASE a = 0 /\ r = new
    BY <1>1, <1>7, <2>1, <2>2
  <2>3. CASE gen[a] # None /\ r \in gen[a].records
    BY <1>1, <2>1, <2>3 DEF Ordered, Whole
  <2> QED BY <1>4, <2>2, <2>3
<1>9. RoomAhead'
  <2> SUFFICES ASSUME NEW v \in Writers, turn[v] > 1
               PROVE  gen'[Target(turn[v])] = None
    BY <1>2 DEF RoomAhead, Target
  <2>1. turn[v] \in 1..(MaxFiles - 1)
    BY <1>1 DEF TypeOK
  <2>2. Target(turn[v]) \in Generations \ {0}
    BY <2>1, LogAssumption DEF Target, Generations
  <2> QED BY <1>1, <1>4, <2>2 DEF RoomAhead, Whole
<1>10. NoHole'
  <2>1. \A r : r \in Kept' <=> r \in Kept \/ r = new
    BY <1>3, <1>4, <1>5, KeptIs, KeptIsNext
  <2> SUFFICES ASSUME NEW r \in Kept', NEW m \in r.n..(written + 1)
               PROVE  \E s \in Kept' : s.n = m
    BY <1>2 DEF NoHole
  <2>2. CASE m = written + 1
    <3>1. new \in Kept' /\ new.n = m
      BY <2>1, <2>2
    <3> QED BY <3>1
  <2>3. CASE m # written + 1
    <3>1. r # new
      BY <1>1, <2>3
    <3>2. r \in Kept
      BY <2>1, <3>1
    <3>3. r.n \in 1..written
      BY <1>7, <3>2, KeptIs
    <3>4. m \in r.n..written
      BY <1>1, <2>3, <3>3
    <3> QED BY <1>1, <2>1, <3>2, <3>4 DEF NoHole, Whole
  <2> QED BY <2>2, <2>3
<1> QED BY <1>6, <1>8, <1>9, <1>10 DEF Whole

\* A step of a rotation: the first drops the oldest generation, the others lose
\* nothing.
LEMMA HRename ==
  ASSUME HInv, ~ collided', ~ failed', NEW w \in Writers, Rename(w)
  PROVE  Whole'
<1> DEFINE i == Target(turn[w])
<1> DEFINE j == Source(i)
<1>1. Whole /\ OInv /\ TypeOK
  BY DEF HInv, OInv, Rename
<1>2. /\ i \in Generations \ {0} /\ j \in Generations /\ j = i - 1
      /\ turn[w] \in 1..(MaxFiles - 1) /\ pc[w] = "rotate"
  BY <1>1, StepOfRotation DEF Rename
<1>3. \A v \in Writers \ {w} :
        pc[v] = "idle" /\ turn[v] = 0 /\ pc'[v] = "idle" /\ turn'[v] = 0
  <2>1. \A v \in Writers \ {w} : pc[v] = "idle" /\ turn[v] = 0
    BY <1>1, <1>2 DEF Alone, Whole, TypeOK
  <2> QED BY <1>1, <2>1 DEF Rename, TypeOK
<1>4. pc'[w] # "write" /\ written' = written
  BY <1>1 DEF Rename, TypeOK
<1>5. Alone' /\ AtTheHead'
  BY <1>3, <1>4 DEF Alone, AtTheHead
<1>6. \/ gen[j] = None /\ gen' = gen
      \/ gen[j] # None /\ gen' = [gen EXCEPT ![i] = gen[j], ![j] = None]
  BY <1>1 DEF Rename, TypeOK
<1>7. i # j
  BY <1>2 DEF Generations
<1>8. \/ gen[j] = None /\ gen' = gen
      \/ /\ gen[j] # None /\ gen'[i] = gen[j] /\ gen'[j] = None
         /\ \A k \in Generations \ {i, j} : gen'[k] = gen[k]
  <2> HIDE DEF i, j
  <2> QED BY <1>1, <1>2, <1>6, <1>7 DEF TypeOK
<1>9. RoomAhead'
  <2> SUFFICES ASSUME turn'[w] > 1 PROVE gen'[Target(turn'[w])] = None
    BY <1>3 DEF RoomAhead, Target
  <2>1. turn'[w] = turn[w] + 1
    BY <1>1, <1>2 DEF Rename, TypeOK
  <2>2. Target(turn'[w]) = j
    BY <1>2, <2>1, LogAssumption DEF Target, Source
  <2> QED BY <1>8, <2>2
<1>10. Ordered'
  <2> HIDE DEF i, j
  <2>1. CASE gen' = gen
    BY <1>1, <2>1 DEF Ordered, Whole
  <2>2. CASE /\ gen[j] # None /\ gen'[i] = gen[j] /\ gen'[j] = None
             /\ \A k \in Generations \ {i, j} : gen'[k] = gen[k]
    <3> SUFFICES ASSUME NEW a \in Generations, NEW b \in Generations, a < b,
                        gen'[a] # None, gen'[b] # None,
                        NEW r \in gen'[a].records, NEW s \in gen'[b].records
                 PROVE  s.n < r.n
      BY DEF Ordered
    <3>1. a # j /\ b # j
      BY <2>2
    <3>2. CASE b = i
      <4>1. a < j /\ a # i
        BY <1>2, <3>1, <3>2 DEF Generations
      <4> QED BY <1>1, <1>2, <2>2, <3>1, <3>2, <4>1 DEF Ordered, Whole
    <3>3. CASE a = i
      <4>1. j < b /\ b # i
        BY <1>2, <3>3 DEF Generations
      <4> QED BY <1>1, <1>2, <2>2, <3>1, <3>3, <4>1 DEF Ordered, Whole
    <3>4. CASE a # i /\ b # i
      BY <1>1, <2>2, <3>1, <3>4 DEF Ordered, Whole
    <3> QED BY <3>2, <3>3, <3>4
  <2> QED BY <1>8, <2>1, <2>2
<1>11. NoHole'
  <2>1. CASE gen' = gen
    <3>1. Kept' = Kept
      BY <2>1 DEF Kept
    <3> QED BY <1>1, <1>4, <3>1 DEF NoHole, Whole
  <2>2. CASE /\ gen[j] # None /\ gen'[i] = gen[j] /\ gen'[j] = None
             /\ \A k \in Generations \ {i, j} : gen'[k] = gen[k]
    <3>1. gen[i] # None => i = MaxFiles - 1
      <4>1. turn[w] > 1 => gen[i] = None
        BY <1>1 DEF RoomAhead, Whole
      <4> QED BY <1>2, <4>1, LogAssumption DEF Target
    <3> HIDE DEF i, j
    <3>2. \A k \in Generations \ {i} : gen[k] # None =>
            \E l \in Generations : gen'[l] # None /\ gen'[l].records = gen[k].records
      BY <1>2, <2>2
    <3>3. \A l \in Generations : gen'[l] # None =>
            \E k \in Generations \ {i} : gen[k] # None /\ gen'[l].records = gen[k].records
      BY <1>2, <1>7, <2>2
    <3>4. \A r : r \in Kept' <=> \E k \in Generations \ {i} : gen[k] # None /\ r \in gen[k].records
      BY <3>2, <3>3, KeptIsNext
    <3> SUFFICES ASSUME NEW r \in Kept', NEW m \in r.n..written
                 PROVE  \E s \in Kept' : s.n = m
      BY <1>4 DEF NoHole
    <3>5. PICK k \in Generations \ {i} : gen[k] # None /\ r \in gen[k].records
      BY <3>4
    <3>6. r \in Kept
      BY <3>5, KeptIs
    <3>7. PICK s \in Kept : s.n = m
      BY <1>1, <3>6 DEF NoHole, Whole
    <3>8. PICK l \in Generations : gen[l] # None /\ s \in gen[l].records
      BY <3>7, KeptIs
    <3>9. l # i
      <4> SUFFICES ASSUME l = i PROVE FALSE
        OBVIOUS
      <4>1. k < i
        BY <3>1, <3>5, <3>8, LogAssumption DEF Generations
      <4>2. s.n < r.n
        BY <1>1, <1>2, <3>5, <3>8, <4>1 DEF Ordered, Whole
      <4>3. r.n \in Nat /\ m \in Nat /\ r.n <= m
        <5>1. gen[k].records \subseteq [by : Writers, n : 1..written]
          BY <1>1, <3>5 DEF TypeOK
        <5> QED BY <3>5, <5>1
      <4> QED BY <3>7, <4>2, <4>3
    <3> QED BY <3>4, <3>7, <3>8, <3>9
  <2> QED BY <1>8, <2>1, <2>2
<1> QED BY <1>5, <1>9, <1>10, <1>11 DEF Whole

LEMMA HInductive == HInv /\ [Next]_vars => HInv'
<1> SUFFICES ASSUME HInv, [Next]_vars PROVE HInv'
  OBVIOUS
<1>1. OInv'
  BY OInductive DEF HInv
<1>2. ~ collided' /\ ~ failed' => Whole'
  <2> SUFFICES ASSUME ~ collided', ~ failed' PROVE Whole'
    OBVIOUS
  <2>1. CASE Next
    BY <2>1, HQuietStep, HRename, HOpen, HWrite DEF Next
  <2>2. CASE UNCHANGED vars
    <3>1. Whole
      BY <2>2 DEF HInv, vars
    <3>2. Kept' = Kept
      BY <2>2 DEF vars, Kept
    <3> QED BY <2>2, <3>1, <3>2
        DEF vars, Whole, Alone, Ordered, AtTheHead, RoomAhead, NoHole, Target
  <2> QED BY <2>1, <2>2
<1> QED BY <1>1, <1>2 DEF HInv

\* The trail has no hole, for any number of generations and records, as long as
\* one process at a time writes and no rename fails: a process that ends half
\* way through a rotation makes none.
THEOREM TrailIsWhole == Spec => []NewestKept
<1>1. Spec => []HInv
  BY HInit, HInductive, PTL DEF Spec
<1>2. HInv => NewestKept
  BY DEF HInv, Whole, NoHole, NewestKept
<1> QED BY <1>1, <1>2, PTL

-------------------------------------------------------------------------------
(*****************************************************************************)
(* The size of a file.  Each process that may still write to a generation    *)
(* keeps a line's worth of the allowance in hand.                            *)
(*****************************************************************************)
Pending(i) == {w \in Writers : fd[w] = i \/ (i = 0 /\ pc[w] = "open")}

Allowance ==
  ~ failed /\ MaxFiles > 1 => \A i \in Generations : gen[i] # None =>
    gen[i].size + Cardinality(Pending(i)) * MaxLine < MaxBytes + Cardinality(Writers) * MaxLine

BInv == OInv /\ Allowance

\* Fewer lines take less room.
LEMMA LessRoom ==
  ASSUME NEW a \in Nat, NEW b \in Nat, a <= b, NEW c \in Nat
  PROVE  a * c \in Nat /\ a * c <= b * c
<1>1. PICK d \in Nat : b = a + d
  <2>1. b - a \in Nat /\ b = a + (b - a)
    OBVIOUS
  <2> QED BY <2>1
<1>2. b * c = a * c + d * c
  BY <1>1
<1>3. a * c \in Nat /\ d * c \in Nat
  BY <1>1
<1> QED BY <1>2, <1>3

\* A set of processes takes no more room than a larger one.
LEMMA SmallerSet ==
  ASSUME NEW S, NEW T \in SUBSET Writers, S \subseteq T
  PROVE  /\ Cardinality(S) \in Nat /\ Cardinality(T) \in Nat
         /\ Cardinality(S) * MaxLine \in Nat
         /\ Cardinality(S) * MaxLine <= Cardinality(T) * MaxLine
<1>1. IsFiniteSet(T)
  BY LogAssumption, FS_Subset
<1>2. IsFiniteSet(S) /\ Cardinality(S) <= Cardinality(T)
  BY <1>1, FS_Subset
<1>3. Cardinality(S) \in Nat /\ Cardinality(T) \in Nat
  BY <1>1, <1>2, FS_CardinalityType
<1> QED BY <1>2, <1>3, LessRoom, LogAssumption

\* A file below the limit has room for a line of every process.
LEMMA RoomForAll ==
  ASSUME NEW S \in SUBSET Writers, NEW size \in Nat, size < MaxBytes
  PROVE  size + Cardinality(S) * MaxLine < MaxBytes + Cardinality(Writers) * MaxLine
<1>1. /\ Cardinality(S) * MaxLine \in Nat
      /\ Cardinality(S) * MaxLine <= Cardinality(Writers) * MaxLine
  BY SmallerSet
<1>2. Cardinality(Writers) * MaxLine \in Nat
  BY SmallerSet
<1> QED BY <1>1, <1>2, LogAssumption

\* A generation that keeps its file keeps its allowance, if no process joins
\* those that may write to it.
LEMMA StillRoom ==
  ASSUME NEW S, NEW T \in SUBSET Writers, S \subseteq T, NEW size \in Nat,
         size + Cardinality(T) * MaxLine < MaxBytes + Cardinality(Writers) * MaxLine
  PROVE  size + Cardinality(S) * MaxLine < MaxBytes + Cardinality(Writers) * MaxLine
<1>1. /\ Cardinality(S) * MaxLine \in Nat
      /\ Cardinality(S) * MaxLine <= Cardinality(T) * MaxLine
  BY SmallerSet
<1>2. Cardinality(T) * MaxLine \in Nat /\ Cardinality(Writers) * MaxLine \in Nat
  BY SmallerSet
<1> QED BY <1>1, <1>2, LogAssumption

LEMMA BRename ==
  ASSUME BInv, NEW w \in Writers, Rename(w)
  PROVE  Allowance'
<1> DEFINE i == Target(turn[w])
<1> DEFINE j == Source(i)
<1>1. OInv /\ TypeOK
  BY DEF BInv, OInv
<1>2. /\ i \in Generations \ {0} /\ j \in Generations /\ j = i - 1
      /\ turn[w] \in 1..(MaxFiles - 1) /\ pc[w] = "rotate"
  BY <1>1, StepOfRotation DEF Rename
<1> SUFFICES ASSUME ~ failed', MaxFiles > 1, NEW k \in Generations, gen'[k] # None
             PROVE  gen'[k].size + Cardinality(Pending(k)') * MaxLine
                      < MaxBytes + Cardinality(Writers) * MaxLine
  BY DEF Allowance
<1>3. ~ failed
  BY DEF Rename
<1>4. \A l \in Generations : gen[l] # None =>
        /\ gen[l].size \in Nat
        /\ gen[l].size + Cardinality(Pending(l)) * MaxLine
             < MaxBytes + Cardinality(Writers) * MaxLine
  BY <1>1, <1>3 DEF BInv, Allowance, TypeOK
<1>5. \A l : Pending(l) \in SUBSET Writers
  BY DEF Pending
<1>6. \A v \in Writers : pc'[v] = "open" => pc[v] = "open" \/ (v = w /\ j = 0)
  BY <1>1, <1>2, LogAssumption DEF Rename, TypeOK, Target, Source
<1>7. CASE gen[j] = None /\ UNCHANGED <<gen, fd>>
  <2>1. k # j
    BY <1>7
  <2>2. Pending(k)' \subseteq Pending(k)
    BY <1>6, <1>7, <2>1 DEF Pending
  <2>3. gen'[k] = gen[k]
    BY <1>7
  <2> QED BY <1>4, <1>5, <2>2, <2>3, StillRoom
<1>8. CASE /\ gen[j] # None
           /\ gen' = [gen EXCEPT ![i] = gen[j], ![j] = None]
           /\ fd' = [v \in Writers |-> IF fd[v] = i THEN None
                                       ELSE IF fd[v] = j THEN i ELSE fd[v]]
  <2> HIDE DEF i, j
  <2>1. /\ gen' \in [Generations -> {None} \cup Files]
        /\ gen'[i] = gen[j] /\ gen'[j] = None
        /\ \A l \in Generations \ {i, j} : gen'[l] = gen[l]
        /\ fd' \in [Writers -> Generations \cup {None}]
        /\ \A v \in Writers : fd'[v] # None =>
             fd[v] # None /\ fd[v] # i /\ fd'[v] = (IF fd[v] = j THEN i ELSE fd[v])
    <3>1. OInv
      BY <1>1
    <3> QED BY <1>2, <1>8, <3>1, Renamed
  <2>2. k # j /\ k # None
    BY <2>1, LogAssumption DEF Generations
  <2>3. CASE k = i
    <3>1. Pending(k)' \subseteq Pending(j)
      BY <1>2, <2>1, <2>2, <2>3 DEF Pending
    <3> QED BY <1>2, <1>4, <1>5, <1>8, <2>1, <2>3, <3>1, StillRoom
  <2>4. CASE k # i
    <3>1. Pending(k)' \subseteq Pending(k)
      BY <1>6, <2>1, <2>2, <2>4 DEF Pending
    <3>2. gen'[k] = gen[k]
      BY <2>1, <2>2, <2>4
    <3> QED BY <1>4, <1>5, <3>1, <3>2, StillRoom
  <2> QED BY <2>3, <2>4
<1> QED BY <1>7, <1>8 DEF Rename

LEMMA BWrite ==
  ASSUME BInv, NEW w \in Writers, NEW e \in Entries, Write(w, e)
  PROVE  Allowance'
<1>1. OInv /\ TypeOK
  BY DEF BInv, OInv
<1>2. /\ pc[w] = "write" /\ pc' = [pc EXCEPT ![w] = "idle"] /\ fd' = [fd EXCEPT ![w] = None]
      /\ written' = written + 1 /\ UNCHANGED <<turn, collided, failed, torn>>
      /\ fd[w] = None => gen' = gen
      /\ fd[w] # None =>
           /\ fd[w] \in Generations /\ gen[fd[w]] # None
           /\ gen'[fd[w]] =
                [records |-> gen[fd[w]].records \cup {[by |-> w, n |-> written + 1]},
                 size |-> gen[fd[w]].size + Serialize(e)]
           /\ \A l \in Generations \ {fd[w]} : gen'[l] = gen[l]
  <2>1. OInv
    BY <1>1
  <2> QED BY <2>1, Written
<1> SUFFICES ASSUME ~ failed', MaxFiles > 1, NEW k \in Generations, gen'[k] # None
             PROVE  gen'[k].size + Cardinality(Pending(k)') * MaxLine
                      < MaxBytes + Cardinality(Writers) * MaxLine
  BY DEF Allowance
<1>3. k # None
  BY LogAssumption DEF Generations
<1>4. Pending(k)' = Pending(k) \ (IF fd[w] = k THEN {w} ELSE {})
  BY <1>1, <1>2, <1>3 DEF Pending, TypeOK
<1>5. Pending(k) \in SUBSET Writers
  BY DEF Pending
<1>6. CASE fd[w] = k
  <2>1. gen[k] # None /\ gen[k].size \in Nat /\ gen'[k].size = gen[k].size + Serialize(e)
    BY <1>1, <1>2, <1>3, <1>6 DEF TypeOK
  <2>2. gen[k].size + Cardinality(Pending(k)) * MaxLine < MaxBytes + Cardinality(Writers) * MaxLine
    BY <1>2, <2>1 DEF BInv, Allowance
  <2>3. w \in Pending(k) /\ Pending(k)' = Pending(k) \ {w}
    BY <1>4, <1>6 DEF Pending
  <2>4. IsFiniteSet(Pending(k))
    BY <1>5, LogAssumption, FS_Subset
  <2>5. Cardinality(Pending(k)') = Cardinality(Pending(k)) - 1
    BY <2>3, <2>4, FS_RemoveElement
  <2>6. Cardinality(Pending(k)) \in Nat /\ Cardinality(Writers) \in Nat
    BY <2>4, LogAssumption, FS_CardinalityType
  <2>7. Serialize(e) \in 1..MaxLine /\ MaxLine \in Nat
    BY LineSize, LogAssumption
  <2>8. (Cardinality(Pending(k)) - 1) * MaxLine = Cardinality(Pending(k)) * MaxLine - MaxLine
    BY <2>6, <2>7
  <2>9. /\ Cardinality(Pending(k)) * MaxLine \in Int
        /\ Cardinality(Writers) * MaxLine \in Int
    BY <2>6, <2>7
  <2> QED BY <2>1, <2>2, <2>5, <2>7, <2>8, <2>9, LogAssumption
<1>7. CASE fd[w] # k
  <2>1. gen'[k] = gen[k]
    BY <1>2, <1>7
  <2>2. gen[k].size \in Nat
    BY <1>1, <2>1 DEF TypeOK
  <2>3. gen[k].size + Cardinality(Pending(k)) * MaxLine < MaxBytes + Cardinality(Writers) * MaxLine
    BY <1>2, <2>1 DEF BInv, Allowance
  <2> QED BY <1>4, <1>5, <2>1, <2>2, <2>3, StillRoom
<1> QED BY <1>6, <1>7

\* The other steps: one that may join those who write finds the file below the
\* limit, or makes it.
LEMMA BOther ==
  ASSUME BInv, NEW w \in Writers, Stat(w) \/ Open(w) \/ GiveUp(w)
  PROVE  Allowance'
<1>1. OInv /\ TypeOK
  BY DEF BInv, OInv
<1> SUFFICES ASSUME ~ failed', MaxFiles > 1, NEW k \in Generations, gen'[k] # None
             PROVE  gen'[k].size + Cardinality(Pending(k)') * MaxLine
                      < MaxBytes + Cardinality(Writers) * MaxLine
  BY DEF Allowance
<1>2. ~ failed /\ k # None /\ 0 \in Generations
  BY LogAssumption DEF Stat, Open, GiveUp, Generations
<1>3. gen[k] # None =>
        /\ gen[k].size \in Nat
        /\ gen[k].size + Cardinality(Pending(k)) * MaxLine
             < MaxBytes + Cardinality(Writers) * MaxLine
  BY <1>1, <1>2 DEF BInv, Allowance, TypeOK
<1>4. Pending(k) \in SUBSET Writers /\ Pending(k)' \in SUBSET Writers
  BY DEF Pending
<1>5. CASE Stat(w)
  <2>1. gen'[k] = gen[k] /\ fd' = fd
    BY <1>5 DEF Stat
  <2>2. CASE pc'[w] = "open" /\ k = 0
    <3>1. ~ Full(gen[0].size)
      BY <1>1, <1>5, <2>1, <2>2 DEF Stat, TypeOK
    <3> QED BY <1>3, <1>4, <2>1, <2>2, <3>1, RoomForAll, LogAssumption DEF Full
  <2>3. CASE ~ (pc'[w] = "open" /\ k = 0)
    <3>1. Pending(k)' \subseteq Pending(k)
      BY <1>1, <1>5, <2>1, <2>3 DEF Stat, Pending, TypeOK
    <3> QED BY <1>3, <1>4, <2>1, <3>1, StillRoom
  <2> QED BY <2>2, <2>3
<1>6. CASE Open(w)
  <2>1. Pending(k)' \subseteq Pending(k)
    BY <1>1, <1>6 DEF Open, Pending, TypeOK
  <2>2. CASE gen[k] # None
    <3>1. gen'[k] = gen[k]
      BY <1>1, <1>6, <2>2 DEF Open, TypeOK
    <3> QED BY <1>3, <1>4, <2>1, <2>2, <3>1, StillRoom
  <2>3. CASE gen[k] = None
    <3>1. gen'[k].size = 0
      BY <1>1, <1>6, <2>3 DEF Open, TypeOK
    <3> QED BY <1>4, <3>1, RoomForAll, LogAssumption
  <2> QED BY <2>2, <2>3
<1>7. CASE GiveUp(w)
  <2>1. Pending(k)' \subseteq Pending(k) /\ gen' = gen
    BY <1>1, <1>2, <1>7 DEF GiveUp, Pending, TypeOK
  <2> QED BY <1>3, <1>4, <2>1, StillRoom
<1> QED BY <1>5, <1>6, <1>7

LEMMA BInductive == BInv /\ [Next]_vars => BInv'
<1> SUFFICES ASSUME BInv, [Next]_vars PROVE BInv'
  OBVIOUS
<1>1. OInv'
  BY OInductive DEF BInv
<1>2. CASE Next
  BY <1>1, <1>2, BOther, BRename, BWrite DEF Next, BInv
<1>3. CASE UNCHANGED vars
  <2>1. \A i : Pending(i)' = Pending(i)
    BY <1>3 DEF vars, Pending
  <2> QED BY <1>1, <1>3, <2>1 DEF vars, BInv, Allowance
<1> QED BY <1>2, <1>3

\* No file outgrows the limit by more than a line of every process, however many
\* share the directory, as long as no rename fails.
THEOREM FilesStayBounded == Spec => []FilesBounded
<1>1. Init => BInv
  BY OInit DEF Init, BInv, Allowance
<1>2. BInv => FilesBounded
  <2> SUFFICES ASSUME BInv, ~ failed, MaxFiles > 1, NEW i \in Generations, gen[i] # None
               PROVE  gen[i].size < MaxBytes + Cardinality(Writers) * MaxLine
    BY DEF FilesBounded
  <2>1. /\ gen[i].size \in Nat
        /\ gen[i].size + Cardinality(Pending(i)) * MaxLine
             < MaxBytes + Cardinality(Writers) * MaxLine
    BY DEF BInv, OInv, TypeOK, Allowance
  <2>2. Pending(i) \subseteq Writers
    BY DEF Pending
  <2>3. Cardinality(Pending(i)) * MaxLine \in Nat /\ Cardinality(Writers) * MaxLine \in Nat
    BY <2>2, SmallerSet
  <2> QED BY <2>1, <2>3, LogAssumption
<1>3. Spec => []BInv
  BY <1>1, BInductive, PTL DEF Spec
<1> QED BY <1>2, <1>3, PTL

-------------------------------------------------------------------------------
(*****************************************************************************)
(* The history kept.  A rotation drops a generation only when the oldest two *)
(* are there; then whatever is missing below is a gap that a torn rotation   *)
(* has left.  A gap moves up with the files above it, and closes under the   *)
(* oldest.                                                                   *)
(*****************************************************************************)

\* The generations that have reached the limit.
Filled == {i \in Generations : gen[i] # None /\ Full(gen[i].size)}

\* A generation that is missing, below the oldest two and below one that is
\* there.
Gaps ==
  {i \in 1..(MaxFiles - 3) : gen[i] = None /\ \E l \in Generations : l > i /\ gen[l] # None}

\* Where the rotations under way move the next file to.
InFlight == {Target(turn[w]) : w \in {v \in Writers : turn[v] # 0}}

\* No file is larger than its lines can make it.
Sized ==
  \A i \in Generations : gen[i] # None =>
    /\ IsFiniteSet(gen[i].records)
    /\ gen[i].size <= Cardinality(gen[i].records) * MaxLine

\* Only a full file is rotated, and what is behind it stays as it is.
FullBehind == \A i \in Generations \ {0} : gen[i] # None => Full(gen[i].size)

\* While a rotation is under way, the file it rotates is there and full.
RotatesFull == \A w \in Writers : turn[w] # 0 => gen[0] # None /\ Full(gen[0].size)

\* A gap that no rotation is about to close was left by a torn one.
GapsTorn == Cardinality(Gaps \ InFlight) <= torn

\* Once a generation was dropped, all but the gaps and the file itself are full.
LostFew == Cardinality(Kept) < written => Cardinality(Filled) >= MaxFiles - 1 - torn

\* What holds of the files as long as nothing collided and no rename failed.
Lasting == Sized /\ FullBehind /\ RotatesFull /\ GapsTorn /\ LostFew

KInv == HInv /\ (~ collided /\ ~ failed => Lasting)

\* As many lines as it takes to fill a file.
LEMMA LinesToFill ==
  ASSUME NEW c \in Nat, c * MaxLine >= MaxBytes
  PROVE  LinesPerFile \in Nat /\ c >= LinesPerFile
<1> DEFINE L == LinesPerFile
<1>1. L \in Nat /\ L * MaxLine <= MaxBytes + MaxLine - 1
  BY LogAssumption DEF LinesPerFile
<1>2. ASSUME c < L PROVE FALSE
  <2>1. c + 1 \in Nat /\ c + 1 <= L
    BY <1>1, <1>2
  <2> HIDE DEF L
  <2>2. (c + 1) * MaxLine <= L * MaxLine
    BY <1>1, <2>1, LessRoom, LogAssumption
  <2>3. (c + 1) * MaxLine = c * MaxLine + MaxLine
    BY LogAssumption
  <2>4. c * MaxLine \in Int /\ L * MaxLine \in Int
    BY <1>1, LogAssumption
  <2> QED BY <1>1, <2>2, <2>3, <2>4, LogAssumption
<1> QED BY <1>1, <1>2

\* Disjoint parts of a set, each of at least n elements.
LEMMA Parts ==
  ASSUME NEW U, IsFiniteSet(U), NEW I, IsFiniteSet(I), NEW F, NEW n \in Nat,
         \A i \in I : F[i] \subseteq U /\ Cardinality(F[i]) >= n,
         \A i, j \in I : i # j => F[i] \cap F[j] = {}
  PROVE  Cardinality(U) >= Cardinality(I) * n
<1> DEFINE G(i) == {g \in [1..n -> F[i]] : \A a, b \in 1..n : g[a] = g[b] => a = b}
<1> DEFINE p == [i \in I |-> CHOOSE g : g \in G(i)]
<1> DEFINE h == [z \in I \X (1..n) |-> p[z[1]][z[2]]]
<1>1. ASSUME NEW i \in I PROVE \E g : g \in G(i)
  <2>1. IsFiniteSet(F[i])
    BY FS_Subset
  <2>2. Cardinality(F[i]) \in Nat /\ ExistsBijection(1..Cardinality(F[i]), F[i])
    BY <2>1, FS_CardinalityType
  <2>3. PICK b : b \in Bijection(1..Cardinality(F[i]), F[i])
    BY <2>2 DEF ExistsBijection
  <2>4. /\ b \in [1..Cardinality(F[i]) -> F[i]]
        /\ \A x, y \in 1..Cardinality(F[i]) : b[x] = b[y] => x = y
    BY <2>3 DEF Bijection, Injection, IsInjective
  <2>5. 1..n \subseteq 1..Cardinality(F[i])
    BY <2>2
  <2>6. [k \in 1..n |-> b[k]] \in G(i)
    BY <2>4, <2>5
  <2> QED BY <2>6
<1>2. \A i \in I : p[i] \in G(i)
  BY <1>1
<1>3. h \in [I \X (1..n) -> U]
  <2> SUFFICES ASSUME NEW i \in I, NEW k \in 1..n PROVE p[i][k] \in U
    OBVIOUS
  <2>1. p[i] \in [1..n -> F[i]]
    BY <1>2
  <2> HIDE DEF p
  <2> QED BY <2>1
<1>4. ASSUME NEW y \in I \X (1..n), NEW z \in I \X (1..n), h[y] = h[z]
      PROVE  y = z
  <2> HIDE DEF p
  <2>1. /\ p[y[1]] \in G(y[1]) /\ p[z[1]] \in G(z[1]) /\ y[1] \in I /\ z[1] \in I
        /\ y[2] \in 1..n /\ z[2] \in 1..n
    BY <1>2
  <2>2. h[y] = p[y[1]][y[2]] /\ h[z] = p[z[1]][z[2]]
    OBVIOUS
  <2>3. h[y] \in F[y[1]] /\ h[z] \in F[z[1]]
    BY <2>1, <2>2
  <2>4. y[1] = z[1]
    BY <1>4, <2>1, <2>3
  <2>5. y[2] = z[2]
    BY <1>4, <2>1, <2>2, <2>4
  <2> QED BY <2>4, <2>5
<1> HIDE DEF h
<1>5. h \in Injection(I \X (1..n), U)
  BY <1>3, <1>4 DEF Injection, IsInjective
<1>6. Cardinality(I \X (1..n)) <= Cardinality(U)
  BY <1>5, FS_Injection
<1>7. IsFiniteSet(1..n) /\ Cardinality(1..n) = n
  BY FS_Interval
<1>8. Cardinality(I \X (1..n)) = Cardinality(I) * Cardinality(1..n)
  BY <1>7, FS_Product
<1>9. Cardinality(U) \in Nat /\ Cardinality(I) \in Nat
  BY FS_CardinalityType
<1> QED BY <1>6, <1>7, <1>8, <1>9

\* The sets the invariant counts are finite.
LEMMA FiniteParts ==
  ASSUME TypeOK
  PROVE  /\ IsFiniteSet(Generations) /\ Cardinality(Generations) = MaxFiles
         /\ \A S \in SUBSET Generations : IsFiniteSet(S) /\ Cardinality(S) \in Nat
         /\ Filled \in SUBSET Generations
         /\ Gaps \in SUBSET Generations
         /\ 0 \in Generations /\ torn \in Nat /\ written \in Nat
<1>1. IsFiniteSet(Generations) /\ Cardinality(Generations) = MaxFiles
  <2>1. 0 \in Int /\ MaxFiles - 1 \in Int /\ MaxFiles \in Nat \ {0}
    BY LogAssumption
  <2>2. IsFiniteSet(0..(MaxFiles - 1))
    BY <2>1, FS_Interval
  <2>3. Cardinality(0..(MaxFiles - 1)) =
          IF 0 > MaxFiles - 1 THEN 0 ELSE (MaxFiles - 1) - 0 + 1
    BY <2>1, FS_Interval
  <2> QED BY <2>1, <2>2, <2>3 DEF Generations
<1>2. \A S \in SUBSET Generations : IsFiniteSet(S) /\ Cardinality(S) \in Nat
  BY <1>1, FS_Subset, FS_CardinalityType
<1>3. Gaps \in SUBSET Generations /\ Filled \in SUBSET Generations /\ 0 \in Generations
  BY LogAssumption DEF Gaps, Filled, Generations
<1> QED BY <1>1, <1>2, <1>3 DEF TypeOK

\* So is the history kept.
LEMMA FiniteKept ==
  ASSUME TypeOK, Sized
  PROVE  IsFiniteSet(Kept) /\ Cardinality(Kept) \in Nat
<1> DEFINE R(i) == IF gen[i] = None THEN {} ELSE gen[i].records
<1> DEFINE S == {R(i) : i \in Generations}
<1> DEFINE f == [i \in Generations |-> R(i)]
<1>1. f \in Surjection(Generations, S)
  BY DEF Surjection
<1>2. IsFiniteSet(S)
  <2> HIDE DEF f, S
  <2> QED BY <1>1, FiniteParts, FS_Surjection
<1>3. \A T \in S : IsFiniteSet(T)
  BY FS_EmptySet DEF Sized
<1>4. Kept = UNION S
  BY DEF Kept
<1>5. IsFiniteSet(UNION S)
  <2> HIDE DEF S
  <2> QED BY <1>2, <1>3, FS_UNION
<1> QED BY <1>4, <1>5, FS_CardinalityType

\* The history kept is as long as the generations that are full make it.
LEMMA FullKeep ==
  ASSUME HInv, ~ collided, ~ failed, Lasting
  PROVE  Cardinality(Kept) >= Cardinality(Filled) * LinesPerFile
<1> DEFINE F == [i \in Generations |-> gen[i].records]
<1>1. TypeOK /\ Whole /\ Sized
  BY DEF HInv, OInv, Lasting
<1>2. IsFiniteSet(Kept) /\ IsFiniteSet(Filled)
  BY <1>1, FiniteParts, FiniteKept
<1>3. LinesPerFile \in Nat
  BY LogAssumption DEF LinesPerFile
<1>4. ASSUME NEW i \in Filled
      PROVE  F[i] \subseteq Kept /\ Cardinality(F[i]) >= LinesPerFile
  <2>1. i \in Generations /\ gen[i] # None /\ Full(gen[i].size) /\ F[i] = gen[i].records
    BY DEF Filled
  <2>2. F[i] \subseteq Kept
    BY <2>1 DEF Kept
  <2>3. /\ IsFiniteSet(gen[i].records) /\ gen[i].size \in Nat
        /\ gen[i].size <= Cardinality(gen[i].records) * MaxLine
    BY <1>1, <2>1 DEF Sized, TypeOK
  <2>4. Cardinality(gen[i].records) \in Nat
    BY <2>3, FS_CardinalityType
  <2>5. Cardinality(gen[i].records) * MaxLine >= MaxBytes
    <3>1. Cardinality(gen[i].records) * MaxLine \in Nat
      BY <2>4, LogAssumption
    <3> QED BY <2>1, <2>3, <3>1, LogAssumption DEF Full
  <2> QED BY <2>1, <2>2, <2>4, <2>5, LinesToFill
<1>5. ASSUME NEW i \in Filled, NEW j \in Filled, i < j
      PROVE  F[i] \cap F[j] = {}
  <2>1. /\ i \in Generations /\ gen[i] # None /\ F[i] = gen[i].records
        /\ j \in Generations /\ gen[j] # None /\ F[j] = gen[j].records
    BY DEF Filled
  <2>2. \A r \in F[i], s \in F[j] : s.n < r.n
    BY <1>1, <1>5, <2>1 DEF Whole, Ordered
  <2>3. \A r \in F[i] : r.n \in 1..written
    BY <1>1, <2>1 DEF TypeOK
  <2>4. \A r \in F[i] : ~ (r.n < r.n)
    BY <2>3
  <2> QED BY <2>2, <2>4
<1>6. \A i, j \in Filled : i # j => F[i] \cap F[j] = {}
  <2> SUFFICES ASSUME NEW i \in Filled, NEW j \in Filled, i # j
               PROVE  F[i] \cap F[j] = {}
    OBVIOUS
  <2>1. i < j \/ j < i
    BY DEF Filled, Generations
  <2> HIDE DEF F
  <2> QED BY <1>5, <2>1
<1> HIDE DEF F
<1> QED BY <1>2, <1>3, <1>4, <1>6, Parts

\* A step that moves no file and adds nothing to one keeps the history, if the
\* gaps it makes are counted.
LEMMA KeptSame ==
  ASSUME KInv, ~ collided', ~ failed', Lasting, TypeOK, TypeOK',
         \A k \in Generations \ {0} : gen'[k] = gen[k],
         gen[0] # None => gen'[0] = gen[0],
         gen[0] = None /\ gen'[0] # None => gen'[0] = [records |-> {}, size |-> 0],
         written' = written, torn' >= torn, GapsTorn', RotatesFull'
  PROVE  Lasting'
<1>1. Sized'
  <2> SUFFICES ASSUME NEW i \in Generations, gen'[i] # None
               PROVE  /\ IsFiniteSet(gen'[i].records)
                      /\ gen'[i].size <= Cardinality(gen'[i].records) * MaxLine
    BY DEF Sized
  <2>1. CASE gen'[i] = gen[i]
    BY <2>1 DEF Lasting, Sized
  <2>2. CASE gen'[i] = [records |-> {}, size |-> 0]
    <3>1. gen'[i].records = {} /\ gen'[i].size = 0
      BY <2>2
    <3>2. IsFiniteSet({}) /\ Cardinality({}) = 0
      BY FS_EmptySet
    <3>3. 0 * MaxLine = 0
      BY LogAssumption
    <3> QED BY <3>1, <3>2, <3>3
  <2> QED BY <2>1, <2>2
<1>2. FullBehind'
  BY DEF FullBehind, Lasting
<1>3. Filled' = Filled
  <2>1. ASSUME NEW i \in Generations PROVE i \in Filled' <=> i \in Filled
    <3>1. CASE gen'[i] = gen[i]
      BY <3>1 DEF Filled
    <3>2. CASE gen[i] = None /\ gen'[i] = [records |-> {}, size |-> 0]
      BY <3>2, LogAssumption DEF Filled, Full
    <3> QED BY <3>1, <3>2
  <2> QED BY <2>1 DEF Filled
<1>4. Kept' = Kept
  <2>1. \A r : r \in Kept' <=> r \in Kept
    BY KeptIs, KeptIsNext
  <2> QED BY <2>1
<1>5. LostFew'
  <2>1. torn \in Nat /\ torn' \in Nat /\ MaxFiles \in Nat /\ Cardinality(Filled) \in Nat
    BY FiniteParts, LogAssumption DEF TypeOK
  <2> QED BY <1>3, <1>4, <2>1 DEF LostFew, Lasting
<1> QED BY <1>1, <1>2, <1>5 DEF Lasting

\* The gaps that count, after a step that leaves no more of them.
LEMMA Shrinks ==
  ASSUME TypeOK, Lasting, torn' \in Nat, torn' = torn,
         Gaps' \ InFlight' \in SUBSET (Gaps \ InFlight)
  PROVE  GapsTorn' /\ torn' >= torn
<1>1. IsFiniteSet(Gaps \ InFlight)
  BY FiniteParts
<1>2. /\ Cardinality(Gaps \ InFlight) \in Nat /\ Cardinality(Gaps' \ InFlight') \in Nat
      /\ Cardinality(Gaps' \ InFlight') <= Cardinality(Gaps \ InFlight)
  BY <1>1, FS_Subset, FS_CardinalityType
<1> QED BY <1>2 DEF Lasting, GapsTorn

\* The same, after one that leaves one more and counts it.
LEMMA Grows ==
  ASSUME TypeOK, Lasting, torn' \in Nat, torn' = torn + 1, NEW i,
         Gaps' \ InFlight' \in SUBSET ((Gaps \ InFlight) \cup {i})
  PROVE  GapsTorn' /\ torn' >= torn
<1> DEFINE T == Gaps \ InFlight
<1> DEFINE S == T \cup {i}
<1>1. IsFiniteSet(T) /\ Gaps' \ InFlight' \in SUBSET S
  BY FiniteParts
<1> HIDE DEF T
<1>2. Cardinality(T) \in Nat
  BY <1>1, FS_CardinalityType
<1>3. IsFiniteSet(S) /\ Cardinality(S) <= Cardinality(T) + 1
  BY <1>1, <1>2, FS_AddElement
<1> HIDE DEF S
<1>4. /\ Cardinality(S) \in Nat /\ Cardinality(Gaps' \ InFlight') \in Nat
      /\ Cardinality(Gaps' \ InFlight') <= Cardinality(S)
  BY <1>1, <1>3, FS_Subset, FS_CardinalityType
<1>5. torn \in Nat /\ Cardinality(T) <= torn
  BY DEF TypeOK, Lasting, GapsTorn, T
<1> QED BY <1>2, <1>3, <1>4, <1>5 DEF GapsTorn

\* Stat, GiveUp and Open move no file; the end of a process in a rotation may
\* leave a gap, which is counted if it is below the two oldest.
LEMMA KQuiet ==
  ASSUME KInv, ~ collided', ~ failed', TypeOK', NEW w \in Writers,
         Stat(w) \/ GiveUp(w) \/ Open(w)
  PROVE  Lasting'
<1>1. ~ collided /\ ~ failed /\ written' = written
  <2>1. CASE Stat(w)
    BY <2>1 DEF Stat
  <2>2. CASE GiveUp(w) \/ Open(w)
    BY <2>2 DEF GiveUp, Open
  <2> QED BY <2>1, <2>2
<1>2. Lasting /\ Whole /\ TypeOK /\ torn' \in Nat
  BY <1>1 DEF KInv, HInv, OInv, TypeOK
<1>3. 0 \in Generations
  BY <1>2, FiniteParts
<1>4. /\ \A k \in Generations \ {0} : gen'[k] = gen[k]
      /\ gen[0] # None => gen'[0] = gen[0]
      /\ gen[0] = None /\ gen'[0] # None => gen'[0] = [records |-> {}, size |-> 0]
  BY <1>2, <1>3 DEF Stat, GiveUp, Open, TypeOK
<1>5. \A v \in Writers \ {w} : turn'[v] = turn[v]
  BY <1>2 DEF Stat, GiveUp, Open, TypeOK
<1>6. Gaps' = Gaps
  <2>1. ASSUME NEW l \in Generations, NEW i \in 1..(MaxFiles - 3), l > i
        PROVE  gen'[l] = gen[l]
    BY <1>4, <2>1 DEF Generations
  <2>2. ASSUME NEW i \in 1..(MaxFiles - 3)
        PROVE  gen'[i] = gen[i]
    BY <1>4, LogAssumption DEF Generations
  <2> QED BY <2>1, <2>2 DEF Gaps
<1>7. RotatesFull'
  <2> SUFFICES ASSUME NEW v \in Writers, turn'[v] # 0
               PROVE  gen'[0] # None /\ Full(gen'[0].size)
    BY DEF RotatesFull
  <2>1. CASE turn[v] # 0
    BY <1>2, <1>4, <2>1 DEF Lasting, RotatesFull
  <2>2. CASE turn[v] = 0
    <3>1. v = w /\ Stat(w)
      BY <1>2, <1>5, <2>2 DEF GiveUp, Open, TypeOK
    <3> QED BY <1>2, <3>1 DEF Stat, TypeOK
  <2> QED BY <2>1, <2>2
<1>8. GapsTorn' /\ torn' >= torn
  <2>1. CASE Stat(w) \/ Open(w)
    <3>1. torn' = torn
      BY <2>1 DEF Stat, Open
    <3>2. turn[w] = 0 \/ turn' = turn
      BY <1>2, <2>1 DEF Stat, Open, TypeOK
    <3>3. InFlight \subseteq InFlight'
      BY <1>5, <3>2 DEF InFlight, Target
    <3>4. Gaps' \ InFlight' \in SUBSET (Gaps \ InFlight)
      BY <1>6, <3>3
    <3> QED BY <1>1, <1>2, <3>1, <3>4, Shrinks
  <2>2. CASE GiveUp(w) /\ turn[w] > 2
    <3>1. torn' = torn + 1
      BY <2>2 DEF GiveUp
    <3>2. InFlight \subseteq InFlight' \cup {Target(turn[w])}
      BY <1>5 DEF InFlight, Target
    <3>3. Gaps' \ InFlight' \in SUBSET ((Gaps \ InFlight) \cup {Target(turn[w])})
      BY <1>6, <3>2
    <3> QED BY <1>1, <1>2, <3>1, <3>3, Grows
  <2>3. CASE GiveUp(w) /\ ~ (turn[w] > 2)
    <3>1. torn' = torn
      BY <2>3 DEF GiveUp
    <3>2. InFlight \subseteq InFlight' \cup {Target(turn[w])}
      BY <1>5 DEF InFlight, Target
    <3>3. Target(turn[w]) \notin Gaps
      BY <1>2, <2>3, LogAssumption DEF Target, Gaps, TypeOK
    <3>4. Gaps' \ InFlight' \in SUBSET (Gaps \ InFlight)
      BY <1>6, <3>2, <3>3
    <3> QED BY <1>1, <1>2, <3>1, <3>4, Shrinks
  <2> QED BY <2>1, <2>2, <2>3
<1> QED BY <1>1, <1>2, <1>4, <1>7, <1>8, KeptSame

\* A line is added to the file itself.
LEMMA KWrite ==
  ASSUME KInv, ~ collided', ~ failed', TypeOK', NEW w \in Writers, NEW e \in Entries,
         Write(w, e)
  PROVE  Lasting'
<1> DEFINE new == [by |-> w, n |-> written + 1]
<1>1. OInv
  BY DEF KInv, HInv
<1>2. /\ pc[w] = "write" /\ written' = written + 1 /\ UNCHANGED <<turn, collided, failed, torn>>
      /\ fd[w] # None =>
           /\ gen[fd[w]] # None
           /\ gen'[fd[w]] = [records |-> gen[fd[w]].records \cup {new},
                             size |-> gen[fd[w]].size + Serialize(e)]
           /\ \A k \in Generations \ {fd[w]} : gen'[k] = gen[k]
  BY <1>1, Written
<1>3. Lasting /\ Whole /\ TypeOK
  BY <1>2 DEF KInv, HInv, OInv
<1>4. /\ 0 \in Generations /\ torn \in Nat /\ written \in Nat
      /\ fd[w] = 0 /\ 0 # None
  BY <1>2, <1>3, FiniteParts, LogAssumption DEF Whole, AtTheHead, Generations
<1>5. /\ gen[0] # None
      /\ gen'[0].records = gen[0].records \cup {new}
      /\ gen'[0].size = gen[0].size + Serialize(e)
      /\ \A k \in Generations \ {0} : gen'[k] = gen[k]
  BY <1>2, <1>4
<1>6. gen'[0] # None
  <2>1. gen'[0] = [records |-> gen[0].records \cup {new}, size |-> gen[0].size + Serialize(e)]
    BY <1>2, <1>4
  <2>2. gen[0].records \subseteq [by : Writers, n : 1..written] /\ gen[0].size \in Nat
    BY <1>3, <1>4, <1>5 DEF TypeOK
  <2>3. /\ gen[0].records \cup {new} \subseteq [by : Writers, n : Nat]
        /\ gen[0].size + Serialize(e) \in Nat
    BY <1>4, <2>2, LineSize, LogAssumption
  <2>4. gen'[0] \in [records : SUBSET [by : Writers, n : Nat], size : Nat]
    BY <2>1, <2>3
  <2> QED BY <2>4, LogAssumption
<1>7. \A k \in Generations : gen[k] # None => new \notin gen[k].records
  <2> SUFFICES ASSUME NEW k \in Generations, gen[k] # None, new \in gen[k].records
               PROVE  FALSE
    OBVIOUS
  <2>1. new.n \in 1..written
    BY <1>3 DEF TypeOK
  <2> QED BY <1>4, <2>1
<1>8. Sized'
  <2> SUFFICES ASSUME NEW i \in Generations, gen'[i] # None
               PROVE  /\ IsFiniteSet(gen'[i].records)
                      /\ gen'[i].size <= Cardinality(gen'[i].records) * MaxLine
    BY DEF Sized
  <2>1. CASE i # 0
    BY <1>3, <1>5, <2>1 DEF Lasting, Sized
  <2>2. CASE i = 0
    <3> DEFINE c == Cardinality(gen[0].records)
    <3>1. /\ IsFiniteSet(gen[0].records) /\ gen[0].size <= c * MaxLine
          /\ gen[0].size \in Nat
      BY <1>3, <1>4, <1>5 DEF Lasting, Sized, TypeOK
    <3>2. c \in Nat
      BY <3>1, FS_CardinalityType
    <3>3. IsFiniteSet(gen'[0].records) /\ Cardinality(gen'[0].records) = c + 1
      BY <1>4, <1>5, <1>7, <3>1, FS_AddElement
    <3>4. Serialize(e) \in 1..MaxLine /\ MaxLine \in Nat
      BY LineSize, LogAssumption
    <3> HIDE DEF c
    <3>5. (c + 1) * MaxLine = c * MaxLine + MaxLine /\ c * MaxLine \in Nat
      BY <3>2, <3>4
    <3>6. gen[0].size + Serialize(e) <= (c + 1) * MaxLine
      BY <3>1, <3>4, <3>5
    <3> QED BY <1>5, <2>2, <3>3, <3>6
  <2> QED BY <2>1, <2>2
<1>9. FullBehind'
  BY <1>3, <1>5 DEF Lasting, FullBehind
<1>10. RotatesFull'
  <2>1. \A v \in Writers : turn[v] = 0
    BY <1>2, <1>3 DEF Whole, Alone, TypeOK
  <2> QED BY <1>2, <2>1 DEF RotatesFull
<1>11. GapsTorn'
  <2>1. Gaps' = Gaps
    <3>1. ASSUME NEW l \in Generations, NEW i \in 1..(MaxFiles - 3), l > i
          PROVE  gen'[l] = gen[l]
      BY <1>5, <3>1 DEF Generations
    <3>2. ASSUME NEW i \in 1..(MaxFiles - 3)
          PROVE  gen'[i] = gen[i]
      BY <1>5, LogAssumption DEF Generations
    <3> QED BY <3>1, <3>2 DEF Gaps
  <2>2. InFlight' = InFlight
    BY <1>2 DEF InFlight, Target
  <2> QED BY <1>2, <1>3, <2>1, <2>2 DEF Lasting, GapsTorn
<1>12. LostFew'
  <2>1. IsFiniteSet(Kept) /\ Cardinality(Kept) \in Nat
    BY <1>3, FiniteKept DEF Lasting
  <2>2. new \notin Kept
    BY <1>7, KeptIs
  <2>3. Kept' = Kept \cup {new}
    <3>1. \A r : r \in Kept' <=> r \in Kept \/ r = new
      BY <1>4, <1>5, <1>6, KeptIs, KeptIsNext
    <3> QED BY <3>1
  <2>4. Cardinality(Kept') = Cardinality(Kept) + 1
    BY <2>1, <2>2, <2>3, FS_AddElement
  <2>5. Filled \in SUBSET Filled'
    <3> SUFFICES ASSUME NEW i \in Filled PROVE i \in Filled'
      OBVIOUS
    <3>1. CASE i # 0
      BY <1>5, <3>1 DEF Filled
    <3>2. CASE i = 0
      <4>1. gen[0].size \in Nat /\ Serialize(e) \in 1..MaxLine
        BY <1>3, <1>4, <1>5, LineSize DEF TypeOK
      <4> QED BY <1>4, <1>5, <1>6, <3>2, <4>1, LogAssumption DEF Filled, Full
    <3> QED BY <3>1, <3>2
  <2>6. Filled' \in SUBSET Generations
    BY DEF Filled
  <2>7. /\ Cardinality(Filled) \in Nat /\ Cardinality(Filled') \in Nat
        /\ Cardinality(Filled) <= Cardinality(Filled')
    BY <1>3, <2>5, <2>6, FiniteParts, FS_Subset
  <2> QED BY <1>2, <1>3, <1>4, <2>1, <2>4, <2>7, LogAssumption DEF Lasting, LostFew
<1> QED BY <1>8, <1>9, <1>10, <1>11, <1>12 DEF Lasting

\* What a step of a rotation does to the files while nothing goes wrong.
LEMMA Moved ==
  ASSUME HInv, ~ collided', ~ failed', NEW w \in Writers, Rename(w),
         NEW i, NEW j, i = Target(turn[w]), j = Source(i)
  PROVE  /\ ~ collided /\ ~ failed /\ written' = written /\ torn' = torn
         /\ i \in Generations \ {0} /\ j \in Generations /\ j = i - 1 /\ turn[w] # 0
         /\ InFlight = {i}
         /\ InFlight' = IF j = 0 THEN {} ELSE {j}
         /\ \A v \in Writers : turn'[v] # 0 => j # 0
         /\ gen[i] # None => i = MaxFiles - 1
         /\ \/ gen[j] = None /\ gen' = gen
            \/ /\ gen[j] # None /\ gen'[i] = gen[j] /\ gen'[j] = None
               /\ \A k \in Generations \ {i, j} : gen'[k] = gen[k]
<1>1. ~ collided /\ ~ failed /\ written' = written /\ torn' = torn
  BY DEF Rename
<1>2. Whole /\ OInv /\ TypeOK
  BY <1>1 DEF HInv, OInv
<1>3. /\ i \in Generations \ {0} /\ j \in Generations /\ j = i - 1
      /\ turn[w] \in 1..(MaxFiles - 1) /\ pc[w] = "rotate"
  BY <1>2, StepOfRotation DEF Rename
<1>4. \A v \in Writers \ {w} : turn[v] = 0 /\ turn'[v] = 0
  <2>1. \A v \in Writers \ {w} : pc[v] = "idle" /\ turn[v] = 0
    BY <1>2, <1>3 DEF Alone, Whole, TypeOK
  <2> QED BY <1>2, <2>1 DEF Rename, TypeOK
<1>5. InFlight = {i}
  BY <1>3, <1>4 DEF InFlight
<1>6. /\ j = 0 => turn'[w] = 0
      /\ j # 0 => turn'[w] = turn[w] + 1 /\ Target(turn'[w]) = j
  BY <1>2, <1>3, LogAssumption DEF Rename, TypeOK, Target, Source
<1>7. InFlight' = IF j = 0 THEN {} ELSE {j}
  <2>1. CASE j = 0
    BY <1>4, <1>6, <2>1 DEF InFlight
  <2>2. CASE j # 0
    <3>1. turn'[w] # 0
      BY <1>3, <1>6, <2>2
    <3>2. {v \in Writers : turn'[v] # 0} = {w}
      BY <1>4, <3>1
    <3>3. InFlight' = {Target(turn'[v]) : v \in {w}}
      BY <3>2 DEF InFlight, Target
    <3> QED BY <1>6, <2>2, <3>3
  <2> QED BY <2>1, <2>2
<1>8. \A v \in Writers : turn'[v] # 0 => j # 0
  BY <1>4, <1>6
<1>9. gen[i] # None => i = MaxFiles - 1
  <2>1. turn[w] > 1 => gen[i] = None
    BY <1>2 DEF RoomAhead, Whole
  <2> QED BY <1>3, <2>1, LogAssumption DEF Target
<1>10. \/ gen[j] = None /\ gen' = gen
       \/ gen[j] # None /\ gen' = [gen EXCEPT ![i] = gen[j], ![j] = None]
  BY <1>2 DEF Rename, TypeOK
<1>11. i # j
  BY <1>3 DEF Generations
<1>12. \/ gen[j] = None /\ gen' = gen
       \/ /\ gen[j] # None /\ gen'[i] = gen[j] /\ gen'[j] = None
          /\ \A k \in Generations \ {i, j} : gen'[k] = gen[k]
  BY <1>2, <1>3, <1>10, <1>11 DEF TypeOK
<1>13. turn[w] # 0
  BY <1>3
<1> QED BY <1>1, <1>3, <1>5, <1>7, <1>8, <1>9, <1>12, <1>13

\* A file that is not there is passed over: the gap above it was it, or there
\* was none.
LEMMA KPassed ==
  ASSUME KInv, ~ collided', ~ failed', NEW w \in Writers, Rename(w),
         gen[Source(Target(turn[w]))] = None
  PROVE  Lasting'
<1>1. PICK i, j : i = Target(turn[w]) /\ j = Source(i)
  OBVIOUS
<1>2. HInv
  BY DEF KInv
<1>3. /\ ~ collided /\ ~ failed /\ written' = written /\ torn' = torn
      /\ i \in Generations \ {0} /\ j \in Generations /\ j = i - 1 /\ turn[w] # 0
      /\ InFlight = {i}
      /\ InFlight' = IF j = 0 THEN {} ELSE {j}
      /\ gen' = gen /\ gen[j] = None
  BY <1>1, <1>2, Moved
<1>4. Lasting /\ TypeOK
  BY <1>3 DEF KInv, HInv, OInv
<1>5. j # 0
  BY <1>3, <1>4 DEF Lasting, RotatesFull
<1>6. Gaps' = Gaps /\ Filled' = Filled /\ Kept' = Kept
  BY <1>3 DEF Gaps, Filled, Kept
<1>7. i \in Gaps => j \in Gaps
  <2> SUFFICES ASSUME i \in Gaps PROVE j \in Gaps
    OBVIOUS
  <2>1. PICK l \in Generations : l > i /\ gen[l] # None
    BY DEF Gaps
  <2>2. l > j /\ j \in 1..(MaxFiles - 3)
    BY <1>3, <1>5, <2>1, LogAssumption DEF Gaps, Generations
  <2> QED BY <1>3, <2>1, <2>2 DEF Gaps
<1>8. GapsTorn'
  <2>1. IsFiniteSet(Gaps)
    BY <1>4, FiniteParts
  <2>2. /\ Cardinality(Gaps \ {i}) = IF i \in Gaps THEN Cardinality(Gaps) - 1 ELSE Cardinality(Gaps)
        /\ Cardinality(Gaps \ {j}) = IF j \in Gaps THEN Cardinality(Gaps) - 1 ELSE Cardinality(Gaps)
        /\ Cardinality(Gaps) \in Nat
    BY <2>1, FS_RemoveElement, FS_CardinalityType
  <2>3. Cardinality(Gaps \ {j}) <= Cardinality(Gaps \ {i})
    BY <1>7, <2>2
  <2>4. Cardinality(Gaps \ {i}) <= torn /\ torn \in Nat
    BY <1>3, <1>4 DEF Lasting, GapsTorn, TypeOK
  <2>5. Cardinality(Gaps \ {i}) \in Int /\ Cardinality(Gaps \ {j}) \in Int
    BY <2>2
  <2>6. Cardinality(Gaps \ {j}) <= torn
    BY <2>3, <2>4, <2>5
  <2> QED BY <1>3, <1>5, <1>6, <2>6 DEF GapsTorn
<1>9. Sized' /\ FullBehind' /\ LostFew'
  BY <1>3, <1>4, <1>6 DEF Lasting, Sized, FullBehind, LostFew
<1>10. RotatesFull'
  <2>1. gen[0] # None /\ Full(gen[0].size)
    BY <1>3, <1>4 DEF Lasting, RotatesFull
  <2> QED BY <1>3, <2>1 DEF RotatesFull
<1> QED BY <1>8, <1>9, <1>10 DEF Lasting

\* A file is moved: over the oldest, and then only the gaps are missing, or to a
\* generation that was missing.
LEMMA KMoved ==
  ASSUME KInv, ~ collided', ~ failed', TypeOK', NEW w \in Writers, Rename(w),
         gen[Source(Target(turn[w]))] # None
  PROVE  Lasting'
<1>1. PICK i, j : i = Target(turn[w]) /\ j = Source(i)
  OBVIOUS
<1>2. HInv
  BY DEF KInv
<1>3. /\ ~ collided /\ ~ failed /\ written' = written /\ torn' = torn
      /\ i \in Generations \ {0} /\ j \in Generations /\ j = i - 1 /\ turn[w] # 0
      /\ InFlight = {i}
      /\ InFlight' = IF j = 0 THEN {} ELSE {j}
      /\ \A v \in Writers : turn'[v] # 0 => j # 0
      /\ gen[i] # None => i = MaxFiles - 1
      /\ gen[j] # None /\ gen'[i] = gen[j] /\ gen'[j] = None
      /\ \A k \in Generations \ {i, j} : gen'[k] = gen[k]
  BY <1>1, <1>2, Moved
<1>4. Lasting /\ TypeOK
  BY <1>3 DEF KInv, HInv, OInv
<1>5. /\ gen[0] # None /\ Full(gen[0].size)
      /\ \A k \in Generations : gen[k] # None => Full(gen[k].size)
  BY <1>3, <1>4 DEF Lasting, RotatesFull, FullBehind
<1>6. i # j
  BY <1>3 DEF Generations
<1>7. \A k \in Generations : gen'[k] # None =>
        k # j /\ (gen'[k] = gen[k] \/ gen'[k] = gen[j])
  BY <1>3, <1>6
<1>8. Sized' /\ FullBehind'
  BY <1>3, <1>4, <1>5, <1>7 DEF Lasting, Sized, FullBehind
<1>9. RotatesFull'
  <2>1. j # 0 => gen'[0] = gen[0]
    <3>1. 0 \in Generations
      BY <1>4, FiniteParts
    <3> QED BY <1>3, <3>1
  <2> QED BY <1>3, <1>5, <2>1 DEF RotatesFull
<1>10. GapsTorn'
  <2> SUFFICES ASSUME NEW k \in Gaps', k # j PROVE k \in Gaps \ {i}
    <3>1. j = 0 => 0 \notin Gaps'
      BY DEF Gaps
    <3>2. Gaps' \ InFlight' = Gaps' \ {j}
      BY <1>3, <3>1
    <3>3. Gaps' \ InFlight' \in SUBSET (Gaps \ InFlight)
      BY <1>3, <3>2
    <3> QED BY <1>3, <1>4, <3>3, Shrinks DEF TypeOK
  <2>1. k \in 1..(MaxFiles - 3) /\ k \in Generations /\ gen'[k] = None
    BY LogAssumption DEF Gaps, Generations
  <2>2. k # i /\ gen[k] = None
    BY <1>3, <2>1
  <2>3. PICK l \in Generations : l > k /\ gen'[l] # None
    BY DEF Gaps
  <2>4. CASE l = i
    <3>1. j > k
      BY <1>3, <2>1, <2>3, <2>4 DEF Generations
    <3> QED BY <1>3, <2>1, <2>2, <3>1 DEF Gaps
  <2>5. CASE l # i
    <3>1. gen[l] # None
      BY <1>3, <2>3, <2>5
    <3> QED BY <2>1, <2>2, <2>3, <3>1 DEF Gaps
  <2> QED BY <2>4, <2>5
<1>11. j \in Filled /\ IsFiniteSet(Filled) /\ Cardinality(Filled) \in Nat
  BY <1>3, <1>4, <1>5, FiniteParts DEF Filled
<1>12. Filled' = (Filled \ {j}) \cup {i}
  <2>1. ASSUME NEW k \in Generations
        PROVE  k \in Filled' <=> k = i \/ (k \in Filled /\ k # j)
    BY <1>3, <1>5, <1>6 DEF Filled
  <2> QED BY <1>3, <2>1 DEF Filled
<1>13. /\ IsFiniteSet(Filled \ {j})
       /\ Cardinality(Filled \ {j}) = Cardinality(Filled) - 1
       /\ Cardinality(Filled') =
            IF i \in Filled THEN Cardinality(Filled) - 1 ELSE Cardinality(Filled)
  <2>1. IsFiniteSet(Filled \ {j}) /\ Cardinality(Filled \ {j}) = Cardinality(Filled) - 1
    BY <1>11, FS_RemoveElement
  <2>2. Cardinality((Filled \ {j}) \cup {i}) =
          IF i \in Filled \ {j} THEN Cardinality(Filled) - 1 ELSE Cardinality(Filled) - 1 + 1
    <3> DEFINE S == Filled \ {j}
    <3> HIDE DEF S
    <3>1. IsFiniteSet(S) /\ Cardinality(S) = Cardinality(Filled) - 1
      BY <2>1 DEF S
    <3>2. Cardinality(S \cup {i}) = IF i \in S THEN Cardinality(S) ELSE Cardinality(S) + 1
      BY <3>1, FS_AddElement
    <3> QED BY <3>1, <3>2 DEF S
  <2> QED BY <1>6, <1>11, <1>12, <2>1, <2>2
<1>14. LostFew'
  <2>1. CASE gen[i] = None
    <3>1. Kept' = Kept
      <4>1. \A r : r \in Kept' <=> r \in Kept
        <5>1. \A k \in Generations : gen'[k] # None =>
                \E l \in Generations : gen[l] # None /\ gen'[k] = gen[l]
          BY <1>3, <1>7
        <5>2. \A k \in Generations : gen[k] # None =>
                \E l \in Generations : gen'[l] # None /\ gen'[l] = gen[k]
          <6> SUFFICES ASSUME NEW k \in Generations, gen[k] # None
                       PROVE  \E l \in Generations : gen'[l] # None /\ gen'[l] = gen[k]
            OBVIOUS
          <6>1. CASE k = j
            BY <1>3, <6>1
          <6>2. CASE k # j
            BY <1>3, <2>1, <6>2
          <6> QED BY <6>1, <6>2
        <5> QED BY <5>1, <5>2, KeptIs, KeptIsNext
      <4> QED BY <4>1
    <3>2. i \notin Filled
      BY <2>1 DEF Filled
    <3> QED BY <1>3, <1>4, <1>13, <3>1, <3>2 DEF Lasting, LostFew
  <2>2. CASE gen[i] # None
    <3>1. i \in Filled /\ i = MaxFiles - 1
      BY <1>3, <1>5, <2>2 DEF Filled
    <3>2. Generations \ Filled \in SUBSET (Gaps \ {i})
      <4> SUFFICES ASSUME NEW k \in Generations \ Filled PROVE k \in Gaps \ {i}
        OBVIOUS
      <4>1. gen[k] = None /\ k # i /\ k # j /\ k # 0
        BY <1>3, <1>5, <2>2 DEF Filled
      <4>2. k \in 1..(MaxFiles - 3) /\ i > k
        BY <1>3, <3>1, <4>1, LogAssumption DEF Generations
      <4> QED BY <1>3, <2>2, <4>1, <4>2 DEF Gaps
    <3>3. Cardinality(Generations \ Filled) <= torn
      <4>1. IsFiniteSet(Gaps \ {i}) /\ Cardinality(Gaps \ {i}) \in Nat
        BY <1>4, FiniteParts
      <4>2. /\ Cardinality(Generations \ Filled) <= Cardinality(Gaps \ {i})
            /\ Cardinality(Generations \ Filled) \in Nat
        BY <1>4, <3>2, <4>1, FiniteParts, FS_Subset
      <4>3. Cardinality(Gaps \ {i}) <= torn /\ torn \in Nat
        BY <1>3, <1>4 DEF Lasting, GapsTorn, TypeOK
      <4> QED BY <4>1, <4>2, <4>3
    <3>4. /\ Cardinality(Generations) = MaxFiles
          /\ Cardinality(Generations \ Filled) =
               Cardinality(Generations) - Cardinality(Generations \cap Filled)
      BY <1>4, FiniteParts, FS_Difference
    <3>5. Generations \cap Filled = Filled
      BY DEF Filled
    <3>6. torn \in Nat /\ MaxFiles \in Nat
      BY <1>4, LogAssumption DEF TypeOK
    <3>7. Cardinality(Filled') >= MaxFiles - 1 - torn
      BY <1>11, <1>13, <3>1, <3>3, <3>4, <3>5, <3>6
    <3> QED BY <1>3, <3>7 DEF LostFew
  <2> QED BY <2>1, <2>2
<1> QED BY <1>8, <1>9, <1>10, <1>14 DEF Lasting

\* Every step keeps the invariant.
LEMMA KInductive == KInv /\ [Next]_vars => KInv'
<1> SUFFICES ASSUME KInv, [Next]_vars PROVE KInv'
  OBVIOUS
<1>1. HInv' /\ TypeOK'
  BY HInductive DEF KInv, HInv, OInv
<1>2. ~ collided' /\ ~ failed' => Lasting'
  <2> SUFFICES ASSUME ~ collided', ~ failed' PROVE Lasting'
    OBVIOUS
  <2>1. CASE Next
    BY <1>1, <2>1, KQuiet, KPassed, KMoved, KWrite DEF Next
  <2>2. CASE UNCHANGED vars
    <3>1. Lasting
      BY <2>2 DEF KInv, vars
    <3>2. Kept' = Kept /\ Gaps' = Gaps /\ InFlight' = InFlight /\ Filled' = Filled
      BY <2>2 DEF vars, Kept, Gaps, InFlight, Filled, Target
    <3> QED BY <2>2, <3>1, <3>2
        DEF vars, Lasting, Sized, FullBehind, RotatesFull, GapsTorn, LostFew
  <2> QED BY <2>1, <2>2
<1> QED BY <1>1, <1>2 DEF KInv

\* The invariant holds initially.
LEMMA KInit == Init => KInv
<1> SUFFICES ASSUME Init PROVE KInv
  OBVIOUS
<1>1. HInv /\ TypeOK
  BY HInit DEF HInv, OInv
<1>2. Sized /\ FullBehind /\ RotatesFull
  BY FiniteParts, <1>1 DEF Init, Sized, FullBehind, RotatesFull
<1>3. GapsTorn
  <2>1. Gaps = {}
    BY DEF Init, Gaps
  <2>2. Gaps \ InFlight = {}
    BY <2>1
  <2> QED BY <2>2, FS_EmptySet DEF Init, GapsTorn
<1>4. LostFew
  <2>1. Kept = {}
    BY DEF Init, Kept
  <2> QED BY <2>1, FS_EmptySet DEF Init, LostFew
<1> QED BY <1>1, <1>2, <1>3, <1>4 DEF KInv, Lasting

\* The history cannot be rolled out: for any number of generations, any limits
\* and any sizes of entries, once anything has been dropped the log holds the
\* records that fill all generations but one, less one generation for every
\* rotation torn half way.
THEOREM HistoryKept == Spec => []RecentKept
<1>1. Spec => []KInv
  BY KInit, KInductive, PTL DEF Spec
<1>2. KInv => RecentKept
  <2> SUFFICES ASSUME KInv, ~ collided, ~ failed, Cardinality(Kept) < written
               PROVE  Cardinality(Kept) >= (MaxFiles - 1 - torn) * LinesPerFile
    BY DEF RecentKept
  <2>1. HInv /\ Lasting /\ TypeOK
    BY DEF KInv, HInv, OInv
  <2>2. Cardinality(Filled) >= MaxFiles - 1 - torn
    BY <2>1 DEF Lasting, LostFew
  <2>3. Cardinality(Kept) >= Cardinality(Filled) * LinesPerFile
    BY <2>1, FullKeep
  <2>4. Cardinality(Kept) \in Nat /\ Cardinality(Filled) \in Nat /\ torn \in Nat
    BY <2>1, FiniteKept, FiniteParts DEF Lasting
  <2>5. LinesPerFile \in Nat /\ MaxFiles - 1 - torn \in Int
    BY <2>4, LogAssumption DEF LinesPerFile
  <2> DEFINE n == MaxFiles - 1 - torn
  <2>6. n * LinesPerFile <= Cardinality(Filled) * LinesPerFile
    <3>1. n \in Int /\ Cardinality(Filled) - n \in Nat
      BY <2>2, <2>4, <2>5
    <3> HIDE DEF n
    <3>2. Cardinality(Filled) * LinesPerFile =
            n * LinesPerFile + (Cardinality(Filled) - n) * LinesPerFile
      BY <2>4, <2>5, <3>1
    <3>3. (Cardinality(Filled) - n) * LinesPerFile \in Nat /\ n * LinesPerFile \in Int
      BY <2>5, <3>1
    <3> QED BY <3>2, <3>3
  <2>7. n * LinesPerFile \in Int /\ Cardinality(Filled) * LinesPerFile \in Int
    BY <2>4, <2>5
  <2> HIDE DEF n
  <2>8. Cardinality(Kept) >= n * LinesPerFile
    BY <2>3, <2>4, <2>6, <2>7
  <2> QED BY <2>8 DEF n
<1> QED BY <1>1, <1>2, PTL

===============================================================================
