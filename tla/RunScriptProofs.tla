--------------------------- MODULE RunScriptProofs ---------------------------
(*****************************************************************************)
(* Proofs about RunScript: the types, that a command is started at most      *)
(* once, that nothing is left at the host, and that the output is its own.   *)
(* A POST is sent once, so an attempt has one request to execute the         *)
(* script; and a second attempt begins after an answer that says the         *)
(* session is gone, which leaves no such request behind that could still     *)
(* start the script, unless the execution itself was answered so.            *)
(*****************************************************************************)
EXTENDS RunScript, TLAPS

\* The one request of an attempt to execute the script.
Exec(a) == Request("executeFile", "script", a, 0)

\* It is not with Termix, and has started nothing.
Unsent(a) == Exec(a) \notin wire /\ proc[Exec(a)] = None

\* The attempt has not come to it.
Early ==
  \/ step \in {"writeFile", "changePermissions"}
  \/ step = "executeFile" /\ call = None

Wires == [op : Steps \cup {"deleteItem"}, path : Paths, attempt : Attempts, try : 0..Retry]

Procs == [phase : {"begun", "running", "ended"}, marks : 0..4,
          out : BOOLEAN, err : BOOLEAN]

ClientTypes ==
  /\ step \in Steps \cup {"cleanup", "done"} /\ attempt \in Attempts
  /\ call \in {None, 0}
  /\ pending \subseteq Paths
  /\ result \in {None, "known", "unknown", "stale", "error"}
  /\ wire \subseteq Wires
  /\ call # None => step \in Steps
  /\ pending # {} <=> step = "cleanup"
  /\ step \in Steps <=> result = None

HostTypes ==
  /\ file \in [Paths -> {"absent", "here", "trash"}] /\ runnable \in BOOLEAN
  /\ proc \in [Runs -> {None} \cup Procs]
  /\ late \in BOOLEAN /\ uncleaned \in BOOLEAN /\ cut \in BOOLEAN

\* Every request is the first try of its kind.
FirstTries ==
  /\ \A r \in wire : r.op = "executeFile" => r = Exec(r.attempt)
  /\ \A r \in Runs : proc[r] # None => r = Exec(r.attempt)

NotBefore == \A a \in Attempts : a > attempt \/ (a = attempt /\ Early) => Unsent(a)

StaleIsUnsent == result = "stale" => Unsent(attempt) \/ cut

SecondTry == attempt = 2 => Unsent(1) \/ cut

EInv ==
  ClientTypes /\ HostTypes /\ FirstTries /\ NotBefore /\ StaleIsUnsent /\ SecondTry

\* What the client does with an answer, or without one: it deletes, goes on to
\* its next call, or begins again, and never repeats an execution by itself.
Moved(left, stale) ==
  /\ ClientTypes'
  /\ \A r \in wire' : r \in left \/ r.op = "deleteItem"
  /\ attempt' = attempt \/ (attempt = 1 /\ attempt' = 2 /\ result = "stale")
  /\ result' = "stale" => attempt' = attempt /\ (result = "stale" \/ stale)
  /\ attempt' = attempt /\ Early' => Early

\* A request that deletes has its place on the wire.
LEMMA DeletesAreWires ==
  ASSUME attempt \in Attempts, NEW p \in Paths
  PROVE  AwaitedDelete(p) \in Wires /\ AwaitedDelete(p).op = "deleteItem"
BY ScriptAssumption DEF AwaitedDelete, Request, Wires, Steps

LEMMA CleanupMoves ==
  ASSUME ClientTypes, NEW left \in SUBSET wire,
         NEW outcome \in {"known", "unknown", "stale", "error"}, Cleanup(outcome, left)
  PROVE  Moved(left, outcome = "stale")
<1>1. /\ step' = "cleanup" /\ call' = None /\ result' = outcome /\ pending' = Paths
      /\ wire' = left \cup {AwaitedDelete(p) : p \in Paths} /\ attempt' = attempt
  BY DEF Cleanup
<1>2. wire' \subseteq Wires /\ \A r \in wire' : r \in left \/ r.op = "deleteItem"
  BY <1>1, DeletesAreWires DEF ClientTypes
<1>3. ClientTypes'
  BY <1>1, <1>2, ScriptAssumption DEF ClientTypes, Steps, Paths
<1>4. ~ Early'
  BY <1>1 DEF Early
<1> QED BY <1>1, <1>2, <1>3, <1>4 DEF Moved

LEMMA ReceiveMoves ==
  ASSUME ClientTypes, call # None, NEW left \in SUBSET wire, NEW a, Receive(a, left)
  PROVE  Moved(left, IsStale(a))
<1>1. call = 0 /\ step \in Steps
  BY DEF ClientTypes
<1>2. ~ (call < Retries("POST"))
  BY <1>1 DEF Retries
<1>3. CASE Cleanup(IF IsStale(a) THEN "stale" ELSE "error", left)
  <2>1. CASE IsStale(a)
    <3>1. Moved(left, "stale" = "stale")
      BY <1>3, <2>1, CleanupMoves
    <3> QED BY <2>1, <3>1 DEF Moved
  <2>2. CASE ~ IsStale(a)
    <3>1. Moved(left, "error" = "stale")
      BY <1>3, <2>2, CleanupMoves
    <3> QED BY <2>2, <3>1 DEF Moved
  <2> QED BY <2>1, <2>2
<1>4. CASE Cleanup(IF Parsed(proc[Awaited]) THEN "known" ELSE "unknown", left)
  <2>1. CASE Parsed(proc[Awaited])
    <3>1. Moved(left, "known" = "stale")
      BY <1>4, <2>1, CleanupMoves
    <3> QED BY <3>1 DEF Moved
  <2>2. CASE ~ Parsed(proc[Awaited])
    <3>1. Moved(left, "unknown" = "stale")
      BY <1>4, <2>2, CleanupMoves
    <3> QED BY <3>1 DEF Moved
  <2> QED BY <2>1, <2>2
<1>5. CASE /\ step # "executeFile"
           /\ step' = IF step = "writeFile" THEN "changePermissions" ELSE "executeFile"
           /\ call' = None /\ wire' = left
           /\ UNCHANGED <<attempt, pending, result>>
  <2>1. ClientTypes'
    BY <1>1, <1>5, ScriptAssumption DEF ClientTypes, Steps
  <2>2. Early
    BY <1>1, <1>5 DEF Early, Steps
  <2>3. result' # "stale"
    BY <1>1, <1>5, ScriptAssumption DEF ClientTypes
  <2> QED BY <1>5, <2>1, <2>2, <2>3 DEF Moved
<1> QED BY <1>2, <1>3, <1>4, <1>5 DEF Receive

LEMMA SettleMoves ==
  ASSUME ClientTypes, NEW path \in pending, NEW left \in SUBSET wire, Settle(path, left)
  PROVE  Moved(left, FALSE)
<1>1. step = "cleanup" /\ call = None /\ call' = None
  BY DEF ClientTypes, Settle, Steps
<1>2. pending' \subseteq Paths /\ wire' = left
  BY DEF ClientTypes, Settle
<1>3. CASE pending' # {} /\ UNCHANGED <<step, attempt, result>>
  <2>1. ClientTypes'
    BY <1>1, <1>2, <1>3 DEF ClientTypes, Steps
  <2> QED BY <1>1, <1>2, <1>3, <2>1 DEF Moved, Early
<1>4. CASE /\ pending' = {} /\ result = "stale" /\ attempt = 1
           /\ step' = "writeFile" /\ attempt' = 2 /\ result' = None
  <2>1. ClientTypes'
    BY <1>1, <1>2, <1>4 DEF ClientTypes, Steps, Attempts
  <2> QED BY <1>2, <1>4, <2>1, ScriptAssumption DEF Moved
<1>5. CASE pending' = {} /\ step' = "done" /\ UNCHANGED <<attempt, result>>
  <2>1. ClientTypes'
    <3>1. result # None
      BY <1>1 DEF ClientTypes, Steps
    <3> QED BY <1>1, <1>2, <1>5, <3>1 DEF ClientTypes, Steps
  <2> QED BY <1>1, <1>2, <1>5, <2>1 DEF Moved, Early
<1> QED BY <1>3, <1>4, <1>5 DEF Settle
\* The invariant after a step of the client to which nothing else happens but
\* what is done to files.
LEMMA MovedOn ==
  ASSUME EInv, NEW left \in SUBSET wire, NEW stale, Moved(left, stale), HostTypes',
         proc' = proc, cut => cut',
         stale => (Exec(attempt) \notin left /\ proc[Exec(attempt)] = None) \/ cut'
  PROVE  EInv'
<1>1. ClientTypes' /\ attempt \in Attempts
  BY DEF Moved, EInv, ClientTypes
<1>2. \A r \in wire' : r.op = "executeFile" => r \in left /\ r \in wire
  BY DEF Moved
<1>3. \A a \in Attempts : Exec(a) \in wire' => Exec(a) \in left /\ Exec(a) \in wire
  BY <1>2 DEF Exec, Request
<1>4. FirstTries'
  BY <1>2 DEF EInv, FirstTries, Exec
<1>5. \A a \in Attempts : Unsent(a) => Unsent(a)'
  BY <1>3 DEF Unsent, Exec
<1>6. NotBefore'
  <2> SUFFICES ASSUME NEW a \in Attempts, a > attempt' \/ (a = attempt' /\ Early')
               PROVE  Unsent(a)'
    BY DEF NotBefore, Unsent, Exec
  <2>1. a > attempt \/ (a = attempt /\ Early)
    BY <1>1 DEF Moved, Attempts
  <2> QED BY <1>5, <2>1 DEF EInv, NotBefore
<1>7. StaleIsUnsent'
  <2> SUFFICES ASSUME result' = "stale", ~ cut' PROVE Unsent(attempt)'
    BY DEF StaleIsUnsent
  <2>1. attempt' = attempt /\ (result = "stale" \/ stale)
    BY DEF Moved
  <2>2. CASE result = "stale"
    <3>1. Unsent(attempt)
      BY <2>2 DEF EInv, StaleIsUnsent
    <3> QED BY <1>1, <1>3, <2>1, <3>1 DEF Unsent, Exec
  <2>3. CASE stale
    BY <1>1, <1>3, <2>1, <2>3 DEF Unsent, Exec
  <2> QED BY <2>1, <2>2, <2>3
<1>8. SecondTry'
  <2> SUFFICES ASSUME attempt' = 2, ~ cut' PROVE Unsent(1)'
    BY DEF SecondTry, Unsent, Exec
  <2>1. CASE attempt = 2
    BY <1>5, <2>1 DEF EInv, SecondTry, Attempts
  <2>2. CASE attempt = 1 /\ result = "stale"
    BY <1>5, <2>2 DEF EInv, StaleIsUnsent, Attempts
  <2> QED BY <2>1, <2>2 DEF Moved
<1> QED BY <1>1, <1>4, <1>6, <1>7, <1>8 DEF EInv

\* A request Termix finishes with, and what its answer makes of the client.
LEMMA AnswerMoves ==
  ASSUME ClientTypes, NEW r \in wire, NEW a, Answer(r, a)
  PROVE  /\ Moved(wire \ {r}, IsStale(a) /\ call # None /\ r = Awaited)
         /\ call # None /\ r = Awaited => step \in Steps /\ call = 0
<1>1. CASE Waits(r) /\ r.op # "deleteItem" /\ Receive(a, wire \ {r})
  <2>1. call # None /\ r = Awaited
    BY <1>1 DEF Waits, AwaitedDelete, Request
  <2>2. Moved(wire \ {r}, IsStale(a))
    BY <1>1, <2>1, ReceiveMoves
  <2> QED BY <2>1, <2>2 DEF Moved, ClientTypes
<1>2. CASE Waits(r) /\ r.op = "deleteItem" /\ Settle(r.path, wire \ {r})
  <2>1. ~ (call # None /\ r = Awaited)
    BY <1>2 DEF Awaited, Request, ClientTypes, Steps
  <2>2. r.path \in pending
    BY <1>2, <2>1 DEF Waits
  <2>3. Moved(wire \ {r}, FALSE)
    BY <1>2, <2>2, SettleMoves
  <2> QED BY <2>1, <2>3 DEF Moved
<1>3. CASE ~ Waits(r) /\ wire' = wire \ {r} /\ UNCHANGED client
  <2>1. ~ (call # None /\ r = Awaited)
    BY <1>3 DEF Waits
  <2>2. ClientTypes'
    BY <1>3 DEF client, ClientTypes
  <2>3. Moved(wire \ {r}, FALSE)
    BY <1>3, <2>2 DEF Moved, client, Early
  <2> QED BY <2>1, <2>3 DEF Moved
<1> QED BY <1>1, <1>2, <1>3 DEF Answer

LEMMA EInit == Init => EInv
<1> SUFFICES ASSUME Init PROVE EInv
  OBVIOUS
<1>1. ClientTypes
  BY ScriptAssumption DEF Init, ClientTypes, Steps, Attempts
<1>2. HostTypes
  BY DEF Init, HostTypes
<1>3. \A a \in Attempts : Exec(a) \in Runs
  BY ScriptAssumption DEF Exec, Runs
<1>4. \A a \in Attempts : Unsent(a)
  BY <1>3 DEF Init, Unsent
<1> QED BY <1>1, <1>2, <1>4, ScriptAssumption
        DEF Init, EInv, FirstTries, NotBefore, StaleIsUnsent, SecondTry

LEMMA EPost == EInv /\ Post => EInv'
<1> SUFFICES ASSUME EInv, Post PROVE EInv'
  OBVIOUS
<1> DEFINE new == Request(step, "script", attempt, 0)
<1>1. /\ step \in Steps /\ call = None /\ call' = 0 /\ wire' = wire \cup {new}
      /\ UNCHANGED <<step, attempt, pending, result, host, late, uncleaned, cut>>
  BY DEF Post
<1>2. attempt \in Attempts /\ Early /\ result # "stale"
  BY <1>1, ScriptAssumption DEF EInv, ClientTypes, Early, Steps
<1>3. ClientTypes'
  <2>1. new \in Wires
    BY <1>1, <1>2, ScriptAssumption DEF Request, Wires, Paths
  <2> QED BY <1>1, <2>1 DEF EInv, ClientTypes
<1>4. HostTypes'
  BY <1>1 DEF EInv, HostTypes, host
<1>5. FirstTries'
  BY <1>1 DEF EInv, FirstTries, Exec, Request, host
<1>6. ASSUME NEW a \in Attempts, Unsent(a), a # attempt \/ step # "executeFile"
      PROVE  Unsent(a)'
  BY <1>1, <1>6 DEF Unsent, Exec, Request, host
<1>7. NotBefore'
  <2> SUFFICES ASSUME NEW a \in Attempts, a > attempt \/ (a = attempt /\ Early')
               PROVE  Unsent(a)'
    BY <1>1 DEF NotBefore, Unsent, Exec
  <2>1. Unsent(a)
    BY <1>2 DEF EInv, NotBefore
  <2>2. a # attempt \/ step # "executeFile"
    BY <1>1, <1>2, ScriptAssumption DEF Early, Attempts
  <2> QED BY <1>6, <2>1, <2>2
<1>8. StaleIsUnsent'
  BY <1>1, <1>2 DEF StaleIsUnsent
<1>9. SecondTry'
  <2> SUFFICES ASSUME attempt = 2, ~ cut PROVE Unsent(1)'
    BY <1>1 DEF SecondTry, Unsent, Exec
  <2> QED BY <1>6 DEF EInv, SecondTry, Attempts
<1> QED BY <1>3, <1>4, <1>5, <1>7, <1>8, <1>9 DEF EInv

\* What becomes of the files and the process at the host keeps its types.
LEMMA HostStep ==
  ASSUME EInv, NEW r \in wire,
         Refuse(r) \/ ServeWrite(r) \/ ServeChmod(r) \/ AnswerRun(r) \/ ServeDelete(r)
  PROVE  HostTypes' /\ proc' = proc /\ (cut => cut')
<1>1. r.path \in Paths
  BY DEF EInv, ClientTypes, Wires
<1>2. proc' = proc
  BY DEF Refuse, ServeWrite, ServeChmod, AnswerRun, ServeDelete, host
<1>3. file' \in [Paths -> {"absent", "here", "trash"}]
  BY <1>1 DEF EInv, HostTypes, Refuse, ServeWrite, ServeChmod, AnswerRun, ServeDelete,
              host, Removed, Paths
<1>4. runnable' \in BOOLEAN
  BY DEF EInv, HostTypes, Refuse, ServeWrite, ServeChmod, AnswerRun, ServeDelete, host
<1>5. late' \in BOOLEAN /\ uncleaned' \in BOOLEAN
  BY DEF EInv, HostTypes, Refuse, ServeWrite, ServeChmod, AnswerRun, ServeDelete, Note
<1>6. cut' \in BOOLEAN /\ (cut => cut')
  BY DEF EInv, HostTypes, Refuse, ServeWrite, ServeChmod, AnswerRun, ServeDelete
<1> QED BY <1>2, <1>3, <1>4, <1>5, <1>6 DEF EInv, HostTypes

LEMMA EServe ==
  ASSUME EInv, NEW r \in wire,
         Refuse(r) \/ ServeWrite(r) \/ ServeChmod(r) \/ AnswerRun(r) \/ ServeDelete(r)
  PROVE  EInv'
<1>1. ClientTypes /\ attempt \in Attempts
  BY DEF EInv, ClientTypes
<1>2. PICK a : /\ Answer(r, a)
               /\ IsStale(a) /\ r.op = "executeFile" /\ proc[r] # None => cut'
  <2>1. CASE Refuse(r)
    BY <2>1 DEF Refuse
  <2>2. CASE ServeWrite(r) \/ ServeChmod(r) \/ ServeDelete(r)
    <3>1. ~ IsStale(Ok) /\ ~ IsStale(Unreached)
      BY DEF IsStale, Ok, Unreached
    <3> QED BY <2>2, <3>1 DEF ServeWrite, ServeChmod, ServeDelete
  <2>3. CASE AnswerRun(r)
    <3>1. ~ IsStale(Ok)
      BY DEF IsStale, Ok
    <3> QED BY <2>3, <3>1 DEF AnswerRun
  <2> QED BY <2>1, <2>2, <2>3
<1> DEFINE stale == IsStale(a) /\ call # None /\ r = Awaited
<1>3. Moved(wire \ {r}, stale)
  BY <1>1, <1>2, AnswerMoves
<1>4. call # None /\ r = Awaited => step \in Steps /\ call = 0
  BY <1>1, <1>2, AnswerMoves
<1>5. HostTypes' /\ proc' = proc /\ (cut => cut')
  BY HostStep
<1>6. stale => (Exec(attempt) \notin wire \ {r} /\ proc[Exec(attempt)] = None) \/ cut'
  <2> SUFFICES ASSUME stale, ~ cut'
               PROVE  Exec(attempt) \notin wire \ {r} /\ proc[Exec(attempt)] = None
    OBVIOUS
  <2>1. step \in Steps /\ r = Request(step, "script", attempt, 0)
    BY <1>4 DEF Awaited
  <2>2. CASE step = "executeFile"
    <3>1. r = Exec(attempt) /\ r.op = "executeFile"
      BY <2>1, <2>2 DEF Exec, Request
    <3> QED BY <1>2, <3>1
  <2>3. CASE step # "executeFile"
    <3>1. Early
      BY <2>1, <2>3 DEF Early, Steps
    <3> QED BY <1>1, <3>1 DEF EInv, NotBefore, Unsent
  <2> QED BY <2>2, <2>3
<1> HIDE DEF stale
<1> QED BY <1>3, <1>5, <1>6, MovedOn

LEMMA ETimeOut ==
  ASSUME EInv, TimeOut \/ \E path \in Paths : TimeOutDelete(path)
  PROVE  EInv'
<1>1. ClientTypes
  BY DEF EInv
<1>2. Moved(wire, FALSE)
  <2>1. CASE TimeOut
    <3>1. Moved(wire, IsStale(Unreached))
      BY <1>1, <2>1, ReceiveMoves DEF TimeOut
    <3>2. ~ IsStale(Unreached)
      BY DEF IsStale, Unreached
    <3> QED BY <3>1, <3>2 DEF Moved
  <2>2. CASE \E path \in Paths : TimeOutDelete(path)
    BY <1>1, <2>2, SettleMoves DEF TimeOutDelete
  <2> QED BY <2>1, <2>2
<1>3. HostTypes' /\ proc' = proc /\ cut' = cut
  BY DEF TimeOut, TimeOutDelete, EInv, HostTypes, host
<1> QED BY <1>2, <1>3, MovedOn

\* The script is started only by a request that is there, and goes on only if it
\* was started.
LEMMA EProcess ==
  ASSUME EInv,
         \/ \E r \in wire : Launch(r)
         \/ \E r \in Runs : Capture(r) \/ \E n \in 0..4 : End(r, n)
  PROVE  EInv'
<1>1. UNCHANGED <<step, attempt, call, pending, result, wire, cut>>
  BY DEF Launch, Capture, End, client
<1>2. PICK r \in Runs, p \in Procs :
        /\ proc' = [proc EXCEPT ![r] = p]
        /\ (r \in wire /\ r.op = "executeFile") \/ proc[r] # None
  <2>1. CASE \E r \in wire : Launch(r)
    <3>1. PICK r \in wire : Launch(r)
      BY <2>1
    <3>2. r = Exec(r.attempt) /\ r.attempt \in Attempts
      BY <3>1 DEF Launch, EInv, FirstTries, ClientTypes, Wires
    <3>3. r \in Runs
      BY <3>2, ScriptAssumption DEF Exec, Runs
    <3>4. [phase |-> "begun", marks |-> 0, out |-> FALSE, err |-> FALSE] \in Procs
      BY DEF Procs
    <3> QED BY <3>1, <3>3, <3>4 DEF Launch
  <2>2. CASE \E r \in Runs : Capture(r)
    <3>1. PICK r \in Runs : Capture(r)
      BY <2>2
    <3>2. proc[r] \in Procs
      BY <3>1 DEF Capture, EInv, HostTypes
    <3>3. [proc[r] EXCEPT !.phase = "running"] \in Procs
      BY <3>2 DEF Procs
    <3> QED BY <3>1, <3>3 DEF Capture
  <2>3. CASE \E r \in Runs : \E n \in 0..4 : End(r, n)
    <3>1. PICK r \in Runs, n \in 0..4 : End(r, n)
      BY <2>3
    <3> DEFINE ended == [phase |-> "ended", marks |-> n,
          out |-> n >= 3 /\ Intact(r), err |-> n >= 4 /\ Intact(r)]
    <3>2. ended \in Procs
      BY DEF Procs
    <3>3. proc' = [proc EXCEPT ![r] = ended] /\ proc[r] # None
      BY <3>1 DEF End
    <3> QED BY <3>2, <3>3
  <2> QED BY <2>1, <2>2, <2>3
<1>3. HostTypes'
  <2>1. proc' \in [Runs -> {None} \cup Procs]
    BY <1>2 DEF EInv, HostTypes
  <2>2. file' \in [Paths -> {"absent", "here", "trash"}] /\ runnable' \in BOOLEAN
    BY DEF Launch, Capture, End, EInv, HostTypes
  <2>3. late' \in BOOLEAN /\ uncleaned' \in BOOLEAN
    BY DEF Launch, Capture, End, EInv, HostTypes, Note
  <2> QED BY <1>1, <2>1, <2>2, <2>3 DEF EInv, HostTypes
<1>4. r = Exec(r.attempt)
  BY <1>2 DEF EInv, FirstTries
<1>5. FirstTries'
  BY <1>1, <1>2, <1>4 DEF EInv, FirstTries, HostTypes, Exec
<1>6. ASSUME NEW a \in Attempts, Unsent(a)
      PROVE  Unsent(a)'
  <2>1. r # Exec(a)
    BY <1>2, <1>6 DEF Unsent
  <2> QED BY <1>1, <1>2, <1>6, <2>1 DEF Unsent, Exec, EInv, HostTypes
<1>7. NotBefore'
  <2> SUFFICES ASSUME NEW a \in Attempts, a > attempt \/ (a = attempt /\ Early)
               PROVE  Unsent(a)'
    BY <1>1 DEF NotBefore, Unsent, Exec, Early
  <2> QED BY <1>6 DEF EInv, NotBefore
<1>8. StaleIsUnsent'
  <2> SUFFICES ASSUME result = "stale", ~ cut PROVE Unsent(attempt)'
    BY <1>1 DEF StaleIsUnsent
  <2>1. Unsent(attempt) /\ attempt \in Attempts
    BY DEF EInv, StaleIsUnsent, ClientTypes
  <2> QED BY <1>1, <1>6, <2>1 DEF Unsent
<1>9. SecondTry'
  <2> SUFFICES ASSUME attempt = 2, ~ cut PROVE Unsent(1)'
    BY <1>1 DEF SecondTry, Unsent, Exec
  <2> QED BY <1>6 DEF EInv, SecondTry, Attempts
<1> QED BY <1>1, <1>3, <1>5, <1>7, <1>8, <1>9 DEF EInv, ClientTypes

LEMMA EIdle ==
  ASSUME EInv, UNCHANGED vars
  PROVE  EInv'
<1>1. UNCHANGED <<step, attempt, call, pending, result, wire, file, runnable, proc,
                  late, uncleaned, cut>>
  BY DEF vars, client, host
<1>2. ClientTypes' /\ HostTypes'
  BY <1>1 DEF EInv, ClientTypes, HostTypes
<1>3. FirstTries' /\ NotBefore' /\ StaleIsUnsent' /\ SecondTry'
  BY <1>1 DEF EInv, FirstTries, NotBefore, StaleIsUnsent, SecondTry, Unsent, Early, Exec
<1> QED BY <1>2, <1>3 DEF EInv

LEMMA EInductive == EInv /\ [Next]_vars => EInv'
<1> SUFFICES ASSUME EInv, [Next]_vars PROVE EInv'
  OBVIOUS
<1>1. CASE Next
  BY <1>1, EPost, ETimeOut, EServe, EProcess, EIdle DEF Next, Over
<1>2. CASE UNCHANGED vars
  BY <1>2, EIdle
<1> QED BY <1>1, <1>2

\* What is known of the requests and the process at all times.
THEOREM ScriptInvariance == FairSpec => []EInv
BY EInit, EInductive, PTL DEF Spec, FairSpec

\* The types of a run, for any number of tries and any answers.
THEOREM ScriptTypes == FairSpec => []TypeOK
<1>1. EInv => TypeOK
  <2> SUFFICES ASSUME EInv PROVE TypeOK
    OBVIOUS
  <2>1. call \in {None} \cup 0..Retry
    BY ScriptAssumption DEF EInv, ClientTypes
  <2>2. pending # {} <=> step = "cleanup"
    BY DEF EInv, ClientTypes
  <2>3. step = "done" => result # None
    BY DEF EInv, ClientTypes, Steps
  <2> QED BY <2>1, <2>2, <2>3 DEF EInv, ClientTypes, HostTypes, Wires, Procs, TypeOK
<1> QED BY <1>1, ScriptInvariance, PTL

\* Two processes of one call: the first was cut off.
LEMMA OneStart == EInv => RunsOnceUnlessStale
<1> SUFFICES ASSUME EInv, NEW q \in Started, NEW r \in Started, q # r, ~ cut
             PROVE  FALSE
  BY DEF RunsOnceUnlessStale
<1>1. /\ q \in Runs /\ r \in Runs /\ proc[q] # None /\ proc[r] # None
      /\ q = Exec(q.attempt) /\ r = Exec(r.attempt)
  BY DEF Started, EInv, FirstTries
<1>2. q.attempt \in Attempts /\ r.attempt \in Attempts
  BY <1>1 DEF Runs, Request
<1>3. \A a \in Attempts : proc[Exec(a)] # None => ~ (a > attempt) /\ ~ (attempt = 2 /\ a = 1)
  BY DEF EInv, NotBefore, SecondTry, Unsent
<1>4. attempt \in Attempts
  BY DEF EInv, ClientTypes
<1> QED BY <1>1, <1>2, <1>3, <1>4 DEF Attempts

\* A command is started at most once unless Termix started it and then answered
\* that the session is gone: for any answers, and any number of tries a GET has.
THEOREM StartedOnce == FairSpec => []RunsOnceUnlessStale
BY OneStart, ScriptInvariance, PTL

-------------------------------------------------------------------------------
(*****************************************************************************)
(* Nothing stays at the host.  Once the call has come to its deletions, a    *)
(* path that no deletion is awaited for is clean, unless one of them did     *)
(* not succeed; only what is late could bring a file back.                   *)
(*****************************************************************************)
Swept ==
  step \in {"cleanup", "done"} /\ ~ late /\ ~ uncleaned =>
    \A p \in Paths \ pending : file[p] = "absent"

\* Nothing goes to the trash.
Untrashed == \A p \in Paths : file[p] # "trash"

CInv == EInv /\ Untrashed /\ Swept

\* The client comes to its deletions with all of them ahead.
LEMMA ReceiveLeavesAll ==
  ASSUME NEW left, NEW a, Receive(a, left), step \in Steps
  PROVE  step' \in Steps \/ pending' = Paths
BY DEF Receive, Cleanup, Steps

\* A request that writes or runs is not awaited during the deletions.
LEMMA OnlyDeletesAwaited ==
  ASSUME ClientTypes, step \notin Steps, NEW r, Waits(r)
  PROVE  /\ r.op = "deleteItem" /\ r.path \in pending
         /\ ~ (call # None /\ r = Awaited)
BY DEF Waits, AwaitedDelete, Request, ClientTypes

\* What an answer does to the deletions that are awaited.
LEMMA AnswerSweeps ==
  ASSUME ClientTypes, NEW r \in wire, NEW a, Answer(r, a), step' \in {"cleanup", "done"}
  PROVE  \/ pending' = Paths
         \/ /\ step \in {"cleanup", "done"}
            /\ pending' = pending \/ (r.op = "deleteItem" /\ pending' = pending \ {r.path})
<1>1. CASE Waits(r) /\ r.op # "deleteItem" /\ Receive(a, wire \ {r})
  <2>1. step \in Steps
    BY <1>1, OnlyDeletesAwaited
  <2> QED BY <1>1, <2>1, ReceiveLeavesAll DEF Steps
<1>2. CASE Waits(r) /\ r.op = "deleteItem" /\ Settle(r.path, wire \ {r})
  <2>1. step = "cleanup"
    BY <1>2 DEF Waits, Awaited, Request, ClientTypes, Steps
  <2> QED BY <1>2, <2>1 DEF Settle
<1>3. CASE ~ Waits(r) /\ wire' = wire \ {r} /\ UNCHANGED client
  BY <1>3 DEF client
<1> QED BY <1>1, <1>2, <1>3 DEF Answer

LEMMA CServe ==
  ASSUME CInv, NEW r \in wire,
         Refuse(r) \/ ServeWrite(r) \/ ServeChmod(r) \/ AnswerRun(r) \/ ServeDelete(r)
  PROVE  Untrashed' /\ Swept'
<1>0. Untrashed'
  BY DEF CInv, EInv, HostTypes, Untrashed, Refuse, ServeWrite, ServeChmod, AnswerRun,
         ServeDelete, Removed, host
<1> SUFFICES ASSUME step' \in {"cleanup", "done"}, ~ late', ~ uncleaned',
                    NEW p \in Paths \ pending'
             PROVE  file'[p] = "absent"
  BY <1>0 DEF Swept
<1>1. ClientTypes /\ file \in [Paths -> {"absent", "here", "trash"}]
  BY DEF CInv, EInv, HostTypes
<1>2. ~ late /\ ~ uncleaned
  <2>1. late => late'
    BY DEF Refuse, ServeWrite, ServeChmod, AnswerRun, ServeDelete, Note
  <2>2. uncleaned => uncleaned'
    BY DEF Refuse, ServeWrite, ServeChmod, AnswerRun, ServeDelete
  <2> QED BY <2>1, <2>2
<1>3. PICK a : Answer(r, a)
  BY DEF Refuse, ServeWrite, ServeChmod, AnswerRun, ServeDelete
<1>4. /\ step \in {"cleanup", "done"}
      /\ pending' = pending \/ (r.op = "deleteItem" /\ pending' = pending \ {r.path})
  BY <1>1, <1>3, AnswerSweeps
<1>5. ~ Waits(r) \/ r.op = "deleteItem"
  BY <1>1, <1>4, OnlyDeletesAwaited DEF Steps
<1>6. p \notin pending => file[p] = "absent"
  BY <1>2, <1>4 DEF CInv, Swept
<1>7. CASE Refuse(r) \/ ServeChmod(r) \/ AnswerRun(r)
  <2>1. file' = file /\ r.op # "deleteItem"
    BY <1>7 DEF Refuse, ServeChmod, AnswerRun, host
  <2> QED BY <1>4, <1>6, <2>1
<1>8. CASE ServeWrite(r)
  BY <1>5, <1>8 DEF ServeWrite, Note
<1>9. CASE ServeDelete(r)
  <2>1. file' = [file EXCEPT ![r.path] = IF @ = "here" THEN "absent" ELSE @]
    BY <1>9 DEF ServeDelete, Removed
  <2>2. CASE p = r.path
    <3>1. file[p] # "trash"
      BY DEF CInv, Untrashed
    <3> QED BY <1>1, <2>1, <2>2, <3>1
  <2>3. CASE p # r.path
    BY <1>1, <1>4, <1>6, <2>1, <2>3
  <2> QED BY <2>2, <2>3
<1> QED BY <1>7, <1>8, <1>9

LEMMA CTimeOut ==
  ASSUME CInv, TimeOut \/ \E path \in Paths : TimeOutDelete(path)
  PROVE  Untrashed' /\ Swept'
<1>1. file' = file
  BY DEF TimeOut, TimeOutDelete, host
<1>2. CASE TimeOut
  <2>1. step' \in Steps \/ pending' = Paths
    BY <1>2, ReceiveLeavesAll DEF TimeOut, CInv, EInv, ClientTypes
  <2> QED BY <1>1, <2>1 DEF CInv, Untrashed, Swept, Steps
<1>3. CASE \E path \in Paths : TimeOutDelete(path)
  BY <1>1, <1>3 DEF TimeOutDelete, CInv, Untrashed, Swept
<1> QED BY <1>2, <1>3

LEMMA COther ==
  ASSUME CInv,
         \/ Post
         \/ \E r \in wire : Launch(r)
         \/ \E r \in Runs : Capture(r) \/ \E n \in 0..4 : End(r, n)
         \/ UNCHANGED vars
  PROVE  Untrashed' /\ Swept'
<1>1. step' = step /\ pending' = pending /\ uncleaned' = uncleaned
  BY DEF Post, Launch, Capture, End, vars, client
<1>2. CASE \E r \in Runs : Capture(r)
  <2>1. PICK r \in Runs : Capture(r)
    BY <1>2
  <2>2. r.op # "deleteItem"
    BY DEF Runs, Request
  <2>3. step \notin Steps => late'
    BY <2>1, <2>2, OnlyDeletesAwaited DEF Capture, Note, CInv, EInv
  <2>4. Untrashed'
    BY <2>1 DEF Capture, CInv, EInv, HostTypes, Untrashed
  <2>5. Swept'
    BY <1>1, <2>3 DEF Swept, Steps
  <2> QED BY <2>4, <2>5
<1>3. CASE file' = file /\ (late => late')
  BY <1>1, <1>3 DEF CInv, Untrashed, Swept
<1>4. \/ \E r \in Runs : Capture(r)
      \/ file' = file /\ (late => late')
  BY DEF Post, Launch, End, vars, host, Note
<1> QED BY <1>2, <1>3, <1>4

LEMMA CInductive == CInv /\ [Next]_vars => CInv'
<1> SUFFICES ASSUME CInv, [Next]_vars PROVE CInv'
  OBVIOUS
<1>1. EInv'
  BY EInductive DEF CInv
<1>2. Untrashed' /\ Swept'
  BY CServe, CTimeOut, COther DEF Next, Over
<1> QED BY <1>1, <1>2 DEF CInv

\* The host is left clean unless a deletion did not succeed or Termix did
\* something for a request given up, for any answers.
THEOREM HostLeftClean == FairSpec => []CleanUnlessLate
<1>1. Init => CInv
  BY EInit DEF Init, CInv, Untrashed, Swept
<1>2. CInv => CleanUnlessLate
  BY DEF CInv, EInv, ClientTypes, Swept, CleanUnlessLate
<1>3. FairSpec => []CInv
  BY <1>1, CInductive, PTL DEF Spec, FairSpec
<1> QED BY <1>2, <1>3, PTL

-------------------------------------------------------------------------------
(*****************************************************************************)
(* The output is the command's own.  While the execution is awaited its      *)
(* files are there from the moment it has created them, nobody else writes   *)
(* to them, and what it prints is complete; a deletion can only come late.   *)
(*****************************************************************************)
Executing == step = "executeFile" /\ call = 0

Undisturbed ==
  ~ cut /\ ~ late =>
    /\ Executing /\ proc[Exec(attempt)] # None =>
         /\ proc[Exec(attempt)].phase = "running" => file["out"] = "here" /\ file["err"] = "here"
         /\ proc[Exec(attempt)].phase = "ended" /\ proc[Exec(attempt)].marks >= 3 =>
              Complete(proc[Exec(attempt)])
    /\ result = "known" => \E r \in Started : proc[r].phase = "ended" /\ Complete(proc[r])

UInv == EInv /\ Undisturbed

\* The request an execution is awaited for.
LEMMA WaitsIsExec ==
  ASSUME ClientTypes, NEW r, Waits(r), r.op # "deleteItem"
  PROVE  step \in Steps /\ call = 0 /\ r = Request(step, "script", attempt, 0)
BY DEF Waits, Awaited, AwaitedDelete, Request, ClientTypes

\* An answer makes the result known only if it is a success and the output is
\* there; it begins no execution.
LEMMA AnswerUndisturbed ==
  ASSUME ClientTypes, NEW r \in wire, NEW a, Answer(r, a)
  PROVE  /\ Executing' => Executing /\ attempt' = attempt /\ ~ Waits(r)
         /\ result' = "known" =>
              \/ result = "known"
              \/ Executing /\ r = Exec(attempt) /\ ~ IsError(a) /\ Parsed(proc[r])
<1>1. CASE Waits(r) /\ r.op # "deleteItem" /\ Receive(a, wire \ {r})
  <2>1. step \in Steps /\ call = 0 /\ r = Request(step, "script", attempt, 0) /\ r = Awaited
    BY <1>1, WaitsIsExec DEF Awaited
  <2>2. ~ (call < Retries("POST"))
    BY <2>1 DEF Retries
  <2>3. call' = None
    BY <1>1, <2>2 DEF Receive, Cleanup
  <2>4. result' = "known" => step = "executeFile" /\ ~ IsError(a) /\ Parsed(proc[Awaited])
    <3>1. result # "known"
      BY <2>1, ScriptAssumption DEF ClientTypes
    <3> QED BY <1>1, <2>2, <3>1 DEF Receive, Cleanup
  <2> QED BY <2>1, <2>3, <2>4, ScriptAssumption DEF Executing, Exec
<1>2. CASE Waits(r) /\ r.op = "deleteItem" /\ Settle(r.path, wire \ {r})
  <2>1. call' = call /\ call = None
    BY <1>2 DEF Settle, Waits, Awaited, Request, ClientTypes, Steps
  <2>2. result' = result \/ result' = None
    BY <1>2 DEF Settle
  <2> QED BY <2>1, <2>2, ScriptAssumption DEF Executing
<1>3. CASE ~ Waits(r) /\ wire' = wire \ {r} /\ UNCHANGED client
  BY <1>3 DEF client, Executing
<1> QED BY <1>1, <1>2, <1>3 DEF Answer

LEMMA UServe ==
  ASSUME UInv, NEW r \in wire,
         Refuse(r) \/ ServeWrite(r) \/ ServeChmod(r) \/ AnswerRun(r) \/ ServeDelete(r)
  PROVE  Undisturbed'
<1> SUFFICES ASSUME ~ cut', ~ late' PROVE Undisturbed'
  BY DEF Undisturbed
<1>1. ClientTypes
  BY DEF UInv, EInv
<1>2. proc' = proc /\ (cut => cut')
  BY HostStep DEF UInv
<1>3. late => late'
  BY DEF Refuse, ServeWrite, ServeChmod, AnswerRun, ServeDelete, Note
<1>4. PICK a : /\ Answer(r, a)
               /\ ~ IsError(a) /\ r.op = "executeFile" =>
                    proc[r] # None /\ proc[r].phase = "ended"
  <2>1. \A a \in Answers : IsError(a)
    BY ScriptAssumption DEF IsError
  <2>2. CASE Refuse(r)
    BY <2>1, <2>2 DEF Refuse
  <2>3. CASE ServeWrite(r) \/ ServeChmod(r) \/ ServeDelete(r)
    BY <2>3 DEF ServeWrite, ServeChmod, ServeDelete
  <2>4. CASE AnswerRun(r)
    BY <2>1, <2>4 DEF AnswerRun
  <2> QED BY <2>2, <2>3, <2>4
<1>5. /\ Executing' => Executing /\ attempt' = attempt /\ ~ Waits(r)
      /\ result' = "known" =>
           \/ result = "known"
           \/ Executing /\ r = Exec(attempt) /\ ~ IsError(a) /\ Parsed(proc[r])
  BY <1>1, <1>4, AnswerUndisturbed
<1>6. ASSUME Executing', proc[Exec(attempt)] # None, proc[Exec(attempt)].phase = "running"
      PROVE  file'["out"] = "here" /\ file'["err"] = "here"
  <2>1. file["out"] = "here" /\ file["err"] = "here"
    BY <1>2, <1>3, <1>5, <1>6 DEF UInv, Undisturbed
  <2>2. ~ ServeDelete(r)
    BY <1>5, <1>6 DEF ServeDelete, Note
  <2>3. file' = file \/ file' = [file EXCEPT !["script"] = "here"]
    BY <2>2 DEF Refuse, ServeWrite, ServeChmod, AnswerRun, host
  <2> QED BY <2>1, <2>3 DEF UInv, EInv, HostTypes, Paths
<1>7. ASSUME result' = "known"
      PROVE  \E q \in Started : proc[q].phase = "ended" /\ Complete(proc[q])
  <2>1. CASE result = "known"
    BY <1>2, <1>3, <2>1 DEF UInv, Undisturbed
  <2>2. CASE Executing /\ r = Exec(attempt) /\ ~ IsError(a) /\ Parsed(proc[r])
    <3>1. r.op = "executeFile" /\ r \in Runs
      BY <1>1, <2>2, ScriptAssumption DEF Exec, Request, Runs, ClientTypes
    <3>2. proc[r] # None /\ proc[r].phase = "ended" /\ proc[r].marks >= 3
      BY <1>4, <2>2, <3>1 DEF Parsed
    <3> QED BY <1>2, <1>3, <2>2, <3>1, <3>2 DEF UInv, Undisturbed, Started
  <2> QED BY <1>5, <1>7, <2>1, <2>2
<1>8. Started' = Started
  BY <1>2 DEF Started
<1>9. Executing' => Executing /\ attempt' = attempt
  BY <1>5
<1> QED BY <1>2, <1>3, <1>6, <1>7, <1>8, <1>9 DEF UInv, Undisturbed, Exec

LEMMA UClient ==
  ASSUME UInv, Post \/ TimeOut \/ \E path \in Paths : TimeOutDelete(path)
  PROVE  Undisturbed'
<1>1. ClientTypes
  BY DEF UInv, EInv
<1>2. UNCHANGED <<host, late, cut>>
  BY DEF Post, TimeOut, TimeOutDelete
<1>3. Executing' => attempt' = attempt /\ proc[Exec(attempt)] = None
  <2>1. CASE Post
    <3>1. Executing' => Early /\ attempt' = attempt
      BY <2>1 DEF Post, Executing, Early
    <3>2. Early => Unsent(attempt)
      BY DEF UInv, EInv, ClientTypes, NotBefore
    <3> QED BY <3>1, <3>2 DEF Unsent
  <2>2. CASE TimeOut
    <3>1. ~ (call < Retries("POST"))
      BY <1>1, <2>2 DEF TimeOut, Retries, ClientTypes
    <3>2. call' = None
      BY <2>2, <3>1 DEF TimeOut, Receive, Cleanup
    <3> QED BY <3>2, ScriptAssumption DEF Executing
  <2>3. CASE \E path \in Paths : TimeOutDelete(path)
    <3>1. call' = call /\ call = None
      BY <1>1, <2>3 DEF TimeOutDelete, Settle, ClientTypes, Steps
    <3> QED BY <3>1, ScriptAssumption DEF Executing
  <2> QED BY <2>1, <2>2, <2>3
<1>4. result' = "known" => result = "known"
  <2>1. CASE Post
    BY <2>1 DEF Post
  <2>2. CASE TimeOut
    <3>1. IsError(Unreached) /\ ~ IsStale(Unreached)
      BY DEF IsError, IsStale, Unreached
    <3> QED BY <2>2, <3>1 DEF TimeOut, Receive, Cleanup
  <2>3. CASE \E path \in Paths : TimeOutDelete(path)
    BY <2>3, ScriptAssumption DEF TimeOutDelete, Settle
  <2> QED BY <2>1, <2>2, <2>3
<1>5. Started' = Started
  BY <1>2 DEF Started, host
<1> QED BY <1>2, <1>3, <1>4, <1>5 DEF UInv, Undisturbed, host, Exec

LEMMA UProcess ==
  ASSUME UInv,
         \/ \E r \in wire : Launch(r)
         \/ \E r \in Runs : Capture(r) \/ \E n \in 0..4 : End(r, n)
  PROVE  Undisturbed'
<1> DEFINE mine == Exec(attempt)
<1>1. /\ proc \in [Runs -> {None} \cup Procs] /\ attempt \in Attempts
      /\ file \in [Paths -> {"absent", "here", "trash"}]
  BY DEF UInv, EInv, HostTypes, ClientTypes
<1>2. mine \in Runs
  BY <1>1, ScriptAssumption DEF Exec, Runs
<1>3. UNCHANGED <<step, attempt, call, pending, result, wire, cut>> /\ (late => late')
  <2>1. UNCHANGED <<step, attempt, call, pending, result, wire, cut>>
    BY DEF Launch, Capture, End, client
  <2>2. late => late'
    BY DEF Launch, Capture, End, Note
  <2> QED BY <2>1, <2>2
<1> SUFFICES ASSUME ~ cut, ~ late'
             PROVE  /\ Executing /\ proc'[mine] # None =>
                         /\ proc'[mine].phase = "running" =>
                              file'["out"] = "here" /\ file'["err"] = "here"
                         /\ proc'[mine].phase = "ended" /\ proc'[mine].marks >= 3 =>
                              Complete(proc'[mine])
                    /\ result = "known" =>
                         \E q \in Started' : proc'[q].phase = "ended" /\ Complete(proc'[q])
  BY <1>3 DEF Undisturbed, Executing, Exec
<1> HIDE DEF mine
<1>4. /\ Executing /\ proc[mine] # None =>
           /\ proc[mine].phase = "running" => file["out"] = "here" /\ file["err"] = "here"
           /\ proc[mine].phase = "ended" /\ proc[mine].marks >= 3 => Complete(proc[mine])
      /\ result = "known" => \E q \in Started : proc[q].phase = "ended" /\ Complete(proc[q])
  BY <1>3 DEF UInv, Undisturbed, mine
<1>5. ASSUME NEW r \in Runs, NEW p \in Procs, proc' = [proc EXCEPT ![r] = p],
             proc[r] = None \/ proc[r].phase # "ended"
      PROVE  /\ result = "known" => \E q \in Started' : proc'[q].phase = "ended" /\ Complete(proc'[q])
             /\ r # mine => proc'[mine] = proc[mine]
             /\ proc'[r] = p
  <2>1. proc'[r] = p /\ \A q \in Runs \ {r} : proc'[q] = proc[q]
    BY <1>1, <1>5
  <2>2. ASSUME result = "known"
        PROVE  \E q \in Started' : proc'[q].phase = "ended" /\ Complete(proc'[q])
    <3>1. PICK q \in Started : proc[q].phase = "ended" /\ Complete(proc[q])
      BY <1>4, <2>2
    <3>2. q \in Runs /\ q # r /\ proc[q] # None
      BY <1>5, <3>1 DEF Started
    <3>3. q \in Started' /\ proc'[q] = proc[q]
      BY <2>1, <3>2 DEF Started
    <3> QED BY <3>1, <3>3
  <2> QED BY <1>2, <2>1, <2>2
<1>6. CASE \E r \in wire : Launch(r)
  <2>1. PICK r \in wire : Launch(r)
    BY <1>6
  <2>2. r = Exec(r.attempt) /\ r.attempt \in Attempts
    BY <2>1 DEF Launch, UInv, EInv, FirstTries, ClientTypes, Wires
  <2>3. r \in Runs
    BY <2>2, ScriptAssumption DEF Exec, Runs
  <2> DEFINE p == [phase |-> "begun", marks |-> 0, out |-> FALSE, err |-> FALSE]
  <2>4. p \in Procs /\ p.phase = "begun"
    BY DEF Procs
  <2>5. proc' = [proc EXCEPT ![r] = p] /\ proc[r] = None /\ file' = file
    BY <2>1 DEF Launch
  <2> HIDE DEF p
  <2>6. /\ result = "known" => \E q \in Started' : proc'[q].phase = "ended" /\ Complete(proc'[q])
        /\ r # mine => proc'[mine] = proc[mine]
        /\ proc'[r] = p
    BY <1>5, <2>3, <2>4, <2>5
  <2> QED BY <1>4, <2>4, <2>5, <2>6
<1>7. CASE \E r \in Runs : Capture(r)
  <2>1. PICK r \in Runs : Capture(r)
    BY <1>7
  <2> DEFINE p == [proc[r] EXCEPT !.phase = "running"]
  <2>2. proc' = [proc EXCEPT ![r] = p] /\ proc[r] # None /\ proc[r].phase = "begun"
    BY <2>1 DEF Capture
  <2>3. p \in Procs /\ p.phase = "running"
    <3>1. proc[r] \in Procs
      BY <1>1, <2>2
    <3> QED BY <3>1 DEF Procs
  <2>4. file'["out"] = "here" /\ file'["err"] = "here"
    BY <1>1, <2>1 DEF Capture, Paths
  <2> HIDE DEF p
  <2>5. /\ result = "known" => \E q \in Started' : proc'[q].phase = "ended" /\ Complete(proc'[q])
        /\ r # mine => proc'[mine] = proc[mine]
        /\ proc'[r] = p
    BY <1>5, <2>2, <2>3
  <2> QED BY <1>4, <2>3, <2>4, <2>5
<1>8. CASE \E r \in Runs : \E n \in 0..4 : End(r, n)
  <2>1. PICK r \in Runs, n \in 0..4 : End(r, n)
    BY <1>8
  <2> DEFINE p == [phase |-> "ended", marks |-> n,
                   out |-> n >= 3 /\ Intact(r), err |-> n >= 4 /\ Intact(r)]
  <2>2. /\ proc' = [proc EXCEPT ![r] = p] /\ proc[r] # None /\ file' = file
        /\ proc[r].phase \in {"begun", "running"} /\ (proc[r].phase = "begun" => n = 0)
    BY <2>1 DEF End
  <2>3. p \in Procs /\ p.phase = "ended" /\ p.marks = n
    BY DEF Procs, Intact, Shared
  <2>7. ASSUME n >= 3, Intact(r) PROVE Complete(p)
    <3>1. n = 4 => n >= 4
      OBVIOUS
    <3>2. p.out = (n >= 3 /\ Intact(r)) /\ p.err = (n >= 4 /\ Intact(r)) /\ p.marks = n
      BY Zenon
    <3> QED BY <2>7, <3>1, <3>2, Zenon DEF Complete
  <2>4. ~ Shared(r)
    <3>1. RunsOnceUnlessStale
      BY OneStart DEF UInv
    <3> QED BY <2>2, <3>1 DEF RunsOnceUnlessStale, Shared, Started
  <2>5. r = mine /\ Executing /\ n >= 3 => Intact(r)
    BY <1>4, <2>2, <2>4 DEF Intact
  <2> HIDE DEF p
  <2>6. /\ result = "known" => \E q \in Started' : proc'[q].phase = "ended" /\ Complete(proc'[q])
        /\ r # mine => proc'[mine] = proc[mine]
        /\ proc'[r] = p
    BY <1>5, <2>2, <2>3
  <2> QED BY <1>4, <2>2, <2>3, <2>5, <2>6, <2>7
<1> QED BY <1>6, <1>7, <1>8

LEMMA UInductive == UInv /\ [Next]_vars => UInv'
<1> SUFFICES ASSUME UInv, [Next]_vars PROVE UInv'
  OBVIOUS
<1>1. EInv'
  BY EInductive DEF UInv
<1>2. Undisturbed'
  <2>1. CASE UNCHANGED vars
    <3>1. UNCHANGED <<step, attempt, call, result, file, proc, late, cut>>
      BY <2>1 DEF vars, client, host
    <3> QED BY <3>1 DEF UInv, Undisturbed, Executing, Started, Exec
  <2> QED BY <2>1, UServe, UClient, UProcess DEF Next, Over
<1> QED BY <1>1, <1>2 DEF UInv

\* A status that is reported is the command's own, with all of its stdout, and
\* with all of its stderr when the end mark came, unless the call was cut off or
\* something was done late: for any answers.
THEOREM OutputCorrect == FairSpec => []OutputIsOwn
<1>1. Init => UInv
  BY EInit, ScriptAssumption DEF Init, UInv, Undisturbed, Executing
<1>2. UInv => OutputIsOwn
  BY DEF UInv, Undisturbed, OutputIsOwn
<1>3. FairSpec => []UInv
  BY <1>1, UInductive, PTL DEF Spec, FairSpec
<1> QED BY <1>2, <1>3, PTL

===============================================================================
