------------------------------ MODULE RunScript ------------------------------
(*****************************************************************************)
(* How run_command runs a command (runScript in mcp/tools/exec.mjs): over    *)
(* a Termix file session it writes a temporary script, makes it              *)
(* executable, has it executed, and deletes it with the two files that       *)
(* capture its streams.  With it, what a call of the client does             *)
(* (termix/client.mjs), and the second try of withSession when Termix says   *)
(* the session is gone (termix/sessions.mjs).                                *)
(*                                                                           *)
(* Termix and the host are not part of the repository: a request is served   *)
(* or refused at any time after it was sent, the client's giving up does not *)
(* take it back, and an answer may get lost.  An answer may say that the     *)
(* session is gone whether it is or not: isStaleSession goes by the status   *)
(* and the text, so no state is kept of the session.                         *)
(*****************************************************************************)
EXTENDS Naturals

CONSTANTS
  None,
  Retry,     \* TERMIX_RETRY: how often a GET is tried again
  Answers    \* the answers that are errors: status, a web page, a stale text

ASSUME ScriptAssumption ==
  /\ Retry \in Nat
  /\ Answers \subseteq [status : Nat, page : BOOLEAN, gone : BOOLEAN]
  /\ \A a \in Answers : a.page \/ a.status \notin 200..299
  /\ None \notin 0..Retry /\ None \notin {"known", "unknown", "stale", "error"}
  /\ None \notin [phase : {"begun", "running", "ended"}, marks : 0..4,
                  out : BOOLEAN, err : BOOLEAN]

Paths == {"script", "out", "err"}
Attempts == {1, 2}
Steps == {"writeFile", "changePermissions", "executeFile"}

VARIABLES
  step,      \* the call runScript is at, "cleanup" or "done"
  attempt,   \* the session it runs over: withSession's first or its second
  call,      \* the attempt of the client's request awaited, or None
  pending,   \* the paths whose deletion is awaited
  result,    \* None, "known", "unknown", "stale" or "error"
  wire,      \* the requests Termix has not finished with
  file,      \* by path: "absent", "here" or "trash"
  runnable,  \* whether the script is executable
  proc,      \* by executeFile request: the script's process, or None
  late,      \* history: something was done for a request given up
  uncleaned, \* history: a deletion did not succeed
  cut        \* history: an execution that had begun was answered as stale

client == <<step, attempt, call, pending, result>>
host == <<file, runnable, proc>>
vars == <<client, wire, host, late, uncleaned, cut>>

Request(op, path, a, t) == [op |-> op, path |-> path, attempt |-> a, try |-> t]

Runs == {Request("executeFile", "script", a, t) : a \in Attempts, t \in 0..Retry}

-------------------------------------------------------------------------------
(*****************************************************************************)
(* The client.  A page of the web interface is an error whatever its         *)
(* status; status 0 is a timeout or a network failure.                       *)
(*****************************************************************************)
Ok == [status |-> 200, page |-> FALSE, gone |-> FALSE]
Unreached == [status |-> 0, page |-> FALSE, gone |-> FALSE]

IsError(a) == a.page \/ a.status \notin 200..299

Retryable(a) == IsError(a) /\ a.status \in {0, 502, 503, 504}

IsStale(a) == ~ a.page /\ a.status \in {400, 404} /\ a.gone

\* Mutant: every method is tried again.
RetriesAll(method) == Retry

\* Only what changes nothing is tried again.
Retries(method) == IF method = "GET" THEN Retry ELSE 0

\* The request the client waits for, while it is at one of the three calls.
Awaited == Request(step, "script", attempt, call)

AwaitedDelete(path) == Request("deleteItem", path, attempt, 0)

Waits(r) ==
  \/ call # None /\ r = Awaited
  \/ step = "cleanup" /\ r.path \in pending /\ r = AwaitedDelete(r.path)

\* Mutant: the status alone is enough.
ParsedEarly(p) == p.marks >= 1

\* parseWrappedOutput: it needs the status and the marks before both streams, the
\* first three lines of the trailer; the fourth, the end mark after stderr, it
\* can do without, and then takes what there is of stderr.
Parsed(p) == p.marks >= 3

-------------------------------------------------------------------------------
Init ==
  /\ step = "writeFile" /\ attempt = 1 /\ call = None /\ pending = {} /\ result = None
  /\ wire = {}
  /\ file = [p \in Paths |-> "absent"] /\ runnable = FALSE
  /\ proc = [r \in Runs |-> None]
  /\ late = FALSE /\ uncleaned = FALSE /\ cut = FALSE

\* The next of the three calls is sent.
Post ==
  /\ step \in Steps /\ call = None
  /\ call' = 0
  /\ wire' = wire \cup {Request(step, "script", attempt, 0)}
  /\ UNCHANGED <<step, attempt, pending, result, host, late, uncleaned, cut>>

\* Mutant: the files are only deleted after a run that went well.
CleanupOnSuccess(outcome, left) ==
  /\ step' = IF outcome \in {"known", "unknown"} THEN "cleanup" ELSE "done"
  /\ call' = None /\ result' = outcome
  /\ pending' = IF outcome \in {"known", "unknown"} THEN Paths ELSE {}
  /\ wire' = left \cup {AwaitedDelete(p) : p \in pending'}
  /\ UNCHANGED attempt

\* The finally of runScript: three deletions, at once; requests that are given
\* up stay where they are.
Cleanup(outcome, left) ==
  /\ step' = "cleanup" /\ call' = None /\ result' = outcome
  /\ pending' = Paths
  /\ wire' = left \cup {AwaitedDelete(p) : p \in Paths}
  /\ UNCHANGED attempt

\* The client has an answer to the call it waits for; left are the requests
\* then still with Termix.
Receive(a, left) ==
  \/ /\ Retryable(a) /\ call < Retries("POST")
     /\ call' = call + 1
     /\ wire' = left \cup {Request(step, "script", attempt, call + 1)}
     /\ UNCHANGED <<step, attempt, pending, result>>
  \/ /\ IsError(a) /\ ~ (Retryable(a) /\ call < Retries("POST"))
     /\ Cleanup(IF IsStale(a) THEN "stale" ELSE "error", left)
  \/ /\ ~ IsError(a) /\ step = "executeFile"
     /\ Cleanup(IF Parsed(proc[Awaited]) THEN "known" ELSE "unknown", left)
  \/ /\ ~ IsError(a) /\ step # "executeFile"
     /\ step' = IF step = "writeFile" THEN "changePermissions" ELSE "executeFile"
     /\ call' = None
     /\ wire' = left
     /\ UNCHANGED <<attempt, pending, result>>

\* Mutant: the call does not wait for all deletions.
SettleFirst(path, left) ==
  /\ pending' = pending \ {path}
  /\ wire' = left
  /\ step' = "done"
  /\ UNCHANGED <<call, attempt, result>>

\* A deletion has settled, well or not; after the last one the call ends, or
\* begins again over a fresh session when the first was gone.
Settle(path, left) ==
  LET again == result = "stale" /\ attempt = 1
  IN /\ pending' = pending \ {path}
     /\ wire' = left
     /\ \/ pending' # {} /\ UNCHANGED <<step, attempt, result>>
        \/ /\ pending' = {} /\ again
           /\ step' = "writeFile" /\ attempt' = 2 /\ result' = None
        \* Also when no fresh session can be had.
        \/ pending' = {} /\ step' = "done" /\ UNCHANGED <<attempt, result>>
     /\ UNCHANGED call

\* Termix finishes with a request, and its answer finds the client waiting or
\* does not.
Answer(r, a) ==
  \/ Waits(r) /\ r.op # "deleteItem" /\ Receive(a, wire \ {r})
  \/ Waits(r) /\ r.op = "deleteItem" /\ Settle(r.path, wire \ {r})
  \/ ~ Waits(r) /\ wire' = wire \ {r} /\ UNCHANGED client

-------------------------------------------------------------------------------
(*****************************************************************************)
(* The client's timer: it gives the request up, Termix keeps it.             *)
(*****************************************************************************)
\* Mutant: a call has no timer.
TimeOutNever == FALSE /\ UNCHANGED vars

TimeOut ==
  /\ call # None
  /\ Receive(Unreached, wire)
  /\ UNCHANGED <<host, late, uncleaned, cut>>

TimeOutDelete(path) ==
  /\ path \in pending
  /\ Settle(path, wire)
  /\ uncleaned' = TRUE
  /\ UNCHANGED <<host, late, cut>>

(*****************************************************************************)
(* Termix and the host.                                                      *)
(*****************************************************************************)
\* What was done is late when the client no longer waits for it.
Note(r) == late' = (late \/ ~ Waits(r))

\* The request is refused, or gets lost, before anything was done.
Refuse(r) ==
  /\ r \in wire /\ (r.op = "executeFile" => proc[r] = None)
  /\ \E a \in Answers : Answer(r, a)
  /\ uncleaned' = (uncleaned \/ r.op = "deleteItem")
  /\ UNCHANGED <<host, late, cut>>

ServeWrite(r) ==
  /\ r \in wire /\ r.op = "writeFile"
  /\ file' = [file EXCEPT !["script"] = "here"]
  /\ \E a \in {Ok, Unreached} : Answer(r, a)
  /\ Note(r)
  /\ UNCHANGED <<runnable, proc, uncleaned, cut>>

ServeChmod(r) ==
  /\ r \in wire /\ r.op = "changePermissions"
  /\ file["script"] = "here"
  /\ runnable' = TRUE
  /\ \E a \in {Ok, Unreached} : Answer(r, a)
  /\ UNCHANGED <<file, proc, late, uncleaned, cut>>

\* executeFile tests that the script can be executed and starts it.
Launch(r) ==
  /\ r \in wire /\ r.op = "executeFile"
  /\ file["script"] = "here" /\ runnable /\ proc[r] = None
  /\ proc' = [proc EXCEPT ![r] = [phase |-> "begun", marks |-> 0,
                                       out |-> FALSE, err |-> FALSE]]
  /\ Note(r)
  /\ UNCHANGED <<client, wire, file, runnable, uncleaned, cut>>

\* The script creates its capture files and runs the command.
Capture(r) ==
  /\ proc[r] # None /\ proc[r].phase = "begun"
  /\ proc' = [proc EXCEPT ![r].phase = "running"]
  /\ file' = [file EXCEPT !["out"] = "here", !["err"] = "here"]
  /\ Note(r)
  /\ UNCHANGED <<client, wire, runnable, uncleaned, cut>>

\* Another run has the same capture files open.
Shared(r) == \E q \in Runs \ {r} : proc[q] # None /\ proc[q].phase = "running"

\* The capture files are there, and hold what this run wrote and nothing else.
Intact(r) == file["out"] = "here" /\ file["err"] = "here" /\ ~ Shared(r)

\* The command ends and the trailer is printed, all of it or the first n lines
\* if the shell dies; n = 0 is a shell that dies before the command ends.  A
\* stream is whole when the line after it is printed: the third for stdout, the
\* fourth for stderr.
End(r, n) ==
  /\ proc[r] # None /\ proc[r].phase \in {"begun", "running"}
  /\ proc[r].phase = "begun" => n = 0
  /\ proc' = [proc EXCEPT ![r] =
       [phase |-> "ended", marks |-> n,
        out |-> n >= 3 /\ Intact(r), err |-> n >= 4 /\ Intact(r)]]
  /\ UNCHANGED <<client, wire, file, runnable, late, uncleaned, cut>>

\* The answer to an execution that has begun: its output, once it has ended; or
\* a failure, which may say, truly or not, that the session is gone.
AnswerRun(r) ==
  /\ r \in wire /\ r.op = "executeFile" /\ proc[r] # None
  /\ \/ /\ proc[r].phase = "ended"
        /\ Answer(r, Ok)
        /\ UNCHANGED cut
     \/ \E a \in Answers : Answer(r, a) /\ cut' = (cut \/ IsStale(a))
  /\ UNCHANGED <<host, late, uncleaned>>

\* What becomes of a deleted file.
Removed == "absent"

ServeDelete(r) ==
  /\ r \in wire /\ r.op = "deleteItem"
  /\ file' = [file EXCEPT ![r.path] = IF @ = "here" THEN Removed ELSE @]
  /\ runnable' = (runnable /\ r.path # "script")
  /\ Answer(r, Ok)
  /\ Note(r)
  /\ UNCHANGED <<proc, uncleaned, cut>>

\* Nothing is left to happen.
Over ==
  /\ step = "done" /\ wire = {}
  /\ \A r \in Runs : proc[r] # None => proc[r].phase = "ended"
  /\ UNCHANGED vars

Next ==
  \/ Post
  \/ TimeOut
  \/ \E path \in Paths : TimeOutDelete(path)
  \/ \E r \in wire :
       \/ Refuse(r)
       \/ ServeWrite(r)
       \/ ServeChmod(r)
       \/ Launch(r)
       \/ AnswerRun(r)
       \/ ServeDelete(r)
  \/ \E r \in Runs : Capture(r) \/ \E n \in 0..4 : End(r, n)
  \/ Over

(*****************************************************************************)
(* Only the server's own steps are fair: it goes on, and its timers fire.    *)
(* Nothing is assumed of Termix, the network or the command.                 *)
(*****************************************************************************)
Fairness ==
  /\ WF_vars(Post) /\ WF_vars(TimeOut)
  /\ \A path \in Paths : WF_vars(TimeOutDelete(path))

Spec == Init /\ [][Next]_vars

FairSpec == Spec /\ Fairness

-------------------------------------------------------------------------------
(*****************************************************************************)
(* Every variable has its type; the client waits for a call or for           *)
(* deletions, never for both.                                                *)
(*****************************************************************************)
TypeOK ==
  /\ step \in Steps \cup {"cleanup", "done"} /\ attempt \in Attempts
  /\ call \in {None} \cup 0..Retry
  /\ pending \subseteq Paths
  /\ result \in {None, "known", "unknown", "stale", "error"}
  /\ wire \subseteq [op : Steps \cup {"deleteItem"}, path : Paths,
                     attempt : Attempts, try : 0..Retry]
  /\ file \in [Paths -> {"absent", "here", "trash"}] /\ runnable \in BOOLEAN
  /\ proc \in [Runs -> {None} \cup [phase : {"begun", "running", "ended"},
                                    marks : 0..4, out : BOOLEAN, err : BOOLEAN]]
  /\ late \in BOOLEAN /\ uncleaned \in BOOLEAN /\ cut \in BOOLEAN
  /\ call # None => step \in Steps
  /\ pending # {} <=> step = "cleanup"
  /\ step = "done" => result # None

\* A run that was started.
Started == {r \in Runs : proc[r] # None}

(*****************************************************************************)
(* A command is started at most once, through timeouts, lost answers and     *)
(* the second try of withSession: the second try runs it again only when     *)
(* Termix had started it and then answered that the session is gone          *)
(* (client.mjs:173-190, sessions.mjs:165-174, exec.mjs:123).                 *)
(*****************************************************************************)
RunsOnceUnlessStale ==
  (\E q, r \in Started : q # r) => cut

\* The process's own stdout, all of it, and all of its stderr when the end mark
\* came; without the mark stderr may be cut short.
Complete(p) == p.out /\ (p.marks = 4 => p.err)

(*****************************************************************************)
(* A status that is reported is the command's own, with all of its stdout    *)
(* and nobody else's; its stderr is nobody else's either, and all of it      *)
(* unless the shell died while it printed stderr, which the report does not  *)
(* show (exec.mjs:62-70, 98-108).  Except when an earlier try of the call    *)
(* was cut off while running, or one of its requests was served after it     *)
(* was given up: all tries use the same files (exec.mjs:115-119, :146).      *)
(*****************************************************************************)
OutputIsOwn ==
  result = "known" /\ ~ cut /\ ~ late => \E r \in Started : Complete(proc[r])

(*****************************************************************************)
(* No trace of the command stays at the host, neither in place nor in the    *)
(* trash, however the call went: unless a deletion did not succeed, or       *)
(* Termix did something for a request given up (exec.mjs:165-189).           *)
(*****************************************************************************)
CleanUnlessLate ==
  step = "done" /\ ~ late /\ ~ uncleaned => \A p \in Paths : file[p] = "absent"

(*****************************************************************************)
(* The call ends, whatever Termix and the command do (client.mjs:97-101).    *)
(*****************************************************************************)
CallEnds == <>(step = "done")
===============================================================================
