# A verification project for termix-mcp

termix-mcp is an MCP server that lets a model operate hosts through a Termix
backend. Tool calls arrive over stdio or HTTP, pass one gate, and reach Termix
as REST requests, many of them on stateful SSH sessions the server opens,
shares, keeps alive and closes. It is a single Node process: no two lines of
code run at the same time, and everything that is hard about it happens between
an `await` and the turn of the event loop that resumes it.

This directory holds TLA+ models of those parts, TLC configurations that check
them on small instances, and TLAPS proofs of what matters most for every
instance. Every definition is translated from the source; `PROJECT.json` maps
each one to its lines.

- [1. The system](#1-the-system)
- [2. How the code is modelled](#2-how-the-code-is-modelled)
- [3. The modules](#3-the-modules)
- [4. The runs](#4-the-runs)
- [5. The proofs](#5-the-proofs)
- [6. Where the code does not do what it says](#6-where-the-code-does-not-do-what-it-says)
- [7. What is not modelled](#7-what-is-not-modelled)
- [8. Plan](#8-plan)

## 1. The system

Paths are relative to `src/src/`.

| Component | Source | State it keeps | Operations | Hard behaviour | What makes it correct |
|---|---|---|---|---|---|
| Session manager | `termix/sessions.mjs` | two Maps host -> session (file, docker), per session `inFlight` and `lastActive`, two interval timers, `closed` | `withSession`, `ensure`, `connect`, `evictOldestIfFull`, `runIdleSweep`, `teardown`, `closeAll`, `ownsSession` | every step awaits the network while other calls, the sweep and `closeAll` go on | sessions are counted right, never leaked, never closed twice, bounded, reclaimed when idle, and never taken from work in flight |
| Keyed mutex | `util/lock.mjs` | Map key -> last promise | `runExclusive` | microtask order, rejected tasks, clean-up racing a new caller | mutual exclusion and FIFO order per key, no leak, no wedge |
| Gate | `mcp/gate.mjs`, `mcp/tools/meta.mjs` | `mutationsEnabled`; per call the hosts it touched and one audit record | `wrap`, `toggle_state`, `call_api` | checks before an await, work after it; a call waits for its host | read-only is read-only, forbidden hosts stay untouched, the record is true |
| HTTP transport and session registry | `index-http.mjs`, `mcp/http-session.mjs` | Map MCP session id -> server, manager, profile, `lastSeen` | `handleMcp`, `reapSessions`, `dropSession`, `onclose`, `shutdown`, `probeUpstream` | reaping suspends in each drop; a session can be dropped under a request | bounded registry, everything dropped is released, a live session is not |
| Access policy store | `access/policy.mjs`, `access/groups.mjs`, `access/match.mjs` | last good policy and the mtime it was read at | `load`, `current`, `buildProfile`, `decideValue`, `profileByToken` | another process writes the file between the stat and the read; a bad file keeps the last good policy | a request is answered by a policy of its own time; nothing is open that no text opens |
| Host registry | `termix/hosts.mjs` | none | `resolve`, `resolveAllowed` | ambiguous names, lookup failures | a call never lands on a host the caller did not name |
| Audit log | `audit.mjs` | file and its rotated generations | `record`, `rotateIfNeeded`, `serialize` | a rename that fails, a process that ends half way, two processes on one directory | records stay in order, only the oldest generation is given up, no file and no line outgrows its limit |
| Termix client | `termix/client.mjs`, `util/upstream.mjs` | none | `request`, `get`, `post` | timeouts, retries of GETs, late answers, web pages with status 200 | no request is sent twice that must not be |
| Command execution | `mcp/tools/exec.mjs` | a script and two capture files on the host | `run_command`, `run_script` | upload, run and delete can each fail, be late, or be answered as stale | a command runs once, its status and output are its own, nothing is left behind |
| File tools | `mcp/tools/files.mjs` | none | `read_file`, `write_file`, ... | offsets and limits at the ends of a file | the window is the one asked for |
| API policy | `termix/api-policy.mjs` | none | path canonicalisation, forbidden routes | order of decisions | the form that is checked is the form that is sent |
| Other tools | `mcp/tools/*.mjs` | none | one or two requests each | | |
| Server assembly | `mcp/server.mjs`, `index-stdio.mjs` | wires one gate, mutex and session manager per MCP session | `buildServer` | | |
| Configuration, redaction, logging, syslog | `config.mjs`, `util/*.mjs`, `logging.mjs`, `wazuh.mjs` | | | | |

How they interact. `buildServer` makes, for each MCP session, one client, one
session manager, one mutex, one gate and one mutation flag. The HTTP transport
keeps those servers in a registry and drops them. A tool call enters the gate;
the gate asks the policy (profile) and the flag, has the host resolved, queues
on the mutex of that host, and runs the handler, which uses the session manager
(file and docker tools) or the client alone; whatever happens, the gate writes
one audit record. The session manager relies on the mutex: it expects at most
one call per host at a time.

The hazards of this code, each at its line and with the properties that would
catch it going wrong, are listed in `PROJECT.json`.

## 2. How the code is modelled

**One action is one turn of the event loop.** Between two awaits on the network
or a timer JavaScript runs undisturbed, so a turn is atomic; everything else may
interleave. A turn in the model runs as far as the code does: the tail of
`ensure`, for instance, starts the timers and enters `runInFlight`, and is part of
every action that resumes a call. An await that does not reach the network (an
`evictOldestIfFull` that evicts nothing) does not end a turn. In `KeyedMutex`,
where microtask order is the point, an action is one microtask.

**The network answers, or the client times out.** An answer may come at any time
and be a success or a failure. The client aborts every request after its
timeout, which is why weak fairness of the resuming action is justified.

**Data is abstract.** Hosts, sessions and calls are model values; results,
paths, commands and messages are left out unless a guard looks at them.
Failures that the code treats alike are one action.

**History variables** (`closeEvents`, `mistaken`, `ahead`, `acted`, `reached`, `log`, `torn`, `late`,
`uncleaned`, `cut`) record what happened for the properties; no guard reads them, except
`ahead` in the abstract `HostLock`, where it is the queue, and the bound on `torn`.

## 3. The modules

`HostLock` <- `KeyedMutex` (implements it), `HostLock` <- `Gate` (is built on it),
`SessionPool` (relies on it). Each module `X` has an `MCX` that gives its constants
small values, and proof modules `X...Proofs` that extend it. `PolicyStore` extends
`AccessRules`; `AuditLog` and `RunScript` stand alone.

### SessionPool

`pool` is the two Maps, `sess` the fields of the session objects, `call[h]` the one
call on host `h` and the await at which it is suspended (`evicting` in
`evictOldestIfFull`, `connecting` in `connect`, `validating` and `unavailable` in the
docker part of `ensure`, `running` in `runInFlight`), `sweep[w]` a run of
`runIdleSweep` with the rest of its snapshot, `live` the sessions that Termix
holds and nobody asked it to drop, `mistaken` those of them that were taken for gone.

Whether an error means that the session is gone, `isStaleSession` decides by a status of 400 or
404 and a few words of its text, and the text is Termix's or the command's. So `OpStale` may end any
operation, on a session that is there or not. If it is there, the retry deletes its Map entry
without a disconnect, and it is `mistaken`; `LiveIsPooled` says that this is the only way
in which a live session leaves the pools unasked.

| Action | Code |
|---|---|
| `Call` | `withSession` from its entry to its first await |
| `EvictDone` | `ensure` resumes after `evictOldestIfFull` |
| `ConnectOk`, `ConnectFail` | `connect` is answered |
| `ValidateOk`, `ValidateFail`, `UnavailableDone` | the docker validation and its teardown |
| `OpEnd`, `OpStale` | the operation ends; with a stale session, the one retry |
| `SweepStart`, `SweepResume` | the interval fires; a teardown of the sweep is answered |
| `CloseAll` | `closeAll` up to its await |
| `Forget`, `Tick` | Termix loses a session; the clock (environment) |

The helpers `Drop`, `StopIfEmpty`, `Count`, `Run`, `Obtain`, `Ensure` and `Scan` are the
functions of the source that several turns share; those that take a pool and
session objects as arguments are given the values the turn has built so far.

Session ids are UUIDs. The model lets an id that nothing refers to any more be
drawn again, so the state space is finite although a run is not bounded: with a
bound on the number of sessions ever opened, liveness would hold only because
the ids run out.

### HostLock and KeyedMutex

`HostLock` is the promise of `util/lock.mjs`: `Ask`, `Acquire`, `Release`; calls for one host
hold it one at a time and in the order in which they asked. `KeyedMutex` is the
code: the Map of tails, the task a task is chained on, and the clean-up that
deletes a Map entry as a separate microtask. A task "holds" the lock from its
start until that clean-up, because only then can the next one start; this is the
refinement mapping (`PhaseOf`), and `ImplementsLock` says the code implements the
promise.

### Gate

One instance is one MCP session. `policy` is the configuration that matters to a
decision (tools, hosts, whether the profile may write, `allowToggle`, the initial
flag), `enabled` is `state.mutationsEnabled`, `pc[c]` the await at which call `c` is
suspended, `targets[c]` the hosts it asks for, `touched[c]` the ones recorded, `log[c]`
its audit records, `acted` the calls on whose behalf something was sent, and `reached[c]` the hosts
it went to: those a call named, and the host of a session that `call_api` rides. `Send` is the
request of `call_api`: with the id of a session this server holds, it acts on the host of
the host tool's call that opened it, and names none. A call is one of
six: a host tool that reads or writes, `toggle_state` with either argument, and
`call_api` with GET or another method. `Refuse`, `BeginHost`, `Toggle` and `BeginApi` are the gate
up to its first await; `ResolveOk`/`ResolveFail` the host lookup with blocklist and profile;
`StartHandler`/`HandlerEnds` the handler under the mutex; `VetOk`/`VetFail`/`Answer`
the hosts in the body of `call_api` and its request; `Return` the end of the gate. The
handler of a host tool is one step: what it does to sessions is `SessionPool`.

### HttpRegistry

`registry` is the Map of MCP sessions as the sequence of its keys, `lastSeen` as in the
code, `open` the sessions whose manager and emitter have not been released, `req[r]`
a request with the await at which it is suspended, the session it keeps, the
session it is dropping and the rest of its `expired` list. `Expired` is
`selectExpiredSessions`: idle entries in Map order (`MapOrder`), then the least recently seen in
the order of a stable sort (`SeenOrder`). A filtered or sorted list is the elements it has and
the order they are in (`Listed`). `DropAll` is the loop of `reapSessions`: a drop that has
nothing to close on Termix does not end the turn, the first one that has suspends the request.
`Touch` is a request for a registered session; `Build`, `Register`/`Reject` and `Initialized` are
an initialize; `DropDone` an answered `closeAll`; `Handle`, `Close`/`Closed` and `Answer` what the
transport does with the request, `Close` being a DELETE with its `onclose`. Refused requests
change nothing and are left out. A cap or an idle limit of 0 switches that part of
`selectExpiredSessions` off (`Over`, `IsIdle`), and a negative one is the same as 0.

### AccessRules and PolicyStore

`AccessRules` has the pure part: from the text of a profile to its rules (`Normalize`,
`InferMode`, `Expand`, `CompileRules`, `BuildProfile`, `Parses`), the decision (`DecideValue`,
`AllowsHost`, `IsBlocked`), the lookup (`Resolve`, `ResolveAllowed`, which is
`termix/hosts.mjs`), and the table that `access_policy_check` prints (`BlockedByGlobal`,
`ReportedAllowed`, `mcp/tools/policy.mjs`). A glob is the set of values it matches, a
tool group is a name for a set.

`PolicyStore` adds time. `disk` is the file another process writes, with its stamp;
`loaded` and `mtimeMs` are the two variables of `createPolicyStore`; `pc` is the await of
`load` (before its stat, before its read), `seen` the stamp the stat has returned; `req` is
the request inside `current()`; `session` the profile objects MCP sessions keep.

| Action | Code |
|---|---|
| `Edit` | the operator writes, breaks, removes or restores the file (environment) |
| `Request` | `current()` up to its first decision: same stamp, no file, or a load |
| `LoadStat`, `LoadRead` | the two file operations of `load`, and what follows: `AfterLoad` |
| `Finish` (part of these) | `handleMcp` from `current()` to its next await: 401, 403, 404, handed, or an initialize |
| `Register`, `CloseSession` | `onsessioninitialized`, `onclose` |
| `Start`, `Stop` | the start of the process, which needs a policy; its end |

The store's file calls are synchronous, so no two requests are in it at
once; what interleaves is the other process. `Opens` is the reference definition of
what a profile's text opens, written from the policy guide and not from the code.

### AuditLog

`gen[i]` is generation `i` of the log, 0 the file itself, as the set of its records
and its size; `fd[w]` is the file process `w` has open, named by where that file *is* now, since a
rename moves an open file along and an overwritten one is unlinked. `Stat` is the
beginning of `record` with `rotateIfNeeded`, `Rename` one step of its loop (`Target`,
`Source`) with the three things that can happen, `Open` and `Write` the append,
`GiveUp` a failure or the end of the process; `torn` counts the rotations a process ended
in after it had taken two steps, which is when it can leave a gap among the generations. An entry has three sizes: as it is, without
its large fields, and minimal; `Serialize` picks one.

### RunScript

One `run_command` with the client under it and Termix and the host around it.
`step`, `attempt`, `call` and `pending` say where `runScript` is: at one of its three calls
(`Post`, then an answer to `Receive` or a `TimeOut`), in its `finally` (`Cleanup`, three deletions that
each end by `Settle` or `TimeOutDelete`), or done; `withSession` starts it again once after a
stale answer. `wire` are the requests Termix has not finished with, the given up ones
included: a timeout takes nothing back. `Serve...`, `Launch` and `AnswerRun` are Termix doing
what a request asks, `Refuse` Termix refusing it or losing it; `Capture` and `End` are the
process at the host, `End` with the number of lines of the trailer that were
printed before the shell died: the third comes after stdout and before stderr, the fourth after
stderr, so a shell that dies in between leaves a status with a part of stderr, which
`parseWrappedOutput` accepts (`Parsed`). A stale answer may come from a session that is
there; the model keeps no state of the session, and any request may be served or
refused, in any way, at any time. What Termix and the host do is external: it is taken
from how the code uses them, and is as free as that allows. The history variables
`late`, `uncleaned` and `cut` name the three ways in which the outside can spoil
a call, and the properties say that nothing else does.

## 4. The runs

| Run | Instance | Shows |
|---|---|---|
| `pool_sweep` | 2 hosts, both kinds, cap 1, 3 ids, 1 sweep, clock to 1 | `TypeOK`; `InFlightExact`: the counter that protects a session is the number of operations on it, through retries and errors; `PooledIsWatched`: a late teardown never stops the timers under a new session; `LiveIsPooled`: nothing Termix still holds is abandoned, but for a mistaken stale answer; `ClosedOnce`: no double close; `OvershootBounded`: two hosts that both see room, or both see the other busy, exceed the cap by one; `BusyTakenByStaleSweep`: only closeAll and a sweep with a stale snapshot take a session from work in flight |
| `pool_progress` | 1 host, both kinds, 1 sweep, fair | `CallCompletes`; `IdleReclaimed` |
| `pool_sweep_race` | 2 hosts, cap 1, 1 sweep | **violated** `BusyIsPooled`, see 6 |
| `lock_chain` | 2 keys, 4 tasks, fair | `EntryWhileBusy`, `EveryTaskEnds`, `ImplementsLock` |
| `gate_calls` | 2 hosts, 3 calls, 6 configurations | `TypeOK`, `ReadOnlyHolds`, `ForbiddenUntouched`, `RecordTruthful`, `OneHandlerPerHost`; with the deadlock check, no call is stuck |
| `gate_lock_down` | 2 hosts, 2 calls | **violated** `LockHolds`, see 6 |
| `http_registry` | 2 requests, 3 sessions, cap 1, clock to 2, fair | `TypeOK`, `RegistryBounded`, `ReleasedExactly`, `DoomedLeaves`, `KeptStays`; `DroppedWithReason`: within the cap nothing leaves that is neither idle nor closed nor selected before, with the one exception of section 6 |
| `http_stale_drop` | 2 requests, 3 sessions, cap never reached | **violated** `DroppedWasIdle`, see 6 |
| `policy_reload` | 4 documents, 3 hosts, 2 tokens, 1 session, 3 stamps | `TypeOK`; `AnswerIsCurrent`: whatever is done to the file, a request is answered by a policy of its own time; `NothingByDefault`: what a call can reach, the text of its profile opens; `CheckTellsTruth`: the check reports what a call will meet |
| `policy_stale_rules` | the same | **violated** `GrantFollowsFile`, see 6 |
| `audit_rotation` | 2 processes, 4 generations, 7 records, 1 torn rotation | `TypeOK`; `WriterOrdered`: a process's records stay in order, whatever fails; `NewestKept`: no hole; `RecentKept`: no entry is big enough to roll the history out, and a torn rotation costs one generation; `FilesBounded` |
| `script_run` | 1 call, both tries, fair | `TypeOK`; `RunsOnceUnlessStale`; `OutputIsOwn`: stdout whole, stderr whole when its end mark came, both the command's own; `CleanUnlessLate`; `CallEnds` |

**Bounds.** A cap of one or two with one more host than fits is the smallest pool
in which calls evict each other's sessions. In `pool_sweep` three ids are the two that two hosts can
have over a cap of one and one whose disconnect is under way; with both kinds a host
also leaves a session of the other kind in its second slot. `MaxTime` stops the clock: an
idle limit of one tick needs one tick to become idle. One sweep is enough for the races of a
sweep with calls; that overlapping sweeps leave one another alone is the theorems', which are for any number. Four tasks
make a queue of three behind a running one, or two queues of two. Three calls
make a write, a toggle and one more call on the same host. Three MCP sessions with a cap of one let
each of two concurrent requests have a list of two to drop, for idleness, for the cap, or one for each. Hosts and ids are
interchangeable where no configuration tells them apart, so safety runs use
symmetry; runs with liveness do not.

In `policy_reload` the documents are a narrow one, a wide one that opts out of the
blocklist, one that moves a token to another profile, and one that is refused; the
fleet has a name two hosts share, a host without a name, and hosts on the blocklist.
Three stamps let a file go back to an older stamp than the one recorded and be
changed twice while a request is inside `load`. In `audit_rotation` the files have two lines and there are
four generations, the least number with which a torn
rotation leaves a gap below the oldest two, and so the least with which it costs
anything (`MaxTorn` bounds such ends; the theorem is for any number of them). Six records
fill the three files of a torn rotation, and the seventh drops the oldest; a drop by
untorn rotations alone takes eight, with three times the states, and `RecentKept` of those is left to its
theorem. Its entries go
through all three branches of `serialize` and come out at one size, for otherwise the states are too many; the
theorems are about entries of every size. Two
processes are enough for one to write into a file the other has rotated or
unlinked. In `script_run` the tries are the two of `withSession`; the answers besides
success are a page of a gateway, a page with status 200, a refusal, and a session that is gone. Nothing
else is bounded.

**What is assumed of the outside.** The clock that stamps the policy file never goes
back to a stamp it has left, and no two complete policies carry one stamp (a torn
or broken text may share the stamp of its neighbours): with a filesystem that
stamps coarsely, two policies written within one tick would be taken for one.
The minimal form of an audit entry fits in a line, as its fields are names and
numbers. A rename is atomic.

**Deadlock** is checked in every run. In `KeyedMutex`, `Gate` and `RunScript` the end of a
run is an explicit stutter (`Terminated`, `Over`), so that any other state without a
successor is reported. Every call of `Gate` makes finitely many steps, so the
absence of deadlock there means that under weak fairness every call is
answered.

**Fairness.** `SessionPool`: a network reply resumes its call or sweep (the client
aborts each request after its timeout), the interval timer fires when it runs.
Calls, `closeAll`, the clock and Termix forgetting a session are not fair: nothing
forces them. A call whose session keeps going stale is still answered, because
the code retries once. `KeyedMutex`: a due microtask runs; a task ends because
what it awaits does. `HttpRegistry`: Termix answers a probe or a `closeAll`, a body arrives or its socket
times out; a request that is being handled may stay so, as an event stream does,
and nobody has to send a request. `RunScript`: the server takes its own next step and its
timers fire; nothing at all is assumed of Termix, the network or the command.

Each property of a passing run has a mutant in `PROJECT.json`: an operator
that breaks the code as a plausible slip would, and makes the property fail.

## 5. The proofs

The proofs hold for every number of hosts, sessions, sweeps, tasks, calls, documents,
processes, generations and records. They rest on the assumptions the modules name:
`Hosts` finite and the cap of the pools positive (`HostsAssumption`, `CapAssumption`), `None` none of the values
whose absence it stands for, hosts with ids of their own (`FleetAssumption`), a minimal audit
entry that fits in a line (`LogAssumption`), and the types of the other constants.

| Theorem | Module | Says |
|---|---|---|
| `TypeCorrect`, `Invariance` | `SessionPoolProofs` | types; the inductive invariant `IInv` |
| `InFlightCorrect`, `WatchCorrect`, `OnlyMistakesAbandoned`, `CloseCorrect` | `SessionPoolProofs` | `InFlightExact`, `PooledIsWatched`, `LiveIsPooled`, `ClosedOnce` |
| `CapCorrect` | `SessionPoolCapProofs` | `OvershootBounded` |
| `BusyTaken` | `SessionPoolCapProofs` | `BusyTakenByStaleSweep` |
| `MutexInvariance`, `MapCorrect`, `MutualExclusion` | `KeyedMutexProofs` | the chain's invariant, `EntryWhileBusy`, exclusion |
| `ChainImplementsLock` | `KeyedMutexProofs` | `ImplementsLock`: the promise chain refines `HostLock` |
| `GateInvariance`, `GateTypes` | `GateProofs` | the gate's invariant, types |
| `ReadOnlyCorrect`, `NoForbiddenHost`, `RecordsCorrect`, `HandlersExclude` | `GateProofs` | the four safety properties of `gate_calls` |
| `RegistryInvariance`, `RegistryTypes` | `HttpRegistryProofs` | the registry's invariant, types |
| `CapKept`, `ReleaseCorrect` | `HttpRegistryProofs` | `RegistryBounded`, `ReleasedExactly` |
| `ServedStays`, `WithinCapKept` | `HttpRegistryProofs` | `KeptStays`, `DroppedWithReason` |
| `DoomedNotForgotten` | `HttpRegistryProofs` | `DoomedUntilGone`: a selected session stays on a list until it is gone, the safety part of `DoomedLeaves` |
| `StoreInvariance`, `StoreTypes`, `AnswersCurrent` | `PolicyStoreProofs` | the store's invariant, types, `AnswerIsCurrent` |
| `OpenedByText`, `CheckIsTruthful` | `PolicyStoreProofs` | `NothingByDefault`, `CheckTellsTruth` |
| `LogInvariance`, `LogTypes`, `RecordsInOrder` | `AuditLogProofs` | the log's invariant, types, `WriterOrdered` |
| `TrailIsWhole`, `FilesStayBounded`, `HistoryKept` | `AuditLogProofs` | `NewestKept`, `FilesBounded`, `RecentKept` |
| `ScriptInvariance`, `ScriptTypes`, `StartedOnce` | `RunScriptProofs` | the run's invariant, types, `RunsOnceUnlessStale` |
| `HostLeftClean`, `OutputCorrect` | `RunScriptProofs` | `CleanUnlessLate`, `OutputIsOwn` |

The theorems of the HTTP registry cover a cap and an idle limit of 0, which no run has.

*Session pool.* None of the properties is inductive. That the counter is exact
needs to know that a session belongs to one call: the object a call runs on is
held by no other call and by no slot but its own (`Owned`), which in turn needs
that a call that is connecting will find its slot empty (`Unfilled`), or it would
overwrite a Map entry. That nothing but a mistake abandons a session needs the same. `IInv` puts these
together; its parts take calls, pool and session objects as arguments because a
turn such as `OpStale` goes through `Drop`, `Obtain` and `Ensure` on intermediate values,
and each of those gets one lemma that all the turns use. The cap is proved
separately: a call that starts to open a session saw either room in the pools or
every pooled session busy, and busy sessions belong to other hosts. `BusyTaken` needs
two more facts about sweeps (`SweepInv`): the object under a Map entry is one of that host, and what a sweep holds is
in the slot it was found in or in none. A turn takes from the pools only what had nothing in
flight, or what a sweep finds under the host of a session of its snapshot; if that
is the session of an operation, the snapshot's session is another one, and so
it is in no pool.

*Mutex.* The tail of a key is its last outstanding task, what is ahead of
a task chained on `p` is `p` and what was ahead of `p`, and what is ahead of a started
task has been cleaned up.

*Gate.* For each place where a call can wait, `IInv` says what the gate has already
established about it: past the mutation gate of a read-only configuration no call
mutates; from the queue on, everything asked for is recorded and allowed; a session that
`call_api` rides belongs to a host some host tool's call has recorded;
nobody outside a handler holds the lock; one record exactly when a call has left.

*HTTP registry.* The invariant has three parts that need each other: what a request
holds at each await (`RequestsInv`: nothing to drop unless it is reaping, the session it is
dropping or closing not registered, its own session not on its list), `RegistryBounded` and
`ReleasedExactly`. Every turn that reaps is a turn of the loop over some list (`Loop`), a new one or
the rest of the one before; `LoopDoes` says what such a turn does to the registry, the open
sessions and the list, whatever prefix of the list it gets through, and the
theorems follow from that alone. A new list meets the cap by `ExpiredIs`: what it
leaves is the kept session and the most recently seen, at most `MaxSessions` together; within the
cap it lists idle sessions only (`WithinCapIdle`), provided the kept one is registered. The lists are given by their
elements and an order because the prover's library has no facts about filtering
a sequence: `Ranks` shows that a finite set with a strict total order is listed by its ranks.

*Policy store.* What makes the answers current is `InStep`: the recorded stamp is never that
of a text that was refused, and when it is the stamp on disk and the text is a
policy, the policy in memory is that text. It holds because a load records the stamp its *stat* saw:
a text written after the stat carries a stamp that is either this one, and then
it is the text that is read, or a new one, and then the next request reads again.
`OpenedByText` is a lemma on the rules (`ReachIsOpened`), by cases on the inferred mode, carried to sessions
by the type of what they keep; `CheckIsTruthful` is a fact about any policy and needs only
that ids are unique.

*Audit log.* The order of a process's records needs to know that a file a process
has open is younger than all its other files (`OpenIsYoungest`): a rotation by another
process moves that file, or unlinks it, but brings nothing of the process below
it. For `TrailIsWhole`, as long as nothing collided and no rename failed: only one process is in `record()`, it writes
to the file itself, records are in order whoever wrote them, and every step of a
rotation but the first finds its target empty, so only the first drops
anything, and what it drops is older than everything else. For `FilesStayBounded` each process that may still
write to a file keeps a line's worth of the allowance in hand (`Allowance`). For `HistoryKept`, on top of the
invariant of `TrailIsWhole`: a generation is dropped only when the two oldest are there; all
that is then missing below are gaps (`Gaps`), and a gap is either where a
rotation under way will put the next file (`InFlight`) or was left by a torn one (`GapsTorn`), so the
generations behind the file itself are full (`FullBehind`) but for as many as were torn
(`LostFew`). A full generation has at least `LinesPerFile` records because no line is longer than
`MaxLine` (`Sized`), and generations share no records, so the counts add up (`Parts`).

*Command.* A POST is never repeated, so an attempt sends one request to execute
(`FirstTries`), and not before it is at that call (`NotBefore`). A second attempt needs a stale answer;
when it comes, the first attempt's request is finished and has started nothing, or
it was itself the one answered as stale, which is the exception (`StaleIsUnsent`, `SecondTry`).
During the deletions nothing but deletions is awaited, so a path whose deletion has
succeeded is made dirty only by something late (`Swept`); and while an execution is awaited, a
deletion can only be late, so the capture files its process has created stay (`Undisturbed`),
and what the trailer prints of them is its own, as far as the marks show it (`Complete`).

**Only model-checked:** the liveness properties (`CallCompletes`, `IdleReclaimed`,
`EveryTaskEnds`, `DoomedLeaves`, `CallEnds`), which the prover does not reach, and of course the
violations. Every invariant and every action property of a passing run is a theorem.

## 6. Where the code does not do what it says

1. **The idle sweep can take a busy session** (`pool_sweep_race`,
   `termix/sessions.mjs:237`). The sweep tests the session object of its snapshot and
   tears down by host id. If that object has left the pool meanwhile and another
   call works on a new session of the host, the new one is disconnected. The
   comment at line 232 and the changelog say that a session carrying work is
   never reaped. `BusyTaken` proves that, `closeAll` apart, nothing else takes a session from an
   operation in flight.
2. **Locking writes does not stop the writes that wait** (`gate_lock_down`,
   `mcp/gate.mjs:277`). The flag is read once, before the host lookup and the wait for
   the host. `toggle_state` answers "Writes are now disabled for this session"
   and a write queued before goes out later.
3. **Reaping drops a session that has come back to life** (`http_stale_drop`,
   `index-http.mjs:82`). The expired sessions are selected at once and dropped one by
   one, each drop waiting for Termix; a session that a new request touches
   meanwhile is dropped under that request.
4. **A revoked grant outlives the reload** (`policy_stale_rules`, `index-http.mjs:189`).
   `access/policy.mjs:302` says that the file is re-read "so that granting or revoking access does not need a
   restart". A request is authenticated by the new policy, but only the *name* of its
   profile is compared with the session's; the session's gate and host registry keep
   the rules of the profile object it was opened with, until the client opens a
   new session.

Read off the code while it was modelled, and not the subject of a run:

- A rotation that a process ends in half way leaves a gap among the generations, and the next
  rotation drops the oldest one although the gap had room (`audit.mjs:39`): the loop moves every
  generation up whether or not the next is there. Each such end costs one
  generation of history; `RecentKept` counts them.
- A new MCP session that another request's reap has already dropped (or its client
  closed) still counts as a slot when its own initialize reaps (`mcp/http-session.mjs:108`), so that
  a session in use is dropped although the registry is within its cap. The
  comment at `index-http.mjs:272` says that a burst of reconnects cannot drop the session just
  created: its own reap cannot (`KeptStays`), another request's can. `DroppedWithReason` has this as its last case.
- An error that only looks like that of a session that is gone abandons a live one: `isStaleSession`
  (`termix/sessions.mjs:176`) goes by the status and words such as "not available", and
  line 168 then deletes the entry without a disconnect and without a close event. Termix keeps
  the session until its own idle sweep takes it. `LiveIsPooled` has this as its exception.
- `call_api` with the id of a session the server holds and no host id (`mcp/tools/meta.mjs:89`) acts on
  the host of that session, and its record does not name it, although the comment at line 78 wants no
  `call_api` "against a host" to be "invisible to a search by host name". The record of
  the host tool's call that opened the session does. `RecordTruthful` has this as its exception.
- A shell that dies while it prints stderr leaves a part of it, and the call reports the status with
  that part and no sign that it is one (`mcp/tools/exec.mjs:98`): the parser does without the end mark
  on purpose. `OutputIsOwn` claims a whole stderr only with the mark.
- A session opened during `closeAll` stays (`termix/sessions.mjs:117`): `ensure` and `connect`
  do not look at `closed`, and no timer runs afterwards.
- `call_api` is not serialized per host (`mcp/gate.mjs:337`): it has no host argument, so it
  takes no mutex, although its requests can use a session that a serialized
  tool is using.
- The trailer of a script prints the status first, and a comment says that it then has arrived
  even if the shell dies within the trailer (`mcp/tools/exec.mjs`); but
  `parseWrappedOutput` returns nothing unless the marks of both streams are there,
  so such a status is lost, and the call reports none.
- A write of the script that timed out and is served late comes after the
  deletions and leaves the script at the host, as does any other request that
  Termix serves after it was given up (`late` in `RunScript`).
- `read_file` past the end reports its first and last line as the number of lines,
  with no content (`mcp/tools/files.mjs:21`).
- `access_policy_check` looks up the blocklist by the label of a host, and for a label that
  several hosts carry consults the last of them; `CheckTellsTruth` therefore speaks of
  labels of one host.
- Two stdio servers with one data directory can each rotate the other's new
  file on: `NewestKept` holds only without a collision.

A docker session that is being validated has nothing in flight yet, so an
eviction can take it, and the call then runs on a session that was
disconnected; the stale-session retry then recovers. This is why
`pool_sweep_race` has file sessions only: it shows the sweep's race and not this one.

## 7. What is not modelled

- Keepalive requests of the session manager: they change no local state.
- The windows of `read_file` and the other file tools: arithmetic on strings, no state.
- Retries of a GET and its timeout while the body is read: `RunScript` has the client as
  a POST meets it; a GET changes nothing, so its repetition is harmless.
- The reduced record the gate writes when arguments or result cannot be described
  (`mcp/gate.mjs:214`): it has the host of the tool's argument, but no list of hosts.
- Of the policy: globs (a glob is the set it matches), paths and their normalisation,
  the wording of errors and warnings.
- `run_snippet` and the cutting of long output; an audit line written in part.
- Of the HTTP transport: shutdown (it ends the process), the health probe and its
  cache, client addresses, what the SDK's transport does with a request.
- The tools that are one request and a reshaped answer, policy reporting,
  configuration, redaction, logging, syslog framing: no state, no interleaving.
- Path canonicalisation of `call_api`: string rewriting; the gate model takes its
  verdict (forbidden or not) as a choice.

## 8. Plan

Done, in this order: `SessionPool`; `HostLock` and `KeyedMutex` with their refinement;
`Gate`; `HttpRegistry`; `AccessRules` and `PolicyStore`; `AuditLog`; `RunScript` with the client; the
proofs of section 5.

What is left:

1. `Gate` with the session pool as the handler, so that "one call per host" is
   derived instead of assumed.
2. `FileWindow`: the offset arithmetic of `read_file` against a reference definition.
