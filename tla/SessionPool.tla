----------------------------- MODULE SessionPool -----------------------------
(*****************************************************************************)
(* The session manager of termix-mcp (termix/sessions.mjs): two pools of     *)
(* stateful SSH sessions held open on Termix, one session per host and       *)
(* kind, opened lazily by tool calls, evicted least recently used first      *)
(* when the pools are full, disconnected by a timer once idle, and all       *)
(* released by closeAll.                                                     *)
(*                                                                           *)
(* One action is one TURN of the event loop: everything the code does from   *)
(* the moment a network reply (or a timer, or a new call) resumes it until   *)
(* it awaits the next network reply.  Node drains the microtasks of a turn   *)
(* before it starts another one, so an await that needs no network (of       *)
(* evictOldestIfFull when nothing is evicted, of a teardown that finds no    *)
(* session) does not end a turn.  Turns of different calls, of the idle      *)
(* sweep and of closeAll interleave freely.                                  *)
(*                                                                           *)
(* There is at most one call per host: the gate runs every call with a       *)
(* host under that host's mutex, and sessions.mjs says it relies on it.      *)
(*                                                                           *)
(* Session ids are UUIDs, never reused.  Here an id that nothing refers to   *)
(* any more may be drawn again, which keeps the state space finite without   *)
(* a bound on the length of a run.                                           *)
(*****************************************************************************)
EXTENDS Integers, FiniteSets

CONSTANTS
  Hosts,        \* the hosts tool calls name
  CallKinds,    \* the kinds of session the calls ask for
  Sessions,     \* session ids
  None,         \* no session
  Sweepers,     \* the runs of the idle sweep that may overlap
  MaxSessions,  \* config.maxSessions
  IdleMs,       \* config.sessionIdleMs, in ticks of the clock
  MaxTime       \* BOUND: the clock stops here

Kinds == {"file", "docker"}

ASSUME KindsAssumption == CallKinds \subseteq Kinds
ASSUME HostsAssumption == IsFiniteSet(Hosts)
ASSUME NoneAssumption == None \notin Sessions \cup Hosts
ASSUME CapAssumption == MaxSessions \in Nat \ {0}
ASSUME ClockAssumption == IdleMs \in Nat \ {0} /\ MaxTime \in Nat

VARIABLES
  call,        \* the tool call of each host: where it waits, and its session
  pool,        \* pools[kind].get(hostId), None where the Map has no entry
  sess,        \* the fields of each session object that change
  closeEvents, \* session.close audit events since the session.open of an id
  live,        \* sessions Termix holds that nobody has asked it to drop
  mistaken,    \* HISTORY: those of them that a retry took for stale and forgot
  timers,      \* the keepalive and idle timers run (they start and stop together)
  closed,      \* closeAll has been called
  sweep,       \* runs of runIdleSweep, each suspended in a teardown
  now          \* Date.now()

vars == <<call, pool, sess, closeEvents, live, mistaken, timers, closed, sweep, now>>

Slots == Kinds \X Hosts

PCs == {"idle", "evicting", "connecting", "validating", "unavailable", "running"}

NoCall == [pc |-> "idle", kind |-> "file", sid |-> None, retried |-> FALSE]
NoSweep == [on |-> FALSE, kind |-> "file", todo |-> {}, now |-> 0]
NoObject == [host |-> None, inFlight |-> 0, lastActive |-> 0]

Init ==
  /\ call = [h \in Hosts |-> NoCall]
  /\ pool = [x \in Slots |-> None]
  /\ sess = [s \in Sessions |-> NoObject]
  /\ closeEvents = [s \in Sessions |-> 0]
  /\ live = {}
  /\ mistaken = {}
  /\ timers = FALSE
  /\ closed = FALSE
  /\ sweep = [w \in Sweepers |-> NoSweep]
  /\ now = 0

-------------------------------------------------------------------------------
(*****************************************************************************)
(* Helpers.  Those that take a pool p or session objects ss are used with    *)
(* the values a turn has built up so far.                                    *)
(*****************************************************************************)
Held(p) == {x \in Slots : p[x] # None}
Size(p) == Cardinality(Held(p))

Pooled(s) == \E x \in Slots : pool[x] = s
Running(h, s) == call[h].pc = "running" /\ call[h].sid = s

Evictable(p, ss) == {x \in Held(p) : ss[p[x]].inFlight = 0}
Oldest(p, ss) ==
  {x \in Evictable(p, ss) :
     \A y \in Evictable(p, ss) : ss[p[x]].lastActive <= ss[p[y]].lastActive}

At(h, pc, k, s, r) ==
  call' = [call EXCEPT ![h] = [pc |-> pc, kind |-> k, sid |-> s, retried |-> r]]
Finish(h) == call' = [call EXCEPT ![h] = NoCall]

\* An id nothing refers to: a new UUID.  The code draws it before it posts the
\* connect, where nothing can observe it yet; here it is drawn with the answer.
Fresh(s) ==
  /\ ~ Pooled(s)
  /\ s \notin live
  /\ \A h \in Hosts : call[h].sid # s
  /\ \A w \in Sweepers : s \notin sweep[w].todo

\* Mutant: teardown leaves the Map entry in place.
DropKeepsEntry(p, x) ==
  /\ pool' = p
  /\ closeEvents' = [closeEvents EXCEPT ![p[x]] = @ + 1]
  /\ live' = live \ {p[x]}

\* The synchronous part of teardown: the Map entry goes, the close is audited
\* and the disconnect request leaves.  From here on nobody tracks the id, so
\* whether the disconnect arrives makes no difference to this module.
Drop(p, x) ==
  /\ pool' = [p EXCEPT ![x] = None]
  /\ closeEvents' = [closeEvents EXCEPT ![p[x]] = @ + 1]
  /\ live' = live \ {p[x]}

\* Mutant: the timers stop one session too early.
StopIfNearlyEmpty == timers /\ Size(pool) > 1

\* The end of teardown, when the disconnect request has been answered.
StopIfEmpty == timers /\ Held(pool) # {}

-------------------------------------------------------------------------------
(*****************************************************************************)
(* ensure, withSession and runInFlight.                                      *)
(*****************************************************************************)

\* Mutant: no decrement in runInFlight's finally.
CountStartsOnly(ss, s, d) ==
  [ss EXCEPT ![s] = [host |-> ss[s].host, inFlight |-> ss[s].inFlight + (IF d = 1 THEN 1 ELSE 0),
                     lastActive |-> now]]

\* runInFlight: one operation more (1) or, in its finally, one less (-1).
Count(ss, s, d) ==
  [ss EXCEPT ![s] = [host |-> ss[s].host, inFlight |-> ss[s].inFlight + d,
                     lastActive |-> now]]

\* Mutant: ensure does not return the session it found.
RunWithoutSession(h, k, r, s, p, ss, t) ==
  /\ At(h, "running", k, None, r)
  /\ pool' = p
  /\ sess' = Count(ss, s, 1)
  /\ timers' = (t \/ ~ closed)

\* Mutant: ensure does not start the timers.
RunUnwatched(h, k, r, s, p, ss, t) ==
  /\ At(h, "running", k, s, r)
  /\ pool' = p
  /\ sess' = Count(ss, s, 1)
  /\ timers' = t

\* The tail of ensure and the head of runInFlight.
Run(h, k, r, s, p, ss, t) ==
  /\ At(h, "running", k, s, r)
  /\ pool' = p
  /\ sess' = Count(ss, s, 1)
  /\ timers' = (t \/ ~ closed)

\* Mutant: ensure connects whatever the Map holds for the host.
ObtainAnew(h, k, r, p, ss, t) ==
  /\ At(h, "connecting", k, None, r)
  /\ pool' = p
  /\ sess' = ss
  /\ timers' = t

\* ensure from its lookup on: use the pooled session or start connecting.
Obtain(h, k, r, p, ss, t) ==
  \/ /\ p[<<k, h>>] # None
     /\ Run(h, k, r, p[<<k, h>>], p, ss, t)
  \/ /\ p[<<k, h>>] = None
     /\ At(h, "connecting", k, None, r)
     /\ pool' = p
     /\ sess' = ss
     /\ timers' = t

\* Mutant: ensure does not evict.
EnsureWithoutEviction(h, k, r, p, ss) ==
  Obtain(h, k, r, p, ss, timers) /\ UNCHANGED <<closeEvents, live>>

\* ensure from its start: evictOldestIfFull, then the lookup.  When every
\* session is busy nothing is evicted and the pool overshoots.
Ensure(h, k, r, p, ss) ==
  \/ /\ Size(p) >= MaxSessions
     /\ \E x \in Oldest(p, ss) : Drop(p, x)
     /\ At(h, "evicting", k, None, r)
     /\ sess' = ss
     /\ UNCHANGED timers
  \/ /\ Size(p) < MaxSessions \/ Evictable(p, ss) = {}
     /\ Obtain(h, k, r, p, ss, timers)
     /\ UNCHANGED <<closeEvents, live>>

\* A tool call reaches withSession.
Call(h) ==
  /\ call[h].pc = "idle"
  /\ \E k \in CallKinds : Ensure(h, k, FALSE, pool, sess)
  /\ UNCHANGED <<mistaken, closed, sweep, now>>

\* The disconnect of the evicted session is answered (or has timed out).
EvictDone(h) ==
  /\ call[h].pc = "evicting"
  /\ Obtain(h, call[h].kind, call[h].retried, pool, sess, StopIfEmpty)
  /\ UNCHANGED <<closeEvents, live, mistaken, closed, sweep, now>>

\* Termix opened the session: it enters the pool, replacing whatever the Map
\* held for the host, and a docker session goes on to be validated.
ConnectOk(h) ==
  /\ call[h].pc = "connecting"
  /\ \E s \in Sessions :
       LET k == call[h].kind
           p == [pool EXCEPT ![<<k, h>>] = s]
           ss == [sess EXCEPT ![s] = [host |-> h, inFlight |-> 0, lastActive |-> now]]
       IN /\ Fresh(s)
          /\ \/ k = "file" /\ Run(h, k, call[h].retried, s, p, ss, timers)
             \/ /\ k = "docker"
                /\ At(h, "validating", k, s, call[h].retried)
                /\ pool' = p
                /\ sess' = ss
                /\ UNCHANGED timers
          /\ closeEvents' = [closeEvents EXCEPT ![s] = 0]
          /\ live' = live \cup {s}
          /\ mistaken' = mistaken \ {s}
  /\ UNCHANGED <<closed, sweep, now>>

\* Termix refuses the connection, or the request fails or times out: the call
\* ends with the error.
ConnectFail(h) ==
  /\ call[h].pc = "connecting"
  /\ Finish(h)
  /\ UNCHANGED <<pool, sess, closeEvents, live, mistaken, timers, closed, sweep, now>>

\* Docker answers.  The session object is used whether or not it is still pooled.
ValidateOk(h) ==
  /\ call[h].pc = "validating"
  /\ Run(h, call[h].kind, call[h].retried, call[h].sid, pool, sess, timers)
  /\ UNCHANGED <<closeEvents, live, mistaken, closed, sweep, now>>

\* Docker does not answer: tear down whatever the pool holds for the host.
ValidateFail(h) ==
  /\ call[h].pc = "validating"
  /\ \/ /\ pool[<<"docker", h>>] # None
        /\ Drop(pool, <<"docker", h>>)
        /\ At(h, "unavailable", "docker", None, call[h].retried)
     \/ /\ pool[<<"docker", h>>] = None
        /\ Finish(h)
        /\ UNCHANGED <<pool, closeEvents, live>>
  /\ UNCHANGED <<sess, mistaken, timers, closed, sweep, now>>

UnavailableDone(h) ==
  /\ call[h].pc = "unavailable"
  /\ Finish(h)
  /\ timers' = StopIfEmpty
  /\ UNCHANGED <<pool, sess, closeEvents, live, mistaken, closed, sweep, now>>

\* The operation succeeds, or fails with an error that is not a stale session
\* (or is one, on the second attempt): the call ends.
OpEnd(h) ==
  /\ call[h].pc = "running"
  /\ sess' = Count(sess, call[h].sid, -1)
  /\ Finish(h)
  /\ UNCHANGED <<pool, closeEvents, live, mistaken, timers, closed, sweep, now>>

\* Mutant: a stale session is retried without limit.
OpStaleForever(h) ==
  /\ call[h].pc = "running"
  /\ mistaken' = mistaken \cup ({call[h].sid} \cap live)
  /\ Ensure(h, call[h].kind, TRUE,
            [pool EXCEPT ![<<call[h].kind, h>>] = None], Count(sess, call[h].sid, -1))
  /\ UNCHANGED <<closed, sweep, now>>

\* The operation fails with an error that looks like a stale session: forget
\* the session, without a disconnect and without a close event, and reconnect,
\* once.  isStaleSession judges by the status and the wording of any error the
\* operation throws, so the session may be gone or still be there.
OpStale(h) ==
  /\ call[h].pc = "running"
  /\ ~ call[h].retried
  /\ mistaken' = mistaken \cup ({call[h].sid} \cap live)
  /\ Ensure(h, call[h].kind, TRUE,
            [pool EXCEPT ![<<call[h].kind, h>>] = None], Count(sess, call[h].sid, -1))
  /\ UNCHANGED <<closed, sweep, now>>

-------------------------------------------------------------------------------
(*****************************************************************************)
(* runIdleSweep.  A sweep looks at the sessions it found in a pool when it   *)
(* came to that kind, against the time at which it started, and waits for    *)
(* every disconnect before it looks at the next.  Map order is any order.    *)
(*****************************************************************************)
Snapshot(k) == {pool[<<k, h>>] : h \in Hosts} \ {None}

\* Mutant: the sweep does not look at inFlight.
DueBusy(k, todo, n) ==
  {s \in todo : n - sess[s].lastActive >= IdleMs /\ pool[<<k, sess[s].host>>] # None}

\* The sessions of todo on which the loop would call teardown and teardown
\* would find something under that host.
Due(k, todo, n) ==
  {s \in todo : /\ sess[s].inFlight = 0
                /\ n - sess[s].lastActive >= IdleMs
                /\ pool[<<k, sess[s].host>>] # None}

\* The loop passes over sessions that are not due and tears down a due one.
Reap(w, k, todo, n) ==
  /\ \E s \in Due(k, todo, n) : \E passed \in SUBSET (todo \ Due(k, todo, n)) :
       /\ Drop(pool, <<k, sess[s].host>>)
       /\ sweep' = [sweep EXCEPT ![w] = [on |-> TRUE, kind |-> k, now |-> n,
                                        todo |-> (todo \ passed) \ {s}]]

SweepEnds(w) ==
  /\ sweep' = [sweep EXCEPT ![w] = NoSweep]
  /\ UNCHANGED <<pool, closeEvents, live>>

\* The loop from a point inside one kind to its next await or its end.
Scan(w, k, todo, n) ==
  \/ Reap(w, k, todo, n)
  \/ /\ Due(k, todo, n) = {}
     /\ IF k = "file"
        THEN \/ Reap(w, "docker", Snapshot("docker"), n)
             \/ Due("docker", Snapshot("docker"), n) = {} /\ SweepEnds(w)
        ELSE SweepEnds(w)

\* The idle timer fires, whether or not an earlier sweep is still waiting.
SweepStart(w) ==
  /\ timers
  /\ ~ sweep[w].on
  /\ Scan(w, "file", Snapshot("file"), now)
  /\ UNCHANGED <<call, sess, mistaken, timers, closed, now>>

SweepResume(w) ==
  /\ sweep[w].on
  /\ Scan(w, sweep[w].kind, sweep[w].todo, sweep[w].now)
  /\ timers' = StopIfEmpty
  /\ UNCHANGED <<call, sess, mistaken, closed, now>>

\* closeAll tears every session down in parallel.  The replies change nothing:
\* the timers have stopped for good.
CloseAll ==
  /\ closed' = TRUE
  /\ timers' = FALSE
  /\ pool' = [x \in Slots |-> None]
  /\ closeEvents' = [s \in Sessions |-> closeEvents[s] + (IF Pooled(s) THEN 1 ELSE 0)]
  /\ live' = {s \in live : ~ Pooled(s)}
  /\ UNCHANGED <<call, sess, mistaken, sweep, now>>

\* Termix restarts or sweeps a session of its own.
Forget ==
  /\ \E s \in live : live' = live \ {s} /\ mistaken' = mistaken \ {s}
  /\ UNCHANGED <<call, pool, sess, closeEvents, timers, closed, sweep, now>>

Tick ==
  /\ now < MaxTime
  /\ now' = now + 1
  /\ UNCHANGED <<call, pool, sess, closeEvents, live, mistaken, timers, closed, sweep>>

\* Everything a call does in answer to the network.
Reply(h) ==
  \/ EvictDone(h)
  \/ ConnectOk(h)
  \/ ConnectFail(h)
  \/ ValidateOk(h)
  \/ ValidateFail(h)
  \/ UnavailableDone(h)
  \/ OpEnd(h)
  \/ OpStale(h)

Next ==
  \/ \E h \in Hosts : Call(h) \/ Reply(h)
  \/ \E w \in Sweepers : SweepStart(w) \/ SweepResume(w)
  \/ CloseAll
  \/ Forget
  \/ Tick

Spec == Init /\ [][Next]_vars

\* Every request of termix/client.mjs carries an abort timeout, so it is
\* answered one way or another; an interval timer that runs keeps firing.
Fairness ==
  /\ \A h \in Hosts : WF_vars(Reply(h))
  /\ \A w \in Sweepers : WF_vars(SweepStart(w)) /\ WF_vars(SweepResume(w))

FairSpec == Spec /\ Fairness

-------------------------------------------------------------------------------
(*****************************************************************************)
(* Properties.                                                               *)
(*****************************************************************************)
\* A call that validates or runs has a session.
CallRecords ==
  {c \in [pc : PCs, kind : Kinds, sid : Sessions \cup {None}, retried : BOOLEAN] :
     c.pc \in {"validating", "running"} => c.sid # None}
Objects == [host : Hosts \cup {None}, inFlight : Int, lastActive : Nat]
SweepRecords == [on : BOOLEAN, kind : Kinds, todo : SUBSET Sessions, now : Nat]

\* The types of the manager's state.
TypeOK ==
  /\ call \in [Hosts -> CallRecords]
  /\ pool \in [Slots -> Sessions \cup {None}]
  /\ sess \in [Sessions -> Objects]
  /\ closeEvents \in [Sessions -> Nat]
  /\ live \in SUBSET Sessions
  /\ mistaken \in SUBSET Sessions
  /\ timers \in BOOLEAN
  /\ closed \in BOOLEAN
  /\ sweep \in [Sweepers -> SweepRecords]
  /\ now \in Nat

\* The in-flight counter that eviction and the idle sweep consult is exactly
\* the number of operations running on the session: it survives the retry on
\* a second session, errors, and the session leaving the pool under the
\* operation (runInFlight, withSession).
InFlightExact ==
  \A s \in Sessions : sess[s].inFlight = Cardinality({h \in Hosts : Running(h, s)})

\* A session in the pools is watched by the keepalive and idle timers, unless
\* its call is still validating it or the manager is closed.  A teardown whose
\* disconnect is answered late stops the timers, and another call may have
\* opened a session in between (startTimers, stopTimers, teardown).
PooledIsWatched ==
  \A x \in Slots :
    pool[x] # None =>
      \/ timers
      \/ closed
      \/ \E h \in Hosts : call[h].pc = "validating" /\ call[h].sid = pool[x]

\* A session Termix acknowledged, has not forgotten, and was never asked to
\* disconnect is in the pools, with one exception: the retry that took it for
\* stale on an error that only looked it.  Neither a connect that would
\* overwrite the Map entry of the host nor a teardown nor a second retry
\* abandons a session alive (connect, withSession, teardown).
LiveIsPooled == \A s \in live : Pooled(s) \/ s \in mistaken

\* Each session is audited as closed at most once, and never while the pools
\* still hand it out; no session object sits under two Map entries (teardown
\* runs concurrently for an eviction, sweeps, a failed validation and closeAll).
ClosedOnce ==
  /\ \A s \in Sessions : closeEvents[s] <= 1
  /\ \A x \in Slots : pool[x] # None =>
       /\ closeEvents[pool[x]] = 0
       /\ \A y \in Slots : pool[y] = pool[x] => y = x

Opening == {h \in Hosts : call[h].pc \in {"evicting", "connecting"}}

\* The cap of evictOldestIfFull is checked before the connect is awaited, so
\* concurrent calls overshoot it; the overshoot, counting the sessions still
\* being opened, stays below the number of hosts called at once, however many
\* evictions, retries and teardowns interleave.
OvershootBounded ==
  Size(pool) + Cardinality(Opening) <= MaxSessions + Cardinality(Hosts) - 1

\* An operation runs on the session the pool holds for its host: nothing takes
\* the session away (disconnects it) while the operation is in flight, except
\* closeAll ("a session with work in flight is not idle no matter how long ago
\* lastActive was stamped", runIdleSweep).
BusyIsPooled ==
  \A h \in Hosts :
    call[h].pc = "running" => closed \/ pool[<<call[h].kind, h>>] = call[h].sid

\* What takes its session from an operation in flight, unless the call itself
\* drops it as stale: closeAll, or an idle sweep that goes on with a session it
\* had found under that host and that has left the pools since.  No eviction,
\* retry, failed validation or sweep of a session still pooled does (teardown).
BusyTakenByStaleSweep ==
  [][\A h \in Hosts :
       LET x == <<call[h].kind, h>> IN
       /\ call[h].pc = "running" /\ call'[h] = call[h]
       /\ pool[x] = call[h].sid /\ pool'[x] # pool[x]
       => \/ closed' /\ Held(pool') = {}
          \/ \E w \in Sweepers :
               /\ sweep[w].on /\ sweep[w].kind = call[h].kind /\ sweep'[w] # sweep[w]
               /\ \E s \in sweep[w].todo : ~ Pooled(s) /\ sess[s].host = h]_vars

\* Every tool call that reached the pool gets an answer, through eviction,
\* connect, validation, teardown and the one retry.
CallCompletes == \A h \in Hosts : (call[h].pc # "idle") ~> (call[h].pc = "idle")

IdleLongEnough(x) ==
  /\ pool[x] # None
  /\ sess[pool[x]].inFlight = 0
  /\ now - sess[pool[x]].lastActive >= IdleMs

\* A session that has been idle for the configured time does not stay that
\* way: it is disconnected, replaced or used again.
IdleReclaimed ==
  \A x \in Slots : IdleLongEnough(x) /\ ~ closed ~> ~ IdleLongEnough(x) \/ closed

-------------------------------------------------------------------------------
(*****************************************************************************)
(* The inductive invariant.  Its parts take the calls c, the pool p, the     *)
(* session objects ss, the close events ce, the live sessions lv that no     *)
(* retry took for stale, the sweeps sw and the timers t as arguments, so     *)
(* that they can also be stated of the values in the middle of a turn.       *)
(*****************************************************************************)
Active == {"validating", "running"}

\* No session object sits under two Map entries.
Distinct(p) == \A x \in Held(p), y \in Slots : p[x] = p[y] => x = y

\* What a sweep looks up by host id belongs to a host.
Placed(p, ss, sw) ==
  /\ \A x \in Held(p) : ss[p[x]].host \in Hosts
  /\ \A w \in Sweepers : \A s \in sw[w].todo : ss[s].host \in Hosts

\* The session of a call belongs to that call alone; the call's slot holds it
\* or nothing, and no other slot does.
Owned(c, p) ==
  \A h \in Hosts : c[h].pc \in Active =>
    /\ p[<<c[h].kind, h>>] \in {None, c[h].sid}
    /\ \A x \in Slots : p[x] = c[h].sid => x = <<c[h].kind, h>>
    /\ \A g \in Hosts : c[g].pc \in Active /\ c[g].sid = c[h].sid => g = h

\* A call that connects will not overwrite a Map entry; only docker validates.
Unfilled(c, p) ==
  \A h \in Hosts :
    /\ c[h].pc = "connecting" => p[<<c[h].kind, h>>] = None
    /\ c[h].pc = "validating" => c[h].kind = "docker"

Counted(c, ss) ==
  \A s \in Sessions :
    ss[s].inFlight = IF \E h \in Hosts : c[h].pc = "running" /\ c[h].sid = s THEN 1 ELSE 0

Tracked(p, lv) == \A s \in lv : \E x \in Slots : p[x] = s

Audited(p, ce) ==
  /\ \A s \in Sessions : ce[s] <= 1
  /\ \A x \in Held(p) : ce[p[x]] = 0

Watched(c, p, t) ==
  \A x \in Held(p) :
    t \/ closed \/ \E h \in Hosts : c[h].pc = "validating" /\ c[h].sid = p[x]

PoolInv(c, p, ss, ce, lv, sw) ==
  /\ Distinct(p)
  /\ Placed(p, ss, sw)
  /\ Owned(c, p)
  /\ Unfilled(c, p)
  /\ Counted(c, ss)
  /\ Tracked(p, lv)
  /\ Audited(p, ce)

IInv ==
  /\ TypeOK
  /\ PoolInv(call, pool, sess, closeEvents, live \ mistaken, sweep)
  /\ Watched(call, pool, timers)
===============================================================================
