------------------------- MODULE SessionPoolCapProofs -------------------------
(*****************************************************************************)
(* What calls and sweeps do to each other.  The cap of the pools: however    *)
(* calls, evictions, retries and teardowns interleave, pooled sessions and   *)
(* sessions being opened together exceed the cap by less than the number of  *)
(* hosts.  And work in flight: what may take its session away from it.       *)
(*****************************************************************************)
EXTENDS SessionPoolProofs

\* The bound, of a pool p and the set o of hosts whose call is opening.
Bounded(p, o) == Size(p) + Cardinality(o) <= MaxSessions + Cardinality(Hosts) - 1

\* Every set of slots and every set of hosts is finite.
LEMMA Finite ==
  /\ Cardinality(Hosts) \in Nat
  /\ \A o \in SUBSET Hosts :
       IsFiniteSet(o) /\ Cardinality(o) \in Nat /\ Cardinality(o) <= Cardinality(Hosts)
  /\ \A p : IsFiniteSet(Held(p)) /\ Size(p) \in Nat
  <1>1. \A o \in SUBSET Hosts : IsFiniteSet(o) /\ Cardinality(o) <= Cardinality(Hosts)
    BY HostsAssumption, FS_Subset
  <1>2. IsFiniteSet(Kinds)
    <2>1. IsFiniteSet({"file"})
      BY FS_Singleton
    <2>2. IsFiniteSet({"file"} \cup {"docker"})
      BY <2>1, FS_AddElement
    <2>3. Kinds = {"file"} \cup {"docker"}
      BY DEF Kinds
    <2>4. QED
      BY <2>2, <2>3
  <1>3. IsFiniteSet(Slots)
    BY <1>2, HostsAssumption, FS_Product DEF Slots
  <1>4. \A p : IsFiniteSet(Held(p))
    <2> SUFFICES ASSUME NEW p PROVE IsFiniteSet(Held(p))
      OBVIOUS
    <2>1. Held(p) \in SUBSET Slots
      BY DEF Held
    <2>2. QED
      BY <1>3, <2>1, FS_Subset
  <1>5. QED
    BY <1>1, <1>4, HostsAssumption, FS_CardinalityType DEF Size

\* Fewer entries and fewer openings keep the bound.
LEMMA Shrink ==
  ASSUME NEW p, NEW q, NEW o \in SUBSET Hosts, NEW u \in SUBSET Hosts,
         Bounded(p, o), Held(q) \subseteq Held(p), u \subseteq o
  PROVE  Bounded(q, u)
  <1>1. Size(q) <= Size(p) /\ Size(p) \in Nat /\ Size(q) \in Nat
    BY Finite, FS_Subset DEF Size
  <1>2. /\ Cardinality(u) <= Cardinality(o)
        /\ Cardinality(u) \in Nat /\ Cardinality(o) \in Nat
    BY Finite, FS_Subset
  <1>3. QED
    BY <1>1, <1>2, Finite, CapAssumption DEF Bounded

\* When every pooled session is busy there are no more of them than hosts that
\* are not opening: each belongs to the running call of a host of its own.
LEMMA BusyBound ==
  ASSUME NEW c \in CallsType, NEW p \in PoolType, NEW ss \in SessType,
         NEW ce, NEW lv, NEW sw, PoolInv(c, p, ss, ce, lv, sw), Evictable(p, ss) = {},
         NEW o \in SUBSET Hosts, \A h \in o : c[h].pc # "running"
  PROVE  Bounded(p, o)
  <1> DEFINE R == Hosts \ o
             f == [x \in Held(p) |-> x[2]]
  <1>1. ASSUME NEW x \in Held(p)
        PROVE  /\ x[2] \in R
               /\ x = <<c[x[2]].kind, x[2]>>
    <2>1. p[x] \in Sessions /\ ss[p[x]].inFlight # 0
      BY DEF Held, PoolType, Evictable
    <2>2. PICK g \in Hosts : c[g].pc = "running" /\ c[g].sid = p[x]
      BY <2>1 DEF PoolInv, Counted
    <2>3. x = <<c[g].kind, g>>
      BY <2>2 DEF PoolInv, Owned, Active, Held
    <2>4. x[2] = g
      BY <2>3
    <2>5. QED
      BY <2>2, <2>3, <2>4
  <1>2. f \in Injection(Held(p), R)
    <2>1. f \in [Held(p) -> R]
      BY <1>1
    <2>2. ASSUME NEW x \in Held(p), NEW y \in Held(p), f[x] = f[y]
          PROVE  x = y
      BY <1>1, <2>2
    <2> HIDE DEF f
    <2>3. QED
      BY <2>1, <2>2 DEF Injection, IsInjective
  <1> HIDE DEF f
  <1>3. IsFiniteSet(R) /\ Cardinality(R) = Cardinality(Hosts) - Cardinality(o)
    <2>1. Hosts \cap o = o
      OBVIOUS
    <2>2. QED
      BY <2>1, HostsAssumption, FS_Difference
  <1>4. Size(p) <= Cardinality(R)
    BY <1>2, <1>3, FS_Injection DEF Size
  <1>5. QED
    BY <1>3, <1>4, Finite, CapAssumption DEF Bounded

\* One opening more for one entry less keeps the bound.
LEMMA Swap ==
  ASSUME NEW p, NEW q, NEW x \in Held(p), Held(q) = Held(p) \ {x},
         NEW o \in SUBSET Hosts, NEW h \in Hosts, Bounded(p, o)
  PROVE  Bounded(q, o \cup {h})
  <1>1. Size(q) = Size(p) - 1 /\ Size(p) \in Nat
    BY Finite, FS_RemoveElement DEF Size
  <1>2. /\ Cardinality(o \cup {h}) <= Cardinality(o) + 1
        /\ Cardinality(o \cup {h}) \in Nat /\ Cardinality(o) \in Nat
    <2>1. IsFiniteSet(o) /\ Cardinality(o) \in Nat
      BY Finite
    <2>2. Cardinality(o \cup {h}) = IF h \in o THEN Cardinality(o) ELSE Cardinality(o) + 1
      BY <2>1, FS_AddElement
    <2>3. QED
      BY <2>1, <2>2
  <1>3. QED
    BY <1>1, <1>2, Finite, CapAssumption DEF Bounded

\* One entry more for one opening less keeps the bound.
LEMMA Fill ==
  ASSUME NEW p, NEW q, NEW x, Held(q) \subseteq Held(p) \cup {x},
         NEW o \in SUBSET Hosts, NEW h \in o, Bounded(p, o)
  PROVE  Bounded(q, o \ {h})
  <1>1. Size(q) <= Size(p) + 1 /\ Size(p) \in Nat /\ Size(q) \in Nat
    <2>1. IsFiniteSet(Held(p)) /\ Size(p) \in Nat /\ Size(q) \in Nat
      BY Finite
    <2>2. /\ IsFiniteSet(Held(p) \cup {x})
          /\ Cardinality(Held(p) \cup {x}) =
               IF x \in Held(p) THEN Size(p) ELSE Size(p) + 1
      BY <2>1, FS_AddElement DEF Size
    <2>3. Size(q) <= Cardinality(Held(p) \cup {x})
      BY <2>2, FS_Subset DEF Size
    <2>4. QED
      BY <2>1, <2>2, <2>3
  <1>2. /\ Cardinality(o \ {h}) = Cardinality(o) - 1
        /\ Cardinality(o) \in Nat
    BY Finite, FS_RemoveElement
  <1>3. QED
    BY <1>1, <1>2, Finite, CapAssumption DEF Bounded

\* ensure keeps the bound: a full pool swaps an entry for an opening, a pool of
\* busy sessions is bounded by the hosts that run, and otherwise there is room.
LEMMA EnsureBounded ==
  ASSUME TypeOK, NEW m, NEW c \in CallsType, NEW p \in PoolType, NEW ss \in SessType,
         NEW h \in Hosts, NEW k \in Kinds, NEW r \in BOOLEAN,
         PoolInv(c, p, ss, closeEvents, live \ m, sweep),
         c[h].pc \notin Active, \A g \in Hosts \ {h} : call[g] = c[g],
         Bounded(p, Opening), Ensure(h, k, r, p, ss)
  PROVE  Bounded(pool', Opening')
  <1>1. Opening \in SUBSET Hosts /\ Opening' \in SUBSET Hosts
    BY DEF Opening
  <1>2. ASSUME NEW pc, NEW s, At(h, pc, k, s, r)
        PROVE  /\ call'[h] = [pc |-> pc, kind |-> k, sid |-> s, retried |-> r]
               /\ \A g \in Hosts \ {h} : call'[g] = call[g]
               /\ Opening' \subseteq Opening \cup {h}
               /\ \A g \in Opening' : g = h \/ c[g] = call'[g]
    <2>1. /\ call'[h] = [pc |-> pc, kind |-> k, sid |-> s, retried |-> r]
          /\ \A g \in Hosts \ {h} : call'[g] = call[g]
      BY <1>2 DEF At, TypeOK
    <2>2. QED
      BY <2>1 DEF Opening
  <1>3. CASE /\ \E x \in Oldest(p, ss) : Drop(p, x)
             /\ At(h, "evicting", k, None, r)
    <2>1. PICK x \in Held(p) : Drop(p, x)
      BY <1>3 DEF Oldest, Evictable
    <2>2. Held(pool') = Held(p) \ {x}
      BY <2>1 DEF Drop, Held, PoolType
    <2>3. Bounded(pool', Opening \cup {h})
      BY <1>1, <2>2, Swap
    <2>4. Opening' \subseteq Opening \cup {h} /\ Opening \cup {h} \in SUBSET Hosts
      BY <1>1, <1>2, <1>3
    <2>5. QED
      BY <1>1, <2>3, <2>4, Shrink
  <1>4. CASE /\ Size(p) < MaxSessions \/ Evictable(p, ss) = {}
             /\ Obtain(h, k, r, p, ss, timers)
    <2>1. pool' = p /\ \E pc, s : At(h, pc, k, s, r)
      BY <1>4 DEF Obtain, Run
    <2>2. CASE Size(p) < MaxSessions
      <3>1. Size(p) \in Nat /\ Cardinality(Opening') \in Nat
            /\ Cardinality(Opening') <= Cardinality(Hosts) /\ Cardinality(Hosts) \in Nat
        BY <1>1, Finite
      <3>2. QED
        BY <2>1, <2>2, <3>1, CapAssumption DEF Bounded
    <2>3. CASE Evictable(p, ss) = {}
      <3>1. \A g \in Opening' : c[g].pc # "running"
        <4> SUFFICES ASSUME NEW g \in Opening' PROVE c[g].pc # "running"
          OBVIOUS
        <4>1. CASE g = h
          BY <4>1 DEF Active
        <4>2. CASE g # h
          <5>1. c[g] = call'[g]
            BY <1>2, <2>1, <4>2
          <5>2. QED
            BY <5>1 DEF Opening
        <4>3. QED
          BY <4>1, <4>2
      <3>2. QED
        BY <1>1, <2>1, <2>3, <3>1, BusyBound
    <2>4. QED
      BY <1>4, <2>2, <2>3
  <1>5. QED
    BY <1>3, <1>4 DEF Ensure

\* A step of a call keeps the bound.
LEMMA CallBounded ==
  ASSUME IInv, Bounded(pool, Opening), NEW h \in Hosts, Call(h) \/ Reply(h)
  PROVE  Bounded(pool', Opening')
  <1> DEFINE k == call[h].kind
             r == call[h].retried
  <1>1. /\ TypeOK /\ PoolInv(call, pool, sess, closeEvents, live \ mistaken, sweep)
        /\ Watched(call, pool, timers)
    BY DEF IInv
  <1>2. /\ call \in CallsType /\ pool \in PoolType /\ sess \in SessType
        /\ k \in Kinds /\ r \in BOOLEAN
    BY <1>1 DEF TypeOK, CallsType, PoolType, SessType, CallRecords
  <1>3. Opening \in SUBSET Hosts /\ Opening' \in SUBSET Hosts
    BY DEF Opening
  <1> HIDE DEF k, r
  <1>4. ASSUME (\E pc, q, s, b : At(h, pc, q, s, b)) \/ Finish(h)
        PROVE  \A g \in Hosts \ {h} : call'[g] = call[g]
    BY <1>1, <1>4 DEF At, Finish, TypeOK
  <1>5. ASSUME \/ \E pc, q, s, b : At(h, pc, q, s, b) /\ pc \notin {"evicting", "connecting"}
               \/ Finish(h)
        PROVE  Opening' \subseteq Opening \ {h}
    <2>1. call'[h].pc \notin {"evicting", "connecting"}
      BY <1>1, <1>5 DEF At, Finish, NoCall, TypeOK
    <2>2. QED
      BY <1>4, <1>5, <2>1 DEF Opening
  <1>6. CASE Call(h)
    <2>1. PICK q \in CallKinds : Ensure(h, q, FALSE, pool, sess)
      BY <1>6 DEF Call
    <2>2. q \in Kinds /\ call[h].pc \notin Active
      BY <1>6, KindsAssumption DEF Call, Active
    <2>3. QED
      BY <1>1, <1>2, <2>1, <2>2, EnsureBounded
  <1>7. CASE EvictDone(h)
    <2>1. h \in Opening /\ pool' = pool /\ \E pc, s : At(h, pc, k, s, r)
      BY <1>7 DEF EvictDone, Obtain, Run, Opening, k, r
    <2>2. Opening' \subseteq Opening
      BY <1>4, <2>1 DEF Opening
    <2>3. QED
      BY <1>3, <2>1, <2>2, Shrink
  <1>8. CASE ConnectOk(h)
    <2>1. h \in Opening
      BY <1>8 DEF ConnectOk, Opening
    <2>2. PICK s \in Sessions :
            /\ pool' = [pool EXCEPT ![<<k, h>>] = s]
            /\ At(h, "running", k, s, r) \/ At(h, "validating", k, s, r)
      BY <1>8 DEF ConnectOk, Run, k, r
    <2>3. Held(pool') \subseteq Held(pool) \cup {<<k, h>>}
      BY <1>2, <2>2 DEF Held, PoolType
    <2>4. Opening' \subseteq Opening \ {h}
      BY <1>5, <2>2
    <2>5. Bounded(pool', Opening \ {h})
      BY <1>3, <2>1, <2>3, Fill
    <2>6. QED
      BY <1>3, <2>4, <2>5, Shrink
  <1>9. CASE ConnectFail(h) \/ UnavailableDone(h) \/ OpEnd(h)
    <2>1. pool' = pool /\ Finish(h)
      BY <1>9 DEF ConnectFail, UnavailableDone, OpEnd
    <2>2. Opening' \subseteq Opening
      BY <1>5, <2>1
    <2>3. QED
      BY <1>3, <2>1, <2>2, Shrink
  <1>10. CASE ValidateOk(h)
    <2>1. pool' = pool /\ At(h, "running", k, call[h].sid, r)
      BY <1>10 DEF ValidateOk, Run, k, r
    <2>2. Opening' \subseteq Opening
      BY <1>5, <2>1
    <2>3. QED
      BY <1>3, <2>1, <2>2, Shrink
  <1>11. CASE ValidateFail(h)
    <2>1. /\ pool' = pool \/ Drop(pool, <<"docker", h>>)
          /\ At(h, "unavailable", "docker", None, r) \/ Finish(h)
      BY <1>11 DEF ValidateFail, r
    <2>2. Held(pool') \subseteq Held(pool)
      BY <1>2, <2>1 DEF Drop, Held, PoolType
    <2>3. Opening' \subseteq Opening
      BY <1>5, <2>1
    <2>4. QED
      BY <1>3, <2>2, <2>3, Shrink
  <1>12. CASE OpStale(h)
    <2> DEFINE p == [pool EXCEPT ![<<call[h].kind, h>>] = None]
               ss == Count(sess, call[h].sid, -1)
               c == Without(h)
    <2>1. /\ call[h].pc = "running"
          /\ mistaken \subseteq mistaken' /\ call[h].sid \notin live \ mistaken'
          /\ Ensure(h, k, TRUE, p, ss)
      BY <1>12 DEF OpStale, k
    <2>2. PoolInv(c, p, ss, closeEvents, live \ mistaken', sweep)
      BY <1>1, <2>1, StaleInv
    <2>3. c \in CallsType /\ c[h].pc \notin Active /\ \A g \in Hosts \ {h} : call[g] = c[g]
      BY <1>1, WithoutType DEF NoCall, Active
    <2>4. p \in PoolType /\ Held(p) \subseteq Held(pool)
      BY <1>2 DEF PoolType, Held
    <2>5. ss \in SessType
      <3>1. call[h].sid \in Sessions
        BY <1>1, <2>1 DEF TypeOK, CallRecords
      <3>2. QED
        BY <1>1, <1>2, <3>1, CountType
    <2> HIDE DEF p, ss, c
    <2>6. Bounded(p, Opening)
      BY <1>3, <2>4, Shrink
    <2>7. QED
      BY <1>1, <1>2, <2>1, <2>2, <2>3, <2>4, <2>5, <2>6, EnsureBounded
  <1>13. QED
    BY <1>6, <1>7, <1>8, <1>9, <1>10, <1>11, <1>12 DEF Reply

\* No other step adds a session or opens one.
LEMMA SystemBounded ==
  ASSUME TypeOK, Bounded(pool, Opening),
         \/ \E w \in Sweepers : SweepStart(w) \/ SweepResume(w)
         \/ CloseAll
         \/ Forget
         \/ Tick
         \/ UNCHANGED vars
  PROVE  Bounded(pool', Opening')
  <1>1. Opening' = Opening /\ Opening \in SUBSET Hosts
    BY DEF Opening, SweepStart, SweepResume, CloseAll, Forget, Tick, vars
  <1>2. ASSUME NEW w \in Sweepers, NEW k, NEW todo, NEW n, Scan(w, k, todo, n)
        PROVE  Held(pool') \subseteq Held(pool)
    <2>1. pool' = pool \/ \E x : Drop(pool, x)
      BY <1>2 DEF Scan, Reap, SweepEnds
    <2>2. QED
      BY <2>1 DEF Drop, Held, TypeOK
  <1>3. Held(pool') \subseteq Held(pool)
    <2>1. CASE \E w \in Sweepers : SweepStart(w) \/ SweepResume(w)
      BY <1>2, <2>1 DEF SweepStart, SweepResume
    <2>2. CASE CloseAll
      BY <2>2 DEF CloseAll, Held
    <2>3. CASE Forget \/ Tick \/ UNCHANGED vars
      BY <2>3 DEF Forget, Tick, vars
    <2>4. QED
      BY <2>1, <2>2, <2>3
  <1>4. QED
    BY <1>1, <1>3, Shrink

\* Pooled sessions and sessions being opened together exceed maxSessions by
\* less than the number of hosts called at once: the cap that
\* evictOldestIfFull checks before an awaited connect does not run away.
THEOREM CapCorrect == Spec => []OvershootBounded
  <1>1. OvershootBounded <=> Bounded(pool, Opening)
    BY DEF OvershootBounded, Bounded
  <1>2. Init => Bounded(pool, Opening)
    <2> SUFFICES ASSUME Init PROVE Bounded(pool, Opening)
      OBVIOUS
    <2>1. Held(pool) = {} /\ Opening = {}
      BY DEF Init, Held, Opening, NoCall
    <2>2. QED
      BY <2>1, Finite, FS_EmptySet, CapAssumption DEF Bounded, Size
  <1>3. IInv /\ Bounded(pool, Opening) /\ [Next]_vars => Bounded(pool, Opening)'
    <2> SUFFICES ASSUME IInv, Bounded(pool, Opening), [Next]_vars
                 PROVE  Bounded(pool', Opening')
      BY DEF Bounded, Size, Held
    <2>1. CASE \E h \in Hosts : Call(h) \/ Reply(h)
      BY <2>1, CallBounded
    <2>2. CASE \/ \E w \in Sweepers : SweepStart(w) \/ SweepResume(w)
               \/ CloseAll
               \/ Forget
               \/ Tick
               \/ UNCHANGED vars
      BY <2>2, SystemBounded DEF IInv
    <2>3. QED
      BY <2>1, <2>2 DEF Next
  <1>4. QED
    BY <1>1, <1>2, <1>3, Invariance, PTL DEF Spec

-------------------------------------------------------------------------------
(*****************************************************************************)
(* What takes a session from work in flight.  Everything a turn takes out of *)
(* the pools had nothing in flight or is what a sweep found under the host   *)
(* of a session of its snapshot.  A sweep's session is either in the slot it *)
(* was found in, or in none.                                                 *)
(*****************************************************************************)

\* ensure moves only the call of its host, which keeps asking for its kind.
LEMMA EnsureCall ==
  ASSUME TypeOK, NEW h \in Hosts, NEW k \in Kinds, NEW r \in BOOLEAN,
         NEW p \in PoolType, NEW ss \in SessType,
         \/ Ensure(h, k, r, p, ss)
         \/ \E t \in BOOLEAN : Obtain(h, k, r, p, ss, t)
  PROVE  call'[h].kind = k /\ \A g \in Hosts \ {h} : call'[g] = call[g]
  <1>1. ASSUME NEW pc \in PCs, NEW s, At(h, pc, k, s, r)
        PROVE  call'[h].kind = k /\ \A g \in Hosts \ {h} : call'[g] = call[g]
    BY <1>1 DEF At, TypeOK
  <1>2. \E pc \in PCs, s \in Sessions \cup {None} : At(h, pc, k, s, r)
    <2>1. ASSUME NEW t, Obtain(h, k, r, p, ss, t)
          PROVE  \E pc \in PCs, s \in Sessions \cup {None} : At(h, pc, k, s, r)
      <3>1. p[<<k, h>>] \in Sessions \cup {None}
        BY DEF PoolType, Slots
      <3>2. QED
        BY <2>1, <3>1 DEF Obtain, Run, PCs
    <2>2. QED
      BY <2>1 DEF Ensure, PCs
  <1>3. QED
    BY <1>1, <1>2

\* The session object under a Map entry is one of that host.
Homed(p, ss) == \A x \in Held(p) : ss[p[x]].host = x[2]

\* The sessions of todo are in the slot of their host and of kind k, or in none.
GatheredIn(p, ss, k, todo) ==
  \A s \in todo : \A x \in Slots : p[x] = s => x = <<k, ss[s].host>>

Gathered(p, ss, sw) == \A w \in Sweepers : GatheredIn(p, ss, sw[w].kind, sw[w].todo)

SweepInv == IInv /\ Homed(pool, sess) /\ Gathered(pool, sess, sweep)

\* Only entries with nothing in flight leave the pool p, and none is added.
Evicts(p, ss) ==
  \A x \in Slots :
    \/ pool'[x] = p[x]
    \/ pool'[x] = None /\ p[x] # None /\ ss[p[x]].inFlight = 0

SameHosts(ss) == \A s \in Sessions : sess'[s].host = ss[s].host

\* An operation starting or ending leaves every session where it belongs.
LEMMA CountHosts ==
  ASSUME NEW ss \in SessType, NEW s \in Sessions, NEW d
  PROVE  \A q \in Sessions : Count(ss, s, d)[q].host = ss[q].host
BY DEF Count, SessType, Objects

\* The lookup of ensure takes nothing out of the pools.
LEMMA ObtainEvicts ==
  ASSUME NEW p \in PoolType, NEW ss \in SessType, NEW h \in Hosts, NEW k \in Kinds,
         NEW r, NEW t, Obtain(h, k, r, p, ss, t)
  PROVE  Evicts(p, ss) /\ SameHosts(ss)
  <1>1. pool' = p
    BY DEF Obtain, Run
  <1>2. CASE p[<<k, h>>] # None /\ sess' = Count(ss, p[<<k, h>>], 1)
    <2>1. p[<<k, h>>] \in Sessions
      BY <1>2 DEF PoolType, Slots
    <2>2. QED
      BY <1>1, <1>2, <2>1, CountHosts DEF Evicts, SameHosts
  <1>3. CASE sess' = ss
    BY <1>1, <1>3 DEF Evicts, SameHosts
  <1>4. QED
    BY <1>2, <1>3 DEF Obtain, Run

\* ensure, eviction included, takes out only what has nothing in flight.
LEMMA EnsureEvicts ==
  ASSUME NEW p \in PoolType, NEW ss \in SessType, NEW h \in Hosts, NEW k \in Kinds,
         NEW r, Ensure(h, k, r, p, ss)
  PROVE  Evicts(p, ss) /\ SameHosts(ss)
  <1>1. CASE sess' = ss /\ \E x \in Oldest(p, ss) : Drop(p, x)
    <2>1. PICK x \in Oldest(p, ss) : Drop(p, x)
      BY <1>1
    <2>2. x \in Slots /\ p[x] # None /\ ss[p[x]].inFlight = 0
      BY <2>1 DEF Oldest, Evictable, Held
    <2>3. \A y \in Slots : pool'[y] = IF y = x THEN None ELSE p[y]
      BY <2>1, <2>2 DEF Drop, PoolType
    <2>4. QED
      BY <1>1, <2>2, <2>3 DEF Evicts, SameHosts
  <1>2. CASE Obtain(h, k, r, p, ss, timers)
    BY <1>2, ObtainEvicts
  <1>3. QED
    BY <1>1, <1>2 DEF Ensure

\* A session enters the pool under a fresh id and in the slot of its host.
Opens(h) ==
  \E s \in Sessions, k \in Kinds :
    /\ Fresh(s)
    /\ pool' = [pool EXCEPT ![<<k, h>>] = s]
    /\ k = call[h].kind
    /\ sess'[s].host = h
    /\ \A q \in Sessions \ {s} : sess'[q].host = sess[q].host

\* Every session that leaves the pools has nothing in flight, or is the one the
\* call itself was using and found stale.
Takes(h) ==
  /\ SameHosts(sess)
  /\ \A x \in Slots :
       \/ pool'[x] = pool[x]
       \/ pool'[x] = None /\ (sess[pool[x]].inFlight = 0 \/ x = <<call[h].kind, h>>)

LEMMA CallTakes ==
  ASSUME IInv, NEW h \in Hosts, Call(h) \/ Reply(h)
  PROVE  /\ sweep' = sweep
         /\ call[h].pc = "running" => call'[h] # call[h]
         /\ \A g \in Hosts \ {h} : call'[g] = call[g]
         /\ Takes(h) \/ Opens(h)
  <1> DEFINE k == call[h].kind
             r == call[h].retried
  <1>1. /\ TypeOK /\ PoolInv(call, pool, sess, closeEvents, live \ mistaken, sweep)
    BY DEF IInv
  <1>2. /\ call \in CallsType /\ pool \in PoolType /\ sess \in SessType
        /\ timers \in BOOLEAN /\ k \in Kinds /\ r \in BOOLEAN /\ <<k, h>> \in Slots
        /\ call[h].sid \in Sessions \cup {None}
        /\ call[h].pc \in {"validating", "running"} => call[h].sid \in Sessions
    BY <1>1 DEF TypeOK, CallsType, PoolType, SessType, CallRecords, Slots
  <1>3. sweep' = sweep
    BY DEF Call, Reply, EvictDone, ConnectOk, ConnectFail, ValidateOk, ValidateFail,
           UnavailableDone, OpEnd, OpStale
  <1>4. ASSUME NEW pc, NEW j, NEW s, NEW q, At(h, pc, j, s, q)
        PROVE  /\ call'[h] = [pc |-> pc, kind |-> j, sid |-> s, retried |-> q]
               /\ \A g \in Hosts \ {h} : call'[g] = call[g]
    BY <1>1, <1>4 DEF At, TypeOK
  <1>5. ASSUME Finish(h)
        PROVE  call'[h].pc = "idle" /\ \A g \in Hosts \ {h} : call'[g] = call[g]
    BY <1>1, <1>5 DEF Finish, TypeOK, NoCall
  <1>6. ASSUME Evicts(pool, sess), SameHosts(sess)
        PROVE  Takes(h)
    BY <1>6 DEF Evicts, Takes
  <1>7. CASE Call(h)
    <2>1. PICK q \in CallKinds : Ensure(h, q, FALSE, pool, sess)
      BY <1>7 DEF Call
    <2>2. q \in Kinds /\ call[h].pc = "idle"
      BY <1>7, KindsAssumption DEF Call
    <2>3. \A g \in Hosts \ {h} : call'[g] = call[g]
      BY <1>1, <1>2, <2>1, <2>2, EnsureCall
    <2>4. QED
      BY <1>2, <1>3, <1>6, <2>1, <2>2, <2>3, EnsureEvicts
  <1>8. CASE EvictDone(h)
    <2>1. Obtain(h, k, r, pool, sess, StopIfEmpty) /\ call[h].pc = "evicting"
      BY <1>8 DEF EvictDone
    <2>2. StopIfEmpty \in BOOLEAN
      BY <1>2 DEF StopIfEmpty
    <2>3. \A g \in Hosts \ {h} : call'[g] = call[g]
      BY <1>1, <1>2, <2>1, <2>2, EnsureCall
    <2>4. QED
      BY <1>2, <1>3, <1>6, <2>1, <2>3, ObtainEvicts
  <1>9. CASE ConnectOk(h)
    <2>1. PICK s \in Sessions :
            LET p == [pool EXCEPT ![<<k, h>>] = s]
                ss == [sess EXCEPT ![s] = [host |-> h, inFlight |-> 0, lastActive |-> now]]
            IN /\ Fresh(s)
               /\ \/ Run(h, k, r, s, p, ss, timers)
                  \/ At(h, "validating", k, s, r) /\ pool' = p /\ sess' = ss
      BY <1>9 DEF ConnectOk
    <2> DEFINE p == [pool EXCEPT ![<<k, h>>] = s]
               ss == [sess EXCEPT ![s] = [host |-> h, inFlight |-> 0, lastActive |-> now]]
    <2>2. now \in Nat /\ ss \in SessType /\ ss[s].host = h
          /\ \A q \in Sessions \ {s} : ss[q].host = sess[q].host
      BY <1>1, <1>2 DEF SessType, Objects, TypeOK
    <2>3. pool' = p /\ (sess' = ss \/ sess' = Count(ss, s, 1))
      BY <2>1 DEF Run
    <2>4. \A g \in Hosts \ {h} : call'[g] = call[g]
      BY <1>4, <2>1 DEF Run
    <2> HIDE DEF ss
    <2>5. \A q \in Sessions : sess'[q].host = ss[q].host
      BY <2>2, <2>3, CountHosts
    <2>6. Opens(h)
      BY <1>2, <2>1, <2>2, <2>3, <2>5 DEF Opens
    <2>7. QED
      BY <1>3, <1>9, <2>4, <2>6 DEF ConnectOk
  <1>10. CASE ConnectFail(h) \/ UnavailableDone(h)
    BY <1>3, <1>5, <1>10 DEF ConnectFail, UnavailableDone, Takes, SameHosts
  <1>11. CASE ValidateOk(h)
    <2>1. /\ Run(h, k, r, call[h].sid, pool, sess, timers)
          /\ call[h].pc = "validating" /\ call[h].sid \in Sessions
      BY <1>2, <1>11 DEF ValidateOk
    <2>2. pool' = pool /\ SameHosts(sess)
      BY <1>2, <2>1, CountHosts DEF Run, SameHosts
    <2>3. QED
      BY <1>3, <1>4, <2>1, <2>2 DEF Run, Takes
  <1>12. CASE ValidateFail(h)
    <2>1. call[h].pc = "validating" /\ sess' = sess /\ k = "docker"
      BY <1>1, <1>12 DEF ValidateFail, PoolInv, Unfilled
    <2>2. CASE Drop(pool, <<"docker", h>>) /\ At(h, "unavailable", "docker", None, r)
      <3>1. \A y \in Slots : pool'[y] = IF y = <<"docker", h>> THEN None ELSE pool[y]
        BY <1>2, <2>1, <2>2 DEF Drop, PoolType
      <3>2. QED
        BY <1>3, <1>4, <2>1, <2>2, <3>1 DEF Takes, SameHosts
    <2>3. CASE Finish(h) /\ pool' = pool
      BY <1>3, <1>5, <2>1, <2>3 DEF Takes, SameHosts
    <2>4. QED
      BY <1>12, <2>2, <2>3 DEF ValidateFail
  <1>13. CASE OpEnd(h)
    <2>1. call[h].pc = "running" /\ Finish(h) /\ pool' = pool
          /\ sess' = Count(sess, call[h].sid, -1)
      BY <1>13 DEF OpEnd
    <2>2. SameHosts(sess)
      BY <1>2, <2>1, CountHosts DEF SameHosts
    <2>3. QED
      BY <1>3, <1>5, <2>1, <2>2 DEF Takes
  <1>14. CASE OpStale(h)
    <2> DEFINE p == [pool EXCEPT ![<<k, h>>] = None]
               ss == Count(sess, call[h].sid, -1)
    <2>1. /\ call[h].pc = "running" /\ ~ r /\ call[h].sid \in Sessions
          /\ Ensure(h, k, TRUE, p, ss)
      BY <1>2, <1>14 DEF OpStale
    <2>2. /\ p \in PoolType /\ ss \in SessType
          /\ \A y \in Slots : p[y] = IF y = <<k, h>> THEN None ELSE pool[y]
          /\ \A q \in Sessions : ss[q].host = sess[q].host
          /\ \A q \in Sessions \ {call[h].sid} : ss[q] = sess[q]
      <3>1. ss \in SessType
        BY <1>1, <1>2, <2>1, CountType
      <3>2. \A q \in Sessions : ss[q].host = sess[q].host
        BY <1>2, <2>1, CountHosts
      <3>3. \A q \in Sessions \ {call[h].sid} : ss[q] = sess[q]
        BY <1>2, <2>1 DEF Count, SessType
      <3>4. /\ p \in PoolType
            /\ \A y \in Slots : p[y] = IF y = <<k, h>> THEN None ELSE pool[y]
        BY <1>2 DEF PoolType
      <3>5. QED
        BY <3>1, <3>2, <3>3, <3>4
    <2>3. \A y \in Slots : y # <<k, h>> => pool[y] # call[h].sid
      BY <1>1, <2>1 DEF PoolInv, Owned, Active
    <2> HIDE DEF p, ss
    <2>4. Evicts(p, ss) /\ SameHosts(ss)
      BY <1>2, <2>1, <2>2, EnsureEvicts
    <2>5. Takes(h)
      <3>1. SameHosts(sess)
        BY <2>2, <2>4 DEF SameHosts
      <3>2. ASSUME NEW y \in Slots, pool'[y] # pool[y]
            PROVE  pool'[y] = None /\ (sess[pool[y]].inFlight = 0 \/ y = <<k, h>>)
        <4>1. CASE y = <<k, h>>
          BY <2>2, <2>4, <4>1 DEF Evicts
        <4>2. CASE y # <<k, h>>
          <5>1. p[y] = pool[y]
            BY <2>2, <4>2
          <5>2. pool'[y] = None /\ p[y] # None /\ ss[p[y]].inFlight = 0
            BY <2>4, <3>2, <5>1 DEF Evicts
          <5>3. pool[y] \in Sessions \ {call[h].sid}
            BY <1>2, <2>3, <4>2, <5>1, <5>2 DEF PoolType
          <5>4. QED
            BY <2>2, <5>1, <5>2, <5>3
        <4>3. QED
          BY <4>1, <4>2
      <3>3. QED
        BY <3>1, <3>2 DEF Takes
    <2>6. \A g \in Hosts \ {h} : call'[g] = call[g]
      BY <1>1, <1>2, <2>1, <2>2, EnsureCall
    <2>7. call'[h] # call[h]
      <3>1. PICK pc, s : At(h, pc, k, s, TRUE)
        BY <2>1 DEF Ensure, Obtain, Run
      <3>2. call'[h].retried = TRUE
        BY <1>2, <3>1 DEF At, CallsType
      <3>3. QED
        BY <2>1, <3>2
    <2>8. QED
      BY <1>3, <2>5, <2>6, <2>7
  <1>15. QED
    BY <1>7, <1>8, <1>9, <1>10, <1>11, <1>12, <1>13, <1>14 DEF Reply

\* A call keeps sessions in the slots of their hosts, and what sweeps hold apart.
LEMMA CallSweepInv ==
  ASSUME SweepInv, NEW h \in Hosts, Call(h) \/ Reply(h)
  PROVE  Homed(pool', sess') /\ Gathered(pool', sess', sweep')
  <1>1. /\ IInv /\ TypeOK /\ Homed(pool, sess) /\ Gathered(pool, sess, sweep)
        /\ pool \in PoolType /\ sweep' = sweep /\ (Takes(h) \/ Opens(h))
        /\ \A w \in Sweepers : sweep[w].todo \subseteq Sessions
    BY CallTakes DEF SweepInv, IInv, TypeOK, PoolType, SweepRecords
  <1>2. \A x \in Held(pool) : x \in Slots /\ pool[x] \in Sessions
    BY <1>1 DEF Held, PoolType
  <1>3. CASE Takes(h)
    <2>1. /\ \A s \in Sessions : sess'[s].host = sess[s].host
          /\ \A x \in Slots : pool'[x] \in {pool[x], None}
      BY <1>3 DEF Takes, SameHosts
    <2>2. Homed(pool', sess')
      BY <1>1, <1>2, <2>1 DEF Homed, Held
    <2>3. Gathered(pool', sess', sweep')
      BY <1>1, <2>1, NoneAssumption DEF Gathered, GatheredIn
    <2>4. QED
      BY <2>2, <2>3
  <1>4. CASE Opens(h)
    <2>1. PICK s \in Sessions, k \in Kinds :
            /\ Fresh(s)
            /\ pool' = [pool EXCEPT ![<<k, h>>] = s]
            /\ sess'[s].host = h
            /\ \A q \in Sessions \ {s} : sess'[q].host = sess[q].host
      BY <1>4 DEF Opens
    <2>2. <<k, h>> \in Slots
      BY DEF Slots
    <2>3. \A x \in Slots : pool'[x] = IF x = <<k, h>> THEN s ELSE pool[x]
      BY <1>1, <2>1, <2>2 DEF PoolType
    <2>4. /\ \A x \in Slots : pool[x] # s
          /\ \A w \in Sweepers : s \notin sweep[w].todo
      BY <2>1 DEF Fresh, Pooled
    <2>5. Homed(pool', sess')
      <3> SUFFICES ASSUME NEW x \in Slots, pool'[x] # None PROVE sess'[pool'[x]].host = x[2]
        BY DEF Homed, Held
      <3>1. CASE x = <<k, h>>
        BY <2>1, <2>3, <3>1
      <3>2. CASE x # <<k, h>>
        <4>1. pool'[x] = pool[x] /\ x \in Held(pool)
          BY <2>3, <3>2 DEF Held
        <4>2. pool[x] \in Sessions \ {s} /\ sess[pool[x]].host = x[2]
          BY <1>1, <1>2, <2>4, <4>1 DEF Homed
        <4>3. QED
          BY <2>1, <4>1, <4>2
      <3>3. QED
        BY <3>1, <3>2
    <2>6. Gathered(pool', sess', sweep')
      <3> SUFFICES ASSUME NEW w \in Sweepers, NEW q \in sweep[w].todo, NEW x \in Slots,
                          pool'[x] = q
                   PROVE  x = <<sweep[w].kind, sess'[q].host>>
        BY <1>1 DEF Gathered, GatheredIn
      <3>1. q \in Sessions \ {s} /\ pool[x] = q
        BY <1>1, <2>3, <2>4
      <3>2. x = <<sweep[w].kind, sess[q].host>>
        BY <1>1, <3>1 DEF Gathered, GatheredIn
      <3>3. QED
        BY <2>1, <3>1, <3>2
    <2>7. QED
      BY <2>5, <2>6
  <1>5. QED
    BY <1>1, <1>3, <1>4

\* What a sweep that tears a session down does, and to whom.
ReapsOne(w, k, todo) ==
  \E s \in todo :
    /\ sess[s].inFlight = 0 /\ sess[s].host \in Hosts
    /\ pool' = [pool EXCEPT ![<<k, sess[s].host>>] = None]
    /\ s \notin sweep'[w].todo /\ sweep'[w].todo \subseteq todo /\ sweep'[w].kind = k
    /\ \A v \in Sweepers \ {w} : sweep'[v] = sweep[v]

LEMMA ReapIs ==
  ASSUME TypeOK, NEW w \in Sweepers, NEW k, NEW todo, NEW n, Reap(w, k, todo, n),
         \A s \in todo : sess[s].host \in Hosts
  PROVE  ReapsOne(w, k, todo)
  <1>1. PICK s \in Due(k, todo, n), passed \in SUBSET (todo \ Due(k, todo, n)) :
          /\ Drop(pool, <<k, sess[s].host>>)
          /\ sweep' = [sweep EXCEPT ![w] = [on |-> TRUE, kind |-> k, now |-> n,
                                            todo |-> (todo \ passed) \ {s}]]
    BY DEF Reap
  <1>2. s \in todo /\ sess[s].inFlight = 0 /\ sess[s].host \in Hosts
    BY DEF Due
  <1>3. pool' = [pool EXCEPT ![<<k, sess[s].host>>] = None]
    BY <1>1 DEF Drop
  <1>4. /\ sweep'[w] = [on |-> TRUE, kind |-> k, now |-> n, todo |-> (todo \ passed) \ {s}]
        /\ \A v \in Sweepers \ {w} : sweep'[v] = sweep[v]
    BY <1>1 DEF TypeOK
  <1>5. s \notin sweep'[w].todo /\ sweep'[w].todo \subseteq todo /\ sweep'[w].kind = k
    BY <1>4
  <1>6. QED
    BY <1>2, <1>3, <1>4, <1>5 DEF ReapsOne

\* A snapshot is of sessions in their own slots.
LEMMA SnapshotGathered ==
  ASSUME SweepInv, NEW k \in Kinds
  PROVE  /\ GatheredIn(pool, sess, k, Snapshot(k))
         /\ \A s \in Snapshot(k) : s \in Sessions /\ sess[s].host \in Hosts /\ Pooled(s)
  <1>1. /\ TypeOK /\ PoolInv(call, pool, sess, closeEvents, live \ mistaken, sweep)
        /\ Homed(pool, sess)
    BY DEF SweepInv, IInv
  <1>2. ASSUME NEW h \in Hosts, pool[<<k, h>>] # None
        PROVE  /\ <<k, h>> \in Held(pool) /\ sess[pool[<<k, h>>]].host = h
               /\ \A x \in Slots : pool[x] = pool[<<k, h>>] => x = <<k, h>>
    <2>1. <<k, h>> \in Held(pool)
      BY <1>2 DEF Held, Slots
    <2>2. QED
      BY <1>1, <2>1 DEF Homed, PoolInv, Distinct
  <1>3. \A s \in Snapshot(k) : \E h \in Hosts : pool[<<k, h>>] = s /\ s # None
    BY DEF Snapshot
  <1>4. GatheredIn(pool, sess, k, Snapshot(k))
    <2> SUFFICES ASSUME NEW s \in Snapshot(k), NEW x \in Slots, pool[x] = s
                 PROVE  x = <<k, sess[s].host>>
      BY DEF GatheredIn
    <2>1. PICK h \in Hosts : pool[<<k, h>>] = s /\ s # None
      BY <1>3
    <2>2. x = <<k, h>> /\ sess[s].host = h
      BY <1>2, <2>1
    <2>3. QED
      BY <2>2
  <1>5. \A s \in Snapshot(k) : Pooled(s)
    BY <1>2, <1>3 DEF Pooled, Held
  <1>6. QED
    BY <1>1, <1>4, <1>5, SnapshotPlaced

\* A run of the loop of a sweep, from a list todo of kind k: it tears one session
\* down, of that list or of a new snapshot, or ends.
Sweeps(w, k, todo) ==
  \/ ReapsOne(w, k, todo)
  \/ ReapsOne(w, "docker", Snapshot("docker"))
  \/ pool' = pool /\ sweep' = [sweep EXCEPT ![w] = NoSweep]

LEMMA SweepTurn ==
  ASSUME SweepInv, NEW w \in Sweepers, SweepStart(w) \/ SweepResume(w)
  PROVE  /\ call' = call /\ sess' = sess /\ closed' = closed
         /\ \/ Sweeps(w, "file", Snapshot("file"))
            \/ sweep[w].on /\ Sweeps(w, sweep[w].kind, sweep[w].todo)
  <1>1. TypeOK /\ PoolInv(call, pool, sess, closeEvents, live \ mistaken, sweep)
    BY DEF SweepInv, IInv
  <1>2. "file" \in Kinds /\ "docker" \in Kinds
    BY DEF Kinds
  <1>3. ASSUME NEW k, NEW todo, NEW n, Scan(w, k, todo, n),
               \A s \in todo : sess[s].host \in Hosts
        PROVE  Sweeps(w, k, todo)
    <2>1. CASE Reap(w, k, todo, n)
      BY <1>1, <1>3, <2>1, ReapIs DEF Sweeps
    <2>2. CASE Reap(w, "docker", Snapshot("docker"), n)
      BY <1>1, <1>2, <2>2, SnapshotGathered, ReapIs DEF Sweeps
    <2>3. CASE SweepEnds(w)
      BY <2>3 DEF SweepEnds, Sweeps
    <2>4. QED
      BY <1>3, <2>1, <2>2, <2>3 DEF Scan
  <1>4. CASE SweepStart(w)
    <2>1. Scan(w, "file", Snapshot("file"), now)
      BY <1>4 DEF SweepStart
    <2>2. Sweeps(w, "file", Snapshot("file"))
      BY <1>2, <1>3, <2>1, SnapshotGathered
    <2>3. QED
      BY <1>4, <2>2 DEF SweepStart
  <1>5. CASE SweepResume(w)
    <2>1. Scan(w, sweep[w].kind, sweep[w].todo, sweep[w].now)
      BY <1>5 DEF SweepResume
    <2>2. \A s \in sweep[w].todo : sess[s].host \in Hosts
      BY <1>1 DEF PoolInv, Placed
    <2>3. Sweeps(w, sweep[w].kind, sweep[w].todo)
      BY <1>3, <2>1, <2>2
    <2>4. QED
      BY <1>5, <2>3 DEF SweepResume
  <1>6. QED
    BY <1>4, <1>5

\* A sweep keeps what it and the others hold apart.
LEMMA SweepKeepsInv ==
  ASSUME SweepInv, NEW w \in Sweepers, SweepStart(w) \/ SweepResume(w)
  PROVE  Homed(pool', sess') /\ Gathered(pool', sess', sweep')
  <1>1. /\ TypeOK /\ Homed(pool, sess) /\ Gathered(pool, sess, sweep)
        /\ pool \in PoolType /\ sess' = sess
        /\ \A v \in Sweepers : sweep[v].todo \subseteq Sessions
    BY SweepTurn DEF SweepInv, IInv, TypeOK, PoolType, SweepRecords
  <1>2. ASSUME \A x \in Slots : pool'[x] \in {pool[x], None},
               NEW k, NEW todo, todo \subseteq Sessions, GatheredIn(pool, sess, k, todo),
               \A v \in Sweepers : \/ sweep'[v].todo = {} \/ sweep'[v] = sweep[v]
                                   \/ sweep'[v].todo \subseteq todo /\ sweep'[v].kind = k
        PROVE  Homed(pool', sess') /\ Gathered(pool', sess', sweep')
    <2>1. Homed(pool', sess')
      BY <1>1, <1>2 DEF Homed, Held
    <2>2. ASSUME NEW v \in Sweepers, NEW s \in sweep'[v].todo, NEW x \in Slots, pool'[x] = s
          PROVE  x = <<sweep'[v].kind, sess[s].host>>
      <3>1. s \in Sessions
        BY <1>1, <1>2, <2>2
      <3>2. pool[x] = s
        BY <1>2, <2>2, <3>1, NoneAssumption
      <3>3. QED
        BY <1>1, <1>2, <2>2, <3>2 DEF Gathered, GatheredIn
    <2>3. QED
      BY <1>1, <2>1, <2>2 DEF Gathered, GatheredIn
  <1>3. ASSUME NEW k \in Kinds, NEW todo, todo \subseteq Sessions,
               GatheredIn(pool, sess, k, todo), ReapsOne(w, k, todo)
        PROVE  Homed(pool', sess') /\ Gathered(pool', sess', sweep')
    <2>1. PICK s \in todo :
            /\ sess[s].host \in Hosts
            /\ pool' = [pool EXCEPT ![<<k, sess[s].host>>] = None]
            /\ sweep'[w].todo \subseteq todo /\ sweep'[w].kind = k
            /\ \A v \in Sweepers \ {w} : sweep'[v] = sweep[v]
      BY <1>3 DEF ReapsOne
    <2>2. \A x \in Slots : pool'[x] \in {pool[x], None}
      BY <1>1, <2>1 DEF PoolType
    <2>3. QED
      BY <1>2, <1>3, <2>1, <2>2
  <1>4. ASSUME NEW k \in Kinds, NEW todo, todo \subseteq Sessions,
               GatheredIn(pool, sess, k, todo), Sweeps(w, k, todo)
        PROVE  Homed(pool', sess') /\ Gathered(pool', sess', sweep')
    <2>1. CASE ReapsOne(w, k, todo)
      BY <1>3, <1>4, <2>1
    <2>2. CASE ReapsOne(w, "docker", Snapshot("docker"))
      <3>1. /\ "docker" \in Kinds /\ Snapshot("docker") \subseteq Sessions
            /\ GatheredIn(pool, sess, "docker", Snapshot("docker"))
        BY SnapshotGathered DEF Kinds
      <3>2. QED
        BY <1>3, <2>2, <3>1
    <2>3. CASE pool' = pool /\ sweep' = [sweep EXCEPT ![w] = NoSweep]
      <3>1. \A v \in Sweepers : sweep'[v].todo = {} \/ sweep'[v] = sweep[v]
        BY <1>1, <2>3 DEF NoSweep, TypeOK
      <3>2. QED
        BY <1>2, <1>4, <2>3, <3>1
    <2>4. QED
      BY <1>4, <2>1, <2>2, <2>3 DEF Sweeps
  <1>5. /\ "file" \in Kinds /\ Snapshot("file") \subseteq Sessions
        /\ GatheredIn(pool, sess, "file", Snapshot("file"))
    BY SnapshotGathered DEF Kinds
  <1>6. /\ sweep[w].kind \in Kinds /\ sweep[w].todo \subseteq Sessions
        /\ GatheredIn(pool, sess, sweep[w].kind, sweep[w].todo)
    BY <1>1 DEF Gathered, TypeOK, SweepRecords
  <1>7. QED
    BY <1>4, <1>5, <1>6, SweepTurn

\* Sessions stay in the slots of their hosts, whatever sweeps hold of them.
LEMMA SweepInvariance == Spec => []SweepInv
  <1>1. Init => SweepInv
    BY InitInv DEF Init, SweepInv, Homed, Held, Gathered, GatheredIn, NoSweep
  <1>2. ASSUME SweepInv, [Next]_vars
        PROVE  SweepInv'
    <2>1. IInv'
      BY <1>2, NextInv DEF SweepInv
    <2>2. CASE \E h \in Hosts : Call(h) \/ Reply(h)
      BY <1>2, <2>1, <2>2, CallSweepInv DEF SweepInv, Homed, Held, Gathered, GatheredIn
    <2>3. CASE \E w \in Sweepers : SweepStart(w) \/ SweepResume(w)
      BY <1>2, <2>1, <2>3, SweepKeepsInv DEF SweepInv, Homed, Held, Gathered, GatheredIn
    <2>4. CASE CloseAll
      <3>1. /\ \A x \in Slots : pool'[x] = None
            /\ \A w \in Sweepers : sweep'[w].todo \subseteq Sessions
        BY <2>1, <2>4 DEF CloseAll, IInv, TypeOK, SweepRecords
      <3>2. QED
        BY <2>1, <3>1, NoneAssumption DEF SweepInv, Homed, Held, Gathered, GatheredIn
    <2>5. CASE Forget \/ Tick \/ UNCHANGED vars
      BY <1>2, <2>1, <2>5
         DEF SweepInv, Homed, Held, Gathered, GatheredIn, Forget, Tick, vars
    <2>6. QED
      BY <1>2, <2>2, <2>3, <2>4, <2>5 DEF Next
  <1>3. QED
    BY <1>1, <1>2, PTL DEF Spec

\* A sweep that takes the session of an operation holds another one of the host,
\* which is in no pool.
LEMMA SweepTakes ==
  ASSUME SweepInv, NEW w \in Sweepers, SweepStart(w) \/ SweepResume(w),
         NEW h \in Hosts, call[h].pc = "running",
         pool[<<call[h].kind, h>>] = call[h].sid,
         pool'[<<call[h].kind, h>>] # pool[<<call[h].kind, h>>]
  PROVE  /\ sweep[w].on /\ sweep[w].kind = call[h].kind /\ sweep'[w] # sweep[w]
         /\ \E s \in sweep[w].todo : ~ Pooled(s) /\ sess[s].host = h
  <1> DEFINE x == <<call[h].kind, h>>
  <1>1. /\ TypeOK /\ PoolInv(call, pool, sess, closeEvents, live \ mistaken, sweep)
        /\ Gathered(pool, sess, sweep) /\ pool \in PoolType
        /\ x \in Slots /\ call[h].sid \in Sessions
    BY DEF SweepInv, IInv, TypeOK, PoolType, CallRecords, Slots
  <1>2. sess[call[h].sid].inFlight = 1
    BY <1>1 DEF PoolInv, Counted
  <1>3. ASSUME NEW k, NEW todo, ReapsOne(w, k, todo), GatheredIn(pool, sess, k, todo)
        PROVE  /\ k = call[h].kind
               /\ \E s \in todo : ~ Pooled(s) /\ sess[s].host = h /\ s \notin sweep'[w].todo
    <2>1. PICK s \in todo :
            /\ sess[s].inFlight = 0 /\ s \notin sweep'[w].todo
            /\ pool' = [pool EXCEPT ![<<k, sess[s].host>>] = None]
      BY <1>3 DEF ReapsOne
    <2>2. x = <<k, sess[s].host>>
      BY <1>1, <2>1 DEF PoolType
    <2>3. k = call[h].kind /\ sess[s].host = h /\ s # call[h].sid
      BY <1>2, <2>1, <2>2
    <2>4. ~ Pooled(s)
      BY <1>3, <2>2, <2>3 DEF GatheredIn, Pooled
    <2>5. QED
      BY <2>1, <2>3, <2>4
  <1>4. ~ ReapsOne(w, "docker", Snapshot("docker")) /\ ~ ReapsOne(w, "file", Snapshot("file"))
    <2>1. ASSUME NEW k \in Kinds, ReapsOne(w, k, Snapshot(k)) PROVE FALSE
      BY <1>3, <2>1, SnapshotGathered
    <2>2. QED
      BY <2>1 DEF Kinds
  <1>5. sweep[w].on /\ ReapsOne(w, sweep[w].kind, sweep[w].todo)
    BY <1>4, SweepTurn DEF Sweeps
  <1>6. GatheredIn(pool, sess, sweep[w].kind, sweep[w].todo)
    BY <1>1 DEF Gathered
  <1>7. /\ sweep[w].kind = call[h].kind
        /\ \E s \in sweep[w].todo : ~ Pooled(s) /\ sess[s].host = h /\ s \notin sweep'[w].todo
    BY <1>3, <1>5, <1>6
  <1>8. QED
    BY <1>5, <1>7

\* Evictions, retries, failed connects and validations, and sweeps of what is in
\* the pools take no session from an operation in flight: closeAll does, and a
\* sweep that goes on with a session that is gone.
THEOREM BusyTaken == Spec => BusyTakenByStaleSweep
  <1> DEFINE Excused(h) ==
        \/ closed' /\ Held(pool') = {}
        \/ \E w \in Sweepers :
             /\ sweep[w].on /\ sweep[w].kind = call[h].kind /\ sweep'[w] # sweep[w]
             /\ \E s \in sweep[w].todo : ~ Pooled(s) /\ sess[s].host = h
  <1>1. ASSUME SweepInv, [Next]_vars, NEW h \in Hosts,
               call[h].pc = "running", call'[h] = call[h],
               pool[<<call[h].kind, h>>] = call[h].sid,
               pool'[<<call[h].kind, h>>] # pool[<<call[h].kind, h>>]
        PROVE  Excused(h)
    <2> DEFINE x == <<call[h].kind, h>>
    <2>1. /\ IInv /\ PoolInv(call, pool, sess, closeEvents, live \ mistaken, sweep)
          /\ pool \in PoolType /\ x \in Slots /\ call[h].sid \in Sessions
      BY <1>1 DEF SweepInv, IInv, TypeOK, PoolType, CallRecords, Slots
    <2>2. ASSUME NEW g \in Hosts, Call(g) \/ Reply(g) PROVE FALSE
      <3>1. g # h /\ (Takes(g) \/ Opens(g))
        BY <1>1, <2>1, <2>2, CallTakes
      <3>2. x # <<call[g].kind, g>>
        BY <3>1
      <3>3. sess[pool[x]].inFlight = 1
        BY <1>1, <2>1 DEF PoolInv, Counted
      <3>4. CASE Takes(g)
        BY <1>1, <2>1, <3>2, <3>3, <3>4 DEF Takes
      <3>5. CASE Opens(g)
        <4>1. \E s \in Sessions : pool' = [pool EXCEPT ![<<call[g].kind, g>>] = s]
          BY <3>5 DEF Opens
        <4>2. QED
          BY <1>1, <2>1, <3>2, <4>1 DEF PoolType
      <3>6. QED
        BY <3>1, <3>4, <3>5
    <2>3. ASSUME NEW w \in Sweepers, SweepStart(w) \/ SweepResume(w) PROVE Excused(h)
      BY <1>1, <2>3, SweepTakes
    <2>4. CASE CloseAll
      BY <2>4 DEF CloseAll, Held
    <2>5. CASE Forget \/ Tick \/ UNCHANGED vars
      BY <1>1, <2>5 DEF Forget, Tick, vars
    <2>6. QED
      BY <1>1, <2>2, <2>3, <2>4, <2>5 DEF Next
  <1>2. SweepInv /\ [Next]_vars =>
          \A h \in Hosts :
            LET x == <<call[h].kind, h>> IN
            /\ call[h].pc = "running" /\ call'[h] = call[h]
            /\ pool[x] = call[h].sid /\ pool'[x] # pool[x]
            => \/ closed' /\ Held(pool') = {}
               \/ \E w \in Sweepers :
                    /\ sweep[w].on /\ sweep[w].kind = call[h].kind /\ sweep'[w] # sweep[w]
                    /\ \E s \in sweep[w].todo : ~ Pooled(s) /\ sess[s].host = h
    BY <1>1
  <1>3. QED
    BY <1>2, SweepInvariance, PTL DEF Spec, BusyTakenByStaleSweep
===============================================================================
