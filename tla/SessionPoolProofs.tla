-------------------------- MODULE SessionPoolProofs --------------------------
(*****************************************************************************)
(* What SessionPool guarantees for every set of hosts and sessions, every    *)
(* cap and every number of overlapping sweeps.                               *)
(*****************************************************************************)
EXTENDS SessionPool, FiniteSetTheorems, TLAPS

-------------------------------------------------------------------------------
(*****************************************************************************)
(* Types.  Every turn is built from Run, Obtain, Ensure, Drop and Scan, so   *)
(* each of these gets a lemma.                                               *)
(*****************************************************************************)
PoolType == [Slots -> Sessions \cup {None}]
SessType == [Sessions -> Objects]

\* Writing a call's record keeps the record type.
LEMMA AtType ==
  ASSUME TypeOK, NEW h \in Hosts, NEW pc \in PCs, NEW k \in Kinds,
         NEW s \in Sessions \cup {None}, NEW r \in BOOLEAN,
         pc \in {"validating", "running"} => s # None,
         At(h, pc, k, s, r)
  PROVE  call' \in [Hosts -> CallRecords]
  BY DEF TypeOK, At, CallRecords

\* Ending a call keeps the record type.
LEMMA FinishType ==
  ASSUME TypeOK, NEW h \in Hosts, Finish(h)
  PROVE  call' \in [Hosts -> CallRecords]
  BY DEF TypeOK, Finish, NoCall, CallRecords, PCs, Kinds

\* Removing a slot and auditing the close keep their types.
LEMMA DropType ==
  ASSUME TypeOK, NEW p \in PoolType, NEW x \in Held(p), Drop(p, x)
  PROVE  /\ pool' \in PoolType
         /\ closeEvents' \in [Sessions -> Nat]
         /\ live' \in SUBSET Sessions
  <1>1. p[x] \in Sessions
    BY DEF Held, PoolType
  <1>2. pool' \in PoolType
    BY DEF Drop, PoolType
  <1>3. closeEvents' \in [Sessions -> Nat]
    BY <1>1 DEF Drop, TypeOK
  <1>4. live' \in SUBSET Sessions
    BY DEF Drop, TypeOK
  <1>5. QED
    BY <1>2, <1>3, <1>4

\* Counting an operation in or out keeps the type of the session objects.
LEMMA CountType ==
  ASSUME TypeOK, NEW s \in Sessions, NEW ss \in SessType, NEW d \in Int
  PROVE  Count(ss, s, d) \in SessType
  BY DEF Count, SessType, Objects, TypeOK

\* Starting an operation keeps the types.
LEMMA RunType ==
  ASSUME TypeOK, NEW h \in Hosts, NEW k \in Kinds, NEW r \in BOOLEAN,
         NEW s \in Sessions, NEW p \in PoolType, NEW ss \in SessType,
         NEW t \in BOOLEAN, Run(h, k, r, s, p, ss, t)
  PROVE  /\ call' \in [Hosts -> CallRecords]
         /\ pool' \in PoolType
         /\ sess' \in SessType
         /\ timers' \in BOOLEAN
  <1>1. call' \in [Hosts -> CallRecords]
    BY AtType, NoneAssumption DEF Run, PCs
  <1>2. pool' \in PoolType
    BY DEF Run
  <1>3. sess' \in SessType
    BY CountType DEF Run
  <1>4. timers' \in BOOLEAN
    BY DEF Run
  <1>5. QED
    BY <1>1, <1>2, <1>3, <1>4

\* ensure from its lookup on keeps the types.
LEMMA ObtainType ==
  ASSUME TypeOK, NEW h \in Hosts, NEW k \in Kinds, NEW r \in BOOLEAN,
         NEW p \in PoolType, NEW ss \in SessType, NEW t \in BOOLEAN,
         Obtain(h, k, r, p, ss, t)
  PROVE  /\ call' \in [Hosts -> CallRecords]
         /\ pool' \in PoolType
         /\ sess' \in SessType
         /\ timers' \in BOOLEAN
  <1>1. CASE p[<<k, h>>] # None /\ Run(h, k, r, p[<<k, h>>], p, ss, t)
    <2>1. p[<<k, h>>] \in Sessions
      BY <1>1 DEF PoolType, Slots
    <2>2. QED
      BY <1>1, <2>1, RunType
  <1>2. CASE At(h, "connecting", k, None, r) /\ pool' = p /\ sess' = ss /\ timers' = t
    <2>1. call' \in [Hosts -> CallRecords]
      BY <1>2, AtType DEF PCs
    <2>2. QED
      BY <1>2, <2>1
  <1>3. QED
    BY <1>1, <1>2 DEF Obtain

\* The whole of ensure keeps the types.
LEMMA EnsureType ==
  ASSUME TypeOK, NEW h \in Hosts, NEW k \in Kinds, NEW r \in BOOLEAN,
         NEW p \in PoolType, NEW ss \in SessType, Ensure(h, k, r, p, ss)
  PROVE  /\ call' \in [Hosts -> CallRecords]
         /\ pool' \in PoolType
         /\ sess' \in SessType
         /\ timers' \in BOOLEAN
         /\ closeEvents' \in [Sessions -> Nat]
         /\ live' \in SUBSET Sessions
  <1>1. CASE /\ \E x \in Oldest(p, ss) : Drop(p, x)
             /\ At(h, "evicting", k, None, r)
             /\ sess' = ss
             /\ UNCHANGED timers
    <2>1. PICK x \in Held(p) : Drop(p, x)
      BY <1>1 DEF Oldest, Evictable
    <2>2. call' \in [Hosts -> CallRecords]
      BY <1>1, AtType DEF PCs
    <2>3. QED
      BY <1>1, <2>1, <2>2, DropType DEF TypeOK
  <1>2. CASE Obtain(h, k, r, p, ss, timers) /\ UNCHANGED <<closeEvents, live>>
    BY <1>2, ObtainType DEF TypeOK
  <1>3. QED
    BY <1>1, <1>2 DEF Ensure

\* A sweep that tears a session down keeps the types; in particular the slot it
\* empties is one that is held.
LEMMA ReapType ==
  ASSUME TypeOK, NEW w \in Sweepers, NEW k \in Kinds, NEW todo \in SUBSET Sessions,
         NEW n \in Nat, Reap(w, k, todo, n)
  PROVE  /\ pool' \in PoolType
         /\ closeEvents' \in [Sessions -> Nat]
         /\ live' \in SUBSET Sessions
         /\ sweep' \in [Sweepers -> SweepRecords]
  <1>1. PICK s \in Due(k, todo, n), passed \in SUBSET todo :
          /\ Drop(pool, <<k, sess[s].host>>)
          /\ sweep' = [sweep EXCEPT ![w] = [on |-> TRUE, kind |-> k, now |-> n,
                                           todo |-> (todo \ passed) \ {s}]]
    BY DEF Reap
  <1>2. s \in Sessions /\ pool[<<k, sess[s].host>>] # None
    BY DEF Due
  <1>3. sess[s].host \in Hosts \cup {None}
    BY <1>2 DEF TypeOK, Objects
  <1>4. PICK x : x = <<k, sess[s].host>>
    OBVIOUS
  <1>5. pool[x] # None /\ Drop(pool, x)
    BY <1>1, <1>2, <1>4
  <1>6. pool' \in PoolType
    BY <1>5 DEF Drop, PoolType, TypeOK
  <1>7. closeEvents' \in [Sessions -> Nat]
    <2>1. CASE pool[x] \in Sessions
      BY <1>5, <2>1 DEF Drop, TypeOK
    <2>2. CASE pool[x] \notin Sessions
      BY <1>5, <2>2 DEF Drop, TypeOK
    <2>3. QED
      BY <2>1, <2>2
  <1>8. live' \in SUBSET Sessions
    BY <1>5 DEF Drop, TypeOK
  <1>9. sweep' \in [Sweepers -> SweepRecords]
    BY <1>1 DEF TypeOK, SweepRecords
  <1>10. QED
    BY <1>6, <1>7, <1>8, <1>9

\* So does the whole loop of a sweep.
LEMMA ScanType ==
  ASSUME TypeOK, NEW w \in Sweepers, NEW k \in Kinds, NEW todo \in SUBSET Sessions,
         NEW n \in Nat, Scan(w, k, todo, n)
  PROVE  /\ pool' \in PoolType
         /\ closeEvents' \in [Sessions -> Nat]
         /\ live' \in SUBSET Sessions
         /\ sweep' \in [Sweepers -> SweepRecords]
  <1>1. CASE Reap(w, k, todo, n)
    BY <1>1, ReapType
  <1>2. CASE Reap(w, "docker", Snapshot("docker"), n)
    <2>1. Snapshot("docker") \in SUBSET Sessions
      <3>1. \A h \in Hosts : <<"docker", h>> \in Slots
        BY DEF Slots, Kinds
      <3>2. \A h \in Hosts : pool[<<"docker", h>>] \in Sessions \cup {None}
        BY <3>1 DEF TypeOK
      <3>3. QED
        BY <3>2 DEF Snapshot
    <2>2. QED
      BY <1>2, <2>1, ReapType DEF Kinds
  <1>3. CASE SweepEnds(w)
    BY <1>3 DEF SweepEnds, TypeOK, SweepRecords, NoSweep, PoolType, Kinds
  <1>4. QED
    BY <1>1, <1>2, <1>3 DEF Scan

\* A step of a call keeps every type.
LEMMA CallType ==
  ASSUME TypeOK, NEW h \in Hosts, Call(h) \/ Reply(h)
  PROVE  TypeOK'
  <1> USE DEF TypeOK
  <1>1. /\ pool \in PoolType /\ sess \in SessType
        /\ call[h].kind \in Kinds /\ call[h].retried \in BOOLEAN
        /\ call[h].sid \in Sessions \cup {None}
    BY DEF PoolType, SessType, CallRecords
  <1>2. CASE Call(h)
    <2>1. PICK k \in CallKinds : Ensure(h, k, FALSE, pool, sess)
      BY <1>2 DEF Call
    <2>2. QED
      BY <1>1, <1>2, <2>1, EnsureType, KindsAssumption DEF Call, PoolType, SessType
  <1>3. CASE EvictDone(h)
    <2>1. StopIfEmpty \in BOOLEAN
      BY DEF StopIfEmpty
    <2>2. QED
      BY <1>1, <1>3, <2>1, ObtainType DEF EvictDone, PoolType, SessType
  <1>4. CASE ConnectOk(h)
    <2> DEFINE k == call[h].kind
               p(s) == [pool EXCEPT ![<<k, h>>] = s]
               ss(s) == [sess EXCEPT ![s] = [host |-> h, inFlight |-> 0, lastActive |-> now]]
    <2>1. PICK s \in Sessions :
            /\ \/ Run(h, k, call[h].retried, s, p(s), ss(s), timers)
               \/ /\ At(h, "validating", k, s, call[h].retried)
                  /\ pool' = p(s)
                  /\ sess' = ss(s)
                  /\ UNCHANGED timers
            /\ closeEvents' = [closeEvents EXCEPT ![s] = 0]
            /\ live' = live \cup {s}
      BY <1>4 DEF ConnectOk
    <2>2. p(s) \in PoolType /\ ss(s) \in SessType
      <3>1. p(s) \in PoolType
        BY <1>1 DEF PoolType
      <3>2. [host |-> h, inFlight |-> 0, lastActive |-> now] \in Objects
        BY DEF Objects
      <3>3. QED
        BY <1>1, <3>1, <3>2 DEF SessType
    <2> HIDE DEF p, ss
    <2>3. closeEvents' \in [Sessions -> Nat] /\ live' \in SUBSET Sessions
      BY <2>1
    <2>4. CASE Run(h, k, call[h].retried, s, p(s), ss(s), timers)
      BY <1>1, <1>4, <2>2, <2>3, <2>4, RunType DEF ConnectOk, PoolType, SessType
    <2>5. CASE /\ At(h, "validating", k, s, call[h].retried)
               /\ pool' = p(s)
               /\ sess' = ss(s)
               /\ UNCHANGED timers
      <3>1. call' \in [Hosts -> CallRecords]
        BY <1>1, <2>5, AtType, NoneAssumption DEF PCs
      <3>2. QED
        BY <1>4, <2>2, <2>3, <2>5, <3>1 DEF ConnectOk, PoolType, SessType
    <2>6. QED
      BY <2>1, <2>4, <2>5
  <1>5. CASE ConnectFail(h)
    BY <1>5, FinishType DEF ConnectFail
  <1>6. CASE ValidateOk(h)
    <2>1. call[h].sid \in Sessions
      BY <1>6 DEF ValidateOk, CallRecords
    <2>2. QED
      BY <1>1, <1>6, <2>1, RunType DEF ValidateOk, PoolType, SessType
  <1>7. CASE ValidateFail(h)
    <2>1. CASE /\ pool[<<"docker", h>>] # None
               /\ Drop(pool, <<"docker", h>>)
               /\ At(h, "unavailable", "docker", None, call[h].retried)
      <3>1. <<"docker", h>> \in Held(pool)
        BY <2>1 DEF Held, Slots, Kinds
      <3>2. call' \in [Hosts -> CallRecords]
        BY <1>1, <2>1 DEF At, CallRecords, PCs, Kinds
      <3>3. QED
        BY <1>1, <1>7, <2>1, <3>1, <3>2, DropType DEF ValidateFail, PoolType
    <2>2. CASE Finish(h) /\ UNCHANGED <<pool, closeEvents, live>>
      BY <1>7, <2>2, FinishType DEF ValidateFail
    <2>3. QED
      BY <1>7, <2>1, <2>2 DEF ValidateFail
  <1>8. CASE UnavailableDone(h)
    BY <1>8, FinishType DEF UnavailableDone, StopIfEmpty
  <1>9. ASSUME call[h].pc = "running"
        PROVE  Count(sess, call[h].sid, -1) \in SessType
    <2>1. call[h].sid \in Sessions
      BY <1>9 DEF CallRecords
    <2>2. QED
      BY <1>1, <2>1, CountType
  <1>10. CASE OpEnd(h)
    BY <1>1, <1>9, <1>10, FinishType DEF OpEnd, SessType
  <1>11. CASE OpStale(h)
    <2>1. [pool EXCEPT ![<<call[h].kind, h>>] = None] \in PoolType
      BY <1>1 DEF PoolType
    <2>2. QED
      BY <1>1, <1>9, <1>11, <2>1, EnsureType DEF OpStale, SessType, PoolType
  <1>12. QED
    BY <1>2, <1>3, <1>4, <1>5, <1>6, <1>7, <1>8, <1>10, <1>11 DEF Reply

\* A step of a sweep, of closeAll, of Termix or of the clock keeps every type.
LEMMA SystemType ==
  ASSUME TypeOK,
         \/ \E w \in Sweepers : SweepStart(w) \/ SweepResume(w)
         \/ CloseAll
         \/ Forget
         \/ Tick
  PROVE  TypeOK'
  <1>1. ASSUME NEW w \in Sweepers, SweepStart(w)
        PROVE  TypeOK'
    <2>1. Snapshot("file") \in SUBSET Sessions
      <3>1. \A h \in Hosts : <<"file", h>> \in Slots
        BY DEF Slots, Kinds
      <3>2. \A h \in Hosts : pool[<<"file", h>>] \in Sessions \cup {None}
        BY <3>1 DEF TypeOK
      <3>3. QED
        BY <3>2 DEF Snapshot
    <2>2. "file" \in Kinds /\ now \in Nat
      BY DEF Kinds, TypeOK
    <2>3. QED
      BY <1>1, <2>1, <2>2, ScanType DEF SweepStart, TypeOK, PoolType
  <1>2. ASSUME NEW w \in Sweepers, SweepResume(w)
        PROVE  TypeOK'
    <2>1. sweep[w] \in SweepRecords
      BY DEF TypeOK
    <2>2. /\ sweep[w].kind \in Kinds
          /\ sweep[w].todo \in SUBSET Sessions
          /\ sweep[w].now \in Nat
      BY <2>1 DEF SweepRecords
    <2>3. QED
      BY <1>2, <2>2, ScanType DEF SweepResume, TypeOK, PoolType, StopIfEmpty
  <1>3. CASE CloseAll
    <2>1. \A s \in Sessions : closeEvents[s] + (IF Pooled(s) THEN 1 ELSE 0) \in Nat
      BY DEF TypeOK
    <2>2. closeEvents' \in [Sessions -> Nat]
      BY <1>3, <2>1 DEF CloseAll
    <2>3. pool' \in [Slots -> Sessions \cup {None}] /\ live' \in SUBSET Sessions
      BY <1>3 DEF CloseAll, TypeOK
    <2>4. QED
      BY <1>3, <2>2, <2>3 DEF CloseAll, TypeOK
  <1>4. CASE Forget
    BY <1>4 DEF Forget, TypeOK
  <1>5. CASE Tick
    BY <1>5 DEF Tick, TypeOK
  <1>6. QED
    BY <1>1, <1>2, <1>3, <1>4, <1>5

\* The manager starts well typed.
LEMMA InitType == Init => TypeOK
  <1> SUFFICES ASSUME Init PROVE TypeOK
    OBVIOUS
  <1>1. NoCall \in CallRecords
    BY DEF NoCall, CallRecords, PCs, Kinds
  <1>2. NoObject \in Objects
    BY DEF NoObject, Objects
  <1>3. NoSweep \in SweepRecords
    BY DEF NoSweep, SweepRecords, Kinds
  <1>4. QED
    BY <1>1, <1>2, <1>3 DEF Init, TypeOK

\* Every step keeps the types.
LEMMA NextType == TypeOK /\ [Next]_vars => TypeOK'
  <1>1. ASSUME TypeOK, UNCHANGED vars
        PROVE  TypeOK'
    BY <1>1 DEF TypeOK, vars
  <1>2. QED
    BY <1>1, CallType, SystemType DEF Next

\* The state of the manager always has the types of TypeOK (sessions.mjs): in
\* particular a call that validates or runs always has a session, and every
\* slot that a teardown empties is a slot.
THEOREM TypeCorrect == Spec => []TypeOK
  BY InitType, NextType, PTL DEF Spec

-------------------------------------------------------------------------------
(*****************************************************************************)
(* The inductive invariant: one lemma per building block of a turn.          *)
(*****************************************************************************)
CallsType == [Hosts -> CallRecords]

\* teardown's synchronous part keeps the invariant of the values it is given.
LEMMA DropInv ==
  ASSUME TypeOK, NEW m, NEW c \in CallsType, NEW p \in PoolType, NEW ss \in SessType,
         PoolInv(c, p, ss, closeEvents, live \ m, sweep), NEW x \in Held(p), Drop(p, x)
  PROVE  PoolInv(c, pool', ss, closeEvents', live' \ m, sweep)
  <1>1. /\ p[x] \in Sessions
        /\ x \in Slots
        /\ \A y \in Slots : pool'[y] = IF y = x THEN None ELSE p[y]
        /\ \A y \in Held(pool') : y \in Held(p) /\ y # x /\ pool'[y] = p[y]
    BY DEF Drop, Held, PoolType
  <1>2. Distinct(pool')
    BY <1>1 DEF PoolInv, Distinct, Held
  <1>3. Placed(pool', ss, sweep)
    BY <1>1 DEF PoolInv, Placed
  <1>4. Owned(c, pool')
    <2> SUFFICES ASSUME NEW h \in Hosts, c[h].pc \in Active
                 PROVE  /\ pool'[<<c[h].kind, h>>] \in {None, c[h].sid}
                        /\ \A y \in Slots : pool'[y] = c[h].sid => y = <<c[h].kind, h>>
                        /\ \A g \in Hosts : c[g].pc \in Active /\ c[g].sid = c[h].sid => g = h
      BY DEF Owned
    <2>1. c[h].sid # None /\ <<c[h].kind, h>> \in Slots
      BY DEF CallsType, CallRecords, Active, Slots
    <2>2. QED
      BY <1>1, <2>1 DEF PoolInv, Owned
  <1>5. Unfilled(c, pool')
    <2>1. \A h \in Hosts : <<c[h].kind, h>> \in Slots
      BY DEF CallsType, CallRecords, Slots
    <2>2. QED
      BY <1>1, <2>1 DEF PoolInv, Unfilled
  <1>6. Tracked(pool', live' \ m)
    BY <1>1 DEF PoolInv, Tracked, Drop
  <1>7. Audited(pool', closeEvents')
    <2>1. \A s \in Sessions : closeEvents'[s] = IF s = p[x] THEN closeEvents[s] + 1
                                                           ELSE closeEvents[s]
      BY <1>1 DEF Drop, TypeOK
    <2>2. closeEvents[p[x]] = 0
      BY DEF PoolInv, Audited
    <2>3. \A y \in Held(pool') : p[y] \in Sessions /\ p[y] # p[x]
      BY <1>1 DEF PoolInv, Distinct, Held, PoolType
    <2>4. QED
      BY <1>1, <2>1, <2>2, <2>3 DEF PoolInv, Audited
  <1>8. QED
    BY <1>2, <1>3, <1>4, <1>5, <1>6, <1>7 DEF PoolInv

\* Writing a call's record keeps the invariant when the call has no session
\* before and after.
LEMMA SetInv ==
  ASSUME TypeOK, NEW c \in CallsType, NEW d \in CallsType, NEW p \in PoolType,
         NEW ss \in SessType, NEW ce, NEW lv, NEW h \in Hosts,
         PoolInv(c, p, ss, ce, lv, sweep),
         c[h].pc \notin Active, d[h].pc \notin Active,
         \A g \in Hosts \ {h} : d[g] = c[g],
         d[h].pc = "connecting" => p[<<d[h].kind, h>>] = None
  PROVE  PoolInv(d, p, ss, ce, lv, sweep)
  <1>1. Owned(d, p)
    BY DEF PoolInv, Owned
  <1>2. Unfilled(d, p)
    BY DEF PoolInv, Unfilled, Active
  <1>3. Counted(d, ss)
    <2>1. \A s \in Sessions :
            (\E g \in Hosts : d[g].pc = "running" /\ d[g].sid = s)
              <=> (\E g \in Hosts : c[g].pc = "running" /\ c[g].sid = s)
      BY DEF Active
    <2>2. QED
      BY <2>1 DEF PoolInv, Counted
  <1>4. QED
    BY <1>1, <1>2, <1>3 DEF PoolInv

\* Starting an operation keeps the invariant when no other call uses the
\* session and no other slot holds it.
LEMMA RunInv ==
  ASSUME TypeOK, NEW c \in CallsType, NEW p \in PoolType, NEW ss \in SessType,
         NEW ce, NEW lv, NEW h \in Hosts, NEW k \in Kinds, NEW r \in BOOLEAN,
         NEW s \in Sessions, NEW t \in BOOLEAN,
         PoolInv(c, p, ss, ce, lv, sweep),
         c[h].pc \notin Active, \A g \in Hosts \ {h} : call[g] = c[g],
         p[<<k, h>>] \in {None, s},
         \A x \in Slots : p[x] = s => x = <<k, h>>,
         \A g \in Hosts : c[g].pc \in Active => c[g].sid # s,
         Run(h, k, r, s, p, ss, t)
  PROVE  PoolInv(call', p, sess', ce, lv, sweep)
  <1> DEFINE rec == [pc |-> "running", kind |-> k, sid |-> s, retried |-> r]
  <1>1. call'[h] = rec /\ \A g \in Hosts \ {h} : call'[g] = c[g]
    BY DEF Run, At, TypeOK
  <1>2. /\ sess'[s].inFlight = ss[s].inFlight + 1
        /\ \A q \in Sessions : sess'[q].host = ss[q].host
        /\ \A q \in Sessions \ {s} : sess'[q].inFlight = ss[q].inFlight
    BY DEF Run, Count, SessType
  <1>3. Placed(p, sess', sweep)
    <2>1. \A x \in Held(p) : p[x] \in Sessions
      BY DEF Held, PoolType
    <2>2. \A w \in Sweepers : sweep[w].todo \subseteq Sessions
      BY DEF TypeOK, SweepRecords
    <2>3. QED
      BY <1>2, <2>1, <2>2 DEF PoolInv, Placed
  <1>4. Owned(call', p)
    <2> SUFFICES ASSUME NEW g \in Hosts, call'[g].pc \in Active
                 PROVE  /\ p[<<call'[g].kind, g>>] \in {None, call'[g].sid}
                        /\ \A x \in Slots : p[x] = call'[g].sid => x = <<call'[g].kind, g>>
                        /\ \A f \in Hosts :
                             call'[f].pc \in Active /\ call'[f].sid = call'[g].sid => f = g
      BY DEF Owned
    <2>1. CASE g = h
      BY <1>1, <2>1
    <2>2. CASE g # h
      <3>1. call'[g] = c[g] /\ c[g].pc \in Active
        BY <1>1, <2>2
      <3>2. ASSUME NEW f \in Hosts, call'[f].pc \in Active, call'[f].sid = call'[g].sid
            PROVE  f = g
        <4>1. f # h
          BY <1>1, <3>1, <3>2
        <4>2. QED
          BY <1>1, <3>1, <3>2, <4>1 DEF PoolInv, Owned
      <3>3. QED
        BY <3>1, <3>2 DEF PoolInv, Owned
    <2>3. QED
      BY <2>1, <2>2
  <1>5. Unfilled(call', p)
    <2> SUFFICES ASSUME NEW g \in Hosts
                 PROVE  /\ call'[g].pc = "connecting" => p[<<call'[g].kind, g>>] = None
                        /\ call'[g].pc = "validating" => call'[g].kind = "docker"
      BY DEF Unfilled
    <2>1. CASE g = h
      BY <1>1, <2>1
    <2>2. CASE g # h
      BY <1>1, <2>2 DEF PoolInv, Unfilled
    <2>3. QED
      BY <2>1, <2>2
  <1>6. Counted(call', sess')
    <2> SUFFICES ASSUME NEW q \in Sessions
                 PROVE  sess'[q].inFlight =
                          IF \E g \in Hosts : call'[g].pc = "running" /\ call'[g].sid = q
                          THEN 1 ELSE 0
      BY DEF Counted
    <2>1. CASE q = s
      <3>1. ~ \E g \in Hosts : c[g].pc = "running" /\ c[g].sid = s
        BY DEF Active
      <3>2. ss[s].inFlight = 0
        BY <3>1 DEF PoolInv, Counted
      <3>3. QED
        BY <1>1, <1>2, <2>1, <3>2
    <2>2. CASE q # s
      <3>1. (\E g \in Hosts : call'[g].pc = "running" /\ call'[g].sid = q)
              <=> (\E g \in Hosts : c[g].pc = "running" /\ c[g].sid = q)
        BY <1>1, <2>2 DEF Active
      <3>2. QED
        BY <1>2, <2>2, <3>1 DEF PoolInv, Counted
    <2>3. QED
      BY <2>1, <2>2
  <1>7. QED
    BY <1>3, <1>4, <1>5, <1>6 DEF PoolInv

\* ensure from its lookup on keeps the invariant, and the watch of the timers
\* over the pool.
LEMMA ObtainInv ==
  ASSUME TypeOK, NEW c \in CallsType, NEW p \in PoolType, NEW ss \in SessType,
         NEW ce, NEW lv, NEW h \in Hosts, NEW k \in Kinds, NEW r \in BOOLEAN,
         NEW t \in BOOLEAN,
         PoolInv(c, p, ss, ce, lv, sweep), Watched(c, p, t),
         c[h].pc \notin Active, \A g \in Hosts \ {h} : call[g] = c[g],
         Obtain(h, k, r, p, ss, t)
  PROVE  /\ PoolInv(call', pool', sess', ce, lv, sweep)
         /\ Watched(call', pool', timers')
  <1>1. <<k, h>> \in Slots
    BY DEF Slots
  <1>2. CASE p[<<k, h>>] # None /\ Run(h, k, r, p[<<k, h>>], p, ss, t)
    <2> DEFINE s == p[<<k, h>>]
    <2>1. s \in Sessions /\ <<k, h>> \in Held(p)
      BY <1>1, <1>2 DEF PoolType, Held
    <2>2. \A x \in Slots : p[x] = s => x = <<k, h>>
      BY <2>1 DEF PoolInv, Distinct
    <2>3. ASSUME NEW g \in Hosts, c[g].pc \in Active, c[g].sid = s
          PROVE  FALSE
      <3>1. <<k, h>> = <<c[g].kind, g>>
        BY <1>1, <2>3 DEF PoolInv, Owned
      <3>2. QED
        BY <2>3, <3>1
    <2>4. pool' = p /\ timers' = (t \/ ~ closed)
      BY <1>2 DEF Run
    <2>5. PoolInv(call', p, sess', ce, lv, sweep)
      BY <1>2, <2>1, <2>2, <2>3, RunInv
    <2>6. Watched(call', pool', timers')
      BY <2>4 DEF Watched
    <2>7. QED
      BY <2>4, <2>5, <2>6
  <1>3. CASE /\ p[<<k, h>>] = None
             /\ At(h, "connecting", k, None, r)
             /\ pool' = p /\ sess' = ss /\ timers' = t
    <2>1. /\ call'[h] = [pc |-> "connecting", kind |-> k, sid |-> None, retried |-> r]
          /\ \A g \in Hosts \ {h} : call'[g] = c[g]
      BY <1>3 DEF At, TypeOK
    <2>2. call' \in CallsType
      BY <1>3, AtType DEF PCs, CallsType
    <2>3. PoolInv(call', p, ss, ce, lv, sweep)
      BY <1>3, <2>1, <2>2, SetInv DEF Active
    <2>4. Watched(call', p, t)
      BY <2>1 DEF Watched, Active
    <2>5. QED
      BY <1>3, <2>3, <2>4
  <1>4. QED
    BY <1>2, <1>3 DEF Obtain

\* The whole of ensure keeps the invariant, whatever it evicts.
LEMMA EnsureInv ==
  ASSUME TypeOK, NEW m, NEW c \in CallsType, NEW p \in PoolType, NEW ss \in SessType,
         NEW h \in Hosts, NEW k \in Kinds, NEW r \in BOOLEAN,
         PoolInv(c, p, ss, closeEvents, live \ m, sweep), Watched(c, p, timers),
         c[h].pc \notin Active, \A g \in Hosts \ {h} : call[g] = c[g],
         Ensure(h, k, r, p, ss)
  PROVE  /\ PoolInv(call', pool', sess', closeEvents', live' \ m, sweep)
         /\ Watched(call', pool', timers')
  <1>1. CASE /\ \E x \in Oldest(p, ss) : Drop(p, x)
             /\ At(h, "evicting", k, None, r)
             /\ sess' = ss
             /\ UNCHANGED timers
    <2>1. PICK x \in Held(p) : Drop(p, x)
      BY <1>1 DEF Oldest, Evictable
    <2>2. PoolInv(c, pool', ss, closeEvents', live' \ m, sweep)
      BY <2>1, DropInv
    <2>3. /\ call'[h] = [pc |-> "evicting", kind |-> k, sid |-> None, retried |-> r]
          /\ \A g \in Hosts \ {h} : call'[g] = c[g]
      BY <1>1 DEF At, TypeOK
    <2>4. call' \in CallsType
      BY <1>1, AtType DEF PCs, CallsType
    <2>5. pool' \in PoolType
      BY <2>1, DropType
    <2>6. PoolInv(call', pool', ss, closeEvents', live' \ m, sweep)
      <3>1. call'[h].pc \notin Active /\ call'[h].pc # "connecting"
        BY <2>3 DEF Active
      <3>2. \A g \in Hosts \ {h} : call'[g] = c[g]
        BY <2>3
      <3>3. QED
        BY <2>2, <2>4, <2>5, <3>1, <3>2, SetInv
    <2>7. \A y \in Held(pool') : y \in Held(p) /\ pool'[y] = p[y]
      BY <2>1 DEF Drop, Held, PoolType
    <2>8. Watched(call', pool', timers')
      BY <1>1, <2>3, <2>7 DEF Watched, Active
    <2>9. QED
      BY <1>1, <2>6, <2>8
  <1>2. CASE Obtain(h, k, r, p, ss, timers) /\ UNCHANGED <<closeEvents, live>>
    <2>1. timers \in BOOLEAN
      BY DEF TypeOK
    <2>2. QED
      BY <1>2, <2>1, ObtainInv
  <1>3. QED
    BY <1>1, <1>2 DEF Ensure

\* The calls with h taken out: what a turn of h starts from once its session
\* is let go.
Without(h) == [call EXCEPT ![h] = NoCall]

\* Ending an operation, with its session taken out of its slot or left there,
\* keeps the invariant.
LEMMA ReleaseInv ==
  ASSUME TypeOK, NEW lv, NEW h \in Hosts, call[h].pc = "running",
         PoolInv(call, pool, sess, closeEvents, lv, sweep)
  PROVE  PoolInv(Without(h), pool, Count(sess, call[h].sid, -1), closeEvents, lv, sweep)
  <1> DEFINE c == Without(h)
             s == call[h].sid
             ss == Count(sess, s, -1)
  <1>1. s \in Sessions
    BY DEF TypeOK, CallRecords
  <1>2. c[h].pc = "idle" /\ \A g \in Hosts \ {h} : c[g] = call[g]
    BY DEF Without, NoCall, TypeOK
  <1>3. /\ ss[s].inFlight = sess[s].inFlight - 1
        /\ \A q \in Sessions : ss[q].host = sess[q].host
        /\ \A q \in Sessions \ {s} : ss[q].inFlight = sess[q].inFlight
    BY <1>1 DEF Count, TypeOK
  <1> HIDE DEF c, s, ss
  <1>4. Placed(pool, ss, sweep)
    <2>1. \A x \in Held(pool) : pool[x] \in Sessions
      BY DEF Held, TypeOK
    <2>2. \A w \in Sweepers : sweep[w].todo \subseteq Sessions
      BY DEF TypeOK, SweepRecords
    <2>3. QED
      BY <1>3, <2>1, <2>2 DEF PoolInv, Placed
  <1>5. Owned(c, pool)
    BY <1>2 DEF PoolInv, Owned, Active
  <1>6. Unfilled(c, pool)
    BY <1>2 DEF PoolInv, Unfilled
  <1>7. Counted(c, ss)
    <2> SUFFICES ASSUME NEW q \in Sessions
                 PROVE  ss[q].inFlight =
                          IF \E g \in Hosts : c[g].pc = "running" /\ c[g].sid = q
                          THEN 1 ELSE 0
      BY DEF Counted
    <2>1. CASE q = s
      <3>1. sess[s].inFlight = 1
        BY <1>1 DEF PoolInv, Counted, s
      <3>2. ~ \E g \in Hosts : c[g].pc = "running" /\ c[g].sid = s
        BY <1>2 DEF PoolInv, Owned, Active, s
      <3>3. QED
        BY <1>3, <2>1, <3>1, <3>2
    <2>2. CASE q # s
      <3>1. (\E g \in Hosts : c[g].pc = "running" /\ c[g].sid = q)
              <=> (\E g \in Hosts : call[g].pc = "running" /\ call[g].sid = q)
        BY <1>2, <2>2 DEF s
      <3>2. QED
        BY <1>3, <2>2, <3>1 DEF PoolInv, Counted
    <2>3. QED
      BY <2>1, <2>2
  <1>8. PoolInv(c, pool, ss, closeEvents, lv, sweep)
    BY <1>4, <1>5, <1>6, <1>7 DEF PoolInv
  <1>9. QED
    BY <1>8 DEF c, s, ss

\* Taking a call that runs no operation out of the picture keeps the invariant.
LEMMA WithoutInv ==
  ASSUME TypeOK, NEW lv, NEW h \in Hosts, call[h].pc # "running",
         PoolInv(call, pool, sess, closeEvents, lv, sweep)
  PROVE  PoolInv(Without(h), pool, sess, closeEvents, lv, sweep)
  <1> DEFINE c == Without(h)
  <1>1. c[h].pc = "idle" /\ \A g \in Hosts \ {h} : c[g] = call[g]
    BY DEF Without, NoCall, TypeOK
  <1> HIDE DEF c
  <1>2. Owned(c, pool)
    BY <1>1 DEF PoolInv, Owned, Active
  <1>3. Unfilled(c, pool)
    BY <1>1 DEF PoolInv, Unfilled
  <1>4. Counted(c, sess)
    <2>1. \A s \in Sessions :
            (\E g \in Hosts : c[g].pc = "running" /\ c[g].sid = s)
              <=> (\E g \in Hosts : call[g].pc = "running" /\ call[g].sid = s)
      BY <1>1
    <2>2. QED
      BY <2>1 DEF PoolInv, Counted
  <1>5. PoolInv(c, pool, sess, closeEvents, lv, sweep)
    BY <1>2, <1>3, <1>4 DEF PoolInv
  <1>6. QED
    BY <1>5 DEF c

\* The calls without h are still calls.
LEMMA WithoutType ==
  ASSUME TypeOK, NEW h \in Hosts
  PROVE  /\ Without(h) \in CallsType
         /\ Without(h)[h] = NoCall
         /\ \A g \in Hosts \ {h} : Without(h)[g] = call[g]
  <1>1. NoCall \in CallRecords
    BY DEF NoCall, CallRecords, PCs, Kinds
  <1>2. QED
    BY <1>1 DEF Without, CallsType, TypeOK

\* Dropping a session without a disconnect, as stale, keeps the invariant when
\* it is gone or counted among the mistaken ones.
LEMMA StaleInv ==
  ASSUME TypeOK, NEW h \in Hosts, call[h].pc = "running",
         NEW m, mistaken \subseteq m, call[h].sid \notin live \ m,
         PoolInv(call, pool, sess, closeEvents, live \ mistaken, sweep),
         Watched(call, pool, timers),
         NEW p, p = [pool EXCEPT ![<<call[h].kind, h>>] = None],
         NEW ss, ss = Count(sess, call[h].sid, -1)
  PROVE  /\ PoolInv(Without(h), p, ss, closeEvents, live \ m, sweep)
         /\ Watched(Without(h), p, timers)
  <1> DEFINE c == Without(h)
             z == <<call[h].kind, h>>
  <1>1. PoolInv(c, pool, ss, closeEvents, live \ mistaken, sweep)
    BY ReleaseInv
  <1>2. c \in CallsType /\ c[h].pc = "idle" /\ \A g \in Hosts \ {h} : c[g] = call[g]
    BY WithoutType DEF NoCall
  <1>3. z \in Slots /\ pool[z] \in {None, call[h].sid}
    BY DEF PoolInv, Owned, Active, TypeOK, CallRecords, Slots
  <1> HIDE DEF c, z
  <1>4. /\ p[z] = None
        /\ \A x \in Slots \ {z} : p[x] = pool[x]
        /\ \A x \in Held(p) : x \in Held(pool) /\ x # z /\ p[x] = pool[x]
    BY <1>3 DEF Held, TypeOK, z
  <1>5. Distinct(p)
    BY <1>1, <1>4 DEF PoolInv, Distinct, Held
  <1>6. Placed(p, ss, sweep)
    BY <1>1, <1>4 DEF PoolInv, Placed
  <1>7. Owned(c, p)
    <2> SUFFICES ASSUME NEW g \in Hosts, c[g].pc \in Active
                 PROVE  /\ p[<<c[g].kind, g>>] \in {None, c[g].sid}
                        /\ \A y \in Slots : p[y] = c[g].sid => y = <<c[g].kind, g>>
                        /\ \A f \in Hosts : c[f].pc \in Active /\ c[f].sid = c[g].sid => f = g
      BY DEF Owned
    <2>1. c[g].sid # None /\ <<c[g].kind, g>> \in Slots
      BY <1>2 DEF CallsType, CallRecords, Active, Slots
    <2>2. QED
      BY <1>1, <1>4, <2>1 DEF PoolInv, Owned
  <1>8. Unfilled(c, p)
    <2>1. \A g \in Hosts : <<c[g].kind, g>> \in Slots
      BY <1>2 DEF CallsType, CallRecords, Slots
    <2>2. QED
      BY <1>1, <1>4, <2>1 DEF PoolInv, Unfilled
  <1>9. Tracked(p, live \ m)
    BY <1>1, <1>3, <1>4 DEF PoolInv, Tracked, TypeOK
  <1>10. Audited(p, closeEvents)
    BY <1>1, <1>4 DEF PoolInv, Audited
  <1>11. PoolInv(c, p, ss, closeEvents, live \ m, sweep)
    BY <1>1, <1>5, <1>6, <1>7, <1>8, <1>9, <1>10 DEF PoolInv
  <1>12. Watched(c, p, timers)
    BY <1>2, <1>4 DEF Watched
  <1>13. QED
    BY <1>11, <1>12 DEF c

\* Termix opens a session: the pool with the new session in it satisfies the
\* invariant before the call goes on.
LEMMA OpenedInv ==
  ASSUME TypeOK, NEW h \in Hosts, call[h].pc = "connecting",
         PoolInv(call, pool, sess, closeEvents, live \ mistaken, sweep),
         Watched(call, pool, timers),
         NEW s \in Sessions, Fresh(s),
         NEW p, p = [pool EXCEPT ![<<call[h].kind, h>>] = s],
         NEW ss, ss = [sess EXCEPT ![s] = [host |-> h, inFlight |-> 0, lastActive |-> now]],
         NEW ce, ce = [closeEvents EXCEPT ![s] = 0]
  PROVE  PoolInv(Without(h), p, ss, ce, (live \cup {s}) \ (mistaken \ {s}), sweep)
  <1> DEFINE c == Without(h)
             z == <<call[h].kind, h>>
  <1>1. PoolInv(c, pool, sess, closeEvents, live \ mistaken, sweep)
    BY WithoutInv
  <1>2. c \in CallsType /\ c[h].pc = "idle" /\ \A g \in Hosts \ {h} : c[g] = call[g]
    BY WithoutType DEF NoCall
  <1>3. z \in Slots /\ pool[z] = None /\ s # None
    BY NoneAssumption DEF PoolInv, Unfilled, TypeOK, CallRecords, Slots
  <1>4. /\ \A x \in Slots : pool[x] # s
        /\ \A g \in Hosts : c[g].pc \in Active => c[g].sid # s
        /\ \A w \in Sweepers : s \notin sweep[w].todo
    BY <1>2 DEF Fresh, Pooled, Active
  <1> HIDE DEF c, z
  <1>5. /\ p[z] = s
        /\ \A x \in Slots \ {z} : p[x] = pool[x]
        /\ \A x \in Held(p) : x = z \/ (x \in Held(pool) /\ p[x] = pool[x])
    BY <1>3 DEF Held, TypeOK, z
  <1>6. /\ ss[s].host = h /\ ss[s].inFlight = 0
        /\ \A q \in Sessions \ {s} : ss[q] = sess[q]
    BY DEF TypeOK
  <1>7. Distinct(p)
    BY <1>1, <1>3, <1>4, <1>5 DEF PoolInv, Distinct, Held
  <1>8. Placed(p, ss, sweep)
    <2>1. \A x \in Held(pool) : pool[x] \in Sessions \ {s}
      BY <1>4 DEF Held, TypeOK
    <2>2. \A w \in Sweepers : sweep[w].todo \subseteq Sessions \ {s}
      BY <1>4 DEF TypeOK, SweepRecords
    <2>3. \A x \in Held(p) : ss[p[x]].host \in Hosts
      <3> SUFFICES ASSUME NEW x \in Held(p) PROVE ss[p[x]].host \in Hosts
        OBVIOUS
      <3>1. CASE x = z
        BY <1>5, <1>6, <3>1
      <3>2. CASE x \in Held(pool) /\ p[x] = pool[x]
        <4>1. ss[p[x]] = sess[pool[x]]
          BY <1>6, <2>1, <3>2
        <4>2. QED
          BY <1>1, <3>2, <4>1 DEF PoolInv, Placed
      <3>3. QED
        BY <1>5, <3>1, <3>2
    <2>4. \A w \in Sweepers : \A q \in sweep[w].todo : ss[q].host \in Hosts
      BY <1>1, <1>6, <2>2 DEF PoolInv, Placed
    <2>5. QED
      BY <2>3, <2>4 DEF Placed
  <1>9. Owned(c, p)
    <2> SUFFICES ASSUME NEW g \in Hosts, c[g].pc \in Active
                 PROVE  /\ p[<<c[g].kind, g>>] \in {None, c[g].sid}
                        /\ \A y \in Slots : p[y] = c[g].sid => y = <<c[g].kind, g>>
                        /\ \A f \in Hosts : c[f].pc \in Active /\ c[f].sid = c[g].sid => f = g
      BY DEF Owned
    <2>1. g # h
      BY <1>2 DEF Active
    <2>2. <<c[g].kind, g>> \in Slots \ {z}
      BY <1>2, <2>1 DEF CallsType, CallRecords, Slots, z
    <2>3. QED
      BY <1>1, <1>4, <1>5, <2>2 DEF PoolInv, Owned
  <1>10. Unfilled(c, p)
    <2> SUFFICES ASSUME NEW g \in Hosts
                 PROVE  /\ c[g].pc = "connecting" => p[<<c[g].kind, g>>] = None
                        /\ c[g].pc = "validating" => c[g].kind = "docker"
      BY DEF Unfilled
    <2>1. CASE g = h
      BY <1>2, <2>1
    <2>2. CASE g # h
      <3>1. <<c[g].kind, g>> \in Slots \ {z}
        BY <1>2, <2>2 DEF CallsType, CallRecords, Slots, z
      <3>2. QED
        BY <1>1, <1>5, <3>1 DEF PoolInv, Unfilled
    <2>3. QED
      BY <2>1, <2>2
  <1>11. Counted(c, ss)
    BY <1>1, <1>4, <1>6 DEF PoolInv, Counted, Active
  <1>12. Tracked(p, (live \cup {s}) \ (mistaken \ {s}))
    BY <1>1, <1>3, <1>5, NoneAssumption DEF PoolInv, Tracked, TypeOK
  <1>13. Audited(p, ce)
    <2>1. ce[s] = 0 /\ \A q \in Sessions \ {s} : ce[q] = closeEvents[q]
      BY DEF TypeOK
    <2>2. \A x \in Held(pool) : pool[x] \in Sessions \ {s}
      BY <1>4 DEF Held, TypeOK
    <2>3. \A q \in Sessions : ce[q] <= 1
      BY <1>1, <2>1 DEF PoolInv, Audited
    <2>4. \A x \in Held(p) : ce[p[x]] = 0
      <3> SUFFICES ASSUME NEW x \in Held(p) PROVE ce[p[x]] = 0
        OBVIOUS
      <3>1. CASE x = z
        BY <1>5, <2>1, <3>1
      <3>2. CASE x \in Held(pool) /\ p[x] = pool[x]
        BY <1>1, <2>1, <2>2, <3>2 DEF PoolInv, Audited
      <3>3. QED
        BY <1>5, <3>1, <3>2
    <2>5. QED
      BY <2>3, <2>4 DEF Audited
  <1>14. PoolInv(c, p, ss, ce, (live \cup {s}) \ (mistaken \ {s}), sweep)
    BY <1>7, <1>8, <1>9, <1>10, <1>11, <1>12, <1>13 DEF PoolInv
  <1>15. QED
    BY <1>14 DEF c

\* A step of a call keeps the invariant.
LEMMA CallInv ==
  ASSUME IInv, NEW h \in Hosts, Call(h) \/ Reply(h)
  PROVE  IInv'
  <1> DEFINE c == Without(h)
             k == call[h].kind
             r == call[h].retried
             Goal(m) == /\ PoolInv(call', pool', sess', closeEvents', live' \ m, sweep)
                        /\ Watched(call', pool', timers')
  <1>1. TypeOK /\ PoolInv(call, pool, sess, closeEvents, live \ mistaken, sweep)
               /\ Watched(call, pool, timers)
    BY DEF IInv
  <1>2. /\ call \in CallsType /\ pool \in PoolType /\ sess \in SessType
        /\ k \in Kinds /\ r \in BOOLEAN /\ timers \in BOOLEAN
        /\ closeEvents \in [Sessions -> Nat] /\ live \in SUBSET Sessions
    BY <1>1 DEF TypeOK, CallsType, PoolType, SessType, CallRecords
  <1>3. c \in CallsType /\ c[h] = NoCall /\ \A g \in Hosts \ {h} : call[g] = c[g]
    BY <1>1, WithoutType
  <1>4. c[h].pc \notin Active
    BY <1>3 DEF NoCall, Active
  <1>5. call[h].pc # "running" => PoolInv(c, pool, sess, closeEvents, live \ mistaken, sweep)
    BY <1>1, WithoutInv
  <1>6. ASSUME Finish(h)
        PROVE  call' = c
    BY <1>6 DEF Finish, Without
  <1>7. TypeOK'
    BY <1>1, CallType
  <1> HIDE DEF c, k, r
  <1>8. CASE Call(h)
    <2>1. PICK q \in CallKinds : Ensure(h, q, FALSE, pool, sess)
      BY <1>8 DEF Call
    <2>2. q \in Kinds /\ call[h].pc \notin Active
      BY <1>8, KindsAssumption DEF Call, Active
    <2>3. Goal(mistaken)
      BY <1>1, <1>2, <2>1, <2>2, EnsureInv
    <2>4. QED
      BY <1>7, <1>8, <2>3 DEF Call, IInv, Watched
  <1>9. CASE EvictDone(h)
    <2>1. Obtain(h, k, r, pool, sess, StopIfEmpty) /\ call[h].pc \notin Active
      BY <1>9 DEF EvictDone, Active, k, r
    <2>2. StopIfEmpty \in BOOLEAN
      BY DEF StopIfEmpty
    <2>3. Watched(call, pool, StopIfEmpty)
      BY <1>1 DEF Watched, StopIfEmpty
    <2>4. Goal(mistaken)
      BY <1>1, <1>2, <1>9, <2>1, <2>2, <2>3, ObtainInv DEF EvictDone
    <2>5. QED
      BY <1>7, <1>9, <2>4 DEF EvictDone, IInv, Watched
  <1>10. CASE ConnectOk(h)
    <2> DEFINE p(s) == [pool EXCEPT ![<<k, h>>] = s]
               ss(s) == [sess EXCEPT ![s] = [host |-> h, inFlight |-> 0, lastActive |-> now]]
    <2>1. PICK s \in Sessions :
            /\ Fresh(s)
            /\ \/ Run(h, k, r, s, p(s), ss(s), timers)
               \/ /\ k = "docker"
                  /\ At(h, "validating", k, s, r)
                  /\ pool' = p(s)
                  /\ sess' = ss(s)
                  /\ UNCHANGED timers
            /\ closeEvents' = [closeEvents EXCEPT ![s] = 0]
            /\ live' = live \cup {s}
            /\ mistaken' = mistaken \ {s}
            /\ UNCHANGED <<closed, sweep, now>>
      BY <1>10 DEF ConnectOk, k, r
    <2>2. call[h].pc = "connecting"
      BY <1>10 DEF ConnectOk
    <2>3. PoolInv(c, p(s), ss(s), closeEvents', live' \ mistaken', sweep)
      BY <1>1, <2>1, <2>2, OpenedInv DEF c, k
    <2>4. /\ p(s) \in PoolType
          /\ <<k, h>> \in Slots
          /\ p(s)[<<k, h>>] = s
          /\ \A x \in Slots : p(s)[x] = s => x = <<k, h>>
          /\ \A x \in Held(p(s)) : x = <<k, h>> \/ (x \in Held(pool) /\ p(s)[x] = pool[x])
      BY <1>2, <2>1 DEF PoolType, Slots, Fresh, Pooled, Held
    <2>5. ss(s) \in SessType
      <3>1. [host |-> h, inFlight |-> 0, lastActive |-> now] \in Objects
        BY <1>1 DEF Objects, TypeOK
      <3>2. QED
        BY <1>2, <3>1 DEF SessType
    <2>6. \A g \in Hosts : c[g].pc \in Active => c[g].sid # s
      BY <1>3, <1>4, <2>1 DEF Fresh
    <2> HIDE DEF p, ss
    <2>7. CASE Run(h, k, r, s, p(s), ss(s), timers)
      <3>1. PoolInv(call', p(s), sess', closeEvents', live' \ mistaken', sweep)
        BY <1>1, <1>2, <1>3, <1>4, <2>3, <2>4, <2>5, <2>6, <2>7, RunInv
      <3>2. pool' = p(s) /\ timers' = (timers \/ ~ closed)
        BY <2>7 DEF Run
      <3>3. QED
        BY <1>7, <2>1, <3>1, <3>2 DEF IInv, Watched
    <2>8. CASE /\ k = "docker"
               /\ At(h, "validating", k, s, r)
               /\ pool' = p(s)
               /\ sess' = ss(s)
               /\ UNCHANGED timers
      <3> DEFINE rec == [pc |-> "validating", kind |-> k, sid |-> s, retried |-> r]
      <3>1. call'[h] = rec /\ \A g \in Hosts \ {h} : call'[g] = c[g]
        BY <1>1, <1>3, <2>8 DEF At, TypeOK
      <3>2. Owned(call', p(s))
        <4> SUFFICES ASSUME NEW g \in Hosts, call'[g].pc \in Active
                     PROVE  /\ p(s)[<<call'[g].kind, g>>] \in {None, call'[g].sid}
                            /\ \A x \in Slots : p(s)[x] = call'[g].sid => x = <<call'[g].kind, g>>
                            /\ \A f \in Hosts :
                                 call'[f].pc \in Active /\ call'[f].sid = call'[g].sid => f = g
          BY DEF Owned
        <4>1. CASE g = h
          <5>1. \A f \in Hosts :
                  call'[f].pc \in Active /\ call'[f].sid = call'[g].sid => f = g
            BY <2>6, <3>1, <4>1
          <5>2. QED
            BY <2>4, <3>1, <4>1, <5>1
        <4>2. CASE g # h
          <5>1. call'[g] = c[g] /\ c[g].pc \in Active
            BY <3>1, <4>2
          <5>2. ASSUME NEW f \in Hosts, call'[f].pc \in Active, call'[f].sid = call'[g].sid
                PROVE  f = g
            <6>1. f # h
              BY <2>6, <3>1, <5>1, <5>2
            <6>2. QED
              BY <2>3, <3>1, <5>1, <5>2, <6>1 DEF PoolInv, Owned
          <5>3. QED
            BY <2>3, <5>1, <5>2 DEF PoolInv, Owned
        <4>3. QED
          BY <4>1, <4>2
      <3>3. Unfilled(call', p(s))
        <4> SUFFICES ASSUME NEW g \in Hosts
                     PROVE  /\ call'[g].pc = "connecting" => p(s)[<<call'[g].kind, g>>] = None
                            /\ call'[g].pc = "validating" => call'[g].kind = "docker"
          BY DEF Unfilled
        <4>1. CASE g = h
          BY <2>8, <3>1, <4>1
        <4>2. CASE g # h
          BY <2>3, <3>1, <4>2 DEF PoolInv, Unfilled
        <4>3. QED
          BY <4>1, <4>2
      <3>4. Counted(call', ss(s))
        <4>1. \A q \in Sessions :
                (\E g \in Hosts : call'[g].pc = "running" /\ call'[g].sid = q)
                  <=> (\E g \in Hosts : c[g].pc = "running" /\ c[g].sid = q)
          BY <1>4, <3>1 DEF Active
        <4>2. QED
          BY <2>3, <4>1 DEF PoolInv, Counted
      <3>5. PoolInv(call', p(s), ss(s), closeEvents', live' \ mistaken', sweep)
        BY <2>3, <3>2, <3>3, <3>4 DEF PoolInv
      <3>6. Watched(call', p(s), timers)
        <4> SUFFICES ASSUME NEW x \in Held(p(s))
                     PROVE  \/ timers \/ closed
                            \/ \E g \in Hosts : call'[g].pc = "validating" /\ call'[g].sid = p(s)[x]
          BY DEF Watched
        <4>1. CASE x = <<k, h>>
          BY <2>4, <3>1, <4>1
        <4>2. CASE x \in Held(pool) /\ p(s)[x] = pool[x]
          <5>1. \A g \in Hosts : call[g].pc = "validating" => call'[g] = call[g]
            BY <1>3, <2>2, <3>1
          <5>2. QED
            BY <1>1, <4>2, <5>1 DEF Watched
        <4>3. QED
          BY <2>4, <4>1, <4>2
      <3>7. QED
        BY <1>7, <2>1, <2>8, <3>5, <3>6 DEF IInv, Watched
    <2>9. QED
      BY <2>1, <2>7, <2>8
  <1>11. CASE ConnectFail(h)
    <2>1. \A g \in Hosts : call[g].pc = "validating" => call'[g] = call[g]
      BY <1>3, <1>6, <1>11 DEF ConnectFail
    <2>2. Watched(call', pool, timers)
      BY <1>1, <2>1 DEF Watched
    <2>3. QED
      BY <1>5, <1>6, <1>7, <1>11, <2>2 DEF ConnectFail, IInv, Watched
  <1>12. CASE ValidateOk(h)
    <2>1. call[h].pc = "validating" /\ Run(h, k, r, call[h].sid, pool, sess, timers)
      BY <1>12 DEF ValidateOk, k, r
    <2>2. call[h].sid \in Sessions
      BY <1>1, <2>1 DEF TypeOK, CallRecords
    <2>3. /\ pool[<<k, h>>] \in {None, call[h].sid}
          /\ \A x \in Slots : pool[x] = call[h].sid => x = <<k, h>>
          /\ \A g \in Hosts : c[g].pc \in Active => c[g].sid # call[h].sid
      BY <1>1, <1>3, <1>4, <2>1 DEF PoolInv, Owned, Active, k
    <2>4. PoolInv(call', pool, sess', closeEvents, live \ mistaken, sweep)
      BY <1>1, <1>2, <1>3, <1>4, <1>5, <2>1, <2>2, <2>3, RunInv
    <2>5. pool' = pool /\ timers' = (timers \/ ~ closed)
      BY <2>1 DEF Run
    <2>6. QED
      BY <1>7, <1>12, <2>4, <2>5 DEF ValidateOk, IInv, Watched
  <1>13. CASE ValidateFail(h)
    <2>1. call[h].pc = "validating" /\ k = "docker"
      BY <1>1, <1>13 DEF ValidateFail, PoolInv, Unfilled, k
    <2>2. \A x \in Slots : pool[x] = call[h].sid => x = <<"docker", h>>
      BY <1>1, <2>1 DEF PoolInv, Owned, Active, k
    <2>3. PoolInv(c, pool, sess, closeEvents, live \ mistaken, sweep)
      BY <1>5, <2>1
    <2>4. CASE /\ pool[<<"docker", h>>] # None
               /\ Drop(pool, <<"docker", h>>)
               /\ At(h, "unavailable", "docker", None, r)
      <3>1. <<"docker", h>> \in Held(pool)
        BY <2>4 DEF Held, Slots, Kinds
      <3>2. PoolInv(c, pool', sess, closeEvents', live' \ mistaken, sweep)
        BY <1>1, <1>2, <1>3, <2>3, <2>4, <3>1, DropInv
      <3>3. /\ call'[h] = [pc |-> "unavailable", kind |-> "docker", sid |-> None, retried |-> r]
            /\ \A g \in Hosts \ {h} : call'[g] = c[g]
        BY <1>1, <1>3, <2>4 DEF At, TypeOK
      <3>4. call' \in CallsType /\ pool' \in PoolType
        BY <1>7 DEF TypeOK, CallsType, PoolType
      <3>5. call'[h].pc \notin Active /\ call'[h].pc # "connecting"
        BY <3>3 DEF Active
      <3>6. PoolInv(call', pool', sess, closeEvents', live' \ mistaken, sweep)
        BY <1>1, <1>2, <1>3, <1>4, <3>2, <3>3, <3>4, <3>5, SetInv
      <3>7. \A x \in Held(pool') :
              x \in Held(pool) /\ pool'[x] = pool[x] /\ pool[x] # call[h].sid
        BY <1>2, <2>2, <2>4 DEF Drop, Held, PoolType
      <3>8. Watched(call', pool', timers)
        BY <1>1, <1>3, <3>3, <3>7 DEF Watched
      <3>9. QED
        BY <1>7, <1>13, <3>6, <3>8 DEF ValidateFail, IInv, Watched
    <2>5. CASE /\ pool[<<"docker", h>>] = None
               /\ Finish(h)
               /\ UNCHANGED <<pool, closeEvents, live>>
      <3>1. \A x \in Held(pool) : pool[x] # call[h].sid
        BY <2>2, <2>5 DEF Held
      <3>2. Watched(c, pool, timers)
        BY <1>1, <1>3, <3>1 DEF Watched
      <3>3. QED
        BY <1>6, <1>7, <1>13, <2>3, <2>5, <3>2 DEF ValidateFail, IInv, Watched
    <2>6. QED
      BY <1>13, <2>4, <2>5 DEF ValidateFail, r
  <1>14. CASE UnavailableDone(h)
    <2>1. \A g \in Hosts : call[g].pc = "validating" => c[g] = call[g]
      BY <1>3, <1>14 DEF UnavailableDone
    <2>2. Watched(c, pool, StopIfEmpty)
      BY <1>1, <2>1 DEF Watched, StopIfEmpty
    <2>3. QED
      BY <1>5, <1>6, <1>7, <1>14, <2>2 DEF UnavailableDone, IInv, Watched
  <1>15. CASE OpEnd(h)
    <2>1. PoolInv(c, pool, sess', closeEvents, live \ mistaken, sweep)
      BY <1>1, <1>15, ReleaseInv DEF OpEnd, c
    <2>2. \A g \in Hosts : call[g].pc = "validating" => c[g] = call[g]
      BY <1>3, <1>15 DEF OpEnd
    <2>3. Watched(c, pool, timers)
      BY <1>1, <2>2 DEF Watched
    <2>4. QED
      BY <1>6, <1>7, <1>15, <2>1, <2>3 DEF OpEnd, IInv, Watched
  <1>16. CASE OpStale(h)
    <2> DEFINE p == [pool EXCEPT ![<<call[h].kind, h>>] = None]
               ss == Count(sess, call[h].sid, -1)
    <2>1. /\ call[h].pc = "running"
          /\ mistaken \subseteq mistaken' /\ call[h].sid \notin live \ mistaken'
          /\ Ensure(h, k, TRUE, p, ss)
          /\ UNCHANGED <<closed, sweep, now>>
      BY <1>16 DEF OpStale, k
    <2>2. /\ PoolInv(c, p, ss, closeEvents, live \ mistaken', sweep)
          /\ Watched(c, p, timers)
      BY <1>1, <2>1, StaleInv DEF c
    <2>3. p \in PoolType
      BY <1>2 DEF PoolType
    <2>4. ss \in SessType
      <3>1. call[h].sid \in Sessions
        BY <1>1, <2>1 DEF TypeOK, CallRecords
      <3>2. QED
        BY <1>1, <1>2, <3>1, CountType
    <2> HIDE DEF p, ss
    <2>5. Goal(mistaken')
      BY <1>1, <1>2, <1>3, <1>4, <2>1, <2>2, <2>3, <2>4, EnsureInv
    <2>6. QED
      BY <1>7, <2>1, <2>5 DEF IInv, Watched
  <1>17. QED
    BY <1>8, <1>9, <1>10, <1>11, <1>12, <1>13, <1>14, <1>15, <1>16 DEF Reply

\* A sweep that tears a session down keeps the pool invariant.
LEMMA ReapInv ==
  ASSUME TypeOK, PoolInv(call, pool, sess, closeEvents, live \ mistaken, sweep),
         Watched(call, pool, timers),
         NEW w \in Sweepers, NEW k \in Kinds, NEW todo \in SUBSET Sessions, NEW n \in Nat,
         \A q \in todo : sess[q].host \in Hosts,
         Reap(w, k, todo, n)
  PROVE  /\ PoolInv(call, pool', sess, closeEvents', live' \ mistaken, sweep')
         /\ Watched(call, pool', timers)
         /\ Held(pool) # {}
  <1>1. PICK s \in todo, passed \in SUBSET todo :
          /\ Drop(pool, <<k, sess[s].host>>)
          /\ pool[<<k, sess[s].host>>] # None
          /\ sweep' = [sweep EXCEPT ![w] = [on |-> TRUE, kind |-> k, now |-> n,
                                           todo |-> (todo \ passed) \ {s}]]
    BY DEF Reap, Due
  <1> DEFINE x == <<k, sess[s].host>>
  <1>2. x \in Held(pool)
    BY <1>1 DEF Held, Slots
  <1>3. call \in CallsType /\ pool \in PoolType /\ sess \in SessType
    BY DEF TypeOK, CallsType, PoolType, SessType
  <1>4. Drop(pool, x)
    BY <1>1
  <1> HIDE DEF x
  <1>5. PoolInv(call, pool', sess, closeEvents', live' \ mistaken, sweep)
    BY <1>2, <1>3, <1>4, DropInv
  <1>6. \A v \in Sweepers : \A q \in sweep'[v].todo : q \in todo \/ q \in sweep[v].todo
    BY <1>1 DEF TypeOK
  <1>7. PoolInv(call, pool', sess, closeEvents', live' \ mistaken, sweep')
    BY <1>5, <1>6 DEF PoolInv, Placed
  <1>8. \A y \in Held(pool') : y \in Held(pool) /\ pool'[y] = pool[y]
    BY <1>3, <1>4 DEF Drop, Held, PoolType
  <1>9. QED
    BY <1>2, <1>7, <1>8 DEF Watched

\* What a sweep finds in a pool belongs to hosts.
LEMMA SnapshotPlaced ==
  ASSUME TypeOK, PoolInv(call, pool, sess, closeEvents, live \ mistaken, sweep), NEW k \in Kinds
  PROVE  /\ Snapshot(k) \in SUBSET Sessions
         /\ \A q \in Snapshot(k) : sess[q].host \in Hosts
  <1>1. \A h \in Hosts : <<k, h>> \in Slots
    BY DEF Slots
  <1>2. \A h \in Hosts : pool[<<k, h>>] \in Sessions \cup {None}
    BY <1>1 DEF TypeOK
  <1>3. \A q \in Snapshot(k) : \E x \in Held(pool) : pool[x] = q
    BY <1>1 DEF Snapshot, Held
  <1>4. QED
    BY <1>2, <1>3 DEF Snapshot, PoolInv, Placed

\* The loop of a sweep keeps the pool invariant.
LEMMA ScanInv ==
  ASSUME TypeOK, PoolInv(call, pool, sess, closeEvents, live \ mistaken, sweep),
         Watched(call, pool, timers),
         NEW w \in Sweepers, NEW k \in Kinds, NEW todo \in SUBSET Sessions, NEW n \in Nat,
         \A q \in todo : sess[q].host \in Hosts,
         Scan(w, k, todo, n)
  PROVE  /\ PoolInv(call, pool', sess, closeEvents', live' \ mistaken, sweep')
         /\ Watched(call, pool', timers)
         /\ Held(pool') # {} => Held(pool) # {}
  <1>1. CASE Reap(w, k, todo, n)
    BY <1>1, ReapInv
  <1>2. CASE Reap(w, "docker", Snapshot("docker"), n)
    <2>1. "docker" \in Kinds
      BY DEF Kinds
    <2>2. QED
      BY <1>2, <2>1, SnapshotPlaced, ReapInv
  <1>3. CASE SweepEnds(w)
    <2>1. \A v \in Sweepers : sweep'[v].todo \subseteq sweep[v].todo
      BY <1>3 DEF SweepEnds, NoSweep, TypeOK
    <2>2. PoolInv(call, pool, sess, closeEvents, live \ mistaken, sweep')
      BY <2>1 DEF PoolInv, Placed
    <2>3. QED
      BY <1>3, <2>2 DEF SweepEnds
  <1>4. QED
    BY <1>1, <1>2, <1>3 DEF Scan

\* A step of a sweep, of closeAll, of Termix or of the clock keeps the invariant.
LEMMA SystemInv ==
  ASSUME IInv,
         \/ \E w \in Sweepers : SweepStart(w) \/ SweepResume(w)
         \/ CloseAll
         \/ Forget
         \/ Tick
  PROVE  IInv'
  <1>1. TypeOK /\ PoolInv(call, pool, sess, closeEvents, live \ mistaken, sweep)
               /\ Watched(call, pool, timers)
    BY DEF IInv
  <1>2. TypeOK'
    BY <1>1, SystemType
  <1>3. ASSUME NEW w \in Sweepers, SweepStart(w)
        PROVE  IInv'
    <2>1. "file" \in Kinds /\ now \in Nat
      BY <1>1 DEF Kinds, TypeOK
    <2>2. Scan(w, "file", Snapshot("file"), now)
      BY <1>3 DEF SweepStart
    <2>3. /\ PoolInv(call, pool', sess, closeEvents', live' \ mistaken, sweep')
          /\ Watched(call, pool', timers)
      BY <1>1, <2>1, <2>2, SnapshotPlaced, ScanInv
    <2>4. QED
      BY <1>2, <1>3, <2>3 DEF SweepStart, IInv, Watched
  <1>4. ASSUME NEW w \in Sweepers, SweepResume(w)
        PROVE  IInv'
    <2>1. sweep[w] \in SweepRecords
      BY <1>1 DEF TypeOK
    <2>2. /\ sweep[w].kind \in Kinds
          /\ sweep[w].todo \in SUBSET Sessions
          /\ sweep[w].now \in Nat
      BY <2>1 DEF SweepRecords
    <2>3. \A q \in sweep[w].todo : sess[q].host \in Hosts
      BY <1>1 DEF PoolInv, Placed
    <2>4. Scan(w, sweep[w].kind, sweep[w].todo, sweep[w].now)
      BY <1>4 DEF SweepResume
    <2>5. /\ PoolInv(call, pool', sess, closeEvents', live' \ mistaken, sweep')
          /\ Watched(call, pool', timers)
          /\ Held(pool') # {} => Held(pool) # {}
      BY <1>1, <2>2, <2>3, <2>4, ScanInv
    <2>6. Held(pool') # {} => timers' = timers
      BY <1>1, <1>4, <2>5 DEF SweepResume, StopIfEmpty, TypeOK
    <2>7. Watched(call, pool', timers')
      BY <2>5, <2>6 DEF Watched
    <2>8. QED
      BY <1>2, <1>4, <2>5, <2>7 DEF SweepResume, IInv, Watched
  <1>5. CASE CloseAll
    <2>1. Held(pool') = {} /\ \A x \in Slots : pool'[x] = None
      BY <1>5 DEF CloseAll, Held
    <2>2. live' \subseteq mistaken
      BY <1>1, <1>5 DEF CloseAll, PoolInv, Tracked, Pooled
    <2>3. Owned(call, pool')
      <3>1. \A h \in Hosts : <<call[h].kind, h>> \in Slots
        BY <1>1 DEF TypeOK, CallRecords, Slots
      <3>2. \A h \in Hosts : call[h].pc \in Active => call[h].sid # None
        BY <1>1 DEF TypeOK, CallRecords, Active
      <3>3. QED
        BY <1>1, <2>1, <3>1, <3>2 DEF PoolInv, Owned
    <2>4. Unfilled(call, pool')
      <3>1. \A h \in Hosts : <<call[h].kind, h>> \in Slots
        BY <1>1 DEF TypeOK, CallRecords, Slots
      <3>2. QED
        BY <1>1, <2>1, <3>1 DEF PoolInv, Unfilled
    <2>5. \A s \in Sessions : closeEvents'[s] <= 1
      <3> SUFFICES ASSUME NEW s \in Sessions PROVE closeEvents'[s] <= 1
        OBVIOUS
      <3>1. closeEvents'[s] = closeEvents[s] + (IF Pooled(s) THEN 1 ELSE 0)
        BY <1>5 DEF CloseAll
      <3>2. closeEvents[s] \in Nat /\ closeEvents[s] <= 1
        BY <1>1 DEF PoolInv, Audited, TypeOK
      <3>3. Pooled(s) => closeEvents[s] = 0
        <4>1. ASSUME NEW x \in Slots, pool[x] = s
              PROVE  x \in Held(pool)
          BY <4>1, NoneAssumption DEF Held
        <4>2. QED
          BY <1>1, <4>1 DEF PoolInv, Audited, Pooled
      <3>4. QED
        BY <3>1, <3>2, <3>3
    <2>6. PoolInv(call, pool', sess, closeEvents', live' \ mistaken, sweep)
      BY <1>1, <2>1, <2>2, <2>3, <2>4, <2>5
      DEF PoolInv, Distinct, Placed, Tracked, Audited
    <2>7. QED
      BY <1>2, <1>5, <2>1, <2>6 DEF CloseAll, IInv, Watched
  <1>6. CASE Forget
    <2>1. live' \ mistaken' \subseteq live \ mistaken
      BY <1>6 DEF Forget
    <2>2. PoolInv(call, pool, sess, closeEvents, live' \ mistaken', sweep)
      BY <1>1, <2>1 DEF PoolInv, Tracked
    <2>3. QED
      BY <1>1, <1>2, <1>6, <2>2 DEF Forget, IInv, Watched
  <1>7. CASE Tick
    BY <1>1, <1>2, <1>7 DEF Tick, IInv, Watched
  <1>8. QED
    BY <1>3, <1>4, <1>5, <1>6, <1>7

\* The empty manager satisfies the invariant.
LEMMA InitInv == Init => IInv
  <1> SUFFICES ASSUME Init PROVE IInv
    OBVIOUS
  <1>1. Held(pool) = {} /\ \A x \in Slots : pool[x] = None
    BY DEF Init, Held
  <1>2. \A h \in Hosts : call[h].pc = "idle"
    BY DEF Init, NoCall
  <1>3. Counted(call, sess)
    BY <1>2 DEF Counted, Init, NoObject
  <1>4. PoolInv(call, pool, sess, closeEvents, live \ mistaken, sweep)
    BY <1>1, <1>2, <1>3
    DEF PoolInv, Distinct, Placed, Owned, Unfilled, Tracked, Audited, Active, Init, NoSweep
  <1>5. QED
    BY <1>1, <1>4, InitType DEF IInv, Watched

\* The invariant is inductive.
LEMMA NextInv == IInv /\ [Next]_vars => IInv'
  <1>1. ASSUME IInv, UNCHANGED vars
        PROVE  IInv'
    <2>1. TypeOK'
      BY <1>1, NextType DEF IInv
    <2>2. QED
      BY <1>1, <2>1 DEF IInv, vars, Watched
  <1>2. QED
    BY <1>1, CallInv, SystemInv DEF Next

\* IInv holds in every reachable state.
THEOREM Invariance == Spec => []IInv
  BY InitInv, NextInv, PTL DEF Spec

-------------------------------------------------------------------------------
(*****************************************************************************)
(* The safety properties.                                                    *)
(*****************************************************************************)

\* The in-flight counter of every session is the number of operations running
\* on it (runInFlight and withSession in sessions.mjs): IInv says it is one or
\* zero as some call runs on the session, and no two calls share a session.
THEOREM InFlightCorrect == Spec => []InFlightExact
  <1>1. IInv => InFlightExact
    <2> SUFFICES ASSUME IInv, NEW s \in Sessions
                 PROVE  sess[s].inFlight = Cardinality({h \in Hosts : Running(h, s)})
      BY DEF InFlightExact
    <2>1. CASE \E g \in Hosts : Running(g, s)
      <3>1. PICK g \in Hosts : Running(g, s)
        BY <2>1
      <3>2. {h \in Hosts : Running(h, s)} = {g}
        BY <3>1 DEF IInv, PoolInv, Owned, Running, Active
      <3>3. sess[s].inFlight = 1
        BY <3>1 DEF IInv, PoolInv, Counted, Running
      <3>4. QED
        BY <3>2, <3>3, FS_Singleton
    <2>2. CASE ~ \E g \in Hosts : Running(g, s)
      <3>1. {h \in Hosts : Running(h, s)} = {}
        BY <2>2
      <3>2. sess[s].inFlight = 0
        BY <2>2 DEF IInv, PoolInv, Counted, Running
      <3>3. QED
        BY <3>1, <3>2, FS_EmptySet
    <2>3. QED
      BY <2>1, <2>2
  <1>2. QED
    BY <1>1, Invariance, PTL

\* Every pooled session that its call has finished validating is watched by the
\* timers until closeAll (startTimers, stopTimers and teardown in sessions.mjs).
THEOREM WatchCorrect == Spec => []PooledIsWatched
  <1>1. IInv => PooledIsWatched
    BY DEF IInv, Watched, PooledIsWatched, Held
  <1>2. QED
    BY <1>1, Invariance, PTL

\* The pools hold every session that Termix acknowledged, still knows and was
\* not asked to disconnect, but for those that a retry forgot because an error
\* looked like a stale session (connect, withSession, teardown and
\* isStaleSession in sessions.mjs).
THEOREM OnlyMistakesAbandoned == Spec => []LiveIsPooled
  <1>1. IInv => LiveIsPooled
    BY DEF IInv, PoolInv, Tracked, LiveIsPooled, Pooled
  <1>2. QED
    BY <1>1, Invariance, PTL

\* Every session is audited as closed at most once and never while a pool holds
\* it, and no session sits under two entries (teardown in sessions.mjs).
THEOREM CloseCorrect == Spec => []ClosedOnce
  <1>1. IInv => ClosedOnce
    BY DEF IInv, PoolInv, Audited, Distinct, ClosedOnce, Held
  <1>2. QED
    BY <1>1, Invariance, PTL
===============================================================================
