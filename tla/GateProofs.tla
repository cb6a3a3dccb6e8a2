------------------------------ MODULE GateProofs ------------------------------
(*****************************************************************************)
(* Theorems about the gate: whatever the configuration, the tool calls and   *)
(* their interleaving, a read-only server lets no mutation out, no           *)
(* forbidden host is reached, the handlers for one host exclude each other,  *)
(* and every record is true.                                                 *)
(*                                                                           *)
(* The invariant IInv says, for each place where a call can wait, what the   *)
(* gate has already established about it.                                    *)
(*****************************************************************************)
EXTENDS Gate, TLAPS

\* A call is where the mutex thinks it is.
InStep ==
  \A c \in Calls :
    /\ pc[c] = "queued" <=> phase[c] = "waiting"
    /\ pc[c] = "running" <=> phase[c] = "holding"
    /\ pc[c] \in {"new", "resolving"} => phase[c] = "new"

\* Configurations that let no mutation out.
Pinned == ~ policy.startEnabled /\ ~ policy.allowToggle
ReadOnly == ~ policy.writes \/ Pinned

\* Past the mutation gate, and not ended.
Admitted(c) == pc[c] \in {"resolving", "queued", "running", "vetting", "sending"}

\* The flag of a pinned server stays off, and no mutation has passed the gate of
\* a read-only one.
Gated ==
  /\ Pinned => ~ enabled
  /\ ReadOnly => \A c \in Calls : Admitted(c) \/ c \in acted => ~ Mutating(req[c])

\* What is recorded as touched was asked for and allowed; all of it before the
\* call may act.
Vetted ==
  \A c \in Calls :
    /\ c \in acted => pc[c] \in {"running", "sending", "returning", "done"}
    /\ pc[c] \in {"running", "sending"} => c \in acted
    /\ touched[c] \subseteq targets[c] \cap policy.hosts
    /\ pc[c] \in {"queued", "running", "sending"} \/ c \in acted => targets[c] \subseteq touched[c]
    /\ pc[c] = "new" => touched[c] = {}
    /\ c \notin acted => reached[c] = {}
    /\ pc[c] = "vetting" => req[c] \in ApiCalls

\* What a call reaches is allowed; what it reaches beyond the hosts recorded for
\* it is the host of a session that a host tool opened.
Ridden(c) ==
  /\ reached[c] \subseteq policy.hosts
  /\ \A h \in reached[c] \ touched[c] :
       req[c] \in ApiCalls /\ \E d \in acted : req[d] \in HostTools /\ h \in touched[d]

\* One record per call that has left; success only where something was done.
Recorded ==
  \A c \in Calls :
    /\ pc[c] # "done" => log[c] = <<>>
    /\ ok[c] => pc[c] \in {"returning", "done"} /\ (c \in acted \/ req[c] \in Toggles)
    /\ pc[c] = "done" =>
         \E r \in Records :
           /\ log[c] = <<r>>
           /\ r.ok => ok[c]
           /\ r.hosts = touched[c]
           /\ r.mutating = Mutating(req[c])

IInv ==
  /\ TypeOK /\ LockInv /\ InStep /\ Gated /\ Vetted /\ Recorded
  /\ \A c \in Calls : Ridden(c)

-------------------------------------------------------------------------------
(*****************************************************************************)
(* The lock.                                                                 *)
(*****************************************************************************)
LEMMA LockInitInv == LockInit => LockInv
  BY NoHostAssumption DEF LockInit, LockInv, LockType, Phases

LEMMA AskInv ==
  ASSUME LockInv, NEW t \in Calls, NEW k \in Hosts, Ask(t, k)
  PROVE  LockInv'
  BY NoHostAssumption DEF LockInv, LockType, Phases, Ask

LEMMA AcquireInv ==
  ASSUME LockInv, NEW t \in Calls, Acquire(t)
  PROVE  LockInv'
  BY NoHostAssumption DEF LockInv, LockType, Phases, Acquire

LEMMA ReleaseInv ==
  ASSUME LockInv, NEW t \in Calls, Release(t)
  PROVE  LockInv'
  BY NoHostAssumption DEF LockInv, LockType, Phases, Release

LEMMA LockStutter ==
  ASSUME LockInv, UNCHANGED lockVars
  PROVE  LockInv'
  BY DEF LockInv, LockType, lockVars

\* Of two calls that hold the lock of one host, one is ahead of the other and
\* would have finished.
LEMMA LockExclusive ==
  ASSUME LockInv
  PROVE  Exclusive
  BY DEF LockInv, LockType, Phases, Exclusive

-------------------------------------------------------------------------------
(*****************************************************************************)
(* Each action preserves the invariant.                                      *)
(*****************************************************************************)
LEMMA InitInv == Init => IInv
  <1> SUFFICES ASSUME Init PROVE IInv
    OBVIOUS
  <1>1. LockInv /\ phase = [c \in Calls |-> "new"]
    BY LockInitInv DEF Init, LockInit
  <1>2. policy \in PolicyType
    BY PoliciesAssumption DEF Init
  <1>3. TypeOK
    BY <1>1, <1>2 DEF Init, TypeOK, PCs, Requests, PolicyType, LockInv
  <1>4. Gated
    BY <1>2 DEF Init, Gated, Pinned, ReadOnly, Admitted
  <1>5. InStep /\ Vetted /\ Recorded
    BY <1>1 DEF Init, InStep, Vetted, Recorded
  <1>6. \A c \in Calls : Ridden(c)
    BY DEF Init, Ridden
  <1>7. QED
    BY <1>1, <1>3, <1>4, <1>5, <1>6 DEF IInv

\* A step of c that keeps what it is known to act on, or establishes Ridden for it
\* anew, keeps Ridden for every call: nothing is taken back from a record.
LEMMA RiddenKept ==
  ASSUME IInv, NEW c \in Calls, UNCHANGED policy, acted \subseteq acted',
         \A d \in Calls \ {c} :
           reached'[d] = reached[d] /\ touched'[d] = touched[d] /\ req'[d] = req[d],
         touched[c] \subseteq touched'[c],
         c \in acted => req'[c] = req[c],
         reached'[c] = reached[c] \/ Ridden(c)'
  PROVE  \A d \in Calls : Ridden(d)'
  <1>1. acted \subseteq Calls /\ \A d \in Calls : Ridden(d)
    BY DEF IInv, TypeOK
  <1>2. \A d \in acted : req'[d] = req[d] /\ touched[d] \subseteq touched'[d]
    BY <1>1
  <1>3. ASSUME NEW d \in Calls, reached'[d] = reached[d], d # c \/ d \in acted
        PROVE  Ridden(d)'
    <2>1. req'[d] = req[d] /\ touched[d] \subseteq touched'[d]
      BY <1>3
    <2>2. QED
      BY <1>1, <1>2, <1>3, <2>1 DEF Ridden
  <1>4. CASE reached'[c] = reached[c] /\ c \notin acted
    <2>1. reached'[c] = {}
      BY <1>4 DEF IInv, Vetted
    <2>2. Ridden(c)'
      BY <2>1 DEF Ridden
    <2>3. QED
      BY <1>3, <2>2
  <1>5. QED
    BY <1>3, <1>4

\* What a request that goes out to the hosts hs is recorded here as reaching.
Sent(c, hs) ==
  \E s \in {{}} \cup {touched[d] : d \in {e \in acted : req[e] \in HostTools}} :
    reached' = [reached EXCEPT ![c] = hs \cup s]

\* A request that names only hosts recorded for it reaches nothing else but the
\* host of a session.
LEMMA SentRidden ==
  ASSUME IInv, NEW c \in Calls, NEW hs \in SUBSET Hosts, Sent(c, hs),
         UNCHANGED policy, acted \subseteq acted', req'[c] \in ApiCalls,
         hs \subseteq touched'[c] \cap policy.hosts,
         \A d \in acted : req'[d] = req[d] /\ touched[d] \subseteq touched'[d]
  PROVE  /\ Ridden(c)'
         /\ reached' \in [Calls -> SUBSET Hosts]
         /\ \A d \in Calls \ {c} : reached'[d] = reached[d]
  <1>1. /\ reached \in [Calls -> SUBSET Hosts] /\ acted \subseteq Calls
        /\ touched \in [Calls -> SUBSET Hosts]
        /\ \A d \in Calls : touched[d] \subseteq policy.hosts
    BY DEF IInv, TypeOK, Vetted
  <1>2. PICK s \in {{}} \cup {touched[d] : d \in {e \in acted : req[e] \in HostTools}} :
          reached' = [reached EXCEPT ![c] = hs \cup s]
    BY DEF Sent
  <1>3. s = {} \/ \E d \in acted : req[d] \in HostTools /\ s = touched[d]
    BY <1>2
  <1>4. s \subseteq Hosts \cap policy.hosts
    BY <1>1, <1>3
  <1>5. /\ reached'[c] = hs \cup s
        /\ reached' \in [Calls -> SUBSET Hosts]
        /\ \A d \in Calls \ {c} : reached'[d] = reached[d]
    BY <1>1, <1>2, <1>4
  <1>6. \A h \in s : \E d \in acted' : req'[d] \in HostTools /\ h \in touched'[d]
    BY <1>3
  <1>7. Ridden(c)'
    BY <1>4, <1>5, <1>6 DEF Ridden
  <1>8. QED
    BY <1>5, <1>7

\* The record a call leaves with.
LEMMA FinishRecord ==
  ASSUME IInv, NEW c \in Calls, NEW q \in Requests, NEW good \in BOOLEAN,
         pc[c] # "done", Finish(c, q, good), UNCHANGED touched
  PROVE  /\ log' \in [Calls -> Seq(Records)]
         /\ pc' = [pc EXCEPT ![c] = "done"]
         /\ \A d \in Calls \ {c} : log'[d] = log[d]
         /\ \E r \in Records :
              log'[c] = <<r>> /\ r.ok = good /\ r.hosts = touched'[c] /\ r.mutating = Mutating(q)
  <1> DEFINE r == [mutating |-> Mutating(q), ok |-> good, hosts |-> touched[c],
                   enabled |-> enabled]
  <1>1. r \in Records
    BY DEF IInv, TypeOK, Records, Mutating
  <1>2. log[c] = <<>> /\ log \in [Calls -> Seq(Records)]
    BY DEF IInv, TypeOK, Recorded
  <1>3. log' = [log EXCEPT ![c] = Append(log[c], r)]
    BY DEF Finish, Record
  <1>4. Append(log[c], r) = <<r>> /\ <<r>> \in Seq(Records)
    BY <1>1, <1>2
  <1>5. log'[c] = <<r>>
    BY <1>2, <1>3, <1>4
  <1>6. pc' = [pc EXCEPT ![c] = "done"]
    BY DEF Finish, At
  <1>7. QED
    BY <1>1, <1>2, <1>3, <1>4, <1>5, <1>6

\* A call that leaves the gate from a place where it does not hold the lock.
LEMMA FinishInv ==
  ASSUME IInv, NEW c \in Calls, NEW q \in Requests, NEW good \in BOOLEAN,
         pc[c] \in {"new", "resolving", "returning"},
         Finish(c, q, good), good => ok[c], q = req'[c],
         pc[c] = "new" \/ UNCHANGED <<req, targets>>,
         req' \in [Calls -> Requests], targets' \in [Calls -> SUBSET Hosts],
         \A d \in Calls \ {c} : req'[d] = req[d] /\ targets'[d] = targets[d],
         UNCHANGED <<policy, enabled, touched, ok, acted, reached, lockVars>>
  PROVE  IInv'
  <1> USE DEF IInv
  <1>1. LockInv'
    BY LockStutter
  <1>2. /\ log' \in [Calls -> Seq(Records)]
        /\ pc' = [pc EXCEPT ![c] = "done"]
        /\ \A d \in Calls \ {c} : log'[d] = log[d]
        /\ \E r \in Records :
             log'[c] = <<r>> /\ r.ok = good /\ r.hosts = touched'[c] /\ r.mutating = Mutating(q)
    BY FinishRecord
  <1>3. TypeOK'
    BY <1>1, <1>2 DEF TypeOK, PCs, LockInv
  <1>4. InStep'
    BY <1>2 DEF InStep, TypeOK, lockVars, LockType, Phases
  <1>5. Vetted'
    BY <1>2 DEF Vetted, TypeOK
  <1>6. Gated'
    BY <1>2, <1>5 DEF Gated, Pinned, ReadOnly, Admitted, Mutating, TypeOK, Vetted
  <1>7. Recorded'
    BY <1>2 DEF Recorded, TypeOK
  <1>8. \A d \in Calls : Ridden(d)'
    BY RiddenKept DEF TypeOK, Vetted
  <1>9. QED
    BY <1>1, <1>3, <1>4, <1>5, <1>6, <1>7, <1>8

LEMMA RefuseInv ==
  ASSUME IInv, NEW c \in Calls, Refuse(c)
  PROVE  IInv'
  <1>1. PICK q \in Requests, hs \in SUBSET Hosts : Arrive(c, q, hs) /\ Finish(c, q, FALSE)
    BY DEF Refuse
  <1>2. req' = [req EXCEPT ![c] = q] /\ targets' = [targets EXCEPT ![c] = hs] /\ pc[c] = "new"
    BY <1>1 DEF Arrive
  <1>3. /\ req' \in [Calls -> Requests] /\ targets' \in [Calls -> SUBSET Hosts] /\ req'[c] = q
        /\ \A d \in Calls \ {c} : req'[d] = req[d] /\ targets'[d] = targets[d]
    BY <1>2 DEF IInv, TypeOK
  <1>4. UNCHANGED <<policy, enabled, touched, ok, acted, reached, lockVars>>
    BY DEF Refuse
  <1>5. QED
    BY <1>1, <1>2, <1>3, <1>4, FinishInv

LEMMA BeginHostInv ==
  ASSUME IInv, NEW c \in Calls, BeginHost(c)
  PROVE  IInv'
  <1> USE DEF IInv
  <1>1. PICK q \in HostTools, h \in Hosts : Arrive(c, q, {h}) /\ ~ Refused(q)
    BY DEF BeginHost
  <1>2. /\ pc[c] = "new"
        /\ req' = [req EXCEPT ![c] = q]
        /\ targets' = [targets EXCEPT ![c] = {h}]
        /\ pc' = [pc EXCEPT ![c] = "resolving"]
        /\ UNCHANGED <<policy, enabled, touched, ok, log, acted, reached, lockVars>>
    BY <1>1 DEF Arrive, BeginHost, At
  <1>3. Mutating(q) => policy.writes /\ enabled
    BY <1>1 DEF Refused
  <1>4. LockInv'
    BY <1>2, LockStutter
  <1>5. TypeOK'
    BY <1>2, <1>4 DEF TypeOK, PCs, LockInv, HostTools, Requests
  <1>6. InStep'
    BY <1>2 DEF InStep, TypeOK, lockVars
  <1>7. Gated'
    BY <1>2, <1>3 DEF Gated, Pinned, ReadOnly, Admitted, Mutating, TypeOK, Vetted
  <1>8. Vetted'
    BY <1>2 DEF Vetted, TypeOK
  <1>9. Recorded'
    BY <1>2 DEF Recorded, TypeOK, Mutating
  <1>10. \A d \in Calls : Ridden(d)'
    BY <1>2, RiddenKept DEF TypeOK, Vetted
  <1>11. QED
    BY <1>4, <1>5, <1>6, <1>7, <1>8, <1>9, <1>10

LEMMA ToggleInv ==
  ASSUME IInv, NEW c \in Calls, Toggle(c)
  PROVE  IInv'
  <1> USE DEF IInv
  <1>1. PICK q \in Toggles, good \in BOOLEAN :
          /\ Arrive(c, q, {})
          /\ Ends(c, good)
          /\ enabled' \in BOOLEAN
          /\ enabled' => enabled \/ policy.allowToggle
    BY DEF Toggle, Toggles, TypeOK
  <1>2. /\ pc[c] = "new"
        /\ req' = [req EXCEPT ![c] = q]
        /\ targets' = [targets EXCEPT ![c] = {}]
        /\ pc' = [pc EXCEPT ![c] = "returning"]
        /\ ok' = [ok EXCEPT ![c] = good]
        /\ UNCHANGED <<policy, touched, log, acted, reached, lockVars>>
    BY <1>1 DEF Arrive, Toggle, Ends, At
  <1>3. LockInv'
    BY <1>2, LockStutter
  <1>4. TypeOK'
    BY <1>1, <1>2, <1>3 DEF TypeOK, PCs, LockInv, Toggles, Requests
  <1>5. InStep'
    BY <1>2 DEF InStep, TypeOK, lockVars
  <1>6. Gated'
    BY <1>1, <1>2 DEF Gated, Pinned, ReadOnly, Admitted, Mutating, TypeOK, Vetted
  <1>7. Vetted'
    BY <1>2 DEF Vetted, TypeOK
  <1>8. Recorded'
    BY <1>2 DEF Recorded, TypeOK, Mutating
  <1>9. \A d \in Calls : Ridden(d)'
    BY <1>2, RiddenKept DEF TypeOK, Vetted
  <1>10. QED
    BY <1>3, <1>4, <1>5, <1>6, <1>7, <1>8, <1>9

LEMMA BeginApiInv ==
  ASSUME IInv, NEW c \in Calls, BeginApi(c)
  PROVE  IInv'
  <1> USE DEF IInv
  <1>1. PICK q \in ApiCalls, hs \in SUBSET Hosts :
          /\ Arrive(c, q, hs)
          /\ ~ Refused(q)
          /\ \/ Ends(c, FALSE) /\ UNCHANGED <<acted, reached>>
             \/ hs # {} /\ At(c, "vetting") /\ UNCHANGED <<ok, acted, reached>>
             \/ hs = {} /\ Send(c, {}) /\ UNCHANGED ok
    BY DEF BeginApi
  <1>2. /\ pc[c] = "new"
        /\ req' = [req EXCEPT ![c] = q]
        /\ targets' = [targets EXCEPT ![c] = hs]
        /\ UNCHANGED <<policy, enabled, touched, log, lockVars>>
    BY <1>1 DEF Arrive, BeginApi
  <1>3. PICK l \in {"returning", "vetting", "sending"} :
          /\ pc' = [pc EXCEPT ![c] = l]
          /\ ok' = [ok EXCEPT ![c] = FALSE]
          /\ acted' = IF l = "sending" THEN acted \cup {c} ELSE acted
          /\ l = "sending" => hs = {}
          /\ IF l = "sending" THEN Sent(c, {}) ELSE UNCHANGED reached
    <2>1. ok = [ok EXCEPT ![c] = FALSE]
      BY <1>2 DEF Recorded, TypeOK
    <2>2. QED
      BY <1>1, <2>1 DEF Ends, Send, Sent, At
  <1>4. Mutating(q) => policy.writes /\ enabled
    BY <1>1 DEF Refused
  <1>5. /\ reached' \in [Calls -> SUBSET Hosts]
        /\ \A d \in Calls \ {c} : reached'[d] = reached[d]
        /\ reached'[c] = reached[c] \/ Ridden(c)'
        /\ c \notin acted' => reached'[c] = reached[c]
    <2>1. CASE l = "sending"
      <3>1. Sent(c, {}) /\ c \in acted' /\ acted \subseteq acted' /\ c \notin acted
        BY <1>2, <1>3, <2>1 DEF Vetted
      <3>2. req'[c] \in ApiCalls /\ \A d \in acted : req'[d] = req[d]
        BY <1>2, <3>1 DEF TypeOK
      <3>3. QED
        BY <1>2, <3>1, <3>2, SentRidden
    <2>2. QED
      BY <1>3, <2>1 DEF TypeOK
  <1>6. LockInv'
    BY <1>2, LockStutter
  <1>7. TypeOK'
    BY <1>2, <1>3, <1>5, <1>6 DEF TypeOK, PCs, LockInv, ApiCalls, Requests
  <1>8. InStep'
    BY <1>2, <1>3 DEF InStep, TypeOK, lockVars
  <1>9. Gated'
    BY <1>2, <1>3, <1>4 DEF Gated, Pinned, ReadOnly, Admitted, Mutating, TypeOK, Vetted
  <1>10. Vetted'
    BY <1>2, <1>3, <1>5 DEF Vetted, TypeOK
  <1>11. Recorded'
    BY <1>2, <1>3 DEF Recorded, TypeOK, Mutating
  <1>12. \A d \in Calls : Ridden(d)'
    BY <1>2, <1>3, <1>5, RiddenKept DEF TypeOK, Vetted
  <1>13. QED
    BY <1>6, <1>7, <1>8, <1>9, <1>10, <1>11, <1>12

LEMMA ResolveOkInv ==
  ASSUME IInv, NEW c \in Calls, ResolveOk(c)
  PROVE  IInv'
  <1> USE DEF IInv
  <1>1. PICK h \in targets[c] : Ask(c, h)
    BY DEF ResolveOk
  <1>2. /\ pc[c] = "resolving"
        /\ targets[c] \subseteq policy.hosts
        /\ touched' = [touched EXCEPT ![c] = targets[c]]
        /\ pc' = [pc EXCEPT ![c] = "queued"]
        /\ phase' = [phase EXCEPT ![c] = "waiting"]
        /\ UNCHANGED <<policy, enabled, req, targets, ok, log, acted, reached>>
    BY <1>1 DEF ResolveOk, At, Ask
  <1>3. LockInv'
    BY <1>1, AskInv DEF TypeOK
  <1>4. TypeOK'
    BY <1>2, <1>3 DEF TypeOK, PCs, LockInv
  <1>5. InStep'
    BY <1>2 DEF InStep, TypeOK, LockType
  <1>6. Gated'
    BY <1>2 DEF Gated, Pinned, ReadOnly, Admitted, Mutating, TypeOK
  <1>7. Vetted'
    BY <1>2 DEF Vetted, TypeOK
  <1>8. Recorded'
    BY <1>2 DEF Recorded, TypeOK, Mutating
  <1>9. \A d \in Calls : Ridden(d)'
    BY <1>2, RiddenKept DEF TypeOK, Vetted
  <1>10. QED
    BY <1>3, <1>4, <1>5, <1>6, <1>7, <1>8, <1>9

LEMMA ResolveFailInv ==
  ASSUME IInv, NEW c \in Calls, ResolveFail(c)
  PROVE  IInv'
  <1>1. /\ pc[c] = "resolving"
        /\ Finish(c, req[c], FALSE)
        /\ UNCHANGED <<policy, enabled, req, targets, touched, ok, acted, reached, lockVars>>
    BY DEF ResolveFail
  <1>2. QED
    BY <1>1, FinishInv DEF IInv, TypeOK

\* The handler starts or ends: the call moves, and the lock with it.
LEMMA StartHandlerInv ==
  ASSUME IInv, NEW c \in Calls, StartHandler(c)
  PROVE  IInv'
  <1> USE DEF IInv
  <1>1. /\ pc[c] = "queued"
        /\ pc' = [pc EXCEPT ![c] = "running"]
        /\ phase' = [phase EXCEPT ![c] = "holding"]
        /\ acted' = acted \cup {c}
        /\ reached' = [reached EXCEPT ![c] = touched[c]]
        /\ UNCHANGED <<policy, enabled, req, targets, touched, ok, log>>
    BY DEF StartHandler, At, Acquire
  <1>2. LockInv'
    BY AcquireInv DEF StartHandler
  <1>3. TypeOK'
    BY <1>1, <1>2 DEF TypeOK, PCs, LockInv
  <1>4. InStep'
    BY <1>1 DEF InStep, TypeOK, LockType
  <1>5. Gated'
    BY <1>1 DEF Gated, Pinned, ReadOnly, Admitted, Mutating, TypeOK
  <1>6. Vetted'
    BY <1>1 DEF Vetted, TypeOK
  <1>7. Recorded'
    BY <1>1 DEF Recorded, TypeOK, Mutating
  <1>8. \A d \in Calls : Ridden(d)'
    <2>1. Ridden(c)'
      BY <1>1 DEF Ridden, TypeOK, Vetted
    <2>2. QED
      BY <1>1, <2>1, RiddenKept DEF TypeOK, Vetted
  <1>9. QED
    BY <1>2, <1>3, <1>4, <1>5, <1>6, <1>7, <1>8

LEMMA HandlerEndsInv ==
  ASSUME IInv, NEW c \in Calls, HandlerEnds(c)
  PROVE  IInv'
  <1> USE DEF IInv
  <1>1. PICK good \in BOOLEAN : Ends(c, good)
    BY DEF HandlerEnds
  <1>2. /\ pc[c] = "running"
        /\ pc' = [pc EXCEPT ![c] = "returning"]
        /\ phase' = [phase EXCEPT ![c] = "done"]
        /\ ok' = [ok EXCEPT ![c] = good]
        /\ UNCHANGED <<policy, enabled, req, targets, touched, log, acted, reached>>
    BY <1>1 DEF HandlerEnds, Ends, At, Release
  <1>3. LockInv'
    BY ReleaseInv DEF HandlerEnds
  <1>4. TypeOK'
    BY <1>2, <1>3 DEF TypeOK, PCs, LockInv
  <1>5. InStep'
    BY <1>2 DEF InStep, TypeOK, LockType
  <1>6. Gated'
    BY <1>2 DEF Gated, Pinned, ReadOnly, Admitted, Mutating, TypeOK
  <1>7. Vetted'
    BY <1>2 DEF Vetted, TypeOK
  <1>8. c \in acted
    BY <1>2 DEF Vetted
  <1>9. Recorded'
    BY <1>2, <1>8 DEF Recorded, TypeOK, Mutating
  <1>10. \A d \in Calls : Ridden(d)'
    BY <1>2, RiddenKept DEF TypeOK, Vetted
  <1>11. QED
    BY <1>3, <1>4, <1>5, <1>6, <1>7, <1>9, <1>10

\* After the last host everything asked for has been looked up.
LEMMA VetOkInv ==
  ASSUME IInv, NEW c \in Calls, VetOk(c)
  PROVE  IInv'
  <1> USE DEF IInv
  <1>1. PICK h \in (targets[c] \ touched[c]) \cap policy.hosts :
          /\ touched' = [touched EXCEPT ![c] = @ \cup {h}]
          /\ \/ /\ targets[c] \ touched[c] # {h}
                /\ UNCHANGED <<pc, ok, acted, reached>>
             \/ /\ targets[c] \ touched[c] = {h}
                /\ \/ Ends(c, FALSE) /\ UNCHANGED <<acted, reached>>
                   \/ Send(c, targets[c]) /\ UNCHANGED ok
    BY DEF VetOk
  <1>2. pc[c] = "vetting" /\ UNCHANGED <<policy, enabled, req, targets, log, lockVars>>
    BY DEF VetOk
  <1>3. PICK l \in {"vetting", "returning", "sending"} :
          /\ pc' = [pc EXCEPT ![c] = l]
          /\ ok' = [ok EXCEPT ![c] = FALSE]
          /\ acted' = IF l = "sending" THEN acted \cup {c} ELSE acted
          /\ l = "sending" => targets[c] \ touched[c] = {h}
          /\ IF l = "sending" THEN Sent(c, targets[c]) ELSE UNCHANGED reached
    <2>1. ok = [ok EXCEPT ![c] = FALSE] /\ pc = [pc EXCEPT ![c] = "vetting"]
      BY <1>2 DEF Recorded, TypeOK
    <2>2. QED
      BY <1>1, <2>1 DEF Ends, Send, Sent, At
  <1>4. /\ reached' \in [Calls -> SUBSET Hosts]
        /\ \A d \in Calls \ {c} : reached'[d] = reached[d]
        /\ reached'[c] = reached[c] \/ Ridden(c)'
        /\ c \notin acted' => reached'[c] = reached[c]
    <2>1. CASE l = "sending"
      <3>1. Sent(c, targets[c]) /\ c \in acted' /\ acted \subseteq acted'
        BY <1>2, <1>3, <2>1
      <3>2. touched'[c] = touched[c] \cup {h} /\ \A d \in Calls \ {c} : touched'[d] = touched[d]
        BY <1>1 DEF TypeOK
      <3>3. /\ targets[c] \subseteq touched'[c] \cap policy.hosts /\ targets[c] \in SUBSET Hosts
            /\ \A d \in acted : touched[d] \subseteq touched'[d]
        BY <1>3, <2>1, <3>2 DEF TypeOK, Vetted
      <3>4. QED
        BY <1>2, <3>1, <3>3, SentRidden DEF Vetted
    <2>2. QED
      BY <1>3, <2>1 DEF TypeOK
  <1>5. LockInv'
    BY <1>2, LockStutter
  <1>6. TypeOK'
    <2>1. touched' \in [Calls -> SUBSET Hosts]
      BY <1>1 DEF TypeOK
    <2>2. /\ pc' \in [Calls -> PCs] /\ ok' \in [Calls -> BOOLEAN]
          /\ acted' \in SUBSET Calls
      BY <1>3 DEF TypeOK, PCs
    <2>3. UNCHANGED <<policy, enabled, req, targets, log>> /\ LockType'
      BY <1>2, <1>5 DEF LockInv
    <2>4. QED
      BY <1>4, <2>1, <2>2, <2>3 DEF TypeOK
  <1>7. InStep'
    BY <1>2, <1>3 DEF InStep, TypeOK, lockVars
  <1>8. Gated'
    BY <1>2, <1>3 DEF Gated, Pinned, ReadOnly, Admitted, Mutating, TypeOK
  <1>9. Vetted'
    <2>1. touched'[c] = touched[c] \cup {h} /\ \A d \in Calls \ {c} : touched'[d] = touched[d]
      BY <1>1 DEF TypeOK
    <2>2. c \notin acted
      BY <1>2 DEF Vetted
    <2>3. QED
      BY <1>1, <1>2, <1>3, <1>4, <2>1, <2>2 DEF Vetted, TypeOK
  <1>10. Recorded'
    <2>1. \A d \in Calls \ {c} : touched'[d] = touched[d]
      BY <1>1 DEF TypeOK
    <2>2. QED
      BY <1>2, <1>3, <2>1 DEF Recorded, TypeOK, Mutating
  <1>11. \A d \in Calls : Ridden(d)'
    BY <1>1, <1>2, <1>3, <1>4, RiddenKept DEF TypeOK, Vetted
  <1>12. QED
    BY <1>5, <1>6, <1>7, <1>8, <1>9, <1>10, <1>11

\* A call_api that is over before or after its request went out.
LEMMA ApiEndsInv ==
  ASSUME IInv, NEW c \in Calls, NEW good \in BOOLEAN, Ends(c, good),
         pc[c] = "sending" \/ (pc[c] = "vetting" /\ ~ good),
         UNCHANGED <<policy, enabled, req, targets, touched, log, acted, reached, lockVars>>
  PROVE  IInv'
  <1> USE DEF IInv
  <1>1. pc' = [pc EXCEPT ![c] = "returning"] /\ ok' = [ok EXCEPT ![c] = good]
    BY DEF Ends, At
  <1>2. LockInv'
    BY LockStutter
  <1>3. TypeOK'
    BY <1>1, <1>2 DEF TypeOK, PCs, LockInv
  <1>4. InStep'
    BY <1>1 DEF InStep, TypeOK, lockVars
  <1>5. Gated'
    BY <1>1 DEF Gated, Pinned, ReadOnly, Admitted, Mutating, TypeOK
  <1>6. Vetted'
    BY <1>1 DEF Vetted, TypeOK
  <1>7. good => c \in acted
    BY DEF Vetted
  <1>8. Recorded'
    BY <1>1, <1>7 DEF Recorded, TypeOK, Mutating
  <1>9. \A d \in Calls : Ridden(d)'
    BY RiddenKept DEF TypeOK, Vetted
  <1>10. QED
    BY <1>2, <1>3, <1>4, <1>5, <1>6, <1>8, <1>9

LEMMA ReturnInv ==
  ASSUME IInv, NEW c \in Calls, Return(c)
  PROVE  IInv'
  <1>1. PICK good \in BOOLEAN : (good => ok[c]) /\ Finish(c, req[c], good)
    BY DEF Return
  <1>2. /\ pc[c] = "returning"
        /\ UNCHANGED <<policy, enabled, req, targets, touched, ok, acted, reached, lockVars>>
    BY DEF Return
  <1>3. QED
    BY <1>1, <1>2, FinishInv DEF IInv, TypeOK

-------------------------------------------------------------------------------
(*****************************************************************************)
(* The theorems.                                                             *)
(*****************************************************************************)
\* The inductive invariant: what the gate has established about a call at each
\* place where it can be suspended (wrap, toggle_state, call_api).
THEOREM GateInvariance == Spec => []IInv
  <1>1. ASSUME IInv, UNCHANGED vars
        PROVE  IInv'
    <2>1. LockInv'
      BY <1>1, LockStutter DEF IInv, vars
    <2>2. UNCHANGED <<policy, enabled, pc, req, targets, touched, ok, log, acted, reached, phase, key, ahead>>
      BY <1>1 DEF vars, gateVars, lockVars
    <2>3. QED
      BY <1>1, <2>1, <2>2 DEF IInv, TypeOK, LockInv, InStep, Gated, Pinned, ReadOnly, Admitted,
         Vetted, Recorded, Ridden
  <1>2. ASSUME IInv, NEW c \in Calls, Enter(c)
        PROVE  IInv'
    BY <1>2, RefuseInv, BeginHostInv, ToggleInv, BeginApiInv DEF Enter
  <1>3. ASSUME IInv, NEW c \in Calls, Resume(c)
        PROVE  IInv'
    <2>1. CASE VetFail(c) \/ Answer(c)
      BY <1>3, <2>1, ApiEndsInv DEF VetFail, Answer
    <2>2. QED
      BY <1>3, <2>1, ResolveOkInv, ResolveFailInv, StartHandlerInv, HandlerEndsInv, VetOkInv,
         ReturnInv DEF Resume
  <1>4. IInv /\ [Next]_vars => IInv'
    BY <1>1, <1>2, <1>3 DEF Next, Terminated
  <1>5. QED
    BY <1>4, InitInv, PTL DEF Spec

\* The state of the gate always has its types (createGate, wrap).
THEOREM GateTypes == Spec => []TypeOK
  BY GateInvariance, PTL DEF IInv

\* A read-only profile and a pinned server let no mutation out, whatever
\* toggle_state is asked before or meanwhile (wrap, toggle_state).
THEOREM ReadOnlyCorrect == Spec => []ReadOnlyHolds
  <1>1. IInv => ReadOnlyHolds
    BY DEF IInv, Gated, Pinned, ReadOnly, ReadOnlyHolds, TypeOK
  <1>2. QED
    BY <1>1, GateInvariance, PTL

\* No call acts on a host that was not looked up and allowed, be it one that the
\* call names or that of a session it rides (resolveAllowed, ownsSession).
THEOREM NoForbiddenHost == Spec => []ForbiddenUntouched
  <1>1. IInv => ForbiddenUntouched
    BY DEF IInv, Vetted, Ridden, ForbiddenUntouched, TypeOK
  <1>2. QED
    BY <1>1, GateInvariance, PTL

\* Every call that leaves has exactly one record.  Its record is true and names
\* every host the call reached, but for the host of a session that call_api rode
\* by its id, which is in the record of the call that opened it (finish,
\* call_api, ownsSession).
THEOREM RecordsCorrect == Spec => []RecordTruthful
  <1>1. ASSUME IInv, NEW c \in Calls, pc[c] = "done"
        PROVE  \E r \in Records : /\ log[c] = <<r>> /\ Len(log[c]) = 1 /\ log[c][1] = r
                                  /\ r.ok => ok[c]
                                  /\ r.hosts = touched[c]
                                  /\ r.mutating = Mutating(req[c])
    <2>1. PICK r \in Records : /\ log[c] = <<r>>
                               /\ r.ok => ok[c]
                               /\ r.hosts = touched[c]
                               /\ r.mutating = Mutating(req[c])
      BY <1>1 DEF IInv, Recorded
    <2>2. Len(log[c]) = 1 /\ log[c][1] = r
      BY <2>1
    <2>3. QED
      BY <2>1, <2>2
  <1>2. ASSUME IInv, NEW c \in Calls, pc[c] = "done"
        PROVE  /\ log[c][1].ok => ok[c] /\ (c \in acted \/ req[c] \in Toggles)
               /\ c \in acted => targets[c] \subseteq log[c][1].hosts
    BY <1>1, <1>2 DEF IInv, Recorded, Vetted
  <1>3. ASSUME IInv, NEW c \in Calls, pc[c] = "done"
        PROVE  \A h \in reached[c] \ log[c][1].hosts :
                 /\ req[c] \in ApiCalls
                 /\ \E d \in acted :
                      /\ req[d] \in HostTools /\ h \in touched[d]
                      /\ pc[d] = "done" => h \in log[d][1].hosts
    <2> TAKE h \in reached[c] \ log[c][1].hosts
    <2>1. h \in reached[c] \ touched[c]
      BY <1>1, <1>3
    <2>2. PICK d \in acted : req[d] \in HostTools /\ h \in touched[d]
      BY <1>3, <2>1 DEF IInv, Ridden
    <2>3. d \in Calls
      BY <1>3, <2>2 DEF IInv, TypeOK
    <2>4. pc[d] = "done" => h \in log[d][1].hosts
      BY <1>1, <1>3, <2>2, <2>3
    <2>5. QED
      BY <1>3, <2>1, <2>2, <2>4 DEF IInv, Ridden
  <1>4. ASSUME IInv, NEW c \in Calls, pc[c] # "done"
        PROVE  Len(log[c]) = 0
    BY <1>4 DEF IInv, Recorded
  <1>5. ASSUME IInv, NEW c \in Calls, pc[c] = "done"
        PROVE  Len(log[c]) = 1 /\ log[c][1].mutating = Mutating(req[c])
    BY <1>1, <1>5
  <1>6. ASSUME IInv
        PROVE  RecordTruthful
    <2>1. \A c \in Calls : Len(log[c]) = (IF pc[c] = "done" THEN 1 ELSE 0)
      BY <1>4, <1>5, <1>6
    <2>2. ASSUME NEW c \in Calls, pc[c] = "done"
          PROVE  /\ log[c][1].ok => ok[c] /\ (c \in acted \/ req[c] \in Toggles)
                 /\ c \in acted => targets[c] \subseteq log[c][1].hosts
                 /\ log[c][1].mutating = Mutating(req[c])
      BY <1>2, <1>5, <1>6, <2>2
    <2>3. QED
      BY <1>3, <1>6, <2>1, <2>2 DEF RecordTruthful
  <1>7. QED
    BY <1>6, GateInvariance, PTL

\* One handler per host at a time, and no handler without the lock (wrap,
\* runExclusive).
THEOREM HandlersExclude == Spec => []OneHandlerPerHost
  <1>1. IInv => OneHandlerPerHost
    BY LockExclusive DEF IInv, InStep, OneHandlerPerHost
  <1>2. QED
    BY <1>1, GateInvariance, PTL
===============================================================================
