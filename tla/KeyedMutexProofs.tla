--------------------------- MODULE KeyedMutexProofs ---------------------------
(*****************************************************************************)
(* Proofs about the promise-chain mutex: the Map has an entry exactly for    *)
(* the keys in use, and the chain implements the FIFO lock of HostLock.      *)
(*****************************************************************************)
EXTENDS KeyedMutex, TLAPS

\* A task has a key once it has been queued.
Keyed == \A t \in Tasks : (state[t] = "new") <=> (key[t] = None)

\* The tail of a key is its last task: every other outstanding one is ahead of
\* it; a key without a tail has no outstanding task.
TailIsLast ==
  \A k \in Keys :
    /\ tails[k] = None => \A t \in Tasks : key[t] = k => state[t] = "cleaned"
    /\ tails[k] # None =>
         /\ key[tails[k]] = k /\ Outstanding(tails[k])
         /\ \A u \in Tasks \ {tails[k]} :
              key[u] = k => u \in ahead[tails[k]] \/ state[u] = "cleaned"

\* A waiting task is chained on the last of the tasks ahead of it.
ChainedOnLast ==
  \A t \in Tasks : state[t] = "chained" =>
    /\ prev[t] = None => \A u \in ahead[t] : state[u] = "cleaned"
    /\ prev[t] # None =>
         /\ prev[t] # t /\ state[prev[t]] # "new"
         /\ \A u \in ahead[t] \ {prev[t]} : u \in ahead[prev[t]] \/ state[u] = "cleaned"

\* What is ahead of a task that has started is cleaned up.
StartedInTurn ==
  \A t \in Tasks : state[t] \in {"running", "settled", "cleaned"} =>
    \A u \in ahead[t] : state[u] = "cleaned"

\* Of two outstanding tasks of a key one is ahead of the other.
Ordered ==
  \A t, u \in Tasks :
    t # u /\ key[t] = key[u] /\ key[t] # None =>
      t \in ahead[u] \/ u \in ahead[t] \/ state[t] = "cleaned" \/ state[u] = "cleaned"

IInv == TypeOK /\ Keyed /\ TailIsLast /\ ChainedOnLast /\ StartedInTurn /\ Ordered

LEMMA InitInv == Init => IInv
  BY NoneAssumption DEF Init, IInv, TypeOK, States, Keyed, TailIsLast, ChainedOnLast,
     StartedInTurn, Ordered, Outstanding

\* Queueing a task: it becomes the tail and everything outstanding is ahead.
LEMMA RunExclusiveInv ==
  ASSUME IInv, NEW t \in Tasks, NEW k \in Keys, RunExclusive(t, k)
  PROVE  IInv'
  <1> USE DEF IInv
  <1>1. TypeOK'
    BY DEF RunExclusive, TypeOK, States
  <1>2. /\ state[t] = "new" /\ state'[t] = "chained" /\ key'[t] = k /\ key[t] = None
        /\ prev'[t] = tails[k] /\ tails'[k] = t
        /\ ahead'[t] = {u \in Tasks : key[u] = k /\ Outstanding(u)}
        /\ \A u \in Tasks \ {t} : /\ state'[u] = state[u] /\ key'[u] = key[u]
                                  /\ prev'[u] = prev[u] /\ ahead'[u] = ahead[u]
        /\ \A q \in Keys \ {k} : tails'[q] = tails[q]
    BY DEF RunExclusive, TypeOK, Keyed
  <1>3. \A u \in Tasks : key[u] = k => Outstanding(u) \/ state[u] = "cleaned"
    BY NoneAssumption DEF Keyed, Outstanding, TypeOK, States
  <1>4. Keyed'
    BY <1>2, NoneAssumption DEF Keyed
  <1>5. TailIsLast'
    <2>1. ASSUME NEW q \in Keys \ {k}
          PROVE  tails'[q] # t /\ (tails[q] # None => tails[q] \in Tasks)
      BY <1>2, NoneAssumption DEF TailIsLast, TypeOK, Outstanding
    <2>2. QED
      BY <1>2, <1>3, <2>1, NoneAssumption DEF TailIsLast, Outstanding, TypeOK
  <1>6. ChainedOnLast'
    BY <1>2, <1>3, NoneAssumption DEF ChainedOnLast, TailIsLast, TypeOK, Outstanding
  <1>7. StartedInTurn'
    BY <1>2 DEF StartedInTurn, TypeOK
  <1>8. Ordered'
    BY <1>2, <1>3, NoneAssumption DEF Ordered, TypeOK
  <1>9. QED
    BY <1>1, <1>4, <1>5, <1>6, <1>7, <1>8

\* A task starts: its predecessor is cleaned up, and so is what was ahead of it.
LEMMA StartInv ==
  ASSUME IInv, NEW t \in Tasks, Start(t)
  PROVE  IInv'
  <1> USE DEF IInv
  <1>1. TypeOK'
    BY DEF Start, TypeOK, States
  <1>2. /\ state[t] = "chained" /\ state'[t] = "running"
        /\ \A u \in Tasks \ {t} : state'[u] = state[u]
        /\ UNCHANGED <<tails, prev, key, ahead>>
    BY DEF Start, TypeOK
  <1>3. \A u \in ahead[t] : state[u] = "cleaned"
    BY DEF Start, ChainedOnLast, StartedInTurn, TypeOK
  <1>4. Keyed'
    BY <1>2 DEF Keyed
  <1>5. TailIsLast'
    BY <1>2 DEF TailIsLast, Outstanding, TypeOK
  <1>6. ChainedOnLast'
    BY <1>2 DEF ChainedOnLast, TypeOK
  <1>7. StartedInTurn'
    BY <1>2, <1>3 DEF StartedInTurn, TypeOK
  <1>8. Ordered'
    BY <1>2 DEF Ordered, TypeOK
  <1>9. QED
    BY <1>1, <1>4, <1>5, <1>6, <1>7, <1>8

\* A task ends.
LEMMA EndInv ==
  ASSUME IInv, NEW t \in Tasks, End(t)
  PROVE  IInv'
  <1> USE DEF IInv
  <1>1. TypeOK'
    BY DEF End, TypeOK, States
  <1>2. /\ state[t] = "running" /\ state'[t] = "settled"
        /\ \A u \in Tasks \ {t} : state'[u] = state[u]
        /\ UNCHANGED <<tails, prev, key, ahead>>
    BY DEF End, TypeOK
  <1>3. Keyed'
    BY <1>2 DEF Keyed
  <1>4. TailIsLast'
    BY <1>2 DEF TailIsLast, Outstanding, TypeOK
  <1>5. ChainedOnLast'
    BY <1>2 DEF ChainedOnLast, TypeOK
  <1>6. StartedInTurn'
    BY <1>2 DEF StartedInTurn, TypeOK
  <1>7. Ordered'
    BY <1>2 DEF Ordered, TypeOK
  <1>8. QED
    BY <1>1, <1>3, <1>4, <1>5, <1>6, <1>7

\* A task is cleaned up: if it was the tail, nothing of its key is outstanding.
LEMMA CleanUpInv ==
  ASSUME IInv, NEW t \in Tasks, CleanUp(t)
  PROVE  IInv'
  <1> USE DEF IInv
  <1>1. key[t] \in Keys
    BY DEF CleanUp, Keyed, TypeOK
  <1>2. TypeOK'
    BY <1>1 DEF CleanUp, TypeOK, States
  <1>3. /\ state[t] = "settled" /\ state'[t] = "cleaned"
        /\ \A u \in Tasks \ {t} : state'[u] = state[u]
        /\ tails'[key[t]] = IF tails[key[t]] = t THEN None ELSE tails[key[t]]
        /\ \A k \in Keys \ {key[t]} : tails'[k] = tails[k]
        /\ UNCHANGED <<prev, key, ahead>>
    BY <1>1 DEF CleanUp, TypeOK
  <1>4. Keyed'
    BY <1>3 DEF Keyed
  <1>5. TailIsLast'
    <2>1. ASSUME NEW k \in Keys, k # key[t]
          PROVE  tails'[k] = tails[k] /\ tails[k] # t
      BY <1>3, <2>1, NoneAssumption DEF TailIsLast
    <2>2. \A u \in ahead[t] : state[u] = "cleaned"
      BY <1>3 DEF StartedInTurn
    <2>3. QED
      BY <1>1, <1>3, <2>1, <2>2, NoneAssumption DEF TailIsLast, Outstanding, TypeOK
  <1>6. ChainedOnLast'
    BY <1>3 DEF ChainedOnLast, TypeOK
  <1>7. StartedInTurn'
    BY <1>3 DEF StartedInTurn, TypeOK
  <1>8. Ordered'
    BY <1>3 DEF Ordered, TypeOK
  <1>9. QED
    BY <1>2, <1>4, <1>5, <1>6, <1>7, <1>8

\* The inductive invariant of the mutex (runExclusive).
THEOREM MutexInvariance == Spec => []IInv
  <1>1. ASSUME IInv, UNCHANGED vars
        PROVE  IInv'
    BY <1>1 DEF vars, IInv, TypeOK, Keyed, TailIsLast, ChainedOnLast, StartedInTurn,
       Ordered, Outstanding
  <1>2. IInv /\ [Next]_vars => IInv'
    BY <1>1, RunExclusiveInv, StartInv, EndInv, CleanUpInv DEF Next, Step, Terminated
  <1>3. QED
    BY <1>2, InitInv, PTL DEF Spec

\* The Map of util/lock.mjs holds an entry for a key exactly while a task of the
\* key is outstanding: no idle key leaks, no busy key is forgotten.
THEOREM MapCorrect == Spec => []EntryWhileBusy
  <1>1. ASSUME IInv, NEW k \in Keys
        PROVE  tails[k] # None <=> \E t \in Tasks : key[t] = k /\ Outstanding(t)
    <2>1. CASE tails[k] # None
      <3>1. tails[k] \in Tasks /\ key[tails[k]] = k /\ Outstanding(tails[k])
        BY <1>1, <2>1 DEF IInv, TypeOK, TailIsLast
      <3>2. QED
        BY <2>1, <3>1
    <2>2. CASE tails[k] = None
      <3>1. \A t \in Tasks : key[t] = k => ~ Outstanding(t)
        BY <1>1, <2>2 DEF IInv, TailIsLast, Outstanding
      <3>2. QED
        BY <2>2, <3>1
    <2>3. QED
      BY <2>1, <2>2
  <1>2. IInv => EntryWhileBusy
    BY <1>1 DEF EntryWhileBusy
  <1>3. QED
    BY <1>2, MutexInvariance, PTL

\* The phase of a task under the refinement mapping.
LEMMA PhaseValue ==
  ASSUME TypeOK, NEW t \in Tasks
  PROVE  /\ PhaseOf(t) = "new" <=> state[t] = "new"
         /\ PhaseOf(t) = "waiting" <=> state[t] = "chained"
         /\ PhaseOf(t) = "holding" <=> state[t] \in {"running", "settled"}
         /\ PhaseOf(t) = "done" <=> state[t] = "cleaned"
  BY DEF PhaseOf, TypeOK, States

\* runExclusive runs the tasks of one key one at a time, in the order in which
\* they were queued: the promise chain implements the FIFO lock.
THEOREM ChainImplementsLock == Spec => ImplementsLock
  <1> DEFINE f == [t \in Tasks |-> PhaseOf(t)]
  <1>1. Init => Lock!LockInit
    BY DEF Init, Lock!LockInit, PhaseOf
  <1>2. ASSUME IInv, IInv', [Next]_vars
        PROVE  [Lock!LockNext]_(Lock!lockVars)
    <2>1. TypeOK /\ TypeOK'
      BY <1>2 DEF IInv
    <2>2. ASSUME NEW t \in Tasks, state' = [state EXCEPT ![t] = state'[t]]
          PROVE  f' = [f EXCEPT ![t] = PhaseOf(t)']
      <3>1. \A u \in Tasks \ {t} : state'[u] = state[u]
        BY <2>1, <2>2 DEF TypeOK
      <3>2. \A u \in Tasks \ {t} : PhaseOf(u)' = PhaseOf(u)
        BY <3>1 DEF PhaseOf
      <3>3. QED
        BY <3>2
    <2>3. ASSUME NEW t \in Tasks, NEW k \in Keys, RunExclusive(t, k)
          PROVE  Lock!Ask(t, k)
      <3>1. state[t] = "new" /\ state' = [state EXCEPT ![t] = "chained"] /\ state'[t] = "chained"
        BY <2>1, <2>3 DEF RunExclusive, TypeOK
      <3>2. f[t] = "new" /\ f' = [f EXCEPT ![t] = "waiting"]
        BY <2>1, <2>2, <3>1, PhaseValue DEF PhaseOf
      <3>3. \A u \in Tasks : key[u] = k => (Outstanding(u) <=> f[u] # "done")
        BY <1>2, <2>1, PhaseValue, NoneAssumption
           DEF IInv, Keyed, TypeOK, States, Outstanding
      <3>4. ahead' = [ahead EXCEPT ![t] = {u \in Tasks : key[u] = k /\ f[u] # "done"}]
        BY <2>3, <3>3 DEF RunExclusive
      <3>5. key' = [key EXCEPT ![t] = k]
        BY <2>3 DEF RunExclusive
      <3> HIDE DEF f
      <3>6. QED
        BY <3>2, <3>4, <3>5 DEF Lock!Ask, f
    <2>4. ASSUME NEW t \in Tasks, Start(t)
          PROVE  Lock!Acquire(t)
      <3>1. state[t] = "chained" /\ state' = [state EXCEPT ![t] = "running"] /\ state'[t] = "running"
        BY <2>1, <2>4 DEF Start, TypeOK
      <3>2. f[t] = "waiting" /\ f' = [f EXCEPT ![t] = "holding"]
        BY <2>1, <2>2, <3>1, PhaseValue DEF PhaseOf
      <3>3. \A u \in ahead[t] : state[u] = "cleaned"
        BY <1>2, <2>4 DEF Start, IInv, ChainedOnLast, StartedInTurn, TypeOK
      <3>4. \A u \in ahead[t] : f[u] = "done"
        BY <2>1, <3>3, PhaseValue DEF TypeOK
      <3>5. UNCHANGED <<key, ahead>>
        BY <2>4 DEF Start
      <3> HIDE DEF f
      <3>6. QED
        BY <3>2, <3>4, <3>5 DEF Lock!Acquire, f
    <2>5. ASSUME NEW t \in Tasks, End(t)
          PROVE  UNCHANGED Lock!lockVars
      <3>1. state[t] = "running" /\ state' = [state EXCEPT ![t] = "settled"] /\ state'[t] = "settled"
        BY <2>1, <2>5 DEF End, TypeOK
      <3>2. f[t] = "holding" /\ f' = [f EXCEPT ![t] = "holding"]
        BY <2>1, <2>2, <3>1, PhaseValue DEF PhaseOf
      <3>3. f' = f
        BY <3>2
      <3> HIDE DEF f
      <3>4. QED
        BY <2>5, <3>3 DEF End, Lock!lockVars, f
    <2>6. ASSUME NEW t \in Tasks, CleanUp(t)
          PROVE  Lock!Release(t)
      <3>1. state[t] = "settled" /\ state' = [state EXCEPT ![t] = "cleaned"] /\ state'[t] = "cleaned"
        BY <2>1, <2>6 DEF CleanUp, TypeOK
      <3>2. f[t] = "holding" /\ f' = [f EXCEPT ![t] = "done"]
        BY <2>1, <2>2, <3>1, PhaseValue DEF PhaseOf
      <3>3. UNCHANGED <<key, ahead>>
        BY <2>6 DEF CleanUp
      <3> HIDE DEF f
      <3>4. QED
        BY <3>2, <3>3 DEF Lock!Release, f
    <2>7. CASE UNCHANGED vars
      <3>1. f' = f
        BY <2>7 DEF vars, PhaseOf
      <3> HIDE DEF f
      <3>2. QED
        BY <2>7, <3>1 DEF vars, Lock!lockVars, f
    <2>8. QED
      BY <1>2, <2>3, <2>4, <2>5, <2>6, <2>7 DEF Next, Step, Terminated, Lock!LockNext
  <1>3. QED
    BY <1>1, <1>2, MutexInvariance, PTL DEF Spec, ImplementsLock, Lock!LockSpec

\* Two tasks of one key never run at the same time ("two tool calls against one
\* host must not interleave", util/lock.mjs).
THEOREM MutualExclusion == Spec => []Lock!Exclusive
  <1>1. ASSUME IInv
        PROVE  Lock!Exclusive
    <2>1. ASSUME NEW t \in Tasks, NEW u \in Tasks, PhaseOf(t) = "holding",
                 PhaseOf(u) = "holding", key[t] = key[u], t # u
          PROVE  FALSE
      <3>1. state[t] \in {"running", "settled"} /\ state[u] \in {"running", "settled"}
        BY <1>1, <2>1, PhaseValue DEF IInv
      <3>2. key[t] # None
        BY <1>1, <3>1 DEF IInv, Keyed
      <3>3. t \in ahead[u] \/ u \in ahead[t]
        BY <1>1, <2>1, <3>1, <3>2 DEF IInv, Ordered
      <3>4. QED
        BY <1>1, <3>1, <3>3 DEF IInv, StartedInTurn
    <2>2. QED
      BY <2>1 DEF Lock!Exclusive
  <1>2. QED
    BY <1>1, MutexInvariance, PTL
===============================================================================
