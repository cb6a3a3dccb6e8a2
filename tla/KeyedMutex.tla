------------------------------ MODULE KeyedMutex ------------------------------
(*****************************************************************************)
(* The promise-chain mutex of termix-mcp (util/lock.mjs).  A Map holds, per  *)
(* key, the promise of the last task queued on it (its tail); a new task     *)
(* chains itself on that promise and replaces it, and a reaction on the      *)
(* tail deletes the Map entry if it is still the last.                       *)
(*                                                                           *)
(* One action is one synchronous piece of code or one microtask.  The        *)
(* reactions of a promise run in the order in which they were registered:    *)
(* the clean-up of a tail is registered by the call that made it, so it      *)
(* runs before any task that chained itself on that tail.                    *)
(*****************************************************************************)
CONSTANTS
  Keys,   \* host ids
  Tasks,  \* calls of runExclusive
  None    \* no entry, no key

ASSUME NoneAssumption == None \notin Keys \cup Tasks

VARIABLES
  tails,  \* the Map: the task whose promise is the tail of a key
  prev,   \* the task whose tail a task is chained on, None for a resolved promise
  state,  \* how far a task's promises have come
  key,    \* the key a task was queued with
  failed, \* the tasks that threw
  ahead   \* HISTORY: outstanding tasks of its key when a task was queued

vars == <<tails, prev, state, key, failed, ahead>>

\* "settled": the task has ended, well or not, and so have run and tail;
\* "cleaned": the finally reaction of tail has run too.
States == {"new", "chained", "running", "settled", "cleaned"}

\* Queued and not cleaned up yet.
Outstanding(t) == state[t] \in {"chained", "running", "settled"}

Init ==
  /\ tails = [k \in Keys |-> None]
  /\ prev = [t \in Tasks |-> None]
  /\ state = [t \in Tasks |-> "new"]
  /\ key = [t \in Tasks |-> None]
  /\ failed = {}
  /\ ahead = [t \in Tasks |-> {}]

RunExclusive(t, k) ==
  /\ state[t] = "new"
  /\ prev' = [prev EXCEPT ![t] = tails[k]]
  /\ tails' = [tails EXCEPT ![k] = t]
  /\ state' = [state EXCEPT ![t] = "chained"]
  /\ key' = [key EXCEPT ![t] = k]
  /\ ahead' = [ahead EXCEPT ![t] =
                  {u \in Tasks : key[u] = k /\ Outstanding(u)}]
  /\ UNCHANGED failed

\* Mutant: a rejection wedges the chain.
StartAfterSuccess(t) ==
  /\ state[t] = "chained"
  /\ prev[t] # None => state[prev[t]] = "cleaned" /\ prev[t] \notin failed
  /\ state' = [state EXCEPT ![t] = "running"]
  /\ UNCHANGED <<tails, prev, key, failed, ahead>>

\* previous.then: the task starts once the tail it is chained on has settled
\* and the clean-up registered before it has run.
Start(t) ==
  /\ state[t] = "chained"
  /\ prev[t] # None => state[prev[t]] = "cleaned"
  /\ state' = [state EXCEPT ![t] = "running"]
  /\ UNCHANGED <<tails, prev, key, failed, ahead>>

\* The task returns or throws: run settles either way, and tail with it.
End(t) ==
  /\ state[t] = "running"
  /\ state' = [state EXCEPT ![t] = "settled"]
  /\ failed' \in {failed, failed \cup {t}}
  /\ UNCHANGED <<tails, prev, key, ahead>>

\* Mutant: the clean-up deletes the entry whoever is last.
CleanUpAlways(t) ==
  /\ state[t] = "settled"
  /\ tails' = [tails EXCEPT ![key[t]] = None]
  /\ state' = [state EXCEPT ![t] = "cleaned"]
  /\ UNCHANGED <<prev, key, failed, ahead>>

\* Mutant: the Map entry is never deleted.
CleanUpNever(t) ==
  /\ state[t] = "settled"
  /\ state' = [state EXCEPT ![t] = "cleaned"]
  /\ UNCHANGED <<tails, prev, key, failed, ahead>>

\* tail.finally
CleanUp(t) ==
  /\ state[t] = "settled"
  /\ tails' = [tails EXCEPT ![key[t]] = IF @ = t THEN None ELSE @]
  /\ state' = [state EXCEPT ![t] = "cleaned"]
  /\ UNCHANGED <<prev, key, failed, ahead>>

Step(t) == Start(t) \/ End(t) \/ CleanUp(t)

\* Every task has been queued and cleaned up: the end of a bounded run, so that
\* TLC reports any other state without a successor as a deadlock.
Terminated == (\A t \in Tasks : state[t] = "cleaned") /\ UNCHANGED vars

Next ==
  \/ \E t \in Tasks : (\E k \in Keys : RunExclusive(t, k)) \/ Step(t)
  \/ Terminated

Spec == Init /\ [][Next]_vars

\* A microtask that is due runs; a task ends because everything it awaits does.
Fairness == \A t \in Tasks : WF_vars(Step(t))
FairSpec == Spec /\ Fairness

-------------------------------------------------------------------------------
(*****************************************************************************)
(* Properties.                                                               *)
(*****************************************************************************)
\* The types of the mutex's state.
TypeOK ==
  /\ tails \in [Keys -> Tasks \cup {None}]
  /\ prev \in [Tasks -> Tasks \cup {None}]
  /\ state \in [Tasks -> States]
  /\ key \in [Tasks -> Keys \cup {None}]
  /\ failed \in SUBSET Tasks
  /\ ahead \in [Tasks -> SUBSET Tasks]

\* The Map holds an entry for a key exactly while a task of that key is
\* outstanding: idle keys do not leak, and a key with work queued is never
\* forgotten, which would let the next task start beside it (runExclusive).
EntryWhileBusy ==
  \A k \in Keys : tails[k] # None <=> \E t \in Tasks : key[t] = k /\ Outstanding(t)

\* A queued task runs to its end however the tasks before it end.
EveryTaskEnds == \A t \in Tasks : state[t] = "chained" ~> state[t] = "cleaned"

-------------------------------------------------------------------------------
(*****************************************************************************)
(* The promise chain implements the FIFO lock.                               *)
(*****************************************************************************)
PhaseOf(t) ==
  CASE state[t] = "new" -> "new"
    [] state[t] = "chained" -> "waiting"
    [] state[t] \in {"running", "settled"} -> "holding"
    [] state[t] = "cleaned" -> "done"

\* A task holds the key from its start until the clean-up that lets the next in.
Lock ==
  INSTANCE HostLock WITH Hosts <- Keys, Calls <- Tasks, phase <- [t \in Tasks |-> PhaseOf(t)]

\* Tasks of one key run one at a time and in the order in which they were
\* queued, whatever Map entries come and go (HostLock).
ImplementsLock == Lock!LockSpec
===============================================================================
