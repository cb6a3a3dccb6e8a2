------------------------------- MODULE HostLock -------------------------------
(*****************************************************************************)
(* What the per-host mutex of termix-mcp promises (the comment of            *)
(* util/lock.mjs): calls against one host run one at a time, in the order    *)
(* in which they asked; calls against different hosts run concurrently; a    *)
(* call that fails releases the host like any other.                         *)
(*                                                                           *)
(* A call asks once.  KeyedMutex models the promise chain of the code and    *)
(* implements this module; Gate builds the tool calls on it.                 *)
(*****************************************************************************)
CONSTANTS
  Hosts,  \* the keys
  Calls,  \* the tasks
  None    \* no host

ASSUME NoHostAssumption == None \notin Hosts

VARIABLES
  phase,  \* where a call stands with the lock
  key,    \* the host a call asked for
  ahead   \* the calls for its host that had not finished when it asked

lockVars == <<phase, key, ahead>>

Phases == {"new", "waiting", "holding", "done"}

LockInit ==
  /\ phase = [t \in Calls |-> "new"]
  /\ key = [t \in Calls |-> None]
  /\ ahead = [t \in Calls |-> {}]

Ask(t, k) ==
  /\ phase[t] = "new"
  /\ phase' = [phase EXCEPT ![t] = "waiting"]
  /\ key' = [key EXCEPT ![t] = k]
  /\ ahead' = [ahead EXCEPT ![t] = {u \in Calls : key[u] = k /\ phase[u] # "done"}]

\* Mutant: a call does not wait for its turn.
AcquireAtOnce(t) ==
  /\ phase[t] = "waiting"
  /\ phase' = [phase EXCEPT ![t] = "holding"]
  /\ UNCHANGED <<key, ahead>>

Acquire(t) ==
  /\ phase[t] = "waiting"
  /\ \A u \in ahead[t] : phase[u] = "done"
  /\ phase' = [phase EXCEPT ![t] = "holding"]
  /\ UNCHANGED <<key, ahead>>

Release(t) ==
  /\ phase[t] = "holding"
  /\ phase' = [phase EXCEPT ![t] = "done"]
  /\ UNCHANGED <<key, ahead>>

LockNext ==
  \E t \in Calls : (\E k \in Hosts : Ask(t, k)) \/ Acquire(t) \/ Release(t)

LockSpec == LockInit /\ [][LockNext]_lockVars

LockType ==
  /\ phase \in [Calls -> Phases]
  /\ key \in [Calls -> Hosts \cup {None}]
  /\ ahead \in [Calls -> SUBSET Calls]

\* No two calls for one host run at the same time ("two tool calls against one
\* host must not interleave", util/lock.mjs).
Exclusive ==
  \A t, u \in Calls :
    phase[t] = "holding" /\ phase[u] = "holding" /\ key[t] = key[u] => t = u

\* What is ahead of a call that runs has finished; of two unfinished calls for
\* one host one is ahead of the other.
LockInv ==
  /\ LockType
  /\ \A t \in Calls : phase[t] = "new" <=> key[t] = None
  /\ \A t \in Calls : phase[t] = "holding" => \A u \in ahead[t] : phase[u] = "done"
  /\ \A t, u \in Calls :
       t # u /\ key[t] = key[u] /\ key[t] # None =>
         \/ t \in ahead[u]
         \/ u \in ahead[t]
         \/ phase[t] = "done"
         \/ phase[u] = "done"
===============================================================================
