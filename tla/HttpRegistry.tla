----------------------------- MODULE HttpRegistry -----------------------------
(*****************************************************************************)
(* The registry of MCP sessions of the HTTP transport (index-http.mjs,       *)
(* mcp/http-session.mjs).  Requests run concurrently.  One for a registered  *)
(* session touches it, reaps the others, reads its body and is handed to     *)
(* the session's transport; an initialize builds a server, registers it and  *)
(* then reaps.  Reaping selects its victims at once but drops them one by    *)
(* one, and a drop waits for Termix while other requests go on.              *)
(*                                                                           *)
(* One action is one turn of the event loop.  A request that is refused      *)
(* (token, origin, profile, unknown session) changes nothing and is left     *)
(* out.  Session ids are UUIDs; an id nothing refers to may be drawn again.  *)
(*****************************************************************************)
EXTENDS Integers, Sequences, FiniteSets

CONSTANTS
  Requests,     \* the HTTP requests under way at once
  Sids,         \* MCP session ids
  None,         \* no session
  MaxSessions,  \* config.mcpMaxSessions; 0 for no cap
  IdleMs,       \* config.mcpSessionIdleMs, in ticks of the clock; 0 for no limit
  MaxTime       \* BOUND: the clock stops here

ASSUME NoSidAssumption == None \notin Sids
ASSUME RegistryAssumption ==
  IsFiniteSet(Requests) /\ MaxSessions \in Nat /\ IdleMs \in Nat /\ MaxTime \in Nat

VARIABLES
  registry,  \* the Map sessions: its keys in insertion order
  lastSeen,  \* entry.lastSeen
  open,      \* sessions whose manager and emitter have not been released
  req,       \* where a request waits, its session, and the drops it has to make
  now        \* Date.now()

vars == <<registry, lastSeen, open, req, now>>

PCs == {"none", "probing", "initializing", "reaping", "reading", "handling", "closing"}

\* dropping: the session whose closeAll is awaited; todo: the rest of expired.
NoRequest ==
  [pc |-> "none", sid |-> None, isNew |-> FALSE, dropping |-> None, todo |-> <<>>]

Init ==
  /\ registry = <<>>
  /\ lastSeen = [s \in Sids |-> 0]
  /\ open = {}
  /\ req = [r \in Requests |-> NoRequest]
  /\ now = 0

-------------------------------------------------------------------------------
(*****************************************************************************)
(* Which sessions to drop, given the registry m and the lastSeen times ls.   *)
(*****************************************************************************)
Elements(q) == {q[i] : i \in DOMAIN q}
Registered == Elements(registry)

IsIdle(s, ls) == IdleMs > 0 /\ now - ls[s] >= IdleMs

\* The order of the Map's keys, and that of a stable sort by lastSeen.
MapOrder(m) ==
  {p \in Elements(m) \X Elements(m) :
     \E i, j \in DOMAIN m : i < j /\ m[i] = p[1] /\ m[j] = p[2]}

SeenOrder(m, ls) ==
  {p \in Elements(m) \X Elements(m) :
     ls[p[1]] < ls[p[2]] \/ (ls[p[1]] = ls[p[2]] /\ p \in MapOrder(m))}

\* The elements of S as a list, in the order R.
Rank(S, R, s) == Cardinality({t \in S : <<t, s>> \in R})
Listed(S, R) == [i \in 1..Cardinality(S) |-> CHOOSE s \in S : Rank(S, R, s) = i - 1]

\* sessions.delete
Without(m, S) == Listed(Elements(m) \ S, MapOrder(m))

\* Mutant: the session that serves the request is a candidate for the cap.
SurvivingWithKept(m, ls, keep) == {s \in Elements(m) : ~ IsIdle(s, ls)}

\* Neither the kept session nor an idle one.
Surviving(m, ls, keep) == {s \in Elements(m) \ {keep} : ~ IsIdle(s, ls)}

\* Mutant: the kept session does not count.
OverWithoutKept(m, ls, keep) == Cardinality(Surviving(m, ls, keep)) - MaxSessions

\* Mutant: a slot is kept for a session even when there is none to keep.
OverWithSlot(m, ls, keep) == Cardinality(Surviving(m, ls, keep)) + 1 - MaxSessions

\* How many more have to go; the kept session occupies a slot too.
Over(m, ls, keep) ==
  IF MaxSessions = 0 THEN 0
  ELSE Cardinality(Surviving(m, ls, keep)) + (IF keep = None THEN 0 ELSE 1) - MaxSessions

\* selectExpiredSessions: the idle ones in Map order, then the least recently
\* seen until the cap is met.
Expired(m, ls, keep) ==
  LET idle == {s \in Elements(m) \ {keep} : IsIdle(s, ls)} IN
  Listed(idle, MapOrder(m))
    \o SubSeq(Listed(Surviving(m, ls, keep), SeenOrder(m, ls)), 1, Over(m, ls, keep))

-------------------------------------------------------------------------------
(*****************************************************************************)
(* Requests.                                                                 *)
(*****************************************************************************)
Wait(r, pc, s, new, d, q) ==
  req' = [req EXCEPT ![r] =
            [pc |-> pc, sid |-> s, isNew |-> new, dropping |-> d, todo |-> q]]
Leave(r) == req' = [req EXCEPT ![r] = NoRequest]

\* Reaped: an initialize is answered, any other request reads its body.
Reaped(r, s, new) ==
  IF new THEN Leave(r) ELSE Wait(r, "reading", s, FALSE, None, <<>>)

\* The loop of reapSessions over q, given the registry m and the open sessions
\* o.  A drop finds no entry and returns, or deletes the entry and closes the
\* session; the first whose closeAll has something to close on Termix suspends
\* the request.
DropAll(r, s, new, q, m, o) ==
  \E n \in 0..Len(q) :
    LET done == Elements(SubSeq(q, 1, n)) \cap Elements(m) IN
    \/ /\ n = Len(q)
       /\ registry' = Without(m, done)
       /\ open' = o \ done
       /\ Reaped(r, s, new)
    \/ /\ n < Len(q)
       /\ q[n + 1] \in Elements(m)
       /\ registry' = Without(m, done \cup {q[n + 1]})
       /\ open' = o \ done
       /\ Wait(r, "reaping", s, new, q[n + 1], SubSeq(q, n + 2, Len(q)))

Reap(r, s, new, m, ls, o) == DropAll(r, s, new, Expired(m, ls, s), m, o)

Fresh(s) ==
  /\ s \notin Registered \cup open
  /\ \A r \in Requests : s \notin {req[r].sid, req[r].dropping} \cup Elements(req[r].todo)

-------------------------------------------------------------------------------
\* A request for a registered session: touch, then reap.
Touch(r, s) ==
  /\ req[r].pc = "none"
  /\ s \in Registered
  /\ lastSeen' = [lastSeen EXCEPT ![s] = now]
  /\ Reap(r, s, FALSE, registry, lastSeen', open)
  /\ UNCHANGED now

\* An initialize: the server is built and probes Termix.
Build(r) ==
  /\ req[r].pc = "none"
  /\ Wait(r, "probing", None, TRUE, None, <<>>)
  /\ UNCHANGED <<registry, lastSeen, open, now>>

\* Mutant: an entry is registered without lastSeen.
RegisterUndated(r, s) ==
  /\ req[r].pc = "probing"
  /\ Fresh(s)
  /\ registry' = Append(registry, s)
  /\ lastSeen' = [lastSeen EXCEPT ![s] = None]
  /\ open' = open \cup {s}
  /\ Wait(r, "initializing", s, TRUE, None, <<>>)
  /\ UNCHANGED now

\* The probe is over; the transport initializes the session and registers it.
Register(r, s) ==
  /\ req[r].pc = "probing"
  /\ Fresh(s)
  /\ registry' = Append(registry, s)
  /\ lastSeen' = [lastSeen EXCEPT ![s] = now]
  /\ open' = open \cup {s}
  /\ Wait(r, "initializing", s, TRUE, None, <<>>)
  /\ UNCHANGED now

\* The transport refuses the initialize, or fails; what was built is garbage.
Reject(r) ==
  /\ req[r].pc = "probing"
  /\ \/ Reap(r, None, TRUE, registry, lastSeen, open)
     \/ Leave(r) /\ UNCHANGED <<registry, open>>
  /\ UNCHANGED <<lastSeen, now>>

\* The initialize is answered: reap, keeping the new session.
Initialized(r) ==
  /\ req[r].pc = "initializing"
  /\ Reap(r, req[r].sid, TRUE, registry, lastSeen, open)
  /\ UNCHANGED <<lastSeen, now>>

\* Mutant: the loop ends with the drop that suspended it.
DropDoneEnds(r) ==
  /\ req[r].pc = "reaping"
  /\ open' = open \ {req[r].dropping}
  /\ Reaped(r, req[r].sid, req[r].isNew)
  /\ UNCHANGED <<registry, lastSeen, now>>

\* closeAll of the dropped session has been answered: its emitter and transport
\* are closed (onclose finds nothing left to do), and the loop goes on.
DropDone(r) ==
  /\ req[r].pc = "reaping"
  /\ DropAll(r, req[r].sid, req[r].isNew, req[r].todo, registry, open \ {req[r].dropping})
  /\ UNCHANGED <<lastSeen, now>>

\* The body has been read: the transport gets the request, whether or not its
\* session is still registered.
Handle(r) ==
  /\ req[r].pc = "reading"
  /\ Wait(r, "handling", req[r].sid, FALSE, None, <<>>)
  /\ UNCHANGED <<registry, lastSeen, open, now>>

\* Mutant: onclose leaves the Map entry in place.
CloseKeepsEntry(r) ==
  /\ req[r].pc = "reading"
  /\ Wait(r, "closing", req[r].sid, FALSE, None, <<>>)
  /\ UNCHANGED <<registry, lastSeen, open, now>>

\* The request is a DELETE: the transport closes, and onclose deletes the entry
\* and calls closeAll.
Close(r) ==
  /\ req[r].pc = "reading"
  /\ registry' = Without(registry, {req[r].sid})
  /\ Wait(r, "closing", req[r].sid, FALSE, None, <<>>)
  /\ UNCHANGED <<lastSeen, open, now>>

\* closeAll of onclose has been answered: the emitter is closed.
Closed(r) ==
  /\ req[r].pc = "closing"
  /\ open' = open \ {req[r].sid}
  /\ Leave(r)
  /\ UNCHANGED <<registry, lastSeen, now>>

Answer(r) ==
  /\ req[r].pc = "handling"
  /\ Leave(r)
  /\ UNCHANGED <<registry, lastSeen, open, now>>

Tick ==
  /\ now < MaxTime
  /\ now' = now + 1
  /\ UNCHANGED <<registry, lastSeen, open, req>>

Arrive(r) == Build(r) \/ \E s \in Sids : Touch(r, s)

Resume(r) ==
  \/ \E s \in Sids : Register(r, s)
  \/ Reject(r)
  \/ Initialized(r)
  \/ DropDone(r)
  \/ Handle(r)
  \/ Close(r)
  \/ Closed(r)

Next == Tick \/ \E r \in Requests : Arrive(r) \/ Resume(r) \/ Answer(r)

Spec == Init /\ [][Next]_vars

\* Termix answers the requests of a probe or a closeAll, or they time out; a
\* client sends the body it announced or its socket times out.  A request that
\* is being handled may stay so: the event stream of a session is one.
FairSpec == Spec /\ \A r \in Requests : WF_vars(Resume(r))

-------------------------------------------------------------------------------
(*****************************************************************************)
(* Properties.                                                               *)
(*****************************************************************************)
RequestRecords ==
  [pc : PCs, sid : Sids \cup {None}, isNew : BOOLEAN, dropping : Sids \cup {None},
   todo : Seq(Sids)]

\* The types of the registry's state.
TypeOK ==
  /\ registry \in Seq(Sids)
  /\ lastSeen \in [Sids -> Nat]
  /\ open \in SUBSET Sids
  /\ req \in [Requests -> RequestRecords]
  /\ now \in Nat

\* The sessions S are within the cap, or there is none.
WithinCap(S) == MaxSessions > 0 => Cardinality(S) <= MaxSessions

Doomed == UNION {Elements(req[r].todo) : r \in Requests}
Initializing == {r \in Requests : req[r].pc = "initializing"}

\* Apart from sessions some request is about to drop, and the one each
\* initialize has registered but not reaped after, the registry keeps its cap,
\* however many requests reap at the same time (reapSessions).
RegistryBounded ==
  MaxSessions > 0 =>
    Cardinality(Registered \ Doomed) <= MaxSessions + Cardinality(Initializing)

\* A session in the registry has not been released, and one that has left it is
\* released or some request is at it: dropSession and onclose "run the same
\* cleanup, and either order is safe" (index-http.mjs).
ReleasedExactly ==
  /\ Registered \subseteq open
  /\ \A s \in open \ Registered :
       \E r \in Requests : req[r].dropping = s \/ (req[r].pc = "closing" /\ req[r].sid = s)

\* A session that was selected for dropping leaves the registry, whoever else
\* drops or closes it first (reapSessions, dropSession).
DoomedLeaves == \A s \in Sids : s \in Doomed ~> s \notin Registered

\* A request never reaps the session it serves or has just created ("the
\* session serving the current request [...] must never be selected",
\* selectExpiredSessions).
KeptStays ==
  [][\A r \in Requests :
       req'[r] # req[r] /\ req'[r].pc # "closing" =>
         (Registered \ Registered') \cap {req[r].sid, req'[r].sid} = {}]_vars

\* While the registry is within its cap, what leaves it is closed by its client
\* or has been idle for the configured time ("Touch before reaping, so the
\* session serving this request is current", handleMcp).
DroppedWasIdle ==
  [][WithinCap(Registered) =>
       \A s \in Registered \ Registered' :
         \/ IsIdle(s, lastSeen)
         \/ \E r \in Requests : req'[r].pc = "closing" /\ req'[r].sid = s]_vars

\* The same, as far as it holds: a session may have been selected before, or go
\* because a new session still counts in selectExpiredSessions although another
\* request has dropped or closed it before its initialize was answered.
DroppedWithReason ==
  [][WithinCap(Registered) =>
       \A s \in Registered \ Registered' :
         \/ IsIdle(s, lastSeen) \/ s \in Doomed
         \/ \E r \in Requests : req'[r].pc = "closing" /\ req'[r].sid = s
         \/ \E r \in Initializing : req[r].sid \notin Registered]_vars
===============================================================================
