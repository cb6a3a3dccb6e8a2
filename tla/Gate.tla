--------------------------------- MODULE Gate ---------------------------------
(*****************************************************************************)
(* The gate of termix-mcp (mcp/gate.mjs), through which every tool call      *)
(* passes, with the two tools that interact with it (mcp/tools/meta.mjs):    *)
(* toggle_state, which changes the mutation flag the gate consults, and      *)
(* call_api, which names its hosts in a body the gate does not read.         *)
(*                                                                           *)
(* A call is checked against the access profile and the mutation flag,       *)
(* its host is resolved and vetted, it waits for the host's mutex            *)
(* (HostLock, which KeyedMutex implements), its handler runs, and an audit   *)
(* record is written however it ends.  One action is one turn of the event   *)
(* loop; turns of different calls interleave freely.  One instance is one    *)
(* MCP session: it has its own flag, mutex and profile.                      *)
(*****************************************************************************)
EXTENDS HostLock, Sequences

CONSTANT
  Policies  \* the configurations to consider: access profile and settings

\* A host tool that reads and one that writes; toggle_state with its two
\* arguments; call_api with GET and with any other method.
Requests == {"read", "write", "enable", "disable", "apiGet", "apiWrite"}
HostTools == {"read", "write"}
Toggles == {"enable", "disable"}
ApiCalls == {"apiGet", "apiWrite"}

Tools == {"read", "write", "toggle_state", "call_api"}
Tool(q) == IF q \in Toggles THEN "toggle_state" ELSE IF q \in ApiCalls THEN "call_api" ELSE q

\* spec.mutating, a predicate for call_api.
Mutating(q) == q \in {"write", "apiWrite"}

\* tools and hosts that profile and blocklist grant; whether the profile may
\* write (writes); config.allowToggle; config.mutationsEnabled.
PolicyType ==
  [tools : SUBSET Tools, hosts : SUBSET Hosts, writes : BOOLEAN,
   allowToggle : BOOLEAN, startEnabled : BOOLEAN]

ASSUME PoliciesAssumption == Policies \subseteq PolicyType

VARIABLES
  policy,    \* the configuration, fixed
  enabled,   \* state.mutationsEnabled
  pc,        \* where a call waits
  req,       \* what it asks for
  targets,   \* the hosts it asks for: hostArg, or the ids in the body of call_api
  touched,   \* touchedHosts: the hosts the record will name
  ok,        \* how its handler ended
  log,       \* its audit records
  acted,     \* HISTORY: calls whose handler or request has gone out to Termix
  reached    \* HISTORY: the hosts that what went out acts on

gateVars == <<policy, enabled, pc, req, targets, touched, ok, log, acted, reached>>
vars == <<gateVars, lockVars>>

PCs == {"new", "resolving", "queued", "running", "vetting", "sending", "returning", "done"}

Init ==
  /\ policy \in Policies
  /\ enabled = (policy.startEnabled /\ policy.writes)
  /\ pc = [c \in Calls |-> "new"]
  /\ req = [c \in Calls |-> "read"]
  /\ targets = [c \in Calls |-> {}]
  /\ touched = [c \in Calls |-> {}]
  /\ ok = [c \in Calls |-> FALSE]
  /\ log = [c \in Calls |-> <<>>]
  /\ acted = {}
  /\ reached = [c \in Calls |-> {}]
  /\ LockInit

-------------------------------------------------------------------------------
(*****************************************************************************)
(* Helpers.                                                                  *)
(*****************************************************************************)
At(c, l) == pc' = [pc EXCEPT ![c] = l]

\* Mutant: only the host the gate resolved itself is recorded.
RecordGateHost(c, q, good) ==
  log' = [log EXCEPT ![c] = Append(@, [mutating |-> Mutating(q), ok |-> good, enabled |-> enabled,
                                       hosts |-> IF q \in HostTools THEN touched[c] ELSE {}])]

\* finish: the record of the call, with the flag as it is when the call ends.
\* The reduced record that the gate writes when summarizing throws is left out:
\* a value no handler returns would be needed for it.
Record(c, q, good) ==
  log' = [log EXCEPT ![c] = Append(@, [mutating |-> Mutating(q), ok |-> good,
                                       hosts |-> touched[c], enabled |-> enabled])]

\* The call leaves the gate.
Finish(c, q, good) == At(c, "done") /\ Record(c, q, good)

\* The handler is over; the gate goes on in a later turn.
Ends(c, good) == At(c, "returning") /\ ok' = [ok EXCEPT ![c] = good]

\* Steps 1 and 2 of the gate: the profile's tools, the profile's writes, the flag.
Refused(q) ==
  \/ Tool(q) \notin policy.tools
  \/ Mutating(q) /\ ~ policy.writes
  \/ Mutating(q) /\ ~ enabled

-------------------------------------------------------------------------------
(*****************************************************************************)
(* A call enters the gate.                                                   *)
(*****************************************************************************)
Arrive(c, q, hs) ==
  /\ pc[c] = "new"
  /\ req' = [req EXCEPT ![c] = q]
  /\ targets' = [targets EXCEPT ![c] = hs]

\* Refused, or a path argument outside the profile's path rules.
Refuse(c) ==
  /\ \E q \in Requests, hs \in SUBSET Hosts :
       /\ q \in HostTools => \E h \in Hosts : hs = {h}
       /\ q \in Toggles => hs = {}
       /\ Arrive(c, q, hs)
       /\ Refused(q) \/ q \in HostTools
       /\ Finish(c, q, FALSE)
  /\ UNCHANGED <<policy, enabled, touched, ok, acted, reached, lockVars>>

\* A tool with a host argument: its host is looked up.
BeginHost(c) ==
  /\ \E q \in HostTools, h \in Hosts :
       /\ Arrive(c, q, {h})
       /\ ~ Refused(q)
  /\ At(c, "resolving")
  /\ UNCHANGED <<policy, enabled, touched, ok, log, acted, reached, lockVars>>

\* Mutant: allowToggle is not consulted.
ToggleUnpinned(c) ==
  /\ \E q \in Toggles :
       /\ Arrive(c, q, {})
       /\ ~ Refused(q)
       /\ Ends(c, TRUE)
       /\ enabled' = (q = "enable")
  /\ UNCHANGED <<policy, touched, log, acted, reached, lockVars>>

\* toggle_state: enabling can be pinned off, disabling never.
Toggle(c) ==
  /\ \E q \in Toggles :
       /\ Arrive(c, q, {})
       /\ ~ Refused(q)
       /\ IF q = "enable" /\ ~ policy.allowToggle
          THEN Ends(c, FALSE) /\ UNCHANGED enabled
          ELSE Ends(c, TRUE) /\ enabled' = (q = "enable")
  /\ UNCHANGED <<policy, touched, log, acted, reached, lockVars>>

\* The request of call_api goes out: to the hosts it names, and to the host of
\* a session if it carries the id of one.  That session must be one this server
\* holds, which a call of a host tool has opened; nothing records its host.
Send(c, hs) ==
  /\ At(c, "sending")
  /\ acted' = acted \cup {c}
  /\ \E s \in {{}} \cup {touched[d] : d \in {e \in acted : req[e] \in HostTools}} :
       reached' = [reached EXCEPT ![c] = hs \cup s]

\* call_api: a forbidden path or a session this server does not hold ends it;
\* the hosts named in path, query or body are vetted one after the other.
BeginApi(c) ==
  /\ \E q \in ApiCalls, hs \in SUBSET Hosts :
       /\ Arrive(c, q, hs)
       /\ ~ Refused(q)
       /\ \/ Ends(c, FALSE) /\ UNCHANGED <<acted, reached>>
          \/ hs # {} /\ At(c, "vetting") /\ UNCHANGED <<ok, acted, reached>>
          \/ hs = {} /\ Send(c, {}) /\ UNCHANGED ok
  /\ UNCHANGED <<policy, enabled, touched, log, lockVars>>

-------------------------------------------------------------------------------
(*****************************************************************************)
(* A tool with a host argument goes on.                                      *)
(*****************************************************************************)
\* Mutant: the mutex is keyed by what the caller wrote instead of host.id.
ResolveOkByArgument(c) ==
  /\ pc[c] = "resolving"
  /\ targets[c] \subseteq policy.hosts
  /\ Ask(c, targets[c])
  /\ touched' = [touched EXCEPT ![c] = targets[c]]
  /\ At(c, "queued")
  /\ UNCHANGED <<policy, enabled, req, targets, ok, log, acted, reached>>

\* resolveAllowed finds the host and lets it pass: the call queues for it.
ResolveOk(c) ==
  /\ pc[c] = "resolving"
  /\ targets[c] \subseteq policy.hosts
  /\ \E h \in targets[c] : Ask(c, h)
  /\ touched' = [touched EXCEPT ![c] = targets[c]]
  /\ At(c, "queued")
  /\ UNCHANGED <<policy, enabled, req, targets, ok, log, acted, reached>>

\* The host is unknown, ambiguous, blocked or outside the profile, or the
\* lookup fails.
ResolveFail(c) ==
  /\ pc[c] = "resolving"
  /\ Finish(c, req[c], FALSE)
  /\ UNCHANGED <<policy, enabled, req, targets, touched, ok, acted, reached, lockVars>>

\* The mutex lets the handler in.
StartHandler(c) ==
  /\ pc[c] = "queued"
  /\ Acquire(c)
  /\ At(c, "running")
  /\ acted' = acted \cup {c}
  /\ reached' = [reached EXCEPT ![c] = touched[c]]
  /\ UNCHANGED <<policy, enabled, req, targets, touched, ok, log>>

\* The handler returns or throws, and lets the next one in.
HandlerEnds(c) ==
  /\ pc[c] = "running"
  /\ \E good \in BOOLEAN : Ends(c, good)
  /\ Release(c)
  /\ UNCHANGED <<policy, enabled, req, targets, touched, log, acted, reached>>

-------------------------------------------------------------------------------
(*****************************************************************************)
(* call_api goes on.                                                         *)
(*****************************************************************************)
\* Mutant: the request goes out after the first host.
VetFirst(c) ==
  /\ pc[c] = "vetting"
  /\ \E h \in targets[c] \cap policy.hosts : touched' = [touched EXCEPT ![c] = @ \cup {h}]
  /\ Send(c, targets[c])
  /\ UNCHANGED <<policy, enabled, req, targets, ok, log, lockVars>>

\* One more host of the body is resolved and recorded; after the last one the
\* request goes out, unless it rides a session this server does not hold.
VetOk(c) ==
  /\ pc[c] = "vetting"
  /\ \E h \in (targets[c] \ touched[c]) \cap policy.hosts :
       /\ touched' = [touched EXCEPT ![c] = @ \cup {h}]
       /\ \/ /\ targets[c] \ touched[c] # {h}
             /\ UNCHANGED <<pc, ok, acted, reached>>
          \/ /\ targets[c] \ touched[c] = {h}
             /\ \/ Ends(c, FALSE) /\ UNCHANGED <<acted, reached>>
                \/ Send(c, targets[c]) /\ UNCHANGED ok
  /\ UNCHANGED <<policy, enabled, req, targets, log, lockVars>>

VetFail(c) ==
  /\ pc[c] = "vetting"
  /\ Ends(c, FALSE)
  /\ UNCHANGED <<policy, enabled, req, targets, touched, log, acted, reached, lockVars>>

\* Termix answers, or the request fails or times out.
Answer(c) ==
  /\ pc[c] = "sending"
  /\ \E good \in BOOLEAN : Ends(c, good)
  /\ UNCHANGED <<policy, enabled, req, targets, touched, log, acted, reached, lockVars>>

-------------------------------------------------------------------------------
\* The gate resumes after the handler.  A result that cannot be turned into
\* text ends the call as a failure although the handler succeeded.
Return(c) ==
  /\ pc[c] = "returning"
  /\ \E good \in BOOLEAN : (good => ok[c]) /\ Finish(c, req[c], good)
  /\ UNCHANGED <<policy, enabled, req, targets, touched, ok, acted, reached, lockVars>>

Enter(c) == Refuse(c) \/ BeginHost(c) \/ Toggle(c) \/ BeginApi(c)

Resume(c) ==
  \/ ResolveOk(c)
  \/ ResolveFail(c)
  \/ StartHandler(c)
  \/ HandlerEnds(c)
  \/ VetOk(c)
  \/ VetFail(c)
  \/ Answer(c)
  \/ Return(c)

\* Every call has left the gate: the end of a bounded run.
Terminated == (\A c \in Calls : pc[c] = "done") /\ UNCHANGED vars

Next == (\E c \in Calls : Enter(c) \/ Resume(c)) \/ Terminated

Spec == Init /\ [][Next]_vars

-------------------------------------------------------------------------------
(*****************************************************************************)
(* Properties.                                                               *)
(*****************************************************************************)
Records == [mutating : BOOLEAN, ok : BOOLEAN, hosts : SUBSET Hosts, enabled : BOOLEAN]

\* The types of the gate's state.
TypeOK ==
  /\ policy \in Policies
  /\ enabled \in BOOLEAN
  /\ pc \in [Calls -> PCs]
  /\ req \in [Calls -> Requests]
  /\ targets \in [Calls -> SUBSET Hosts]
  /\ touched \in [Calls -> SUBSET Hosts]
  /\ ok \in [Calls -> BOOLEAN]
  /\ log \in [Calls -> Seq(Records)]
  /\ acted \in SUBSET Calls
  /\ reached \in [Calls -> SUBSET Hosts]
  /\ LockType

\* A read-only profile, and a server that starts read-only and is pinned, never
\* let a mutation out, whatever toggle_state calls come before or in between
\* (wrap, toggle_state, buildServer).
ReadOnlyHolds ==
  ~ policy.writes \/ (~ policy.startEnabled /\ ~ policy.allowToggle) =>
    \A c \in acted : ~ Mutating(req[c])

\* What goes out to Termix on behalf of a call reaches only hosts that the
\* blocklist and the profile allow, the host of a session that a call_api rides
\* included, and every host it names was looked up before (resolveAllowed,
\* call_api, ownsSession).
ForbiddenUntouched ==
  \A c \in acted : /\ targets[c] \subseteq touched[c]
                   /\ touched[c] \cup reached[c] \subseteq policy.hosts

\* Every call that has left the gate has exactly one record and no other call
\* has one; the record claims success only for a call that did act or toggle,
\* and says whether it was a write.  It names every host the call reached, with
\* one exception: call_api by the id of a session that a host tool of the same
\* server opened reaches the host of that session, and only the record of the
\* host tool's call names it.
RecordTruthful ==
  \A c \in Calls :
    /\ Len(log[c]) = (IF pc[c] = "done" THEN 1 ELSE 0)
    /\ pc[c] = "done" =>
         /\ log[c][1].ok => ok[c] /\ (c \in acted \/ req[c] \in Toggles)
         /\ c \in acted => targets[c] \subseteq log[c][1].hosts
         /\ \A h \in reached[c] \ log[c][1].hosts :
              /\ req[c] \in ApiCalls
              /\ \E d \in acted :
                   /\ req[d] \in HostTools /\ h \in touched[d]
                   /\ pc[d] = "done" => h \in log[d][1].hosts
         /\ log[c][1].mutating = Mutating(req[c])

\* The handlers of host tools run under the mutex of their host, and nobody
\* else holds or leaks it: one handler per host at a time.
OneHandlerPerHost ==
  /\ Exclusive
  /\ \A c \in Calls : phase[c] = "holding" <=> pc[c] = "running"

\* "Writes are now disabled for this session" (toggle_state): no mutation goes
\* out to Termix while the flag is off, not even one that waited for its host.
LockHolds ==
  [][\A c \in acted' \ acted : Mutating(req'[c]) => enabled]_vars
===============================================================================
