----------------------------- MODULE PolicyStore -----------------------------
(*****************************************************************************)
(* The store that keeps the access policy in step with its file              *)
(* (createPolicyStore in access/policy.mjs), with the part of the HTTP       *)
(* server that depends on it: a request is authenticated by the policy of    *)
(* the moment, a session keeps the profile it was opened with                *)
(* (handleMcp in index-http.mjs).                                            *)
(*                                                                           *)
(* The server runs current() without giving way, so one request at a time    *)
(* is in it; the file is another process's, and changes between any two      *)
(* of the server's file operations.  The clock that stamps the file never    *)
(* goes back to a stamp it has left, and no two complete policies carry      *)
(* the same stamp; a torn or broken one may share the stamp of its           *)
(* neighbours.  A stamp need not be larger than the one before: a file       *)
(* restored from elsewhere brings its own.                                   *)
(*****************************************************************************)
EXTENDS AccessRules

CONSTANTS
  Docs,       \* the texts the policy file may hold
  Tokens,     \* the bearer tokens clients present; a request without one is
              \* answered without the policy
  Sids,       \* BOUND: the ids of MCP sessions
  Stamps      \* BOUND: the modification times the file can have

VARIABLES
  disk,       \* the policy file: its text (None: there is no file) and its stamp
  used,       \* the stamps the file has had
  goodAt,     \* the stamp of the last complete policy it held, or None
  loaded,     \* the policy in memory, or None
  mtimeMs,    \* the stamp recorded with it, or None
  pc,         \* "down", "idle", or in load(): before its stat, before its read
  seen,       \* the stamp load() has from its stat
  req,        \* the request inside current(): its token and session id, or None
  since,      \* history of that request: the texts on disk, the policy before it
  session,    \* by session id: None, or its stage and the profile it was made with
  answer      \* the request just answered, or None

vars == <<disk, used, goodAt, loaded, mtimeMs, pc, seen, req, since, session, answer>>

Good(text) == text # None /\ Parses(text)

Policies == {Parse(d) : d \in {x \in Docs : Good(x)}}

ProfilesOf(policy) == {policy.profiles[n] : n \in DOMAIN policy.profiles}

Requests == [token : Tokens, sid : Sids \cup {None}]

Histories == [texts : SUBSET (Docs \cup {None}), policy : Policies \cup {None}]

Entries == [stage : {"opening", "open"}, profile : UNION {ProfilesOf(p) : p \in Policies}]

\* None is none of the values it stands for the absence of.
ASSUME StoreAssumption ==
  /\ None \notin Docs /\ None \notin Stamps /\ None \notin Sids /\ None \notin Tokens
  /\ None \notin Policies /\ None \notin Requests /\ None \notin Histories
  /\ None \notin Entries

\* Hosts are numbered, and their ids are unique.
ASSUME FleetAssumption ==
  /\ DOMAIN Fleet \subseteq Nat /\ None \notin DOMAIN Fleet
  /\ \A i, j \in DOMAIN Fleet : Fleet[i].id = Fleet[j].id => i = j

-------------------------------------------------------------------------------
Init ==
  /\ disk \in [text : Docs \cup {None}, stamp : Stamps]
  /\ used = {disk.stamp}
  /\ goodAt = IF Good(disk.text) THEN disk.stamp ELSE None
  /\ loaded = None /\ mtimeMs = None
  /\ pc = "down" /\ seen = None
  /\ req = None /\ since = None
  /\ session = [s \in Sids |-> None]
  /\ answer = None

(*****************************************************************************)
(* The operator writes, breaks, replaces or removes the file.                *)
(*****************************************************************************)
Edit(text, stamp) ==
  /\ text # disk.text
  /\ stamp = disk.stamp \/ stamp \notin used
  /\ Good(text) => stamp # goodAt
  /\ disk' = [text |-> text, stamp |-> stamp]
  /\ used' = used \cup {stamp}
  /\ goodAt' = IF Good(text) THEN stamp ELSE goodAt
  /\ since' = IF since = None THEN None
              ELSE [texts |-> since.texts \cup {text}, policy |-> since.policy]
  /\ answer' = None
  /\ UNCHANGED <<loaded, mtimeMs, pc, seen, req, session>>

(*****************************************************************************)
(* The answer to a request, from the policy current() returned: 401, 403,    *)
(* handed to its session, 404, or a session about to be opened.              *)
(*****************************************************************************)
Verdict(policy, r) ==
  LET name == NameByToken(policy, r.token)
      known == r.sid # None /\ session[r.sid] # None /\ session[r.sid].stage = "open"
  IN CASE name = None -> "unauthorized"
       [] name # None /\ known ->
            IF session[r.sid].profile.name = name THEN "handed" ELSE "forbidden"
       [] name # None /\ ~ known ->
            IF r.sid = None THEN "initialize" ELSE "not found"

Finish(policy, r, history) ==
  LET verdict == Verdict(policy, r)
  IN /\ pc' = "idle" /\ req' = None
     /\ since' = history
     /\ answer' = [token |-> r.token, sid |-> r.sid, verdict |-> verdict, policy |-> policy]
     /\ IF verdict = "initialize"
        THEN \E s \in Sids :
               /\ session[s] = None
               /\ session' = [session EXCEPT ![s] =
                    [stage |-> "opening",
                     profile |-> policy.profiles[NameByToken(policy, r.token)]]]
        ELSE UNCHANGED session

(*****************************************************************************)
(* A request enters current(): it stats the file and answers at once from    *)
(* the policy it has when the stamp is the recorded one, or when there is    *)
(* no file; otherwise it loads.                                              *)
(*****************************************************************************)
Request(r) ==
  LET history == [texts |-> {disk.text}, policy |-> loaded]
      fresh == disk.text = None \/ disk.stamp = mtimeMs
  IN /\ pc = "idle"
     /\ \/ fresh /\ Finish(loaded, r, history)
        \/ /\ ~ fresh
           /\ pc' = "load" /\ req' = r /\ since' = history
           /\ answer' = None
           /\ UNCHANGED session
     /\ UNCHANGED <<disk, used, goodAt, loaded, mtimeMs, seen>>

\* Mutant: a start that finds no policy goes on without one.
AfterLoadOpen(policy) ==
  IF req # None
  THEN Finish(policy, req, since)
  ELSE /\ pc' = "idle"
       /\ req' = None /\ since' = None /\ answer' = None
       /\ UNCHANGED session

\* What follows a load: the request goes on with the policy in memory; at start
\* there is no request, and the process is down if there is still no policy.
AfterLoad(policy) ==
  IF req # None
  THEN Finish(policy, req, since)
  ELSE /\ pc' = IF policy = None THEN "down" ELSE "idle"
       /\ req' = None /\ since' = None /\ answer' = None
       /\ UNCHANGED session

\* load(): the stat; without a file it throws.
LoadStat ==
  /\ pc = "load"
  /\ \/ /\ disk.text = None
        /\ AfterLoad(loaded)
        /\ UNCHANGED seen
     \/ /\ disk.text # None
        /\ pc' = "read" /\ seen' = disk.stamp
        /\ answer' = None
        /\ UNCHANGED <<req, since, session>>
  /\ UNCHANGED <<disk, used, goodAt, loaded, mtimeMs>>

\* Mutant: the stamp is recorded although the text was refused.
LoadReadStamp ==
  /\ pc = "read"
  /\ mtimeMs' = seen
  /\ \/ Good(disk.text) /\ loaded' = Parse(disk.text) /\ AfterLoad(loaded')
     \/ ~ Good(disk.text) /\ AfterLoad(loaded) /\ UNCHANGED loaded
  /\ UNCHANGED <<disk, used, goodAt, seen>>

\* load(): the read and the parse; a text that is refused changes nothing, and
\* the policy in memory stays.
LoadRead ==
  /\ pc = "read"
  /\ \/ /\ Good(disk.text)
        /\ loaded' = Parse(disk.text) /\ mtimeMs' = seen
        /\ AfterLoad(loaded')
     \/ /\ ~ Good(disk.text)
        /\ AfterLoad(loaded)
        /\ UNCHANGED <<loaded, mtimeMs>>
  /\ UNCHANGED <<disk, used, goodAt, seen>>

(*****************************************************************************)
(* The rest of a session's life, and the process's.  While current() runs    *)
(* the server does nothing else.                                             *)
(*****************************************************************************)
\* onsessioninitialized, after the body has been awaited: the session keeps the
\* profile that authenticated its first request.
Register(s) ==
  /\ pc = "idle" /\ session[s] # None /\ session[s].stage = "opening"
  /\ session' = [session EXCEPT ![s] =
       [stage |-> "open", profile |-> session[s].profile]]
  /\ since' = None /\ answer' = None
  /\ UNCHANGED <<disk, used, goodAt, loaded, mtimeMs, pc, seen, req>>

\* The session ends, or its opening comes to nothing.
CloseSession(s) ==
  /\ pc = "idle" /\ session[s] # None
  /\ session' = [session EXCEPT ![s] = None]
  /\ since' = None /\ answer' = None
  /\ UNCHANGED <<disk, used, goodAt, loaded, mtimeMs, pc, seen, req>>

Start ==
  /\ pc = "down"
  /\ pc' = "load"
  /\ UNCHANGED <<disk, used, goodAt, loaded, mtimeMs, seen, req, since, session, answer>>

\* The process ends, at any point, and takes its memory with it.
Stop ==
  /\ pc # "down"
  /\ pc' = "down"
  /\ loaded' = None /\ mtimeMs' = None /\ seen' = None
  /\ req' = None /\ since' = None /\ answer' = None
  /\ session' = [s \in Sids |-> None]
  /\ UNCHANGED <<disk, used, goodAt>>

Next ==
  \/ \E text \in Docs \cup {None}, stamp \in Stamps : Edit(text, stamp)
  \/ \E r \in Requests : Request(r)
  \/ LoadStat
  \/ LoadRead
  \/ \E s \in Sids : Register(s) \/ CloseSession(s)
  \/ Start
  \/ Stop

Spec == Init /\ [][Next]_vars

-------------------------------------------------------------------------------
(*****************************************************************************)
(* Every variable has its type, and a server that answers has a policy:      *)
(* one that finds none at its start does not come up (policy.mjs:336).       *)
(*****************************************************************************)
TypeOK ==
  /\ disk \in [text : Docs \cup {None}, stamp : Stamps]
  /\ used \subseteq Stamps /\ goodAt \in Stamps \cup {None}
  /\ loaded \in Policies \cup {None} /\ mtimeMs \in Stamps \cup {None}
  /\ pc \in {"down", "idle", "load", "read"} /\ seen \in Stamps \cup {None}
  /\ req \in Requests \cup {None} /\ since \in Histories \cup {None}
  /\ session \in [Sids -> Entries \cup {None}]
  /\ pc = "idle" \/ req # None => loaded # None

(*****************************************************************************)
(* A request is answered by a policy that was on disk while it was being     *)
(* answered.  The only exception is the one the code intends: when the       *)
(* file was missing or broken meanwhile, by the policy in memory before it   *)
(* (policy.mjs:302-314).  The stamp is taken before the text is read, so     *)
(* that a write between the two is noticed by the next request.              *)
(*****************************************************************************)
AnswerIsCurrent ==
  answer # None =>
    \/ \E text \in since.texts : Good(text) /\ answer.policy = Parse(text)
    \/ (\E text \in since.texts : ~ Good(text)) /\ answer.policy = since.policy

\* What the text of a profile says of a host, in the words of the policy guide:
\* without rules nothing is open; a mention of the host opens it, unless the
\* profile is a blocklist or open to all; what is on the global blocklist is
\* only open to a profile that says it ignores it.
Opens(spec, host) ==
  LET allow == Expand(spec.hosts.allow)
      deny == Expand(spec.hosts.deny)
      byName == LabelsOf(host) \cap allow # {}
      barred == LabelsOf(host) \cap deny # {}
      openToAll == spec.hosts.mode = "all"
      unlisted == spec.hosts.mode = None /\ spec.hosts.form # "list"
      blocklist == \/ spec.hosts.mode = "blocklist"
                   \/ unlisted /\ spec.hosts.allow = {} /\ spec.hosts.deny # {}
  IN /\ openToAll \/ blocklist \/ byName
     /\ barred => openToAll \/ (blocklist /\ byName)
     /\ LabelsOf(host) \cap Blocklist # {} => spec.globalBlocklist = "ignore"

(*****************************************************************************)
(* A host that a session's profile lets a call reach is one the text of      *)
(* that profile opens; a profile that says nothing of hosts opens none       *)
(* (policy.mjs:120-123, hosts.mjs:106-138).                                  *)
(*****************************************************************************)
NothingByDefault ==
  \A s \in Sids : session[s] # None =>
    \E d \in Docs :
      /\ Good(d)
      /\ \E n \in DOMAIN d.profiles :
           /\ session[s].profile = BuildProfile(n, d.profiles[n])
           /\ \A i \in DOMAIN Fleet :
                i \in {ResolveAllowed(session[s].profile, ref) :
                         ref \in {Fleet[i].id} \cup LabelsOf(Fleet[i])}
                  => Opens(d.profiles[n], Fleet[i])

(*****************************************************************************)
(* What access_policy_check reports of a host is what a call on it will      *)
(* meet, as long as no other host carries its label                          *)
(* (mcp/tools/policy.mjs:200-228 against hosts.mjs:106-138).                 *)
(*****************************************************************************)
CheckTellsTruth ==
  loaded # None =>
    \A profile \in ProfilesOf(loaded) : \A i \in DOMAIN Fleet :
      (\A j \in DOMAIN Fleet \ {i} : LabelOf(Fleet[i]) \notin LabelsOf(Fleet[j]))
        => (ReportedAllowed(profile, i) <=> ResolveAllowed(profile, Fleet[i].id) = i)

(*****************************************************************************)
(* A change of the file changes what a call may do: a call handed to its     *)
(* session runs under the profile its token selects in the policy that       *)
(* admitted it.  policy.mjs:301-302 promises it ("granting or revoking       *)
(* access does not need a restart"); index-http.mjs:187-194 compares names   *)
(* only, and the session keeps the rules of its first request.               *)
(*****************************************************************************)
GrantFollowsFile ==
  answer # None /\ answer.verdict = "handed" =>
    session[answer.sid].profile =
      answer.policy.profiles[NameByToken(answer.policy, answer.token)]
===============================================================================
