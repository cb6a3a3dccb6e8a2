-------------------------- MODULE PolicyStoreProofs --------------------------
(*****************************************************************************)
(* Proofs about PolicyStore: the types, that a request is answered by a      *)
(* policy of its own time, and that a profile opens what its text opens.     *)
(*****************************************************************************)
EXTENDS PolicyStore, TLAPS

\* The stamps in memory are stamps the file has had.
Stamped ==
  /\ disk.stamp \in used
  /\ goodAt \in used \cup {None}
  /\ mtimeMs \in used \cup {None}
  /\ pc = "read" => seen \in used

\* The stamp recorded tells whether the policy in memory is the one on disk: it
\* is never the stamp of a text that was refused.
InStep ==
  /\ Good(disk.text) => goodAt = disk.stamp
  /\ mtimeMs = disk.stamp => goodAt = disk.stamp
  /\ mtimeMs = disk.stamp /\ Good(disk.text) => loaded = Parse(disk.text)

\* What is known of a request inside current().
Watching ==
  pc \in {"load", "read"} /\ req # None =>
    /\ since # None
    /\ disk.text \in since.texts
    /\ since.policy = loaded

\* Outside load() nothing waits.
Quiet ==
  /\ pc \in {"down", "idle"} => req = None
  /\ pc = "down" => loaded = None
  /\ loaded = None => mtimeMs = None
  /\ pc # "idle" => answer = None

IInv == TypeOK /\ Stamped /\ InStep /\ Watching /\ Quiet /\ AnswerIsCurrent

\* A policy that parses has a place among the policies, and is not None.
LEMMA ParsedPolicy ==
  ASSUME NEW text \in Docs \cup {None}, Good(text)
  PROVE  Parse(text) \in Policies /\ Parse(text) # None
BY StoreAssumption DEF Policies, Good

\* The name a token selects is that of a profile.
LEMMA SelectedName ==
  ASSUME NEW policy, NEW token, NameByToken(policy, token) # None
  PROVE  NameByToken(policy, token) \in DOMAIN policy.profiles
BY DEF NameByToken

\* Answering a request keeps the types; the answer says which policy it is from.
LEMMA Finishing ==
  ASSUME TypeOK, NEW policy \in Policies, NEW r \in Requests, NEW history \in Histories,
         Finish(policy, r, history)
  PROVE  /\ pc' = "idle" /\ req' = None /\ since' = history
         /\ answer'.policy = policy
         /\ session' \in [Sids -> Entries \cup {None}]
<1>1. pc' = "idle" /\ req' = None /\ since' = history /\ answer'.policy = policy
  BY DEF Finish
<1>2. session' \in [Sids -> Entries \cup {None}]
  <2>1. CASE Verdict(policy, r) = "initialize"
    <3>1. NameByToken(policy, r.token) # None
      BY <2>1 DEF Verdict
    <3>2. policy.profiles[NameByToken(policy, r.token)] \in ProfilesOf(policy)
      BY <3>1, SelectedName DEF ProfilesOf
    <3>3. [stage |-> "opening", profile |-> policy.profiles[NameByToken(policy, r.token)]]
            \in Entries
      BY <3>2 DEF Entries
    <3> QED BY <2>1, <3>3 DEF Finish, TypeOK
  <2>2. CASE Verdict(policy, r) # "initialize"
    BY <2>2 DEF Finish, TypeOK
  <2> QED BY <2>1, <2>2
<1> QED BY <1>1, <1>2

LEMMA InitStep == Init => IInv
<1> SUFFICES ASSUME Init PROVE IInv
  OBVIOUS
<1>1. TypeOK
  BY StoreAssumption DEF Init, TypeOK
<1>2. Stamped /\ InStep /\ Watching /\ Quiet /\ AnswerIsCurrent
  BY StoreAssumption DEF Init, Stamped, InStep, Watching, Quiet, AnswerIsCurrent
<1> QED BY <1>1, <1>2 DEF IInv

LEMMA EditStep ==
  ASSUME IInv, NEW text \in Docs \cup {None}, NEW stamp \in Stamps, Edit(text, stamp)
  PROVE  IInv'
<1> USE DEF IInv
<1>1. since' \in Histories \cup {None}
  <2>1. CASE since = None
    BY <2>1 DEF Edit
  <2>2. CASE since # None
    BY <2>2 DEF Edit, TypeOK, Histories
  <2> QED BY <2>1, <2>2
<1>2. TypeOK'
  BY <1>1 DEF Edit, TypeOK
<1>3. Stamped'
  BY StoreAssumption DEF Edit, Stamped, TypeOK
<1>4. disk'.stamp # disk.stamp => disk'.stamp # mtimeMs /\ disk'.stamp \notin used
  BY StoreAssumption DEF Edit, Stamped
<1>5. InStep'
  BY <1>4, StoreAssumption DEF Edit, InStep, Stamped, TypeOK
<1>6. Watching'
  <2> SUFFICES ASSUME pc \in {"load", "read"}, req # None
               PROVE  since' # None /\ disk'.text \in since'.texts /\ since'.policy = loaded'
    BY DEF Edit, Watching
  <2>1. since # None /\ since \in Histories /\ since.policy = loaded
    BY DEF Watching, TypeOK
  <2>2. since' = [texts |-> since.texts \cup {text}, policy |-> since.policy]
    BY <2>1 DEF Edit
  <2>3. since' # None
    BY <1>1, <2>1, <2>2, StoreAssumption DEF Histories
  <2> QED BY <2>1, <2>2, <2>3 DEF Edit, Histories
<1>7. Quiet' /\ AnswerIsCurrent'
  BY DEF Edit, Quiet, AnswerIsCurrent
<1> QED BY <1>2, <1>3, <1>5, <1>6, <1>7

\* What a request sees when it enters current().
LEMMA Entering ==
  ASSUME IInv, pc = "idle"
  PROVE  /\ loaded \in Policies /\ loaded # None
         /\ [texts |-> {disk.text}, policy |-> loaded] \in Histories
         /\ [texts |-> {disk.text}, policy |-> loaded] # None
<1>1. loaded \in Policies /\ loaded # None
  BY StoreAssumption DEF IInv, TypeOK
<1>2. [texts |-> {disk.text}, policy |-> loaded] \in Histories
  BY <1>1 DEF IInv, TypeOK, Histories
<1> QED BY <1>1, <1>2, StoreAssumption

LEMMA RequestStep ==
  ASSUME IInv, NEW r \in Requests, Request(r)
  PROVE  IInv'
<1> USE DEF IInv
<1> DEFINE history == [texts |-> {disk.text}, policy |-> loaded]
<1>1. pc = "idle"
  BY DEF Request
<1>2. loaded \in Policies /\ loaded # None /\ history \in Histories /\ history # None
  BY <1>1, Entering
<1>3. UNCHANGED <<disk, used, goodAt, loaded, mtimeMs, seen>>
  BY DEF Request
<1>4. CASE Finish(loaded, r, history) /\ (disk.text = None \/ disk.stamp = mtimeMs)
  <2>1. /\ pc' = "idle" /\ req' = None /\ since' = history /\ answer'.policy = loaded
        /\ session' \in [Sids -> Entries \cup {None}]
    BY <1>2, <1>4, Finishing
  <2>2. TypeOK'
    BY <2>1, <1>2, <1>3 DEF TypeOK
  <2>3. Stamped' /\ InStep'
    BY <2>1, <1>3 DEF Stamped, InStep
  <2>4. Watching' /\ Quiet'
    BY <2>1, <1>2, <1>3 DEF Watching, Quiet
  <2>5. AnswerIsCurrent'
    <3>1. since'.texts = {disk.text} /\ since'.policy = loaded
      BY <2>1
    <3>2. CASE Good(disk.text)
      <4>1. disk.text # None
        BY <3>2 DEF Good
      <4>2. loaded = Parse(disk.text)
        BY <1>4, <3>2, <4>1 DEF InStep
      <4> QED BY <2>1, <3>1, <3>2, <4>2 DEF AnswerIsCurrent
    <3>3. CASE ~ Good(disk.text)
      BY <2>1, <3>1, <3>3 DEF AnswerIsCurrent
    <3> QED BY <3>2, <3>3
  <2> QED BY <2>2, <2>3, <2>4, <2>5
<1>5. CASE pc' = "load" /\ req' = r /\ since' = history /\ answer' = None /\ UNCHANGED session
  <2>1. TypeOK'
    BY <1>5, <1>2, <1>3 DEF TypeOK
  <2>2. Stamped' /\ InStep'
    BY <1>5, <1>3 DEF Stamped, InStep
  <2>3. Watching'
    BY <1>5, <1>2, <1>3 DEF Watching
  <2>4. Quiet' /\ AnswerIsCurrent'
    BY <1>5, <1>2, <1>3 DEF Quiet, AnswerIsCurrent
  <2> QED BY <2>1, <2>2, <2>3, <2>4
<1> QED BY <1>4, <1>5 DEF Request

\* A load is over: the policy in memory is the one before, or a text of now.
LEMMA LoadOver ==
  ASSUME IInv, pc \in {"load", "read"}, NEW policy \in Policies \cup {None},
         AfterLoad(policy),
         \/ policy = loaded /\ ~ Good(disk.text)
         \/ Good(disk.text) /\ policy = Parse(disk.text),
         loaded' = policy, UNCHANGED <<disk, used, goodAt>>,
         mtimeMs' \in Stamps \cup {None}, seen' \in Stamps \cup {None},
         policy = None => mtimeMs' = None
  PROVE  TypeOK' /\ Watching' /\ Quiet' /\ AnswerIsCurrent' /\ pc' \in {"down", "idle"}
<1> USE DEF IInv
<1>0. Good(disk.text) => Parse(disk.text) \in Policies /\ Parse(disk.text) # None
  BY ParsedPolicy DEF TypeOK
<1>1. CASE req # None
  <2>1. since # None /\ since \in Histories /\ disk.text \in since.texts /\ since.policy = loaded
    BY <1>1 DEF Watching, TypeOK
  <2>2. loaded # None /\ req \in Requests
    BY <1>1 DEF TypeOK
  <2>3. policy # None /\ policy \in Policies
    BY <1>0, <2>2
  <2>4. Finish(policy, req, since)
    BY <1>1 DEF AfterLoad
  <2>5. /\ pc' = "idle" /\ req' = None /\ since' = since /\ answer'.policy = policy
        /\ session' \in [Sids -> Entries \cup {None}]
    BY <2>1, <2>2, <2>3, <2>4, Finishing
  <2>6. TypeOK'
    BY <2>1, <2>3, <2>5 DEF TypeOK
  <2>7. Watching' /\ Quiet'
    BY <2>5 DEF Watching, Quiet
  <2>8. AnswerIsCurrent'
    BY <2>1, <2>5 DEF AnswerIsCurrent
  <2> QED BY <2>5, <2>6, <2>7, <2>8
<1>2. CASE req = None
  <2>1. /\ pc' = IF policy = None THEN "down" ELSE "idle"
        /\ req' = None /\ since' = None /\ answer' = None /\ UNCHANGED session
    BY <1>2 DEF AfterLoad
  <2>2. TypeOK'
    BY <2>1 DEF TypeOK
  <2> QED BY <2>1, <2>2 DEF Watching, Quiet, AnswerIsCurrent
<1> QED BY <1>1, <1>2

LEMMA LoadStatStep == IInv /\ LoadStat => IInv'
<1> SUFFICES ASSUME IInv, LoadStat PROVE IInv'
  OBVIOUS
<1> USE DEF IInv
<1>1. CASE disk.text = None /\ AfterLoad(loaded) /\ UNCHANGED seen
  <2>1. ~ Good(disk.text)
    BY <1>1 DEF Good
  <2>2. UNCHANGED <<disk, used, goodAt, loaded, mtimeMs, seen>> /\ pc = "load"
    BY <1>1 DEF LoadStat
  <2>3. TypeOK' /\ Watching' /\ Quiet' /\ AnswerIsCurrent' /\ pc' \in {"down", "idle"}
    BY <1>1, <2>1, <2>2, LoadOver DEF TypeOK, Quiet
  <2>4. Stamped' /\ InStep'
    BY <2>2, <2>3 DEF Stamped, InStep
  <2> QED BY <2>3, <2>4
<1>2. CASE /\ disk.text # None /\ pc' = "read" /\ seen' = disk.stamp /\ answer' = None
           /\ UNCHANGED <<req, since, session>>
  BY <1>2 DEF LoadStat, TypeOK, Stamped, InStep, Watching, Quiet, AnswerIsCurrent
<1> QED BY <1>1, <1>2 DEF LoadStat

LEMMA LoadReadStep == IInv /\ LoadRead => IInv'
<1> SUFFICES ASSUME IInv, LoadRead PROVE IInv'
  OBVIOUS
<1> USE DEF IInv
<1>1. pc = "read" /\ UNCHANGED <<disk, used, goodAt, seen>> /\ seen \in used
  BY DEF LoadRead, Stamped
<1>2. CASE Good(disk.text) /\ loaded' = Parse(disk.text) /\ mtimeMs' = seen /\ AfterLoad(loaded')
  <2>1. Parse(disk.text) \in Policies /\ Parse(disk.text) # None
    BY <1>2, ParsedPolicy DEF TypeOK
  <2>2. mtimeMs' \in Stamps \cup {None} /\ seen' \in Stamps \cup {None}
    BY <1>1, <1>2 DEF TypeOK
  <2>3. TypeOK' /\ Watching' /\ Quiet' /\ AnswerIsCurrent' /\ pc' \in {"down", "idle"}
    BY <1>1, <1>2, <2>1, <2>2, LoadOver
  <2>4. Stamped' /\ InStep'
    BY <1>1, <1>2, <2>3 DEF Stamped, InStep
  <2> QED BY <2>3, <2>4
<1>3. CASE ~ Good(disk.text) /\ AfterLoad(loaded) /\ UNCHANGED <<loaded, mtimeMs>>
  <2>1. TypeOK' /\ Watching' /\ Quiet' /\ AnswerIsCurrent' /\ pc' \in {"down", "idle"}
    BY <1>1, <1>3, LoadOver DEF TypeOK, Quiet
  <2>2. Stamped' /\ InStep'
    BY <1>1, <1>3, <2>1 DEF Stamped, InStep
  <2> QED BY <2>1, <2>2
<1> QED BY <1>2, <1>3 DEF LoadRead

LEMMA SessionStep ==
  ASSUME IInv, NEW s \in Sids, Register(s) \/ CloseSession(s)
  PROVE  IInv'
<1> USE DEF IInv
<1>1. session' \in [Sids -> Entries \cup {None}]
  <2>1. CASE Register(s)
    <3>1. session[s] \in Entries
      BY <2>1 DEF Register, TypeOK
    <3>2. [stage |-> "open", profile |-> session[s].profile] \in Entries
      BY <3>1 DEF Entries
    <3> QED BY <2>1, <3>2 DEF Register, TypeOK
  <2>2. CASE CloseSession(s)
    BY <2>2 DEF CloseSession, TypeOK
  <2> QED BY <2>1, <2>2
<1>2. /\ pc = "idle" /\ since' = None /\ answer' = None
      /\ UNCHANGED <<disk, used, goodAt, loaded, mtimeMs, pc, seen, req>>
  BY DEF Register, CloseSession
<1>3. TypeOK'
  BY <1>1, <1>2 DEF TypeOK
<1>4. Stamped' /\ InStep' /\ Watching' /\ Quiet' /\ AnswerIsCurrent'
  BY <1>2 DEF Stamped, InStep, Watching, Quiet, AnswerIsCurrent
<1> QED BY <1>3, <1>4

LEMMA StartStep == IInv /\ Start => IInv'
<1> SUFFICES ASSUME IInv, Start PROVE IInv'
  OBVIOUS
<1> USE DEF IInv
<1>1. TypeOK'
  BY DEF Start, TypeOK, Quiet
<1> QED BY <1>1 DEF Start, Stamped, InStep, Watching, Quiet, AnswerIsCurrent

LEMMA StopStep == IInv /\ Stop => IInv'
<1> SUFFICES ASSUME IInv, Stop PROVE IInv'
  OBVIOUS
<1> USE DEF IInv
<1>1. TypeOK'
  BY DEF Stop, TypeOK
<1>2. Stamped' /\ InStep' /\ Watching' /\ Quiet' /\ AnswerIsCurrent'
  BY StoreAssumption DEF Stop, TypeOK, Stamped, InStep, Watching, Quiet, AnswerIsCurrent
<1> QED BY <1>1, <1>2

LEMMA Inductive == IInv /\ [Next]_vars => IInv'
<1> SUFFICES ASSUME IInv, [Next]_vars PROVE IInv'
  OBVIOUS
<1>1. CASE Next
  BY <1>1, EditStep, RequestStep, LoadStatStep, LoadReadStep, SessionStep, StartStep, StopStep
  DEF Next
<1>2. CASE UNCHANGED vars
  BY <1>2 DEF vars, IInv, TypeOK, Stamped, InStep, Watching, Quiet, AnswerIsCurrent
<1> QED BY <1>1, <1>2

\* The invariant of the store, at all times.
THEOREM StoreInvariance == Spec => []IInv
BY InitStep, Inductive, PTL DEF Spec

\* The types of the store, and that it never answers without a policy.
THEOREM StoreTypes == Spec => []TypeOK
<1>1. IInv => TypeOK
  BY DEF IInv
<1> QED BY <1>1, StoreInvariance, PTL

\* A request is answered by a policy of its own time, whatever is done to the
\* file meanwhile: for any documents, stamps, tokens and sessions.
THEOREM AnswersCurrent == Spec => []AnswerIsCurrent
<1>1. IInv => AnswerIsCurrent
  BY DEF IInv
<1> QED BY <1>1, StoreInvariance, PTL
-------------------------------------------------------------------------------
\* The mode of the host rules of a profile, in terms of its text.
LEMMA ModeOfHosts ==
  ASSUME NEW raw, Compiles(raw), NEW mode, mode = CompileRules(raw, "allowlist").mode
  PROVE  /\ mode \in Modes
         /\ mode = "all" => raw.mode = "all"
         /\ mode = "blocklist" =>
              \/ raw.mode = "blocklist"
              \/ /\ raw.mode = None /\ raw.form # "list"
                 /\ raw.allow = {} /\ raw.deny # {}
<1>1. CASE raw.form = "list"
  <2>1. Normalize(raw).mode = "allowlist"
    BY <1>1 DEF Normalize
  <2>2. mode = "allowlist"
    BY <2>1, RulesAssumption DEF CompileRules, InferMode, Modes
  <2> QED BY <2>2 DEF Modes
<1>2. CASE raw.form # "list"
  <2>1. Normalize(raw) = raw
    BY <1>2 DEF Normalize
  <2>2. mode = InferMode(raw, "allowlist")
    BY <2>1 DEF CompileRules
  <2>3. CASE raw.mode # None
    BY <2>2, <2>3 DEF InferMode, Compiles
  <2>4. CASE raw.mode = None /\ raw.allow # {}
    BY <2>2, <2>4 DEF InferMode, Modes
  <2>5. CASE raw.mode = None /\ raw.allow = {} /\ raw.deny # {}
    <3>1. mode = "blocklist"
      BY <2>2, <2>5 DEF InferMode
    <3> QED BY <1>2, <2>5, <3>1 DEF Modes
  <2>6. CASE raw.mode = None /\ raw.allow = {} /\ raw.deny = {}
    BY <2>2, <2>6 DEF InferMode, Modes
  <2> QED BY <2>3, <2>4, <2>5, <2>6
<1> QED BY <1>1, <1>2

\* A host a call may act on is one the text of the profile opens.
LEMMA ReachIsOpened ==
  ASSUME NEW name, NEW spec, Builds(spec), NEW ref, NEW i \in DOMAIN Fleet,
         ResolveAllowed(BuildProfile(name, spec), ref) = i
  PROVE  Opens(spec, Fleet[i])
<1> DEFINE profile == BuildProfile(name, spec)
<1> DEFINE labels == LabelsOf(Fleet[i])
<1> DEFINE allow == Expand(spec.hosts.allow)
<1> DEFINE deny == Expand(spec.hosts.deny)
<1> DEFINE mode == CompileRules(spec.hosts, "allowlist").mode
<1>1. i # None
  BY FleetAssumption
<1>2. ~ IsBlocked(profile, Fleet[i]) /\ AllowsHost(profile, Fleet[i])
  BY <1>1 DEF ResolveAllowed
<1>3. /\ profile.hosts = CompileRules(spec.hosts, "allowlist")
      /\ profile.globalBlocklist =
           IF spec.globalBlocklist = None THEN "enforce" ELSE spec.globalBlocklist
  BY DEF BuildProfile
<1>4. profile.hosts.mode = mode /\ profile.hosts.allow = allow /\ profile.hosts.deny = deny
  <2>1. Normalize(spec.hosts).allow = spec.hosts.allow
        /\ Normalize(spec.hosts).deny = spec.hosts.deny
    BY DEF Normalize
  <2> QED BY <1>3, <2>1 DEF CompileRules
<1>5. labels \cap Blocklist # {} => spec.globalBlocklist = "ignore"
  BY <1>2, <1>3 DEF IsBlocked, Builds
<1>6. /\ mode \in Modes
      /\ mode = "all" => spec.hosts.mode = "all"
      /\ mode = "blocklist" =>
           \/ spec.hosts.mode = "blocklist"
           \/ /\ spec.hosts.mode = None /\ spec.hosts.form # "list"
              /\ spec.hosts.allow = {} /\ spec.hosts.deny # {}
  BY ModeOfHosts DEF Builds
<1>7. CASE labels = {}
  <2>1. mode = "all"
    BY <1>2, <1>4, <1>7 DEF AllowsHost
  <2> QED BY <1>5, <1>6, <1>7, <2>1 DEF Opens
<1>8. CASE labels # {}
  <2>1. DecideValue(labels, profile.hosts)
    BY <1>2, <1>8 DEF AllowsHost
  <2>2. \/ mode = "all"
        \/ mode = "blocklist" /\ (labels \cap deny # {} => labels \cap allow # {})
        \/ mode = "allowlist" /\ labels \cap allow # {} /\ labels \cap deny = {}
    BY <2>1, <1>4, <1>6 DEF DecideValue, Modes
  <2> QED BY <1>5, <1>6, <2>2 DEF Opens
<1> QED BY <1>7, <1>8

\* Nothing is open by default, whatever the documents, the fleet and the
\* blocklist: what a session's calls can reach, the text of its profile opens.
THEOREM OpenedByText == Spec => []NothingByDefault
<1>1. TypeOK => NothingByDefault
  <2> SUFFICES ASSUME TypeOK, NEW s \in Sids, session[s] # None
               PROVE  \E d \in Docs :
                 /\ Good(d)
                 /\ \E n \in DOMAIN d.profiles :
                      /\ session[s].profile = BuildProfile(n, d.profiles[n])
                      /\ \A i \in DOMAIN Fleet :
                           i \in {ResolveAllowed(session[s].profile, ref) :
                                    ref \in {Fleet[i].id} \cup LabelsOf(Fleet[i])}
                             => Opens(d.profiles[n], Fleet[i])
    BY DEF NothingByDefault
  <2>1. PICK p \in Policies : session[s].profile \in ProfilesOf(p)
    BY DEF TypeOK, Entries
  <2>2. PICK d \in Docs : Good(d) /\ p = Parse(d)
    BY DEF Policies
  <2>3. PICK n \in DOMAIN p.profiles : session[s].profile = p.profiles[n]
    BY <2>1 DEF ProfilesOf
  <2>4. n \in DOMAIN d.profiles /\ session[s].profile = BuildProfile(n, d.profiles[n])
    BY <2>2, <2>3 DEF Parse
  <2>5. Builds(d.profiles[n])
    BY <2>2, <2>4 DEF Good, Parses
  <2> QED BY <2>2, <2>4, <2>5, ReachIsOpened
<1> QED BY <1>1, StoreTypes, PTL

\* access_policy_check tells the truth of a host whose label is its own, for
\* any fleet, blocklist and policy.
THEOREM CheckIsTruthful == Spec => []CheckTellsTruth
<1>1. CheckTellsTruth
  <2> SUFFICES ASSUME NEW profile \in ProfilesOf(loaded), NEW i \in DOMAIN Fleet,
                      \A j \in DOMAIN Fleet \ {i} : LabelOf(Fleet[i]) \notin LabelsOf(Fleet[j])
               PROVE  ReportedAllowed(profile, i) <=> ResolveAllowed(profile, Fleet[i].id) = i
    BY DEF CheckTellsTruth
  <2>1. i # None /\ i \in Nat
    BY FleetAssumption
  <2>2. Resolve(Fleet[i].id) = i
    <3>1. {j \in DOMAIN Fleet : Fleet[j].id = Fleet[i].id} = {i}
      BY FleetAssumption
    <3> QED BY <3>1 DEF Resolve
  <2>3. ResolveAllowed(profile, Fleet[i].id) = i
          <=> ~ IsBlocked(profile, Fleet[i]) /\ AllowsHost(profile, Fleet[i])
    BY <2>1, <2>2 DEF ResolveAllowed
  <2>4. BlockedByGlobal(profile, LabelOf(Fleet[i])) <=> IsBlocked(profile, Fleet[i])
    <3>1. CASE LabelOf(Fleet[i]) = None
      <4>1. LabelsOf(Fleet[i]) = {}
        BY <3>1 DEF LabelOf, LabelsOf
      <4>2. {j \in DOMAIN Fleet : None \in LabelsOf(Fleet[j])} = {}
        BY DEF LabelsOf
      <4>3. ByLabel(None) = None
        BY <4>2 DEF ByLabel
      <4> QED BY <3>1, <4>1, <4>3 DEF BlockedByGlobal, IsBlocked
    <3>2. CASE LabelOf(Fleet[i]) # None
      <4>1. LabelOf(Fleet[i]) \in LabelsOf(Fleet[i])
        BY <3>2 DEF LabelOf, LabelsOf
      <4>2. {j \in DOMAIN Fleet : LabelOf(Fleet[i]) \in LabelsOf(Fleet[j])} = {i}
        BY <4>1
      <4>3. ByLabel(LabelOf(Fleet[i])) = i
        BY <2>1, <4>2 DEF ByLabel
      <4> QED BY <2>1, <4>3 DEF BlockedByGlobal, IsBlocked
    <3> QED BY <3>1, <3>2
  <2> QED BY <2>3, <2>4 DEF ReportedAllowed
<1> QED BY <1>1, PTL

===============================================================================
