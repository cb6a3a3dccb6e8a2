----------------------------- MODULE AccessRules -----------------------------
(*****************************************************************************)
(* The access policy of termix-mcp: from the document an operator writes     *)
(* to what a profile may do (access/policy.mjs, access/match.mjs,            *)
(* access/groups.mjs), how a host is looked up and vetted                    *)
(* (termix/hosts.mjs), and the decision table access_policy_check reports    *)
(* of a draft (mcp/tools/policy.mjs).  Operators only, no state.             *)
(*                                                                           *)
(* A glob is the set of the values it matches; spelling and case are left    *)
(* out.  A pattern of a list is a glob or, for tools, the name of a group.   *)
(* A rule set as written has a form: "absent", "mode" (a bare string),       *)
(* "list" (a bare array) or "object"; fields not written are None or {}.     *)
(*****************************************************************************)
EXTENDS Naturals, Sequences

CONSTANTS
  None,       \* what is not there: a field, a token, a host
  Groups,     \* TOOL_GROUPS: from the names of groups to sets of tools
  Fleet,      \* the hosts in Termix, in the order of its list: id, name, ip
  Blocklist   \* TERMIX_BLOCKLIST: names and addresses

Modes == {"allowlist", "blocklist", "all", "none"}

ASSUME RulesAssumption == None \notin Modes

-------------------------------------------------------------------------------
(*****************************************************************************)
(* One dimension of a profile: hosts, tools or paths.                        *)
(*****************************************************************************)
Absent == [form |-> "absent", mode |-> None, allow |-> {}, deny |-> {}]

Glob(values) == [group |-> None, matches |-> values]
Group(g) == [group |-> g, matches |-> {}]

\* The shorthands: a bare mode, or a bare array that is an allowlist even when
\* it is empty.
Normalize(raw) ==
  IF raw.form = "list"
  THEN [form |-> "list", mode |-> "allowlist", allow |-> raw.allow, deny |-> raw.deny]
  ELSE raw

\* The mode that is written, or the one the lists imply.
InferMode(spec, fallback) ==
  CASE spec.mode # None                     -> spec.mode
    [] spec.mode = None /\ spec.allow # {}  -> "allowlist"
    [] spec.mode = None /\ spec.allow = {} /\ spec.deny # {} -> "blocklist"
    [] OTHER                                -> fallback

\* The values a list of patterns stands for.
Expand(list) ==
  UNION {IF p.group = None THEN p.matches ELSE Groups[p.group] : p \in list}

CompileRules(raw, fallback) ==
  LET spec == Normalize(raw)
  IN [mode  |-> InferMode(spec, fallback),
      allow |-> Expand(spec.allow),
      deny  |-> Expand(spec.deny)]

\* What compiling refuses: an unknown mode, a group that does not exist.
Compiles(raw) ==
  /\ raw.mode \in Modes \cup {None}
  /\ \A p \in raw.allow \cup raw.deny : p.group \in DOMAIN Groups \cup {None}

\* Any of the candidates may match, on either list; the list that does not name
\* the mode holds the exceptions.
DecideValue(candidates, rules) ==
  LET allowed == candidates \cap rules.allow # {}
      denied == candidates \cap rules.deny # {}
  IN CASE rules.mode = "all"       -> TRUE
       [] rules.mode = "none"      -> FALSE
       [] rules.mode = "blocklist" -> denied => allowed
       [] rules.mode = "allowlist" -> allowed /\ ~ denied

-------------------------------------------------------------------------------
(*****************************************************************************)
(* Profiles and documents.                                                   *)
(*****************************************************************************)
\* Mutant: a profile that says nothing of hosts reaches all of them.
BuildProfileOpen(name, spec) ==
  [name |-> name, token |-> spec.token,
   mutations |-> IF spec.mutations = None THEN "allow" ELSE spec.mutations,
   globalBlocklist |-> IF spec.globalBlocklist = None THEN "enforce" ELSE spec.globalBlocklist,
   hosts |-> CompileRules(spec.hosts, "all"),
   tools |-> CompileRules(spec.tools, "all"),
   paths |-> CompileRules(spec.paths, "all")]

\* A profile: hosts fail closed, tools and paths are open unless restricted.
BuildProfile(name, spec) ==
  [name |-> name, token |-> spec.token,
   mutations |-> IF spec.mutations = None THEN "allow" ELSE spec.mutations,
   globalBlocklist |-> IF spec.globalBlocklist = None THEN "enforce" ELSE spec.globalBlocklist,
   hosts |-> CompileRules(spec.hosts, "allowlist"),
   tools |-> CompileRules(spec.tools, "all"),
   paths |-> CompileRules(spec.paths, "all")]

Builds(spec) ==
  /\ spec.mutations \in {None, "allow", "deny"}
  /\ spec.globalBlocklist \in {None, "enforce", "ignore"}
  /\ Compiles(spec.hosts) /\ Compiles(spec.tools) /\ Compiles(spec.paths)

\* Whether a document is a policy.  Text that is no JSON, a missing secret and
\* a document without profiles are one case: a document without profiles.
Parses(doc) ==
  /\ DOMAIN doc.profiles # {}
  /\ \A n \in DOMAIN doc.profiles : Builds(doc.profiles[n])
  /\ doc.default \in DOMAIN doc.profiles \cup {None}
  /\ \A m, n \in DOMAIN doc.profiles :
       doc.profiles[m].token = doc.profiles[n].token /\ doc.profiles[m].token # None => m = n

Parse(doc) ==
  [default |-> doc.default,
   profiles |-> [n \in DOMAIN doc.profiles |-> BuildProfile(n, doc.profiles[n])]]

\* The name of the profile a bearer token selects, or None.
NameByToken(policy, token) ==
  IF token # None /\ \E n \in DOMAIN policy.profiles : policy.profiles[n].token = token
  THEN CHOOSE n \in DOMAIN policy.profiles : policy.profiles[n].token = token
  ELSE None

-------------------------------------------------------------------------------
(*****************************************************************************)
(* Hosts.  A host without a name has None for it, and likewise for ip.       *)
(*****************************************************************************)
LabelsOf(host) == {host.name, host.ip} \ {None}

AllowsHost(profile, host) ==
  IF LabelsOf(host) = {} THEN profile.hosts.mode = "all"
  ELSE DecideValue(LabelsOf(host), profile.hosts)

\* On the global blocklist, by name or by address, unless the profile opts out.
IsBlocked(profile, host) ==
  profile.globalBlocklist = "enforce" /\ LabelsOf(host) \cap Blocklist # {}

\* The position of the host a reference means: an id, or a name or address that
\* only one host has.  An ambiguous reference is refused.
Resolve(ref) ==
  LET byId == {i \in DOMAIN Fleet : Fleet[i].id = ref}
      byLabel == {i \in DOMAIN Fleet : ref \in LabelsOf(Fleet[i])}
      matches == IF byId # {} THEN byId ELSE byLabel
  IN IF \E i \in matches : matches = {i} THEN CHOOSE i \in matches : TRUE ELSE None

\* The host a tool call may act on, or None: resolve, blocklist, profile.
ResolveAllowed(profile, ref) ==
  LET i == Resolve(ref)
  IN IF i = None \/ IsBlocked(profile, Fleet[i]) \/ ~ AllowsHost(profile, Fleet[i])
     THEN None ELSE i

-------------------------------------------------------------------------------
(*****************************************************************************)
(* access_policy_check: hosts appear in its answer under their name, or      *)
(* their address if they have none; the blocklist is consulted for the       *)
(* host the label leads to, the last one that carries it.                    *)
(*****************************************************************************)
LabelOf(host) == IF host.name # None THEN host.name ELSE host.ip

ByLabel(label) ==
  LET carriers == {i \in DOMAIN Fleet : label \in LabelsOf(Fleet[i])}
  IN IF carriers = {} THEN None ELSE CHOOSE i \in carriers : \A j \in carriers : j <= i

\* Mutant: the check forgets that a profile may ignore the blocklist.
BlockedAlways(profile, label) ==
  LET i == ByLabel(label) IN i # None /\ LabelsOf(Fleet[i]) \cap Blocklist # {}

\* blockedByGlobalFor
BlockedByGlobal(profile, label) ==
  LET i == ByLabel(label)
  IN profile.globalBlocklist = "enforce" /\ i # None /\ LabelsOf(Fleet[i]) \cap Blocklist # {}

\* The verdict the check reports of the i-th host: explain, then the blocklist.
ReportedAllowed(profile, i) ==
  AllowsHost(profile, Fleet[i]) /\ ~ BlockedByGlobal(profile, LabelOf(Fleet[i]))
===============================================================================
