---------------------------- MODULE MCPolicyStore ----------------------------
(*****************************************************************************)
(* An instance of PolicyStore: three complete policies that differ in        *)
(* rules, tokens and opt-outs, a broken one, and a fleet with a shared       *)
(* name, a host without a name and hosts on the blocklist.                   *)
(*****************************************************************************)
EXTENDS PolicyStore

CONSTANTS none, t1, t2, web, ip1, ip2, ip3, id1, id2, id3

MCNone == none
MCTokens == {t1, t2}
MCGroups == [writers |-> {"write"}]
MCFleet == << [id |-> id1, name |-> web, ip |-> ip1],
              [id |-> id2, name |-> web, ip |-> ip2],
              [id |-> id3, name |-> None, ip |-> ip3] >>
MCBlocklist == {ip2, ip3}

Rules(mode, allow, deny) ==
  [form |-> "object", mode |-> mode, allow |-> allow, deny |-> deny]

Profile(token, hosts, ignore) ==
  [token |-> token, mutations |-> None, globalBlocklist |-> ignore, hosts |-> hosts,
   tools |-> Rules(None, {}, {Group("writers")}), paths |-> Absent]

Narrow == [default |-> None, profiles |->
  [a |-> Profile(t1, Rules(None, {Glob({web, ip1})}, {Glob({ip2})}), None),
   b |-> Profile(t2, Absent, None)]]
Wide == [default |-> "a", profiles |->
  [a |-> Profile(t1, Rules(None, {}, {Glob({ip1})}), "ignore"),
   b |-> [Profile(t2, [Absent EXCEPT !.form = "mode", !.mode = "all"], None)
            EXCEPT !.mutations = "deny"]]]
Rotated == [default |-> None, profiles |->
  [a |-> Profile(t2, [Absent EXCEPT !.form = "list"], None),
   b |-> Profile(None, Rules("blocklist", {Glob({ip3})}, {Glob({ip2, ip3})}), "ignore")]]
SharedToken == [default |-> None, profiles |->
  [a |-> Profile(t1, Absent, None), b |-> Profile(t1, Absent, None)]]

MCDocs == {Narrow, Wide, Rotated, SharedToken}
===============================================================================
