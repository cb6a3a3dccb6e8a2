\* The store and its file: every interleaving of edits and requests.
CONSTANTS
  none = none
  t1 = t1
  t2 = t2
  web = web
  ip1 = ip1
  ip2 = ip2
  ip3 = ip3
  id1 = id1
  id2 = id2
  id3 = id3
  None <- MCNone
  Groups <- MCGroups
  Fleet <- MCFleet
  Blocklist <- MCBlocklist
  Docs <- MCDocs
  Tokens <- MCTokens
  Sids = {s1}
  Stamps = {1, 2, 3}
SPECIFICATION Spec
INVARIANTS TypeOK AnswerIsCurrent NothingByDefault CheckTellsTruth
