\* The rotation with two processes, failures and crashes.
CONSTANTS
  None = None
  Writers = {p, q}
  MaxFiles = 4
  MaxBytes = 4
  MaxLine = 2
  Entries <- MCEntries
  MaxRecords = 7
  MaxTorn = 1
SYMMETRY Symmetry
SPECIFICATION Spec
INVARIANTS TypeOK WriterOrdered NewestKept RecentKept FilesBounded
