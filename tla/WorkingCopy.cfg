CONSTANTS
  Ours = {"mine"}
  Theirs = {"theirs"}
  Scope = {"code", "tasks"}
  Scaffold = FALSE
  MaxCommits = 4
  MaxSpare = 2
  None = None
SPECIFICATION Spec
INVARIANTS TestedUnlessExcused MainOnlyMerged
PROPERTIES RemoteOnlyGrows OthersKept NotBehindFetched
