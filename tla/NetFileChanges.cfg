\* Pushes of at most four commits: added, changed, removed and added again.
CONSTANTS
  p1 = p1
  readme = readme
  AllPaths <- MCAllPaths
  GoFiles <- MCGoFiles
  MaxCommits = 4
SPECIFICATION Spec
INVARIANTS
  NetOfPush
CHECK_DEADLOCK FALSE
