SPECIFICATION MCSpec
CONSTANTS
  Nil = Nil
  c1 = c1
  p1 = p1
  w1 = w1
  r1 = r1
  Runs = {r1}
  Codebases = {c1}
  Repositories = {p1}
  Workspaces = {w1}
  Checkouts = {k1}
  Leases = {l1, l2}
  Owners = {o1}
  Artifacts = {a1, a2}
  Names = {n1, n2}
  Hashes = {h1, h2}
  Inodes = {i1, i2, i3}
  MaxEvents = 6
  MaxFaults = 2
  Commands <- StoreCommands
SYMMETRY MCSymmetry
CHECK_DEADLOCK FALSE
INVARIANTS CommittedIsDurable ReplayConverges
