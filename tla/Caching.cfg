\* Two documents, two calls at once, two commits, one tick of the clock past
\* the life of an entry.
SPECIFICATION Spec
CONSTANTS
  d1 = d1  d2 = d2  c1 = c1  c2 = c2
  Docs = {d1, d2}  Calls = {c1, c2}
  Ttl = 1  MaxWrites = 2  MaxTime = 1  MaxFaults = 1
INVARIANTS Coherent BoundedStaleness
SYMMETRY Symmetric
CHECK_DEADLOCK FALSE
