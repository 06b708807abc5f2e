\* One map, two plain headers, deletions.
CONSTANTS
  m1 = m1
  m2 = m2
  host = host
  k1 = k1
  k2 = k2
  v1 = v1
  v2 = v2
  Empty = Empty
  Nil = Nil
  Maps = {m1}
  Special = {host}
  Plain = {k1, k2}
  Values = {v1}
  Deletes = {k1, k2}
  Chunk = 4
  MaxCap = 4
SPECIFICATION Spec
INVARIANT DeletedIsGone
