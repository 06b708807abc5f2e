\* Two maps, one special and two plain headers, two values; kvs grows twice.
\* Nothing is claimed of maps that share memory, so they are not followed further.
CONSTANTS
  m1 = m1
  m2 = m2
  host = host
  k1 = k1
  k2 = k2
  v1 = v1
  v2 = v2
  Empty = Empty
  Nil = Nil
  Maps = {m1, m2}
  Special = {host}
  Plain = {k1, k2}
  Values = {v1, v2}
  Deletes = {host, k1, k2}
  Chunk = 1
  MaxCap = 2
SPECIFICATION Spec
INVARIANT TypeOK
PROPERTIES ActsAsMap StaysClean
CONSTRAINT AllClean
SYMMETRY Symmetry
