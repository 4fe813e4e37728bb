SPECIFICATION Spec
CONSTANTS
  k1 = k1
  k2 = k2
  k3 = k3
  k4 = k4
  v1 = v1
  v2 = v2
  None = None
  Key = {k1, k3}
  Val = {v1, v2}
  HashCode = {1, 2}
  LongKey = {k1}
  MaxLog = 3
  MaxDrift = 1
  Hash <- MCHash
  Prefix <- MCPrefix
INVARIANT
  SizeCountsKeys
