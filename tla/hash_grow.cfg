\* Every order of six insertions of keys that share buckets, with up to two removals.
CONSTANTS
  Keys = {1, 2, 3, 4, 5}
  Hash <- AddressHash
  HashPrimes = {5, 11, 23, 53}
  MaxInserts = 6
  MaxRemovals = 2
SPECIFICATION Spec
CHECK_DEADLOCK FALSE
INVARIANTS ProbesTerminate FindsAsPromised
PROPERTY StepsAsPromised
