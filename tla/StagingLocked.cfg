SPECIFICATION FairSpec
CONSTANTS
  a = a  b = b  r = r  h1 = h1  h2 = h2
  ah = ah  al = al  bh = bh  inc = inc  lib = lib
  None = None
  Tasks = {a, b}
  Readers = {r}
  Hashes = {h1, h2}
  Files = {ah, al, bh}
  Dirs = {inc, lib}
  Output <- DisjointOutput
  DirOf <- MCDirOf
  Locked = {a, b}
  Whitelisted = {}
  MaxBuilds = 1
  MaxMishaps = 1
  MaxCuts = 0
INVARIANTS Listed StampsTell ReaderFindsFiles CopierKeepsDir
PROPERTIES OthersStay Progress
CHECK_DEADLOCK FALSE
