SPECIFICATION Spec
CONSTANTS
  a = a  b = b  r = r  h1 = h1  h2 = h2
  ah = ah  al = al  bh = bh  inc = inc  lib = lib
  None = None
  Tasks = {a, b}
  Readers = {}
  Hashes = {h1, h2}
  Files = {ah, al, bh}
  Dirs = {inc, lib}
  Output <- OverlapOutput
  DirOf <- MCDirOf
  Locked = {}
  Whitelisted = {}
  MaxBuilds = 0
  MaxMishaps = 0
  MaxCuts = 0
INVARIANTS NoFileTwice
CHECK_DEADLOCK FALSE
