SPECIFICATION Spec
CONSTANTS
  foo = foo  bar = bar  foo10 = foo10  foo11 = foo11  bar10 = bar10
  None = None
  Names = {foo, bar}
  Kinds = {populate_sysroot, populate_lic}
  populate_sysroot = populate_sysroot  populate_lic = populate_lic
  Versions = {foo10, foo11, bar10}
  NameOf <- MCNameOf
  MaxBuilds = 3
  MaxKills = 1
INVARIANTS IndexOnce FilesIndexed UnreachableGone StampsTell
PROPERTIES PruneSparesOne
CHECK_DEADLOCK FALSE
