SPECIFICATION Spec
CONSTANTS
  foo = foo  bar = bar  foo10 = foo10  foo11 = foo11  bar10 = bar10
  None = None
  Names = {foo}
  Kinds = {populate_sysroot, populate_lic}
  populate_sysroot = populate_sysroot  populate_lic = populate_lic
  Versions = {foo10, foo11}
  NameOf <- MCNameOf
  MaxBuilds = 3
  MaxKills = 0
PROPERTIES PruneSpares
CHECK_DEADLOCK FALSE
