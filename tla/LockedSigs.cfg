SPECIFICATION Spec
CONSTANTS
  a1 = a1  b1 = b1  b2 = b2  c1 = c1  c2 = c2  d1 = d1  p1 = p1  q1 = q1
  NoHash = NoHash
  Tasks <- MCTasks
  Recipe <- MCRecipe
  Deps <- MCDeps
  Inside <- MCInside
  Tools = {"quilt-native"}
  SafeDeps = {}  NativeLike = {"quilt-native"}  Native = {"quilt-native"}
  PackageGroups = {}  AllArch = {}  AbiSafe = {"a"}  Images = {"b"}
  Kernels = {}  WantsModules = {}
  Unlocked = {"b"}
  Filter = {a1, b1, b2, c1, c2, d1, p1}
  Sstate = {b2, c2}
  SharedWorkdir = {}
  TasksigCheck = "error"
  ExistsCheck = "none"
INVARIANTS StaysLocked RunsUnlocked NoSilentMismatch RoundTrip
CHECK_DEADLOCK FALSE
