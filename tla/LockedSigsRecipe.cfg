SPECIFICATION Spec
CONSTANTS
  a1 = a1  b1 = b1  b2 = b2  c1 = c1  c2 = c2  d1 = d1  p1 = p1  q1 = q1
  NoHash = NoHash
  Tasks <- MCTasks
  Recipe <- MCRecipe
  Deps <- MCDeps
  Inside = {}
  Tools = {"quilt-native"}
  SafeDeps = {}  NativeLike = {"quilt-native"}  Native = {"quilt-native"}
  PackageGroups = {}  AllArch = {}  AbiSafe = {"a"}  Images = {"b"}
  Kernels = {}  WantsModules = {}
  Unlocked = {"a"}
  Filter = {a1, b1, b2, c1, c2, d1, p1}
  Sstate = {b2, c2}
  SharedWorkdir = {}
  TasksigCheck = "warn"
  ExistsCheck = "none"
INVARIANT RecipeUnlocked
CHECK_DEADLOCK FALSE
