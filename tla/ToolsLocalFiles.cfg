SPECIFICATION ToolsSpec
CONSTANTS
    app = app
    lib = lib
    svc = svc
    doc = doc
    Pkgs <- MCPkgs
    Depends <- MCDepends
    Complements <- MCComplements
    PostinstRoot = PostinstRoot
    Asked <- MCAsked
    Scripted = {app, lib, svc}
    Unneeded = {svc}
    MaxBuilds = 2
    MaxStarts = 2
    p1 = p1
    p2 = p2
    Patches <- MCPatches
    MaxPatchRuns = 3
    NPatches = 2
    MaxCommands = 3
    MaxEdits = 3
    Kickstarts <- MCKickstarts
    MaxWicRuns = 2
    f = f
    g = g
    l = l
    ra = ra
    rb = rb
    Files = {f, g, l}
    Existing = {f, l}
    Links = {l}
    DirOf <- MCDirOf
    Outputs <- MCOutputs
    MaxDeploys = 4
    ConfFiles = {"local.conf", "locked-sigs.inc"}
    MaxPublished = 3
    MaxUpdates = 4
    Components = {"x", "y"}
    Reach <- MCReach
    Merges = {4}
    Heads <- MCHeads
    MaxComboRuns = 2
    Runqemus = {"a", "b", "c"}
    Taps = {1, 2}
    Bank = {1}
    MaxRunqemus = 3
    MaxBlocks = 4
    BlockSize = 2
    MaxExtents = 2
    Offsets = {0, 4}
    MaxChunks = 2
    Suites <- MCSuites
    Decorations <- MCDecorations
    Selections <- MCSelections
    Names <- MCNames
    DTrees <- MCDTrees
    FilesVars <- MCFilesVars
    PackageOrder <- MCOrder
    DebugPackages = {"main-dbg"}
    DebugSrc <- MCDebugSrc
    Sources <- MCSources
    LinkTable <- MCLinkTable
    PermsTable <- MCPermsTable
PROPERTY LocalFilesKept
CHECK_DEADLOCK FALSE
