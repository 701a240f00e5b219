------------------------------ MODULE MCTools ------------------------------
(* The thirteen programs of Tools on small packages, patches, trees, disks *)
(* and networks.                                                           *)
EXTENDS Tools

CONSTANTS app, lib, svc, doc,   \* packages
          p1, p2,               \* patches
          f, g, l,              \* files of a target
          ra, rb                \* recipes that are deployed

MCPkgs == {app, lib, svc, doc}
MCDepends == [p \in MCPkgs |-> CASE p = app -> {lib} [] p = doc -> {svc} [] p = lib -> {svc} [] p = svc -> {lib}]
MCComplements == [p \in MCPkgs |-> IF p = app THEN {doc} ELSE {}]
MCAsked == {{}, {app}, {svc}}
MCPatches == <<p1, p2>>
MCReach == <<{1}, {1, 2}, {1, 3}, {1, 2, 3, 4}>>   \* 4 merges 2 and 3, made on 1
MCHeads == [x |-> <<1, 4>>, y |-> <<1, 2>>]
MCSuites == << <<"ssh", "scp">>, <<"ping">>, <<"scp">> >>
Needs(t, a, u, b) == [v \in Tests |-> IF v = t THEN a ELSE IF v = u THEN b ELSE <<>>]
MCDecorations ==
    {Needs(<<1, 1>>, a, <<2, 1>>, b) : a \in {<<>>, <<"ping">>, <<"ping", "scp">>},
                                       b \in {<<>>, <<"scp">>}}
    \cup {Needs(<<1, 2>>, a, <<3, 1>>, b) : a \in {<<"ssh">>, <<"ping">>},
                                            b \in {<<>>, <<"ssh">>, <<"ping", "ssh">>}}
    \cup {Needs(<<1, 1>>, <<"ping">>, <<3, 1>>, <<"ssh">>)}
MCSelections == {Tests, Tests \ {<<1, 2>>}}
MCOutputs == [r \in {ra, rb} |-> IF r = ra THEN {{f, g}, {l}} ELSE {{g}}]
MCDirOf == [x \in {f, g, l} |-> IF x = l THEN "etc" ELSE "opt"]

Bin == <<"usr", "bin">>
UsrLib == <<"usr", "lib">>
SrcDir == <<"usr", "src">>
Link(to) == [kind |-> "link", of |-> to]
Node(kind, node) == [kind |-> kind, of |-> node]
OneElf == Append(Bin, "a") :> Node("elf", <<1>>)
OneRun == <<"var", "run", "s">> :> Node("file", <<>>)
ToSrc == Append(Bin, "l") :> Link(SrcDir)
ToLib == Append(Bin, "l") :> Link(Append(UsrLib, "x"))
ToDebug == Append(Bin, "m") :> Link(Bin \o <<".debug", "a">>)
DTree(entries) == With(<<>>, [p \in {Bin, UsrLib, <<"home">>} |-> Dir] @@ entries)
MCNames == STRING
MCDTrees == {DTree(elf @@ lnk @@ lib2 @@ dir @@ run) :
    elf \in {<<>>, OneElf, OneElf @@ (Append(Bin, "b") :> Node("elf", <<1>>))},
    lnk \in {<<>>, ToSrc, ToLib, ToLib @@ ToDebug},
    lib2 \in {<<>>, Append(UsrLib, "x") :> Node("elf", <<2>>)},
    dir \in {<<"lib">> :> Link(UsrLib), SrcDir :> Dir},
    run \in {<<>>, OneRun, OneRun @@ (<<"run">> :> Dir)}}
MCOrder == <<"main", "libs", "main-dbg", "main">>
Files3(m, n, o) == [k \in Range(MCOrder) |-> IF k = "main" THEN m ELSE IF k = "libs" THEN n ELSE o]
AllFiles == Files3({Bin, <<"var">>, <<"run">>}, {UsrLib, <<"lib">>}, {SrcDir})
MCDebugSrc == Append(SrcDir, "debug")
MCFilesVars == {
    AllFiles,
    Files3({Append(Bin, "a"), Append(Bin, "l")}, {<<"lib", "*">>, Append(UsrLib, "x")}, {}),
    Files3({<<"lib", "*">>, <<"lib">>}, {UsrLib}, {SrcDir}),
    Files3({Append(Bin, "*"), Append(UsrLib, "y")}, {<<"usr">>, <<"home">>}, {MCDebugSrc})}
MCSources == {Append(MCDebugSrc, "s.c")}
MCLinkTable == << << <<"var", "run">>, <<"run">> >>, << <<"var", "lock">>, <<"run", "lock">> >> >>
MCPermsTable == [d \in {<<"usr">>, Bin, SrcDir, MCDebugSrc, <<"home">>} |-> d = MCDebugSrc]

Part(d, s, a, n, o) == [disk |-> d, size |-> s, align |-> a, noTable |-> n, source |-> o]
Usual == {Part("sda", 3, 0, FALSE, "rootfs"), Part("sda", 1, 4, FALSE, "none"),
          Part("sda", 2, 0, TRUE, "none")}
Special == {Part("sda", 2, 0, TRUE, "boot"), Part("sda", 2, 0, FALSE, "swap"),
            Part("sda", 5, 2, FALSE, "fsimage"), Part("sdb", 2, 2, FALSE, "none")}
MCKickstarts == [1..6 -> Usual] \cup UNION {[1..n -> Usual \cup Special] : n \in 1..3}
=============================================================================
