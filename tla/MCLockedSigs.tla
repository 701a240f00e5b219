---------------------------- MODULE MCLockedSigs ----------------------------
(* Of recipe b, task b2 depends on a and b1 does not.  c depends on b by   *)
(* its second task only, d on bp, whose name has b's in it.  The filter    *)
(* drops quilt-native (q) and keeps out a of all but b, an image.          *)
EXTENDS LockedSigs
CONSTANTS a1, b1, b2, c1, c2, d1, p1, q1

MCTasks == {a1, b1, b2, c1, c2, d1, p1, q1}
MCRecipe == [t \in MCTasks |->
  CASE t = a1 -> "a" [] t \in {b1, b2} -> "b" [] t \in {c1, c2} -> "c"
    [] t = d1 -> "d" [] t = p1 -> "bp" [] OTHER -> "quilt-native"]
MCDeps == [t \in MCTasks |->
  CASE t = b1 -> {q1} [] t = b2 -> {a1, b1} [] t = c1 -> {a1} [] t = c2 -> {c1, b2}
    [] t = d1 -> {p1} [] OTHER -> {}]
MCInside == {<<"b", "bp">>}
=============================================================================
