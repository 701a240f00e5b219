--------------------------- MODULE MCSstateIndex ---------------------------
(* Recipe foo with two versions and bar with one.                          *)
EXTENDS SstateIndex

CONSTANTS populate_sysroot, populate_lic, foo, bar, foo10, foo11, bar10

MCNameOf == [v \in Versions |-> IF v = bar10 THEN bar ELSE foo]
=============================================================================
