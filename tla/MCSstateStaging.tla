-------------------------- MODULE MCSstateStaging --------------------------
(* Small instances of SstateStaging: two recipes whose output shares the   *)
(* directory inc; a's output changes with its hash.                        *)
EXTENDS SstateStaging

CONSTANTS a, b, r, h1, h2, ah, al, bh, inc, lib

Out(A1, A2, B) == [t \in {a, b} |-> [h \in Hashes |->
                    IF t = b THEN B ELSE IF h = h1 THEN A1 ELSE A2]]

DisjointOutput == Out({ah, al}, {ah}, {bh})
OverlapOutput  == Out({ah}, {ah}, {ah})
MCDirOf == [f \in {ah, al, bh} |-> IF f = al THEN lib ELSE inc]
=============================================================================
