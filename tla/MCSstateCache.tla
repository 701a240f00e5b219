--------------------------- MODULE MCSstateCache ---------------------------
(* Two builders and three hashes, of which one is on the mirror.           *)
EXTENDS SstateCache
CONSTANTS b1, b2, h1, h2, h3
=============================================================================
