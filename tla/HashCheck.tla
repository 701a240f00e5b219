----------------------------- MODULE HashCheck -----------------------------
(* What BitBake gets from its BB_HASHCHECK_FUNCTION: one answer, that is   *)
(* the set of the tasks that have a package, or a fatal error if one that  *)
(* must have a package has none.  The check of a task that is looked for   *)
(* on the mirrors may break unnoticed by the caller: it is then answered   *)
(* for like a task that has no package and needs none.                     *)
CONSTANTS Required,      \* tasks that may not run without a package
          Checked        \* tasks that are looked for on the mirrors

VARIABLES available,     \* tasks with a package, which the call leaves alone
          unchecked,     \* tasks whose check broke
          result, found

Init == result = "none" /\ found = {} /\ unchecked = {}

CheckBreaks == /\ result = "none"
               /\ unchecked' \in {unchecked \cup {t} : t \in Checked}
               /\ UNCHANGED <<available, result, found>>

Answer == /\ result = "none"
          /\ IF Required \ unchecked \subseteq available
             THEN result' = "returned" /\ found' = available \ unchecked
             ELSE result' = "fatal" /\ found' = {}
          /\ UNCHANGED <<available, unchecked>>

Spec == Init /\ [][CheckBreaks \/ Answer]_<<available, unchecked, result, found>>
=============================================================================
