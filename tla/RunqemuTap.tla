----------------------------- MODULE RunqemuTap -----------------------------
(***************************************************************************)
(* How several scripts/runqemu share tap devices: each device has a lock   *)
(* file in /tmp/qemu-tap-locks, which who uses the device creates, locks   *)
(* with flock, unlocks and removes.  A lock belongs to the file and not to *)
(* its name: every file created gets a number of its own.                  *)
(***************************************************************************)
EXTENDS FiniteSetsExt, Naturals

CONSTANTS Runqemus,      \* processes
          Taps,          \* numbers of devices
          Bank,          \* those that runqemu-gen-tapdevs has made
          MaxRunqemus    \* bound on the starts of runqemu

ASSUME TapAssumption == Taps \subseteq Nat \ {0} /\ Bank \subseteq Taps

VARIABLES devices,       \* the tap devices there are
          nosudo,        \* /etc/runqemu-nosudo exists
          lockfile,      \* [tap -> the file at its lock's name, 0 for none]
          lockFiles,     \* number of lock files created so far
          flock,         \* those of them that are locked
          step, tap,     \* of each process
          possibles,     \* devices of its list it has not tried
          descriptor,    \* its lock file, 0 when none is open
          cleantap,      \* processes whose device is to go with them
          survivors,     \* devices of a QEMU whose runqemu was killed
          raced,         \* devices taken through one of the three windows below
          tapStarts
tapVars == <<devices, nosudo, lockfile, lockFiles, flock, step, tap, possibles, descriptor,
             cleantap, survivors, raced, tapStarts>>
None == 0   \* no file, no device

TapInit ==
    /\ devices = Bank /\ nosudo \in BOOLEAN
    /\ lockfile = [t \in Taps |-> None] /\ lockFiles = 0 /\ flock = {}
    /\ step = [p \in Runqemus |-> "idle"] /\ tap = [p \in Runqemus |-> None]
    /\ possibles = [p \in Runqemus |-> {}] /\ descriptor = [p \in Runqemus |-> None]
    /\ cleantap = {} /\ survivors = {} /\ raced = {} /\ tapStarts = 0

Become(p, s) == step' = [step EXCEPT ![p] = s]

(* setup_tap reads the list of devices.                                    *)
ListTaps(p) ==
    /\ step[p] = "idle" /\ tapStarts < MaxRunqemus /\ tapStarts' = tapStarts + 1
    /\ Become(p, "try") /\ possibles' = [possibles EXCEPT ![p] = devices]
    /\ UNCHANGED <<devices, nosudo, lockfile, lockFiles, flock, tap, descriptor, cleantap,
                   survivors, raced>>

(* acquire_lock, first half: the file is opened and created if need be.    *)
OpenLock(p) ==
    /\ \/ step[p] = "try" /\ possibles[p] # {} /\ Become(p, "flock")
          /\ tap' = [tap EXCEPT ![p] = Min(possibles[p])]
       \/ step[p] = "created" /\ Become(p, "flock created") /\ UNCHANGED tap
    /\ LET t == tap'[p]
           absent == lockfile[t] = None
       IN  /\ lockfile' = IF absent THEN [lockfile EXCEPT ![t] = lockFiles + 1] ELSE lockfile
           /\ lockFiles' = IF absent THEN lockFiles + 1 ELSE lockFiles
           /\ descriptor' = [descriptor EXCEPT ![p] = lockfile'[t]]
    /\ UNCHANGED <<devices, nosudo, flock, possibles, cleantap, survivors, raced, tapStarts>>

(* Is a QEMU left on the device, or is the file that p has open about to   *)
(* lose its name, or has it lost it?                                       *)
Doomed(p) ==
    \/ tap[p] \in survivors
    \/ descriptor[p] # lockfile[tap[p]]
    \/ \E q \in Runqemus : step[q] = "unlocked" /\ tap[q] = tap[p]
Marked(p) == IF Doomed(p) THEN raced \cup {tap[p]} ELSE raced

(* acquire_lock, second half, without waiting.  The file may have been     *)
(* removed since, or be about to be; and the result is not looked at for a *)
(* device just made, which others have seen in the list.                   *)
\* mistake: the result is not looked at for listed devices either
FlockUnchecked(p) ==
    /\ step[p] \in {"flock", "flock created"} /\ Become(p, "qemu")
    /\ flock' = flock \cup {descriptor[p]} /\ raced' = Marked(p)
    /\ possibles' = [possibles EXCEPT ![p] = {}]
    /\ UNCHANGED <<devices, nosudo, lockfile, lockFiles, tap, descriptor, cleantap, survivors,
                   tapStarts>>

Flock(p) ==
    /\ step[p] \in {"flock", "flock created"}
    /\ IF descriptor[p] \notin flock
       THEN /\ flock' = flock \cup {descriptor[p]} /\ Become(p, "qemu")
            /\ raced' = Marked(p) /\ possibles' = [possibles EXCEPT ![p] = {}]
            /\ UNCHANGED <<descriptor, tap>>
       ELSE /\ descriptor' = [descriptor EXCEPT ![p] = None] /\ UNCHANGED flock
            /\ IF step[p] = "flock"
               THEN /\ Become(p, "try") /\ UNCHANGED raced /\ tap' = [tap EXCEPT ![p] = None]
                    /\ possibles' = [possibles EXCEPT ![p] = @ \ {tap[p]}]
               ELSE Become(p, "qemu") /\ raced' = raced \cup {tap[p]}
                    /\ UNCHANGED <<possibles, tap>>
    /\ UNCHANGED <<devices, nosudo, lockfile, lockFiles, cleantap, survivors, tapStarts>>

(* No device is free: an exception, or runqemu-ifup makes one.             *)
MakeTap(p) ==
    /\ step[p] = "try" /\ possibles[p] = {}
    /\ IF nosudo THEN Become(p, "idle") /\ UNCHANGED <<devices, tap, cleantap>>
       ELSE /\ Taps \ devices # {} /\ Become(p, "created")
            /\ LET t == Min(Taps \ devices)
               IN devices' = devices \cup {t} /\ tap' = [tap EXCEPT ![p] = t]
            /\ cleantap' = cleantap \cup {p}
    /\ UNCHANGED <<nosudo, lockfile, lockFiles, flock, possibles, descriptor, survivors, raced,
                   tapStarts>>

(* QEMU has ended, or could not start: cleanup takes its device away and   *)
(* goes on to the lock, unless it is not open.                             *)
EndQemu(p) ==
    /\ step[p] = "qemu"
    /\ devices' = IF p \in cleantap THEN devices \ {tap[p]} ELSE devices
    /\ cleantap' = cleantap \ {p}
    /\ IF descriptor[p] = None THEN Become(p, "idle") /\ tap' = [tap EXCEPT ![p] = None]
       ELSE Become(p, "release") /\ UNCHANGED tap
    /\ UNCHANGED <<nosudo, lockfile, lockFiles, flock, possibles, descriptor, survivors, raced,
                   tapStarts>>

(* release_lock: unlock and close, then remove whatever has the name.      *)
Unlock(p) ==
    /\ step[p] = "release" /\ Become(p, "unlocked")
    /\ flock' = flock \ {descriptor[p]} /\ descriptor' = [descriptor EXCEPT ![p] = None]
    /\ UNCHANGED <<devices, nosudo, lockfile, lockFiles, tap, possibles, cleantap, survivors,
                   raced, tapStarts>>

RemoveLock(p) ==
    /\ step[p] = "unlocked" /\ Become(p, "idle")
    /\ lockfile' = [lockfile EXCEPT ![tap[p]] = None] /\ tap' = [tap EXCEPT ![p] = None]
    /\ UNCHANGED <<devices, nosudo, lockFiles, flock, possibles, descriptor, cleantap, survivors,
                   raced, tapStarts>>

(* runqemu is killed: the lock file stays and its lock goes.  QEMU is a    *)
(* child that does not have the file open: it ends with runqemu when the   *)
(* signal goes to their group, and otherwise keeps the device.             *)
RunqemuKilled(p) ==
    /\ step[p] # "idle" /\ Become(p, "idle")
    /\ flock' = IF step[p] \in {"qemu", "release"} THEN flock \ {descriptor[p]} ELSE flock
    /\ descriptor' = [descriptor EXCEPT ![p] = None] /\ tap' = [tap EXCEPT ![p] = None]
    /\ possibles' = [possibles EXCEPT ![p] = {}] /\ cleantap' = cleantap \ {p}
    /\ \/ UNCHANGED survivors
       \/ step[p] = "qemu" /\ survivors' = survivors \cup {tap[p]}
    /\ UNCHANGED <<devices, nosudo, lockfile, lockFiles, raced, tapStarts>>

SurvivorEnds ==
    /\ \E t \in survivors : survivors' = survivors \ {t}
    /\ UNCHANGED <<devices, nosudo, lockfile, lockFiles, flock, step, tap, possibles, descriptor,
                   cleantap, raced, tapStarts>>

TapNext ==
    \/ \E p \in Runqemus : \/ ListTaps(p) \/ OpenLock(p) \/ Flock(p) \/ MakeTap(p)
                           \/ EndQemu(p) \/ Unlock(p) \/ RemoveLock(p) \/ RunqemuKilled(p)
    \/ SurvivorEnds

TapSpec == TapInit /\ [][TapNext]_tapVars

-----------------------------------------------------------------------------
TapTypeOK ==
    /\ devices \subseteq Taps /\ Bank \subseteq devices /\ cleantap \subseteq Runqemus
    /\ survivors \subseteq Taps /\ raced \subseteq Taps
    /\ lockFiles \in Nat /\ lockfile \in [Taps -> Nat] /\ flock \subseteq Nat
    /\ step \in [Runqemus -> {"idle", "try", "flock", "created", "flock created", "qemu",
                              "release", "unlocked"}]
    /\ tap \in [Runqemus -> Taps \cup {None}] /\ possibles \in [Runqemus -> SUBSET Taps]
    /\ descriptor \in [Runqemus -> Nat]

(* Two QEMUs have one device only when that device was taken through one   *)
(* of three windows: its lock was taken on a file whose owner has unlocked *)
(* it and goes on to remove it; it was just made and locked by who found   *)
(* it in the list; or a QEMU whose runqemu was killed has it still         *)
(* (runqemu:202-205, 784-785, 945).                                        *)
TapExclusive ==
    \A t \in Taps \ raced, p \in Runqemus :
        step[p] = "qemu" /\ tap[p] = t =>
            /\ t \notin survivors
            /\ \A q \in Runqemus \ {p} : step[q] = "qemu" => tap[q] # t
=============================================================================
