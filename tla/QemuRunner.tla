---------------------------- MODULE QemuRunner ----------------------------
(***************************************************************************)
(* The image tests run a target in qemu: lib/oeqa/utils/qemurunner.py and  *)
(* QemuTarget of lib/oeqa/targetcontrol.py.  Four parties: the main thread *)
(* of the tests, the LoggingThread that reads the console, runqemu with    *)
(* its qemu in a process group of their own, and the monitor process that  *)
(* is to end the group when the tests are killed.  The groups are numbered *)
(* in the order of their start.  Ports, addresses and what is on the       *)
(* console are left out.                                                   *)
(***************************************************************************)
EXTENDS Naturals

CONSTANT MaxStarts     \* bound on the starts of the target
ASSUME MaxStartsAssumption == MaxStarts \in Nat

VARIABLES main,        \* where the main thread is
          after,       \* where it goes when stop() is through
          restarting,  \* the target has been restarted and not stopped since
          handler,     \* handleSIGCHLD is installed
          saved,       \* origchldhandler is handleSIGCHLD itself
          runqemu,     \* "none", "running", "ended" (status 0) or "failed"
          qemus,       \* the groups whose qemu runs
          asked,       \* the groups that have been sent SIGTERM
          logger,      \* LoggingThread: "none", "starting", "looping" or "ended"
          told,        \* "stop" has been written to its pipe
          connected,   \* connection_established is set
          monitor,     \* the group monitorpid was forked for, 0 before the first
          guarding,    \* that process waits on its pipe
          starts,      \* starts so far, the newest group (bounded)
          orphans,     \* history: the groups whose runqemu died alone, unasked
          unstopped    \* history: start() ran on a runner that was not stopped
qemuVars == <<main, after, restarting, handler, saved, runqemu, qemus, asked, logger, told,
              connected, monitor, guarding, starts, orphans, unstopped>>
threadVars == <<logger, told, connected>>
groupVars == <<runqemu, qemus, asked, orphans>>
monitorVars == <<monitor, guarding>>
handlerVars == <<handler, saved, unstopped>>

QemuInit ==
    /\ main = "idle" /\ after = "idle" /\ restarting = FALSE
    /\ handler = FALSE /\ saved = FALSE /\ unstopped = FALSE
    /\ runqemu = "none" /\ qemus = {} /\ asked = {} /\ orphans = {}
    /\ logger = "none" /\ told = FALSE /\ connected = FALSE
    /\ monitor = 0 /\ guarding = FALSE /\ starts = 0

Alive == logger \in {"starting", "looping"}

(* is_alive(): a child of runqemu.                                         *)
IsAlive == runqemu = "running" /\ starts \in qemus

(***************************************************************************)
(* stop() first calls stop_thread: the pipe is written only if the thread  *)
(* has set running, and join() has no timeout.                             *)
(***************************************************************************)
StopThread(then) ==
    /\ main' = "joining" /\ after' = then
    /\ told' = (told \/ logger = "looping")
    /\ UNCHANGED <<handlerVars, groupVars, logger, connected, monitorVars, starts>>

(* A start that failed: QemuTarget.start calls stop(), restart raises.     *)
Failed == IF restarting THEN "up" ELSE "idle"

(***************************************************************************)
(* The start of start(): listening sockets, the signal handler, the old    *)
(* one saved, and Popen.  The thread of a runqemu that ended ends with its *)
(* connection and is not waited for.                                       *)
(***************************************************************************)
Launch ==
    /\ main \in {"idle", "relaunch"} /\ starts < MaxStarts
    /\ main' = "popened" /\ starts' = starts + 1
    /\ saved' = handler /\ handler' = TRUE
    /\ unstopped' = (unstopped \/ runqemu # "none")
    /\ runqemu' = "running"
    /\ logger' = "none" /\ told' = FALSE /\ connected' = FALSE
    /\ UNCHANGED <<after, restarting, qemus, asked, orphans, monitorVars>>

NoSocket ==
    \/ main = "idle" /\ StopThread("idle") /\ UNCHANGED restarting
    \/ /\ main = "relaunch" /\ main' = "up"
       /\ UNCHANGED <<after, restarting, handlerVars, groupVars, threadVars, monitorVars, starts>>

(* The pipe and the fork of the monitor process.  One that is left from a  *)
(* runqemu that ended has no group to end and goes with its pipe, whose    *)
(* last writer is the new one: it is not followed any further.             *)
ForkMonitor ==
    /\ main = "popened" /\ main' = "awaiting"
    /\ monitor' = starts /\ guarding' = TRUE
    /\ UNCHANGED <<after, restarting, handlerVars, groupVars, threadVars, starts>>

(***************************************************************************)
(* Wait for the pid of qemu and read its addresses; runqemu failed, no pid *)
(* in time or no addresses: stop.                                          *)
(***************************************************************************)
AwaitPid ==
    /\ main = "awaiting" /\ UNCHANGED restarting
    /\ \/ /\ IsAlive /\ main' = "threading" /\ logger' = "starting"
          /\ UNCHANGED <<after, handlerVars, groupVars, told, connected, monitorVars, starts>>
       \/ StopThread(Failed)

(* Wait boottime seconds for qemu to connect to the console socket; when   *)
(* it does not, start() only stops the thread.                             *)
AwaitConsole ==
    /\ main = "threading" /\ UNCHANGED restarting
    /\ \/ /\ connected /\ main' = "booting"
          /\ UNCHANGED <<after, handlerVars, groupVars, threadVars, monitorVars, starts>>
       \/ /\ ~connected /\ logger # "starting"
          /\ StopThread(IF restarting THEN "kept" ELSE "idle")

(* Wait for the login prompt and log in; is_alive at the end, where a      *)
(* restart does not stop either.                                           *)
AwaitLogin ==
    /\ main = "booting" /\ UNCHANGED restarting
    /\ \/ /\ IsAlive \/ restarting
          /\ main' = "up"
          /\ UNCHANGED <<after, handlerVars, groupVars, threadVars, monitorVars, starts>>
       \/ StopThread(Failed)

(***************************************************************************)
(* The tests end, or restart the target: stop() if runqemu still runs.  Of *)
(* a runqemu that failed the signal comes first, and without one poll()    *)
(* has nothing to be called on.                                            *)
(***************************************************************************)
TargetStop == main = "up" /\ StopThread("idle") /\ restarting' = FALSE
TargetRestart ==
    /\ main = "up" /\ starts < MaxStarts /\ restarting' = TRUE
    /\ \/ runqemu = "running" /\ StopThread("relaunch")
       \/ /\ runqemu = "ended" /\ main' = "relaunch"
          /\ UNCHANGED <<after, handlerVars, groupVars, threadVars, monitorVars, starts>>

(***************************************************************************)
(* The rest of stop(): the saved signal handler is put back, the monitor   *)
(* killed and the group of runqemu sent SIGTERM, once a monitor has been   *)
(* forked and if getpgid still finds runqemu.                              *)
(***************************************************************************)
\* mistake: only the runqemu script is terminated
StopKeepsQemu ==
    /\ main = "joining" /\ ~Alive /\ after # "kept"
    /\ handler' = saved
    /\ main' = IF runqemu = "none" THEN after ELSE "waiting"
    /\ guarding' = (guarding /\ runqemu = "none")
    /\ runqemu' = IF runqemu = "running" THEN "failed" ELSE runqemu
    /\ UNCHANGED <<after, restarting, saved, unstopped, qemus, asked, orphans, threadVars,
                   monitor, starts>>

StopTerminate ==
    /\ main = "joining" /\ ~Alive /\ after # "kept"
    /\ handler' = saved
    /\ main' = IF runqemu = "none" THEN after ELSE "waiting"
    /\ guarding' = (guarding /\ runqemu = "none")
    /\ asked' = IF runqemu = "running" /\ monitor # 0 THEN asked \cup {starts} ELSE asked
    /\ UNCHANGED <<after, restarting, saved, unstopped, runqemu, qemus, orphans, threadVars,
                   monitor, starts>>

(* Wait for runqemu, not for qemu; SIGKILL when runqemu does not end.      *)
StopWait ==
    /\ main = "waiting" /\ main' = after /\ runqemu' = "none"
    /\ qemus' = IF runqemu = "running" THEN qemus \ {starts} ELSE qemus
    /\ UNCHANGED <<after, restarting, handlerVars, asked, orphans, threadVars, monitorVars, starts>>

(* Only the thread was stopped.                                            *)
ThreadJoined ==
    /\ main = "joining" /\ ~Alive /\ after = "kept" /\ main' = "up"
    /\ UNCHANGED <<after, restarting, handlerVars, groupVars, threadVars, monitorVars, starts>>

(***************************************************************************)
(* handleSIGCHLD: whatever the main thread does when a child ends and      *)
(* runqemu has failed, it runs stop() and raises SystemExit, which ends    *)
(* the tests or, in a test, only the test (decorators.py:282).             *)
(***************************************************************************)
HandleSIGCHLD ==
    /\ handler /\ runqemu = "failed" /\ main \notin {"dead", "exited"}
    /\ main \in {"joining", "waiting"} => after \notin {"exited", "up"}
    /\ \E then \in {"exited", "up"} :
          /\ then = "up" => (main = "up" \/ restarting)
          /\ StopThread(then)
    /\ UNCHANGED restarting

(***************************************************************************)
(* LoggingThread.eventloop: the thread starts polling, accepts the console *)
(* connection, and ends when it is told to or the connection breaks.       *)
(***************************************************************************)
ThreadOnly == UNCHANGED <<main, after, restarting, handlerVars, groupVars, monitorVars, starts>>
LoggerLoops ==
    logger = "starting" /\ logger' = "looping" /\ UNCHANGED <<told, connected>> /\ ThreadOnly
LoggerAccepts ==
    /\ logger = "looping" /\ starts \in qemus /\ ~connected /\ connected' = TRUE
    /\ UNCHANGED <<logger, told>> /\ ThreadOnly
\* mistake: the loop does not look at the pipe it is told on
LoggerMissesStop ==
    /\ logger = "looping" /\ connected /\ starts \notin qemus /\ logger' = "ended"
    /\ UNCHANGED <<told, connected>> /\ ThreadOnly

LoggerEnds ==
    /\ logger = "looping" /\ (told \/ (connected /\ starts \notin qemus)) /\ logger' = "ended"
    /\ UNCHANGED <<told, connected>> /\ ThreadOnly

(***************************************************************************)
(* runqemu starts qemu, ends with it, fails before, or dies alone; a qemu  *)
(* that was asked or is alone may end or not.                              *)
(***************************************************************************)
GroupOnly == UNCHANGED <<main, after, restarting, handlerVars, threadVars, monitorVars, starts>>
QemuComes ==
    /\ runqemu = "running" /\ starts \notin qemus \cup asked
    /\ qemus' = qemus \cup {starts} /\ UNCHANGED <<runqemu, asked, orphans>> /\ GroupOnly
QemuGoes ==
    /\ runqemu = "running" /\ qemus' = qemus \ {starts}
    /\ runqemu' \in {"ended", "failed"}
    /\ UNCHANGED <<asked, orphans>> /\ GroupOnly
RunqemuDies ==
    /\ runqemu = "running" /\ runqemu' = "failed"
    /\ orphans' = orphans \cup (({starts} \cap qemus) \ asked)
    /\ UNCHANGED <<qemus, asked>> /\ GroupOnly
QemuQuits ==
    /\ \E k \in qemus \cap (asked \cup orphans) : qemus' = qemus \ {k}
    /\ UNCHANGED <<runqemu, asked, orphans>> /\ GroupOnly

(***************************************************************************)
(* The tests are killed; the monitor reads the end of its pipe and sends   *)
(* SIGTERM to the group of the runqemu it knows, if getpgid finds it.      *)
(***************************************************************************)
TestsKilled ==
    /\ main \notin {"dead", "exited"} /\ main' = "dead"
    /\ logger' = "none" /\ handler' = FALSE
    /\ UNCHANGED <<after, restarting, saved, unstopped, groupVars, told, connected, monitorVars,
                   starts>>

\* mistake: runqemu is killed and not its group
MonitorKillsOne ==
    /\ main = "dead" /\ guarding /\ guarding' = FALSE
    /\ runqemu' = IF monitor = starts /\ runqemu = "running" THEN "failed" ELSE runqemu
    /\ UNCHANGED <<main, after, restarting, handlerVars, qemus, asked, orphans, threadVars,
                   monitor, starts>>

MonitorFires ==
    /\ main = "dead" /\ guarding /\ guarding' = FALSE
    /\ asked' = IF monitor = starts /\ runqemu = "running" THEN asked \cup {starts} ELSE asked
    /\ UNCHANGED <<main, after, restarting, handlerVars, runqemu, qemus, orphans, threadVars,
                   monitor, starts>>

MainThread == \/ Launch \/ NoSocket \/ ForkMonitor \/ AwaitPid \/ AwaitConsole \/ AwaitLogin
              \/ TargetStop \/ TargetRestart \/ StopTerminate \/ StopWait \/ ThreadJoined
              \/ HandleSIGCHLD
LoggingThread == LoggerLoops \/ LoggerAccepts \/ LoggerEnds
Group == QemuComes \/ QemuGoes \/ RunqemuDies \/ QemuQuits
QemuNext == MainThread \/ LoggingThread \/ Group \/ TestsKilled \/ MonitorFires

QemuSpec == QemuInit /\ [][QemuNext]_qemuVars

QemuTypeOK ==
    /\ main \in {"idle", "popened", "awaiting", "threading", "booting", "up", "joining",
                 "waiting", "relaunch", "exited", "dead"}
    /\ after \in {"idle", "relaunch", "exited", "up", "kept"}
    /\ runqemu \in {"none", "running", "ended", "failed"}
    /\ logger \in {"none", "starting", "looping", "ended"}
    /\ restarting \in BOOLEAN /\ handler \in BOOLEAN /\ saved \in BOOLEAN
    /\ told \in BOOLEAN /\ connected \in BOOLEAN /\ guarding \in BOOLEAN
    /\ unstopped \in BOOLEAN
    /\ starts \in Nat /\ monitor \in Nat
    /\ qemus \subseteq 1..starts /\ asked \subseteq 1..starts /\ orphans \subseteq 1..starts

(***************************************************************************)
(* When the runner is stopped, by the tests or by the signal of a failed   *)
(* runqemu at any point, no runqemu or monitor is left and no thread reads *)
(* the console; a qemu that still runs has been sent SIGTERM or has        *)
(* outlived its runqemu, and handleSIGCHLD stays installed only after a    *)
(* start() on a runner that was not stopped (qemurunner.py:135, 296, 330). *)
(***************************************************************************)
StoppedMeansGone ==
    main \in {"idle", "exited"} =>
        /\ runqemu = "none" /\ ~guarding /\ ~Alive
        /\ qemus \subseteq asked \cup orphans
        /\ handler => unstopped

(***************************************************************************)
(* When the tests are killed and a monitor has been forked for the newest  *)
(* group, SIGTERM reaches that group, or it ends before, except for a qemu *)
(* that outlives its runqemu (qemurunner.py:165); and stop() comes back    *)
(* when the thread is told to stop or was no longer running                *)
(* (qemurunner.py:322).                                                    *)
(***************************************************************************)
QemuEnds ==
    /\ (main = "dead" /\ guarding /\ monitor = starts)
          ~> (starts \in asked \/ (runqemu # "running" /\ starts \notin qemus \ orphans))
    /\ (main = "joining" /\ (told \/ ~Alive)) ~> (main \notin {"joining", "waiting"})
=============================================================================
