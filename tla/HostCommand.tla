---------------------------- MODULE HostCommand ----------------------------
(***************************************************************************)
(* The two ways in which tests run a command with a timeout: Command of    *)
(* meta/lib/oeqa/utils/commands.py, which has a thread read the output,    *)
(* and SSHProcess of utils/sshcontrol.py, which reads it itself.  The      *)
(* command may leave a process behind that has its output open, may close  *)
(* its output and go on, and may ignore SIGTERM.  A test's own timeout is  *)
(* an exception in the main thread.                                        *)
(***************************************************************************)
EXTENDS Naturals

CONSTANT MaxChunks          \* bound on what is written

VARIABLES runner,           \* "command" or "ssh"
          cmdMain,          \* where the main thread is
          commThread,       \* commThread of Command
          child,            \* the process
          writers,          \* who has its output open
          inPipe, written, got,  \* chunks: in the pipe, written, read
          cmdKilled         \* the text "Process killed" is in the output
cmdVars == <<runner, cmdMain, commThread, child, writers, inPipe, written, got, cmdKilled>>
Pipe == <<inPipe, written, got>>

CmdInit ==
    /\ runner \in {"command", "ssh"} /\ cmdMain = "idle" /\ commThread = "none"
    /\ child = "none" /\ writers = {} /\ inPipe = 0 /\ written = 0 /\ got = 0
    /\ cmdKilled = FALSE

-----------------------------------------------------------------------------
(* What the command does.                                                  *)
Writes ==
    /\ writers # {} /\ written < MaxChunks
    /\ written' = written + 1 /\ inPipe' = inPipe + 1
    /\ UNCHANGED <<runner, cmdMain, commThread, child, writers, got, cmdKilled>>

LeavesDaemon ==
    /\ child = "running" /\ "child" \in writers /\ writers' = writers \cup {"daemon"}
    /\ UNCHANGED <<runner, cmdMain, commThread, child, Pipe, cmdKilled>>

Closes(w) ==
    /\ w \in writers /\ writers' = writers \ {w}
    /\ UNCHANGED <<runner, cmdMain, commThread, child, Pipe, cmdKilled>>

Exits ==
    /\ child = "running" /\ child' = "zombie" /\ writers' = writers \ {"child"}
    /\ UNCHANGED <<runner, cmdMain, commThread, Pipe, cmdKilled>>

(* SIGTERM may be ignored, SIGKILL not; neither reaches a process that     *)
(* has ended.                                                              *)
Terminate == \/ UNCHANGED <<child, writers>>
             \/ child = "running" /\ child' = "zombie" /\ writers' = writers \ {"child"}
KillCmd == IF child = "running" THEN child' = "zombie" /\ writers' = writers \ {"child"}
        ELSE UNCHANGED <<child, writers>>

Reap == child = "zombie" /\ child' = "reaped"

-----------------------------------------------------------------------------
StartCmd ==
    /\ cmdMain = "idle" /\ child' = "running" /\ writers' = {"child"}
    /\ IF runner = "command" THEN cmdMain' = "join" /\ commThread' = "read"
                             ELSE cmdMain' = "read" /\ UNCHANGED commThread
    /\ UNCHANGED <<runner, Pipe, cmdKilled>>

(* communicate: to the end of the output, then the process is waited for.  *)
CommThread ==
    /\ \/ commThread = "read" /\ inPipe > 0 /\ got' = got + inPipe /\ inPipe' = 0
          /\ UNCHANGED <<written, child, commThread>>
       \/ commThread = "read" /\ inPipe = 0 /\ writers = {} /\ commThread' = "wait"
          /\ UNCHANGED <<Pipe, child>>
       \/ commThread = "wait" /\ Reap /\ commThread' = "ended" /\ UNCHANGED Pipe
    /\ UNCHANGED <<runner, cmdMain, writers, cmdKilled>>

(* run and stop of Command: the thread is joined, for the time of the      *)
(* timeout, then for 5 seconds after SIGTERM, and in the end for ever.     *)
JoinReturns ==
    /\ cmdMain \in {"join", "join 5", "join last"} /\ commThread = "ended" /\ cmdMain' = "done"
    /\ UNCHANGED <<runner, commThread, child, writers, Pipe, cmdKilled>>

\* mistake: a command that ignores SIGTERM is not killed
JoinTimesOutMild ==
    /\ commThread # "ended"
    /\ \/ cmdMain = "join" /\ cmdMain' = "join 5" /\ Terminate
       \/ cmdMain = "join 5" /\ cmdMain' = "join last" /\ UNCHANGED <<child, writers>>
    /\ UNCHANGED <<runner, commThread, Pipe, cmdKilled>>

JoinTimesOut ==
    /\ commThread # "ended"
    /\ \/ cmdMain = "join" /\ cmdMain' = "join 5" /\ Terminate
       \/ cmdMain = "join 5" /\ cmdMain' = "join last" /\ KillCmd
    /\ UNCHANGED <<runner, commThread, Pipe, cmdKilled>>

(* _run of SSHProcess: read until the end of the output or until nothing   *)
(* has come for the time of the timeout.                                   *)
SshReads ==
    /\ cmdMain = "read"
    /\ \/ inPipe > 0 /\ got' = got + 1 /\ inPipe' = inPipe - 1 /\ UNCHANGED <<written, cmdMain>>
       \/ inPipe = 0 /\ writers = {} /\ cmdMain' = "wait" /\ UNCHANGED Pipe
    /\ UNCHANGED <<runner, commThread, child, writers, cmdKilled>>

SshTimesOut ==
    /\ \/ cmdMain = "read" /\ cmdMain' = "terminated" /\ Terminate /\ UNCHANGED cmdKilled
       \/ cmdMain = "terminated" /\ cmdMain' = "wait" /\ KillCmd /\ cmdKilled' = TRUE
    /\ UNCHANGED <<runner, commThread, Pipe>>

SshWaits ==
    /\ cmdMain \in {"wait", "raising"} /\ Reap
    /\ cmdMain' = IF cmdMain = "wait" THEN "done" ELSE "raised"
    /\ UNCHANGED <<runner, commThread, writers, Pipe, cmdKilled>>

(* The test's timeout, or the end of the tests.  SSHProcess.run kills the  *)
(* process unless it has ended, waits for it and raises again.             *)
\* mistake: the process is killed and not waited for
RaiseNoWait ==
    /\ cmdMain \in {"read", "terminated", "wait", "join", "join 5", "join last"}
    /\ cmdMain' = "raised"
    /\ IF runner = "ssh" THEN KillCmd ELSE UNCHANGED <<child, writers>>
    /\ UNCHANGED <<runner, commThread, Pipe, cmdKilled>>

Raise ==
    /\ \/ /\ cmdMain \in {"read", "terminated", "wait"}
          /\ \/ child = "running" /\ cmdMain' = "raising" /\ KillCmd
             \/ Reap /\ cmdMain' = "raised" /\ UNCHANGED writers
       \/ /\ cmdMain \in {"join", "join 5", "join last"} /\ cmdMain' = "raised"
          /\ UNCHANGED <<child, writers>>
    /\ UNCHANGED <<runner, commThread, Pipe, cmdKilled>>

CallerThread == StartCmd \/ JoinReturns \/ JoinTimesOut \/ SshReads \/ SshTimesOut \/ SshWaits
CmdNext == \/ CallerThread \/ CommThread \/ Raise \/ Writes \/ LeavesDaemon \/ Exits
           \/ \E w \in {"child", "daemon"} : Closes(w)

(* Threads that can go on do, and time passes.                             *)
CmdSpec == CmdInit /\ [][CmdNext]_cmdVars /\ WF_cmdVars(CallerThread) /\ WF_cmdVars(CommThread)

-----------------------------------------------------------------------------
CmdTypeOK ==
    /\ cmdMain \in {"idle", "join", "join 5", "join last", "read", "terminated", "wait",
                    "raising", "done", "raised"}
    /\ commThread \in {"none", "read", "wait", "ended"} /\ writers \subseteq {"child", "daemon"}
    /\ child \in {"none", "running", "zombie", "reaped"} /\ written = got + inPipe

(* A call that returns leaves no process and no output that was not read,  *)
(* unless the output says that the process was killed; and a call of ssh   *)
(* that raises leaves no process (commands.py:68-85, sshcontrol.py:66-96). *)
NothingLeft ==
    /\ cmdMain = "done" => child = "reaped" /\ (cmdKilled \/ (inPipe = 0 /\ writers = {}))
    /\ cmdMain = "raised" /\ runner = "ssh" => child = "reaped"

(* The timeout is kept: a call ends, unless SIGKILL has not closed the     *)
(* output that the command left to another process, or the command has     *)
(* closed its output and goes on (commands.py:79, sshcontrol.py:84).       *)
CallsEnd ==
    cmdMain # "idle" ~>
        \/ cmdMain \in {"done", "raised"}
        \/ cmdMain = "join last" /\ "daemon" \in writers
        \/ cmdMain = "wait" /\ ~cmdKilled /\ child = "running"
=============================================================================
