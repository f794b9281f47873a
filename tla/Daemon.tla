------------------------------- MODULE Daemon -------------------------------
(***************************************************************************)
(* The life of the core daemon: run() of core/daemon.rs with its PID file, *)
(* its API port and its graceful shutdown, and the commands of             *)
(* cli/core_cmd.rs that start, stop and look at it.                        *)
(*                                                                         *)
(* A command and a daemon share only the PID file and what the operating   *)
(* system tells about a PID; no lock is held from one access to the next.  *)
(* Every access to the file is a step of its own: a write truncates the    *)
(* file before it fills it.  A PID that is free again may be given to      *)
(* another program, which answers kill(pid, 0) like a daemon.              *)
(***************************************************************************)
EXTENDS Naturals, FiniteSets

CONSTANTS
  Pids,      \* the PIDs that daemons get, each one once
  Users,     \* terminals, each with one command at a time
  MaxCalls,  \* bound of the number of commands
  None,      \* no PID, no file, no command
  Invalid    \* content of a PID file that does not parse

ASSUME DaemonAssumption ==
  /\ None \notin Pids /\ Invalid \notin Pids /\ None # Invalid
  /\ MaxCalls \in Nat
  /\ Cardinality(Pids) >= MaxCalls  \* a command starts one daemon at most

VARIABLES
  pidFile,   \* what the PID file holds, None if there is none
  port,      \* who listens on the API port, None if nobody does
  phase,     \* per PID, how far its process is
  streams,   \* the daemons with a client that holds a connection open
  calls,     \* per user, the command, or None
  \* History, which no action reads:
  hasty,     \* a command did not wait for another one or for a daemon to
             \* write its PID, or a stop gave up waiting
  begun      \* the number of commands

vars == <<pidFile, port, phase, streams, calls, hasty, begun>>

\* orphaned: the PID file was removed while the process had it open.
Starting == {"starting", "writing", "orphaned"}
Up       == {"binding", "bound", "serving", "draining", "flushing"}
Over     == {"ended", "failed"}

\* is_process_running: somebody has the PID.
Running(p) == phase[p] \in Starting \cup Up \cup {"other"}

Goto(p, at) == phase' = [phase EXCEPT ![p] = at]

\* The phases after the removal of the PID file: who has it open writes to a
\* file that no name leads to.
Orphaned ==
  [q \in Pids |-> IF phase[q] = "writing" THEN "orphaned" ELSE phase[q]]

Init ==
  /\ pidFile = None /\ port = None
  /\ phase = [p \in Pids |-> "unused"]
  /\ streams = {}
  /\ calls = [u \in Users |-> None]
  /\ hasty = FALSE /\ begun = 0

-----------------------------------------------------------------------------
(***************************************************************************)
(* Processes                                                               *)
(***************************************************************************)
\* The process p is gone, and with it what only it had.
Dies(p, at) ==
  /\ Goto(p, at)
  /\ port' = IF port = p THEN None ELSE port
  /\ streams' = streams \ {p}

\* SIGTERM or Ctrl+C.  The handlers are installed when serve() first polls
\* shutdown_signal: before, the signal kills; later ones are ignored.  The
\* first one cancels the token, and serve() drops the listener.
Signal(p) ==
  \/ /\ phase[p] \in Starting \cup {"binding", "bound", "other"}
     /\ Dies(p, "failed")
  \/ /\ phase[p] = "serving"
     /\ Goto(p, "draining")
     /\ port' = None
     /\ UNCHANGED streams
  \/ /\ phase[p] \in {"draining", "flushing"}
     /\ UNCHANGED <<phase, port, streams>>

-----------------------------------------------------------------------------
(***************************************************************************)
(* run()                                                                   *)
(***************************************************************************)
\* TLS provider, directories, configuration, database, agents, addresses or
\* PID file: run() returns wherever it is.  The memory store, STUN and the
\* QUIC endpoint may fail without consequence.
StartFails(p) ==
  /\ phase[p] \in Starting \cup {"binding"}
  /\ Dies(p, "failed")
  /\ UNCHANGED pidFile

TruncatePid(p) ==
  /\ phase[p] = "starting"
  /\ Goto(p, "writing")
  /\ pidFile' = Invalid
  /\ UNCHANGED <<port, streams>>

\* Of two that write to one file the last one is read: the models' PIDs have
\* the same number of digits.
WritePid(p) ==
  /\ \/ phase[p] = "writing" /\ pidFile' = p
     \/ phase[p] = "orphaned" /\ UNCHANGED pidFile
  /\ Goto(p, "binding")
  /\ UNCHANGED <<port, streams>>

\* The port may be taken: by another daemon, or by another program
\* (StartFails).  The PID file stays.
Bind(p) ==
  /\ phase[p] = "binding"
  /\ \/ port = None /\ port' = p /\ Goto(p, "bound")
        /\ UNCHANGED streams
     \/ port # None /\ Dies(p, "failed")
  /\ UNCHANGED pidFile

Serve(p) ==
  /\ phase[p] = "bound"
  /\ Goto(p, "serving")
  /\ UNCHANGED <<pidFile, port, streams>>

\* Graceful shutdown waits for every connection, an event stream included,
\* which only its client ends.
Drained(p) ==
  /\ phase[p] = "draining" /\ p \notin streams
  /\ Goto(p, "flushing")
  /\ UNCHANGED <<pidFile, port, streams>>

\* Mutant: the PID file is left to the next command.
CleanupLeavesFile(p) ==
  /\ phase[p] = "flushing"
  /\ Dies(p, "ended")
  /\ UNCHANGED pidFile

\* Mutant: instead of the delay the persister's task is awaited, which cannot
\* end: run() itself holds a sender of the bus.
CleanupAwaitsPersister(p) ==
  /\ phase[p] = "flushing" /\ FALSE
  /\ Dies(p, "ended")
  /\ pidFile' = None

\* 100 ms later the PID file is removed, whoever it names, and the process
\* ends.
Cleanup(p) ==
  /\ phase[p] = "flushing"
  /\ phase' = [Orphaned EXCEPT ![p] = "ended"]
  /\ port' = IF port = p THEN None ELSE port
  /\ streams' = streams \ {p}
  /\ pidFile' = None

DaemonStep(p) ==
  /\ \/ StartFails(p) \/ TruncatePid(p) \/ WritePid(p) \/ Bind(p) \/ Serve(p)
     \/ Drained(p) \/ Cleanup(p)
  /\ UNCHANGED <<calls, hasty, begun>>

-----------------------------------------------------------------------------
(***************************************************************************)
(* The world around it                                                     *)
(***************************************************************************)
Connect(p) ==
  /\ phase[p] = "serving"
  /\ streams' = streams \cup {p}
  /\ UNCHANGED <<pidFile, port, phase>>

Disconnect(p) ==
  /\ p \in streams
  /\ streams' = streams \ {p}
  /\ UNCHANGED <<pidFile, port, phase>>

\* Ctrl+C, or a SIGTERM that no command sends.
Interrupt(p) ==
  /\ phase[p] \in Starting \cup Up
  /\ Signal(p)
  /\ UNCHANGED pidFile

\* kill -9, power, the end of another program.
Crash(p) ==
  /\ Running(p)
  /\ Dies(p, "failed")
  /\ UNCHANGED pidFile

\* Another program gets the PID of a daemon that is gone.
Reuse(p) ==
  /\ phase[p] \in Over
  /\ Goto(p, "other")
  /\ UNCHANGED <<pidFile, port, streams>>

WorldStep(p) ==
  /\ Connect(p) \/ Disconnect(p) \/ Interrupt(p) \/ Crash(p) \/ Reuse(p)
  /\ UNCHANGED <<calls, hasty, begun>>

-----------------------------------------------------------------------------
(***************************************************************************)
(* Commands: start, stop, restart, and status, as which link acts here     *)
(***************************************************************************)
Starts   == {"start", "foreground"}
Commands == Starts \cup {"stop", "restart", "status"}

\* again: a start follows the stop.  With or without --foreground is a choice
\* of Start for restart, which passes it on.
Command(u, does) ==
  /\ calls[u] = None /\ begun < MaxCalls
  /\ begun' = begun + 1
  /\ hasty' = (hasty \/ (\E v \in Users : calls[v] # None)
                     \/ (\E p \in Pids : phase[p] \in Starting))
  /\ calls' = [calls EXCEPT ![u] =
                 [does |-> does, at |-> "read", pid |-> None, again |-> FALSE]]
  /\ UNCHANGED <<pidFile, port, phase, streams>>

At(u, at)    == calls[u] # None /\ calls[u].at = at
Does(u, ops) == calls[u].does \in ops

Return(u)  == calls' = [calls EXCEPT ![u] = None]
Go(u, at)  == calls' = [calls EXCEPT ![u].at = at]
Start(u)   ==
  \E does \in Starts :
    calls' = [calls EXCEPT ![u] = [does |-> does, at |-> "read", pid |-> None,
                                   again |-> FALSE]]

\* Mutant: what the file holds is taken for a PID unseen.
ReadPidUnparsed(u) ==
  /\ At(u, "read")
  /\ \/ pidFile = None /\ Return(u)
     \/ pidFile = None /\ Does(u, Starts) /\ Go(u, "spawn")
     \/ pidFile = None /\ Does(u, {"restart"}) /\ Start(u)
     \/ /\ pidFile # None
        /\ calls' = [calls EXCEPT ![u].pid = pidFile, ![u].at = "check"]
  /\ UNCHANGED <<pidFile, port, phase, streams, hasty>>

\* read_pid.  Without a file only a start goes on, and not if the file went
\* between exists() and the read; a file that does not parse is an error for
\* every command.
ReadPid(u) ==
  /\ At(u, "read")
  /\ \/ pidFile = None /\ Return(u)
     \/ pidFile = None /\ Does(u, Starts) /\ Go(u, "spawn")
     \/ pidFile = None /\ Does(u, {"restart"}) /\ Start(u)
     \/ pidFile = Invalid /\ Return(u)
     \/ /\ pidFile \in Pids
        /\ calls' = [calls EXCEPT ![u].pid = pidFile, ![u].at = "check"]
  /\ UNCHANGED <<pidFile, port, phase, streams, hasty>>

\* Mutant: whether the process runs is not asked.
CheckStartTrusting(u) ==
  /\ At(u, "check") /\ Does(u, Starts)
  /\ Go(u, "remove")
  /\ UNCHANGED <<pidFile, port, phase, streams, hasty>>

CheckStart(u) ==
  /\ At(u, "check") /\ Does(u, Starts)
  /\ IF Running(calls[u].pid) THEN Return(u) ELSE Go(u, "remove")
  /\ UNCHANGED <<pidFile, port, phase, streams, hasty>>

CheckStatus(u) ==
  /\ At(u, "check") /\ Does(u, {"status"})
  /\ IF Running(calls[u].pid) THEN Return(u) ELSE Go(u, "remove")
  /\ UNCHANGED <<pidFile, port, phase, streams, hasty>>

CheckRestart(u) ==
  /\ At(u, "check") /\ Does(u, {"restart"})
  /\ IF Running(calls[u].pid)
     THEN calls' = [calls EXCEPT ![u].does = "stop", ![u].at = "read",
                                 ![u].again = TRUE]
     ELSE Start(u)
  /\ UNCHANGED <<pidFile, port, phase, streams, hasty>>

\* stop signals what it has just found running; a stale file is removed and
\* reported as an error, after which no start follows.
CheckStop(u) ==
  /\ At(u, "check") /\ Does(u, {"stop"})
  /\ \/ /\ Running(calls[u].pid)
        /\ Signal(calls[u].pid)
        /\ Go(u, "wait")
     \/ /\ ~Running(calls[u].pid)
        /\ calls' = [calls EXCEPT ![u].at = "remove", ![u].again = FALSE]
        /\ UNCHANGED <<phase, port, streams>>
  /\ UNCHANGED <<pidFile, hasty>>

\* Mutant: stop waits until the process is gone, however long that takes.
WaitForExit(u) ==
  /\ At(u, "wait")
  /\ ~Running(calls[u].pid)
  /\ Go(u, "remove")
  /\ UNCHANGED <<pidFile, port, phase, streams, hasty>>

\* The process is gone, or three seconds are over.
Wait(u) ==
  /\ At(u, "wait")
  /\ Go(u, "remove")
  /\ hasty' = (hasty \/ Running(calls[u].pid))
  /\ UNCHANGED <<pidFile, port, phase, streams>>

\* The file is removed, whoever it names by now.
RemoveFile(u) ==
  /\ At(u, "remove")
  /\ pidFile' = None
  /\ phase' = Orphaned
  /\ \/ Does(u, Starts) /\ Go(u, "spawn")
     \/ ~Does(u, Starts) /\ calls[u].again /\ Start(u)
     \/ ~Does(u, Starts) /\ ~calls[u].again /\ Return(u)
  /\ UNCHANGED <<port, streams, hasty>>

\* A start in the background runs "core start --foreground" as a process of
\* its own, which looks at the PID file again.  It is the command of the
\* terminal here until it becomes the daemon.
Spawn(u) ==
  /\ At(u, "spawn") /\ Does(u, {"start"})
  /\ \/ calls' = [calls EXCEPT ![u].does = "foreground", ![u].at = "read",
                               ![u].pid = None]
     \/ Return(u)  \* spawn() fails
  /\ UNCHANGED <<pidFile, port, phase, streams, hasty>>

\* run() of the daemon is called.
Run(u) ==
  /\ At(u, "spawn") /\ Does(u, {"foreground"})
  /\ \E p \in Pids : phase[p] = "unused" /\ Goto(p, "starting")
  /\ Return(u)
  /\ UNCHANGED <<pidFile, port, streams, hasty>>

CallStep(u) ==
  /\ \/ ReadPid(u) \/ CheckStart(u) \/ CheckStatus(u) \/ CheckRestart(u)
     \/ CheckStop(u) \/ Wait(u) \/ RemoveFile(u) \/ Spawn(u)
     \/ Run(u)
  /\ UNCHANGED begun

Next ==
  \/ \E p \in Pids : DaemonStep(p) \/ WorldStep(p)
  \/ \E u \in Users : CallStep(u) \/ \E does \in Commands : Command(u, does)

Spec == Init /\ [][Next]_vars

\* What runs goes on; signals, crashes and clients come and go as they like.
FairSpec ==
  /\ Spec
  /\ \A p \in Pids : WF_vars(DaemonStep(p))
  /\ \A u \in Users : WF_vars(CallStep(u))

-----------------------------------------------------------------------------
(***************************************************************************)
(* Properties                                                              *)
(***************************************************************************)
Phase == {"unused", "other"} \cup Starting \cup Up \cup Over
Call  == [does : Commands, at : {"read", "check", "wait", "remove", "spawn"},
          pid : Pids \cup {None}, again : BOOLEAN]

\* Every variable has its type.
TypeOK ==
  /\ pidFile \in Pids \cup {None, Invalid}
  /\ port \in Pids \cup {None}
  /\ phase \in [Pids -> Phase]
  /\ streams \subseteq Pids
  /\ calls \in [Users -> Call \cup {None}]
  /\ hasty \in BOOLEAN /\ begun \in 0..MaxCalls

Alive(p) == phase[p] \in Starting \cup Up

\* As long as commands wait for each other and for a started daemon to write
\* its PID, and no stop gives up, there is one daemon at a time, and from the
\* write of the PID file to its removal the file names it: a start is refused,
\* a stop reaches the daemon, whatever crashes and failed starts came before.
FileNamesDaemon ==
  ~hasty =>
    /\ \A p, q \in Pids : Alive(p) /\ Alive(q) => p = q
    /\ \A p \in Pids : phase[p] \in Up => pidFile = p

\* A daemon that ends by itself leaves no file behind that names it, hasty
\* commands or not.
NothingLeftBehind ==
  \A p \in Pids : phase[p] = "ended" => pidFile # p

\* Every command comes to its end, though a daemon that it waits for may not.
CommandsReturn == \A u \in Users : calls[u] # None ~> calls[u] = None

\* A daemon that shuts down ends once the last client has left.
ShutdownCompletes ==
  \A p \in Pids :
    (phase[p] = "draining" /\ p \notin streams) ~> phase[p] \in Over
=============================================================================
