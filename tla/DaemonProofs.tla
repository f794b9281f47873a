---------------------------- MODULE DaemonProofs ----------------------------
(***************************************************************************)
(* Proofs about Daemon, for any number of processes, terminals and         *)
(* commands.                                                               *)
(***************************************************************************)
EXTENDS Daemon, TLAPS

-----------------------------------------------------------------------------
(***************************************************************************)
(* Facts about the vocabulary                                              *)
(***************************************************************************)
LEMMA PhaseNames ==
  /\ "unused" \in Phase /\ "other" \in Phase /\ "starting" \in Phase
  /\ "writing" \in Phase /\ "orphaned" \in Phase /\ "binding" \in Phase
  /\ "bound" \in Phase
  /\ "serving" \in Phase /\ "draining" \in Phase /\ "flushing" \in Phase
  /\ "ended" \in Phase /\ "failed" \in Phase
  BY DEF Phase, Starting, Up, Over

LEMMA CommandNames ==
  /\ "start" \in Commands /\ "foreground" \in Commands /\ "stop" \in Commands
  /\ "restart" \in Commands /\ "status" \in Commands
  BY DEF Commands, Starts

-----------------------------------------------------------------------------
(***************************************************************************)
(* Type correctness                                                        *)
(***************************************************************************)
\* A command that looks at a process or waits for it has its PID.
CallsHavePid ==
  \A u \in Users :
    calls[u] # None /\ calls[u].at \in {"check", "wait"} =>
      calls[u].pid \in Pids

TypeInv == TypeOK /\ CallsHavePid

LEMMA InitType == Init => TypeInv
<1> SUFFICES ASSUME Init PROVE TypeInv
  OBVIOUS
<1>1. phase \in [Pids -> Phase]
  BY PhaseNames DEF Init
<1>2. 0 \in 0..MaxCalls
  BY DaemonAssumption
<1>3. CallsHavePid /\ calls \in [Users -> Call \cup {None}]
  BY DEF Init, CallsHavePid
<1>. QED
  BY <1>1, <1>2, <1>3 DEF Init, TypeInv, TypeOK

LEMMA SignalType ==
  ASSUME TypeOK, NEW p \in Pids, Signal(p)
  PROVE  /\ phase' \in [Pids -> Phase] /\ port' \in Pids \cup {None}
         /\ streams' \subseteq Pids
  BY PhaseNames DEF Signal, Dies, Goto, TypeOK

LEMMA OrphanedType == TypeOK => Orphaned \in [Pids -> Phase]
  BY PhaseNames DEF TypeOK, Orphaned

LEMMA DaemonStepType ==
  ASSUME TypeInv, NEW p \in Pids, DaemonStep(p)
  PROVE  TypeInv'
<1>1. phase' \in [Pids -> Phase]
  BY PhaseNames, OrphanedType
  DEF DaemonStep, StartFails, TruncatePid, WritePid, Bind, Serve, Drained,
      Cleanup, Dies, Goto, TypeInv, TypeOK
<1>2. /\ pidFile' \in Pids \cup {None, Invalid} /\ port' \in Pids \cup {None}
      /\ streams' \subseteq Pids
  BY DEF DaemonStep, StartFails, TruncatePid, WritePid, Bind, Serve, Drained,
         Cleanup, Dies, TypeInv, TypeOK
<1>. QED
  BY <1>1, <1>2 DEF DaemonStep, TypeInv, TypeOK, CallsHavePid

LEMMA WorldStepType ==
  ASSUME TypeInv, NEW p \in Pids, WorldStep(p)
  PROVE  TypeInv'
<1>1. CASE Connect(p) \/ Disconnect(p) \/ Crash(p) \/ Reuse(p)
  BY <1>1, PhaseNames
  DEF WorldStep, Connect, Disconnect, Crash, Reuse, Dies, Goto,
      TypeInv, TypeOK, CallsHavePid
<1>2. CASE Interrupt(p)
  BY <1>2, SignalType DEF WorldStep, Interrupt, TypeInv, TypeOK, CallsHavePid
<1>. QED
  BY <1>1, <1>2 DEF WorldStep

LEMMA CommandType ==
  ASSUME TypeInv, NEW u \in Users, NEW does \in Commands, Command(u, does)
  PROVE  TypeInv'
<1> DEFINE c == [does |-> does, at |-> "read", pid |-> None, again |-> FALSE]
<1>1. c \in Call /\ c.at = "read"
  BY DEF Call
<1>2. calls' = [calls EXCEPT ![u] = c]
  BY DEF Command
<1> HIDE DEF c
<1>3. calls' \in [Users -> Call \cup {None}] /\ CallsHavePid'
  BY <1>1, <1>2 DEF TypeInv, TypeOK, CallsHavePid, Command
<1>4. begun' \in 0..MaxCalls
  BY DaemonAssumption DEF Command, TypeInv, TypeOK
<1>5. hasty' \in BOOLEAN
  BY Zenon DEF Command
<1>. QED
  BY <1>3, <1>4, <1>5 DEF Command, TypeInv, TypeOK

\* What the steps of a command make of it.
LEMMA ReturnType ==
  ASSUME TypeInv, NEW u \in Users, Return(u)
  PROVE  calls' \in [Users -> Call \cup {None}] /\ CallsHavePid'
  BY DEF Return, TypeInv, TypeOK, CallsHavePid

LEMMA GoType ==
  ASSUME TypeInv, NEW u \in Users, calls[u] # None,
         NEW at \in {"read", "check", "wait", "remove", "spawn"},
         at \in {"check", "wait"} => calls[u].pid \in Pids,
         Go(u, at)
  PROVE  calls' \in [Users -> Call \cup {None}] /\ CallsHavePid'
<1> DEFINE c == [calls[u] EXCEPT !.at = at]
<1>1. calls[u] \in Call
  BY DEF TypeInv, TypeOK
<1>2. c \in Call /\ c.at = at /\ c.pid = calls[u].pid
  BY <1>1 DEF Call
<1>3. calls' = [calls EXCEPT ![u] = c]
  BY DEF Go
<1> HIDE DEF c
<1>. QED
  BY <1>2, <1>3 DEF TypeInv, TypeOK, CallsHavePid

LEMMA StartType ==
  ASSUME TypeInv, NEW u \in Users, Start(u)
  PROVE  calls' \in [Users -> Call \cup {None}] /\ CallsHavePid'
<1>1. PICK does \in Starts :
        calls' = [calls EXCEPT ![u] = [does |-> does, at |-> "read",
                                       pid |-> None, again |-> FALSE]]
  BY DEF Start
<1> DEFINE c == [does |-> does, at |-> "read", pid |-> None, again |-> FALSE]
<1>2. c \in Call /\ c.at = "read"
  BY DEF Call, Commands
<1>3. calls' = [calls EXCEPT ![u] = c]
  BY <1>1
<1> HIDE DEF c
<1>. QED
  BY <1>2, <1>3 DEF TypeInv, TypeOK, CallsHavePid

LEMMA CallStepType ==
  ASSUME TypeInv, NEW u \in Users, CallStep(u)
  PROVE  TypeInv'
<1> DEFINE CallsOK == calls' \in [Users -> Call \cup {None}] /\ CallsHavePid'
<1>0. begun' = begun
  BY DEF CallStep
<1>1. CASE ReadPid(u)
  <2>1. ASSUME pidFile \in Pids,
               calls' = [calls EXCEPT ![u].pid = pidFile, ![u].at = "check"]
        PROVE  CallsOK
    <3> DEFINE c == [calls[u] EXCEPT !.pid = pidFile, !.at = "check"]
    <3>1. calls[u] \in Call
      BY <1>1 DEF ReadPid, At, TypeInv, TypeOK
    <3>2. c \in Call /\ c.pid = pidFile
      BY <2>1, <3>1 DEF Call
    <3>3. calls' = [calls EXCEPT ![u] = c]
      BY <2>1, <3>1 DEF TypeInv, TypeOK
    <3> HIDE DEF c
    <3>. QED
      BY <2>1, <3>2, <3>3 DEF TypeInv, TypeOK, CallsHavePid
  <2>2. ASSUME Return(u) PROVE CallsOK
    BY <1>1, <2>2, ReturnType DEF ReadPid
  <2>3. ASSUME Go(u, "spawn") PROVE CallsOK
    BY <1>1, <2>3, GoType DEF ReadPid, At
  <2>4. ASSUME Start(u) PROVE CallsOK
    BY <2>4, StartType
  <2>5. CallsOK
    BY <1>1, <2>1, <2>2, <2>3, <2>4 DEF ReadPid
  <2>. QED
    BY <1>0, <1>1, <2>5 DEF ReadPid, TypeInv, TypeOK
<1>2. CASE CheckStart(u) \/ CheckStatus(u)
  <2>1. CASE Return(u)
    BY <1>0, <1>2, <2>1, ReturnType
    DEF CheckStart, CheckStatus, TypeInv, TypeOK
  <2>2. CASE Go(u, "remove")
    BY <1>0, <1>2, <2>2, GoType
    DEF CheckStart, CheckStatus, At, TypeInv, TypeOK
  <2>. QED
    BY <1>2, <2>1, <2>2 DEF CheckStart, CheckStatus
<1>3. CASE CheckRestart(u)
  <2>1. ASSUME calls' = [calls EXCEPT ![u].does = "stop", ![u].at = "read",
                                      ![u].again = TRUE]
        PROVE  CallsOK
    <3> DEFINE c == [calls[u] EXCEPT !.does = "stop", !.at = "read",
                                     !.again = TRUE]
    <3>1. calls[u] \in Call
      BY <1>3 DEF CheckRestart, At, TypeInv, TypeOK
    <3>2. c \in Call /\ c.at = "read"
      BY <3>1, CommandNames DEF Call
    <3>3. calls' = [calls EXCEPT ![u] = c]
      BY <2>1, <3>1 DEF TypeInv, TypeOK
    <3> HIDE DEF c
    <3>. QED
      BY <3>2, <3>3 DEF TypeInv, TypeOK, CallsHavePid
  <2>2. ASSUME Start(u) PROVE CallsOK
    BY <2>2, StartType
  <2>3. CallsOK
    BY <1>3, <2>1, <2>2 DEF CheckRestart
  <2>. QED
    BY <1>0, <1>3, <2>3 DEF CheckRestart, TypeInv, TypeOK
<1>4. CASE CheckStop(u)
  <2>0. calls[u] # None /\ calls[u].pid \in Pids /\ calls[u] \in Call
    BY <1>4 DEF CheckStop, At, TypeInv, TypeOK, CallsHavePid
  <2>1. CASE Signal(calls[u].pid) /\ Go(u, "wait")
    <3>1. CallsOK
      BY <2>0, <2>1, GoType
    <3>. QED
      BY <1>0, <1>4, <2>0, <2>1, <3>1, SignalType
      DEF CheckStop, TypeInv, TypeOK
  <2>2. CASE /\ calls' = [calls EXCEPT ![u].at = "remove", ![u].again = FALSE]
             /\ UNCHANGED <<phase, port, streams>>
    <3> DEFINE c == [calls[u] EXCEPT !.at = "remove", !.again = FALSE]
    <3>1. c \in Call /\ c.at = "remove"
      BY <2>0 DEF Call
    <3>2. calls' = [calls EXCEPT ![u] = c]
      BY <2>0, <2>2 DEF TypeInv, TypeOK
    <3>3. CallsOK
      <4> HIDE DEF c
      <4>. QED
        BY <3>1, <3>2 DEF TypeInv, TypeOK, CallsHavePid
    <3>. QED
      BY <1>0, <1>4, <2>2, <3>3 DEF CheckStop, TypeInv, TypeOK
  <2>. QED
    BY <1>4, <2>1, <2>2 DEF CheckStop
<1>5. CASE Wait(u)
  <2>1. CallsOK
    BY <1>5, GoType DEF Wait, At
  <2>2. hasty' \in BOOLEAN
    BY <1>5, Zenon DEF Wait
  <2>. QED
    BY <1>0, <1>5, <2>1, <2>2 DEF Wait, TypeInv, TypeOK
<1>6. CASE RemoveFile(u)
  <2>1. ASSUME Go(u, "spawn") PROVE CallsOK
    BY <1>6, <2>1, GoType DEF RemoveFile, At
  <2>2. ASSUME Start(u) PROVE CallsOK
    BY <2>2, StartType
  <2>3. ASSUME Return(u) PROVE CallsOK
    BY <2>3, ReturnType
  <2>4. CallsOK
    BY <1>6, <2>1, <2>2, <2>3 DEF RemoveFile
  <2>5. phase' \in [Pids -> Phase]
    BY <1>6, OrphanedType DEF RemoveFile, TypeInv
  <2>. QED
    BY <1>0, <1>6, <2>4, <2>5 DEF RemoveFile, TypeInv, TypeOK
<1>7. CASE Spawn(u)
  <2>1. CASE Return(u)
    BY <1>0, <1>7, <2>1, ReturnType DEF Spawn, TypeInv, TypeOK
  <2>2. CASE calls' = [calls EXCEPT ![u].does = "foreground", ![u].at = "read",
                                    ![u].pid = None]
    <3> DEFINE c == [calls[u] EXCEPT !.does = "foreground", !.at = "read",
                                     !.pid = None]
    <3>1. calls[u] \in Call
      BY <1>7 DEF Spawn, At, TypeInv, TypeOK
    <3>2. c \in Call /\ c.at = "read"
      BY <3>1, CommandNames DEF Call
    <3>3. calls' = [calls EXCEPT ![u] = c]
      BY <2>2, <3>1 DEF TypeInv, TypeOK
    <3>4. CallsOK
      <4> HIDE DEF c
      <4>. QED
        BY <3>2, <3>3 DEF TypeInv, TypeOK, CallsHavePid
    <3>. QED
      BY <1>0, <1>7, <3>4 DEF Spawn, TypeInv, TypeOK
  <2>. QED
    BY <1>7, <2>1, <2>2 DEF Spawn
<1>8. CASE Run(u)
  <2>1. phase' \in [Pids -> Phase]
    BY <1>8, PhaseNames DEF Run, Goto, TypeInv, TypeOK
  <2>2. CallsOK
    BY <1>8 DEF Run, Return, TypeInv, TypeOK, CallsHavePid
  <2>. QED
    BY <1>0, <1>8, <2>1, <2>2 DEF Run, TypeInv, TypeOK
<1>. QED
  BY <1>1, <1>2, <1>3, <1>4, <1>5, <1>6, <1>7, <1>8 DEF CallStep

LEMMA NextType == TypeInv /\ [Next]_vars => TypeInv'
<1>1. TypeInv /\ UNCHANGED vars => TypeInv'
  BY DEF vars, TypeInv, TypeOK, CallsHavePid
<1>. QED
  BY <1>1, DaemonStepType, WorldStepType, CallStepType, CommandType DEF Next

LEMMA TypeInvariant == Spec => []TypeInv
  BY InitType, NextType, PTL DEF Spec

\* Processes, the PID file, the port and the commands keep their types, and
\* the bound of the number of commands holds.
THEOREM DaemonTypes == Spec => []TypeOK
<1>1. TypeInv => TypeOK
  BY DEF TypeInv
<1>. QED
  BY <1>1, TypeInvariant, PTL

-----------------------------------------------------------------------------
(***************************************************************************)
(* One daemon at a time, and the file names it                             *)
(*                                                                         *)
(* FileNamesDaemon is about daemons and the file, while what keeps it true *)
(* is what the commands know between their steps: a command that has read  *)
(* a PID knows that no daemon but that one is alive, and one that is about *)
(* to remove the file or to run a daemon, that none is.  This holds for    *)
(* one command at a time, and while a daemon starts there is none.         *)
(***************************************************************************)
OneCommand ==
  \A u, v \in Users : calls[u] # None /\ calls[v] # None => u = v

OneDaemon == \A p, q \in Pids : Alive(p) /\ Alive(q) => p = q

FileNamesUp == \A p \in Pids : phase[p] \in Up => pidFile = p

StartsAlone ==
  \A p \in Pids : phase[p] \in Starting => \A u \in Users : calls[u] = None

CommandsKnow ==
  \A u \in Users : calls[u] # None =>
    /\ calls[u].at \in {"check", "wait"} =>
         \A p \in Pids : Alive(p) => calls[u].pid = p
    /\ calls[u].at \in {"remove", "spawn"} => \A p \in Pids : ~Alive(p)

\* Nobody's PID file is removed while it is being written.
NobodyOrphaned == \A p \in Pids : phase[p] # "orphaned"

Orderly ==
  /\ OneCommand /\ OneDaemon /\ FileNamesUp /\ StartsAlone /\ CommandsKnow
  /\ NobodyOrphaned

LEMMA InitOrderly == Init => Orderly
  BY DEF Init, Orderly, OneCommand, OneDaemon, FileNamesUp, StartsAlone,
         CommandsKnow, NobodyOrphaned, Alive, Starting, Up

\* Nothing is disturbed when processes only go on or end, and the file and
\* the commands stay.
Fading ==
  /\ pidFile' = pidFile /\ calls' = calls
  /\ \A q \in Pids : /\ phase'[q] \in Up => phase[q] \in Up
                     /\ phase'[q] \in Starting => phase[q] \in Starting
                     /\ phase'[q] = "orphaned" => phase[q] = "orphaned"

LEMMA FadingOrderly ==
  ASSUME Orderly, Fading
  PROVE  Orderly'
<1>1. \A q \in Pids : Alive(q)' => Alive(q)
  BY DEF Fading, Alive
<1>2. OneCommand' /\ OneDaemon' /\ FileNamesUp' /\ StartsAlone'
  BY <1>1
  DEF Fading, Orderly, OneCommand, OneDaemon, FileNamesUp, StartsAlone
<1>3. CommandsKnow' /\ NobodyOrphaned'
  BY <1>1 DEF Fading, Orderly, CommandsKnow, NobodyOrphaned
<1>. QED
  BY <1>2, <1>3 DEF Orderly

\* Who dies, fades.
LEMMA DiesFades ==
  ASSUME TypeInv, NEW p \in Pids, NEW at \in {"ended", "failed"}, Dies(p, at),
         pidFile' = pidFile, calls' = calls
  PROVE  Fading
  BY DEF Dies, Goto, Fading, TypeInv, TypeOK, Starting, Up

LEMMA SignalFades ==
  ASSUME TypeInv, NEW p \in Pids, Signal(p), pidFile' = pidFile, calls' = calls
  PROVE  Fading
<1>1. CASE Dies(p, "failed")
  BY <1>1, DiesFades
<1>2. CASE phase[p] = "serving" /\ Goto(p, "draining")
  BY <1>2 DEF Goto, Fading, TypeInv, TypeOK, Starting, Up
<1>3. CASE UNCHANGED phase
  BY <1>3 DEF Fading
<1>. QED
  BY <1>1, <1>2, <1>3 DEF Signal

LEMMA DaemonStepOrderly ==
  ASSUME TypeInv, Orderly, NEW p \in Pids, DaemonStep(p)
  PROVE  Orderly'
<1>0. calls' = calls
  BY DEF DaemonStep
<1>1. CASE StartFails(p)
  BY <1>0, <1>1, DiesFades, FadingOrderly DEF StartFails
<1>2. CASE TruncatePid(p)
  <2>1. /\ phase[p] = "starting" /\ phase' = [phase EXCEPT ![p] = "writing"]
        /\ Alive(p)
    BY <1>2 DEF TruncatePid, Goto, Alive, Starting
  <2>2. \A q \in Pids : Alive(q)' => Alive(q)
    BY <2>1 DEF TypeInv, TypeOK, Alive
  <2>3. \A q \in Pids : phase'[q] \notin Up
    BY <2>1 DEF TypeInv, TypeOK, Orderly, OneDaemon, Alive, Up
  <2>4. StartsAlone' /\ CommandsKnow' /\ NobodyOrphaned'
    BY <1>0, <2>1, <2>2
    DEF Orderly, StartsAlone, CommandsKnow, NobodyOrphaned, TypeInv, TypeOK,
        Starting
  <2>. QED
    BY <1>0, <2>2, <2>3, <2>4
    DEF Orderly, OneCommand, OneDaemon, FileNamesUp
<1>3. CASE WritePid(p)
  <2>1. /\ phase[p] = "writing" /\ phase' = [phase EXCEPT ![p] = "binding"]
        /\ Alive(p) /\ pidFile' = p
    BY <1>3 DEF WritePid, Goto, Alive, Starting, Orderly, NobodyOrphaned
  <2>2. \A q \in Pids : Alive(q)' => Alive(q)
    BY <2>1 DEF TypeInv, TypeOK, Alive
  <2>3. \A q \in Pids : phase'[q] \in Up => q = p
    BY <2>1 DEF TypeInv, TypeOK, Orderly, OneDaemon, Alive
  <2>4. StartsAlone' /\ CommandsKnow' /\ NobodyOrphaned'
    BY <1>0, <2>1, <2>2
    DEF Orderly, StartsAlone, CommandsKnow, NobodyOrphaned, TypeInv, TypeOK,
        Starting
  <2>. QED
    BY <1>0, <2>1, <2>2, <2>3, <2>4
    DEF Orderly, OneCommand, OneDaemon, FileNamesUp
<1>4. CASE Bind(p)
  <2>1. CASE Dies(p, "failed")
    BY <1>0, <1>4, <2>1, DiesFades, FadingOrderly DEF Bind
  <2>2. CASE phase[p] = "binding" /\ Goto(p, "bound")
    <3>1. Fading
      BY <1>0, <1>4, <2>2 DEF Bind, Goto, Fading, TypeInv, TypeOK, Starting, Up
    <3>. QED
      BY <3>1, FadingOrderly
  <2>. QED
    BY <1>4, <2>1, <2>2 DEF Bind
<1>5. CASE Serve(p) \/ Drained(p)
  <2>1. Fading
    BY <1>0, <1>5
    DEF Serve, Drained, Goto, Fading, TypeInv, TypeOK, Starting, Up
  <2>. QED
    BY <2>1, FadingOrderly
<1>6. CASE Cleanup(p)
  <2>0. phase[p] = "flushing" /\ Alive(p)
    BY <1>6 DEF Cleanup, Alive, Up
  <2>1. phase' = [phase EXCEPT ![p] = "ended"]
    <3>1. \A q \in Pids : phase[q] # "writing"
      BY <2>0 DEF Orderly, OneDaemon, Alive, Starting
    <3>2. Orphaned = phase
      BY <3>1 DEF Orphaned, TypeInv, TypeOK
    <3>. QED
      BY <1>6, <3>2 DEF Cleanup
  <2>2. Alive(p) /\ phase'[p] = "ended"
    BY <2>0, <2>1 DEF TypeInv, TypeOK
  <2>3. \A q \in Pids : ~Alive(q)'
    BY <2>1, <2>2
    DEF Orderly, OneDaemon, TypeInv, TypeOK, Alive, Starting, Up
  <2>. QED
    BY <1>0, <2>3 DEF Orderly, OneCommand, OneDaemon, FileNamesUp, StartsAlone,
                      CommandsKnow, NobodyOrphaned, Alive, Starting
<1>. QED
  BY <1>1, <1>2, <1>3, <1>4, <1>5, <1>6 DEF DaemonStep

LEMMA WorldStepOrderly ==
  ASSUME TypeInv, Orderly, NEW p \in Pids, WorldStep(p)
  PROVE  Orderly'
<1>0. calls' = calls /\ pidFile' = pidFile
  BY DEF WorldStep, Connect, Disconnect, Interrupt, Crash, Reuse
<1>1. CASE Connect(p) \/ Disconnect(p)
  BY <1>0, <1>1, FadingOrderly DEF Connect, Disconnect, Fading
<1>2. CASE Interrupt(p)
  BY <1>0, <1>2, SignalFades, FadingOrderly DEF Interrupt
<1>3. CASE Crash(p)
  BY <1>0, <1>3, DiesFades, FadingOrderly DEF Crash
<1>4. CASE Reuse(p)
  <2>1. Fading
    BY <1>0, <1>4
    DEF Reuse, Goto, Fading, TypeInv, TypeOK, Starting, Up, Over
  <2>. QED
    BY <2>1, FadingOrderly
<1>. QED
  BY <1>1, <1>2, <1>3, <1>4 DEF WorldStep

\* A command that waits for the one before and for a daemon to start.
LEMMA CommandOrderly ==
  ASSUME TypeInv, Orderly, NEW u \in Users, NEW does \in Commands,
         Command(u, does), ~hasty'
  PROVE  Orderly'
<1> DEFINE c == [does |-> does, at |-> "read", pid |-> None, again |-> FALSE]
<1>1. /\ \A v \in Users : calls[v] = None
      /\ \A p \in Pids : phase[p] \notin Starting
  BY Zenon DEF Command
<1>2. calls' = [calls EXCEPT ![u] = c] /\ c.at = "read"
  BY DEF Command
<1>3. pidFile' = pidFile /\ phase' = phase
  BY DEF Command
<1> HIDE DEF c
<1>4. OneCommand' /\ CommandsKnow'
  BY <1>1, <1>2 DEF OneCommand, CommandsKnow, TypeInv, TypeOK
<1>5. OneDaemon' /\ FileNamesUp' /\ StartsAlone' /\ NobodyOrphaned'
  BY <1>1, <1>3 DEF Orderly, OneDaemon, FileNamesUp, StartsAlone,
                    NobodyOrphaned, Alive
<1>. QED
  BY <1>4, <1>5 DEF Orderly

\* A step of the only command that changes nothing else, and after which the
\* command knows what it has to.
LEMMA CallOrderly ==
  ASSUME TypeInv, Orderly, NEW u \in Users, calls[u] # None,
         phase' = phase, \A v \in Users \ {u} : calls'[v] = calls[v],
         pidFile' = pidFile \/ \A p \in Pids : ~Alive(p),
         calls'[u] # None =>
           /\ calls'[u].at \in {"check", "wait"} =>
                \A p \in Pids : Alive(p) => calls'[u].pid = p
           /\ calls'[u].at \in {"remove", "spawn"} => \A p \in Pids : ~Alive(p)
  PROVE  Orderly'
<1>1. \A v \in Users \ {u} : calls'[v] = None
  BY DEF Orderly, OneCommand
<1>2. OneCommand'
  BY <1>1 DEF OneCommand
<1>3. OneDaemon'
  BY DEF Orderly, OneDaemon, Alive
<1>4. FileNamesUp'
  BY DEF Orderly, FileNamesUp, Alive
<1>5. StartsAlone'
  BY DEF Orderly, StartsAlone
<1>6. CommandsKnow' /\ NobodyOrphaned'
  BY <1>1 DEF Orderly, CommandsKnow, NobodyOrphaned, Alive
<1>. QED
  BY <1>2, <1>3, <1>4, <1>5, <1>6 DEF Orderly

LEMMA CallStepOrderly ==
  ASSUME TypeInv, Orderly, NEW u \in Users, CallStep(u), ~hasty'
  PROVE  Orderly'
<1>0. /\ calls \in [Users -> Call \cup {None}]
      /\ calls[u] # None
      /\ calls[u] \in Call
      /\ \A v \in Users \ {u} : calls'[v] = calls[v]
  BY DEF CallStep, ReadPid, CheckStart, CheckStatus, CheckRestart, CheckStop,
         Wait, RemoveFile, Spawn, Run, At, Return, Go, Start, TypeInv, TypeOK
<1> DEFINE Knows ==
      calls'[u] # None =>
        /\ calls'[u].at \in {"check", "wait"} =>
             \A p \in Pids : Alive(p) => calls'[u].pid = p
        /\ calls'[u].at \in {"remove", "spawn"} => \A p \in Pids : ~Alive(p)
<1>a. ASSUME phase' = phase, Knows,
             pidFile' = pidFile \/ \A p \in Pids : ~Alive(p)
      PROVE  Orderly'
  BY <1>0, <1>a, CallOrderly
<1>b. /\ calls[u].at \in {"check", "wait"} =>
           \A p \in Pids : Alive(p) => calls[u].pid = p
      /\ calls[u].at \in {"remove", "spawn"} => \A p \in Pids : ~Alive(p)
  BY <1>0 DEF Orderly, CommandsKnow
<1>c. \A p \in Pids : Alive(p) => pidFile = p
  BY <1>0 DEF Orderly, StartsAlone, FileNamesUp, Alive
<1>d. Return(u) => Knows
  BY <1>0 DEF Return
<1>e. Start(u) => Knows
  <2> SUFFICES ASSUME Start(u) PROVE Knows
    OBVIOUS
  <2>1. PICK does \in Starts :
          calls' = [calls EXCEPT ![u] = [does |-> does, at |-> "read",
                                         pid |-> None, again |-> FALSE]]
    BY DEF Start
  <2>2. calls'[u].at = "read"
    BY <1>0, <2>1
  <2>. QED
    BY <2>2
<1>f. ASSUME NEW at, Go(u, at)
      PROVE  calls'[u].at = at /\ calls'[u].pid = calls[u].pid
  BY <1>0, <1>f DEF Go, Call
<1>1. CASE ReadPid(u)
  <2>1. ASSUME pidFile = None, Go(u, "spawn") PROVE Knows
    BY <1>c, <1>f, <2>1, DaemonAssumption
  <2>2. ASSUME pidFile \in Pids,
               calls' = [calls EXCEPT ![u].pid = pidFile, ![u].at = "check"]
        PROVE  Knows
    <3>1. calls'[u].pid = pidFile /\ calls'[u].at = "check"
      BY <1>0, <2>2 DEF Call
    <3>. QED
      BY <1>c, <3>1
  <2>3. Knows /\ phase' = phase /\ pidFile' = pidFile
    <3> HIDE DEF Knows
    <3>. QED
      BY <1>1, <1>d, <1>e, <2>1, <2>2 DEF ReadPid
  <2>. QED
    BY <1>a, <2>3
<1>2. CASE CheckStart(u) \/ CheckStatus(u)
  <2>1. ASSUME ~Running(calls[u].pid), Go(u, "remove") PROVE Knows
    <3>1. \A p \in Pids : ~Alive(p)
      BY <1>2, <1>b, <2>1 DEF CheckStart, CheckStatus, At, Running, Alive
    <3>. QED
      BY <1>f, <2>1, <3>1
  <2>2. Knows /\ phase' = phase /\ pidFile' = pidFile
    <3> HIDE DEF Knows
    <3>. QED
      BY <1>2, <1>d, <2>1 DEF CheckStart, CheckStatus
  <2>. QED
    BY <1>a, <2>2
<1>3. CASE CheckRestart(u)
  <2>1. ASSUME calls' = [calls EXCEPT ![u].does = "stop", ![u].at = "read",
                                      ![u].again = TRUE]
        PROVE  Knows
    <3>1. calls'[u].at = "read"
      BY <1>0, <2>1 DEF Call
    <3>. QED
      BY <3>1
  <2>2. Knows /\ phase' = phase /\ pidFile' = pidFile
    <3> HIDE DEF Knows
    <3>. QED
      BY <1>3, <1>e, <2>1 DEF CheckRestart
  <2>. QED
    BY <1>a, <2>2
<1>4. CASE CheckStop(u)
  <2>0. /\ calls[u].at = "check" /\ calls[u].pid \in Pids /\ pidFile' = pidFile
        /\ \A p \in Pids : Alive(p) => calls[u].pid = p
    BY <1>4, <1>b DEF CheckStop, At, TypeInv, CallsHavePid
  <2>1. CASE Signal(calls[u].pid) /\ Go(u, "wait")
    \* The signal first, then the command's own step.
    <3>1. /\ calls'[u].at = "wait" /\ calls'[u].pid = calls[u].pid
      BY <1>f, <2>1
    <3>2. /\ \A q \in Pids : phase'[q] \in Up => phase[q] \in Up
          /\ \A q \in Pids : phase'[q] \in Starting => phase[q] \in Starting
          /\ \A q \in Pids : phase'[q] = "orphaned" => phase[q] = "orphaned"
      BY <2>0, <2>1
      DEF Signal, Dies, Goto, TypeInv, TypeOK, Starting, Up
    <3>3. \A q \in Pids : Alive(q)' => Alive(q)
      BY <3>2 DEF Alive
    <3>4. \A v \in Users \ {u} : calls'[v] = None
      BY <1>0 DEF Orderly, OneCommand
    <3>5. OneCommand' /\ OneDaemon' /\ FileNamesUp'
      BY <2>0, <3>2, <3>3, <3>4
      DEF Orderly, OneCommand, OneDaemon, FileNamesUp
    <3>6. StartsAlone' /\ NobodyOrphaned'
      BY <1>0, <3>2 DEF Orderly, StartsAlone, NobodyOrphaned
    <3>7. CommandsKnow'
      BY <2>0, <3>1, <3>3, <3>4 DEF CommandsKnow
    <3>. QED
      BY <3>5, <3>6, <3>7 DEF Orderly
  <2>2. CASE /\ ~Running(calls[u].pid)
             /\ calls' = [calls EXCEPT ![u].at = "remove", ![u].again = FALSE]
             /\ UNCHANGED <<phase, port, streams>>
    <3>1. \A p \in Pids : ~Alive(p)
      BY <2>0, <2>2 DEF Running, Alive
    <3>2. calls'[u].at = "remove"
      BY <1>0, <2>2 DEF Call
    <3>. QED
      BY <1>a, <2>0, <2>2, <3>1, <3>2
  <2>. QED
    BY <1>4, <2>1, <2>2 DEF CheckStop
<1>5. CASE Wait(u)
  <2>1. ~Running(calls[u].pid)
    BY <1>5, Zenon DEF Wait
  <2>2. \A p \in Pids : ~Alive(p)
    BY <1>5, <1>b, <2>1 DEF Wait, At, Running, Alive
  <2>3. Go(u, "remove") /\ phase' = phase
    BY <1>5 DEF Wait
  <2>. QED
    BY <1>a, <1>f, <2>2, <2>3
<1>6. CASE RemoveFile(u)
  <2>1. \A p \in Pids : ~Alive(p)
    BY <1>6, <1>b DEF RemoveFile, At
  <2>2. phase' = phase
    <3>1. Orphaned = phase
      BY <2>1 DEF Orphaned, Alive, Starting, TypeInv, TypeOK
    <3>. QED
      BY <1>6, <3>1 DEF RemoveFile
  <2>3. Knows
    BY <2>1, <1>6, <1>d, <1>e, <1>f DEF RemoveFile
  <2>. QED
    BY <1>a, <2>1, <2>2, <2>3
<1>7. CASE Spawn(u)
  <2>1. ASSUME calls' = [calls EXCEPT ![u].does = "foreground",
                                      ![u].at = "read", ![u].pid = None]
        PROVE  Knows
    <3>1. calls'[u].at = "read"
      BY <1>0, <2>1 DEF Call
    <3>. QED
      BY <3>1
  <2>2. Knows /\ phase' = phase /\ pidFile' = pidFile
    <3> HIDE DEF Knows
    <3>. QED
      BY <1>7, <1>d, <2>1 DEF Spawn
  <2>. QED
    BY <1>a, <2>2
<1>8. CASE Run(u)
  <2>1. PICK p \in Pids : phase[p] = "unused" /\ Goto(p, "starting")
    BY <1>8 DEF Run
  <2>2. \A q \in Pids : ~Alive(q)
    BY <1>8, <1>b DEF Run, At
  <2>3. \A v \in Users : calls'[v] = None
    BY <1>0, <1>8 DEF Run, Return, Orderly, OneCommand
  <2>4. \A q \in Pids : Alive(q)' => q = p
    BY <2>1, <2>2 DEF Goto, Alive, TypeInv, TypeOK
  <2>5. \A q \in Pids : phase'[q] \notin Up
    BY <2>1, <2>2 DEF Goto, Alive, TypeInv, TypeOK, Up
  <2>6. NobodyOrphaned'
    BY <2>1 DEF Goto, Orderly, NobodyOrphaned, TypeInv, TypeOK
  <2>. QED
    BY <2>3, <2>4, <2>5, <2>6
    DEF Orderly, OneCommand, OneDaemon, FileNamesUp, StartsAlone, CommandsKnow
<1>. QED
  BY <1>1, <1>2, <1>3, <1>4, <1>5, <1>6, <1>7, <1>8 DEF CallStep

\* Once a command was hasty, that is not forgotten.
LEMMA HasteLasts ==
  ASSUME [Next]_vars, ~hasty'
  PROVE  ~hasty
<1>1. ASSUME NEW p \in Pids, DaemonStep(p) \/ WorldStep(p)
      PROVE  ~hasty
  BY <1>1 DEF DaemonStep, WorldStep
<1>2. ASSUME NEW u \in Users, CallStep(u)
      PROVE  ~hasty
  <2>1. CASE Wait(u)
    BY <2>1, Zenon DEF Wait
  <2>2. CASE ~Wait(u)
    BY <1>2, <2>2 DEF CallStep, ReadPid, CheckStart, CheckStatus, CheckRestart,
                      CheckStop, RemoveFile, Spawn, Run
  <2>. QED
    BY <2>1, <2>2
<1>3. ASSUME NEW u \in Users, NEW does \in Commands, Command(u, does)
      PROVE  ~hasty
  BY <1>3, Zenon DEF Command
<1>4. CASE UNCHANGED vars
  BY <1>4 DEF vars
<1>. QED
  BY <1>1, <1>2, <1>3, <1>4 DEF Next

OrderlyUnlessHasty == ~hasty => Orderly

LEMMA NextOrderly ==
  ASSUME TypeInv, OrderlyUnlessHasty, [Next]_vars
  PROVE  OrderlyUnlessHasty'
<1> SUFFICES ASSUME ~hasty' PROVE Orderly'
  BY DEF OrderlyUnlessHasty
<1>1. Orderly
  BY HasteLasts DEF OrderlyUnlessHasty
<1>2. CASE UNCHANGED vars
  BY <1>1, <1>2
  DEF vars, Orderly, OneCommand, OneDaemon, FileNamesUp, StartsAlone,
      CommandsKnow, NobodyOrphaned, Alive
<1>. QED
  BY <1>1, <1>2, DaemonStepOrderly, WorldStepOrderly, CommandOrderly,
     CallStepOrderly DEF Next

\* As long as commands wait for each other and for a started daemon, and no
\* stop gives up, there is one daemon at a time and the PID file names it,
\* whatever crashes, signals, failed starts and reused PIDs come between.
THEOREM TheFileNamesTheDaemon == Spec => []FileNamesDaemon
<1>1. Init => OrderlyUnlessHasty
  BY InitOrderly DEF OrderlyUnlessHasty
<1>2. OrderlyUnlessHasty => FileNamesDaemon
  BY DEF OrderlyUnlessHasty, Orderly, OneDaemon, FileNamesUp, FileNamesDaemon
<1>. QED
  BY <1>1, <1>2, NextOrderly, TypeInvariant, PTL DEF Spec

\* A daemon that ends by itself removes the PID file in the same step, and
\* only a daemon that starts writes its own PID: no file names one that ended.
THEOREM EndedLeavesNothing == Spec => []NothingLeftBehind
<1>1. Init => NothingLeftBehind
  BY DEF Init, NothingLeftBehind
<1>2. TypeInv /\ NothingLeftBehind /\ [Next]_vars => NothingLeftBehind'
  <2> SUFFICES ASSUME TypeInv, NothingLeftBehind, [Next]_vars,
                      NEW p \in Pids, phase'[p] = "ended"
               PROVE  pidFile' # p
    BY DEF NothingLeftBehind
  <2>1. ASSUME NEW q \in Pids, DaemonStep(q)
        PROVE  pidFile' # p
    <3>1. CASE Cleanup(q)
      BY <3>1, DaemonAssumption DEF Cleanup
    <3>2. CASE TruncatePid(q)
      BY <3>2, DaemonAssumption DEF TruncatePid
    <3>3. CASE WritePid(q)
      BY <3>3 DEF WritePid, Goto, NothingLeftBehind, TypeInv, TypeOK
    <3>4. CASE StartFails(q) \/ Bind(q) \/ Serve(q) \/ Drained(q)
      BY <3>4 DEF StartFails, Bind, Serve, Drained, Dies, Goto,
                  NothingLeftBehind, TypeInv, TypeOK
    <3>. QED
      BY <2>1, <3>1, <3>2, <3>3, <3>4 DEF DaemonStep
  <2>2. ASSUME NEW q \in Pids, WorldStep(q)
        PROVE  pidFile' # p
    BY <2>2 DEF WorldStep, Connect, Disconnect, Interrupt, Crash, Reuse,
                Signal, Dies, Goto, NothingLeftBehind, TypeInv, TypeOK
  <2>3. ASSUME NEW u \in Users, CallStep(u)
        PROVE  pidFile' # p
    <3>1. CASE CheckStop(u)
      <4>1. calls[u].pid \in Pids /\ pidFile' = pidFile
        BY <3>1 DEF CheckStop, At, TypeInv, CallsHavePid
      <4>. QED
        BY <3>1, <4>1 DEF CheckStop, Signal, Dies, Goto,
                          NothingLeftBehind, TypeInv, TypeOK
    <3>2. CASE Run(u)
      BY <3>2 DEF Run, Goto, NothingLeftBehind, TypeInv, TypeOK
    <3>3. CASE RemoveFile(u)
      BY <3>3, DaemonAssumption DEF RemoveFile
    <3>4. CASE pidFile' = pidFile /\ phase' = phase
      BY <3>4 DEF NothingLeftBehind
    <3>. QED
      BY <2>3, <3>1, <3>2, <3>3, <3>4
      DEF CallStep, ReadPid, CheckStart, CheckStatus, CheckRestart, Wait, Spawn
  <2>4. ASSUME NEW u \in Users, NEW does \in Commands, Command(u, does)
        PROVE  pidFile' # p
    BY <2>4 DEF Command, NothingLeftBehind
  <2>5. CASE UNCHANGED vars
    BY <2>5 DEF vars, NothingLeftBehind
  <2>. QED
    BY <2>1, <2>2, <2>3, <2>4, <2>5 DEF Next
<1>. QED
  BY <1>1, <1>2, TypeInvariant, PTL DEF Spec
=============================================================================
