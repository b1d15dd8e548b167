----------------------------- MODULE McpDaemon ------------------------------
(***************************************************************************)
(* The detached MCP server (internal/cmd/mcp_daemon.go): `ffc mcp          *)
(* --detach`, `ffc mcp status` and `ffc mcp stop` run as they like, and    *)
(* share a state file that names the server, a lock file that only starts  *)
(* take, and the ports and process numbers of the computer.                *)
(***************************************************************************)
EXTENDS Integers, Sequences

CONSTANTS
  Cmds,        \* the terminals commands are run in
  Ports,
  Pids,        \* process numbers
  MaxServers,  \* bound: servers started
  Nothing

ASSUME NothingIsNoServer == Nothing \notin Nat

VARIABLES
  record,     \* mcp.json: the server it names, by its instance, or Nothing
  startLock,  \* is there a mcp.lock?
  lockOld,    \* is it older than mcpLockStale?
  servers,    \* the servers started: process, port and state
  others,     \* the processes of other programs
  cmd,        \* each terminal's command
  reported,   \* history: the servers whose start succeeded
  swept,      \* history: the servers whose record a command removed that had
              \*   read another
  broken      \* history: has the lock of a start that still runs been removed?

recordVars == <<record, swept>>
startLockVars == <<startLock, lockOld, broken>>
processVars == <<servers, others>>
daemonVars == <<recordVars, startLockVars, processVars, cmd, reported>>

NoCommand == [kind |-> "none", at |-> "none", server |-> Nothing, port |-> Nothing, force |-> FALSE]

DaemonInit ==
  /\ record = Nothing /\ swept = {}
  /\ startLock = FALSE /\ lockOld = FALSE /\ broken = FALSE
  /\ servers = <<>> /\ others = {}
  /\ cmd = [c \in Cmds |-> NoCommand]
  /\ reported = {}

-----------------------------------------------------------------------------
(* Processes.                                                              *)

\* isProcessRunning: also of a server that is going down, or of another
\* program that was given its number.
PidsOf(i) == IF servers[i].at = "gone" THEN {} ELSE {servers[i].pid}
RunningPids == others \cup UNION {PidsOf(i) : i \in DOMAIN servers}

\* Bound: a number is not given out again while a command has just read it.
FreshPids ==
  Pids \ (RunningPids \cup {servers[cmd[c].server].pid : c \in {d \in Cmds : cmd[d].server # Nothing}})

Listening(port) == {i \in DOMAIN servers : servers[i].port = port /\ servers[i].at = "listening"}

\* Mutant of Confirmed: any ffc MCP server answers on the port.
ConfirmedByPort(i) == Listening(servers[i].port) # {}

\* mcpHealth answers with the instance the record names.
Confirmed(i) == i \in Listening(servers[i].port)

NewServer(port) ==
  \E pid \in FreshPids :
    /\ Len(servers) < MaxServers
    /\ servers' = Append(servers, [pid |-> pid, port |-> port, at |-> "starting"])

\* runHTTPServer: it listens, or finds its port taken and exits.
Listen(i) ==
  /\ servers[i].at = "starting"
  /\ servers' = [servers EXCEPT ![i].at = IF Listening(servers[i].port) = {} THEN "listening" ELSE "gone"]
  /\ UNCHANGED <<recordVars, startLockVars, others, cmd, reported>>

\* It fails, is killed, or has shut down after its signal.
ServerExits(i) ==
  /\ servers[i].at # "gone"
  /\ servers' = [servers EXCEPT ![i].at = "gone"]
  /\ UNCHANGED <<recordVars, startLockVars, others, cmd, reported>>

\* ffc mcp --port, in the foreground: no record, an instance of its own.
RunForeground(port) ==
  /\ NewServer(port)
  /\ UNCHANGED <<recordVars, startLockVars, others, cmd, reported>>

OtherProgram(pid) ==
  /\ IF pid \in others THEN others' = others \ {pid} ELSE pid \in FreshPids /\ others' = others \cup {pid}
  /\ UNCHANGED <<recordVars, startLockVars, servers, cmd, reported>>

-----------------------------------------------------------------------------
(* Commands.                                                               *)

At(c, at) == cmd[c].at = at
Go(c, at) == cmd' = [cmd EXCEPT ![c].at = at]
Quits(c)  == cmd' = [cmd EXCEPT ![c] = NoCommand]

\* The starts that have made the lock and not yet removed it.
InStart(c) == cmd[c].kind = "start" /\ cmd[c].at \notin {"lock", "stat", "break", "relock", "restat", "rebreak"}

\* Removing mcp.lock, whoever made it.
RemoveLock(c) ==
  /\ startLock' = FALSE /\ lockOld' = FALSE
  /\ broken' = (broken \/ (startLock /\ \E d \in Cmds \ {c} : InStart(d)))

\* A command ends; the deferred unlock of a start.
Returned(c) ==
  /\ Quits(c)
  /\ IF InStart(c) THEN RemoveLock(c) ELSE UNCHANGED startLockVars

RemoveRecord(c, read) ==
  /\ record' = Nothing
  /\ swept' = swept \cup ({record} \ {Nothing, read})

BeginStart(c, port) ==
  /\ At(c, "none")
  /\ cmd' = [cmd EXCEPT ![c] = [NoCommand EXCEPT !.kind = "start", !.at = "lock", !.port = port]]
  /\ UNCHANGED <<recordVars, startLockVars, processVars, reported>>

\* acquireMCPLock: two tries to make the lock, the second once a stale one
\* is removed; or the file cannot be made at all.
MakeLock(c) ==
  /\ cmd[c].at \in {"lock", "relock"}
  /\ \/ ~startLock /\ startLock' = TRUE /\ lockOld' = FALSE /\ UNCHANGED broken /\ Go(c, "read")
     \/ startLock /\ Go(c, IF At(c, "lock") THEN "stat" ELSE "restat") /\ UNCHANGED startLockVars
     \/ Quits(c) /\ UNCHANGED startLockVars
  /\ UNCHANGED <<recordVars, processVars, reported>>

StatLock(c) ==
  /\ cmd[c].at \in {"stat", "restat"}
  /\ IF startLock /\ lockOld THEN Go(c, IF At(c, "stat") THEN "break" ELSE "rebreak") ELSE Quits(c)
  /\ UNCHANGED <<recordVars, startLockVars, processVars, reported>>

BreakLock(c) ==
  /\ cmd[c].at \in {"break", "rebreak"}
  /\ RemoveLock(c)
  /\ IF At(c, "break") THEN Go(c, "relock") ELSE Quits(c)
  /\ UNCHANGED <<recordVars, processVars, reported>>

\* A start takes less than mcpLockStale, but for the wait for its server.
LockAges ==
  /\ startLock /\ ~lockOld
  /\ \A c \in Cmds : InStart(c) => cmd[c].at \in {"poll", "kill", "unrecord", "remove"}
  /\ lockOld' = TRUE
  /\ UNCHANGED <<recordVars, startLock, broken, processVars, cmd, reported>>

\* status and stop read the state file at once, start under the lock.
BeginOther(c, kind, force) ==
  /\ At(c, "none")
  /\ record # Nothing
  /\ cmd' = [cmd EXCEPT ![c] = [NoCommand EXCEPT !.kind = kind, !.at = "probe", !.server = record, !.force = force]]
  /\ UNCHANGED <<recordVars, startLockVars, processVars, reported>>

ReadRecord(c) ==
  /\ At(c, "read")
  /\ cmd' = [cmd EXCEPT ![c].server = record, ![c].at = IF record = Nothing THEN "spawn" ELSE "probe"]
  /\ UNCHANGED <<recordVars, startLockVars, processVars, reported>>

\* Is it the server the record names?  A slow one has half a second to say so.
Probe(c) ==
  /\ At(c, "probe")
  /\ \/ /\ Confirmed(cmd[c].server)
        /\ IF cmd[c].kind = "stop" THEN Go(c, "signal") /\ UNCHANGED startLockVars ELSE Returned(c)
     \/ Go(c, "alive") /\ UNCHANGED startLockVars
  /\ UNCHANGED <<recordVars, processVars, reported>>

\* Mutant of Refuses: a start goes on when the server does not answer.
RefusesUnforced(c) == ~cmd[c].force /\ cmd[c].kind # "start"

\* A process that is alive and not confirmed is left alone.
Refuses(c) == ~cmd[c].force

CheckAlive(c) ==
  LET alive == servers[cmd[c].server].pid \in RunningPids
  IN  /\ At(c, "alive")
      /\ IF alive /\ Refuses(c) THEN Returned(c)
         ELSE Go(c, IF alive /\ cmd[c].force THEN "signal" ELSE "sweep") /\ UNCHANGED startLockVars
      /\ UNCHANGED <<recordVars, processVars, reported>>

\* The record of a dead server is removed, without another look at it.
Sweep(c) ==
  /\ At(c, "sweep")
  /\ RemoveRecord(c, cmd[c].server)
  /\ IF cmd[c].kind = "start" THEN Go(c, "spawn") /\ UNCHANGED startLockVars ELSE Returned(c)
  /\ UNCHANGED <<processVars, reported>>

\* The child starts with a token and an instance of its own, or does not.
Spawn(c) ==
  /\ At(c, "spawn")
  /\ \/ /\ NewServer(cmd[c].port)
        /\ cmd' = [cmd EXCEPT ![c].server = Len(servers) + 1, ![c].at = "write"]
        /\ UNCHANGED startLockVars
     \/ Returned(c) /\ UNCHANGED servers
  /\ UNCHANGED <<recordVars, others, reported>>

\* writeMCPState; when it fails the child is killed.
WriteRecord(c) ==
  /\ At(c, "write")
  /\ \/ record' = cmd[c].server /\ Go(c, "poll") /\ UNCHANGED <<servers, startLockVars>>
     \/ /\ servers' = [servers EXCEPT ![cmd[c].server].at = "gone"]
        /\ Returned(c) /\ UNCHANGED record
  /\ UNCHANGED <<swept, others, reported>>

\* The child answers, has exited, or mcpStartTimeout or Ctrl+C comes first.
Poll(c) ==
  /\ At(c, "poll")
  /\ \/ /\ Confirmed(cmd[c].server)
        /\ reported' = reported \cup {cmd[c].server}
        /\ Returned(c)
     \/ /\ Go(c, IF servers[cmd[c].server].at = "gone" THEN "unrecord" ELSE "kill")
        /\ UNCHANGED <<startLockVars, reported>>
  /\ UNCHANGED <<recordVars, processVars>>

\* terminateProcess, and Kill three seconds later.
KillChild(c) ==
  /\ At(c, "kill")
  /\ servers' = [servers EXCEPT ![cmd[c].server].at = "gone"]
  /\ Go(c, "unrecord")
  /\ UNCHANGED <<recordVars, startLockVars, others, reported>>

\* stop: terminateProcess of the process that has the number now.
Signal(c) ==
  LET pid == servers[cmd[c].server].pid
      hit == {i \in DOMAIN servers : pid \in PidsOf(i)}
  IN  /\ At(c, "signal")
      /\ servers' = [i \in DOMAIN servers |-> [servers[i] EXCEPT !.at = IF i \in hit THEN "stopping" ELSE @]]
      /\ \E ended \in SUBSET (others \cap {pid}) : others' = others \ ended
      /\ IF pid \in RunningPids THEN Go(c, "wait") ELSE Quits(c)
      /\ UNCHANGED <<recordVars, startLockVars, reported>>

\* stillUp: the process runs, or any ffc server answers on its port.
WaitForExit(c) ==
  LET s == servers[cmd[c].server]
  IN  /\ At(c, "wait")
      /\ \/ s.pid \notin RunningPids /\ Listening(s.port) = {} /\ Go(c, "unrecord")
         \/ (s.pid \in RunningPids \/ Listening(s.port) # {}) /\ Quits(c)
      /\ UNCHANGED <<recordVars, startLockVars, processVars, reported>>

\* removeMCPStateIf reads the record and then removes it.
Unrecord(c) ==
  /\ At(c, "unrecord")
  /\ IF record = cmd[c].server THEN Go(c, "remove") /\ UNCHANGED startLockVars ELSE Returned(c)
  /\ UNCHANGED <<recordVars, processVars, reported>>

RemoveIt(c) ==
  /\ At(c, "remove")
  /\ RemoveRecord(c, cmd[c].server)
  /\ Returned(c)
  /\ UNCHANGED <<processVars, reported>>

\* A command is interrupted; its lock file and its child stay.
CommandDies(c) ==
  /\ ~At(c, "none")
  /\ Quits(c)
  /\ UNCHANGED <<recordVars, startLockVars, processVars, reported>>

Reboot ==
  /\ cmd' = [c \in Cmds |-> NoCommand]
  /\ servers' = [i \in DOMAIN servers |-> [servers[i] EXCEPT !.at = "gone"]]
  /\ others' = {}
  /\ UNCHANGED <<recordVars, startLockVars, reported>>

DaemonNext ==
  \/ \E i \in DOMAIN servers : Listen(i) \/ ServerExits(i)
  \/ \E port \in Ports : RunForeground(port) \/ \E c \in Cmds : BeginStart(c, port)
  \/ \E pid \in Pids : OtherProgram(pid)
  \/ LockAges \/ Reboot
  \/ \E c \in Cmds :
       \/ MakeLock(c) \/ StatLock(c) \/ BreakLock(c)
       \/ BeginOther(c, "status", FALSE)
       \/ \E force \in BOOLEAN : BeginOther(c, "stop", force)
       \/ ReadRecord(c) \/ Probe(c) \/ CheckAlive(c) \/ Sweep(c)
       \/ Spawn(c) \/ WriteRecord(c) \/ Poll(c) \/ KillChild(c)
       \/ Signal(c) \/ WaitForExit(c) \/ Unrecord(c) \/ RemoveIt(c)
       \/ CommandDies(c)

DaemonSpec == DaemonInit /\ [][DaemonNext]_daemonVars

-----------------------------------------------------------------------------
(* Properties.                                                             *)

\* Without --force, stop signals only the server that the record it read
\* names, or nobody: never a program that was given its number, nor a server
\* in the foreground (mcpStopCmd: we never SIGTERM a process that reused the
\* PID).
StopsItsOwn ==
  \A c \in Cmds :
    At(c, "signal") /\ ~cmd[c].force =>
      LET pid == servers[cmd[c].server].pid
      IN  pid \notin others /\ \A i \in DOMAIN servers : pid \in PidsOf(i) => i = cmd[c].server

\* A detached server that runs can be found by status and stop: no start
\* overwrites or removes its record (startDetached: that would orphan it with
\* a still-valid token).  Two slow paths of the code do so and are left out:
\* a status or a stop removes the record of a server that was started since
\* it read the record before (swept has that server), and the lock of a start
\* that waits for its server for more than mcpLockStale is removed (broken).
ServersAreRecorded ==
  ~broken =>
    \A i \in reported \ swept : servers[i].at \in {"listening", "stopping"} => record = i
=============================================================================
