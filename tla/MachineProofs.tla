---------------------------- MODULE MachineProofs ---------------------------
(***************************************************************************)
(* What ffc and the app keep on one machine, for any number of terminals,  *)
(* servers, log files and releases: a stop reaches only the server its     *)
(* record names and a reported server stays recorded (McpDaemon), a        *)
(* rotation leaves a history (AuditLog), the ffc binary is always one that *)
(* was signed (FfcBinary), the app's copy is a whole release (AppUpdates), *)
(* and the lock of the config file is exclusive and its edits happen at    *)
(* once (ConfigLock), as long as no process crashes.  (With a crash and    *)
(* two waiting processes neither holds: the run config_lock_broken.)       *)
(***************************************************************************)
EXTENDS McpDaemon, AuditLog, FfcBinary, AppUpdates, ConfigLock, SequenceTheorems,
        FiniteSetTheorems, TLAPS

Stages == {"none", "copy", "swap", "sum", "aside", "in", "commit", "record"}

OldNames == Names \cup {NoFile}

ToolRecord ==
  [kind : {"none", "update", "app", "rollback"}, at : Stages,
   data : Versions \cup {NoFile, Foreign}, copy : Versions \cup {NoFile},
   old : OldNames]

\* What a tool works with is what it downloaded and verified, or a kept binary
\* whose checksum it has looked at.
ToolOK(t) ==
  /\ tool[t].at \in {"copy", "swap", "aside", "in"} => tool[t].data \in Versions
  /\ tool[t].at = "sum" => tool[t].data # NoFile
  /\ tool[t].at = "record" => tool[t].copy # NoFile
  /\ tool[t].at \in {"aside", "in"} => tool[t].old \in Names

OldCopies == [Names -> [file : Versions \cup {NoFile}, of : Tools \cup {NoFile}]]

\* There is a binary, in its place or moved aside.
BinaryThere == exe = NoFile => taken \/ \E n \in Names : aside[n].file # NoFile

BinaryInv ==
  /\ exe \in Versions \cup {NoFile}
  /\ prev \in Versions \cup {NoFile, Foreign}
  /\ sum \in Versions \cup {NoFile}
  /\ taken \in BOOLEAN
  /\ aside \in OldCopies
  /\ tool \in [Tools -> ToolRecord]
  /\ \A t \in Tools : ToolOK(t)
  /\ BinaryThere

LEMMA StagesAre == {"none", "copy", "swap", "sum", "aside", "in", "commit", "record"} \subseteq Stages
BY DEF Stages

LEMMA IdleIs == Idle \in ToolRecord /\ Idle.at = "none"
BY DEF Idle, ToolRecord, Stages, OldNames

\* What is verified is the release that was asked for.
LEMMA DownloadIsRelease ==
  ASSUME NEW v \in Versions, NEW f \in Download(v)
  PROVE  f = v
BY DEF Download, Sums, Verified

LEMMA BinaryInitInv == BinaryInit => BinaryInv
<1> SUFFICES ASSUME BinaryInit PROVE BinaryInv
  OBVIOUS
<1>1. \A t \in Tools : ToolOK(t)
  BY IdleIs DEF BinaryInit, ToolOK
<1>2. BinaryThere
  BY FilesDiffer DEF BinaryInit, BinaryThere
<1>3. aside \in OldCopies
  BY DEF BinaryInit, OldCopies, NoAside
<1> QED
  BY <1>1, <1>2, <1>3, IdleIs DEF BinaryInit, BinaryInv

\* A step of one tool.
OnlyTool(t) ==
  tool' \in [Tools -> ToolRecord] /\ \A u \in Tools \ {t} : tool'[u] = tool[u]

\* It goes on with what it has.
GoesTo(t, s) ==
  /\ OnlyTool(t) /\ tool'[t].at = s
  /\ tool'[t].data = tool[t].data /\ tool'[t].copy = tool[t].copy
  /\ tool'[t].old = tool[t].old

LEMMA ToGoes ==
  ASSUME BinaryInv, NEW t \in Tools, NEW s \in Stages, To(t, s)
  PROVE  GoesTo(t, s)
BY DEF BinaryInv, To, OnlyTool, GoesTo, ToolRecord

LEMMA ToolEnds ==
  ASSUME BinaryInv, NEW t \in Tools, Ends(t)
  PROVE  OnlyTool(t) /\ tool'[t] = Idle /\ tool'[t].at = "none" /\ ToolOK(t)'
<1>1. tool' = [tool EXCEPT ![t] = Idle] /\ tool \in [Tools -> ToolRecord]
  BY DEF BinaryInv, Ends
<1>2. OnlyTool(t) /\ tool'[t] = Idle
  BY <1>1, IdleIs DEF OnlyTool
<1> QED
  BY <1>2, IdleIs DEF ToolOK

LEMMA SwappedMoves ==
  ASSUME BinaryInv, NEW t \in Tools, Swapped(t)
  PROVE  OnlyTool(t) /\ tool'[t].at \in {"none", "commit"} /\ ToolOK(t)'
<1>1. CASE Ends(t)
  BY <1>1, ToolEnds
<1>2. CASE To(t, "commit")
  <2>1. GoesTo(t, "commit")
    BY <1>2, ToGoes, StagesAre
  <2> QED
    BY <2>1 DEF GoesTo, ToolOK
<1> QED
  BY <1>1, <1>2 DEF Swapped

\* The others' tools are as they were.
LEMMA OthersOK ==
  ASSUME BinaryInv, NEW t \in Tools, OnlyTool(t), ToolOK(t)'
  PROVE  \A u \in Tools : ToolOK(u)'
BY DEF BinaryInv, OnlyTool, ToolOK

\* A step that leaves the binary and its old copies alone.
LEMMA QuietInv ==
  ASSUME BinaryInv, NEW t \in Tools, OnlyTool(t), ToolOK(t)',
         UNCHANGED <<exe, aside, taken>>,
         prev' \in Versions \cup {NoFile, Foreign}, sum' \in Versions \cup {NoFile}
  PROVE  BinaryInv'
<1>1. \A u \in Tools : ToolOK(u)'
  BY OthersOK
<1>2. BinaryThere'
  BY DEF BinaryInv, BinaryThere
<1> QED
  BY <1>1, <1>2 DEF BinaryInv, OnlyTool

\* A step that moves them.
LEMMA MovedInv ==
  ASSUME BinaryInv, NEW t \in Tools, OnlyTool(t), ToolOK(t)',
         exe' \in Versions \cup {NoFile}, aside' \in OldCopies, BinaryThere',
         taken' \in BOOLEAN, UNCHANGED <<prev, sum>>
  PROVE  BinaryInv'
<1>1. \A u \in Tools : ToolOK(u)'
  BY OthersOK
<1> QED
  BY <1>1 DEF BinaryInv, OnlyTool

\* A new binary is in place.
LEMMA PlacedInv ==
  ASSUME BinaryInv, NEW t \in Tools, OnlyTool(t), ToolOK(t)',
         exe' \in Versions, aside' \in OldCopies, UNCHANGED <<prev, sum, taken>>
  PROVE  BinaryInv'
<1>1. BinaryThere' /\ taken' \in BOOLEAN
  BY FilesDiffer DEF BinaryInv, BinaryThere
<1> QED
  BY <1>1, MovedInv

LEMMA UpdateInv ==
  ASSUME BinaryInv, NEW t \in Tools, NEW v \in Versions, Update(t, v) \/ AppInstalls(t, v)
  PROVE  BinaryInv'
<1>1. PICK f \in Download(v) :
        \/ tool' = [tool EXCEPT ![t] = [Idle EXCEPT !.kind = "update", !.at = "copy", !.data = f]]
        \/ tool' = [tool EXCEPT ![t] = [Idle EXCEPT !.kind = "app", !.at = "swap", !.data = f]]
  BY DEF Update, AppInstalls
<1>2. f \in Versions
  BY DownloadIsRelease
<1>3. tool[t].at = "none" /\ UNCHANGED <<exe, aside, prev, sum, taken>>
  BY DEF Update, AppInstalls, Is
<1>4. OnlyTool(t) /\ tool'[t].at \in {"copy", "swap"} /\ tool'[t].data = f
  <2>1. tool \in [Tools -> ToolRecord]
    BY DEF BinaryInv
  <2>2. CASE tool' = [tool EXCEPT ![t] = [Idle EXCEPT !.kind = "update", !.at = "copy", !.data = f]]
    BY <1>2, <2>1, <2>2 DEF OnlyTool, Idle, ToolRecord, Stages, OldNames
  <2>3. CASE tool' = [tool EXCEPT ![t] = [Idle EXCEPT !.kind = "app", !.at = "swap", !.data = f]]
    BY <1>2, <2>1, <2>3 DEF OnlyTool, Idle, ToolRecord, Stages, OldNames
  <2> QED
    BY <1>1, <2>2, <2>3
<1>5. ToolOK(t)'
  BY <1>2, <1>4 DEF ToolOK
<1> QED
  BY <1>3, <1>4, <1>5, QuietInv DEF BinaryInv

LEMMA BinaryStep ==
  ASSUME BinaryInv, NEW t \in Tools,
         \/ Rollback(t) \/ CheckSum(t) \/ CopyPrevious(t) \/ RenameOver(t)
         \/ FreeOldName(t) \/ MoveAside(t) \/ MoveIn(t)
         \/ CommitCopy(t) \/ CommitSum(t) \/ ToolDies(t)
  PROVE  BinaryInv'
<1>1. /\ ToolOK(t) /\ tool \in [Tools -> ToolRecord]
      /\ prev \in Versions \cup {NoFile, Foreign} /\ sum \in Versions \cup {NoFile}
      /\ aside \in OldCopies /\ BinaryThere
      /\ exe \in Versions \cup {NoFile} /\ taken \in BOOLEAN
  BY DEF BinaryInv
<1>3. CASE Rollback(t)
  <2>1. /\ tool[t].at = "none" /\ prev # NoFile
        /\ tool' = [tool EXCEPT ![t] = [Idle EXCEPT !.kind = "rollback", !.at = "sum", !.data = prev]]
        /\ UNCHANGED <<exe, aside, prev, sum, taken>>
    BY <1>3 DEF Rollback, Is
  <2>2. OnlyTool(t) /\ tool'[t].at = "sum" /\ tool'[t].data = prev
    BY <1>1, <2>1 DEF OnlyTool, Idle, ToolRecord, Stages, OldNames
  <2>3. ToolOK(t)'
    BY <2>1, <2>2 DEF ToolOK
  <2> QED
    BY <1>1, <2>1, <2>2, <2>3, QuietInv
<1>4. CASE CheckSum(t)
  <2>1. tool[t].at = "sum" /\ UNCHANGED <<exe, aside, prev, sum, taken>>
    BY <1>4 DEF CheckSum, Is
  <2>2. CASE Ends(t)
    BY <1>1, <2>1, <2>2, ToolEnds, QuietInv
  <2>3. CASE To(t, "copy") /\ sum = tool[t].data
    <3>1. GoesTo(t, "copy")
      BY <2>3, ToGoes, StagesAre
    <3>2. ToolOK(t)'
      BY <1>1, <2>1, <2>3, <3>1 DEF ToolOK, GoesTo
    <3> QED
      BY <1>1, <2>1, <3>1, <3>2, QuietInv DEF GoesTo
  <2> QED
    BY <1>4, <2>2, <2>3 DEF CheckSum, Matches
<1>5. CASE CopyPrevious(t)
  <2>1. PICK copy \in {exe, NoFile} :
          tool' = [tool EXCEPT ![t].at = "swap", ![t].copy = copy]
    BY <1>5 DEF CopyPrevious
  <2>2. tool[t].at = "copy" /\ UNCHANGED <<exe, aside, prev, sum, taken>>
    BY <1>5 DEF CopyPrevious, Is
  <2>3. OnlyTool(t) /\ tool'[t].at = "swap" /\ tool'[t].data = tool[t].data
    <3>1. copy \in Versions \cup {NoFile}
      BY <1>1
    <3> QED
      BY <1>1, <2>1, <3>1, StagesAre DEF OnlyTool, ToolRecord
  <2>4. ToolOK(t)'
    BY <1>1, <2>2, <2>3 DEF ToolOK
  <2> QED
    BY <1>1, <2>2, <2>3, <2>4, QuietInv
<1>6. CASE RenameOver(t)
  <2>1. tool[t].at = "swap" /\ UNCHANGED <<aside, prev, sum, taken>>
    BY <1>6 DEF RenameOver, Is
  <2>2. CASE Ends(t) /\ UNCHANGED exe
    BY <1>1, <2>1, <2>2, ToolEnds, QuietInv
  <2>3. CASE exe' = tool[t].data /\ Swapped(t)
    <3>1. exe' \in Versions
      BY <1>1, <2>1, <2>3 DEF ToolOK
    <3> QED
      BY <1>1, <2>1, <2>3, <3>1, SwappedMoves, PlacedInv
  <2> QED
    BY <1>6, <2>2, <2>3 DEF RenameOver
<1>7. CASE FreeOldName(t)
  <2>1. /\ tool[t].at = "swap" /\ UNCHANGED <<exe, prev, sum>>
        /\ \E o \in Names : tool' = [tool EXCEPT ![t].at = "aside", ![t].old = o]
    BY <1>7 DEF FreeOldName, Is, Names
  <2>2. /\ OnlyTool(t) /\ tool'[t].at = "aside" /\ tool'[t].data = tool[t].data
        /\ tool'[t].old \in Names
    <3>1. PICK o \in Names : tool' = [tool EXCEPT ![t].at = "aside", ![t].old = o]
      BY <2>1
    <3>2. o \in OldNames
      BY DEF OldNames
    <3> QED
      BY <1>1, <3>1, <3>2, StagesAre DEF OnlyTool, ToolRecord
  <2>3. ToolOK(t)'
    BY <1>1, <2>1, <2>2 DEF ToolOK
  <2>4. CASE UNCHANGED <<aside, taken>>
    BY <1>1, <2>1, <2>2, <2>3, <2>4, QuietInv
  <2>5. CASE /\ aside' = [aside EXCEPT !["old"] = NoAside]
             /\ taken' = (taken \/ (exe = NoFile /\ aside["old"].file # NoFile))
    <3>1. aside' \in OldCopies
      BY <1>1, <2>5 DEF OldCopies, NoAside
    <3>2. \A n \in Names \ {"old"} : aside'[n] = aside[n]
      BY <1>1, <2>5 DEF OldCopies
    <3>3. BinaryThere' /\ taken' \in BOOLEAN
      <4>1. taken' \in BOOLEAN
        BY <2>5
      <4>2. ASSUME exe' = NoFile, ~taken' PROVE \E n \in Names : aside'[n].file # NoFile
        <5>1. exe = NoFile /\ ~taken /\ aside["old"].file = NoFile
          BY <2>1, <2>5, <4>2
        <5>2. PICK n \in Names : aside[n].file # NoFile
          BY <1>1, <5>1 DEF BinaryThere
        <5> QED
          BY <3>2, <5>1, <5>2
      <4> QED
        BY <4>1, <4>2 DEF BinaryThere
    <3> QED
      BY <1>1, <2>1, <2>2, <2>3, <3>1, <3>3, MovedInv
  <2> QED
    BY <1>7, <2>4, <2>5 DEF FreeOldName
<1>8. CASE MoveAside(t)
  <2>1. tool[t].at = "aside" /\ tool[t].old \in Names /\ UNCHANGED <<prev, sum, taken>>
    BY <1>1, <1>8 DEF MoveAside, Is, ToolOK
  <2>2. CASE Ends(t) /\ UNCHANGED <<exe, aside>>
    BY <1>1, <2>1, <2>2, ToolEnds, QuietInv
  <2>3. CASE /\ exe # NoFile /\ exe' = NoFile /\ To(t, "in")
             /\ aside' = [aside EXCEPT ![tool[t].old] =
                            [file |-> exe, of |-> IF tool[t].kind = "app" THEN NoFile ELSE t]]
    <3>1. GoesTo(t, "in")
      BY <2>3, ToGoes, StagesAre
    <3>2. ToolOK(t)'
      BY <1>1, <2>1, <3>1 DEF ToolOK, GoesTo
    <3>3. aside' \in OldCopies /\ aside'[tool[t].old].file = exe
      BY <1>1, <2>1, <2>3 DEF OldCopies
    <3>4. BinaryThere'
      BY <2>1, <2>3, <3>3 DEF BinaryThere
    <3> QED
      BY <1>1, <2>1, <2>3, <3>1, <3>2, <3>3, <3>4, MovedInv DEF GoesTo
  <2> QED
    BY <1>8, <2>2, <2>3 DEF MoveAside
<1>9. CASE MoveIn(t)
  <2>1. tool[t].at = "in" /\ tool[t].old \in Names /\ UNCHANGED <<prev, sum, taken>>
    BY <1>1, <1>9 DEF MoveIn, Is, ToolOK
  <2>2. CASE /\ exe' = tool[t].data /\ Swapped(t)
             /\ aside' = [n \in Names |-> IF aside[n].of = NoFile THEN NoAside ELSE aside[n]]
    <3>1. exe' \in Versions
      BY <1>1, <2>1, <2>2 DEF ToolOK
    <3>2. aside' \in OldCopies
      BY <1>1, <2>2 DEF OldCopies, NoAside
    <3> QED
      BY <1>1, <2>1, <2>2, <3>1, <3>2, SwappedMoves, PlacedInv
  <2>3. CASE PutBack(t) /\ Ends(t)
    <3>1. OnlyTool(t) /\ tool'[t].at = "none" /\ ToolOK(t)'
      BY <2>3, ToolEnds
    <3>2. CASE UNCHANGED <<exe, aside>>
      BY <1>1, <2>1, <3>1, <3>2, QuietInv
    <3>3. CASE /\ aside[tool[t].old].file # NoFile /\ exe' = aside[tool[t].old].file
               /\ aside' = [aside EXCEPT ![tool[t].old] = NoAside]
      <4>1. exe' \in Versions
        BY <1>1, <2>1, <3>3 DEF OldCopies
      <4>2. aside' \in OldCopies
        BY <1>1, <3>3 DEF OldCopies, NoAside
      <4> QED
        BY <2>1, <3>1, <4>1, <4>2, PlacedInv
    <3> QED
      BY <2>3, <3>2, <3>3 DEF PutBack
  <2> QED
    BY <1>9, <2>2, <2>3 DEF MoveIn
<1>10. CASE CommitCopy(t)
  <2>1. tool[t].at = "commit" /\ UNCHANGED <<exe, aside, sum, taken>>
    BY <1>10 DEF CommitCopy, Is
  <2>2. CASE Ends(t) /\ UNCHANGED prev
    BY <1>1, <2>1, <2>2, ToolEnds, QuietInv
  <2>3. CASE tool[t].copy # NoFile /\ prev' = tool[t].copy /\ To(t, "record")
    <3>1. GoesTo(t, "record")
      BY <2>3, ToGoes, StagesAre
    <3>2. ToolOK(t)' /\ tool[t].copy \in Versions \cup {NoFile}
      BY <1>1, <2>3, <3>1 DEF ToolOK, GoesTo, ToolRecord
    <3> QED
      BY <1>1, <2>1, <2>3, <3>1, <3>2, QuietInv DEF GoesTo
  <2> QED
    BY <1>10, <2>2, <2>3 DEF CommitCopy
<1>11. CASE CommitSum(t)
  <2>1. /\ tool[t].at = "record" /\ UNCHANGED <<exe, aside, prev, taken>>
        /\ sum' \in {sum, tool[t].copy} /\ Ends(t)
    BY <1>11 DEF CommitSum, Is
  <2>2. tool[t].copy \in Versions \cup {NoFile}
    BY <1>1 DEF ToolRecord
  <2> QED
    BY <1>1, <2>1, <2>2, ToolEnds, QuietInv
<1>12. CASE ToolDies(t)
  <2>1. Ends(t) /\ UNCHANGED <<exe, aside, prev, sum, taken>>
    BY <1>12 DEF ToolDies
  <2> QED
    BY <1>1, <2>1, ToolEnds, QuietInv
<1> QED
  BY <1>3, <1>4, <1>5, <1>6, <1>7, <1>8, <1>9, <1>10, <1>11, <1>12

LEMMA ReplaceInv == BinaryInv /\ ReplacePrevious => BinaryInv'
<1> SUFFICES ASSUME BinaryInv, ReplacePrevious PROVE BinaryInv'
  OBVIOUS
<1>1. UNCHANGED <<exe, aside, sum, tool, taken>> /\ prev' \in Versions \cup {NoFile, Foreign}
  BY DEF ReplacePrevious
<1>2. \A t \in Tools : ToolOK(t)'
  BY <1>1 DEF BinaryInv, ToolOK
<1>3. BinaryThere'
  BY <1>1 DEF BinaryInv, BinaryThere
<1> QED
  BY <1>1, <1>2, <1>3 DEF BinaryInv

LEMMA OldEndsInv ==
  ASSUME BinaryInv, NEW n \in Names, OldEnds(n)
  PROVE  BinaryInv'
<1>1. /\ UNCHANGED <<exe, prev, sum, tool, taken>> /\ aside \in OldCopies
      /\ aside' = [aside EXCEPT ![n].of = NoFile]
  BY DEF OldEnds, BinaryInv
<1>2. aside' \in OldCopies /\ \A m \in Names : aside'[m].file = aside[m].file
  BY <1>1 DEF OldCopies
<1>3. \A t \in Tools : ToolOK(t)'
  BY <1>1 DEF BinaryInv, ToolOK
<1>4. BinaryThere'
  BY <1>1, <1>2 DEF BinaryInv, BinaryThere
<1> QED
  BY <1>1, <1>2, <1>3, <1>4 DEF BinaryInv

LEMMA BinaryNextInv == BinaryInv /\ [BinaryNext]_binaryVars => BinaryInv'
<1> SUFFICES ASSUME BinaryInv, [BinaryNext]_binaryVars PROVE BinaryInv'
  OBVIOUS
<1>1. CASE UNCHANGED binaryVars
  <2>1. \A t \in Tools : ToolOK(t)'
    BY <1>1 DEF BinaryInv, ToolOK, binaryVars
  <2>2. BinaryThere'
    BY <1>1 DEF BinaryInv, BinaryThere, binaryVars
  <2> QED
    BY <1>1, <2>1, <2>2 DEF BinaryInv, binaryVars
<1>2. CASE BinaryNext
  BY <1>2, UpdateInv, BinaryStep, OldEndsInv, ReplaceInv DEF BinaryNext
<1> QED
  BY <1>1, <1>2

\* Whatever is served, whatever happens to ffc.prev, whatever fails and
\* wherever updates are killed, what is in place was signed or was the binary
\* before; and there is one, there or under a name it was moved to, unless a
\* second update removed that last copy (swapExecutable).
THEOREM BinaryOwn == BinarySpec => []BinaryIsOwn
<1>1. BinaryInv => BinaryIsOwn
  BY FilesDiffer DEF BinaryInv, BinaryThere, BinaryIsOwn, OldCopies
<1> QED
  BY <1>1, BinaryInitInv, BinaryNextInv, PTL DEF BinarySpec

-----------------------------------------------------------------------------
(* The detached MCP server.                                                *)

States == {"starting", "listening", "stopping", "gone"}
Server == [pid : Pids, port : Ports, at : States]
CommandStages ==
  {"none", "lock", "relock", "stat", "restat", "break", "rebreak", "read", "probe",
   "alive", "sweep", "spawn", "write", "poll", "kill", "signal", "wait", "unrecord", "remove"}
Kinds == {"none", "start", "status", "stop"}
Command == [kind : Kinds, at : CommandStages, server : Nat \cup {Nothing},
            port : Ports \cup {Nothing}, force : BOOLEAN]

Up(i) == servers[i].at # "gone"

DaemonTypes ==
  /\ servers \in Seq(Server) /\ others \subseteq Pids
  /\ cmd \in [Cmds -> Command]
  /\ record \in DOMAIN servers \cup {Nothing}
  /\ \A c \in Cmds : cmd[c].server \in DOMAIN servers \cup {Nothing}
  /\ reported \subseteq DOMAIN servers
  /\ startLock \in BOOLEAN /\ lockOld \in BOOLEAN /\ broken \in BOOLEAN
  /\ swept \subseteq DOMAIN servers

\* What a command looks at is a server, and one it removes the record of is gone.
CommandOK(c) ==
  /\ cmd[c].at \in {"probe", "alive", "sweep", "write", "poll", "kill", "signal", "wait",
                    "unrecord", "remove"} => cmd[c].server # Nothing
  /\ cmd[c].at \in {"sweep", "unrecord", "remove"} => ~Up(cmd[c].server)
  /\ cmd[c].at \in {"lock", "relock", "stat", "restat", "break", "rebreak", "read",
                    "spawn", "write", "poll", "kill"} => cmd[c].kind = "start"
  /\ cmd[c].kind = "start" => cmd[c].port \in Ports

\* A process number is one process's.
PidsAreUnique ==
  \A i \in DOMAIN servers : Up(i) =>
    /\ servers[i].pid \notin others
    /\ \A j \in DOMAIN servers : Up(j) /\ servers[j].pid = servers[i].pid => j = i

LockIsHeld ==
  ~broken => \A c \in Cmds : InStart(c) =>
    startLock /\ \A d \in Cmds : InStart(d) => d = c

RecordOK ==
  /\ \A i \in reported : servers[i].at # "starting"
  /\ ~broken =>
       /\ \A i \in reported \ swept : Up(i) => record = i
       /\ \A c \in Cmds :
            /\ cmd[c].at \in {"spawn", "write"} => \A i \in reported \ swept : ~Up(i)
            /\ cmd[c].at = "poll" =>
                 record = cmd[c].server \/ ~Up(cmd[c].server) \/ cmd[c].server \in swept

DaemonInv ==
  /\ DaemonTypes /\ PidsAreUnique /\ LockIsHeld /\ RecordOK /\ StopsItsOwn
  /\ \A c \in Cmds : CommandOK(c)

LEMMA DaemonInitInv == DaemonInit => DaemonInv
<1> SUFFICES ASSUME DaemonInit PROVE DaemonInv
  OBVIOUS
<1>1. /\ NoCommand \in Command /\ NoCommand.at = "none" /\ NoCommand.kind = "none"
      /\ NoCommand.server = Nothing
  BY DEF NoCommand, Command, Kinds, CommandStages
<1>2. DaemonTypes
  <2>1. <<>> \in Seq(Server)
    OBVIOUS
  <2> QED
    BY <1>1, <2>1 DEF DaemonInit, DaemonTypes
<1>3. PidsAreUnique /\ LockIsHeld /\ RecordOK /\ StopsItsOwn
  BY <1>1 DEF DaemonInit, PidsAreUnique, LockIsHeld, RecordOK, StopsItsOwn, InStart, At
<1>4. \A c \in Cmds : CommandOK(c)
  BY <1>1 DEF DaemonInit, CommandOK
<1> QED
  BY <1>2, <1>3, <1>4 DEF DaemonInv

-----------------------------------------------------------------------------
(* The steps of the processes.                                             *)

\* The servers are the same processes, and one that is gone stays so.
SameServers ==
  /\ servers' \in Seq(Server) /\ DOMAIN servers \subseteq DOMAIN servers'
  /\ \A i \in DOMAIN servers :
       /\ servers'[i].pid = servers[i].pid /\ servers'[i].port = servers[i].port
       /\ Up(i)' => Up(i)
       /\ servers'[i].at = "starting" => servers[i].at = "starting"

\* Nothing starts.
NoneStarts ==
  SameServers /\ DOMAIN servers' = DOMAIN servers /\ others' \subseteq others

\* A process that starts has a number that is nobody's.
OneStarts ==
  \E pid \in FreshPids :
    /\ SameServers
    /\ \/ /\ DOMAIN servers' = DOMAIN servers
          /\ others' = others \cup {pid}
       \/ /\ DOMAIN servers' = DOMAIN servers \cup {Len(servers) + 1}
          /\ servers'[Len(servers) + 1].pid = pid /\ others' = others

LEMMA ServersAre ==
  ASSUME DaemonTypes
  PROVE  /\ Len(servers) \in Nat /\ DOMAIN servers = 1 .. Len(servers)
         /\ \A i \in DOMAIN servers : servers[i] \in Server /\ i \in Nat /\ i # Nothing
         /\ \A f : f \in [DOMAIN servers -> Server] => f \in Seq(Server) /\ DOMAIN f = DOMAIN servers
<1>1. servers \in Seq(Server)
  BY DEF DaemonTypes
<1>2. Len(servers) \in Nat /\ DOMAIN servers = 1 .. Len(servers)
  BY <1>1
<1>3. \A i \in DOMAIN servers : servers[i] \in Server /\ i \in Nat /\ i # Nothing
  BY <1>1, <1>2, NothingIsNoServer
<1>4. ASSUME NEW f, f \in [DOMAIN servers -> Server]
      PROVE  f \in Seq(Server) /\ DOMAIN f = DOMAIN servers
  BY <1>2, <1>4, SeqDef
<1> QED
  BY <1>2, <1>3, <1>4

\* One server changes its state, and does not start.
LEMMA StateChanges ==
  ASSUME DaemonTypes, NEW i \in DOMAIN servers, NEW s \in States \ {"starting"},
         servers[i].at # "gone" \/ s = "gone",
         servers' = [servers EXCEPT ![i].at = s], others' = others
  PROVE  NoneStarts
<1>1. servers' \in [DOMAIN servers -> Server]
  BY ServersAre DEF Server
<1>2. servers' \in Seq(Server) /\ DOMAIN servers' = DOMAIN servers
  BY <1>1, ServersAre
<1>3. servers'[i].pid = servers[i].pid /\ servers'[i].port = servers[i].port /\ servers'[i].at = s
  BY ServersAre DEF Server
<1>4. \A j \in DOMAIN servers : j # i => servers'[j] = servers[j]
  BY ServersAre
<1> QED
  BY <1>2, <1>3, <1>4 DEF NoneStarts, SameServers, Up

LEMMA ServerStarts ==
  ASSUME DaemonTypes, NEW port \in Ports, NewServer(port), others' = others
  PROVE  OneStarts
<1>1. PICK pid \in FreshPids :
        servers' = Append(servers, [pid |-> pid, port |-> port, at |-> "starting"])
  BY DEF NewServer
<1> DEFINE fresh == [pid |-> pid, port |-> port, at |-> "starting"]
<1>2. fresh \in Server
  BY DEF Server, States, FreshPids
<1>3. /\ servers' \in Seq(Server) /\ DOMAIN servers' = DOMAIN servers \cup {Len(servers) + 1}
      /\ \A i \in DOMAIN servers : servers'[i] = servers[i]
      /\ servers'[Len(servers) + 1] = fresh
  <2> HIDE DEF fresh
  <2>1. servers \in Seq(Server) /\ servers' = Append(servers, fresh)
    BY <1>1 DEF DaemonTypes, fresh
  <2> QED
    BY <1>2, <2>1, ServersAre
<1> QED
  BY <1>3 DEF OneStarts, SameServers, Up

LEMMA PidsStayUnique ==
  ASSUME DaemonTypes, PidsAreUnique, NoneStarts \/ OneStarts
  PROVE  PidsAreUnique' /\ others' \subseteq Pids
<1>1. CASE NoneStarts
  BY <1>1 DEF NoneStarts, SameServers, PidsAreUnique, Up, DaemonTypes
<1>2. CASE OneStarts
  <2>1. PICK pid \in FreshPids :
      /\ SameServers
      /\ \/ /\ DOMAIN servers' = DOMAIN servers
            /\ others' = others \cup {pid}
         \/ /\ DOMAIN servers' = DOMAIN servers \cup {Len(servers) + 1}
            /\ servers'[Len(servers) + 1].pid = pid /\ others' = others
    BY <1>2 DEF OneStarts
  <2>2. pid \in Pids /\ pid \notin others /\ \A i \in DOMAIN servers : Up(i) => servers[i].pid # pid
    BY DEF FreshPids, RunningPids, PidsOf, Up
  <2> QED
    BY <2>1, <2>2 DEF SameServers, PidsAreUnique, DaemonTypes, Up
<1> QED
  BY <1>1, <1>2

\* A command that is about to signal stays as it is, or has just had its answer.
Signals(c) ==
  cmd'[c].at = "signal" /\ ~cmd'[c].force =>
    /\ cmd'[c].server = cmd[c].server
    /\ \/ cmd[c].at = "signal" /\ ~cmd[c].force
       \/ Confirmed(cmd[c].server) /\ UNCHANGED processVars

LEMMA StopsKept ==
  ASSUME DaemonTypes, PidsAreUnique, StopsItsOwn, NoneStarts \/ OneStarts,
         \A c \in Cmds : CommandOK(c) /\ Signals(c)
  PROVE  StopsItsOwn'
<1> SUFFICES ASSUME NEW c \in Cmds, cmd'[c].at = "signal", ~cmd'[c].force
             PROVE  /\ servers'[cmd'[c].server].pid \notin others'
                    /\ \A i \in DOMAIN servers' :
                         Up(i)' /\ servers'[i].pid = servers'[cmd'[c].server].pid => i = cmd'[c].server
  BY DEF StopsItsOwn, At, PidsOf, Up
<1> DEFINE s == cmd[c].server
<1>1. cmd'[c].server = s /\ Signals(c)
  BY DEF Signals
<1>2. CASE Confirmed(s) /\ UNCHANGED processVars
  <2>1. s \in DOMAIN servers /\ Up(s)
    BY <1>2 DEF Confirmed, Listening, Up
  <2> QED
    BY <1>1, <1>2, <2>1 DEF PidsAreUnique, processVars, Up
<1>3. CASE cmd[c].at = "signal" /\ ~cmd[c].force
  <2>1. s \in DOMAIN servers /\ s # Nothing
    BY <1>3 DEF CommandOK, DaemonTypes
  <2>2. /\ servers[s].pid \notin others
        /\ \A i \in DOMAIN servers : Up(i) /\ servers[i].pid = servers[s].pid => i = s
    BY <1>3, <2>1 DEF StopsItsOwn, At, PidsOf, Up
  <2>3. CASE NoneStarts
    BY <1>1, <2>1, <2>2, <2>3 DEF NoneStarts, SameServers, Up
  <2>4. CASE OneStarts
    <3>1. PICK pid \in FreshPids :
        /\ SameServers
        /\ \/ /\ DOMAIN servers' = DOMAIN servers
              /\ others' = others \cup {pid}
           \/ /\ DOMAIN servers' = DOMAIN servers \cup {Len(servers) + 1}
              /\ servers'[Len(servers) + 1].pid = pid /\ others' = others
      BY <2>4 DEF OneStarts
    <3>2. pid # servers[s].pid
      BY <2>1 DEF FreshPids
    <3> QED
      BY <1>1, <2>1, <2>2, <3>1, <3>2 DEF SameServers, Up
  <2> QED
    BY <2>3, <2>4
<1> QED
  BY <1>1, <1>2, <1>3 DEF Signals

-----------------------------------------------------------------------------
(* The steps of the commands.                                              *)

OnlyCmd(c) == cmd' \in [Cmds -> Command] /\ \A d \in Cmds \ {c} : cmd'[d] = cmd[d]

CmdGoes(c, s) ==
  /\ OnlyCmd(c) /\ cmd'[c].at = s /\ cmd'[c].kind = cmd[c].kind
  /\ cmd'[c].server = cmd[c].server /\ cmd'[c].port = cmd[c].port /\ cmd'[c].force = cmd[c].force

CmdEnds(c) ==
  OnlyCmd(c) /\ cmd'[c].at = "none" /\ cmd'[c].kind = "none" /\ cmd'[c].server = Nothing

LEMMA GoGoes ==
  ASSUME DaemonTypes, NEW c \in Cmds, NEW s \in CommandStages, Go(c, s)
  PROVE  CmdGoes(c, s)
BY DEF DaemonTypes, Go, OnlyCmd, CmdGoes, Command

LEMMA QuitsEnds ==
  ASSUME DaemonTypes, NEW c \in Cmds, Quits(c)
  PROVE  CmdEnds(c)
<1>1. NoCommand \in Command /\ NoCommand.at = "none" /\ NoCommand.kind = "none" /\ NoCommand.server = Nothing
  BY DEF NoCommand, Command, Kinds, CommandStages
<1> QED
  BY <1>1 DEF DaemonTypes, Quits, OnlyCmd, CmdEnds

LEMMA CommandStagesAre ==
  {"none", "lock", "relock", "stat", "restat", "break", "rebreak", "read", "probe",
   "alive", "sweep", "spawn", "write", "poll", "kill", "signal", "wait", "unrecord", "remove"}
     \subseteq CommandStages
BY DEF CommandStages

LEMMA StartsNot ==
  ASSUME NEW c \in Cmds, CmdEnds(c)
  PROVE  ~InStart(c)'
BY DEF CmdEnds, InStart

\* A step that keeps the lock, in which no start takes it.
LEMMA LockKept ==
  ASSUME DaemonInv, NEW c \in Cmds, OnlyCmd(c), UNCHANGED startLockVars,
         InStart(c)' => InStart(c)
  PROVE  LockIsHeld'
BY DEF DaemonInv, OnlyCmd, LockIsHeld, InStart, startLockVars

\* Whoever removes the lock of another start has broken it.
LEMMA LockRemoved ==
  ASSUME DaemonInv, NEW c \in Cmds, OnlyCmd(c), RemoveLock(c), ~InStart(c)'
  PROVE  LockIsHeld' /\ (broken => broken') /\ {startLock', lockOld', broken'} \subseteq BOOLEAN
BY DEF DaemonInv, DaemonTypes, OnlyCmd, LockIsHeld, InStart, RemoveLock

LEMMA ReturnedEnds ==
  ASSUME DaemonInv, NEW c \in Cmds, Returned(c)
  PROVE  /\ CmdEnds(c) /\ LockIsHeld' /\ (broken => broken')
         /\ {startLock', lockOld', broken'} \subseteq BOOLEAN

<1>1. CmdEnds(c) /\ ~InStart(c)' /\ OnlyCmd(c)
  BY QuitsEnds, StartsNot DEF DaemonInv, Returned, CmdEnds
<1>2. CASE InStart(c)
  BY <1>1, <1>2, LockRemoved DEF Returned
<1>3. CASE ~InStart(c)
  BY <1>1, <1>3, LockKept DEF Returned, startLockVars, DaemonInv, DaemonTypes
<1> QED
  BY <1>2, <1>3

CommandFine(c) ==
  CommandOK(c)' /\ Signals(c) /\ cmd'[c].server \in DOMAIN servers' \cup {Nothing}

LEMMA IdleFine ==
  ASSUME DaemonInv, NEW c \in Cmds, NoneStarts \/ OneStarts, cmd'[c] = cmd[c]
  PROVE  CommandFine(c)
<1>1. SameServers
  BY DEF NoneStarts, OneStarts
<1>2. cmd[c].server # Nothing => cmd[c].server \in DOMAIN servers
  BY DEF DaemonInv, DaemonTypes
<1>3. CommandOK(c)'
  BY <1>1, <1>2 DEF DaemonInv, CommandOK, SameServers
<1> QED
  BY <1>1, <1>2, <1>3 DEF CommandFine, Signals, SameServers

LEMMA AllFine ==
  ASSUME DaemonInv, NEW c \in Cmds, NoneStarts \/ OneStarts, OnlyCmd(c), CommandFine(c)
  PROVE  \A d \in Cmds : CommandFine(d)
BY IdleFine DEF OnlyCmd

LEMMA DaemonKept ==
  ASSUME DaemonInv, NoneStarts \/ OneStarts, cmd' \in [Cmds -> Command],
         \A c \in Cmds : CommandFine(c),
         LockIsHeld', RecordOK', {startLock', lockOld', broken'} \subseteq BOOLEAN,
         swept' \subseteq DOMAIN servers',
         record' \in DOMAIN servers' \cup {Nothing}, reported' \subseteq DOMAIN servers'
  PROVE  DaemonInv'
<1>1. servers' \in Seq(Server)
  BY DEF NoneStarts, OneStarts, SameServers
<1>2. PidsAreUnique' /\ others' \subseteq Pids
  BY PidsStayUnique DEF DaemonInv
<1>3. StopsItsOwn'
  BY StopsKept DEF DaemonInv, CommandFine
<1>4. DaemonTypes'
  BY <1>1, <1>2 DEF DaemonTypes, CommandFine
<1> QED
  BY <1>2, <1>3, <1>4 DEF DaemonInv, CommandFine

\* What is reported stays recorded while the record stays and no start is at
\* its record.
LEMMA RecordStays ==
  ASSUME DaemonInv, NoneStarts \/ OneStarts, UNCHANGED <<recordVars, reported>>,
         broken => broken',
         \A c \in Cmds : cmd'[c] = cmd[c] \/ cmd'[c].at \notin {"spawn", "write", "poll"}
  PROVE  RecordOK'
<1>1. SameServers /\ UNCHANGED <<record, swept>>
  BY DEF NoneStarts, OneStarts, recordVars
<1>2. reported \subseteq DOMAIN servers
  BY DEF DaemonInv, DaemonTypes
<1>3. \A c \in Cmds : cmd[c].at = "poll" => cmd[c].server \in DOMAIN servers
  BY DEF DaemonInv, DaemonTypes, CommandOK
<1> QED
  BY <1>1, <1>2, <1>3 DEF DaemonInv, RecordOK, SameServers

\* A step of one command that keeps lock, record and reports.
LEMMA QuietCommand ==
  ASSUME DaemonInv, NEW c \in Cmds, NoneStarts \/ OneStarts, OnlyCmd(c), CommandFine(c),
         UNCHANGED <<recordVars, startLockVars, reported>>,
         cmd'[c].at \notin {"spawn", "write", "poll"}, InStart(c)' => InStart(c)
  PROVE  DaemonInv'
<1>1. LockIsHeld'
  BY LockKept
<1>2. RecordOK'
  BY RecordStays DEF OnlyCmd, startLockVars
<1>3. \A d \in Cmds : CommandFine(d)
  BY AllFine
<1>4. DOMAIN servers \subseteq DOMAIN servers'
  BY DEF NoneStarts, OneStarts, SameServers
<1> QED
  BY <1>1, <1>2, <1>3, <1>4, DaemonKept
     DEF OnlyCmd, DaemonInv, DaemonTypes, recordVars, startLockVars

\* A command that ends does what every command may.
LEMMA EndIsFine ==
  ASSUME DaemonInv, NEW c \in Cmds, CmdEnds(c)
  PROVE  CommandFine(c)
BY DEF CmdEnds, CommandFine, CommandOK, Signals

LEMMA ReturnKept ==
  ASSUME DaemonInv, NEW c \in Cmds, NoneStarts \/ OneStarts, Returned(c),
         UNCHANGED <<recordVars, reported>>
  PROVE  DaemonInv'
<1>1. /\ CmdEnds(c) /\ LockIsHeld' /\ (broken => broken')
      /\ {startLock', lockOld', broken'} \subseteq BOOLEAN
  BY ReturnedEnds
<1>2. RecordOK'
  BY <1>1, RecordStays DEF CmdEnds, OnlyCmd
<1>3. \A d \in Cmds : CommandFine(d)
  BY <1>1, EndIsFine, AllFine DEF CmdEnds
<1>4. DOMAIN servers \subseteq DOMAIN servers'
  BY DEF NoneStarts, OneStarts, SameServers
<1> QED
  BY <1>1, <1>2, <1>3, <1>4, DaemonKept
     DEF CmdEnds, OnlyCmd, DaemonInv, DaemonTypes, recordVars

LEMMA NothingStarts ==
  ASSUME DaemonTypes, UNCHANGED processVars
  PROVE  NoneStarts
BY DEF DaemonTypes, NoneStarts, SameServers, processVars, Up

\* The server of a record that is removed is gone, or the record was another's.
LEMMA RecordRemoved ==
  ASSUME DaemonInv, NEW c \in Cmds, NoneStarts, RemoveRecord(c, cmd[c].server),
         ~Up(cmd[c].server), reported' = reported, broken => broken',
         \A d \in Cmds : d # c => cmd'[d] = cmd[d], cmd'[c].at \notin {"write", "poll"}
  PROVE  RecordOK' /\ swept' \subseteq DOMAIN servers
<1>1. /\ SameServers /\ reported \subseteq DOMAIN servers
      /\ record' = Nothing /\ swept' = swept \cup ({record} \ {Nothing, cmd[c].server})
  BY DEF NoneStarts, DaemonInv, DaemonTypes, RemoveRecord
<1>2. \A i \in reported : servers'[i].at # "starting"
  BY <1>1 DEF DaemonInv, RecordOK, SameServers
<1>3. ASSUME ~broken' PROVE \A i \in reported \ swept' : ~Up(i) /\ ~Up(i)'
  <2>1. \A i \in reported \ swept' : i \notin swept /\ (Up(i) => record = i)
    BY <1>1, <1>3 DEF DaemonInv, RecordOK
  <2>2. \A i \in reported \ swept' : i # Nothing /\ (record = i => i = cmd[c].server)
    BY <1>1, ServersAre DEF DaemonInv
  <2> QED
    BY <1>1, <2>1, <2>2 DEF SameServers
<1>4. ASSUME ~broken', NEW d \in Cmds, cmd'[d].at = "poll"
      PROVE  servers'[cmd'[d].server].at = "gone" \/ cmd'[d].server \in swept'
  <2>1. cmd'[d] = cmd[d] /\ cmd[d].server \in DOMAIN servers
    BY <1>4 DEF DaemonInv, DaemonTypes, CommandOK
  <2>2. record = cmd[d].server \/ ~Up(cmd[d].server) \/ cmd[d].server \in swept
    BY <1>1, <1>4, <2>1 DEF DaemonInv, RecordOK
  <2>3. cmd[d].server # Nothing
    BY <2>1, ServersAre DEF DaemonInv
  <2>4. ~Up(cmd[d].server) \/ cmd[d].server \in swept'
    BY <1>1, <2>2, <2>3
  <2> QED
    BY <1>1, <2>1, <2>4 DEF SameServers, Up
<1> QED
  <2>1. swept' \subseteq DOMAIN servers
    BY <1>1 DEF DaemonInv, DaemonTypes
  <2> QED
    BY <1>1, <1>2, <1>3, <1>4, <2>1 DEF RecordOK, Up

LEMMA SweepInv ==
  ASSUME DaemonInv, NEW c \in Cmds, Sweep(c) \/ RemoveIt(c)
  PROVE  DaemonInv'
<1>1. /\ cmd[c].at \in {"sweep", "remove"} /\ RemoveRecord(c, cmd[c].server)
      /\ UNCHANGED <<processVars, reported>> /\ ~Up(cmd[c].server)
      /\ \/ cmd[c].at = "sweep" /\ cmd[c].kind = "start" /\ Go(c, "spawn") /\ UNCHANGED startLockVars
         \/ Returned(c)
  BY DEF Sweep, RemoveIt, At, DaemonInv, CommandOK
<1>2. NoneStarts
  BY <1>1, NothingStarts DEF DaemonInv
<1>3. /\ OnlyCmd(c) /\ cmd'[c].at \in {"none", "spawn"} /\ CommandFine(c) /\ LockIsHeld'
      /\ (broken => broken') /\ {startLock', lockOld', broken'} \subseteq BOOLEAN
  <2>1. CASE cmd[c].at = "sweep" /\ cmd[c].kind = "start" /\ Go(c, "spawn") /\ UNCHANGED startLockVars
    <3>1. CmdGoes(c, "spawn")
      BY <2>1, GoGoes, CommandStagesAre DEF DaemonInv
    <3>2. CommandFine(c)
      BY <1>2, <2>1, <3>1
         DEF CmdGoes, CommandFine, CommandOK, Signals, DaemonInv, DaemonTypes, NoneStarts
    <3>3. LockIsHeld'
      BY <2>1, <3>1, LockKept DEF CmdGoes, InStart
    <3> QED
      BY <2>1, <3>1, <3>2, <3>3 DEF CmdGoes, startLockVars, DaemonInv, DaemonTypes
  <2>2. CASE Returned(c)
    BY <2>2, ReturnedEnds, EndIsFine DEF CmdEnds
  <2> QED
    BY <1>1, <2>1, <2>2
<1>4. RecordOK' /\ swept' \subseteq DOMAIN servers
  BY <1>1, <1>2, <1>3, RecordRemoved DEF OnlyCmd
<1>5. \A d \in Cmds : CommandFine(d)
  BY <1>2, <1>3, AllFine
<1> QED
  BY <1>1, <1>2, <1>3, <1>4, <1>5, DaemonKept
     DEF OnlyCmd, NoneStarts, RemoveRecord, DaemonInv, DaemonTypes

\* A command that goes on, in a step that is otherwise quiet.
LEMMA GoKept ==
  ASSUME DaemonInv, NEW c \in Cmds, NEW s \in CommandStages, NoneStarts,
         CmdGoes(c, s), UNCHANGED <<recordVars, startLockVars, reported>>,
         CommandOK(c)', s = "signal" => cmd[c].force \/ (Confirmed(cmd[c].server) /\ UNCHANGED processVars),
         s \notin {"spawn", "write", "poll"}, InStart(c)' => InStart(c)
  PROVE  DaemonInv'
<1>1. Signals(c)
  BY DEF CmdGoes, Signals
<1>2. CommandFine(c) /\ OnlyCmd(c)
  BY <1>1 DEF CmdGoes, CommandFine, DaemonInv, DaemonTypes, NoneStarts
<1> QED
  BY <1>2, QuietCommand DEF CmdGoes

LEMMA QuitKept ==
  ASSUME DaemonInv, NEW c \in Cmds, Quits(c), NoneStarts,
         UNCHANGED <<recordVars, startLockVars, reported>>
  PROVE  DaemonInv'
<1>1. CmdEnds(c) /\ ~InStart(c)'
  BY QuitsEnds, StartsNot DEF DaemonInv
<1> QED
  BY <1>1, EndIsFine, QuietCommand DEF CmdEnds

LEMMA BeginsInv ==
  ASSUME DaemonInv, NEW c \in Cmds,
         \/ \E port \in Ports : BeginStart(c, port)
         \/ \E kind \in {"status", "stop"}, force \in BOOLEAN : BeginOther(c, kind, force)
  PROVE  DaemonInv'
<1>1. UNCHANGED <<recordVars, startLockVars, processVars, reported>>
  BY DEF BeginStart, BeginOther
<1>2. NoneStarts
  BY <1>1, NothingStarts DEF DaemonInv
<1>3. CASE \E port \in Ports : BeginStart(c, port)
  <2>1. PICK port \in Ports :
          cmd' = [cmd EXCEPT ![c] = [NoCommand EXCEPT !.kind = "start", !.at = "lock", !.port = port]]
    BY <1>3 DEF BeginStart
  <2> DEFINE fresh == [NoCommand EXCEPT !.kind = "start", !.at = "lock", !.port = port]
  <2>2. /\ fresh \in Command /\ fresh.kind = "start" /\ fresh.at = "lock" /\ fresh.port = port
        /\ fresh.server = Nothing
    BY DEF NoCommand, Command, Kinds, CommandStages
  <2>3. OnlyCmd(c) /\ cmd'[c] = fresh
    BY <2>1, <2>2 DEF OnlyCmd, DaemonInv, DaemonTypes
  <2>4. CommandFine(c) /\ ~InStart(c)' /\ cmd'[c].at = "lock"
    <3> HIDE DEF fresh
    <3> QED
      BY <2>2, <2>3 DEF CommandFine, CommandOK, Signals, InStart
  <2> QED
    BY <1>1, <1>2, <2>3, <2>4, QuietCommand
<1>4. CASE \E kind \in {"status", "stop"}, force \in BOOLEAN : BeginOther(c, kind, force)
  <2>1. PICK kind \in {"status", "stop"}, force \in BOOLEAN :
          /\ record # Nothing
          /\ cmd' = [cmd EXCEPT ![c] = [NoCommand EXCEPT !.kind = kind, !.at = "probe",
                                                        !.server = record, !.force = force]]
    BY <1>4 DEF BeginOther
  <2> DEFINE fresh == [NoCommand EXCEPT !.kind = kind, !.at = "probe", !.server = record, !.force = force]
  <2>2. record \in Nat \cup {Nothing} /\ record \in DOMAIN servers \cup {Nothing}
    BY ServersAre DEF DaemonInv, DaemonTypes
  <2>3. fresh \in Command /\ fresh.kind = kind /\ fresh.at = "probe" /\ fresh.server = record
    BY <2>2 DEF NoCommand, Command, Kinds, CommandStages
  <2>4. OnlyCmd(c) /\ cmd'[c] = fresh
    BY <2>1, <2>3 DEF OnlyCmd, DaemonInv, DaemonTypes
  <2>5. CommandFine(c) /\ ~InStart(c)' /\ cmd'[c].at = "probe"
    <3> HIDE DEF fresh
    <3> QED
      BY <1>2, <2>1, <2>2, <2>3, <2>4 DEF CommandFine, CommandOK, Signals, InStart, NoneStarts
  <2> QED
    BY <1>1, <1>2, <2>4, <2>5, QuietCommand
<1> QED
  BY <1>3, <1>4

\* acquireMCPLock.
LEMMA LockInv ==
  ASSUME DaemonInv, NEW c \in Cmds, MakeLock(c) \/ StatLock(c) \/ BreakLock(c)
  PROVE  DaemonInv'
<1>1. /\ UNCHANGED <<recordVars, processVars, reported>>
      /\ cmd[c].at \in {"lock", "relock", "stat", "restat", "break", "rebreak"}
      /\ cmd[c].kind = "start" /\ CommandOK(c)
  BY DEF MakeLock, StatLock, BreakLock, DaemonInv, CommandOK
<1>2. NoneStarts
  BY <1>1, NothingStarts DEF DaemonInv
<1>3. CASE Quits(c) /\ UNCHANGED startLockVars
  BY <1>1, <1>2, <1>3, QuitKept
<1>4. ASSUME NEW s \in {"stat", "restat", "break", "rebreak"}, Go(c, s), UNCHANGED startLockVars
      PROVE  DaemonInv'
  <2>1. CmdGoes(c, s)
    BY <1>4, GoGoes, CommandStagesAre DEF DaemonInv
  <2>2. CommandOK(c)' /\ ~InStart(c)'
    BY <1>1, <2>1 DEF CmdGoes, CommandOK, InStart
  <2> QED
    BY <1>1, <1>2, <1>4, <2>1, <2>2, GoKept, CommandStagesAre
<1>5. CASE ~startLock /\ startLock' = TRUE /\ lockOld' = FALSE /\ UNCHANGED broken /\ Go(c, "read")
  <2>1. CmdGoes(c, "read") /\ OnlyCmd(c)
    BY <1>5, GoGoes, CommandStagesAre DEF DaemonInv, CmdGoes
  <2>2. CommandFine(c)
    BY <1>1, <1>2, <2>1
       DEF CmdGoes, CommandFine, CommandOK, Signals, DaemonInv, DaemonTypes, NoneStarts
  <2>3. LockIsHeld'
    BY <1>5, <2>1 DEF DaemonInv, LockIsHeld, OnlyCmd, InStart
  <2>4. RecordOK'
    BY <1>1, <1>2, <1>5, <2>1, RecordStays DEF CmdGoes, OnlyCmd
  <2> QED
    BY <1>1, <1>2, <1>5, <2>1, <2>2, <2>3, <2>4, AllFine, DaemonKept
       DEF OnlyCmd, DaemonInv, DaemonTypes, recordVars, NoneStarts
<1>6. CASE BreakLock(c)
  <2>1. CmdGoes(c, "relock") \/ CmdEnds(c)
    BY <1>6, GoGoes, QuitsEnds, CommandStagesAre DEF BreakLock, DaemonInv
  <2>2. OnlyCmd(c) /\ ~InStart(c)' /\ cmd'[c].at \in {"relock", "none"}
    BY <2>1 DEF CmdGoes, CmdEnds, InStart
  <2>3. CommandFine(c)
    BY <1>1, <1>2, <2>1, EndIsFine
       DEF CmdGoes, CommandFine, CommandOK, Signals, DaemonInv, DaemonTypes, NoneStarts
  <2>4. LockIsHeld' /\ (broken => broken') /\ {startLock', lockOld', broken'} \subseteq BOOLEAN
    BY <1>6, <2>2, LockRemoved DEF BreakLock
  <2>5. RecordOK'
    BY <1>1, <1>2, <2>2, <2>4, RecordStays DEF OnlyCmd
  <2> QED
    BY <1>1, <1>2, <2>2, <2>3, <2>4, <2>5, AllFine, DaemonKept
       DEF OnlyCmd, DaemonInv, DaemonTypes, recordVars, NoneStarts
<1> QED
  BY <1>3, <1>4, <1>5, <1>6 DEF MakeLock, StatLock

\* The commands that look.
LEMMA LooksInv ==
  ASSUME DaemonInv, NEW c \in Cmds,
         \/ Probe(c) \/ CheckAlive(c) \/ WaitForExit(c) \/ Unrecord(c) \/ CommandDies(c)
  PROVE  DaemonInv'
<1>1. UNCHANGED <<recordVars, processVars, reported>> /\ CommandOK(c) /\ DaemonTypes
  BY DEF Probe, CheckAlive, WaitForExit, Unrecord, CommandDies, DaemonInv
<1>2. NoneStarts
  BY <1>1, NothingStarts
<1>3. CASE Returned(c)
  BY <1>1, <1>2, <1>3, ReturnKept
<1>4. CASE Quits(c) /\ UNCHANGED startLockVars
  BY <1>1, <1>2, <1>4, QuitKept
<1>5. ASSUME NEW s \in {"alive", "signal", "sweep", "unrecord", "remove"}, Go(c, s),
             UNCHANGED startLockVars, cmd[c].at \in {"probe", "alive", "wait", "unrecord"},
             s \in {"sweep", "unrecord", "remove"} => ~Up(cmd[c].server),
             s = "signal" => cmd[c].force \/ Confirmed(cmd[c].server)
      PROVE  DaemonInv'
  <2>1. CmdGoes(c, s)
    BY <1>1, <1>5, GoGoes, CommandStagesAre
  <2>2. CommandOK(c)'
    BY <1>1, <1>2, <1>5, <2>1 DEF CmdGoes, CommandOK, NoneStarts, SameServers, DaemonTypes, Up, processVars
  <2>3. InStart(c)' => InStart(c)
    BY <1>5, <2>1 DEF CmdGoes, InStart
  <2> QED
    BY <1>1, <1>2, <1>5, <2>1, <2>2, <2>3, GoKept, CommandStagesAre
<1>6. CASE Probe(c)
  BY <1>3, <1>5, <1>6 DEF Probe, At
<1>7. CASE CheckAlive(c)
  <2>1. cmd[c].at = "alive" /\ cmd[c].server \in DOMAIN servers
    BY <1>1, <1>7 DEF CheckAlive, At, CommandOK, DaemonTypes
  <2>2. servers[cmd[c].server].pid \notin RunningPids => ~Up(cmd[c].server)
    BY <2>1 DEF RunningPids, PidsOf, Up
  <2> QED
    BY <1>3, <1>5, <1>7, <2>1, <2>2 DEF CheckAlive, Refuses
<1>8. CASE WaitForExit(c)
  <2>1. cmd[c].at = "wait" /\ cmd[c].server \in DOMAIN servers /\ UNCHANGED startLockVars
    BY <1>1, <1>8 DEF WaitForExit, At, CommandOK, DaemonTypes
  <2>2. servers[cmd[c].server].pid \notin RunningPids => ~Up(cmd[c].server)
    BY <2>1 DEF RunningPids, PidsOf, Up
  <2> QED
    BY <1>4, <1>5, <1>8, <2>1, <2>2 DEF WaitForExit
<1>9. CASE Unrecord(c)
  <2>1. cmd[c].at = "unrecord" /\ ~Up(cmd[c].server)
    BY <1>1, <1>9 DEF Unrecord, At, CommandOK
  <2> QED
    BY <1>3, <1>5, <1>9, <2>1 DEF Unrecord
<1>10. CASE CommandDies(c)
  BY <1>4, <1>10 DEF CommandDies
<1> QED
  BY <1>6, <1>7, <1>8, <1>9, <1>10

\* A start that reads, spawns, records and waits.
LEMMA StartGoes ==
  ASSUME DaemonInv, NEW c \in Cmds, NEW s \in {"spawn", "write", "poll", "probe"}, NoneStarts \/ OneStarts,
         OnlyCmd(c), cmd'[c].at = s, cmd'[c].kind = cmd[c].kind, cmd'[c].port = cmd[c].port,
         cmd'[c].server \in DOMAIN servers' \cup {Nothing},
         s # "spawn" => cmd'[c].server # Nothing,
         cmd[c].at \in {"read", "spawn", "write"}, UNCHANGED startLockVars, RecordOK',
         record' \in DOMAIN servers' \cup {Nothing}, UNCHANGED <<swept, reported>>
  PROVE  DaemonInv'
<1>1. CommandOK(c) /\ cmd[c].kind = "start"
  BY DEF DaemonInv, CommandOK
<1>2. CommandFine(c)
  BY <1>1 DEF CommandFine, CommandOK, Signals
<1>3. LockIsHeld'
  BY <1>1, LockKept DEF InStart
<1>4. DOMAIN servers \subseteq DOMAIN servers'
  BY DEF NoneStarts, OneStarts, SameServers
<1> QED
  BY <1>2, <1>3, <1>4, AllFine, DaemonKept DEF OnlyCmd, DaemonInv, DaemonTypes, startLockVars

\* No other start is at its server or its record.
LEMMA OneStart ==
  ASSUME DaemonInv, NEW c \in Cmds, cmd[c].at \in {"read", "spawn", "write", "poll"}, ~broken
  PROVE  \A d \in Cmds \ {c} : cmd[d].at \notin {"spawn", "write", "poll"}
BY DEF DaemonInv, CommandOK, LockIsHeld, InStart

LEMMA ReadInv ==
  ASSUME DaemonInv, NEW c \in Cmds, ReadRecord(c)
  PROVE  DaemonInv'
<1> DEFINE s == IF record = Nothing THEN "spawn" ELSE "probe"
<1>1. /\ cmd[c].at = "read" /\ UNCHANGED <<recordVars, startLockVars, processVars, reported>>
      /\ cmd' = [cmd EXCEPT ![c].server = record, ![c].at = s]
  BY DEF ReadRecord, At
<1>2. NoneStarts /\ record \in Nat \cup {Nothing} /\ s \in CommandStages
  BY <1>1, NothingStarts, ServersAre, CommandStagesAre DEF DaemonInv, DaemonTypes
<1>3. /\ OnlyCmd(c) /\ cmd'[c].at = s /\ cmd'[c].kind = cmd[c].kind /\ cmd'[c].server = record
      /\ cmd'[c].port = cmd[c].port
  <2> HIDE DEF s
  <2> QED
    BY <1>1, <1>2 DEF OnlyCmd, DaemonInv, DaemonTypes, Command
<1>4. RecordOK'
  <2>1. SameServers /\ reported \subseteq DOMAIN servers /\ UNCHANGED <<record, swept, broken, reported, servers>>
    BY <1>1, <1>2 DEF NoneStarts, DaemonInv, DaemonTypes, recordVars, startLockVars, processVars
  <2>2. \A i \in reported : i # Nothing
    BY <2>1, ServersAre DEF DaemonInv
  <2> QED
    BY <1>3, <2>1, <2>2 DEF RecordOK, DaemonInv, OnlyCmd, Up
<1> QED
  BY <1>1, <1>2, <1>3, <1>4, StartGoes
     DEF DaemonInv, DaemonTypes, NoneStarts, recordVars, startLockVars

LEMMA SpawnInv ==
  ASSUME DaemonInv, NEW c \in Cmds, Spawn(c)
  PROVE  DaemonInv'
<1>1. /\ cmd[c].at = "spawn" /\ UNCHANGED <<recordVars, others, reported>>
      /\ cmd[c].port \in Ports
  BY DEF Spawn, At, DaemonInv, CommandOK
<1>2. CASE Returned(c) /\ UNCHANGED servers
  BY <1>1, <1>2, NothingStarts, ReturnKept DEF processVars, DaemonInv
<1>3. CASE /\ NewServer(cmd[c].port) /\ UNCHANGED startLockVars
           /\ cmd' = [cmd EXCEPT ![c].server = Len(servers) + 1, ![c].at = "write"]
  <2>1. OneStarts /\ Len(servers) + 1 \in Nat /\ Len(servers) + 1 # Nothing
    BY <1>1, <1>3, ServerStarts, ServersAre, NothingIsNoServer DEF DaemonInv
  <2>2. /\ OnlyCmd(c) /\ cmd'[c].at = "write" /\ cmd'[c].kind = cmd[c].kind
        /\ cmd'[c].server = Len(servers) + 1 /\ cmd'[c].port = cmd[c].port
    BY <1>3, <2>1, CommandStagesAre DEF OnlyCmd, DaemonInv, DaemonTypes, Command
  <2>3. Len(servers) + 1 \in DOMAIN servers'
    BY <1>3, ServersAre DEF NewServer, DaemonInv, DaemonTypes
  <2>4. RecordOK'
    <3>1. SameServers /\ reported \subseteq DOMAIN servers
      BY <2>1 DEF OneStarts, DaemonInv, DaemonTypes
    <3>2. UNCHANGED <<record, swept, broken, reported>>
      BY <1>1, <1>3 DEF recordVars, startLockVars
    <3>3. \A d \in Cmds : cmd[d].at = "poll" => cmd[d].server \in DOMAIN servers
      BY DEF DaemonInv, DaemonTypes, CommandOK
    <3> QED
      BY <1>1, <2>2, <3>1, <3>2, <3>3 DEF RecordOK, DaemonInv, OnlyCmd, SameServers
  <2> QED
    BY <1>1, <1>3, <2>1, <2>2, <2>3, <2>4, StartGoes
       DEF DaemonInv, DaemonTypes, OneStarts, SameServers, recordVars
<1> QED
  BY <1>2, <1>3 DEF Spawn

LEMMA WriteInv ==
  ASSUME DaemonInv, NEW c \in Cmds, WriteRecord(c)
  PROVE  DaemonInv'
<1>1. /\ cmd[c].at = "write" /\ UNCHANGED <<swept, others, reported>>
      /\ cmd[c].server \in DOMAIN servers /\ cmd[c].server # Nothing /\ DaemonTypes
  BY DEF WriteRecord, At, DaemonInv, DaemonTypes, CommandOK
<1>2. CASE /\ servers' = [servers EXCEPT ![cmd[c].server].at = "gone"]
           /\ Returned(c) /\ UNCHANGED record
  <2>1. "gone" \in States \ {"starting"}
    BY DEF States
  <2>2. NoneStarts
    BY <1>1, <1>2, <2>1, StateChanges
  <2> QED
    BY <1>1, <1>2, <2>2, ReturnKept DEF recordVars
<1>3. CASE record' = cmd[c].server /\ Go(c, "poll") /\ UNCHANGED <<servers, startLockVars>>
  <2>1. CmdGoes(c, "poll") /\ NoneStarts
    BY <1>1, <1>3, GoGoes, CommandStagesAre, NothingStarts DEF processVars
  <2>2. RecordOK'
    <3>1. UNCHANGED <<servers, swept, broken, reported>>
      BY <1>1, <1>3 DEF startLockVars
    <3>2. ASSUME ~broken
          PROVE  /\ \A i \in reported \ swept : ~Up(i)
                 /\ \A d \in Cmds \ {c} : cmd'[d].at # "poll"
      BY <1>1, <2>1, <3>2, OneStart DEF DaemonInv, RecordOK, CmdGoes, OnlyCmd
    <3>3. cmd'[c].server = record' /\ cmd'[c].at = "poll"
      BY <1>3, <2>1 DEF CmdGoes
    <3> QED
      BY <3>1, <3>2, <3>3 DEF RecordOK, DaemonInv, Up
  <2> QED
    BY <1>1, <1>3, <2>1, <2>2, StartGoes DEF CmdGoes, DaemonTypes
<1> QED
  BY <1>2, <1>3 DEF WriteRecord

LEMMA PollInv ==
  ASSUME DaemonInv, NEW c \in Cmds, Poll(c)
  PROVE  DaemonInv'
<1>1. /\ cmd[c].at = "poll" /\ UNCHANGED <<recordVars, processVars>>
      /\ cmd[c].server \in DOMAIN servers /\ CommandOK(c) /\ DaemonTypes
  BY DEF Poll, At, DaemonInv, DaemonTypes, CommandOK
<1>2. NoneStarts
  BY <1>1, NothingStarts
<1>3. ASSUME NEW s \in {"unrecord", "kill"}, Go(c, s), UNCHANGED <<startLockVars, reported>>,
             s = "unrecord" => ~Up(cmd[c].server)
      PROVE  DaemonInv'
  <2>1. CmdGoes(c, s)
    BY <1>1, <1>3, GoGoes, CommandStagesAre
  <2>2. CommandOK(c)'
    BY <1>1, <1>2, <1>3, <2>1 DEF CmdGoes, CommandOK, NoneStarts, SameServers
  <2>3. InStart(c)
    BY <1>1 DEF CommandOK, InStart
  <2> QED
    BY <1>1, <1>2, <1>3, <2>1, <2>2, <2>3, GoKept, CommandStagesAre
<1>4. CASE /\ Confirmed(cmd[c].server) /\ Returned(c)
           /\ reported' = reported \cup {cmd[c].server}
  <2>1. /\ CmdEnds(c) /\ LockIsHeld' /\ (broken => broken')
        /\ {startLock', lockOld', broken'} \subseteq BOOLEAN
    BY <1>4, ReturnedEnds
  <2>2. servers[cmd[c].server].at = "listening"
    BY <1>4 DEF Confirmed, Listening
  <2>3. UNCHANGED <<record, swept, servers>>
    BY <1>1 DEF recordVars, processVars
  <2>4. RecordOK'
    <3>1. \A i \in reported' : servers'[i].at # "starting"
      BY <1>4, <2>2, <2>3 DEF DaemonInv, RecordOK
    <3>2. ASSUME ~broken'
          PROVE  /\ \A i \in reported' \ swept : Up(i) => record = i
                 /\ \A d \in Cmds : cmd'[d].at \notin {"spawn", "write", "poll"}
      <4>1. \A d \in Cmds \ {c} : cmd[d].at \notin {"spawn", "write", "poll"}
        BY <1>1, <2>1, <3>2, OneStart
      <4>2. record = cmd[c].server \/ cmd[c].server \in swept
        BY <1>1, <2>1, <2>2, <2>3, <3>2 DEF DaemonInv, RecordOK, Up
      <4> QED
        BY <1>4, <2>1, <2>3, <3>2, <4>1, <4>2 DEF DaemonInv, RecordOK, CmdEnds, OnlyCmd
    <3> QED
      BY <2>3, <3>1, <3>2 DEF RecordOK, Up
  <2>5. \A d \in Cmds : CommandFine(d)
    BY <1>2, <2>1, EndIsFine, AllFine DEF CmdEnds
  <2> QED
    BY <1>1, <1>2, <1>4, <2>1, <2>3, <2>4, <2>5, DaemonKept
       DEF CmdEnds, OnlyCmd, DaemonTypes, NoneStarts
<1> QED
  BY <1>3, <1>4 DEF Poll, Up

LEMMA KillInv ==
  ASSUME DaemonInv, NEW c \in Cmds, KillChild(c)
  PROVE  DaemonInv'
<1>1. /\ cmd[c].at = "kill" /\ UNCHANGED <<recordVars, startLockVars, others, reported>>
      /\ cmd[c].server \in DOMAIN servers /\ cmd[c].kind = "start" /\ DaemonTypes
      /\ servers' = [servers EXCEPT ![cmd[c].server].at = "gone"] /\ Go(c, "unrecord")
  BY DEF KillChild, At, DaemonInv, DaemonTypes, CommandOK
<1>2. "gone" \in States \ {"starting"}
  BY DEF States
<1>3. NoneStarts
  BY <1>1, <1>2, StateChanges
<1>4. CmdGoes(c, "unrecord")
  BY <1>1, GoGoes, CommandStagesAre
<1>5. servers'[cmd[c].server].at = "gone" /\ cmd[c].server # Nothing
  BY <1>1, ServersAre DEF Server
<1>6. CommandOK(c)'
  BY <1>1, <1>4, <1>5 DEF CmdGoes, CommandOK, Up, DaemonInv
<1> QED
  BY <1>1, <1>3, <1>4, <1>6, GoKept, CommandStagesAre DEF InStart

LEMMA SignalInv ==
  ASSUME DaemonInv, NEW c \in Cmds, Signal(c)
  PROVE  DaemonInv'
<1> DEFINE pid == servers[cmd[c].server].pid
           hit == {i \in DOMAIN servers : pid \in PidsOf(i)}
<1>1. /\ cmd[c].at = "signal" /\ UNCHANGED <<recordVars, startLockVars, reported>>
      /\ others' \subseteq others /\ DaemonTypes /\ CommandOK(c)
      /\ servers' = [i \in DOMAIN servers |->
                        [servers[i] EXCEPT !.at = IF i \in hit THEN "stopping" ELSE servers[i].at]]
      /\ Go(c, "wait") \/ Quits(c)
  BY DEF Signal, At, DaemonInv
<1>2. \A i \in hit : Up(i)
  BY DEF PidsOf, Up
<1>3. NoneStarts
  <2> HIDE DEF hit
  <2>1. servers' \in [DOMAIN servers -> Server]
    BY <1>1, ServersAre DEF Server, States
  <2>2. servers' \in Seq(Server) /\ DOMAIN servers' = DOMAIN servers
    BY <1>1, <2>1, ServersAre
  <2>3. ASSUME NEW i \in DOMAIN servers
        PROVE  /\ servers'[i].pid = servers[i].pid /\ servers'[i].port = servers[i].port
               /\ servers'[i].at = IF i \in hit THEN "stopping" ELSE servers[i].at
    BY <1>1, ServersAre DEF Server
  <2> QED
    BY <1>1, <1>2, <2>2, <2>3 DEF NoneStarts, SameServers, Up
<1>4. CASE Quits(c)
  BY <1>1, <1>3, <1>4, QuitKept
<1>5. CASE Go(c, "wait")
  <2>1. CmdGoes(c, "wait")
    BY <1>1, <1>5, GoGoes, CommandStagesAre
  <2>2. CommandOK(c)' /\ (InStart(c)' => InStart(c))
    BY <1>1, <2>1 DEF CmdGoes, CommandOK, InStart
  <2> QED
    BY <1>1, <1>3, <2>1, <2>2, GoKept, CommandStagesAre
<1> QED
  BY <1>1, <1>4, <1>5

LEMMA ProcessesInv ==
  ASSUME DaemonInv,
         \/ \E i \in DOMAIN servers : Listen(i) \/ ServerExits(i)
         \/ \E port \in Ports : RunForeground(port)
         \/ \E pid \in Pids : OtherProgram(pid)
         \/ LockAges \/ UNCHANGED daemonVars
  PROVE  DaemonInv'
<1>1. /\ UNCHANGED <<recordVars, startLock, broken, cmd, reported>> /\ DaemonTypes /\ lockOld' \in BOOLEAN
  BY DEF Listen, ServerExits, RunForeground, OtherProgram, LockAges, daemonVars, startLockVars, DaemonInv, DaemonTypes
<1>2. NoneStarts \/ OneStarts
  <2>1. ASSUME NEW i \in DOMAIN servers, Listen(i) \/ ServerExits(i)
        PROVE  NoneStarts
    <3>1. PICK s \in {"listening", "gone"} :
            servers' = [servers EXCEPT ![i].at = s] /\ others' = others /\ servers[i].at # "gone"
      BY <2>1 DEF Listen, ServerExits
    <3>2. s \in States \ {"starting"}
      BY DEF States
    <3> QED
      BY <1>1, <3>1, <3>2, StateChanges
  <2>2. ASSUME NEW port \in Ports, RunForeground(port)
        PROVE  OneStarts
    BY <1>1, <2>2, ServerStarts DEF RunForeground
  <2>3. ASSUME NEW pid \in Pids, OtherProgram(pid)
        PROVE  NoneStarts \/ OneStarts
    <3>1. servers' = servers /\ SameServers
      BY <1>1, <2>3 DEF OtherProgram, SameServers, DaemonTypes, Up
    <3> QED
      BY <2>3, <3>1 DEF OtherProgram, NoneStarts, OneStarts
  <2>4. CASE LockAges \/ UNCHANGED daemonVars
    BY <1>1, <2>4, NothingStarts DEF LockAges, daemonVars
  <2> QED
    BY <2>1, <2>2, <2>3, <2>4
<1>3. \A c \in Cmds : CommandFine(c)
  BY <1>1, <1>2, IdleFine
<1>4. LockIsHeld'
  BY <1>1 DEF DaemonInv, LockIsHeld, InStart
<1>5. RecordOK'
  BY <1>1, <1>2, RecordStays
<1>6. DOMAIN servers \subseteq DOMAIN servers'
  BY <1>2 DEF NoneStarts, OneStarts, SameServers
<1> QED
  BY <1>1, <1>2, <1>3, <1>4, <1>5, <1>6, DaemonKept DEF DaemonTypes, recordVars

LEMMA RebootInv ==
  ASSUME DaemonInv, Reboot
  PROVE  DaemonInv'
<1>1. /\ UNCHANGED <<recordVars, startLockVars, reported>> /\ DaemonTypes /\ others' = {}
      /\ servers' = [i \in DOMAIN servers |-> [servers[i] EXCEPT !.at = "gone"]]
      /\ cmd' = [c \in Cmds |-> NoCommand]
  BY DEF Reboot, DaemonInv
<1>2. NoneStarts
  <2>1. servers' \in [DOMAIN servers -> Server]
    BY <1>1, ServersAre DEF Server, States
  <2>2. servers' \in Seq(Server) /\ DOMAIN servers' = DOMAIN servers
    BY <1>1, <2>1, ServersAre
  <2>3. ASSUME NEW i \in DOMAIN servers
        PROVE  /\ servers'[i].pid = servers[i].pid /\ servers'[i].port = servers[i].port
               /\ servers'[i].at = "gone"
    BY <1>1, ServersAre DEF Server
  <2> QED
    BY <1>1, <2>2, <2>3 DEF NoneStarts, SameServers, Up
<1>3. /\ NoCommand \in Command /\ NoCommand.at = "none" /\ NoCommand.kind = "none"
      /\ NoCommand.server = Nothing
  BY DEF NoCommand, Command, Kinds, CommandStages
<1>4. \A c \in Cmds : CommandFine(c) /\ ~InStart(c)' /\ cmd'[c].at = "none"
  BY <1>1, <1>3 DEF CommandFine, CommandOK, Signals, InStart
<1>5. RecordOK'
  BY <1>1, <1>2, <1>4, RecordStays DEF startLockVars
<1>6. LockIsHeld'
  BY <1>4 DEF LockIsHeld
<1>7. cmd' \in [Cmds -> Command]
  BY <1>1, <1>3
<1> QED
  BY <1>1, <1>2, <1>4, <1>5, <1>6, <1>7, DaemonKept
     DEF DaemonTypes, NoneStarts, recordVars, startLockVars

LEMMA DaemonNextInv == DaemonInv /\ [DaemonNext]_daemonVars => DaemonInv'
<1> SUFFICES ASSUME DaemonInv, [DaemonNext]_daemonVars PROVE DaemonInv'
  OBVIOUS
<1>1. CASE UNCHANGED daemonVars
  BY <1>1, ProcessesInv
<1>2. CASE \/ \E i \in DOMAIN servers : Listen(i) \/ ServerExits(i)
           \/ \E port \in Ports : RunForeground(port)
           \/ \E pid \in Pids : OtherProgram(pid)
           \/ LockAges
  BY <1>2, ProcessesInv
<1>3. CASE Reboot
  BY <1>3, RebootInv
<1>4. ASSUME NEW c \in Cmds,
             \/ \E port \in Ports : BeginStart(c, port)
             \/ \E kind \in {"status", "stop"}, force \in BOOLEAN : BeginOther(c, kind, force)
      PROVE  DaemonInv'
  BY <1>4, BeginsInv
<1>5. ASSUME NEW c \in Cmds,
             \/ MakeLock(c) \/ StatLock(c) \/ BreakLock(c)
             \/ ReadRecord(c) \/ Probe(c) \/ CheckAlive(c) \/ Sweep(c)
             \/ Spawn(c) \/ WriteRecord(c) \/ Poll(c) \/ KillChild(c)
             \/ Signal(c) \/ WaitForExit(c) \/ Unrecord(c) \/ RemoveIt(c)
             \/ CommandDies(c)
      PROVE  DaemonInv'
  BY <1>5, LockInv, ReadInv, LooksInv, SweepInv, SpawnInv, WriteInv, PollInv, KillInv, SignalInv
<1> QED
  BY <1>1, <1>2, <1>3, <1>4, <1>5 DEF DaemonNext

\* Without --force, no terminal ever signals a process but the server its
\* record names, however the process numbers are given out again, but not
\* while a command has the record's in hand (FreshPids; mcpStopCmd).
THEOREM StopsOwn == DaemonSpec => []StopsItsOwn
<1>1. DaemonInv => StopsItsOwn
  BY DEF DaemonInv
<1> QED
  BY <1>1, DaemonInitInv, DaemonNextInv, PTL DEF DaemonSpec

\* A detached server that was reported and runs is the one the record names,
\* whatever the commands, servers and reboots, unless a status or a stop that
\* had read the record before this server's removed it, or some start's lock
\* was removed as stale while that start waited for its server
\* (startDetached).
THEOREM Recorded == DaemonSpec => []ServersAreRecorded
<1>1. DaemonInv => ServersAreRecorded
  BY DEF DaemonInv, RecordOK, ServersAreRecorded, Up
<1> QED
  BY <1>1, DaemonInitInv, DaemonNextInv, PTL DEF DaemonSpec

-----------------------------------------------------------------------------
(* The audit log.                                                          *)

WriterStages ==
  {"rest", "stat", "unmark", "mark", "check", "rename", "release", "open", "write"}

AuditTypes ==
  /\ size \in Seq(Nat) /\ log \in DOMAIN size \cup {0}
  /\ marker \in BOOLEAN /\ expired \in BOOLEAN /\ robbed \in BOOLEAN
  /\ writer \in [Writers -> [at : WriterStages, file : Nat]]
  /\ \A w \in Writers : writer[w].at = "write" => writer[w].file \in DOMAIN size

\* A rotation has the marker to itself, and goes on with the log it found full.
RotationIsAlone ==
  ~robbed => \A w \in Writers : Rotating(w) =>
    /\ marker /\ \A v \in Writers : Rotating(v) => v = w
    /\ writer[w].at = "rename" => log # 0 /\ StillFull

AuditInv == AuditTypes /\ RotationIsAlone

LEMMA AuditInitInv == AuditInit => AuditInv
<1> SUFFICES ASSUME AuditInit PROVE AuditInv
  OBVIOUS
<1>1. Resting \in [at : WriterStages, file : Nat] /\ Resting.at = "rest"
  BY DEF Resting, WriterStages
<1>2. <<>> \in Seq(Nat)
  OBVIOUS
<1> QED
  BY <1>1, <1>2 DEF AuditInit, AuditInv, AuditTypes, RotationIsAlone, Rotating

OnlyWriter(w) ==
  /\ writer' \in [Writers -> [at : WriterStages, file : Nat]]
  /\ \A v \in Writers \ {w} : writer'[v] = writer[v]

LEMMA WriterGoes ==
  ASSUME AuditTypes, NEW w \in Writers, NEW from, NEW to \in WriterStages, Goes(w, from, to)
  PROVE  OnlyWriter(w) /\ writer[w].at = from /\ writer'[w].at = to
BY DEF AuditTypes, Goes, OnlyWriter

LEMMA WriterStagesAre ==
  {"rest", "stat", "unmark", "mark", "check", "rename", "release", "open", "write"}
    \subseteq WriterStages
BY DEF WriterStages

\* Every step keeps the invariant, and what it moves to .1 is more than half full.
LEMMA AuditStep ==
  ASSUME AuditInv, [AuditNext]_auditVars
  PROVE  AuditInv' /\ (old' # old /\ ~robbed => 2 * SizeOf(old') > MaxBytes)
<1>1. AuditTypes /\ RotationIsAlone
  BY DEF AuditInv
<1>2. CASE UNCHANGED auditVars
  BY <1>1, <1>2 DEF auditVars, markerVars, AuditInv, AuditTypes, RotationIsAlone, Rotating, StillFull, SizeOf
\* A writer that keeps the marker and the names and is not about to rename.
<1>3. ASSUME NEW w \in Writers, OnlyWriter(w), UNCHANGED <<size, log, old, markerVars>>,
             writer'[w].at \notin {"rename", "write"}, Rotating(w)' => Rotating(w)
      PROVE  AuditInv' /\ old' = old
  <2>1. AuditTypes'
    BY <1>1, <1>3 DEF AuditTypes, OnlyWriter, markerVars
  <2>2. RotationIsAlone'
    BY <1>1, <1>3 DEF RotationIsAlone, OnlyWriter, markerVars, Rotating, StillFull, SizeOf
  <2> QED
    BY <1>3, <2>1, <2>2 DEF AuditInv
\* A writer that is not rotating and removes the marker, or stops.
<1>4. ASSUME NEW w \in Writers, OnlyWriter(w), UNCHANGED <<size, log, old>>, RemoveMarker(w),
             writer'[w].at \in {"mark", "open"}
      PROVE  AuditInv' /\ old' = old
  <2>1. AuditTypes'
    BY <1>1, <1>4 DEF AuditTypes, OnlyWriter, RemoveMarker
  <2>2. ~robbed' => \A v \in Writers : ~Rotating(v)'
    BY <1>4 DEF OnlyWriter, RemoveMarker, Rotating
  <2> QED
    BY <1>4, <2>1, <2>2 DEF AuditInv, RotationIsAlone
<1>5. ASSUME NEW w \in Writers, Append1(w) \/ StatMarker(w)
      PROVE  AuditInv' /\ old' = old
  <2>1. UNCHANGED <<size, log, old, markerVars>> /\ \E from \in {"rest", "stat"}, to \in {"stat", "open", "unmark", "mark"} : Goes(w, from, to)
    BY <1>5 DEF Append1, StatMarker
  <2>2. OnlyWriter(w) /\ writer'[w].at \in {"stat", "open", "unmark", "mark"}
    BY <1>1, <2>1, WriterGoes, WriterStagesAre
  <2> QED
    BY <1>3, <2>1, <2>2 DEF Rotating
<1>6. ASSUME NEW w \in Writers, Unmark(w) \/ Release(w)
      PROVE  AuditInv' /\ old' = old
  <2>1. /\ UNCHANGED <<size, log, old>> /\ RemoveMarker(w)
        /\ \E from \in {"unmark", "release"}, to \in {"mark", "open"} : Goes(w, from, to)
    BY <1>6 DEF Unmark, Release
  <2>2. OnlyWriter(w) /\ writer'[w].at \in {"mark", "open"}
    BY <1>1, <2>1, WriterGoes, WriterStagesAre
  <2> QED
    BY <1>4, <2>1, <2>2
<1>7. ASSUME NEW w \in Writers, Mark(w)
      PROVE  AuditInv' /\ old' = old
  <2>1. CASE Goes(w, "mark", "open") /\ UNCHANGED <<size, log, old, markerVars>>
    <3>1. OnlyWriter(w) /\ writer'[w].at = "open"
      BY <1>1, <2>1, WriterGoes, WriterStagesAre
    <3> QED
      BY <1>3, <2>1, <3>1 DEF Rotating
  <2>2. CASE ~marker /\ Goes(w, "mark", "check") /\ marker' = TRUE /\ UNCHANGED <<size, log, old, expired, robbed>>
    <3>1. OnlyWriter(w) /\ writer'[w].at = "check"
      BY <1>1, <2>2, WriterGoes, WriterStagesAre
    <3>2. AuditTypes'
      BY <1>1, <2>2, <3>1 DEF AuditTypes, OnlyWriter
    <3>3. RotationIsAlone'
      BY <1>1, <2>2, <3>1 DEF RotationIsAlone, OnlyWriter, Rotating
    <3> QED
      BY <2>2, <3>2, <3>3 DEF AuditInv
  <2> QED
    BY <1>7, <2>1, <2>2 DEF Mark
<1>8. ASSUME NEW w \in Writers, Check(w)
      PROVE  AuditInv' /\ old' = old
  <2>1. CASE Goes(w, "check", "release") /\ UNCHANGED <<size, log, old, markerVars>>
    <3>1. OnlyWriter(w) /\ writer[w].at = "check" /\ writer'[w].at = "release"
      BY <1>1, <2>1, WriterGoes, WriterStagesAre
    <3> QED
      BY <1>3, <2>1, <3>1 DEF Rotating
  <2>2. CASE Goes(w, "check", "rename") /\ log # 0 /\ StillFull /\ UNCHANGED <<size, log, old, markerVars>>
    <3>1. OnlyWriter(w) /\ writer[w].at = "check" /\ writer'[w].at = "rename"
      BY <1>1, <2>2, WriterGoes, WriterStagesAre
    <3>2. AuditTypes'
      BY <1>1, <2>2, <3>1 DEF AuditTypes, OnlyWriter, markerVars
    <3>3. RotationIsAlone'
      BY <1>1, <2>2, <3>1 DEF RotationIsAlone, OnlyWriter, Rotating, markerVars, StillFull, SizeOf
    <3> QED
      BY <2>2, <3>2, <3>3 DEF AuditInv
  <2> QED
    BY <1>8, <2>1, <2>2 DEF Check
<1>9. ASSUME NEW w \in Writers, Rotate(w)
      PROVE  AuditInv' /\ (old' # old /\ ~robbed => 2 * SizeOf(old') > MaxBytes)
  <2>1. /\ OnlyWriter(w) /\ writer[w].at = "rename" /\ writer'[w].at = "release"
        /\ UNCHANGED <<size, markerVars>> /\ old' \in {old, log} /\ log' \in {log, 0}
    BY <1>1, <1>9, WriterGoes, WriterStagesAre DEF Rotate
  <2>2. AuditTypes'
    BY <1>1, <2>1 DEF AuditTypes, OnlyWriter, markerVars
  <2>3. RotationIsAlone'
    BY <1>1, <2>1 DEF RotationIsAlone, OnlyWriter, Rotating, markerVars
  <2>4. old' # old /\ ~robbed => 2 * SizeOf(old') > MaxBytes
    BY <1>1, <2>1 DEF RotationIsAlone, Rotating, StillFull
  <2> QED
    BY <2>2, <2>3, <2>4 DEF AuditInv
<1>10. ASSUME NEW w \in Writers, Open(w)
      PROVE  AuditInv' /\ old' = old
  <2>1. /\ writer[w].at = "open" /\ UNCHANGED <<old, markerVars>>
        /\ writer' = [writer EXCEPT ![w] = [at |-> "write", file |-> log']]
    BY <1>10 DEF Open
  <2>2. /\ size' \in Seq(Nat) /\ log' \in DOMAIN size' /\ log' \in Nat
        /\ DOMAIN size \subseteq DOMAIN size'
        /\ (log # 0 => log' = log /\ size' = size)
    <3>1. size \in Seq(Nat) /\ log \in DOMAIN size \cup {0}
      BY <1>1 DEF AuditTypes
    <3>2. CASE log # 0
      <4>1. log' = log /\ size' = size
        BY <1>10, <3>2 DEF Open
      <4> QED
        BY <3>1, <3>2, <4>1
    <3>3. CASE log = 0
      <4>1. size' = Append(size, 0) /\ log' = Len(size) + 1
        BY <1>10, <3>3 DEF Open
      <4>2. size' \in Seq(Nat) /\ DOMAIN size' = 1 .. Len(size) + 1 /\ DOMAIN size = 1 .. Len(size)
        BY <3>1, <4>1
      <4>3. Len(size) \in Nat
        BY <3>1
      <4> QED
        BY <3>3, <4>1, <4>2, <4>3
    <3> QED
      BY <3>2, <3>3
  <2>3. OnlyWriter(w) /\ writer'[w].at = "write" /\ writer'[w].file = log'
    BY <1>1, <2>1, <2>2 DEF OnlyWriter, AuditTypes, WriterStages
  <2>4. AuditTypes'
    BY <1>1, <2>1, <2>2, <2>3 DEF AuditTypes, OnlyWriter, markerVars
  <2>5. RotationIsAlone'
    BY <1>1, <2>1, <2>2, <2>3 DEF RotationIsAlone, OnlyWriter, Rotating, markerVars, StillFull, SizeOf
  <2> QED
    BY <2>1, <2>4, <2>5 DEF AuditInv
<1>11. ASSUME NEW w \in Writers, Write(w)
      PROVE  AuditInv' /\ old' = old
  <2> DEFINE f == writer[w].file
             n == IF size[f] = MaxBytes THEN size[f] ELSE size[f] + 1
  <2>1. /\ writer[w].at = "write" /\ f \in DOMAIN size /\ UNCHANGED <<log, old, markerVars>>
        /\ size' = [size EXCEPT ![f] = n] /\ writer' = [writer EXCEPT ![w] = Resting]
    BY <1>1, <1>11 DEF Write, AuditTypes
  <2>2. n \in Nat /\ n >= size[f]
    BY <1>1, <2>1 DEF AuditTypes
  <2>3. /\ size' \in Seq(Nat) /\ DOMAIN size' = DOMAIN size
        /\ \A g \in DOMAIN size : size'[g] >= size[g]
    <3> HIDE DEF n, f
    <3> QED
      BY <1>1, <2>1, <2>2 DEF AuditTypes
  <2>4. Resting \in [at : WriterStages, file : Nat] /\ Resting.at = "rest"
    BY DEF Resting, WriterStages
  <2>5. OnlyWriter(w) /\ writer'[w].at = "rest"
    BY <1>1, <2>1, <2>4 DEF OnlyWriter, AuditTypes
  <2>6. AuditTypes'
    BY <1>1, <2>1, <2>3, <2>5 DEF AuditTypes, OnlyWriter, markerVars
  <2>7. StillFull /\ log # 0 => StillFull'
    BY <1>1, <2>1, <2>3, BytesAreCounted DEF StillFull, SizeOf, AuditTypes
  <2>8. RotationIsAlone'
    BY <1>1, <2>1, <2>5, <2>7 DEF RotationIsAlone, OnlyWriter, Rotating, markerVars
  <2> QED
    BY <2>1, <2>6, <2>8 DEF AuditInv
<1>12. ASSUME NEW w \in Writers, ServerDies(w)
      PROVE  AuditInv' /\ old' = old
  <2>1. Resting \in [at : WriterStages, file : Nat] /\ Resting.at = "rest"
    BY DEF Resting, WriterStages
  <2>2. UNCHANGED <<size, log, old, markerVars>> /\ OnlyWriter(w) /\ writer'[w].at = "rest"
    BY <1>1, <1>12, <2>1 DEF ServerDies, OnlyWriter, AuditTypes
  <2> QED
    BY <1>3, <2>2 DEF Rotating
<1>13. CASE MarkerExpires
  <2>1. /\ UNCHANGED <<size, log, old, marker, robbed, writer>> /\ expired' = TRUE
        /\ \A w \in Writers : ~Rotating(w)
    BY <1>13 DEF MarkerExpires
  <2> QED
    BY <1>1, <2>1 DEF AuditInv, AuditTypes, RotationIsAlone, Rotating
<1> QED
  BY <1>2, <1>5, <1>6, <1>7, <1>8, <1>9, <1>10, <1>11, <1>12, <1>13 DEF AuditNext

\* What becomes the history is more than half a full log, for any number of
\* servers and any size of the log, unless a server removed the marker of
\* another's rotation, having found a crashed one's old (rotate).
THEOREM HistoryKept == AuditSpec => HistoryIsKept
<1>1. AuditInv /\ [AuditNext]_auditVars =>
        AuditInv' /\ [old' # old /\ ~robbed => 2 * SizeOf(old') > MaxBytes]_auditVars
  BY AuditStep
<1> QED
  BY <1>1, AuditInitInv, PTL DEF AuditSpec, HistoryIsKept

-----------------------------------------------------------------------------
(* The app's updates: which release.                                       *)

LEMMA MaxIsThere ==
  ASSUME NEW S \in SUBSET Nat, IsFiniteSet(S), S # {}
  PROVE  Max(S) \in S /\ \A y \in S : Max(S) >= y
<1> DEFINE Above(y) == {x \in S : x > y}
           T == {Above(y) : y \in S}
<1>1. T \subseteq FiniteSubsetsOf(S) /\ T # {}
  <2>1. \A y \in S : Above(y) \in SUBSET S
    OBVIOUS
  <2>2. \A y \in S : IsFiniteSet(Above(y))
    BY <2>1, FS_Subset
  <2> HIDE DEF Above
  <2> QED
    BY <2>1, <2>2 DEF FiniteSubsetsOf
<1>2. PICK A \in T : \A B \in T : <<B, A>> \notin StrictSubsetOrdering(S)
  <2> HIDE DEF T
  <2>1. IsWellFoundedOn(StrictSubsetOrdering(S), FiniteSubsetsOf(S))
    BY FS_StrictSubsetOrderingWellFounded
  <2> QED
    BY <1>1, <2>1, WFMin
<1>3. PICK y \in S : A = Above(y)
  OBVIOUS
<1>4. \A x \in S : y >= x
  <2> SUFFICES ASSUME NEW x \in S, x > y PROVE FALSE
    OBVIOUS
  <2>1. x \in Nat /\ y \in Nat /\ \A z \in S : z \in Nat
    OBVIOUS
  <2>2. \A z \in S : z > x => z > y
    BY <2>1
  <2>3. Above(x) \subseteq Above(y) /\ x \in Above(y) /\ x \notin Above(x)
    <3>1. Above(x) \subseteq Above(y)
      BY <2>2, Zenon
    <3>2. x \in Above(y)
      BY Zenon
    <3>3. ~(x > x)
      BY <2>1
    <3>4. x \notin Above(x)
      BY <3>3, Zenon
    <3> QED
      BY <3>1, <3>2, <3>4
  <2>4. Above(x) \in T
    OBVIOUS
  <2>5. <<Above(x), Above(y)>> \in StrictSubsetOrdering(S)
    <3>1. Above(x) \in SUBSET S /\ Above(y) \in SUBSET S /\ Above(x) # Above(y)
      BY <2>3
    <3> HIDE DEF Above
    <3> QED
      BY <2>3, <3>1 DEF StrictSubsetOrdering
  <2> QED
    BY <1>2, <1>3, <2>4, <2>5
<1> QED
  BY <1>4 DEF Max

ReleasesOK == releases \subseteq [v : Releases, flagged : BOOLEAN]

\* newest is 0 or a release that qualifies, and none that qualifies is newer.
LEMMA NewestIs ==
  ASSUME ReleasesOK, NEW cur, NEW stable \in BOOLEAN
  PROVE  /\ \/ newest(releases, cur, stable) = 0
            \/ \E r \in releases : Qualifies(r, cur, stable) /\ newest(releases, cur, stable) = r.v
         /\ newest(releases, cur, stable) \in Releases \cup {0}
         /\ \A r \in releases : Qualifies(r, cur, stable) => newest(releases, cur, stable) >= r.v
<1> DEFINE S == {0} \cup {r.v : r \in {x \in releases : Qualifies(x, cur, stable)}}
<1>1. \A r \in releases : r.v \in Releases
  BY DEF ReleasesOK
<1>2. S \in SUBSET ({0} \cup Releases)
  BY <1>1
<1>3. IsFiniteSet({0} \cup Releases)
  BY ReleasesAreNumbers, FS_Union, FS_Singleton
<1>4. IsFiniteSet(S) /\ S \in SUBSET Nat /\ S # {}
  <2>1. IsFiniteSet(S)
    BY <1>2, <1>3, FS_Subset
  <2>2. {0} \cup Releases \subseteq Nat
    BY ReleasesAreNumbers
  <2>3. 0 \in S
    OBVIOUS
  <2> HIDE DEF S
  <2> QED
    BY <1>2, <2>1, <2>2, <2>3
<1>5. Max(S) \in S /\ \A y \in S : Max(S) >= y
  <2> HIDE DEF S
  <2> QED
    BY <1>4, MaxIsThere
<1>6. newest(releases, cur, stable) = Max(S)
  BY DEF newest
<1>7. \A r \in releases : Qualifies(r, cur, stable) => r.v \in S
  OBVIOUS
<1>8. Max(S) = 0 \/ \E r \in releases : Qualifies(r, cur, stable) /\ Max(S) = r.v
  BY <1>5
<1> HIDE DEF S
<1> QED
  BY <1>2, <1>5, <1>6, <1>7, <1>8

LEMMA FindIs ==
  ASSUME ReleasesOK, NEW cur
  PROVE  Find(releases, cur) \in Releases \cup {0}
BY NewestIs DEF Find, NewestInstallable

\* What the running app offers is what Find picks, or it is a prerelease.
LEMMA OfferIsFound ==
  ASSUME ReleasesOK, NEW cur \in Releases,
         Offer(releases, cur) # 0, Offer(releases, cur) \notin Pre
  PROVE  Find(releases, cur) = Offer(releases, cur)
<1> DEFINE stable == newest(releases, cur, TRUE)
           any    == newest(releases, cur, FALSE)
<1>1. /\ cur \in Nat /\ stable \in Nat /\ any \in Nat
  <2>1. stable \in Releases \cup {0} /\ any \in Releases \cup {0}
    BY NewestIs, Zenon
  <2> HIDE DEF stable, any
  <2> QED
    BY <2>1, ReleasesAreNumbers
<1>2. CASE stable > cur
  BY <1>2 DEF Offer, Find, NewestInstallable
<1>3. CASE ~(stable > cur)
  <2>1. any > cur /\ Offer(releases, cur) = any
    BY <1>3 DEF Offer
  <2>2. PICK r \in releases : Qualifies(r, cur, FALSE) /\ any = r.v
    BY <1>1, <2>1, NewestIs
  <2>3. Qualifies(r, cur, TRUE)
    BY <2>1, <2>2 DEF Qualifies
  <2>4. stable >= any
    BY <2>2, <2>3, NewestIs
  <2> HIDE DEF stable, any
  <2> QED
    BY <1>1, <1>3, <2>1, <2>4
<1> QED
  BY <1>2, <1>3

-----------------------------------------------------------------------------
(* The app's updates: the copy that is replaced.                           *)

Copies == [v : Releases, whole : BOOLEAN] \cup {NoApp}
Steps == {"none", "planned", "clear", "copy", "copying", "check", "aside", "place",
          "stale", "setup", "setting", "done", "failed", "clean"}
Installer == [at : Steps, plan : Releases \cup {0}, had : Copies]

AppTypes ==
  /\ goos \in {"darwin", "windows"}
  /\ ReleasesOK /\ {app, new, spare} \subseteq Copies /\ running \in Releases \cup {0}
  /\ inst \in [Installers -> Installer]
  /\ \A i \in Installers : inst[i].at # "none" => inst[i].plan \in Releases

\* Where the copy found and the new one are, for each stage of an installer.
CopiesOf(i) ==
  /\ inst[i].at \in {"clear", "copy", "copying", "check", "aside", "place"} => goos = "darwin"
  /\ inst[i].at \in {"stale", "setup", "setting"} => goos = "windows"
  /\ inst[i].at \in {"clear", "copy", "copying", "check", "aside", "stale"} => app = inst[i].had
  /\ inst[i].at \in {"aside", "place"} => new = Copy(inst[i].plan)
  /\ inst[i].at \in {"place", "setup"} => app = NoApp
  /\ inst[i].at \in {"place", "setup", "setting"} /\ inst[i].had # NoApp => spare = inst[i].had
  /\ inst[i].at = "setting" => app = Half(inst[i].plan)
  /\ inst[i].at = "failed" /\ inst[i].had # NoApp => inst[i].had \in {app, spare}
  /\ inst[i].at \in {"done", "clean"} => app = Copy(inst[i].plan)
  /\ goos = "darwin" /\ inst[i].had # NoApp => inst[i].had.whole

\* One works on the copy, and a bundle is whole.
CopiesOK ==
  ~met =>
    /\ \A i \in Working : CopiesOf(i) /\ \A j \in Working : j = i
    /\ goos = "darwin" /\ app # NoApp => app.whole

AppInv == AppTypes /\ CopiesOK

\* What is in place is whole, but while a setup writes it; and a whole copy is
\* there.
OwnedOK ==
  /\ owned /\ app # NoApp => app.whole \/ \E i \in Installers : inst[i].at = "setting"
  /\ owned /\ ~met => \E c \in {app, spare} : c # NoApp /\ c.whole

LEMMA CopiesAre ==
  /\ \A v \in Releases : {Copy(v), Half(v)} \subseteq Copies \ {NoApp} /\ Copy(v).whole
  /\ NoApp \in Copies
<1>1. \A v \in Releases : Copy(v) \in [v : Releases, whole : BOOLEAN] /\ Copy(v).whole
  BY DEF Copy
<1>2. \A v \in Releases : Half(v) \in [v : Releases, whole : BOOLEAN]
  BY DEF Half
<1> QED
  BY <1>1, <1>2, NoAppIsNoCopy DEF Copies

LEMMA FreeIs ==
  Free \in Installer /\ Free.at = "none"
BY DEF Free, Installer, Steps, Copies

LEMMA AppInitInv == AppInit => AppInv
<1> SUFFICES ASSUME AppInit PROVE AppInv
  OBVIOUS
<1>1. \A i \in Installers : inst[i] = Free
  BY DEF AppInit
<1>2. AppTypes
  BY <1>1, FreeIs, CopiesAre DEF AppInit, AppTypes, ReleasesOK
<1>3. Working = {}
  BY <1>1, FreeIs DEF Working
<1>4. app # NoApp => app.whole
  BY CopiesAre DEF AppInit
<1> QED
  BY <1>2, <1>3, <1>4 DEF AppInv, CopiesOK

OnlyInst(i) ==
  inst' \in [Installers -> Installer] /\ \A j \in Installers \ {i} : inst'[j] = inst[j]

GoesOn(i, s) ==
  /\ OnlyInst(i) /\ inst'[i].at = s
  /\ inst'[i].plan = inst[i].plan /\ inst'[i].had = inst[i].had

LEMMA MovesOn ==
  ASSUME AppTypes, NEW i \in Installers, NEW s \in Steps, Moves(i, s)
  PROVE  GoesOn(i, s)
BY DEF AppTypes, Moves, GoesOn, OnlyInst, Installer

LEMMA FreesIt ==
  ASSUME AppTypes, NEW i \in Installers, Frees(i)
  PROVE  OnlyInst(i) /\ inst'[i].at = "none"
<1>1. inst' = [inst EXCEPT ![i] = Free] /\ inst \in [Installers -> Installer]
  BY DEF AppTypes, Frees
<1> QED
  BY <1>1, FreeIs DEF OnlyInst

LEMMA StepsAre ==
  {"none", "planned", "clear", "copy", "copying", "check", "aside", "place",
   "stale", "setup", "setting", "done", "failed", "clean"} \subseteq Steps
BY DEF Steps

\* A step of the one installer that works.
LEMMA WorkKept ==
  ASSUME AppInv, NEW i \in Installers, OnlyInst(i), Meets(i), UNCHANGED <<goos, releases>>,
         running' \in Releases \cup {0}, {app', new', spare'} \subseteq Copies,
         inst'[i].plan = inst[i].plan, inst[i].at # "none",
         ~met => CopiesOf(i)' /\ (goos = "darwin" /\ app' # NoApp => app'.whole)
  PROVE  AppInv'
<1>1. AppTypes'
  BY DEF AppInv, AppTypes, ReleasesOK, OnlyInst
<1>2. ASSUME ~met' PROVE ~met /\ Working' \subseteq {i}
  <2>1. ~met /\ Working \ {i} = {}
    BY <1>2 DEF Meets
  <2> QED
    BY <2>1 DEF Working, OnlyInst
<1> QED
  BY <1>1, <1>2 DEF AppInv, CopiesOK

\* A step that leaves the copies alone.
LEMMA CopiesKept ==
  ASSUME AppInv, NEW i \in Installers, OnlyInst(i), UNCHANGED <<goos, app, new, spare>>,
         ReleasesOK', running' \in Releases \cup {0}, met => met',
         inst'[i].at # "none" => inst'[i].plan \in Releases,
         ~met' /\ i \in Working' => i \in Working /\ CopiesOf(i)'
  PROVE  AppInv'
<1>1. AppTypes'
  BY DEF AppInv, AppTypes, OnlyInst
<1>2. Working' \subseteq Working \cup {i}
  BY DEF Working, OnlyInst
<1>3. \A j \in Working \ {i} : CopiesOf(j) => CopiesOf(j)'
  BY DEF Working, OnlyInst, CopiesOf
<1> QED
  BY <1>1, <1>2, <1>3 DEF AppInv, CopiesOK

\* The step leaves nothing of the installer behind.
LEMMA EndKept ==
  ASSUME AppInv, NEW i \in Installers, Frees(i), UNCHANGED <<goos, releases, app, new, spare>>,
         running' \in Releases \cup {0}, met => met'
  PROVE  AppInv'
<1>1. OnlyInst(i) /\ inst'[i].at = "none"
  BY FreesIt DEF AppInv
<1>2. i \notin Working'
  BY <1>1 DEF Working
<1> QED
  BY <1>1, <1>2, CopiesKept DEF AppInv, AppTypes, ReleasesOK

LEMMA PlansInv ==
  ASSUME AppInv, NEW i \in Installers, NEW cur,
         LET v == Find(releases, cur)
         IN  v # 0 /\ inst' = [inst EXCEPT ![i] = [at |-> "planned", plan |-> v, had |-> app]],
         UNCHANGED <<goos, releases, app, new, spare, running, met>>
  PROVE  AppInv'
<1> DEFINE v == Find(releases, cur)
           planned == [at |-> "planned", plan |-> v, had |-> app]
<1>1. v \in Releases
  BY FindIs DEF AppInv, AppTypes
<1>2. planned \in Installer /\ planned.at = "planned" /\ planned.plan = v
  <2> HIDE DEF v
  <2> QED
    BY <1>1 DEF Installer, Steps, AppInv, AppTypes
<1>3. OnlyInst(i) /\ inst'[i] = planned
  <2> HIDE DEF planned
  <2>1. inst' = [inst EXCEPT ![i] = planned]
    BY DEF planned
  <2> QED
    BY <1>2, <2>1 DEF OnlyInst, AppInv, AppTypes
<1>4. i \notin Working' /\ inst'[i].plan \in Releases
  <2> HIDE DEF planned
  <2> QED
    BY <1>1, <1>2, <1>3 DEF Working
<1> QED
  BY <1>3, <1>4, CopiesKept DEF AppInv, AppTypes, ReleasesOK

LEMMA ApplyInv ==
  ASSUME AppInv, NEW i \in Installers, Apply(i)
  PROVE  AppInv'
<1> DEFINE s == IF goos = "darwin" THEN "clear" ELSE "stale"
<1>1. /\ inst[i].at = "planned" /\ Meets(i)
      /\ UNCHANGED <<goos, releases, app, new, spare, running>>
      /\ inst' = [inst EXCEPT ![i].at = s, ![i].had = app]
  BY DEF Apply, Where
<1>2. s \in Steps /\ app \in Copies
  BY StepsAre DEF AppInv, AppTypes
<1>3. OnlyInst(i) /\ inst'[i].at = s /\ inst'[i].had = app /\ inst'[i].plan = inst[i].plan
  <2> HIDE DEF s
  <2> QED
    BY <1>1, <1>2 DEF OnlyInst, AppInv, AppTypes, Installer
<1>4. CASE goos = "darwin"
  <2>1. ~met => CopiesOf(i)' /\ (app # NoApp => app.whole)
    BY <1>1, <1>3, <1>4 DEF CopiesOf, AppInv, CopiesOK
  <2> QED
    BY <1>1, <1>3, <2>1, WorkKept DEF AppInv, AppTypes
<1>5. CASE goos # "darwin"
  <2>1. CopiesOf(i)'
    BY <1>1, <1>3, <1>5 DEF CopiesOf, AppInv, AppTypes
  <2> QED
    BY <1>1, <1>3, <1>5, <2>1, WorkKept DEF AppInv, AppTypes
<1> QED
  BY <1>4, <1>5

\* applyDarwin.
LEMMA DarwinInv ==
  ASSUME AppInv, NEW i \in Installers,
         \/ ClearNew(i) \/ CopyBegins(i) \/ CopyEnds(i) \/ CheckNew(i) \/ SwapOut(i) \/ Place(i)
  PROVE  AppInv'
<1>1. /\ Meets(i) /\ UNCHANGED <<goos, releases, running>>
      /\ inst[i].at \in {"clear", "copy", "copying", "check", "aside", "place"}
      /\ AppTypes /\ inst[i].plan \in Releases /\ inst[i].had \in Copies
  BY DEF ClearNew, CopyBegins, CopyEnds, CheckNew, SwapOut, Place, Where, AppInv, AppTypes, Installer
<1>2. /\ running \in Releases \cup {0} /\ {app, new, spare} \subseteq Copies
      /\ Copy(inst[i].plan) \in Copies \ {NoApp} /\ Half(inst[i].plan) \in Copies
      /\ Copy(inst[i].plan).whole /\ NoApp \in Copies
  BY <1>1, CopiesAre DEF AppTypes
<1>3. ~met => CopiesOf(i) /\ (goos = "darwin" /\ app # NoApp => app.whole)
  BY <1>1 DEF AppInv, CopiesOK, Working
<1>4. ASSUME NEW s \in {"copy", "copying", "check", "aside", "place", "done", "failed"},
             Moves(i, s), {app', new', spare'} \subseteq Copies,
             ~met => CopiesOf(i)' /\ (goos = "darwin" /\ app' # NoApp => app'.whole)
      PROVE  AppInv'
  <2>1. GoesOn(i, s)
    BY <1>1, <1>4, MovesOn, StepsAre
  <2> QED
    BY <1>1, <1>2, <1>4, <2>1, WorkKept DEF GoesOn
<1>5. CASE ClearNew(i)
  <2>1. PICK s \in {"copy", "failed"} :
          inst[i].at = "clear" /\ new' \in {new, NoApp} /\ Moves(i, s) /\ UNCHANGED <<app, spare>>
    BY <1>5 DEF ClearNew, Where
  <2>2. GoesOn(i, s)
    BY <1>1, <2>1, MovesOn, StepsAre
  <2>3. CopiesOf(i) => CopiesOf(i)'
    BY <1>1, <2>1, <2>2 DEF GoesOn, CopiesOf
  <2>4. {app', new', spare'} \subseteq Copies
    BY <1>2, <2>1
  <2> QED
    BY <1>1, <1>2, <1>3, <1>4, <2>1, <2>3, <2>4
<1>6. CASE CopyBegins(i)
  <2>1. /\ inst[i].at = "copy" /\ new' = Half(inst[i].plan) /\ Moves(i, "copying") /\ UNCHANGED <<app, spare>>
    BY <1>6 DEF CopyBegins, Where
  <2>2. GoesOn(i, "copying")
    BY <1>1, <2>1, MovesOn, StepsAre
  <2>3. CopiesOf(i) => CopiesOf(i)'
    BY <1>1, <2>1, <2>2 DEF GoesOn, CopiesOf
  <2> QED
    BY <1>1, <1>2, <1>3, <1>4, <2>1, <2>3
<1>7. ASSUME inst[i].at \in {"copying", "check", "aside"}, Fails(i), app' = app, spare' \in {spare, NoApp}
      PROVE  AppInv'
  <2>1. GoesOn(i, "failed") /\ new' = NoApp
    BY <1>1, <1>7, MovesOn, StepsAre DEF Fails
  <2>2. CopiesOf(i) => CopiesOf(i)'
    BY <1>1, <1>7, <2>1 DEF GoesOn, CopiesOf
  <2> QED
    BY <1>1, <1>2, <1>3, <1>4, <1>7, <2>1, <2>2 DEF Fails
<1>8. CASE CopyEnds(i)
  <2>1. inst[i].at = "copying" /\ UNCHANGED <<app, spare>>
    BY <1>8 DEF CopyEnds, Where
  <2>2. CASE new' = (IF new = Half(inst[i].plan) THEN Copy(inst[i].plan) ELSE new) /\ Moves(i, "check")
    <3>1. GoesOn(i, "check")
      BY <1>1, <2>2, MovesOn, StepsAre
    <3>2. CopiesOf(i) => CopiesOf(i)'
      BY <1>1, <2>1, <3>1 DEF GoesOn, CopiesOf
    <3>3. new' \in Copies
      BY <1>2, <2>2
    <3> QED
      BY <1>1, <1>2, <1>3, <1>4, <2>1, <2>2, <3>2, <3>3
  <2> QED
    BY <1>7, <1>8, <2>1, <2>2 DEF CopyEnds
<1>9. CASE CheckNew(i)
  <2>1. inst[i].at = "check" /\ UNCHANGED <<app, spare>>
    BY <1>9 DEF CheckNew, Where
  <2>2. CASE Sound(i) /\ Moves(i, "aside") /\ UNCHANGED new
    <3>1. GoesOn(i, "aside")
      BY <1>1, <2>2, MovesOn, StepsAre
    <3>2. CopiesOf(i) => CopiesOf(i)'
      BY <1>1, <2>1, <2>2, <3>1 DEF GoesOn, CopiesOf, Sound, Copy
    <3> QED
      BY <1>1, <1>2, <1>3, <1>4, <2>1, <2>2, <3>2
  <2> QED
    BY <1>7, <1>9, <2>1, <2>2 DEF CheckNew
<1>10. CASE SwapOut(i)
  <2>1. inst[i].at = "aside"
    BY <1>10 DEF SwapOut, Where
  <2>2. CASE /\ Moves(i, "place") /\ new' = new /\ app' = NoApp
             /\ \/ app = NoApp /\ spare' = spare
                \/ app # NoApp /\ spare' = app
    <3>1. GoesOn(i, "place")
      BY <1>1, <2>2, MovesOn, StepsAre
    <3>2. CopiesOf(i) => CopiesOf(i)'
      BY <1>1, <2>1, <2>2, <3>1 DEF GoesOn, CopiesOf, Copy
    <3> QED
      BY <1>1, <1>2, <1>3, <1>4, <2>2, <3>2
  <2> QED
    BY <1>7, <1>10, <2>1, <2>2 DEF SwapOut
<1>11. CASE Place(i)
  <2>1. inst[i].at = "place"
    BY <1>11 DEF Place, Where
  <2>2. CASE app' = new /\ new' = NoApp /\ Moves(i, "done") /\ UNCHANGED spare
    <3>1. GoesOn(i, "done")
      BY <1>1, <2>2, MovesOn, StepsAre
    <3>2. CopiesOf(i) => CopiesOf(i)' /\ app' = Copy(inst[i].plan)
      BY <1>1, <2>1, <2>2, <3>1 DEF GoesOn, CopiesOf, Copy
    <3> QED
      BY <1>1, <1>2, <1>3, <1>4, <2>2, <3>2
  <2>3. CASE /\ Fails(i)
             /\ \/ /\ inst[i].had # NoApp /\ spare # NoApp /\ app = NoApp
                   /\ app' = spare /\ spare' = NoApp
                \/ UNCHANGED <<app, spare>>
    <3>1. GoesOn(i, "failed") /\ new' = NoApp
      BY <1>1, <2>3, MovesOn, StepsAre DEF Fails
    <3>2. CopiesOf(i) => CopiesOf(i)' /\ (goos = "darwin" /\ app' # NoApp => app'.whole)
      BY <1>1, <2>1, <2>3, <3>1 DEF GoesOn, CopiesOf
    <3>3. {app', spare'} \subseteq Copies
      BY <1>2, <2>3
    <3> QED
      BY <1>1, <1>2, <1>3, <1>4, <2>3, <3>1, <3>2, <3>3 DEF Fails
  <2> QED
    BY <1>11, <2>2, <2>3 DEF Place
<1> QED
  BY <1>5, <1>6, <1>8, <1>9, <1>10, <1>11

\* applyWindows.
LEMMA WindowsInv ==
  ASSUME AppInv, NEW i \in Installers, SetAside(i) \/ SetupBegins(i) \/ SetupEnds(i)
  PROVE  AppInv'
<1>1. /\ Meets(i) /\ UNCHANGED <<goos, releases, running>>
      /\ inst[i].at \in {"stale", "setup", "setting"}
      /\ AppTypes /\ inst[i].plan \in Releases /\ inst[i].had \in Copies
  BY DEF SetAside, SetupBegins, SetupEnds, Where, AppInv, AppTypes, Installer
<1>2. /\ running \in Releases \cup {0} /\ {app, new, spare} \subseteq Copies
      /\ Copy(inst[i].plan) \in Copies \ {NoApp} /\ Half(inst[i].plan) \in Copies
      /\ Copy(inst[i].plan).whole /\ NoApp \in Copies
  BY <1>1, CopiesAre DEF AppTypes
<1>3. ~met => CopiesOf(i) /\ goos = "windows"
  BY <1>1 DEF AppInv, CopiesOK, Working, CopiesOf
<1>4. ASSUME NEW s \in {"setup", "setting", "done", "failed"},
             Moves(i, s), {app', new', spare'} \subseteq Copies,
             ~met => CopiesOf(i)'
      PROVE  AppInv'
  <2>1. GoesOn(i, s)
    BY <1>1, <1>4, MovesOn, StepsAre
  <2> QED
    BY <1>1, <1>2, <1>3, <1>4, <2>1, WorkKept DEF GoesOn
<1>5. CASE SetAside(i)
  <2>1. inst[i].at = "stale" /\ new' = NoApp
    BY <1>5 DEF SetAside, Where
  <2>2. CASE app = NoApp /\ Moves(i, "setup") /\ UNCHANGED <<app, spare>>
    <3>1. GoesOn(i, "setup")
      BY <1>1, <2>2, MovesOn, StepsAre
    <3>2. CopiesOf(i) => CopiesOf(i)'
      BY <1>1, <2>1, <2>2, <3>1 DEF GoesOn, CopiesOf
    <3> QED
      BY <1>1, <1>2, <1>3, <1>4, <2>1, <2>2, <3>2
  <2>3. CASE app # NoApp /\ spare' = app /\ app' = NoApp /\ Moves(i, "setup")
    <3>1. GoesOn(i, "setup")
      BY <1>1, <2>3, MovesOn, StepsAre
    <3>2. CopiesOf(i) => CopiesOf(i)'
      BY <1>1, <2>1, <2>3, <3>1 DEF GoesOn, CopiesOf
    <3> QED
      BY <1>1, <1>2, <1>3, <1>4, <2>1, <2>3, <3>2
  <2>4. CASE app # NoApp /\ spare' \in {spare, NoApp} /\ Moves(i, "failed") /\ UNCHANGED app
    <3>1. GoesOn(i, "failed")
      BY <1>1, <2>4, MovesOn, StepsAre
    <3>2. CopiesOf(i) => CopiesOf(i)'
      BY <1>1, <2>1, <2>4, <3>1 DEF GoesOn, CopiesOf
    <3>3. {app', new', spare'} \subseteq Copies
      BY <1>2, <2>1, <2>4
    <3> QED
      BY <1>1, <1>2, <1>3, <1>4, <2>1, <2>4, <3>2, <3>3
  <2> QED
    BY <1>5, <2>2, <2>3, <2>4 DEF SetAside
<1>6. CASE SetupBegins(i)
  <2>1. /\ inst[i].at = "setup" /\ app' = Half(inst[i].plan) /\ Moves(i, "setting")
        /\ UNCHANGED <<new, spare>>
    BY <1>6 DEF SetupBegins, Where
  <2>2. GoesOn(i, "setting")
    BY <1>1, <2>1, MovesOn, StepsAre
  <2>3. CopiesOf(i) /\ goos = "windows" => CopiesOf(i)'
    BY <1>1, <2>1, <2>2 DEF GoesOn, CopiesOf, Half
  <2> QED
    BY <1>1, <1>2, <1>3, <1>4, <2>1, <2>3
<1>7. CASE SetupEnds(i)
  <2>1. inst[i].at = "setting" /\ UNCHANGED new
    BY <1>7 DEF SetupEnds, Where
  <2>2. CASE app' = Copy(inst[i].plan) /\ Moves(i, "done") /\ UNCHANGED spare
    <3>1. GoesOn(i, "done")
      BY <1>1, <2>2, MovesOn, StepsAre
    <3>2. CopiesOf(i) => CopiesOf(i)'
      BY <1>1, <2>1, <2>2, <3>1 DEF GoesOn, CopiesOf, Copy
    <3> QED
      BY <1>1, <1>2, <1>3, <1>4, <2>1, <2>2, <3>2
  <2>3. CASE RestoreOld(i) /\ Moves(i, "failed")
    <3>1. GoesOn(i, "failed")
      BY <1>1, <2>3, MovesOn, StepsAre
    <3>2. CASE inst[i].had # NoApp /\ app' = spare /\ spare' = NoApp
      <4>1. CopiesOf(i) => CopiesOf(i)'
        BY <1>1, <2>1, <3>1, <3>2 DEF GoesOn, CopiesOf
      <4> QED
        BY <1>1, <1>2, <1>3, <1>4, <2>1, <2>3, <3>2, <4>1
    <3>3. CASE app' \in Leaves(i) /\ UNCHANGED spare
      <4>1. CopiesOf(i) => CopiesOf(i)'
        BY <1>1, <2>1, <3>1, <3>3 DEF GoesOn, CopiesOf
      <4>2. app' \in Copies
        BY <1>2, <3>3 DEF Leaves
      <4> QED
        BY <1>1, <1>2, <1>3, <1>4, <2>1, <2>3, <3>3, <4>1, <4>2
    <3> QED
      BY <2>3, <3>2, <3>3 DEF RestoreOld
  <2> QED
    BY <1>7, <2>2, <2>3 DEF SetupEnds
<1> QED
  BY <1>5, <1>6, <1>7

LEMMA AppStepInv == AppInv /\ [AppStep]_appVars => AppInv'
<1> SUFFICES ASSUME AppInv, [AppStep]_appVars PROVE AppInv'
  OBVIOUS
<1>1. ASSUME UNCHANGED <<goos, app, new, spare, inst, met>>, ReleasesOK', running' \in Releases \cup {0}
      PROVE  AppInv'
  <2>1. AppTypes'
    BY <1>1 DEF AppInv, AppTypes
  <2>2. Working' = Working /\ \A i \in Installers : CopiesOf(i) => CopiesOf(i)'
    BY <1>1 DEF Working, CopiesOf
  <2> QED
    BY <1>1, <2>1, <2>2 DEF AppInv, CopiesOK, Working
<1>2. CASE UNCHANGED appVars
  BY <1>1, <1>2 DEF appVars, AppInv, AppTypes, ReleasesOK
<1>3. ASSUME NEW v \in Releases, NEW f \in BOOLEAN, Publish(v, f)
      PROVE  AppInv'
  <2>1. ReleasesOK'
    BY <1>3 DEF Publish, AppInv, AppTypes, ReleasesOK
  <2> QED
    BY <1>1, <1>3, <2>1 DEF Publish, AppInv, AppTypes
<1>4. CASE OpenApp
  <2>1. app \in [v : Releases, whole : BOOLEAN]
    BY <1>4 DEF OpenApp, AppInv, AppTypes, Copies
  <2> QED
    BY <1>1, <1>4, <2>1 DEF OpenApp, AppInv, AppTypes, ReleasesOK
<1>5. CASE FfcPlans
  BY <1>5, PlansInv DEF FfcPlans, Installers
<1>6. CASE AppPlans
  BY <1>6, PlansInv DEF AppPlans, Installers
<1>7. ASSUME NEW i \in Installers, Declines(i) \/ Reports(i) \/ Dies(i)
      PROVE  AppInv'
  <2>1. /\ Frees(i) /\ UNCHANGED <<goos, releases, app, new, spare>> /\ (met => met')
        /\ running' \in Releases \cup {0}
    <3>1. Frees(i) /\ UNCHANGED <<goos, releases, app, new, spare>>
      BY <1>7 DEF Declines, Reports, Dies
    <3>2. met => met'
      BY <1>7 DEF Declines, Reports, Dies
    <3>3. running' \in {running, 0}
      BY <1>7 DEF Declines, Reports, Dies
    <3> QED
      BY <3>1, <3>2, <3>3 DEF AppInv, AppTypes
  <2> QED
    BY <2>1, EndKept
<1>8. CASE Relaunch
  <2>1. /\ "app" \in Installers /\ inst["app"].at = "done" /\ app # NoApp /\ running' = app.v
        /\ Moves("app", "clean") /\ UNCHANGED <<goos, releases, app, new, spare, met>>
    BY <1>8 DEF Relaunch, Where, Installers
  <2>2. GoesOn("app", "clean")
    BY <2>1, MovesOn, StepsAre DEF AppInv
  <2>3. app \in [v : Releases, whole : BOOLEAN]
    BY <2>1 DEF AppInv, AppTypes, Copies
  <2>4. inst["app"].plan \in Releases /\ "app" \in Working
    BY <2>1 DEF AppInv, AppTypes, Working
  <2>5. ~met => CopiesOf("app")'
    BY <2>1, <2>2, <2>4 DEF AppInv, CopiesOK, CopiesOf, GoesOn, Copy
  <2> QED
    BY <2>1, <2>2, <2>3, <2>4, <2>5, CopiesKept DEF GoesOn, AppInv, AppTypes, ReleasesOK
<1>9. CASE CleanupOld
  <2>1. /\ "app" \in Installers /\ inst["app"].at = "clean" /\ Meets("app")
        /\ new' = NoApp /\ spare' = NoApp /\ Frees("app") /\ UNCHANGED <<goos, releases, app, running>>
    BY <1>9 DEF CleanupOld, Where, Installers
  <2>2. OnlyInst("app") /\ inst'["app"].at = "none"
    BY <2>1, FreesIt DEF AppInv
  <2>3. AppTypes'
    BY <2>1, <2>2, CopiesAre DEF AppInv, AppTypes, ReleasesOK, OnlyInst
  <2>4. ~met' => ~met /\ Working' = {}
    <3>1. ~met' => ~met /\ Working \ {"app"} = {}
      BY <2>1 DEF Meets
    <3>2. \A i \in Working' : i # "app" /\ i \in Working
      BY <2>2 DEF Working, OnlyInst
    <3> QED
      BY <3>1, <3>2
  <2> QED
    BY <2>1, <2>3, <2>4 DEF AppInv, CopiesOK
<1>11. CASE RelaunchFails
  BY <1>11, EndKept DEF RelaunchFails, Installers, AppInv, AppTypes
<1>10. ASSUME NEW i \in Installers, InstallerNext(i)
       PROVE  AppInv'
  BY <1>7, <1>10, ApplyInv, DarwinInv, WindowsInv DEF InstallerNext
<1> QED
  BY <1>2, <1>3, <1>4, <1>5, <1>6, <1>8, <1>9, <1>10, <1>11 DEF AppStep

\* A step of an update keeps a whole copy, if the copies were as they should.
LEMMA OwnedStep ==
  ASSUME AppInv, OwnedOK, AppNext
  PROVE  OwnedOK'
<1>1. owned' = IF app' = NoApp THEN owned
               ELSE app'.whole \/ (owned /\ \E i \in Installers : inst'[i].at = "setting")
  BY DEF AppNext, Owns
<1>2. owned' /\ app' # NoApp => app'.whole \/ \E i \in Installers : inst'[i].at = "setting"
  BY <1>1
<1>3. ASSUME owned', ~met', app' = NoApp \/ ~app'.whole
      PROVE  \E c \in {app', spare'} : c # NoApp /\ c.whole
  <2>1. owned /\ ~met /\ AppStep
    <3>1. owned /\ AppStep
      BY <1>1, <1>3 DEF AppNext
    <3>2. met => met'
      BY <3>1 DEF AppStep, Publish, OpenApp, FfcPlans, AppPlans, Relaunch, RelaunchFails, CleanupOld,
                  InstallerNext, Declines, Apply, ClearNew, CopyBegins, CopyEnds, CheckNew, SwapOut,
                  Place, SetAside, SetupBegins, SetupEnds, Reports, Dies, Meets
    <3> QED
      BY <1>3, <3>1, <3>2
  <2>2. \E c \in {app, spare} : c # NoApp /\ c.whole
    BY <2>1 DEF OwnedOK
  <2>3. CASE UNCHANGED <<app, spare>>
    BY <2>2, <2>3
  <2>4. ASSUME NEW i \in Installers,
               SwapOut(i) \/ Place(i) \/ SetAside(i) \/ SetupBegins(i) \/ SetupEnds(i)
        PROVE  \E c \in {app', spare'} : c # NoApp /\ c.whole
    <3>1. /\ CopiesOf(i) /\ (goos = "darwin" /\ app # NoApp => app.whole)
          /\ inst[i].plan \in Releases /\ \A j \in Working : j = i
      BY <2>1, <2>4 DEF AppInv, CopiesOK, AppTypes, Working, Where,
                        SwapOut, Place, SetAside, SetupBegins, SetupEnds
    <3>2. Copy(inst[i].plan) # NoApp /\ Copy(inst[i].plan).whole
      BY <3>1, CopiesAre
    <3>3. CASE SwapOut(i)
      BY <2>2, <3>1, <3>3 DEF SwapOut, Where, CopiesOf
    <3>4. CASE Place(i)
      BY <2>2, <3>1, <3>2, <3>4 DEF Place, Where, CopiesOf
    <3>5. CASE SetAside(i)
      <4>1. app # NoApp => app.whole
        <5>1. \A j \in Installers : inst[j].at # "setting"
          BY <3>1, <3>5 DEF SetAside, Where, Working
        <5> QED
          BY <2>1, <5>1 DEF OwnedOK
      <4> QED
        BY <2>2, <3>5, <4>1 DEF SetAside
    <3>6. CASE SetupBegins(i)
      BY <2>2, <3>1, <3>6 DEF SetupBegins, Where, CopiesOf
    <3>7. CASE SetupEnds(i)
      <4>1. app = Half(inst[i].plan) /\ ~app.whole
        BY <3>1, <3>7 DEF SetupEnds, Where, CopiesOf, Half
      <4>2. spare # NoApp /\ spare.whole
        BY <2>2, <4>1
      <4> QED
        BY <3>2, <3>7, <4>2 DEF SetupEnds, RestoreOld
    <3> QED
      BY <2>4, <3>3, <3>4, <3>5, <3>6, <3>7
  <2>5. CASE CleanupOld
    <3>1. "app" \in Working /\ inst["app"].at = "clean" /\ app' = app
      BY <2>5 DEF CleanupOld, Where, Working, Installers
    <3>2. app = Copy(inst["app"].plan) /\ inst["app"].plan \in Releases
      BY <2>1, <3>1 DEF AppInv, CopiesOK, CopiesOf, AppTypes, Working
    <3> QED
      BY <3>1, <3>2, CopiesAre
  <2>6. \/ UNCHANGED <<app, spare>> \/ CleanupOld
        \/ \E i \in Installers :
             SwapOut(i) \/ Place(i) \/ SetAside(i) \/ SetupBegins(i) \/ SetupEnds(i)
    BY <2>1 DEF AppStep, Publish, OpenApp, FfcPlans, AppPlans, Relaunch, RelaunchFails,
                InstallerNext, Declines, Apply, ClearNew, CopyBegins, CopyEnds, CheckNew, Reports, Dies
  <2> QED
    BY <2>3, <2>4, <2>5, <2>6
<1> QED
  BY <1>2, <1>3 DEF OwnedOK

LEMMA AppNextInv == AppInv /\ OwnedOK /\ [AppNext]_appVars => AppInv' /\ OwnedOK'
<1> SUFFICES ASSUME AppInv, OwnedOK, [AppNext]_appVars PROVE AppInv' /\ OwnedOK'
  OBVIOUS
<1>1. AppInv'
  BY AppStepInv DEF AppNext
<1>2. CASE UNCHANGED appVars
  BY <1>1, <1>2 DEF appVars, OwnedOK
<1>3. CASE AppNext
  BY <1>1, <1>3, OwnedStep
<1> QED
  BY <1>2, <1>3

\* As long as no two updates work on the app at once and no Windows setup is
\* killed half way, a finished one leaves the new copy, whole, a failed one
\* the old, in its place or moved aside, and none, killed or not, leaves no
\* whole copy of an app that was installed; and what the app offers is what
\* Find then picks, for any list of releases.
THEOREM AllOrNone == AppSpec => []AllOrNothing
<1>1. AppInit => OwnedOK
  BY CopiesAre DEF AppInit, OwnedOK
<1>2. AppInv /\ OwnedOK => AllOrNothing
  <2> SUFFICES ASSUME AppInv, OwnedOK PROVE AllOrNothing
    OBVIOUS
  <2>1. \A cur \in Releases :
          LET v == Offer(releases, cur) IN v # 0 /\ v \notin Pre => Find(releases, cur) = v
    BY OfferIsFound DEF AppInv, AppTypes
  <2>2. ASSUME ~met, NEW i \in Installers
        PROVE  /\ Where(i, "done") => app = Copy(inst[i].plan)
               /\ Where(i, "failed") /\ inst[i].had # NoApp => inst[i].had \in {app, spare}
    BY <2>2 DEF AppInv, CopiesOK, CopiesOf, Working, Where
  <2> QED
    BY <2>1, <2>2 DEF AllOrNothing, AppInv, CopiesOK, OwnedOK
<1> QED
  BY <1>1, <1>2, AppInitInv, AppNextInv, PTL DEF AppSpec

-----------------------------------------------------------------------------
(* The lock of the config file.                                            *)

\* No process crashes, and so no lock grows stale.
Undisturbed == MaxCrashes = 0

\* Between taking the lock and making the edit.
Unmade == {"token", "read", "edit"}

\* The lock file is there exactly while one process holds it, it is that
\* process's own, no process finds it stale, and what the holder has read is
\* still what the file says.
ConfigInv ==
  /\ TypeOK
  /\ \A p \in Procs : pc[p] \in Holding => mine[p] # 0 /\ lock = mine[p]
  /\ \A p \in Procs : pc[p] \notin Holding => mine[p] = 0
  /\ lock # 0 => \E p \in Procs : mine[p] = lock
  /\ MutualExclusion
  /\ stale = {}
  /\ \A p \in Procs : pc[p] \notin {"break", "dead"}
  /\ lock <= takes
  /\ \A e \in made : e <= takes
  /\ \A p \in Procs : pc[p] \in Unmade => mine[p] \notin made
  /\ \A p \in Procs : pc[p] = "edit" => buf[p] \in {{}, file}

LEMMA ConfigInitInv == Init => ConfigInv
  BY BoundsAreNat DEF Init, ConfigInv, TypeOK, MutualExclusion, Waiting, Holding,
                      Locks, Unmade

LEMMA NoCrash == ASSUME Undisturbed, NEW p \in Procs PROVE ~Crash(p)
<1> DEFINE Dead == {q \in Procs : pc[q] = "dead"}
<1>1. IsFiniteSet(Dead)
  BY FiniteProcs, FS_Subset
<1>2. Cardinality(Dead) \in Nat
  BY <1>1, FS_CardinalityType
<1> QED
  BY <1>2 DEF Crash, Undisturbed

LEMMA ConfigLockingInv ==
  ASSUME ConfigInv, Undisturbed, NEW p \in Procs,
         Begin(p) \/ Locking(p) \/ TimePasses(p)
  PROVE  ConfigInv'
<1> USE BoundsAreNat DEF ConfigInv, TypeOK, MutualExclusion, Waiting, Holding,
        Locks, Unmade, Move, fileVars, lockVars
<1>1. CASE Begin(p)
  BY <1>1 DEF Begin
<1>2. CASE Take(p)
  <2>1. \A q \in Procs : pc[q] \notin Holding /\ mine[q] = 0
    BY <1>2 DEF Take
  <2>2. takes' \in Locks /\ takes' = takes + 1 /\ lock' = takes'
    BY <1>2 DEF Take
  <2>3. /\ mine' = [mine EXCEPT ![p] = takes'] /\ pc' = [pc EXCEPT ![p] = "token"]
        /\ UNCHANGED <<stale, overdue, buf, file, made>>
    BY <1>2 DEF Take
  <2> QED
    BY <2>1, <2>2, <2>3
<1>3. CASE TakeFails(p)
  BY <1>3 DEF TakeFails
<1>4. CASE Finds(p)
  BY <1>4 DEF Finds
<1>5. CASE Stats(p)
  BY <1>5 DEF Stats
<1>6. CASE Break(p)
  BY <1>6 DEF Break
<1>7. CASE Late(p)
  BY <1>7 DEF Late
<1>8. CASE TimePasses(p)
  BY <1>8 DEF TimePasses
<1> QED
  BY <1>1, <1>2, <1>3, <1>4, <1>5, <1>6, <1>7, <1>8 DEF Locking

LEMMA ConfigEditingInv ==
  ASSUME ConfigInv, NEW p \in Procs, Editing(p)
  PROVE  ConfigInv'
<1> USE BoundsAreNat DEF ConfigInv, TypeOK, MutualExclusion, Waiting, Holding,
        Locks, Unmade, Move, fileVars, lockVars
<1>1. CASE TokenWritten(p)
  BY <1>1 DEF TokenWritten
<1>2. CASE TokenFails(p)
  BY <1>2 DEF TokenFails
<1>3. ASSUME NEW fresh \in BOOLEAN, Read(p, fresh) PROVE ConfigInv'
  BY <1>3 DEF Read
<1>4. CASE Skips(p)
  BY <1>4 DEF Skips
<1>5. CASE Rename(p)
  BY <1>5 DEF Rename
<1>6. CASE ReleaseReads(p)
  BY <1>6 DEF ReleaseReads
<1>7. CASE ReleaseRemoves(p)
  BY <1>7 DEF ReleaseRemoves
<1> QED
  BY <1>1, <1>2, <1>3, <1>4, <1>5, <1>6, <1>7 DEF Editing

LEMMA ConfigNextInv == ASSUME Undisturbed, ConfigInv, [Next]_vars PROVE ConfigInv'
<1>1. CASE UNCHANGED vars
  BY <1>1 DEF vars, lockVars, fileVars, ConfigInv, TypeOK, MutualExclusion
<1>2. ASSUME NEW p \in Procs, Begin(p) \/ Locking(p) \/ TimePasses(p)
      PROVE ConfigInv'
  BY <1>2, ConfigLockingInv
<1>3. ASSUME NEW p \in Procs, Editing(p) PROVE ConfigInv'
  BY <1>3, ConfigEditingInv
<1>4. ASSUME NEW p \in Procs PROVE ~Crash(p)
  BY NoCrash
<1>5. ~Ages
  BY DEF Ages, ConfigInv, Undisturbed
<1> QED
  BY <1>1, <1>2, <1>3, <1>4, <1>5 DEF Next

THEOREM ConfigHolds == ASSUME Undisturbed PROVE Spec => []ConfigInv
<1>1. Init => ConfigInv
  BY ConfigInitInv
<1>2. ConfigInv /\ [Next]_vars => ConfigInv'
  BY ConfigNextInv
<1> QED
  BY <1>1, <1>2, PTL DEF Spec

\* lockFile is exclusive, for any number of processes none of which crashes.
THEOREM Exclusive == ASSUME Undisturbed PROVE Spec => []MutualExclusion
<1>1. ConfigInv => MutualExclusion
  BY DEF ConfigInv
<1> QED
  BY <1>1, ConfigHolds, PTL

\* And each edit of the config happens at once: the processes together
\* implement AtomicEdits.
THEOREM EditsAreAtomic == ASSUME Undisturbed PROVE Spec => ImplementsAtomicEdits
<1>1. Init => Atomic!Init
  BY DEF Init, Atomic!Init
<1>2. ConfigInv /\ [Next]_vars => [Atomic!Next]_<<file, made>>
  <2> SUFFICES ASSUME ConfigInv, [Next]_vars
               PROVE  [Atomic!Next]_<<file, made>>
    OBVIOUS
  <2>1. ASSUME NEW p \in Procs, Rename(p) PROVE Atomic!Next
    <3>1. pc[p] = "edit" /\ mine[p] \in Locks /\ mine[p] \notin made
      BY <2>1 DEF Rename, Move, ConfigInv, TypeOK, Unmade, Holding
    <3>2. buf[p] \in {{}, file}
      BY <3>1 DEF ConfigInv
    <3>3. Atomic!Make(mine[p])
      BY <2>1, <3>1, <3>2 DEF Rename, Atomic!Make
    <3> QED
      BY <3>1, <3>3 DEF Atomic!Next
  <2>2. ASSUME NEW p \in Procs, Editing(p), ~Rename(p) PROVE UNCHANGED <<file, made>>
    BY <2>2 DEF Editing, TokenWritten, TokenFails, Read, Skips, ReleaseReads,
                ReleaseRemoves, fileVars
  <2>3. ASSUME NEW p \in Procs,
               Begin(p) \/ Locking(p) \/ TimePasses(p) \/ Crash(p)
        PROVE UNCHANGED <<file, made>>
    BY <2>3 DEF Begin, Locking, Take, TakeFails, Finds, Stats, Break, Late,
                TimePasses, Crash, fileVars
  <2>4. Ages \/ UNCHANGED vars => UNCHANGED <<file, made>>
    BY DEF Ages, vars, fileVars
  <2> QED
    BY <2>1, <2>2, <2>3, <2>4 DEF Next
<1> QED
  BY <1>1, <1>2, ConfigHolds, PTL DEF Spec, ImplementsAtomicEdits, Atomic!Spec
=============================================================================
