------------------------------ MODULE AuditLog ------------------------------
(***************************************************************************)
(* The audit log of the MCP servers (internal/cmd/mcp_audit.go): several   *)
(* servers append lines to one file, and one of them moves a full file to  *)
(* .1 while the others keep appending.                                     *)
(***************************************************************************)
EXTENDS Integers, Sequences

CONSTANTS
  Writers,   \* the servers: the calls of one wait for each other (mu)
  MaxBytes,  \* auditMaxBytes, with lines of one byte
  MaxFiles   \* bound: log files made

ASSUME BytesAreCounted == MaxBytes \in Nat

VARIABLES
  size,      \* the size of each log file made, by its number
  log,       \* the file that has the log's name, or 0
  old,       \* the file that has the name with .1, or 0
  marker,    \* is there a rotation marker?
  expired,   \* is it older than a minute?
  writer,    \* where each server is, and the file it has open
  robbed     \* history: has a rotation that goes on lost its marker?

markerVars == <<marker, expired, robbed>>
auditVars == <<size, log, old, markerVars, writer>>

Resting == [at |-> "rest", file |-> 0]

AuditInit ==
  /\ size = <<>> /\ log = 0 /\ old = 0
  /\ marker = FALSE /\ expired = FALSE /\ robbed = FALSE
  /\ writer = [w \in Writers |-> Resting]

Goes(w, from, to) == writer[w].at = from /\ writer' = [writer EXCEPT ![w].at = to]
SizeOf(f) == IF f = 0 THEN 0 ELSE size[f]

\* append: the Lstat.
Append1(w) ==
  /\ Goes(w, "rest", IF log # 0 /\ SizeOf(log) + 1 > MaxBytes THEN "stat" ELSE "open")
  /\ UNCHANGED <<size, log, old, markerVars>>

\* rotate: a marker left by a crashed server expires after a minute.
StatMarker(w) ==
  /\ Goes(w, "stat", IF marker /\ expired THEN "unmark" ELSE "mark")
  /\ UNCHANGED <<size, log, old, markerVars>>

Rotating(w) == writer[w].at \in {"check", "rename", "release"}

RemoveMarker(w) ==
  /\ marker' = FALSE /\ expired' = FALSE
  /\ robbed' = (robbed \/ \E v \in Writers \ {w} : Rotating(v))

Unmark(w) ==
  /\ Goes(w, "unmark", "mark")
  /\ RemoveMarker(w)
  /\ UNCHANGED <<size, log, old>>

\* The marker is made with O_EXCL, or the server appends without rotating.
Mark(w) ==
  /\ IF marker THEN Goes(w, "mark", "open") /\ UNCHANGED markerVars
     ELSE Goes(w, "mark", "check") /\ marker' = TRUE /\ UNCHANGED <<expired, robbed>>
  /\ UNCHANGED <<size, log, old>>

\* Mutant of StillFull: the log was full when the server looked.
StillFullThen == TRUE

StillFull == 2 * SizeOf(log) > MaxBytes

Check(w) ==
  /\ Goes(w, "check", IF log # 0 /\ StillFull THEN "rename" ELSE "release")
  /\ UNCHANGED <<size, log, old, markerVars>>

Rotate(w) ==
  /\ Goes(w, "rename", "release")
  /\ IF log = 0 THEN UNCHANGED <<log, old>> ELSE old' = log /\ log' = 0
  /\ UNCHANGED <<size, markerVars>>

Release(w) ==
  /\ Goes(w, "release", "open")
  /\ RemoveMarker(w)
  /\ UNCHANGED <<size, log, old>>

\* The file is opened, and made when there is none; its name may go to
\* another before the line is written.
Open(w) ==
  /\ writer[w].at = "open"
  /\ IF log # 0 THEN UNCHANGED <<size, log>>
     ELSE Len(size) < MaxFiles /\ size' = Append(size, 0) /\ log' = Len(size) + 1
  /\ writer' = [writer EXCEPT ![w] = [at |-> "write", file |-> log']]
  /\ UNCHANGED <<old, markerVars>>

\* Bound: a file that is full is not counted on.
Write(w) ==
  /\ writer[w].at = "write"
  /\ size' = [size EXCEPT ![writer[w].file] = IF @ = MaxBytes THEN @ ELSE @ + 1]
  /\ writer' = [writer EXCEPT ![w] = Resting]
  /\ UNCHANGED <<log, old, markerVars>>

\* The server dies, in a rotation too.
ServerDies(w) ==
  /\ writer[w] # Resting
  /\ writer' = [writer EXCEPT ![w] = Resting]
  /\ UNCHANGED <<size, log, old, markerVars>>

\* Only the marker of a dead server gets to be a minute old.
MarkerExpires ==
  /\ marker /\ ~expired
  /\ \A w \in Writers : ~Rotating(w)
  /\ expired' = TRUE
  /\ UNCHANGED <<size, log, old, marker, robbed, writer>>

AuditNext ==
  \/ \E w \in Writers :
       \/ Append1(w) \/ StatMarker(w) \/ Unmark(w) \/ Mark(w) \/ Check(w)
       \/ Rotate(w) \/ Release(w) \/ Open(w) \/ Write(w) \/ ServerDies(w)
  \/ MarkerExpires

AuditSpec == AuditInit /\ [][AuditNext]_auditVars

\* What a rotation throws away is followed by a history of more than half a
\* full log, whatever the order of the servers' calls and crashes: two
\* rotations would move the fresh file over the history (rotate).  Not when
\* two servers find one crashed rotation's marker old and the slower one
\* removes the faster one's marker.
HistoryIsKept == [][old' # old /\ ~robbed => 2 * SizeOf(old') > MaxBytes]_auditVars
=============================================================================
