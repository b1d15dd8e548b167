----------------------------- MODULE FfcBinary ------------------------------
(***************************************************************************)
(* Replacing the ffc binary (internal/cmd/update.go and the app's          *)
(* desktop/services/install.go): `ffc update` and its --rollback in any    *)
(* number of terminals and the app's InstallFFC, on Unix, where a rename   *)
(* replaces the binary, and on Windows, where the running one is first     *)
(* moved aside.                                                            *)
(***************************************************************************)
EXTENDS Integers

CONSTANTS
  Tools,     \* the terminals and the app
  Versions,  \* bound: the releases there are to install
  Foreign,   \* a file ffc did not put there
  NoFile

ASSUME FilesDiffer ==
  /\ NoFile # Foreign /\ Versions \cap {NoFile, Foreign} = {}
  /\ "old" \notin Tools /\ NoFile \notin Tools \cup {"old"}

\* Where the binary is moved aside: ffc.exe.old or, where ffc still runs from
\* that one, a name of the update's own.
Names == {"old"} \cup Tools

VARIABLES
  windows,   \* is this Windows?
  exe,       \* the binary: what is in it, or NoFile
  aside,     \* Windows: the file under each of Names, and the terminal whose
             \*   ffc, or a server it started, runs from it
  prev,      \* ffc.prev
  sum,       \* ffc.prev.sha256: what it is the checksum of
  tool,      \* each tool: its command and where it is
  taken      \* history: an update removed ffc.exe.old while that was all
             \*   there was

binaryVars == <<windows, exe, aside, prev, sum, tool, taken>>

NoAside == [file |-> NoFile, of |-> NoFile]
Idle == [kind |-> "none", at |-> "none", data |-> NoFile, copy |-> NoFile, old |-> NoFile]

BinaryInit ==
  /\ windows \in BOOLEAN
  /\ exe \in Versions
  /\ aside = [n \in Names |-> NoAside] /\ prev = NoFile /\ sum = NoFile
  /\ tool = [t \in Tools |-> Idle]
  /\ taken = FALSE

Is(t, at)    == tool[t].at = at
To(t, at)    == tool' = [tool EXCEPT ![t].at = at]
Ends(t)      == tool' = [tool EXCEPT ![t] = Idle]

-----------------------------------------------------------------------------
(* What is to be installed.                                                *)

\* Verify: the checksums are signed and list the archive, whose name carries
\* its version.
Verified(file, sums) == sums.signed /\ sums.lists = file

\* Nobody else signs: what may be found as the checksums of a version.
Sums(v) ==
  {[lists |-> v, signed |-> TRUE]}
    \cup {[lists |-> x, signed |-> FALSE] : x \in {v, Foreign}}

\* release.Download: the binaries it may return.
Download(v) == {file \in {v, Foreign} : \E sums \in Sums(v) : Verified(file, sums)}

\* runUpdate: another release than the one that runs, which is the binary
\* there is, is found, agreed to, downloaded and verified.
Update(t, v) ==
  /\ Is(t, "none") /\ exe # NoFile /\ v # exe
  /\ \E file \in Download(v) :
       tool' = [tool EXCEPT ![t] = [Idle EXCEPT !.kind = "update", !.at = "copy", !.data = file]]
  /\ UNCHANGED <<windows, exe, aside, prev, sum, taken>>

\* InstallFFC keeps no previous binary.
AppInstalls(t, v) ==
  /\ Is(t, "none")
  /\ \E file \in Download(v) :
       tool' = [tool EXCEPT ![t] = [Idle EXCEPT !.kind = "app", !.at = "swap", !.data = file]]
  /\ UNCHANGED <<windows, exe, aside, prev, sum, taken>>

\* runRollback, readPrevious: the kept binary, then its checksum.
Rollback(t) ==
  /\ Is(t, "none") /\ exe # NoFile /\ prev # NoFile
  /\ tool' = [tool EXCEPT ![t] = [Idle EXCEPT !.kind = "rollback", !.at = "sum", !.data = prev]]
  /\ UNCHANGED <<windows, exe, aside, prev, sum, taken>>

Matches(t) == sum = tool[t].data

CheckSum(t) ==
  /\ Is(t, "sum")
  /\ IF Matches(t) THEN To(t, "copy") ELSE Ends(t)
  /\ UNCHANGED <<windows, exe, aside, prev, sum, taken>>

-----------------------------------------------------------------------------
(* replaceBinary and writeBinary: a file next to the binary, written and   *)
(* synced, takes its place.                                                *)

\* copyPrevious; a failure costs only the rollback.
CopyPrevious(t) ==
  /\ Is(t, "copy")
  /\ \E copy \in {exe, NoFile} : tool' = [tool EXCEPT ![t].at = "swap", ![t].copy = copy]
  /\ UNCHANGED <<windows, exe, aside, prev, sum, taken>>

\* After the swap, or when it failed.
Swapped(t) == IF tool[t].kind = "app" THEN Ends(t) ELSE To(t, "commit")

RenameOver(t) ==
  /\ Is(t, "swap")
  /\ ~windows \/ (tool[t].kind = "app" /\ exe = NoFile)
  /\ \/ exe' = tool[t].data /\ Swapped(t)
     \/ Ends(t) /\ UNCHANGED <<exe>>
  /\ UNCHANGED <<windows, aside, prev, sum, taken>>

\* Windows: an earlier ffc.exe.old goes, or cannot because ffc runs from it,
\* and another name is taken, one of each tool at a time.
FreeOldName(t) ==
  /\ Is(t, "swap") /\ windows
  /\ tool[t].kind = "app" => exe # NoFile
  /\ \/ /\ aside["old"].of = NoFile
        /\ aside' = [aside EXCEPT !["old"] = NoAside]
        /\ tool' = [tool EXCEPT ![t].at = "aside", ![t].old = "old"]
        /\ taken' = (taken \/ (exe = NoFile /\ aside["old"].file # NoFile))
     \/ /\ aside["old"].file # NoFile /\ aside[t].file = NoFile
        /\ tool' = [tool EXCEPT ![t].at = "aside", ![t].old = t]
        /\ UNCHANGED <<aside, taken>>
  /\ UNCHANGED <<windows, exe, prev, sum>>

\* The update runs from the binary it moves.
MoveAside(t) ==
  /\ Is(t, "aside")
  /\ \/ /\ exe # NoFile /\ aside[tool[t].old].of = NoFile
        /\ exe' = NoFile
        /\ aside' = [aside EXCEPT ![tool[t].old] =
                       [file |-> exe, of |-> IF tool[t].kind = "app" THEN NoFile ELSE t]]
        /\ To(t, "in")
     \/ Ends(t) /\ UNCHANGED <<exe, aside>>
  /\ UNCHANGED <<windows, prev, sum, taken>>

\* Mutant of PutBack: old copies are cleaned up after a failure too.
PutBackCleans(t) ==
  /\ exe' \in {exe} \cup ({aside[tool[t].old].file} \ {NoFile})
  /\ aside' = [n \in Names |-> IF aside[n].of = NoFile THEN NoAside ELSE aside[n]]

\* The old binary goes back, when it is still under its name and the rename
\* works: nobody looks.
PutBack(t) ==
  \/ /\ aside[tool[t].old].file # NoFile
     /\ exe' = aside[tool[t].old].file
     /\ aside' = [aside EXCEPT ![tool[t].old] = NoAside]
  \/ UNCHANGED <<exe, aside>>

\* cleanupStaleOld follows a success, and removes every old copy that ffc
\* does not run from.
MoveIn(t) ==
  /\ Is(t, "in")
  /\ \/ /\ exe' = tool[t].data /\ Swapped(t)
        /\ aside' = [n \in Names |-> IF aside[n].of = NoFile THEN NoAside ELSE aside[n]]
     \/ PutBack(t) /\ Ends(t)
  /\ UNCHANGED <<windows, prev, sum, taken>>

\* commitPrevious: the copy is renamed, then its checksum is written.
CommitCopy(t) ==
  /\ Is(t, "commit")
  /\ \/ tool[t].copy # NoFile /\ prev' = tool[t].copy /\ To(t, "record")
     \/ Ends(t) /\ UNCHANGED prev
  /\ UNCHANGED <<windows, exe, aside, sum, taken>>

CommitSum(t) ==
  /\ Is(t, "record")
  /\ sum' \in {sum, tool[t].copy} /\ Ends(t)
  /\ UNCHANGED <<windows, exe, aside, prev, taken>>

-----------------------------------------------------------------------------
\* A command is killed, at any step.
ToolDies(t) ==
  /\ ~Is(t, "none")
  /\ Ends(t)
  /\ UNCHANGED <<windows, exe, aside, prev, sum, taken>>

\* The last ffc that runs from an old copy ends.
OldEnds(n) ==
  /\ aside[n].of # NoFile /\ Is(aside[n].of, "none")
  /\ aside' = [aside EXCEPT ![n].of = NoFile]
  /\ UNCHANGED <<windows, exe, prev, sum, tool, taken>>

\* Somebody writes another file over ffc.prev.
ReplacePrevious ==
  /\ prev # NoFile /\ prev' = Foreign
  /\ UNCHANGED <<windows, exe, aside, sum, tool, taken>>

BinaryNext ==
  \/ \E t \in Tools :
       \/ \E v \in Versions : Update(t, v) \/ AppInstalls(t, v)
       \/ Rollback(t) \/ CheckSum(t) \/ CopyPrevious(t) \/ RenameOver(t)
       \/ FreeOldName(t) \/ MoveAside(t) \/ MoveIn(t)
       \/ CommitCopy(t) \/ CommitSum(t) \/ ToolDies(t)
  \/ \E n \in Names : OldEnds(n)
  \/ ReplacePrevious

BinarySpec == BinaryInit /\ [][BinaryNext]_binaryVars

-----------------------------------------------------------------------------
(* Properties.                                                             *)

\* The binary has only ever been a signed release or, after a rollback, what
\* was the binary before, whatever was served, whatever happened to ffc.prev
\* and its checksum and wherever an update was cut off (readPrevious: a
\* rollback never installs a binary ffc did not put there).  And there is one,
\* in its place or, where a Windows update was killed between its two renames,
\* or failed and could not put the old one back, under the name it was moved
\* to (swapExecutable, writeBinary); but another update, begun before, may
\* then remove that last copy, to free the name for a binary that is gone.
BinaryIsOwn ==
  /\ Foreign \notin {exe} \cup {aside[n].file : n \in Names}
  /\ exe = NoFile => taken \/ \E n \in Names : aside[n].file # NoFile
=============================================================================
