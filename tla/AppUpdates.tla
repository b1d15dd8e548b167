----------------------------- MODULE AppUpdates -----------------------------
(***************************************************************************)
(* Updating the desktop app (internal/desktopinstall): `ffc desktop        *)
(* install` and the app's own InstallUpdate pick a release and replace     *)
(* the installed copy, on macOS by copying a bundle next to it and         *)
(* swapping the two, on Windows by moving the exe aside and running the    *)
(* setup.  A killed ffc or app leaves whatever its last step left.         *)
(***************************************************************************)
EXTENDS Integers, FiniteSets, FiniteSetsExt

CONSTANTS
  Releases,  \* bound: the versions there are, as numbers in their order
  Zero,      \* those that are 0.x
  Pre,       \* those with a "-" suffix
  NoApp

ASSUME ReleasesAreNumbers == Releases \subseteq Nat \ {0} /\ IsFiniteSet(Releases)
ASSUME NoAppIsNoCopy == NoApp \notin [v : Releases, whole : BOOLEAN]

VARIABLES
  goos,      \* "darwin" or "windows"
  releases,  \* the desktop releases listed: [v, flagged] (flagged: GitHub's
             \*   prerelease)
  app,       \* the installed copy: [v, whole], or NoApp
  new,       \* <app>.new, macOS
  spare,     \* <app>.old
  running,   \* the version of the app that runs, or 0
  inst,      \* each installer: where it is, the version planned, what was there
  \* History variables.
  met,       \* two worked on the copy at once, or a setup was killed
  owned      \* since a whole copy was last in place, no half one was left there

appVars == <<goos, releases, app, new, spare, running, inst, met, owned>>

Installers == {"ffc", "app"}
Copy(v)    == [v |-> v, whole |-> TRUE]
Half(v)    == [v |-> v, whole |-> FALSE]
Free       == [at |-> "none", plan |-> 0, had |-> NoApp]

-----------------------------------------------------------------------------
(* Which release (find.go).                                                *)

Qualifies(r, cur, stableOnly) ==
  /\ stableOnly => r.v \notin Pre
  /\ r.flagged \/ r.v \in Pre => cur = 0 \/ cur \in Zero \cup Pre

\* newest: the version picked, 0 when none qualifies.  cur = 0 is Version{}.
newest(rels, cur, stableOnly) ==
  Max({0} \cup {r.v : r \in {x \in rels : Qualifies(x, cur, stableOnly)}})

NewestInstallable(rels, cur) == newest(rels, cur, TRUE)

\* Find, or Latest where nothing is installed: 0 for ErrNoRelease, ErrNotNewer.
Find(rels, cur) ==
  LET v == NewestInstallable(rels, cur) IN IF v > cur THEN v ELSE 0

\* CheckForUpdate: what the running app offers.
Offer(rels, cur) ==
  LET inst1 == newest(rels, cur, TRUE)
      best  == IF inst1 > cur THEN inst1 ELSE newest(rels, cur, FALSE)
  IN  IF best > cur THEN best ELSE 0

-----------------------------------------------------------------------------
AppInit ==
  /\ goos \in {"darwin", "windows"}
  /\ releases = {}
  /\ \/ app = NoApp /\ running = 0
     \/ \E v \in Releases : app = Copy(v) /\ running \in {0, v}
  /\ new = NoApp /\ spare = NoApp
  /\ inst = [i \in Installers |-> Free]
  /\ met = FALSE /\ owned = (app # NoApp)

Where(i, s)     == inst[i].at = s
Moves(i, s)  == inst' = [inst EXCEPT ![i].at = s]
Frees(i)     == inst' = [inst EXCEPT ![i] = Free]
Working      == {i \in Installers : inst[i].at \notin {"none", "planned"}}
Meets(i)     == met' = (met \/ Working \ {i} # {})

Publish(v, flagged) ==
  /\ \A r \in releases : r.v < v
  /\ releases' = releases \cup {[v |-> v, flagged |-> flagged]}
  /\ UNCHANGED <<goos, app, new, spare, running, inst, met>>

OpenApp ==
  /\ running = 0 /\ app # NoApp /\ app.whole
  /\ running' = app.v
  /\ UNCHANGED <<goos, releases, app, new, spare, inst, met>>

\* runDesktopInstall: the installed copy's version; an exe a killed setup left
\* has none, and takes --force.
FfcPlans ==
  /\ Where("ffc", "none")
  /\ LET cur == IF app = NoApp \/ ~app.whole THEN 0 ELSE app.v
         v   == Find(releases, cur)
     IN  v # 0 /\ inst' = [inst EXCEPT !["ffc"] = [at |-> "planned", plan |-> v, had |-> app]]
  /\ UNCHANGED <<goos, releases, app, new, spare, running, met>>

\* InstallUpdate, one at a time (updateMu): the version that runs.
AppPlans ==
  /\ Where("app", "none") /\ running # 0
  /\ LET v == Find(releases, running)
     IN  v # 0 /\ inst' = [inst EXCEPT !["app"] = [at |-> "planned", plan |-> v, had |-> app]]
  /\ UNCHANGED <<goos, releases, app, new, spare, running, met>>

\* The question, the download or its checks end it.
Declines(i) ==
  /\ Where(i, "planned") /\ Frees(i)
  /\ UNCHANGED <<goos, releases, app, new, spare, running, met>>

\* Apply, to the end whatever is cancelled.
Apply(i) ==
  /\ Where(i, "planned")
  /\ inst' = [inst EXCEPT ![i].at = IF goos = "darwin" THEN "clear" ELSE "stale",
                          ![i].had = app]
  /\ Meets(i)
  /\ UNCHANGED <<goos, releases, app, new, spare, running>>

-----------------------------------------------------------------------------
(* applyDarwin.                                                            *)

\* An error removes the bundle that was copied.
Fails(i) == new' = NoApp /\ Moves(i, "failed")

\* The image is mounted and the leftover bundle goes, or an error is told.
ClearNew(i) ==
  /\ Where(i, "clear") /\ Meets(i)
  /\ \/ new' = NoApp /\ Moves(i, "copy")
     \/ Moves(i, "failed") /\ UNCHANGED new
  /\ UNCHANGED <<goos, releases, app, spare, running>>

CopyBegins(i) ==
  /\ Where(i, "copy") /\ new' = Half(inst[i].plan) /\ Moves(i, "copying") /\ Meets(i)
  /\ UNCHANGED <<goos, releases, app, spare, running>>

CopyEnds(i) ==
  /\ Where(i, "copying") /\ Meets(i)
  /\ \/ /\ new' = (IF new = Half(inst[i].plan) THEN Copy(inst[i].plan) ELSE new)
        /\ Moves(i, "check")
     \/ Fails(i)
  /\ UNCHANGED <<goos, releases, app, spare, running>>

\* The signature, the bundle's id and version, no quarantine mark.
Sound(i) == new = Copy(inst[i].plan)

CheckNew(i) ==
  /\ Where(i, "check") /\ Meets(i)
  /\ IF Sound(i) THEN Moves(i, "aside") /\ UNCHANGED new ELSE Fails(i)
  /\ UNCHANGED <<goos, releases, app, spare, running>>

\* The leftover goes and the copy becomes it.
SwapOut(i) ==
  /\ Where(i, "aside") /\ Meets(i)
  /\ IF app = NoApp
     THEN Moves(i, "place") /\ UNCHANGED <<app, new, spare>>
     ELSE \/ spare' = app /\ app' = NoApp /\ Moves(i, "place") /\ UNCHANGED new
          \/ spare' \in {spare, NoApp} /\ Fails(i) /\ UNCHANGED app
  /\ UNCHANGED <<goos, releases, running>>

\* The new bundle is moved in, or an error puts the old one back, which may
\* fail too ("restoring the old app failed").
Place(i) ==
  /\ Where(i, "place") /\ Meets(i)
  /\ \/ /\ new # NoApp /\ app = NoApp
        /\ app' = new /\ new' = NoApp /\ Moves(i, "done") /\ UNCHANGED spare
     \/ /\ Fails(i)
        /\ \/ /\ inst[i].had # NoApp /\ spare # NoApp /\ app = NoApp
              /\ app' = spare /\ spare' = NoApp
           \/ UNCHANGED <<app, spare>>
  /\ UNCHANGED <<goos, releases, running>>

-----------------------------------------------------------------------------
(* applyWindows.                                                           *)

\* removeStale, then the exe moves aside, running or not.
SetAside(i) ==
  /\ Where(i, "stale") /\ Meets(i)
  /\ new' = NoApp
  /\ \/ app = NoApp /\ Moves(i, "setup") /\ UNCHANGED <<app, spare>>
     \/ app # NoApp /\ spare' = app /\ app' = NoApp /\ Moves(i, "setup")
     \/ app # NoApp /\ spare' \in {spare, NoApp} /\ Moves(i, "failed") /\ UNCHANGED app
  /\ UNCHANGED <<goos, releases, running>>

SetupBegins(i) ==
  /\ Where(i, "setup") /\ Meets(i)
  /\ app' = Half(inst[i].plan) /\ Moves(i, "setting")
  /\ UNCHANGED <<goos, releases, new, spare, running>>

\* What a setup that failed leaves where the exe goes.
Leaves(i) == {NoApp, Half(inst[i].plan), Copy(inst[i].plan)}

\* Mutant of RestoreOld: what the failed setup left is kept, and the old exe
\* removed.
RestoreMissing(i) ==
  app' \in Leaves(i) /\ IF app' = NoApp THEN UNCHANGED spare ELSE spare' = NoApp

\* Whatever the failed setup left goes, and the old exe is put back; it is not
\* if what was left cannot be removed, or the rename fails.
RestoreOld(i) ==
  \/ inst[i].had # NoApp /\ app' = spare /\ spare' = NoApp
  \/ app' \in Leaves(i) /\ UNCHANGED spare

SetupEnds(i) ==
  /\ Where(i, "setting") /\ Meets(i)
  /\ \/ app' = Copy(inst[i].plan) /\ Moves(i, "done") /\ UNCHANGED spare
     \/ RestoreOld(i) /\ Moves(i, "failed")
  /\ UNCHANGED <<goos, releases, new, running>>

-----------------------------------------------------------------------------
(* What follows.                                                           *)

Reports(i) ==
  /\ Where(i, "failed") \/ (i = "ffc" /\ Where(i, "done"))
  /\ Frees(i)
  /\ UNCHANGED <<goos, releases, app, new, spare, running, met>>

\* relaunch, Quit and finishUpdate: the new copy runs and, at most 15 seconds
\* later, removes what the update left.
Relaunch ==
  /\ Where("app", "done")
  /\ app # NoApp
  /\ running' = app.v
  /\ Moves("app", "clean")
  /\ UNCHANGED <<goos, releases, app, new, spare, met>>

\* The new copy does not start: the old one still runs.
RelaunchFails ==
  /\ Where("app", "done")
  /\ Frees("app")
  /\ UNCHANGED <<goos, releases, app, new, spare, running, met>>

CleanupOld ==
  /\ Where("app", "clean") /\ Meets("app")
  /\ new' = NoApp /\ spare' = NoApp /\ Frees("app")
  /\ UNCHANGED <<goos, releases, app, running>>

\* ffc or the app is killed or, the app, closed.
Dies(i) ==
  /\ inst[i].at # "none" \/ (i = "app" /\ running # 0)
  /\ Frees(i)
  /\ running' = IF i = "app" THEN 0 ELSE running
  /\ met' = (met \/ Where(i, "setting"))
  /\ UNCHANGED <<goos, releases, app, new, spare>>

InstallerNext(i) ==
  \/ Declines(i) \/ Apply(i)
  \/ ClearNew(i) \/ CopyBegins(i) \/ CopyEnds(i) \/ CheckNew(i) \/ SwapOut(i) \/ Place(i)
  \/ SetAside(i) \/ SetupBegins(i) \/ SetupEnds(i)
  \/ Reports(i) \/ Dies(i)

AppStep ==
  \/ \E v \in Releases, f \in BOOLEAN : Publish(v, f)
  \/ OpenApp \/ FfcPlans \/ AppPlans
  \/ \E i \in Installers : InstallerNext(i)
  \/ Relaunch \/ RelaunchFails \/ CleanupOld

Owns == owned' = IF app' = NoApp THEN owned
                 ELSE app'.whole \/ (owned /\ \E i \in Installers : inst'[i].at = "setting")

AppNext == AppStep /\ Owns

AppSpec == AppInit /\ [][AppNext]_appVars

-----------------------------------------------------------------------------
(* A finished install leaves the planned version, whole, and one that      *)
(* failed the copy it found, in its place or, when that could not be put   *)
(* back (applyDarwin, applyWindows: the old app is not there, which        *)
(* InstallUpdate's comment, "any failure leaves the current copy as it     *)
(* was", leaves out), under <app>.old.  At no moment, whichever of ffc and *)
(* the app is killed, restarted and installs again, is there no whole copy *)
(* left of an app that was installed.  Not so when two work on it at once, *)
(* which nothing prevents (both use <app>.new), or when a Windows setup is *)
(* killed half way; and a half exe that a failed setup left and nothing    *)
(* replaced is taken for the copy to keep by the next install.  And an     *)
(* offered version without a suffix is what Find then picks from the same  *)
(* list (CheckForUpdate's comment).                                        *)
AllOrNothing ==
  /\ \A cur \in Releases :
       LET v == Offer(releases, cur)
       IN  v # 0 /\ v \notin Pre => Find(releases, cur) = v
  /\ ~met =>
    /\ \A i \in Installers :
         /\ Where(i, "done") => app = Copy(inst[i].plan)
         /\ Where(i, "failed") /\ inst[i].had # NoApp => inst[i].had \in {app, spare}
    /\ owned => \E c \in {app, spare} : c # NoApp /\ c.whole
    /\ goos = "darwin" /\ app # NoApp => app.whole
=============================================================================
