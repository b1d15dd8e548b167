------------------------------ MODULE SiteJobs ------------------------------
(***************************************************************************)
(* Work that the site does in the background for ffc.  ffc import --server *)
(* (internal/cmd/import_server.go, internal/client/dataimport.go) makes a  *)
(* Data Import, gives it a file, looks at the warnings, starts its job,    *)
(* polls and reports; --resume picks one up again.  ffc run-report         *)
(* --prepared (internal/client/prepared.go) reuses, finds or makes a       *)
(* Prepared Report, polls and reads its result.  Requests fail, answers    *)
(* are lost, jobs die, and commands are interrupted between any two steps. *)
(***************************************************************************)
EXTENDS Integers, Sequences, FiniteSets, SequencesExt

CONSTANTS
  Runs,      \* bound: the ffc commands
  Asks,      \* bound: what each may ask, [Runs -> a set of Imports and Reports]
  Total,     \* the documents of an import's file
  MaxJobs,   \* bound: the Prepared Reports
  Filters    \* bound: the filters of reports

Imports == [cmd : {"import"}, preview : BOOLEAN] \cup {[cmd |-> "resume"]}
Reports ==
  {r \in [cmd : {"report"}, filters : Filters, fresh : BOOLEAN, reuse : BOOLEAN, name : 0 .. MaxJobs] :
     (r.fresh => r.name = 0) /\ (r.reuse => r.name = 0)}

ASSUME NumbersAreNat == Total \in Nat /\ MaxJobs \in Nat
ASSUME AsksAreAsks == Asks \in [Runs -> SUBSET (Imports \cup Reports)]

\* Bound: there is one Data Import, and one command may make it.
MayImport(c) == \E ask \in Asks[c] : ask.cmd = "import"
ASSUME OneImport == \A c, d \in Runs : MayImport(c) /\ MayImport(d) => c = d

VARIABLES
  marks,     \* the site's release marks a running import "In Progress"
  import,    \* the Data Import: its file, status, template_warnings and logs
  dataJob,       \* its job: "none", "queued", "running", "over"
  restarts,  \* how often its job was started
  reports,   \* the Prepared Reports, [filters, status]
  run,       \* [Runs -> where each command is and what it knows]
  deaf       \* the commands whose create was not answered

siteJobVars == <<marks, import, dataJob, restarts, reports, run, deaf>>

NoImport == [there |-> FALSE]
Fresh == [there |-> TRUE, file |-> "none", warns |-> FALSE, status |-> "Pending", logs |-> <<>>]
NotRun  == [at |-> "idle"]

CommandAt(c, where) == run[c].at = where
CommandTo(c, where) == run' = [run EXCEPT ![c].at = where]
CommandEnds(c, exit) == run' = [run EXCEPT ![c] = [at |-> "ended", exit |-> exit, ask |-> @.ask]]

SiteOnly == UNCHANGED <<marks, reports, run, deaf>>
Count(logs, ok) == Cardinality({i \in DOMAIN logs : logs[i] = ok})

-----------------------------------------------------------------------------
(* The Data Import on the site (importer.py), as ffc's comments have it.   *)

FinalStatus(logs) ==
  IF Count(logs, TRUE) = Total THEN "Success"
  ELSE IF Count(logs, FALSE) = Total THEN "Error"
  ELSE IF Count(logs, TRUE) > 0 /\ Count(logs, FALSE) > 0 THEN "Partial Success"
  ELSE "Pending"    \* documents without a log

JobTakes ==
  /\ dataJob = "queued" /\ import.there
  /\ \/ import' = [import EXCEPT !.warns = TRUE] /\ dataJob' = "over"
     \/ /\ import' = [import EXCEPT !.status = IF marks THEN "In Progress" ELSE @]
        /\ dataJob' = "running"
  /\ SiteOnly /\ UNCHANGED restarts
JobWrites(ok) ==
  /\ dataJob = "running" /\ import.there /\ Len(import.logs) < Total
  /\ import' = [import EXCEPT !.logs = Append(@, ok),
                              !.status = IF ok /\ ~marks THEN "Partial Success" ELSE @]
  /\ SiteOnly /\ UNCHANGED <<dataJob, restarts>>
JobEnds ==
  /\ dataJob = "running" /\ import.there
  /\ \/ import' = [import EXCEPT !.status = FinalStatus(import.logs)]
     \/ \E s \in {"Error", "Timed Out"} : import' = [import EXCEPT !.status = s]
     \/ UNCHANGED import    \* the worker was killed
  /\ dataJob' = "over"
  /\ SiteOnly /\ UNCHANGED restarts

-----------------------------------------------------------------------------
(* import --server.                                                        *)

StartCommand(c, ask) ==
  /\ CommandAt(c, "idle") /\ ask \in Asks[c]
  /\ run' = [run EXCEPT ![c] = [at |-> CASE ask.cmd = "import" -> "create"
                                         [] ask.cmd = "resume" -> "read"
                                         [] ask.cmd = "report" /\ ask.name # 0 -> "check"
                                         [] OTHER -> "first",
                                ask |-> ask,
                                had |-> {i \in DOMAIN reports : reports[i].status = "done"}]]
  /\ ask.cmd = "import" => ~import.there
  /\ ask.cmd = "resume" => import.there
  /\ UNCHANGED <<marks, import, dataJob, restarts, reports, deaf>>

\* NewDataImport: refused, made, or made with its answer lost: then its name
\* is not known.
NewDataImport(c) ==
  /\ CommandAt(c, "create")
  /\ \/ CommandEnds(c, "refused") /\ UNCHANGED <<import, deaf>>
     \/ import' = Fresh /\ CommandTo(c, "upload") /\ UNCHANGED deaf
     \/ import' = Fresh /\ CommandEnds(c, "lost") /\ deaf' = deaf \cup {c}
  /\ UNCHANGED <<marks, dataJob, restarts, reports>>

\* UploadFile and SetDataImportFile: with the file saved the site parses it.
GiveFile(c) ==
  /\ CommandAt(c, "upload")
  /\ \/ import' = [import EXCEPT !.file = "parsed"] /\ CommandTo(c, "preview")
     \/ import' = [import EXCEPT !.file = "parsed"] /\ CommandTo(c, "discard")
     \/ UNCHANGED import /\ CommandTo(c, "discard")
  /\ UNCHANGED <<marks, dataJob, restarts, reports, deaf>>

\* Warnings of the preview other than "info" stop here.
DataImportPreview(c) ==
  /\ CommandAt(c, "preview")
  /\ \/ CommandTo(c, "discard")      \* it failed
     \/ IF run[c].ask.preview THEN CommandEnds(c, "blocked") ELSE CommandTo(c, "discard")
     \/ IF run[c].ask.preview THEN CommandEnds(c, "ready") ELSE CommandTo(c, "start")
  /\ UNCHANGED <<marks, import, dataJob, restarts, reports, deaf>>

\* Mutant of DiscardDataImport: an interrupted command deletes nothing.
DiscardNothing(c) ==
  /\ CommandAt(c, "discard") /\ CommandEnds(c, "failed")
  /\ UNCHANGED <<marks, import, dataJob, restarts, reports, deaf>>

\* discardDataImport, whose context is its own; a failure is said.
DiscardDataImport(c) ==
  /\ CommandAt(c, "discard")
  /\ \/ import' = NoImport /\ dataJob' = "none" /\ CommandEnds(c, "failed")
     \/ UNCHANGED <<import, dataJob>> /\ CommandEnds(c, "left")
  /\ UNCHANGED <<marks, restarts, reports, deaf>>

\* resumeDataImport.
ResumeDataImport(c) ==
  /\ CommandAt(c, "read")
  /\ \/ CommandEnds(c, "failed")
     \/ ~import.there /\ CommandEnds(c, "failed")
     \/ /\ import.there
        /\ IF import.status # "Pending" THEN CommandTo(c, "poll")
           ELSE IF import.warns THEN CommandEnds(c, "blocked")
           ELSE IF import.file = "none" THEN CommandEnds(c, "failed")
           ELSE CommandTo(c, "start")
  /\ UNCHANGED <<marks, import, dataJob, restarts, reports, deaf>>

\* StartDataImport: the scheduler is inactive, the job is queued (its answer
\* may be lost), or it is queued or running already.  A job run again does
\* what failed, again: the logs of what did not are kept.
StartDataImport(c) ==
  /\ CommandAt(c, "start")
  /\ \/ CommandEnds(c, "retry") /\ UNCHANGED <<import, dataJob, restarts>>
     \/ /\ import.there
        /\ IF dataJob \in {"queued", "running"} THEN UNCHANGED <<import, dataJob, restarts>>
           ELSE /\ dataJob' = "queued" /\ restarts' = restarts + 1
                /\ import' = [import EXCEPT !.logs = [i \in 1 .. Count(@, TRUE) |-> TRUE]]
        /\ CommandTo(c, "poll") \/ CommandEnds(c, "retry")
  /\ UNCHANGED <<marks, reports, deaf>>

\* finished: on a release that does not mark a running import, "Partial
\* Success" is set during the run as well, and the counts decide.
Finished(status, n) ==
  \/ status \in {"Success", "Error", "Timed Out"}
  \/ status = "Partial Success" /\ marks
  \/ n >= Total /\ status \notin {"In Progress", "Pending"}

\* Final.
Final(st) ==
  IF st.status \in {"Success", "Error", "Timed Out"} \/ st.success + st.failed < Total THEN st.status
  ELSE IF st.failed = 0 THEN "Success"
  ELSE IF st.success = 0 THEN "Error" ELSE "Partial Success"

\* WaitDataImport: the status; while it is Pending without logs, also the
\* warnings; the wait runs out, or the request fails.
PollStatus(c) ==
  /\ CommandAt(c, "poll")
  /\ \/ CommandEnds(c, "failed")
     \/ /\ import.there
        /\ LET logs == import.logs
               st == [status |-> import.status, success |-> Count(logs, TRUE), failed |-> Count(logs, FALSE)]
           IN  IF Finished(st.status, Len(logs))
               THEN run' = [run EXCEPT ![c] = [at |-> "logs", ask |-> @.ask, st |-> st]]
               ELSE IF st.status = "Pending" /\ logs = <<>> THEN CommandTo(c, "warnings")
               ELSE CommandEnds(c, "waited") \/ UNCHANGED run
  /\ UNCHANGED <<marks, import, dataJob, restarts, reports, deaf>>
PollWarnings(c) ==
  /\ CommandAt(c, "warnings")
  /\ \/ CommandEnds(c, "failed")
     \/ import.there /\ IF import.warns THEN CommandEnds(c, "blocked")
                        ELSE CommandEnds(c, "waited") \/ CommandTo(c, "poll")
  /\ UNCHANGED <<marks, import, dataJob, restarts, reports, deaf>>

\* reportDataImport: what the logs say; where they are fewer than the status
\* has counted, its counts.
ReportDataImport(c) ==
  /\ CommandAt(c, "logs")
  /\ \/ CommandEnds(c, "failed")
     \/ LET st    == run[c].st
            short == st.success + st.failed > Len(import.logs)
            good  == IF short THEN st.success ELSE Count(import.logs, TRUE)
            bad   == IF short THEN st.failed ELSE Count(import.logs, FALSE)
            exit  == IF Final(st) \in {"Error", "Timed Out"} /\ good + bad < Total THEN "died"
                     ELSE IF bad > 0 THEN "partial" ELSE "ok"
        IN  /\ import.there
            /\ run' = [run EXCEPT ![c] = [at |-> "ended", ask |-> @.ask, exit |-> exit,
                                          good |-> good, bad |-> bad]]
  /\ UNCHANGED <<marks, import, dataJob, restarts, reports, deaf>>

-----------------------------------------------------------------------------
(* run-report --prepared.                                                  *)

Queued(f) == {i \in DOMAIN reports : reports[i].filters = f /\ reports[i].status = "queued"}
Completed(f) == {i \in DOMAIN reports : reports[i].filters = f /\ reports[i].status = "done"}
Newest(S) == CHOOSE i \in S : \A j \in S : j <= i
ReportOnly == UNCHANGED <<marks, import, dataJob, restarts, deaf>>

ReportEnds(i) ==
  /\ reports[i].status = "queued"
  /\ \E s \in {"done", "failed"} : reports' = [reports EXCEPT ![i].status = s]
  /\ UNCHANGED <<marks, import, dataJob, restarts, run, deaf>>

Answers(c, i) ==
  run' = [run EXCEPT ![c] = [at |-> "ended", ask |-> @.ask, exit |-> "result", of |-> i, had |-> @.had]]

\* checkPrepared, left out for who may not read Prepared Reports.
CheckPrepared(c) ==
  /\ CommandAt(c, "check")
  /\ \/ CommandEnds(c, "failed")
     \/ CommandTo(c, "wait")
     \/ /\ run[c].ask.name \in DOMAIN reports
        /\ reports[run[c].ask.name].filters # run[c].ask.filters /\ CommandEnds(c, "refused")
  /\ UNCHANGED reports /\ ReportOnly

\* RunPreparedReport up to the job it waits for.
FirstRun(c) ==
  /\ CommandAt(c, "first")
  /\ LET ask == run[c].ask
         done == Completed(ask.filters)
     IN  \/ CommandEnds(c, "failed")
         \/ (~ask.fresh \/ ask.reuse) /\ done # {} /\ Answers(c, Newest(done))
         \/ ((ask.fresh /\ ~ask.reuse) \/ done = {}) /\ CommandTo(c, "find")
  /\ UNCHANGED reports /\ ReportOnly
FindQueued(c) ==
  /\ CommandAt(c, "find")
  /\ LET ask == run[c].ask
         queued == Queued(ask.filters)
     IN  \/ CommandEnds(c, "failed")
         \/ /\ queued # {}
            /\ run' = [run EXCEPT ![c].at = "wait", ![c].ask.name = Newest(queued)]
         \/ queued = {} /\ IF ask.reuse THEN CommandEnds(c, "none") ELSE CommandTo(c, "make")
  /\ UNCHANGED reports /\ ReportOnly
MakePrepared(c) ==
  /\ CommandAt(c, "make")
  /\ \/ CommandEnds(c, "failed") /\ UNCHANGED reports
     \/ /\ Len(reports) < MaxJobs
        /\ reports' = Append(reports, [filters |-> run[c].ask.filters, status |-> "queued"])
        /\ \/ CommandEnds(c, "failed")    \* its answer is lost
           \/ run' = [run EXCEPT ![c].at = "wait", ![c].ask.name = Len(reports) + 1]
  /\ ReportOnly

WaitPrepared(c) ==
  /\ CommandAt(c, "wait")
  /\ \/ CommandEnds(c, "failed")
     \/ run[c].ask.name \in Queued(run[c].ask.filters) /\ CommandEnds(c, "waited")
     \/ run[c].ask.name \notin Queued(run[c].ask.filters) /\ CommandTo(c, "fetch")
  /\ UNCHANGED reports /\ ReportOnly

\* matchPrepared.
Matches(i, f) == reports[i].filters = f

\* The named result; none when its job failed, or is another's and queued.
FetchPrepared(c) ==
  /\ CommandAt(c, "fetch")
  /\ LET i == run[c].ask.name IN
     \/ CommandEnds(c, "failed")
     \/ /\ i \in DOMAIN reports /\ reports[i].status = "done"
        /\ IF Matches(i, run[c].ask.filters) THEN Answers(c, i) ELSE CommandEnds(c, "refused")
     \/ (i \in DOMAIN reports => reports[i].status # "done") /\ CommandEnds(c, "noresult")
  /\ UNCHANGED reports /\ ReportOnly

-----------------------------------------------------------------------------
\* Ctrl+C: the request under way may have reached the site (the steps above
\* that fail); an import that has a name is deleted, unless it was started.
InterruptCommand(c) ==
  /\ run[c].at \notin {"idle", "ended", "discard"}
  /\ IF run[c].at \in {"upload", "preview"} THEN CommandTo(c, "discard")
     ELSE CommandEnds(c, IF run[c].at = "start" THEN "retry" ELSE "interrupted")
  /\ UNCHANGED <<marks, import, dataJob, restarts, reports, deaf>>

ImportStep(c) ==
  \/ NewDataImport(c) \/ GiveFile(c) \/ DataImportPreview(c) \/ DiscardDataImport(c)
  \/ ResumeDataImport(c) \/ StartDataImport(c) \/ PollStatus(c) \/ PollWarnings(c)
  \/ ReportDataImport(c)
ReportStep(c) ==
  \/ CheckPrepared(c) \/ FirstRun(c) \/ FindQueued(c) \/ MakePrepared(c) \/ WaitPrepared(c)
  \/ FetchPrepared(c)

JobInit ==
  /\ marks \in BOOLEAN
  /\ import = NoImport /\ dataJob = "none" /\ restarts = 0
  /\ reports \in {<<>>} \cup {<<[filters |-> f, status |-> s]>> : f \in Filters, s \in {"queued", "done"}}
  /\ run = [c \in Runs |-> NotRun] /\ deaf = {}

JobNext ==
  \/ \E c \in Runs :
       \/ \E ask \in Asks[c] : StartCommand(c, ask)
       \/ ImportStep(c) \/ ReportStep(c) \/ InterruptCommand(c)
  \/ JobTakes \/ JobEnds \/ \E ok \in BOOLEAN : JobWrites(ok)
  \/ \E i \in DOMAIN reports : ReportEnds(i)

JobSpec == JobInit /\ [][JobNext]_siteJobVars

-----------------------------------------------------------------------------
CommandEnded(c, exits) == CommandAt(c, "ended") /\ run[c].exit \in exits

\* A report of an import is of a run that is over: it has the counts of the
\* site's log and says ok only if every document was imported, though on
\* older sites the run's last status is also set during the run (unless the
\* job is started twice: the second waits may see the first's end).  And a
\* Data Import that was never started is left behind only for --preview, for
\* a retry that is named, or where it could not be deleted or was never heard
\* of.
ImportIsReported ==
  /\ \A c \in Runs :
       CommandEnded(c, {"ok", "partial", "died"}) /\ import.there /\ restarts = 1 =>
         /\ run[c].good = Count(import.logs, TRUE) /\ run[c].bad = Count(import.logs, FALSE)
         /\ dataJob = "over" \/ run[c].good + run[c].bad = Total
         /\ run[c].exit = "ok" => run[c].good = Total
  /\ import.there /\ restarts = 0 /\ (\A c \in Runs : run[c].at \in {"idle", "ended"}) =>
       \/ deaf # {}
       \/ \E c \in Runs : CommandEnded(c, {"left", "ready", "blocked", "retry"})

\* The result of a prepared report is one of the report and the filters asked
\* for, whoever else prepares them and whatever --prepared-name names, and
\* with --fresh it is none that was there before.
ResultIsAskedFor ==
  \A c \in Runs :
    CommandEnded(c, {"result"}) =>
      LET ask == run[c].ask IN
      /\ reports[run[c].of].filters = ask.filters /\ reports[run[c].of].status = "done"
      /\ ask.fresh /\ ~ask.reuse => run[c].of \notin run[c].had

\* What a command tells of a job on the site is what the job did.
JobsAreTold == ImportIsReported /\ ResultIsAskedFor
=============================================================================
