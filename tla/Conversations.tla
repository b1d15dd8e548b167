--------------------------- MODULE Conversations ---------------------------
(***************************************************************************)
(* One conversation as its messages change: prompts, files, runs, and the  *)
(* actions on messages (desktop/services: message_actions.go,              *)
(* attachments.go, assistant.go, assistant_loop.go; desktop/store:         *)
(* attachments.go, api.go, history.go).                                    *)
(*                                                                         *)
(* Starting a run and the message actions hold the runner's lock from      *)
(* their first read to their last write, so one of them is under way at a  *)
(* time (op) and none while a run is active; the composer's calls and the  *)
(* run go on between their steps.  Each store transaction is a step, which *)
(* may fail, and the app may die between two of them.                      *)
(***************************************************************************)
EXTENDS ModelTurns, FiniteSets

CONSTANTS
  Files,          \* attachments
  MaxPerMessage,  \* attach.MaxPerMessage
  MaxRows,        \* bound: how many messages are ever stored (an imported
                  \* history counts for one)
  MaxTurns,       \* loopTurnCap
  MaxTries,       \* len(runner.backoff)
  Callers         \* goroutines of Send

VARIABLES
  rows,       \* store: the messages, in order
  made,       \* how many messages were ever stored; their ids
  file,       \* store: where each attachment is
  status,     \* store: the last run's status: running, paused or ended
  kind,       \* store: the kind of the conversation's provider
  sends,      \* the files each Send has read
  op,         \* the call that holds the runner's lock
  run,        \* the active run: where it is, its turns, tries and outcome
  turn,       \* the turn with calls the model ended
  request,    \* the history as the run sent it
  cancelled,  \* the run's ctx is cancelled
  ranCut,     \* of the turn's calls, those cut off in the stream that ran
  upTo        \* history: the last message when the run paused, or 0

stored  == <<rows, made, file>>
runVars == <<run, turn, request, cancelled, ranCut>>
vars    == <<stored, status, kind, sends, op, runVars, upTo>>

\* Where an attachment is: not added yet, staged for the next message,
\* removed, or of a message.
New    == -1
Staged == 0
Gone   == -2

NoOp   == [what |-> "none", at |-> "none", row |-> 0, files |-> {}]
NoRun  == [at |-> "off", turns |-> 0, tries |-> 0, out |-> "none"]
NoTurn == [declined |-> FALSE, calls |-> 0, cut |-> {}]
NoFiles == {}

Row(id, imported, m) == [id |-> id, imported |-> imported, m |-> m]

\* What an imported file holds: a prompt, and an answer whose call has no
\* result.
Imported ==
  <<Row(-1, TRUE, [NoMessage EXCEPT !.said = TRUE, !.fromFile = TRUE]),
    Row(-2, TRUE, [NoMessage EXCEPT !.role = "assistant", !.uses = <<1>>,
                                   !.fromFile = TRUE])>>

Init ==
  /\ \/ rows = <<>> /\ made = 0
     \/ rows = Imported /\ made = 1
  /\ file = [f \in Files |-> New]
  /\ status = "ended"
  /\ kind \in Kinds
  /\ sends = [u \in Callers |-> NoFiles]
  /\ op = NoOp
  /\ run = NoRun /\ turn = NoTurn /\ request = <<>> /\ cancelled = FALSE
  /\ upTo = 0 /\ ranCut = {}

-----------------------------------------------------------------------------
(* The store.                                                              *)

StagedFiles == {f \in Files : file[f] = Staged}
FilesOf(id) == {f \in Files : file[f] = id}

\* appendMessageTx.
Stored(m) == /\ made < MaxRows
             /\ made' = made + 1
             /\ rows' = Append(rows, Row(made + 1, FALSE, m))

\* AppendUserMessage: the message and its files are stored together or, when
\* one is no longer staged, not at all.
AppendUserMessage(m, fs) ==
  /\ fs \subseteq StagedFiles
  /\ Stored(m)
  /\ file' = [f \in Files |-> IF f \in fs THEN made + 1 ELSE file[f]]

\* DeleteMessages: the rows from..to with their files, but those of the row
\* restaged are staged again.
DeleteMessages(from, to, restaged) ==
  LET ids == {rows[i].id : i \in from..to}
  IN  /\ rows' = SubSeq(rows, 1, from - 1) \o SubSeq(rows, to + 1, Len(rows))
      /\ file' = [f \in Files |->
                    CASE file[f] < 1 \/ file[f] \notin ids -> file[f]
                      [] file[f] = restaged -> Staged
                      [] OTHER -> Gone]

AbandonPausedRuns ==
  /\ status' = IF status = "paused" THEN "ended" ELSE status
  /\ upTo' = 0

-----------------------------------------------------------------------------
(* The composer: calls that do not take the runner's lock.                 *)

\* takesImages, takesPDFs: by the provider's kind.
Reads(k) == IF k = "compat" THEN {} ELSE Files

\* AddAttachment, AddDroppedFile, AddPastedImage, stage: a file of a kind the
\* model reads, while the message has room.
AddAttachment(f) ==
  /\ file[f] = New /\ f \in Reads(kind)
  /\ Cardinality(StagedFiles) < MaxPerMessage
  /\ file' = [file EXCEPT ![f] = Staged]
  /\ UNCHANGED <<rows, made, status, kind, sends, op, runVars, upTo>>

RemoveAttachment(f) ==
  /\ file[f] = Staged
  /\ file' = [file EXCEPT ![f] = Gone]
  /\ UNCHANGED <<rows, made, status, kind, sends, op, runVars, upTo>>

\* Send with files, up to startParts: those it names are read, and become parts when
\* the model takes them.
Send(u, fs) ==
  /\ sends[u] = NoFiles /\ fs # NoFiles
  /\ fs \subseteq StagedFiles \cap Reads(kind)
  /\ Cardinality(fs) <= MaxPerMessage
  /\ sends' = [sends EXCEPT ![u] = fs]
  /\ UNCHANGED <<stored, status, kind, op, runVars, upTo>>

-----------------------------------------------------------------------------
(* Calls under the runner's lock.                                          *)

\* admit, whileIdle.
Idle == op = NoOp /\ run = NoRun

Begins(what, at, row, fs) ==
  /\ Idle
  /\ op' = [what |-> what, at |-> at, row |-> row, files |-> fs]

Goes(at) == op' = [op EXCEPT !.at = at]
At(what, at) == op.what = what /\ op.at = at

\* startParts, or its refusal while a run is active.
StartParts(u) ==
  /\ sends' = [sends EXCEPT ![u] = NoFiles]
  /\ \/ Begins("send", "abandon", 0, sends[u])
     \/ run # NoRun /\ sends[u] # NoFiles /\ UNCHANGED op
  /\ UNCHANGED <<stored, status, kind, runVars, upTo>>

\* isPrompt, exchange: a user message with something besides tool results.
IsPrompt(i) == LET m == rows[i].m IN m.role = "user" /\ (m.said \/ m.files # {})
EndOf(i) == Min({j \in (i + 1)..Len(rows) : IsPrompt(j)} \cup {Len(rows) + 1}) - 1
IndexOf(id) == CHOOSE i \in DOMAIN rows : rows[i].id = id

\* Mutant of BeginDelete: the paused run stays with what is left.
BeginDeleteOnly(i) ==
  /\ IsPrompt(i)
  /\ Begins("delete", "delete", rows[i].id, {})
  /\ UNCHANGED <<stored, status, kind, sends, runVars, upTo>>

\* DeleteExchange: a paused run belongs to the last answer.
BeginDelete(i) ==
  /\ IsPrompt(i)
  /\ Begins("delete", IF EndOf(i) = Len(rows) THEN "abandon" ELSE "delete",
            rows[i].id, {})
  /\ UNCHANGED <<stored, status, kind, sends, runVars, upTo>>

\* Rewind: a prompt of this app whose files fit beside those staged.
BeginRewind(i) ==
  /\ IsPrompt(i) /\ ~rows[i].imported
  /\ Cardinality(StagedFiles \cup FilesOf(rows[i].id)) <= MaxPerMessage
  /\ Begins("rewind", "abandon", rows[i].id, {})
  /\ UNCHANGED <<stored, status, kind, sends, runVars, upTo>>

\* retry: of the last prompt, when it is not an imported one.
BeginRetry ==
  \E i \in DOMAIN rows :
    /\ IsPrompt(i) /\ EndOf(i) = Len(rows) /\ ~rows[i].imported
    /\ Begins("retry", "abandon", rows[i].id, {})
    /\ UNCHANGED <<stored, status, kind, sends, runVars, upTo>>

\* Going on without continuing a paused run closes it.
Abandon ==
  /\ op.at = "abandon" /\ AbandonPausedRuns
  /\ Goes(IF op.what = "send" THEN "append" ELSE "delete")
  /\ UNCHANGED <<stored, kind, sends, runVars>>

AppendPrompt ==
  /\ At("send", "append")
  /\ AppendUserMessage([NoMessage EXCEPT !.said = op.files = {},
                                         !.files = op.files], op.files)
  /\ Goes("create")
  /\ UNCHANGED <<status, kind, sends, runVars, upTo>>

\* DeleteExchange, Rewind and retry delete what they do.
DeleteRows ==
  LET i == IndexOf(op.row)
  IN  /\ op.at = "delete"
      /\ CASE op.what = "delete" ->
                DeleteMessages(i, EndOf(i), 0) /\ op' = NoOp
           [] op.what = "rewind" ->
                DeleteMessages(i, Len(rows), op.row) /\ op' = NoOp
           [] op.what = "retry" ->
                DeleteMessages(i + 1, Len(rows), 0) /\ Goes("create")
      /\ UNCHANGED <<made, status, kind, sends, runVars, upTo>>

Launch == run' = [NoRun EXCEPT !.at = "loop"] /\ op' = NoOp

\* CreateRun and launch.
CreateRun ==
  /\ op.at = "create"
  /\ status' = "running" /\ Launch
  /\ UNCHANGED <<stored, kind, sends, turn, request, cancelled, ranCut, upTo>>

\* continueRun: ResumeRun and launch.
Continue ==
  /\ Idle /\ status = "paused"
  /\ status' = "running" /\ upTo' = 0 /\ Launch
  /\ UNCHANGED <<stored, kind, sends, turn, request, cancelled, ranCut>>

\* A read or write of the store failed: the call returns.
OpFails ==
  /\ op # NoOp /\ op' = NoOp
  /\ UNCHANGED <<stored, status, kind, sends, runVars, upTo>>

\* SetConversationProfile: the profile may name another provider.
SetProvider(k) ==
  /\ Idle /\ k # kind
  /\ kind' = k
  /\ UNCHANGED <<stored, status, sends, op, runVars, upTo>>

-----------------------------------------------------------------------------
(* The run: activeRun.loop.                                                *)

RunGoes(at) == run' = [run EXCEPT !.at = at]
RunEnds(how) == run' = [run EXCEPT !.at = "finish", !.out = how]

Messages(imported) ==
  LET of == Chosen(rows, {i \in DOMAIN rows : rows[i].imported = imported})
  IN  [i \in DOMAIN of |-> of[i].m]

\* history, then dropImages, dropDocuments and labelDocuments.
History ==
  SendFiles(RepairHistory(FoldImported(Messages(FALSE), Messages(TRUE))),
            Reads(kind))

\* The top of the loop.
NextTurn ==
  /\ run.at = "loop"
  /\ CASE cancelled -> RunEnds("ended") /\ UNCHANGED request
       [] ~cancelled /\ run.turns = MaxTurns ->
            RunEnds("paused") /\ UNCHANGED request
       [] OTHER ->
            /\ run' = [run EXCEPT !.at = "stream", !.turns = @ + 1, !.tries = 0]
            /\ request' = Wire(kind, History)
  /\ UNCHANGED <<stored, status, kind, sends, op, turn, cancelled, ranCut, upTo>>

\* keepPartial: not after an assistant message that still has tool calls.
KeepPartial(said) ==
  IF said /\ ~(rows # <<>> /\ Calls(Messages(FALSE), Len(Messages(FALSE))))
  THEN Stored([NoMessage EXCEPT !.role = "assistant", !.said = TRUE])
       /\ UNCHANGED file
  ELSE UNCHANGED stored

\* turn and streamOnce: the stream broke off.  One that gave nothing may be
\* tried again; of one the user stopped, what was shown is kept.
StreamBreaks(o) ==
  /\ run.at = "stream" /\ o.ends # "stop"
  /\ CASE cancelled -> KeepPartial(o.said) /\ RunEnds("ended")
       [] ~cancelled /\ o.ends = "retryable" /\ run.tries < MaxTries ->
            run' = [run EXCEPT !.tries = @ + 1] /\ UNCHANGED stored
       [] OTHER -> RunEnds("ended") /\ UNCHANGED stored
  /\ request' = IF run'.at = "stream" THEN request ELSE <<>>
  /\ UNCHANGED <<status, kind, sends, op, turn, cancelled, ranCut, upTo>>

\* The message of a turn: the calls in it are numbered in order.
MessageOf(o) ==
  [NoMessage EXCEPT !.role = "assistant", !.said = o.said, !.thinks = o.thinks,
                    !.uses = [i \in DOMAIN o.calls |-> i]]

\* What is left to do of a turn with calls: those cut off that can be run.
Answerable(o) ==
  [declined |-> o.reason = "refusal", calls |-> Len(o.calls),
   cut |-> {o.calls[i].args :
              i \in {j \in DOMAIN o.calls : o.calls[j].cut /\ ~o.calls[j].err}}]

\* The model's stop: its message is stored when it holds anything; calls are
\* answered whatever the reason.
TurnStops(o) ==
  /\ run.at = "stream" /\ o.ends = "stop"
  /\ IF IsEmpty(MessageOf(o)) THEN UNCHANGED stored
     ELSE Stored(MessageOf(o)) /\ UNCHANGED file
  /\ CASE o.calls # <<>> -> RunGoes("calls") /\ turn' = Answerable(o)
       [] o.calls = <<>> /\ o.reason = "pause_turn" ->
            RunGoes("loop") /\ UNCHANGED turn
       [] OTHER -> RunEnds("ended") /\ UNCHANGED turn
  /\ request' = <<>>
  /\ UNCHANGED <<status, kind, sends, op, cancelled, ranCut, upTo>>

\* execute: the calls the adapter could read run, unless the model declined
\* to go on.
CallsRun ==
  /\ run.at = "calls"
  /\ ranCut' = IF turn.declined THEN {} ELSE {<<kind, a>> : a \in turn.cut}
  /\ RunGoes("results")
  /\ UNCHANGED <<stored, status, kind, sends, op, turn, request, cancelled, upTo>>

\* The results are stored as one message; then the run goes on, unless the
\* model declined, it was cancelled, or its step budget is spent.
ResultsAreStored ==
  /\ run.at = "results"
  /\ Stored([NoMessage EXCEPT !.results = [i \in 1..turn.calls |-> i]])
  /\ CASE turn.declined \/ cancelled -> RunEnds("ended")
       [] OTHER -> RunGoes("loop") \/ RunEnds("paused")
  /\ turn' = NoTurn /\ ranCut' = {}
  /\ UNCHANGED <<file, status, kind, sends, op, request, cancelled, upTo>>

\* A write of the store failed.
RunFails ==
  /\ run.at \in {"loop", "stream", "calls", "results"}
  /\ RunEnds("ended")
  /\ turn' = NoTurn /\ request' = <<>> /\ ranCut' = {}
  /\ UNCHANGED <<stored, status, kind, sends, op, cancelled, upTo>>

Cancel ==
  /\ run # NoRun /\ ~cancelled
  /\ cancelled' = TRUE
  /\ UNCHANGED <<stored, status, kind, sends, op, run, turn, request, ranCut, upTo>>

\* FinishRun, which may fail, and leaving r.active.
Finish ==
  /\ run.at = "finish"
  /\ status' \in {run.out, status}
  /\ upTo' = IF status' = "paused" /\ rows # <<>>
             THEN rows[Len(rows)].id ELSE 0
  /\ run' = NoRun /\ cancelled' = FALSE
  /\ UNCHANGED <<stored, kind, sends, op, turn, request, ranCut>>

\* The app dies and starts again; nothing ends a run that was running.
Crash ==
  /\ sends' = [u \in Callers |-> NoFiles]
  /\ op' = NoOp /\ run' = NoRun /\ turn' = NoTurn /\ request' = <<>>
  /\ cancelled' = FALSE /\ ranCut' = {}
  /\ UNCHANGED <<stored, status, kind, upTo>>

Next ==
  \/ \E f \in Files : AddAttachment(f) \/ RemoveAttachment(f)
  \/ \E u \in Callers : StartParts(u) \/ \E fs \in SUBSET Files : Send(u, fs)
  \/ \E i \in DOMAIN rows : BeginDelete(i) \/ BeginRewind(i)
  \/ BeginRetry \/ Abandon \/ AppendPrompt \/ DeleteRows \/ CreateRun
  \/ Continue \/ OpFails
  \/ \E k \in Kinds : SetProvider(k)
  \/ NextTurn \/ CallsRun \/ ResultsAreStored \/ RunFails
  \/ /\ run.at = "stream"
     /\ \E o \in Outcomes[kind] : StreamBreaks(o) \/ TurnStops(o)
  \/ Cancel \/ Finish \/ Crash

Spec == Init /\ [][Next]_vars

-----------------------------------------------------------------------------
(* Properties.                                                             *)

\* Whatever was deleted, interrupted, imported or answered by another
\* provider before, what a run sends is a conversation its provider accepts
\* (repairHistory and the adapters' own repair), with no turn of an imported
\* file in it; and no call the stream cut off runs with half of its arguments.
\* A chat completions stream does not mark where a call ends: there one whose
\* arguments had not begun runs with none.
RequestIsAccepted ==
  /\ request # <<>> =>
       Accepted(kind, request) /\ \A i \in DOMAIN request : ~request[i].fromFile
  /\ ranCut \subseteq {<<"compat", "none">>}

\* A run that can be continued goes on from the answer it stopped in: nothing
\* was added or taken away behind it.
PausedAnswerIsThere ==
  status = "paused" => rows # <<>> /\ rows[Len(rows)].id = upTo

\* A stored prompt's files are its own and are there: none was removed,
\* sent twice or staged again while the prompt still shows it.
FilesAreThere ==
  \A i \in DOMAIN rows :
    ~rows[i].imported => \A f \in rows[i].m.files : file[f] = rows[i].id

\* What the view shows of a conversation is there to go on with: the answer a
\* paused run stopped in, and the files of every prompt.
ShownIsThere == PausedAnswerIsThere /\ FilesAreThere
=============================================================================
