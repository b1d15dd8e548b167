----------------------------- MODULE ModelTurns -----------------------------
(***************************************************************************)
(* What the app sends to a model and what it makes of the answer: the      *)
(* history as it is replayed (assistant_loop.go, history_import.go,        *)
(* attachments.go) and the four adapters of desktop/llm.                   *)
(*                                                                         *)
(* A message is                                                            *)
(*   [role, said, thinks, files, uses, results, fromFile]                  *)
(* said: it has text; thinks: the providers whose thinking it holds;       *)
(* files: its images and PDFs; uses, results: the ids of its tool calls    *)
(* and tool results, in order; fromFile: it replays an imported message.   *)
(* A call's id is its place in its turn, as the adapters number the calls  *)
(* of a server that sends none: other servers' ids repeat less.            *)
(***************************************************************************)
EXTENDS Selection, SequencesExt

Kinds == {"anthropic", "openai", "gemini", "compat"}

NoMessage == [role |-> "user", said |-> FALSE, thinks |-> {}, files |-> {},
              uses |-> <<>>, results |-> <<>>, fromFile |-> FALSE]

IsEmpty(m) ==
  ~m.said /\ m.thinks = {} /\ m.files = {} /\ m.uses = <<>> /\ m.results = <<>>

-----------------------------------------------------------------------------
(* The history a run replays.                                              *)

\* foldImported: all that was imported is one piece of quoted text, at the
\* head of the first user message or as one.
FoldImported(own, imported) ==
  LET block == [NoMessage EXCEPT !.said = TRUE]
  IN  IF imported = <<>> THEN own
      ELSE IF own # <<>> /\ own[1].role = "user"
      THEN [own EXCEPT ![1].said = TRUE]
      ELSE <<block>> \o own

Calls(h, i) == i \in DOMAIN h /\ h[i].role = "assistant" /\ h[i].uses # <<>>

\* Mutant of RepairHistory: a call that was never answered stays so.
RepairNothing(h) == h

\* repairHistory: the message after one with calls is a user message with one
\* result for each of them, whether it was stored or not, and no other.
RepairHistory(h) ==
  LET Answers(i) == i \in DOMAIN h /\ h[i].role = "user"
      answer == [i \in DOMAIN h |->
                   [(IF Answers(i + 1) THEN h[i + 1] ELSE NoMessage)
                      EXCEPT !.results = Ascending(ToSet(h[i].uses))]]
      kept == {i \in DOMAIN h : ~(Answers(i) /\ Calls(h, i - 1))}
  IN  Chosen(InTurn(h, answer),
             {2 * i - 1 : i \in kept} \cup {2 * i : i \in {j \in DOMAIN h : Calls(h, j)}})

\* dropImages, dropDocuments, labelDocuments: of the files, those the model
\* reads are sent; a note stands for each of the others.
SendFiles(h, reads) ==
  [i \in DOMAIN h |->
     [h[i] EXCEPT !.files = @ \cap reads,
                  !.said = @ \/ ~(h[i].files \subseteq reads)]]

-----------------------------------------------------------------------------
(* The adapters: the history as each provider gets it.                     *)

\* mergeSameRole: each run of messages of one role becomes one message.
Joined(run) ==
  [role |-> run[1].role,
   said |-> \E i \in DOMAIN run : run[i].said,
   thinks |-> UNION {run[i].thinks : i \in DOMAIN run},
   files |-> UNION {run[i].files : i \in DOMAIN run},
   uses |-> FlattenSeq([i \in DOMAIN run |-> run[i].uses]),
   results |-> FlattenSeq([i \in DOMAIN run |-> run[i].results]),
   fromFile |-> \E i \in DOMAIN run : run[i].fromFile]

EndOfRun(h, i) ==
  Min({j \in i..Len(h) : j = Len(h) \/ h[j + 1].role # h[i].role})

MergeSameRole(h) ==
  Chosen([i \in DOMAIN h |-> Joined(SubSeq(h, i, EndOfRun(h, i)))],
         {i \in DOMAIN h : i = 1 \/ h[i - 1].role # h[i].role})

NotEmpty(h) == Chosen(h, {i \in DOMAIN h : ~IsEmpty(h[i])})

\* messageParam: parts as they are, without another provider's thinking; a
\* message with nothing left is not sent.
AnthropicWire(h) ==
  LET merged == MergeSameRole(h)
  IN  NotEmpty([i \in DOMAIN merged |->
                  [merged[i] EXCEPT !.thinks = @ \cap {"anthropic"}]])

\* The tool turn that answers a turn's calls: a call without a stored result
\* gets an error for one, a result of no call is dropped.
Outputs(calls) == [NoMessage EXCEPT !.role = "tool", !.results = calls]

\* What of a merged user message is its own.
Own(m) == [m EXCEPT !.results = <<>>]

\* inputItems, historyParams: each model turn, then the outputs of its calls,
\* then what else the user message after it holds, which has no calls.
ItemWire(h, kept) ==
  LET merged == MergeSameRole(h)
      turns  == [i \in DOMAIN merged |->
                   IF merged[i].role = "assistant"
                   THEN [merged[i] EXCEPT !.thinks = @ \cap kept]
                   ELSE Own(merged[i])]
  IN  NotEmpty(InTurn(turns, [i \in DOMAIN merged |-> Outputs(merged[i].uses)]))

OpenAIWire(h) == ItemWire(h, {"openai"})
CompatWire(h) == ItemWire(h, {})

\* buildContents: the user turn after a model turn begins with one response
\* for each of its calls; calls at the end of the history get a turn of them.
GeminiWire(h) ==
  LET merged == MergeSameRole(h)
      n      == Len(merged)
      At(i) ==
        IF merged[i].role = "assistant"
        THEN [merged[i] EXCEPT !.thinks = @ \cap {"gemini"}]
        ELSE IF i > 1 THEN [merged[i] EXCEPT !.results = merged[i - 1].uses]
        ELSE Own(merged[i])
      last == IF Calls(merged, n)
              THEN <<[NoMessage EXCEPT !.results = merged[n].uses]>> ELSE <<>>
  IN  NotEmpty([i \in 1..n |-> At(i)] \o last)

Wire(kind, h) ==
  CASE kind = "anthropic" -> AnthropicWire(h)
    [] kind = "openai"    -> OpenAIWire(h)
    [] kind = "gemini"    -> GeminiWire(h)
    [] kind = "compat"    -> CompatWire(h)

-----------------------------------------------------------------------------
(* The adapters: a streamed turn as it comes together.                     *)
(*                                                                         *)
(* A block is [is, args, done]: text, thinking or a call, how much of the  *)
(* call's arguments arrived ("none", "part": not JSON, "whole"), and       *)
(* whether the provider said the block was over.                           *)

Block(is, args, done) == [is |-> is, args |-> args, done |-> done]

FullBlocks ==
  {Block("text", "none", TRUE), Block("think", "none", TRUE)} \cup
  {Block("use", a, TRUE) : a \in {"part", "whole"}}

\* The block a limit cut off.
CutBlocks ==
  {Block("text", "none", FALSE), Block("think", "none", FALSE)} \cup
  {Block("use", a, FALSE) : a \in {"none", "part", "whole"}}

\* A turn as the adapter ends it: what the message holds and its calls, each
\* [err, cut]: refused for its arguments; cut off before they were whole.
Turn(reason, said, thinks, calls) ==
  [ends |-> "stop", reason |-> reason, said |-> said, thinks |-> thinks,
   calls |-> calls]

Failed(how, said) ==
  [ends |-> how, reason |-> "none", said |-> said, thinks |-> {}, calls |-> <<>>]

Has(blocks, is) == \E i \in DOMAIN blocks : blocks[i].is = is

CallOf(b, ok) == [err |-> ~ok, cut |-> ~b.done /\ b.args # "whole",
                  args |-> b.args]

CallsOf(blocks, reason, Ok(_), Keep(_)) ==
  LET kept == Chosen(blocks, {i \in DOMAIN blocks :
                blocks[i].is = "use" /\ (reason = "max_tokens" => Keep(blocks[i]))})
  IN  [i \in DOMAIN kept |-> CallOf(kept[i], Ok(kept[i]))]

\* toolCall of the adapters that learn where a block ends: no arguments are
\* the empty object, and arguments of an unfinished block are not usable.
FinishedCall(b) == b.args \in {"none", "whole"} /\ b.done

\* toolCall where the stream does not mark the end of a call.
ReadableCall(b) == b.args \in {"none", "whole"}

\* stop of the Messages API's adapter.
AnthropicTurn(blocks, reason) ==
  Turn(reason, Has(blocks, "text"),
       IF \E i \in DOMAIN blocks : blocks[i].is = "think" /\ blocks[i].done
         THEN {"anthropic"} ELSE {},
       CallsOf(blocks, reason, FinishedCall, FinishedCall))

\* stop of the Responses API's adapter: a turn with calls is a tool turn; a
\* refusal is one when nothing else ended the turn.
OpenAITurn(blocks, reason) ==
  LET tool == Has(blocks, "use")
      why  == CASE reason = "end_turn" /\ tool -> "tool_use"
                [] reason = "refused" -> IF tool THEN "tool_use" ELSE "refusal"
                [] OTHER -> reason
  IN  Turn(why, Has(blocks, "text") \/ reason = "refused",
           IF \E i \in DOMAIN blocks : blocks[i].is = "think" /\ blocks[i].done
             THEN {"openai"} ELSE {},
           CallsOf(blocks, why, FinishedCall, FinishedCall))

\* stop of the chat completions adapter: reasoning is dropped.
CompatTurn(blocks, reason) ==
  Turn(IF reason = "end_turn" /\ Has(blocks, "use") THEN "tool_use" ELSE reason,
       Has(blocks, "text"), {},
       CallsOf(blocks, reason, ReadableCall, ReadableCall))

\* finishReason and stop of the Gemini adapter: its calls arrive whole; some
\* reasons mean there is no usable answer.
GeminiTurn(blocks, reason) ==
  IF reason = "malformed" THEN Failed("no answer", Has(blocks, "text"))
  ELSE Turn(IF reason = "end_turn" /\ Has(blocks, "use") THEN "tool_use"
              ELSE reason,
            Has(blocks, "text"),
            IF Has(blocks, "think") THEN {"gemini"} ELSE {},
            LET uses == Chosen(blocks, {i \in DOMAIN blocks : blocks[i].is = "use"})
            IN  [i \in DOMAIN uses |-> CallOf(uses[i], TRUE)])

\* The ways a stream of up to two blocks ends, other than in a failure: the
\* events each adapter handles, and the reasons it is given for the end.
Complete == {<<>>} \cup {<<b>> : b \in FullBlocks}
              \cup {<<b, c>> : b \in FullBlocks, c \in FullBlocks}
CutOff   == {<<b>> : b \in CutBlocks}
              \cup {<<b, c>> : b \in FullBlocks, c \in CutBlocks}

\* handle: a block is over when content_block_stop says so.
AnthropicScripts ==
  {AnthropicTurn(b, r) :
     b \in Complete, r \in {"end_turn", "tool_use", "pause_turn", "refusal",
                            "max_tokens"}}
    \cup {AnthropicTurn(b, "max_tokens") : b \in CutOff}

\* handle, finish: an item is over when output_item.done says so.
OpenAIScripts ==
  {OpenAITurn(b, r) : b \in Complete, r \in {"end_turn", "refused"}}
    \cup {OpenAITurn(b, "max_tokens") : b \in Complete \cup CutOff}

\* handle: nothing says that a call is over but the end of the stream.
CompatScripts ==
  {CompatTurn(b, r) :
     b \in Complete, r \in {"end_turn", "tool_use", "refusal"}}
    \cup {CompatTurn(b, "max_tokens") : b \in Complete \cup CutOff}

\* event, handle, part: a call comes whole in one part.
GeminiScripts ==
  LET whole == {bs \in Complete \cup CutOff :
                  \A i \in DOMAIN bs : bs[i].is = "use" =>
                    bs[i].done /\ bs[i].args = "whole"}
  IN  {GeminiTurn(b, r) :
         b \in whole, r \in {"end_turn", "max_tokens", "refusal", "malformed"}}

Scripts(kind) ==
  CASE kind = "anthropic" -> AnthropicScripts
    [] kind = "openai"    -> OpenAIScripts
    [] kind = "compat"    -> CompatScripts
    [] kind = "gemini"    -> GeminiScripts

\* Next and mapErr: a stream that breaks off.  A failure before any output is
\* tried again when it is worth it.
Broken == {Failed("retryable", FALSE), Failed("error", FALSE),
           Failed("error", TRUE)}

Outcomes == [k \in Kinds |-> Scripts(k) \cup Broken]

\* What a provider accepts: it begins with the user, each turn's calls are
\* answered one for one in the turn after it and nothing else is answered,
\* nothing is empty and no thinking is another provider's.
Accepted(kind, w) ==
  /\ w # <<>> /\ w[1].role = "user"
  /\ \A i \in DOMAIN w :
       /\ ~IsEmpty(w[i]) /\ w[i].thinks \subseteq {kind}
       /\ w[i].uses # <<>> =>
            i < Len(w) /\ w[i + 1].results = w[i].uses
       /\ w[i].results # <<>> => i > 1 /\ w[i - 1].uses = w[i].results
=============================================================================
