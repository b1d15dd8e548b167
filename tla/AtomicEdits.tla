---------------------------- MODULE AtomicEdits ----------------------------
(***************************************************************************)
(* What config.Edit and config.Overwrite (internal/config/file.go) promise *)
(* the processes that share a config file: each edit happens at once, on   *)
(* the file as it is at that moment, so none reverts another silently.     *)
(***************************************************************************)
CONSTANT Edits

VARIABLES
  file,   \* the edits whose effect the file shows
  made    \* the edits made so far

Init == file = {} /\ made = {}

\* Edit keeps what is there; Overwrite discards it.
Make(e) ==
  /\ e \notin made
  /\ made' = made \cup {e}
  /\ file' \in {file \cup {e}, {e}}

Next == \E e \in Edits : Make(e)

Spec == Init /\ [][Next]_<<file, made>>
=============================================================================
