----------------------------- MODULE CaptureLog -----------------------------
(***************************************************************************)
(* What an evidence directory promises of its two shared files: the        *)
(* manifest is a log that only grows, and index.json, when it can be read  *)
(* at all, presents some prefix of that log.  EvidenceStore implements it. *)
(***************************************************************************)
EXTENDS Naturals, Sequences

CONSTANT Entries   \* what an append can leave in the manifest

VARIABLES
  log,             \* the manifest
  published        \* {} or {t}, the text that index.json was rendered from

Init == log = <<>> /\ published = {}

Record == \E e \in Entries : log' = Append(log, e) /\ UNCHANGED published

\* Any prefix: one writer may publish what it read before another one appended.
Publish == \E n \in 0..Len(log) : published' = {SubSeq(log, 1, n)} /\ UNCHANGED log

\* Between the truncation of index.json and its next complete write.
Withdraw == published' = {} /\ UNCHANGED log

Next == Record \/ Publish \/ Withdraw

Spec == Init /\ [][Next]_<<log, published>>
=============================================================================
