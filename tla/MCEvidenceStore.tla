-------------------------- MODULE MCEvidenceStore --------------------------
(* Two scans, or one, over two stems. *)
EXTENDS EvidenceStore

CONSTANTS w1, w2, s1, s2
OneWriter == {w1}
TwoWriters == {w1, w2}
TwoStems == {s1, s2}
=============================================================================
