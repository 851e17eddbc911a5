---------------------------- MODULE MCTextFiles ----------------------------
(* Paths and applications with characters that the text itself is made of. *)
EXTENDS TextFiles

MCDirectoryOf ==
  [s \in Shells |-> IF s = Saver THEN <<".", "reports", "week", "day">> ELSE <<"reports", "week", "locked">>]
MCDenied == {<<"reports", "week", "locked">>}

Odd == {Quote, Backslash, "newline", Control, Surrogate}
Processes ==
  {<<a, b>> : a \in Odd, b \in {Quote, "x"}}
  \cup {<<Quote, "allowed", Quote, ":", "[">>, <<"allowed">>, <<"fingerprint">>,
        <<Quote, ",", Blank, Quote, "fingerprint", Quote, ":", Blank, Quote, "x">>,
        <<Backslash, Quote, "fingerprint", Quote>>, <<"fingerprint", Quote, ":", Quote>>, <<>>}

Items(process, fingerprints) ==
  [k \in DOMAIN fingerprints |-> [process |-> process, fingerprint |-> fingerprints[k]]]
FingerprintLists == {<<>>, <<<<"f">>>>, <<<<"f">>, <<>>, <<"g">>>>}

MCDocuments ==
  {[kind |-> kind, app |-> process, items |-> Items(process, fps)] :
     kind \in {"baseline", "report"}, process \in Processes, fps \in FingerprintLists}
=============================================================================
