----------------------------- MODULE MCNdjsonFile -----------------------------
(***************************************************************************)
(* NdjsonFile with two plain records and one whose text has a separator,   *)
(* three completed writes and two kills: a torn line can be continued by a *)
(* whole one, by a second torn one, and stand in the middle of the file.   *)
(***************************************************************************)
EXTENDS NdjsonFile

CONSTANTS r1, r2, r3
Records    == {r1, r2, r3}
WithBreaks == {r3}
=============================================================================
