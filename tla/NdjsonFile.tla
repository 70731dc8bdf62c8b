------------------------------ MODULE NdjsonFile ------------------------------
(***************************************************************************)
(* One append-only NDJSON file, character by character as far as its       *)
(* readers can tell: the writer of output.py, the tolerant reader that     *)
(* counts and converts records, and the strict readers with which the      *)
(* fan-out phases list teams and repositories.  It is the detail behind    *)
(* the variable tail of RepoHarvest.                                       *)
(*                                                                         *)
(* A record's JSON text is two halves, of which neither parses alone.      *)
(* json.dumps(ensure_ascii=False) escapes the newline, but leaves U+0085,  *)
(* U+2028 and U+2029 as they are, and str.splitlines() splits on them: the *)
(* text of a record in Splits has such a character between its halves.     *)
(***************************************************************************)
EXTENDS Integers, Sequences, FiniteSets, Functions, SequencesExt

CONSTANTS
    Record,          \* the records the engine may write
    Splits,          \* those with a line separator JSON does not escape
    MaxWrites,       \* bound: completed writes
    MaxKills         \* bound: kills in the middle of a write

ASSUME RecordAssumption == Splits \subseteq Record
ASSUME BoundAssumption  == MaxWrites \in Nat /\ MaxKills \in Nat

VARIABLES
    file,            \* the characters of the file
    completed,       \* history: the records whose write_record returned
    torn,            \* history: the records a kill cut off, wherever it did
    fresh            \* history: nothing was appended since the last kill

fileVars == <<file, completed, torn, fresh>>

Half(r, h) == <<r, h>>
Newline    == <<"newline", "">>
Separator  == <<"separator", "">>

Text(r) == IF r \in Splits THEN <<Half(r, "first"), Separator, Half(r, "second")>>
                           ELSE <<Half(r, "first"), Half(r, "second")>>
Line(r) == Append(Text(r), Newline)

FileInit == /\ file = <<>>
            /\ completed = <<>>
            /\ torn = <<>>
            /\ fresh = TRUE

(* write_record: one line, flushed and fsynced.  The file was opened with  *)
(* mode "a": the line goes wherever the file happens to end.               *)
MutantAppended(r) == Text(r)
MutantRewritten(r) == Line(r) \o Line(r)
Appended(r) == Line(r)

AppendRecord(r) ==
    /\ Len(completed) < MaxWrites
    /\ file' = file \o Appended(r)
    /\ completed' = Append(completed, r)
    /\ fresh' = FALSE
    /\ UNCHANGED torn

(* The process is killed with part of the line in the file.                *)
Kill(r) ==
    /\ Len(torn) < MaxKills
    /\ \E k \in 1 .. Len(Line(r)) - 1 : file' = file \o SubSeq(Line(r), 1, k)
    /\ torn' = Append(torn, r)
    /\ fresh' = TRUE
    /\ UNCHANGED completed

FileNext == \E r \in Record : AppendRecord(r) \/ Kill(r)

FileSpec == FileInit /\ [][FileNext]_fileVars

----------------------------------------------------------------------------
(* Readers                                                                 *)

(* What a reader that splits on breaks has after some characters: the      *)
(* non-blank lines it has seen the end of, and the line it is in.          *)
Blank == [whole |-> <<>>, line |-> <<>>]
Whole(s) == IF s.line = <<>> THEN s.whole ELSE Append(s.whole, s.line)
Read(breaks, s, c) == IF c \in breaks THEN [whole |-> Whole(s), line |-> <<>>]
                      ELSE [s EXCEPT !.line = Append(s.line, c)]
Reading(breaks, chars) ==
    LET after[n \in 0 .. Len(chars)] ==
            IF n = 0 THEN Blank ELSE Read(breaks, after[n - 1], chars[n])
    IN  after[Len(chars)]

(* The non-blank lines of the file for that reader.                        *)
Lines(breaks) == Whole(Reading(breaks, file))

Parses(line)   == \E r \in Record : line = Text(r)
RecordOf(line) == CHOOSE r \in Record : line = Text(r)
Parsed(lines)  == [n \in DOMAIN lines |-> RecordOf(lines[n])]

Raised == [ok |-> FALSE, records |-> <<>>]
Loaded(lines) == [ok |-> TRUE, records |-> Parsed(lines)]

(* read_ndjson_tolerant: a last line that does not parse is discarded, and *)
(* any other one raises.                                                   *)
MutantDiscarded(lines) == IF lines = <<>> THEN lines ELSE Front(lines)
Discarded(lines) == IF lines # <<>> /\ ~Parses(Last(lines)) THEN Front(lines) ELSE lines

ReadTolerant ==
    LET kept == Discarded(Lines({Newline, Separator}))
    IN  IF \A n \in DOMAIN kept : Parses(kept[n]) THEN Loaded(kept) ELSE Raised

(* _read_ndjson and _read_repositories: lines end at a newline only, and   *)
(* any line that does not parse raises.                                    *)
ReadStrict ==
    LET lines == Lines({Newline})
    IN  IF \A n \in DOMAIN lines : Parses(lines[n]) THEN Loaded(lines) ELSE Raised

----------------------------------------------------------------------------
(* Properties                                                              *)

(* FileTypeOK: every variable holds a value of its kind.                   *)
FileTypeOK ==
    /\ file \in Seq({Newline, Separator} \cup (Record \X {"first", "second"}))
    /\ completed \in Seq(Record) /\ torn \in Seq(Record)
    /\ fresh \in BOOLEAN
    /\ Len(completed) <= MaxWrites /\ Len(torn) <= MaxKills

(* The text of the last record may be complete when the kill took only its *)
(* newline.                                                                *)
MayHold == {completed} \cup IF torn = <<>> THEN {} ELSE {Append(completed, Last(torn))}

(* FirstKillIsHarmless: as long as nothing was appended after the first    *)
(* kill, the tolerant reader returns every completed record, in order, and *)
(* at most the one in flight beside them (the recovery AC-4.6 relies on),  *)
(* unless a record of the file has a separator in its text.                *)
AtMostOneKill == torn = <<>> \/ (Len(torn) = 1 /\ fresh)
FirstKillIsHarmless ==
    AtMostOneKill /\ Range(completed \o torn) \cap Splits = {}
        => ReadTolerant.ok /\ ReadTolerant.records \in MayHold

(* NothingInvented: no reader returns more of a record than was written,   *)
(* completely or up to its newline, however lines run into each other.     *)
Times(x, s) == Cardinality({i \in DOMAIN s : s[i] = x})
NothingInvented ==
    \A read \in {ReadTolerant, ReadStrict} : \A r \in Record :
        Times(r, read.records) <= Times(r, completed) + Times(r, torn)
=============================================================================
