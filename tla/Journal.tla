------------------------------- MODULE Journal -------------------------------
(***************************************************************************)
(* text.py: the JSON-lines files rows are appended to and read back from,  *)
(* as values.  A row is one line; nothing separates an append from a line  *)
(* that an earlier append left without its newline.                        *)
(***************************************************************************)
EXTENDS Naturals, Sequences

\* How the last line of a file ends: with its newline, inside the row, or after
\* the whole row but before the newline.
Tails == {"newline", "part", "whole"}

Empty == [rows |-> <<>>, tail |-> "newline"]

\* load_jsonl: a last row that lacks only its newline is a row like another; a
\* line that is not JSON is passed over.
Loaded(f) == {f.rows[i] : i \in 1..Len(f.rows)}

\* The rows that can still be read once something has run into the last line.
Survivors(f) == IF f.tail = "whole" THEN SubSeq(f.rows, 1, Len(f.rows) - 1) ELSE f.rows

\* append_jsonl: on an unfinished line the two run together into a line that is
\* not JSON, and whatever they held is lost to every reader.
AppendRow(f, row) ==
  [rows |-> IF f.tail = "newline" THEN Append(f.rows, row) ELSE Survivors(f),
   tail |-> "newline"]

\* What an append that is cut short (killed, disk full) may leave; tears are the
\* tails it can have.
CutRow(f, row, tears) ==
  {f} \cup {IF f.tail = "newline" /\ how = "whole"
            THEN [rows |-> Append(f.rows, row), tail |-> "whole"]
            ELSE [rows |-> Survivors(f), tail |-> "part"] : how \in tears}
=============================================================================
