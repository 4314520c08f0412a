------------------------------- MODULE MCInput -------------------------------
(* Instances of InputClient for TLC.  A file is a prefix of Tape, whose      *)
(* characters are all different but for the newlines, so that a character    *)
(* that is lost, repeated or moved is seen.                                  *)
EXTENDS InputClient

Tape == <<11, 12, 10, 13, 14, 10, 15, 16, 17, 10, 18, 19, 20, 21>>

MCChars == 10..21

\* Every length around the first read (three times MAXLEX) and one flush after it.
MCFiles == {SubSeq(Tape, 1, n) : n \in 1..10 \union {14}}

MCLongFile == {Tape}

MCFewFiles == {SubSeq(Tape, 1, n) : n \in {3, 8}}
=============================================================================
