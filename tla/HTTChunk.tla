------------------------------ MODULE HTTChunk -------------------------------
(***************************************************************************)
(* The decoder of the chunked transfer coding (HTTChunk.c), as operators   *)
(* on its state.  HTChunkDecode_block is a loop over the block it is       *)
(* given; in each round an inner loop reads the line before a chunk byte   *)
(* by byte and stops where the data of the chunk begins.                   *)
(***************************************************************************)
EXTENDS Integers, Sequences, SequencesExt

HexDigits == [d \in {"0", "1", "2", "3"} |->
                 CASE d = "0" -> 0 [] d = "1" -> 1 [] d = "2" -> 2 [] d = "3" -> 3]

\* strtol(line, 16): the digits at the start of the line, 0 where there is none.
StrToL(line, base) ==
    LET Digits(n) == \A i \in 1..n : line[i] \in DOMAIN HexDigits
        last == CHOOSE n \in 0..Len(line) : Digits(n) /\ (n = Len(line) \/ ~Digits(n + 1))
        value[i \in Nat] == IF i = 0 THEN 0 ELSE base * value[i - 1] + HexDigits[line[i]]
    IN  value[last]

NewDecoder == [eol |-> "BEGIN", line |-> <<>>, left |-> 0, last |-> FALSE,
               trailer |-> FALSE, at |-> 1, stop |-> FALSE]

\* HTChunkDecode_header, and the test for a trailer.  Of the line nothing is kept
\* but by the last chunk, after which nobody reads it.
Size(c, b) ==
    LET size == StrToL(c.line, 16)
    IN  [c EXCEPT !.left = size, !.line = <<>>, !.last = @ \/ size = 0,
                  !.trailer = (c.last \/ size = 0) /\ b \notin {"CR", "LF"},
                  !.eol = "DOT", !.stop = TRUE]

\* An end of line is a first one, before which there is the size of a chunk, or the
\* second one, which ends its data.
EndOfChunkLine(eol, b) ==
    CASE eol = "SLF"              -> "BEGIN"
      [] eol # "SLF" /\ b = "CR" -> IF eol = "DOT" THEN "SCR" ELSE "FCR"
      [] eol # "SLF" /\ b = "LF" -> IF eol = "SCR" THEN "SLF" ELSE "FLF"
      [] OTHER                    -> eol

\* One byte of the line before a chunk.
Byte(c, b) ==
    CASE c.eol = "SLF" /\ c.last -> [c EXCEPT !.stop = TRUE]
      [] c.eol = "FLF"            -> Size(c, b)
      [] OTHER -> [c EXCEPT !.eol  = EndOfChunkLine(@, b),
                            !.line = IF c.eol = "SLF" \/ b \notin {"CR", "LF"}
                                     THEN Append(@, b) ELSE @,
                            !.at   = @ + 1]

\* The inner loop goes on: at is the next byte of the block, the first one of the
\* chunk when the loop ends.
InLine(c, block) == c.left <= 0 /\ ~c.trailer /\ ~c.stop /\ c.at <= Len(block)

\* The empty line after the last chunk has been read: HT_LOADED.
IsLoaded(c) == ~c.trailer /\ c.eol = "SLF" /\ c.last

\* The end of a round in which the decoder took n bytes of data.  An empty line that
\* ended the data of a chunk is forgotten.
NextRound(c, n) ==
    [c EXCEPT !.eol = IF ~c.trailer /\ @ = "SLF" THEN "BEGIN" ELSE @,
              !.left = @ - n, !.at = 1, !.stop = FALSE]

\* What is left in the block of the chunk at hand.
Data(c, rest) == SubSeq(rest, 1, IF c.left < Len(rest) THEN c.left ELSE Len(rest))
==============================================================================
