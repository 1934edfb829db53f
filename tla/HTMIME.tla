------------------------------- MODULE HTMIME --------------------------------
(***************************************************************************)
(* The parser of the header of a message (HTMIME_put_block of HTMIME.c),   *)
(* as operators on its state.  The token and the value of a header may be  *)
(* cut by the end of a block; within a block they are kept as places in    *)
(* it: start and end of the line, and value, 0 for NULL.                   *)
(***************************************************************************)
EXTENDS Integers, Sequences

NewParser == [eol |-> "BEGIN", token |-> <<>>, haveToken |-> FALSE, text |-> <<>>,
              start |-> 1, end |-> 1, value |-> 0, at |-> 1,
              fields |-> <<>>, done |-> FALSE]

\* Mutant: a value that has begun in the block before is forgotten.
BlockForgets(m) ==
    [m EXCEPT !.start = 1, !.end = 1, !.at = 1, !.value = 0]

\* At the start of a block.
Block(m) ==
    [m EXCEPT !.start = 1, !.end = 1, !.at = 1, !.value = IF m.text # <<>> THEN 1 ELSE 0]

\* The end of line machine: what the byte makes of an end of line seen before.
EndOfLine(eol, b) ==
    CASE eol = "FCR" -> CASE b = "CR" -> "END" [] b = "LF" -> "FLF"
                          [] b = "SP" -> "FOLD" [] OTHER -> "LINE"
      [] eol = "FLF" -> CASE b = "CR" -> "SCR" [] b = "LF" -> "END"
                          [] b = "SP" -> "FOLD" [] OTHER -> "LINE"
      [] eol = "SCR" -> CASE b \in {"CR", "LF"} -> "END"
                          [] b = "SP" -> "FOLD" [] OTHER -> "LINE"
      [] OTHER       -> CASE b = "CR" -> "FCR" [] b = "LF" -> "FLF" [] OTHER -> eol

ToText(m, block) == IF m.value = 0 THEN <<>> ELSE SubSeq(block, m.value, m.end - 1)

\* A byte of a line.
Char(m, block, b) ==
    [m EXCEPT
       !.token     = IF ~m.haveToken /\ b \in {"COLON", "SP"}
                     THEN @ \o SubSeq(block, m.start, m.end - 1) ELSE @,
       !.haveToken = @ \/ b \in {"COLON", "SP"},
       !.value     = IF m.haveToken /\ @ = 0 /\ b \notin {"COLON", "SP"} THEN m.at ELSE @,
       !.end       = @ + 1,
       !.at        = @ + 1]

\* The header is complete and goes to its parsers, which see no header without a
\* name; the byte is the first one of the next line.
Dispatch(m, block) ==
    [m EXCEPT
       !.fields = IF m.haveToken THEN Append(@, <<m.token, m.text \o ToText(m, block)>>) ELSE @,
       !.start = m.at, !.end = m.at, !.value = 0,
       !.token = <<>>, !.text = <<>>, !.haveToken = FALSE, !.eol = "BEGIN"]

\* A header that goes on in the next line.  "value" stays where it is.
Fold(m, block) ==
    [m EXCEPT
       !.token     = IF m.haveToken THEN @ ELSE @ \o SubSeq(block, m.start, m.end - 1),
       !.haveToken = TRUE,
       !.text      = IF m.haveToken /\ m.value # 0 THEN Append(@ \o ToText(m, block), "SP") ELSE @,
       !.start = m.at, !.end = m.at, !.eol = "BEGIN"]

\* One byte.
MimeByte(m, block, b) ==
    LET eol == EndOfLine(m.eol, b)
    IN  CASE eol = "END"  -> [Dispatch(m, block) EXCEPT !.at = @ + 1, !.done = TRUE]
          [] eol = "LINE" -> LET next == Dispatch(m, block) IN Char(next, block, b)
          [] eol = "FOLD" -> LET next == Fold(m, block) IN Char(next, block, b)
          [] eol = m.eol  -> Char(m, block, b)
          [] OTHER        -> [m EXCEPT !.eol = eol, !.at = @ + 1]

\* The end of a block: what the line has so far is put aside.  An empty line is
\* taken for the end of the header.
Stash(m, block) ==
    CASE ~m.haveToken /\ m.end > m.start ->
            [m EXCEPT !.token = @ \o SubSeq(block, m.start, m.end - 1)]
      [] ~m.haveToken /\ m.end = m.start -> [m EXCEPT !.done = TRUE]
      [] OTHER -> [m EXCEPT !.text = @ \o ToText(m, block)]

==============================================================================
