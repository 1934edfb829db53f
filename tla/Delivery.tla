------------------------------ MODULE Delivery -------------------------------
(***************************************************************************)
(* What the reading half of a connection promises: the responses of the    *)
(* server reach the requests of the pipeline complete, in order and once,  *)
(* each with its own header and body, a body possibly in pieces, however   *)
(* the bytes of the connection are cut into reads.                         *)
(***************************************************************************)
EXTENDS Naturals, Sequences

CONSTANT Sent           \* the responses, in order: [fields, body]

VARIABLES out,          \* the responses handed over
          part          \* the piece of the body of the next one handed over so far

vars == <<out, part>>

Init == out = <<>> /\ part = <<>>

Current == Sent[Len(out) + 1]

More ==
    /\ Len(out) < Len(Sent)
    /\ \E n \in Len(part) + 1 .. Len(Current.body) : part' = SubSeq(Current.body, 1, n)
    /\ part = SubSeq(Current.body, 1, Len(part))
    /\ out' = out

Finish ==
    /\ Len(out) < Len(Sent)
    /\ out' = Append(out, Current)
    /\ part' = <<>>

Next == More \/ Finish

Spec == Init /\ [][Next]_vars /\ WF_vars(Next)
==============================================================================
