----------------------------- MODULE MCEventLoop -----------------------------
(***************************************************************************)
(* Small instances of HTEventLoop for TLC.                                 *)
(***************************************************************************)
EXTENDS HTEventLoop, TLC

CONSTANTS e1, e2, e3, e4, t1

TwoSocks == {1, 2}

\* One event for each direction of the first socket and two, one after the
\* other, for reading from the second.
ThreeSlots == (e1 :> <<1, "READ">>) @@ (e2 :> <<1, "WRITE">>)
                @@ (e3 :> <<2, "READ">>) @@ (e4 :> <<2, "READ">>)

TwoPriorities == [e \in Events |-> IF e = e1 THEN 2 ELSE 1]

TwoTimeouts == [e \in Events |-> IF e = e1 THEN 1 ELSE IF e = e3 THEN 2 ELSE -1]
=============================================================================
