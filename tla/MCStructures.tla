---------------------------- MODULE MCStructures -----------------------------
(***************************************************************************)
(* The algorithms without a protocol, side by side: a tree grows from      *)
(* nothing, or names do.                                                   *)
(***************************************************************************)
EXTENDS HTBTree, HTParse

\* In canonical form, another host, with the port of http, with another port.
HostForms == {<<"h">>, <<"g">>, <<"HOST", ".", ":", "80">>, <<"HOST", ":", "21">>}

Shortest == Name(<<"h">>, <<"/">>)

Init == TreeInit /\ NameInit

Next ==
    \/ name = Shortest /\ base = Shortest /\ TreeNext /\ UNCHANGED nameVars
    \/ key = <<>> /\ NameNext /\ UNCHANGED treeVars

Spec == Init /\ [][Next]_<<treeVars, nameVars>>
==============================================================================
