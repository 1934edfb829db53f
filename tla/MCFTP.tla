------------------------------- MODULE MCFTP ---------------------------------
(***************************************************************************)
(* Small instances of HTFTP for TLC.                                       *)
(***************************************************************************)
EXTENDS HTFTP

File == [kind |-> "file", path |-> <<"a", "b">>, passwd |-> TRUE]
Dir  == [kind |-> "dir", path |-> <<"a">>, passwd |-> FALSE]
Store == [kind |-> "put", path |-> <<"a">>, passwd |-> TRUE]
Root == [kind |-> "dir", path |-> <<>>, passwd |-> TRUE]

\* A file, a directory or an upload, then the root of the same server.
ThenRoot == <<{File, Dir, Store}, {Root}>>

\* What servers answer: the good reply and the bad ones the machines tell apart.
Good(code) == <<code, "">>
Polite ==
    [connect |-> {Good(220)},
     REIN |-> {Good(220), Good(502), Good(500)},
     USER |-> {Good(230), Good(331), <<530, "already">>},
     PASS |-> {Good(230), Good(332), Good(530)},
     ACCT |-> {Good(230), Good(530)},
     TYPE |-> {Good(200), Good(504)},
     PORT |-> {Good(200), Good(500)},
     SYST |-> {<<215, "unix">>, Good(500)},
     PWD  |-> {<<257, "/">>, <<257, "other">>, Good(550)},
     CWD  |-> {Good(250), Good(550)},
     RETR |-> {Good(150), Good(550), Good(553)},
     LIST |-> {Good(125), Good(550)},
     NLST |-> {Good(225), Good(550)},
     STOR |-> {Good(150), Good(553)}]

\* How many lines the replies have: one, two, or more with one that has no code.
OneLine == <<>>
TwoLines == <<"coded">>
WithPlain == <<"coded", "plain">>
Lines == [m \in Commands \cup {"connect", "over"} |->
             CASE m = "LIST"           -> {WithPlain}
               [] m \in {"RETR", "over"} -> {TwoLines}
               [] OTHER                -> {OneLine}]
==============================================================================
