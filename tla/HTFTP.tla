-------------------------------- MODULE HTFTP --------------------------------
(***************************************************************************)
(* The FTP client (HTFTP.c): FTPEvent and the four machines below it, for  *)
(* the requests an application makes of one server one after the other.    *)
(*                                                                         *)
(* A request has a Net object for the control connection, which it leaves  *)
(* to the next request, and a second one for the data connection, which    *)
(* the server opens (FTPMode is FTP_DATA_PORT and nothing changes it, so   *)
(* the code for PASV never runs).  An event runs the machine until one of  *)
(* the connections would block; "run" is the connection the event is for.  *)
(* A command is short enough to be written at once.                        *)
(***************************************************************************)
EXTENDS Integers, Sequences

CONSTANTS Jobs,         \* one request after the other: what each of them may be
          Replies,      \* replies a server may give to each command
          Layouts,      \* lines before the last one in these replies
          Chunks,       \* blocks in a file or in a listing
          MaxPrompts,   \* times the user answers when asked for a name
          Env           \* what goes wrong

Kinds == {"file", "dir", "put"}
Commands == {"REIN", "USER", "PASS", "ACCT", "TYPE", "PORT", "SYST", "PWD", "CWD",
             "RETR", "LIST", "NLST", "STOR"}
Dangers == {"kill", "timeout", "close", "merge", "noDial", "cut", "streamError", "noServer"}

\* The names of a path have no slash, the root has none.  Only the commands for a transfer
\* are answered with a code that says that one begins (125, 150 and 225, RFC 959).  A reply
\* has any number of lines: the first has a code and a hyphen, the last a code and a
\* space, and those between them may be without a code, "plain".
Transfers == {"RETR", "LIST", "NLST", "STOR"}
Starts == {125, 150, 225}

ASSUME FTPAssumption ==
    /\ \A i \in DOMAIN Jobs : \A j \in Jobs[i] :
           /\ j.kind \in Kinds /\ j.passwd \in BOOLEAN
           /\ j.path \in Seq(STRING \ {"/"}) /\ (j.path = <<>> => j.kind = "dir")
    /\ Jobs \in Seq(SUBSET UNION {Jobs[i] : i \in DOMAIN Jobs})
    /\ DOMAIN Replies = Commands \cup {"connect"}
    /\ \A m \in DOMAIN Replies : \A r \in Replies[m] :
           r[1] \in Nat /\ (r[1] \in Starts => m \in Transfers)
    /\ DOMAIN Layouts = DOMAIN Replies \cup {"over"}
    /\ \A m \in DOMAIN Layouts : \A layout \in Layouts[m] :
           layout \in Seq({"coded", "plain"}) /\ (layout # <<>> => layout[1] = "coded")
    /\ Chunks \in Nat /\ MaxPrompts \in Nat
    /\ Env \subseteq Dangers

VARIABLES job,          \* number of requests started
          c,            \* ftp_ctrl and ftp_data of the request
          d,            \* the data connection
          conn,         \* the control connection, as the Host object has it
          run,          \* connection whose event is being handled
          version,      \* HTHost_version: what is known of the server
          commands,     \* commands on their way
          replies,      \* replies on their way
          srv,          \* the server
          clean,        \* no request left this connection before its last reply, and
                        \* every line the client has read or will read there has a code
          out           \* how the last request ended

vars == <<job, c, d, conn, run, version, commands, replies, srv, clean, out>>

(***************************************************************************)
(* State.                                                                  *)
(***************************************************************************)
Home == <<"home">>
NoJob == [kind |-> "none", path |-> <<>>, passwd |-> FALSE]

\* "line" and "text" are the state of the stream for replies, which is new for a request:
\* it waits for the first line of a reply, for more of them, or has failed for good.
Idle == [job |-> NoJob, state |-> "NONE", sub |-> "", sent |-> FALSE, cwd |-> FALSE, reset |-> FALSE,
         server |-> "unsure", type |-> "I", offset |-> 0, behind |-> <<>>,
         repcode |-> 0, text |-> "", line |-> "first",
         passwd |-> FALSE, prompts |-> 0, complete |-> {}, stream_error |-> FALSE]

NotEnded == [status |-> "", by |-> "", kind |-> "none", clean |-> TRUE, code |-> 0,
             whole |-> FALSE, left |-> 0]

NoData == [sock |-> "none", dialled |-> FALSE, sent |-> 0, read |-> 0, eof |-> FALSE]

\* The server: the greeting is still to come, the request that began the session, its
\* directory, the request that gave the port, the transfer under way, the request whose
\* CWD was refused.
NewSession == [greet |-> TRUE, since |-> 0, cwd |-> Home, port |-> 0, doing |-> "none",
               path |-> <<>>, phase |-> "dial", refused |-> 0]

\* FTPListType: NLST for servers that are not known to be like Unix.
ListType(server) == IF server = "unix" THEN "L" ELSE "N"
IsDir == c.type \in {"L", "N"}

\* The name of the root is the empty string.  NEED_SEGMENT passes the slash it has not:
\* what it finds behind the string is undefined, here no name or names that mean nothing.
Behind(j) == IF j.path = <<>> THEN {<<>>, <<"junk">>, <<"junk", "junk">>} ELSE {<<>>}

\* HTFTPParseURL and FTP_BEGIN: nothing is known of the server yet.
NewRequest(j, behind) ==
    [Idle EXCEPT !.job = j, !.state = "NEED_CCON", !.passwd = j.passwd, !.behind = behind,
                 !.type = IF j.kind = "dir" THEN ListType("unsure") ELSE "I"]

Job == c.job
Active == c.state # "NONE"
Outstanding == Len(commands) + Len(replies)
               + (IF srv.doing # "none" THEN 1 ELSE 0) + (IF srv.greet THEN 1 ELSE 0)

Init ==
    /\ job = 0 /\ c = Idle /\ d = NoData /\ out = NotEnded
    /\ conn = "none" /\ run = "none" /\ version = "none"
    /\ commands = <<>> /\ replies = <<>> /\ srv = NewSession /\ clean = TRUE

(***************************************************************************)
(* How a request ends, FTPCleanup: the data connection is closed, the      *)
(* control connection is kept, since it is persistent.                     *)
(***************************************************************************)
Ended(status, by) ==
    /\ out' = [status |-> status, by |-> by, kind |-> Job.kind, clean |-> clean, code |-> c.repcode,
               whole |-> d.eof /\ d.read = Chunks, left |-> Outstanding]
    /\ c' = Idle /\ d' = NoData /\ run' = "none"

Cleanup(status, by) ==
    /\ Ended(status, by)
    /\ clean' = (clean /\ Outstanding = 0)
    /\ UNCHANGED <<job, conn, version, commands, replies, srv>>

CloseControl ==
    conn' = "none" /\ commands' = <<>> /\ replies' = <<>> /\ srv' = NewSession /\ clean' = TRUE

(***************************************************************************)
(* FTPEvent.                                                               *)
(***************************************************************************)
Goto(sub) == c' = [c EXCEPT !.sub = sub]
Enter(state, sub) == c' = [c EXCEPT !.state = state, !.sub = sub]
Internal == UNCHANGED <<job, d, conn, version, commands, replies, srv, clean, out>>

Start ==
    /\ ~Active /\ job < Len(Jobs)
    /\ job' = job + 1
    /\ \E j \in Jobs[job + 1] : \E behind \in Behind(j) : c' = NewRequest(j, behind)
    /\ out' = NotEnded
    /\ UNCHANGED <<d, conn, run, version, commands, replies, srv, clean>>

\* A connection the Host object has is used again, with what it knows of the server.
Reuse ==
    /\ c.state = "NEED_CCON" /\ conn # "none"
    /\ c' = [c EXCEPT !.state = "NEED_LOGIN", !.sub = "SELECT", !.reset = TRUE,
                      !.server = version]
    /\ run' = "ctrl"
    /\ UNCHANGED <<job, d, conn, version, commands, replies, srv, clean, out>>

\* Mutant: the client takes a new connection for one that it uses again.
ConnectAsUsed ==
    /\ c.state = "NEED_CCON" /\ conn = "none"
    /\ conn' = "open" /\ commands' = <<>> /\ replies' = <<>> /\ clean' = TRUE
    /\ srv' = [NewSession EXCEPT !.since = job]
    /\ c' = [c EXCEPT !.state = "NEED_LOGIN", !.sub = "SELECT", !.reset = TRUE]
    /\ run' = "ctrl"
    /\ UNCHANGED <<job, d, version, out>>

Connect ==
    /\ c.state = "NEED_CCON" /\ conn = "none"
    /\ conn' = "open" /\ commands' = <<>> /\ replies' = <<>> /\ clean' = TRUE
    /\ srv' = [NewSession EXCEPT !.since = job]
    /\ Enter("NEED_LOGIN", "SELECT") /\ run' = "ctrl"
    /\ UNCHANGED <<job, d, version, out>>

ConnectFails ==
    /\ "noServer" \in Env
    /\ c.state = "NEED_CCON" /\ conn = "none"
    /\ Cleanup("ERROR", "connect")

(***************************************************************************)
(* Commands and replies, the same way in every machine.                    *)
(***************************************************************************)
CommandOf == [NEED_REIN |-> "REIN", NEED_UID |-> "USER", NEED_PASSWD |-> "PASS",
              NEED_ACCOUNT |-> "ACCT", NEED_TYPE |-> "TYPE", NEED_PORT |-> "PORT",
              NEED_SYST |-> "SYST", NEED_PWD |-> "PWD", NEED_CWD |-> "CWD",
              NEED_ACTION |-> CASE Job.kind = "put" -> "STOR" [] c.type = "L" -> "LIST"
                                [] c.type = "N" -> "NLST"     [] OTHER -> "RETR"]

HasCommand == c.sub \in DOMAIN CommandOf
Needed == /\ c.sub = "NEED_TYPE" => ~IsDir
          /\ c.sub = "NEED_SYST" => c.server = "unsure"
Awaits == c.sub = "NEED_GREETING" \/ (HasCommand /\ c.sent)

\* What is left of the name, or the directory NEED_SEGMENT has just passed.
Name == IF Job.path = <<>> /\ c.offset > 0 THEN c.behind ELSE Job.path
Rest == CASE c.offset > 0                     -> SubSeq(Name, c.offset, Len(Name))
          [] c.offset = 0 /\ Job.path = <<>>  -> <<>>
          [] c.offset = 0 /\ Job.path # <<>>  -> <<"/">> \o Job.path
\* Mutant: the name after it: the root is passed over.
SegmentAfter == IF Name = <<>> THEN <<"/">> ELSE <<Name[c.offset]>>
Segment == IF c.offset = 1 THEN <<"/">> ELSE <<Name[c.offset - 1]>>

Argument == CASE c.sub = "NEED_ACTION" -> Rest
              [] c.sub = "NEED_CWD"    -> Segment
              [] OTHER                 -> <<>>

Sent == [c EXCEPT !.sent = TRUE, !.cwd = @ \/ c.sub = "NEED_CWD"]

\* Once the client has seen that the server closed the connection, the Host object keeps
\* it but waits for no event any more.
Deaf == IF conn = "closed" THEN "deaf" ELSE conn

SendCommand ==
    /\ run # "none" /\ HasCommand /\ ~c.sent /\ Needed
    /\ \/ /\ conn = "open"
          /\ commands' = Append(commands, [name |-> CommandOf[c.sub], arg |-> Argument, job |-> job])
          /\ c' = Sent
          /\ UNCHANGED conn
       \/ /\ conn # "open"
          /\ \/ c' = Sent /\ UNCHANGED conn
             \/ c' = Sent /\ conn' = Deaf
             \/ c' = [Sent EXCEPT !.sub = "SUB_ERROR"] /\ UNCHANGED conn
          /\ UNCHANGED commands
    /\ UNCHANGED <<job, d, run, version, replies, srv, clean, out>>

\* Whose name and password are known?
AskOr(sub, known) == IF known THEN sub ELSE "PROMPT_USER"

AfterLogin(code, text) ==
    CASE c.sub = "NEED_GREETING" -> IF code \div 100 = 2 THEN "NEED_UID" ELSE "SUB_ERROR"
      [] c.sub = "NEED_REIN"     -> IF code \div 100 = 2 \/ code = 502 THEN "NEED_UID"
                                                                      ELSE "SUB_SUCCESS"
      [] c.sub = "NEED_UID"      -> CASE code \div 100 = 2 -> "SUB_SUCCESS"
                                      [] code \div 100 = 3 -> AskOr("NEED_PASSWD", c.passwd)
                                      [] code = 530        -> AskOr("SUB_SUCCESS", text = "already")
                                      [] OTHER             -> "SUB_ERROR"
      [] c.sub = "NEED_PASSWD"   -> CASE code \div 100 = 2 -> "SUB_SUCCESS"
                                      [] code \div 100 = 3 -> "NEED_ACCOUNT"
                                      [] code = 530        -> "PROMPT_USER"
                                      [] OTHER             -> "SUB_ERROR"
      [] c.sub = "NEED_ACCOUNT"  -> IF code \div 100 = 2 THEN "SUB_SUCCESS" ELSE "SUB_ERROR"

AfterDataConnection(code) ==
    CASE code \div 100 # 2    -> "SUB_ERROR"
      [] c.sub = "NEED_TYPE"  -> "SELECT"
      [] c.sub = "NEED_PORT"  -> "SUB_SUCCESS"

AfterServerInfo(code, text) ==
    CASE c.sub = "NEED_SYST" -> IF code = 215 /\ text = "unix" THEN "SUB_SUCCESS" ELSE "NEED_PWD"
      [] c.sub = "NEED_PWD"  -> IF code \div 100 = 2 THEN "SUB_SUCCESS" ELSE "SUB_ERROR"

AfterGetData(code) ==
    CASE c.sub = "NEED_CWD"    -> IF code \div 100 = 2 THEN "NEED_SEGMENT" ELSE "SUB_ERROR"
      [] c.sub = "NEED_ACTION" -> CASE code \in Starts               -> "NEED_ACCEPT"
                                    [] code \div 100 = 5 /\ ~c.cwd  -> "NEED_SEGMENT"
                                    [] OTHER                         -> "SUB_ERROR"

After(code, text) ==
    CASE c.state = "NEED_LOGIN"  -> AfterLogin(code, text)
      [] c.state = "NEED_DCON"   -> AfterDataConnection(code)
      [] c.state = "NEED_SERVER" -> AfterServerInfo(code, text)
      [] c.state = "NEED_DATA"   -> AfterGetData(code)

\* CHECK_SYST and CHECK_PWD: what the text says of the server.
ServerFrom(code, text) ==
    CASE c.sub = "NEED_SYST" /\ code = 215 /\ text = "unix" -> "unix"
      [] c.sub = "NEED_PWD" /\ code \div 100 = 2            -> IF text = "/" THEN "unix" ELSE "other"
      [] OTHER                                             -> c.server

\* A block of what was read: m whole replies and i lines of the next one, or these and a
\* part of the line after them ("torn").  FTPStatus_put_block takes the whole block for
\* used and returns at the first end of a reply in it: what follows in the block is lost,
\* and the rest of a torn line has no code.
CutOff(r, i, torn) ==
    [r EXCEPT !.text = "", !.lines = IF torn THEN <<"plain">> \o SubSeq(@, i + 2, Len(@))
                                             ELSE SubSeq(@, i + 1, Len(@))]

Left(m, i, torn) ==
    LET rest == SubSeq(replies, m + 1, Len(replies)) IN
    IF i = 0 /\ ~torn THEN rest ELSE <<CutOff(Head(rest), i, torn)>> \o Tail(rest)

\* ScanResponse: a line that is not the first ends the reply unless it has a code and a
\* hyphen; without a code the first one is an error, and the stream keeps it.
Ends(i) == \E l \in 1..i : replies[1].lines[l] # "coded"
EndsReply(m, i) == m = 0 => Ends(i)
Fails == c.line = "bad" \/ (c.line = "first" /\ replies[1].lines[1] = "plain")

\* Without "merge" a block has nothing behind the end of the reply.
ToTheEnd(m, i) == \/ m = 0 /\ ~Ends(i - 1)
                  \/ m = 1 /\ i = 0 /\ ~Ends(Len(replies[1].lines) - 1)

LinesBehind(m) == IF m = Len(replies) THEN {0} ELSE 0..(Len(replies[m + 1].lines) - 1)
ReadBlock(m, i, torn) ==
    /\ m + i > 0
    /\ torn => "merge" \in Env /\ m < Len(replies) /\ (EndsReply(m, i) \/ Fails)
    /\ "merge" \in Env \/ ToTheEnd(m, i)
    /\ replies' = Left(m, i, torn)
    /\ clean' = (clean /\ ~torn)
    /\ UNCHANGED <<job, d, conn, version, commands, srv, out>>

\* ctrl->repcode and ctrl->reply are of the first line; that the user is logged in already
\* is forgotten at the next one.
CodeOf(r) == IF c.line = "first" THEN r.code ELSE c.repcode
TextOf(r) == CASE c.line # "first"                              -> c.text
               [] r.text = "already" /\ r.lines[1] = "coded"    -> ""
               [] OTHER                                        -> r.text

ReadReply ==
    /\ run # "none" /\ Awaits
    /\ replies # <<>> /\ ~Fails
    /\ \E m \in 0..Len(replies) : \E i \in LinesBehind(m), torn \in BOOLEAN :
           EndsReply(m, i) /\ ReadBlock(m, i, torn)
    /\ LET code == CodeOf(replies[1])
           text == TextOf(replies[1]) IN
       c' = [c EXCEPT !.sub = After(code, text), !.sent = FALSE, !.repcode = code, !.line = "first",
                      !.server = ServerFrom(code, text),
                      !.stream_error = @ \/ (/\ c.sub = "NEED_ACTION" /\ code = 550
                                             /\ After(code, text) = "SUB_ERROR")]
    /\ UNCHANGED run

InFinal == c.state = "NEED_DATA" /\ c.sub = "NEED_BODY" /\ run = "ctrl"

\* Lines of a reply without its end.
ReadPart ==
    /\ run # "none" /\ (Awaits \/ InFinal)
    /\ replies # <<>> /\ ~Fails
    /\ \E i \in LinesBehind(0) : ~Ends(i) /\ ReadBlock(0, i, FALSE)
    /\ c' = [c EXCEPT !.line = "more", !.repcode = CodeOf(replies[1]), !.text = TextOf(replies[1])]
    /\ run' = "none"

\* What is read is no reply.
ReadUncoded ==
    /\ run # "none" /\ (Awaits \/ InFinal)
    /\ replies # <<>> /\ Fails
    /\ \E m \in 0..Len(replies) : \E i \in LinesBehind(m), torn \in BOOLEAN : ReadBlock(m, i, torn)
    /\ c' = [c EXCEPT !.line = "bad", !.sub = "SUB_ERROR", !.sent = FALSE]
    /\ UNCHANGED run

ReadBlocks ==
    /\ run # "none" /\ Awaits
    /\ replies = <<>> /\ conn = "open"
    /\ run' = "none"
    /\ Internal /\ UNCHANGED c

ReadClosed ==
    /\ run # "none" /\ Awaits
    /\ replies = <<>> /\ conn # "open"
    /\ c' = [c EXCEPT !.sub = "SUB_ERROR", !.sent = FALSE]
    /\ conn' = Deaf
    /\ UNCHANGED <<job, d, run, version, commands, replies, srv, clean, out>>

(***************************************************************************)
(* HTFTPLogin.                                                             *)
(***************************************************************************)
At(state, sub) == run # "none" /\ c.state = state /\ c.sub = sub

LoginSelect ==
    /\ At("NEED_LOGIN", "SELECT")
    /\ Goto(IF c.reset THEN "NEED_REIN" ELSE "NEED_GREETING")
    /\ Internal /\ UNCHANGED run

PromptUser ==
    /\ At("NEED_LOGIN", "PROMPT_USER")
    /\ \/ /\ c.prompts < MaxPrompts
          /\ c' = [c EXCEPT !.sub = "NEED_UID", !.passwd = TRUE, !.prompts = @ + 1]
       \/ Goto("SUB_ERROR")
    /\ Internal /\ UNCHANGED run

LoginEnds ==
    /\ \/ At("NEED_LOGIN", "SUB_ERROR") /\ Enter("ERROR", "")
       \/ At("NEED_LOGIN", "SUB_SUCCESS") /\ Enter("NEED_DCON", "NEED_TYPE")
    /\ Internal /\ UNCHANGED run

(***************************************************************************)
(* HTFTPDataConnection.                                                    *)
(***************************************************************************)
TypeOfList ==
    /\ At("NEED_DCON", "NEED_TYPE") /\ IsDir
    /\ Goto("SELECT")
    /\ Internal /\ UNCHANGED run

Listen ==
    /\ At("NEED_DCON", "SELECT")
    /\ d' = [NoData EXCEPT !.sock = "listen"]
    /\ Goto("NEED_PORT")
    /\ UNCHANGED <<job, conn, run, version, commands, replies, srv, clean, out>>

DataConnectionEnds ==
    /\ \/ At("NEED_DCON", "SUB_ERROR") /\ Enter("ERROR", "")
       \/ /\ At("NEED_DCON", "SUB_SUCCESS")
          /\ IF c.type = "N" THEN Enter("NEED_SERVER", "NEED_SYST") ELSE Enter("NEED_DATA", "SELECT")
    /\ Internal /\ UNCHANGED run

(***************************************************************************)
(* HTFTPServerInfo, which returns to FTP_NEED_DATA in every case.          *)
(***************************************************************************)
KnownServer ==
    /\ At("NEED_SERVER", "NEED_SYST") /\ ~c.sent /\ c.server # "unsure"
    /\ c' = [c EXCEPT !.state = "NEED_DATA", !.sub = "SELECT", !.type = ListType(c.server)]
    /\ Internal /\ UNCHANGED run

ServerInfoEnds ==
    /\ \/ /\ At("NEED_SERVER", "SUB_ERROR")
          /\ c' = [c EXCEPT !.state = "NEED_DATA", !.sub = "SELECT", !.server = "other"]
          /\ UNCHANGED version
       \/ /\ At("NEED_SERVER", "SUB_SUCCESS")
          /\ c' = [c EXCEPT !.state = "NEED_DATA", !.sub = "SELECT", !.type = ListType(c.server)]
          /\ version' = c.server
    /\ UNCHANGED <<job, d, conn, run, commands, replies, srv, clean, out>>

(***************************************************************************)
(* HTFTPGetData.                                                           *)
(***************************************************************************)
DataSelect ==
    /\ At("NEED_DATA", "SELECT")
    /\ Goto("NEED_ACTION")
    /\ Internal /\ UNCHANGED run

\* One directory further down, the root first; the last name is left for NEED_ACTION.
NextSegment ==
    /\ At("NEED_DATA", "NEED_SEGMENT")
    /\ c' = IF c.offset = 0 \/ c.offset < Len(Name)
            THEN [c EXCEPT !.offset = @ + 1, !.sub = "NEED_CWD"]
            ELSE [c EXCEPT !.sub = "NEED_ACTION"]
    /\ Internal /\ UNCHANGED run

Accept ==
    /\ At("NEED_DATA", "NEED_ACCEPT")
    /\ \/ /\ d.sock = "listen" /\ d.dialled
          /\ d' = [d EXCEPT !.sock = "open"]
          /\ Goto("NEED_STREAM") /\ UNCHANGED run
       \/ /\ d.sock = "listen" /\ ~d.dialled
          /\ run' = "none" /\ UNCHANGED <<c, d>>
       \/ /\ d.sock # "listen"
          /\ Goto("SUB_ERROR") /\ UNCHANGED <<d, run>>
    /\ UNCHANGED <<job, conn, version, commands, replies, srv, clean, out>>

Stream ==
    /\ At("NEED_DATA", "NEED_STREAM")
    /\ Goto("NEED_BODY") /\ run' = "data"
    /\ Internal

\* Mutant: the end of the data is the end.
CompletedAny(part) == [c EXCEPT !.complete = @ \cup {part}, !.sub = "SUB_SUCCESS"]
Completed(part) == [c EXCEPT !.complete = @ \cup {part},
                             !.sub = IF c.complete \cup {part} = {"data", "ctrl"}
                                     THEN "SUB_SUCCESS" ELSE "NEED_BODY"]
DataFailed == c' = [c EXCEPT !.sub = "SUB_ERROR", !.stream_error = TRUE]

Put ==
    /\ At("NEED_DATA", "NEED_BODY") /\ run = "data" /\ Job.kind = "put"
    /\ \/ /\ d.sock = "open"
          /\ c' = [c EXCEPT !.sub = "SUB_SUCCESS", !.complete = {"data", "ctrl"}]
          /\ d' = [d EXCEPT !.sent = Chunks, !.read = Chunks]
       \/ d.eof /\ DataFailed /\ UNCHANGED d
    /\ UNCHANGED <<job, conn, run, version, commands, replies, srv, clean, out>>

\* A block goes to the target; at the end HTDoClose closes the data connection.
ReadData ==
    /\ At("NEED_DATA", "NEED_BODY") /\ run = "data" /\ Job.kind # "put"
    /\ d.sock = "open"
    /\ CASE d.read < d.sent ->
              \/ d' = [d EXCEPT !.read = @ + 1] /\ run' = "none" /\ UNCHANGED c
              \/ "streamError" \in Env /\ DataFailed /\ UNCHANGED <<d, run>>
         [] d.read = d.sent /\ d.eof ->
              /\ d' = [d EXCEPT !.sock = "closed"]
              /\ c' = Completed("data")
              /\ run' = "ctrl"
         [] OTHER -> run' = "none" /\ UNCHANGED <<c, d>>
    /\ UNCHANGED <<job, conn, version, commands, replies, srv, clean, out>>

\* The reply after the transfer; a closed connection leaves the code of the last reply.
FinalCode(code) ==
    c' = IF code \div 100 = 2 THEN [Completed("ctrl") EXCEPT !.repcode = code, !.line = "first"]
         ELSE [c EXCEPT !.sub = "SUB_ERROR", !.repcode = code, !.line = "first"]

ReadFinal ==
    /\ InFinal
    /\ \/ /\ replies # <<>> /\ ~Fails
          /\ \E m \in 0..Len(replies) : \E i \in LinesBehind(m), torn \in BOOLEAN :
                 EndsReply(m, i) /\ ReadBlock(m, i, torn)
          /\ FinalCode(CodeOf(replies[1]))
          /\ run' = "data"
       \/ /\ replies = <<>> /\ conn = "open"
          /\ run' = "none" /\ Internal /\ UNCHANGED c
       \/ /\ replies = <<>> /\ conn # "open"
          /\ FinalCode(c.repcode)
          /\ run' = "data" /\ conn' = Deaf
          /\ UNCHANGED <<job, d, version, commands, replies, srv, clean, out>>

\* "Try a dir instead?"
GetDataEnds ==
    /\ \/ At("NEED_DATA", "SUB_SUCCESS") /\ Enter("SUCCESS", "")
       \/ /\ At("NEED_DATA", "SUB_ERROR")
          /\ IF Job.kind # "put" /\ ~IsDir /\ ~c.stream_error
             THEN c' = [c EXCEPT !.state = "NEED_SERVER", !.sub = "NEED_SYST",
                                 !.type = ListType(c.server)]
             ELSE Enter("ERROR", "")
    /\ Internal /\ UNCHANGED run

Finish ==
    /\ run # "none" /\ c.state \in {"SUCCESS", "ERROR"}
    /\ Cleanup(IF c.state = "SUCCESS" THEN "LOADED" ELSE "ERROR", "machine")

Machine ==
    \/ SendCommand \/ ReadReply \/ ReadPart \/ ReadUncoded \/ ReadBlocks \/ ReadClosed
    \/ LoginSelect \/ PromptUser \/ LoginEnds
    \/ TypeOfList \/ Listen \/ DataConnectionEnds
    \/ KnownServer \/ ServerInfoEnds
    \/ DataSelect \/ NextSegment \/ Accept \/ Stream \/ Put \/ ReadData \/ ReadFinal \/ GetDataEnds
    \/ Finish

(***************************************************************************)
(* Events.  Both connections have FTPEvent for their handler.              *)
(***************************************************************************)
Ready == run = "none" /\ Active /\ c.state # "NEED_CCON"
SomethingToRead == replies # <<>> \/ conn = "closed"

ControlEvent ==
    /\ Ready /\ conn # "none" /\ SomethingToRead
    /\ run' = "ctrl"
    /\ Internal /\ UNCHANGED c

DataReady == \/ d.sock = "listen" /\ d.dialled /\ c.sub = "NEED_ACCEPT"
             \/ d.sock = "open" /\ (d.read < d.sent \/ d.eof)
DataEvent ==
    /\ Ready /\ DataReady
    /\ run' = "data"
    /\ Internal /\ UNCHANGED c

\* With no request HostEvent throws away what there is to read, and the connection.
IdleEvent ==
    /\ ~Active /\ conn # "none" /\ SomethingToRead
    /\ CloseControl
    /\ UNCHANGED <<job, c, d, run, version, out>>

IdleTimeoutEvent ==
    /\ ~Active /\ conn # "none"
    /\ CloseControl
    /\ UNCHANGED <<job, c, d, run, version, out>>

Kill ==
    /\ "kill" \in Env /\ Ready
    /\ Cleanup(IF c.complete = {} THEN "INTERRUPTED" ELSE "LOADED", "kill")

\* HTHost kills the pipeline of the connection that timed out.
DataTimeout ==
    /\ "timeout" \in Env /\ Ready /\ d.sock \in {"listen", "open"}
    /\ c.sub \in {"NEED_ACCEPT", "NEED_BODY"}
    /\ Cleanup("TIMEOUT", "timeout")

\* Mutant: data has arrived at some time.
ReceivedAny == d.read > 0
Receiving == "data" \notin c.complete /\ d.read > 0

\* When data is arriving FTPEvent ignores it, but killPipeline frees the channel all the
\* same: what the request then does with its stream is undefined and left out.
ControlTimeout ==
    /\ "timeout" \in Env /\ Ready /\ ~Receiving
    /\ Ended("TIMEOUT", "timeout")
    /\ CloseControl
    /\ UNCHANGED <<job, version>>

(***************************************************************************)
(* The server.                                                             *)
(***************************************************************************)
Reply(r, layout) == [code |-> r[1], text |-> r[2], lines |-> layout \o <<"end">>]
Says(m, r) ==
    \E layout \in Layouts[m] :
       /\ replies' = Append(replies, Reply(r, layout))
       /\ clean' = (clean /\ \A l \in DOMAIN layout : layout[l] = "coded")
Talks == conn = "open" /\ srv.doing = "none"
ServerOnly == UNCHANGED <<job, c, run, version, out>>

Greet ==
    /\ Talks /\ srv.greet
    /\ \E r \in Replies["connect"] : Says("connect", r)
    /\ srv' = [srv EXCEPT !.greet = FALSE]
    /\ UNCHANGED <<d, conn, commands>> /\ ServerOnly

\* The directory a name stands for: the names of a list, after the root or not.
Resolved(cwd, arg) == IF arg # <<>> /\ arg[1] = "/" THEN Tail(arg) ELSE cwd \o arg

Session(m, code) ==
    CASE m.name = "REIN" /\ code = 220 -> [NewSession EXCEPT !.greet = FALSE, !.since = m.job]
      [] m.name = "CWD" /\ code = 250  -> [srv EXCEPT !.cwd = Resolved(@, m.arg)]
      [] m.name = "CWD" /\ code # 250  -> [srv EXCEPT !.refused = m.job]
      [] m.name = "PORT" /\ code = 200 -> [srv EXCEPT !.port = m.job]
      [] code \in Starts -> [srv EXCEPT !.doing = m.name, !.path = Resolved(srv.cwd, m.arg),
                                        !.phase = "dial"]
      [] OTHER           -> srv

Answer ==
    /\ Talks /\ ~srv.greet /\ commands # <<>>
    /\ LET m == Head(commands) IN
       /\ commands' = Tail(commands)
       /\ \E r \in Replies[m.name] : Says(m.name, r) /\ srv' = Session(m, r[1])
    /\ UNCHANGED <<d, conn>> /\ ServerOnly

Connected == srv.port = job /\ d.sock \in {"listen", "open"} /\ d.dialled
Phase(phase) == conn = "open" /\ srv.doing # "none" /\ srv.phase = phase

Dial ==
    /\ Phase("dial") /\ srv.port = job /\ d.sock = "listen" /\ ~d.dialled
    /\ d' = [d EXCEPT !.dialled = TRUE]
    /\ srv' = [srv EXCEPT !.phase = "data"]
    /\ UNCHANGED <<conn, commands, replies, clean>> /\ ServerOnly

Over(code) ==
    /\ Says("over", <<code, "">>)
    /\ srv' = [srv EXCEPT !.doing = "none"]

CannotDial ==
    /\ Phase("dial")
    /\ srv.port = job /\ d.sock = "listen" => "noDial" \in Env
    /\ Over(425)
    /\ UNCHANGED <<d, conn, commands>> /\ ServerOnly

SendData ==
    /\ Phase("data") /\ Connected /\ srv.doing # "STOR" /\ d.sent < Chunks
    /\ d' = [d EXCEPT !.sent = @ + 1]
    /\ UNCHANGED <<conn, commands, replies, srv, clean>> /\ ServerOnly

EndData ==
    /\ Phase("data") /\ Connected /\ ~d.eof
    /\ (d.sent = Chunks /\ srv.doing # "STOR") \/ "cut" \in Env
    /\ d' = [d EXCEPT !.eof = TRUE]
    /\ srv' = [srv EXCEPT !.phase = IF d.sent = Chunks THEN "whole" ELSE "cut"]
    /\ UNCHANGED <<conn, commands, replies, clean>> /\ ServerOnly

\* The client has closed the data connection: the end of what it stores.
DataGone ==
    /\ Phase("data") /\ ~Connected
    /\ Over(IF srv.doing = "STOR" THEN 226 ELSE 426)
    /\ UNCHANGED <<d, conn, commands>> /\ ServerOnly

Final ==
    /\ \/ Phase("whole") /\ Over(226)
       \/ Phase("cut") /\ Over(426)
    /\ UNCHANGED <<d, conn, commands>> /\ ServerOnly

ServerCloses ==
    /\ "close" \in Env /\ conn = "open"
    /\ conn' = "closed" /\ commands' = <<>> /\ srv' = [NewSession EXCEPT !.greet = FALSE]
    /\ d' = IF Connected THEN [d EXCEPT !.eof = TRUE] ELSE d
    /\ UNCHANGED <<replies, clean>> /\ ServerOnly

Server == Greet \/ Answer \/ Dial \/ CannotDial \/ SendData \/ EndData \/ DataGone \/ Final

Next ==
    \/ Start \/ Reuse \/ Connect \/ ConnectFails
    \/ Machine
    \/ ControlEvent \/ DataEvent \/ IdleEvent \/ IdleTimeoutEvent
    \/ Kill \/ DataTimeout \/ ControlTimeout
    \/ Server \/ ServerCloses

Spec == Init /\ [][Next]_vars

\* The machine runs, the server answers, timers are looked at in every turn of the loop.
Fairness ==
    /\ WF_vars(Start \/ Reuse \/ Connect) /\ WF_vars(Machine) /\ WF_vars(Server)
    /\ WF_vars(DataEvent) /\ WF_vars(ControlEvent)
    /\ SF_vars(DataTimeout) /\ WF_vars(ControlTimeout)

FairSpec == Spec /\ Fairness

(***************************************************************************)
(* Properties.                                                             *)
(***************************************************************************)
\* No command is written while a reply is outstanding, so that no reply is taken for
\* the reply to another command, over every request of a connection as long as no
\* request has left the connection before its last reply and every line has a code.
InStep ==
    clean /\ run # "none" /\ HasCommand /\ ~c.sent /\ Needed => Outstanding = 0

\* The same of the first request of a connection whatever the lines of a reply are: false,
\* since ScanResponse takes a line without a code for the end of the reply.
FirstInStep ==
    job = 1 /\ run # "none" /\ HasCommand /\ ~c.sent /\ Needed => Outstanding = 0

\* A file or a listing reported as loaded has been read to the end, the server has said
\* that it was whole, and nothing is left to disturb the next request.  (The code 225, which
\* may begin a transfer, counts as its success when the connection is then closed.)
LoadedIsWhole ==
    out.status = "LOADED" /\ out.by = "machine" /\ out.kind # "put" /\ out.clean
        => out.left = 0 /\ (out.code # 225 => out.whole)

\* What a transfer is about is what the URL names, however much of the name went into
\* changes of the directory, as long as the server agreed to these; and the root is the
\* directory a session begins in, when this request began it and tries no other.
AsksForUrl ==
    clean /\ Active /\ srv.doing # "none" /\ srv.refused # job =>
        IF Job.path # <<>> THEN srv.path = Job.path
        ELSE c.offset = 0 /\ srv.since = job => srv.path = Home

\* The root is one directory, whoever began the session: false, since the command for it
\* has no argument, and a server may refuse REIN.
RootIsHome ==
    Active /\ srv.doing # "none" /\ Job.path = <<>> /\ c.offset = 0 => srv.path = Home

\* Every request ends.
TransfersEnd == Active ~> ~Active
==============================================================================
