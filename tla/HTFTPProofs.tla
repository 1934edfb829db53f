------------------------------ MODULE HTFTPProofs -----------------------------
(***************************************************************************)
(* Proofs about the FTP client.                                            *)
(*                                                                         *)
(* InStep, LoadedIsWhole and AsksForUrl are not inductive: whether a reply *)
(* is outstanding depends on which of the machines runs, on what it waits  *)
(* for, on the lines of a reply already read, and on how far the server has*)
(* come with a transfer.  IInv says all of it, in four parts: the states   *)
(* the machines can be in (PartsInv), what is on its way in each of them   *)
(* (StepInv, MoreInv), what has been transferred (SocketInv, CountsInv,    *)
(* WholeInv), and the directory the server is in as the name of the URL is *)
(* passed (JobInv, SinceInv, UrlInv).  The parts that need a connection no *)
(* request left early and replies with a code on each line hold under      *)
(* "clean".                                                                *)
(***************************************************************************)
EXTENDS HTFTP, SequenceTheorems, TLAPS

(***************************************************************************)
(* The parts of the state.                                                 *)
(***************************************************************************)
ClientParts == {"job", "state", "sub", "sent", "cwd", "reset", "server", "type", "offset",
                "behind", "repcode", "text", "line", "passwd", "prompts", "complete",
                "stream_error"}

LoginSubs  == {"SELECT", "NEED_GREETING", "NEED_REIN", "NEED_UID", "NEED_PASSWD",
               "NEED_ACCOUNT", "PROMPT_USER", "SUB_ERROR", "SUB_SUCCESS"}
DialSubs   == {"NEED_TYPE", "SELECT", "NEED_PORT", "SUB_ERROR", "SUB_SUCCESS"}
ServerSubs == {"NEED_SYST", "NEED_PWD", "SUB_ERROR", "SUB_SUCCESS"}
DataSubs   == {"SELECT", "NEED_ACTION", "NEED_SEGMENT", "NEED_CWD", "NEED_ACCEPT",
               "NEED_STREAM", "NEED_BODY", "SUB_ERROR", "SUB_SUCCESS"}

\* The state of a request and the state of the machine below it.
InState(state, subs) == c.state = state /\ c.sub \in subs
Resting == c.state = "NONE" /\ c.sub = "" /\ ~c.sent /\ c.line = "first"
Beginning ==
    /\ c.state = "NEED_CCON" /\ c.sub = "" /\ ~c.reset /\ ~c.sent
    /\ c.offset = 0 /\ c.complete = {} /\ c.line = "first"
Logging == InState("NEED_LOGIN", LoginSubs)
Dialling == InState("NEED_DCON", DialSubs)
AskingServer == InState("NEED_SERVER", ServerSubs)
Getting == InState("NEED_DATA", DataSubs)
Through == c.state \in {"SUCCESS", "ERROR"} /\ c.sub = ""

PartsInv ==
    /\ DOMAIN c = ClientParts
    /\ DOMAIN d = {"sock", "dialled", "sent", "read", "eof"}
    /\ DOMAIN srv = {"greet", "since", "cwd", "port", "doing", "path", "phase", "refused"}
    /\ \/ Resting \/ Beginning
       \/ Logging \/ Dialling \/ AskingServer \/ Getting \/ Through
    /\ c.state \in {"NONE", "NEED_CCON"} => run = "none" /\ d = NoData
    /\ conn # "open" => commands = <<>> /\ srv.doing = "none"
    /\ conn \notin {"none", "open"} => ~srv.greet
    /\ conn = "none" => replies = <<>> /\ c.state \in {"NONE", "NEED_CCON"}

(***************************************************************************)
(* Commands and replies.                                                   *)
(***************************************************************************)
\* A reply of which every line has a code, and the last one no hyphen.
Proper(r) ==
    /\ DOMAIN r = {"code", "text", "lines"}
    /\ r.lines \in Seq({"coded", "plain", "end"}) /\ Len(r.lines) > 0
    /\ r.lines[Len(r.lines)] = "end"
    /\ \A l \in 1..(Len(r.lines) - 1) : r.lines[l] = "coded"

\* One reply, and two.
One(s) == Len(s) = 1 /\ s = <<s[1]>> /\ Proper(s[1])
Two(s) == Len(s) = 2 /\ s = <<s[1], s[2]>> /\ Proper(s[1]) /\ Proper(s[2])

\* Nothing is on its way in either direction.
Quiet == commands = <<>> /\ replies = <<>> /\ srv.doing = "none" /\ ~srv.greet

\* The greeting of the server is to come.
Greeting ==
    /\ commands = <<>> /\ srv.doing = "none"
    /\ replies = <<>> \/ (~srv.greet /\ One(replies))

\* The command the client has sent.
Pending == <<[name |-> CommandOf[c.sub], arg |-> Argument, job |-> job]>>

\* One command, or the reply to it.
Answering ==
    /\ ~srv.greet /\ srv.doing = "none"
    /\ \/ commands = <<>> /\ replies = <<>>
       \/ commands = Pending /\ replies = <<>>
       \/ commands = <<>> /\ One(replies)

\* The command for the transfer, the replies to it before and after.
Transferring ==
    /\ ~srv.greet
    /\ \/ commands = <<>> /\ replies = <<>> /\ srv.doing = "none"
       \/ commands = Pending /\ replies = <<>> /\ srv.doing = "none"
       \/ commands = <<>> /\ One(replies) /\ (srv.doing = "none" \/ replies[1].code \in Starts)
       \/ commands = <<>> /\ srv.doing = "none" /\ Two(replies) /\ replies[1].code \in Starts

\* The transfer, or the reply after it.
Finishing ==
    /\ ~srv.greet /\ commands = <<>>
    /\ \/ replies = <<>>
       \/ srv.doing = "none" /\ One(replies)

CommandSubs == {"NEED_REIN", "NEED_UID", "NEED_PASSWD", "NEED_ACCOUNT", "NEED_TYPE", "NEED_PORT",
                "NEED_SYST", "NEED_PWD", "NEED_CWD", "NEED_ACTION"}
Transfer == {"NEED_ACCEPT", "NEED_STREAM", "NEED_BODY"}

\* No other directory is tried after an error.
GivesUp == c.state = "NEED_DATA" /\ (Job.kind = "put" \/ IsDir \/ c.stream_error)

\* The stream for replies: what it has seen of a reply is of the one to be read on.
MoreInv ==
    /\ c.line \in {"first", "more"}
    /\ c.line = "more" => replies # <<>> /\ c.repcode = replies[1].code

StepInv ==
    /\ c.state \in {"NONE", "NEED_CCON"} => conn = "none" \/ Quiet
    /\ c.sent /\ conn = "open" => c.sub \in CommandSubs /\ (c.sub = "NEED_TYPE" => ~IsDir)
    /\ c.state = "NEED_LOGIN" /\ c.sub = "SELECT" /\ ~c.reset => Greeting
    /\ c.sub = "NEED_GREETING" => Greeting
    /\ c.sub = "NEED_ACTION" /\ c.sent => Transferring
    /\ c.sub \in CommandSubs \ {"NEED_ACTION"} /\ c.sent => Answering
    /\ c.sub \in Transfer => Finishing
    /\ c.sub = "SUB_ERROR" => Quiet \/ (GivesUp /\ Finishing)
    /\ c.sub = "SUB_SUCCESS" => Quiet \/ (c.state = "NEED_DATA" /\ Job.kind = "put" /\ Finishing)
    /\ c.state = "ERROR" => Finishing
    /\ c.state = "SUCCESS" => Quiet \/ (Job.kind = "put" /\ Finishing)
    /\ \/ c.sub \in CommandSubs /\ ~c.sent
       \/ c.sub = "SELECT" /\ ~(c.state = "NEED_LOGIN" /\ ~c.reset)
       \/ c.sub \in {"PROMPT_USER", "NEED_SEGMENT"}
       \/ c.sub = "NEED_TYPE" /\ IsDir
       => Quiet

(***************************************************************************)
(* The data connection.                                                    *)
(***************************************************************************)
SocketInv ==
    /\ d.eof => d.dialled
    /\ c.state = "NEED_DCON" /\ c.sub \in {"NEED_PORT", "SUB_SUCCESS"} => d.sock = "listen"
    /\ c.state = "NEED_SERVER" => IsDir
    /\ c.state = "NEED_DATA"
          /\ c.sub \notin {"NEED_STREAM", "NEED_BODY", "SUB_ERROR", "SUB_SUCCESS"} => d.sock = "listen" \/ IsDir
    /\ d.sock = "listen" \/ c.sub = "NEED_STREAM" \/ c.state \in {"NEED_LOGIN", "NEED_CCON"}
          => c.complete = {}
    /\ c.state = "NEED_DCON" /\ c.sub \in {"NEED_TYPE", "SELECT"} => c.complete = {}
    /\ c.sub \in {"NEED_STREAM", "NEED_BODY"} => d.sock # "listen"
    /\ c.complete \subseteq {"data", "ctrl"}

CountsInv == d.sent \in Nat /\ d.read \in Nat

\* The whole of the document has been sent.
AllSent == d.eof /\ d.sent = Chunks
Confirmed == c.repcode = 225 \/ AllSent

WholeInv ==
    /\ srv.doing # "none" /\ srv.phase = "data" => d.dialled /\ ~d.eof
    /\ srv.doing # "none" /\ srv.phase = "whole" => AllSent
    /\ srv.doing = "STOR" => Job.kind = "put"
    /\ c.sub = "NEED_ACTION" /\ Two(replies) /\ replies[2].code \div 100 = 2
          => Job.kind = "put" \/ AllSent
    /\ c.sub \in Transfer /\ One(replies) /\ replies[1].code \div 100 = 2
          => Job.kind = "put" \/ AllSent
    /\ c.sub \in {"NEED_ACCEPT", "NEED_STREAM"} => c.repcode \in Starts
    /\ c.sub = "NEED_BODY" => /\ "ctrl" \in c.complete => Quiet /\ (Job.kind = "put" \/ Confirmed)
                              /\ "data" \in c.complete => d.eof /\ d.read = d.sent
    /\ c.sub = "NEED_BODY" /\ c.line = "first" /\ c.repcode \div 100 = 2
          => "ctrl" \in c.complete \/ c.repcode = 225
    /\ c.state = "SUCCESS" \/ (c.state = "NEED_DATA" /\ c.sub = "SUB_SUCCESS")
          => Job.kind = "put" \/ (Quiet /\ (c.repcode = 225 \/ (AllSent /\ d.read = Chunks)))

(***************************************************************************)
(* The directory of the session.                                           *)
(***************************************************************************)
\* The change to the next directory is still to be made.
Descending == c.sub = "NEED_CWD" /\ ~(c.sent /\ commands = <<>>)

JobInv ==
    /\ job \in Nat
    /\ c.state # "NONE" => /\ Job \in UNION {Jobs[i] : i \in DOMAIN Jobs}
                           /\ c.offset \in Nat
                           /\ Job.path # <<>> => c.offset <= Len(Job.path)

\* No session is begun by a request that is still to come.
SinceInv ==
    /\ srv.since \in Nat /\ srv.since <= job
    /\ c.state = "NEED_CCON" => srv.since < job

\* The root, as long as no other directory was tried, in a session the request began.
FromHome == c.offset = 0 /\ srv.since = job => srv.cwd = Home /\ (srv.doing # "none" => srv.path = Home)

UrlInv ==
    /\ c.state \in {"NEED_LOGIN", "NEED_DCON"} => c.offset = 0
    /\ c.sub = "NEED_CWD" => c.offset > 0
    /\ conn = "open" /\ srv.refused # job /\ c.state \notin {"NONE", "NEED_CCON"} =>
          IF Job.path # <<>>
          THEN /\ srv.doing # "none" => srv.path = Job.path
               /\ Descending /\ c.offset > 1 => srv.cwd = SubSeq(Job.path, 1, c.offset - 2)
               /\ ~Descending /\ c.offset > 0 => srv.cwd = SubSeq(Job.path, 1, c.offset - 1)
          ELSE FromHome

IInv ==
    /\ PartsInv /\ SocketInv /\ CountsInv /\ JobInv
    /\ clean => StepInv /\ MoreInv /\ WholeInv /\ SinceInv /\ UrlInv

(***************************************************************************)
(* The states the machines can be in.                                      *)
(***************************************************************************)
\* The states in which a machine sends a command.
LEMMA CommandFacts ==
    /\ HasCommand <=> c.sub \in CommandSubs
    /\ HasCommand' <=> c'.sub \in CommandSubs
  BY DEF HasCommand, CommandOf, CommandSubs

\* Where a reply takes a machine.
LEMMA AfterFacts ==
    ASSUME PartsInv, Awaits, NEW code, NEW text
    PROVE  /\ c.state = "NEED_LOGIN" =>
                  After(code, text) \in LoginSubs \ {"SELECT", "NEED_GREETING", "NEED_REIN"}
           /\ c.state = "NEED_DCON" => After(code, text) \in {"SELECT", "SUB_ERROR", "SUB_SUCCESS"}
           /\ c.state = "NEED_DCON" /\ After(code, text) = "SUB_SUCCESS" => c.sub = "NEED_PORT"
           /\ c.state = "NEED_DCON" /\ After(code, text) = "SELECT" => c.sub = "NEED_TYPE"
           /\ c.state = "NEED_SERVER" => After(code, text) \in ServerSubs \ {"NEED_SYST"}
           /\ c.state = "NEED_DATA" => After(code, text) \in {"NEED_SEGMENT", "NEED_ACCEPT", "SUB_ERROR"}
           /\ c.state = "NEED_DATA" /\ After(code, text) = "NEED_ACCEPT" =>
                  c.sub = "NEED_ACTION" /\ code \in Starts
           /\ c.state \in {"NEED_LOGIN", "NEED_DCON", "NEED_SERVER", "NEED_DATA"}
<1>1. c.sub = "NEED_GREETING" \/ c.sub \in CommandSubs
  BY CommandFacts DEF Awaits
<1> USE DEF PartsInv, InState, Resting, Beginning, Logging, Dialling, AskingServer, Getting,
            Through, CommandSubs
<1>2. CASE c.state = "NEED_LOGIN"
  <2>1. After(code, text) = AfterLogin(code, text)
    BY <1>2 DEF After
  <2>2. c.sub \in {"NEED_GREETING", "NEED_REIN", "NEED_UID", "NEED_PASSWD", "NEED_ACCOUNT"}
    BY <1>1, <1>2 DEF LoginSubs
  <2> QED BY <1>2, <2>1, <2>2 DEF LoginSubs, AfterLogin, AskOr
<1>3. CASE c.state = "NEED_DCON"
  <2>1. After(code, text) = AfterDataConnection(code)
    BY <1>3 DEF After
  <2>2. c.sub \in {"NEED_TYPE", "NEED_PORT"}
    BY <1>1, <1>3 DEF DialSubs
  <2> QED BY <1>3, <2>1, <2>2 DEF AfterDataConnection
<1>4. CASE c.state = "NEED_SERVER"
  <2>1. After(code, text) = AfterServerInfo(code, text)
    BY <1>4 DEF After
  <2>2. c.sub \in {"NEED_SYST", "NEED_PWD"}
    BY <1>1, <1>4 DEF ServerSubs
  <2> QED BY <1>4, <2>1, <2>2 DEF AfterServerInfo, ServerSubs
<1>5. CASE c.state = "NEED_DATA"
  <2>1. After(code, text) = AfterGetData(code)
    BY <1>5 DEF After
  <2>2. c.sub \in {"NEED_CWD", "NEED_ACTION"}
    BY <1>1, <1>5 DEF DataSubs
  <2> QED BY <1>5, <2>1, <2>2 DEF AfterGetData
<1>6. c.state \in {"NEED_LOGIN", "NEED_DCON", "NEED_SERVER", "NEED_DATA"}
  BY <1>1
<1> QED BY <1>2, <1>3, <1>4, <1>5, <1>6

\* What is read up to the end of a reply.
ReadsReply ==
    /\ replies # <<>>
    /\ \E m \in 0..Len(replies) : \E i \in LinesBehind(m), torn \in BOOLEAN :
           EndsReply(m, i) /\ ReadBlock(m, i, torn)

\* What a request keeps while it reads.
ReadKeeps ==
    /\ UNCHANGED <<job, d, version, commands, srv, out>> /\ (clean' => clean)
    /\ DOMAIN c' = DOMAIN c /\ c'.state = c.state /\ c'.job = c.job
    /\ c'.offset = c.offset /\ c'.behind = c.behind /\ c'.type = c.type

\* A reply that a machine waits for.
LEMMA ReadReplyFacts ==
    ASSUME PartsInv, ReadReply
    PROVE  /\ Awaits /\ ReadsReply /\ ReadKeeps /\ UNCHANGED <<conn, run>>
           /\ c'.sub = After(CodeOf(replies[1]), TextOf(replies[1])) /\ c'.sent = FALSE
           /\ c'.repcode = CodeOf(replies[1]) /\ c'.line = "first" /\ c'.complete = c.complete
<1>1. Awaits /\ ReadsReply /\ UNCHANGED run
  BY DEF ReadReply, ReadsReply
<1>2. UNCHANGED <<job, d, conn, version, commands, srv, out>> /\ (clean' => clean)
  BY <1>1 DEF ReadsReply, ReadBlock
<1> DEFINE code == CodeOf(replies[1])
           text == TextOf(replies[1])
           sub == After(code, text)
<1>3. c' = [c EXCEPT !.sub = sub, !.sent = FALSE, !.repcode = code, !.line = "first",
                     !.server = ServerFrom(code, text),
                     !.stream_error = @ \/ (/\ c.sub = "NEED_ACTION" /\ code = 550 /\ sub = "SUB_ERROR")]
  BY DEF ReadReply
<1> HIDE DEF sub, code, text
<1>4. /\ DOMAIN c' = DOMAIN c /\ c'.state = c.state /\ c'.job = c.job
      /\ c'.offset = c.offset /\ c'.behind = c.behind /\ c'.type = c.type
      /\ c'.complete = c.complete
      /\ c'.sub = sub /\ c'.sent = FALSE /\ c'.repcode = code /\ c'.line = "first"
  BY <1>3 DEF PartsInv, ClientParts
<1> QED BY <1>1, <1>2, <1>4 DEF ReadKeeps, sub, code, text

\* Lines of a reply without its end.
LEMMA ReadPartFacts ==
    ASSUME PartsInv, ReadPart
    PROVE  /\ Awaits \/ InFinal
           /\ replies # <<>> /\ ReadKeeps /\ UNCHANGED conn /\ run' = "none"
           /\ \E i \in LinesBehind(0) : ~Ends(i) /\ ReadBlock(0, i, FALSE)
           /\ c'.sub = c.sub /\ c'.sent = c.sent /\ c'.complete = c.complete
           /\ c'.stream_error = c.stream_error /\ c'.reset = c.reset
           /\ c'.line = "more" /\ c'.repcode = CodeOf(replies[1])
<1>1. /\ Awaits \/ InFinal
      /\ replies # <<>> /\ run' = "none"
      /\ \E i \in LinesBehind(0) : ~Ends(i) /\ ReadBlock(0, i, FALSE)
  BY DEF ReadPart
<1>2. UNCHANGED <<job, d, conn, version, commands, srv, out>> /\ (clean' => clean)
  BY <1>1 DEF ReadBlock
<1>3. c' = [c EXCEPT !.line = "more", !.repcode = CodeOf(replies[1]), !.text = TextOf(replies[1])]
  BY DEF ReadPart
<1> QED BY <1>1, <1>2, <1>3 DEF ReadKeeps, PartsInv, ClientParts

\* What is no reply.
LEMMA ReadUncodedFacts ==
    ASSUME PartsInv, ReadUncoded
    PROVE  /\ Awaits \/ InFinal
           /\ replies # <<>> /\ Fails /\ ReadKeeps /\ UNCHANGED <<conn, run>>
           /\ c'.sub = "SUB_ERROR" /\ c'.sent = FALSE /\ c'.complete = c.complete
<1>1. /\ Awaits \/ InFinal
      /\ replies # <<>> /\ Fails /\ UNCHANGED run
      /\ c' = [c EXCEPT !.line = "bad", !.sub = "SUB_ERROR", !.sent = FALSE]
  BY DEF ReadUncoded
<1>2. UNCHANGED <<job, d, conn, version, commands, srv, out>> /\ (clean' => clean)
  BY DEF ReadUncoded, ReadBlock
<1> QED BY <1>1, <1>2 DEF ReadKeeps, PartsInv, ClientParts

\* A part of the transfer is complete.
LEMMA CompletedFacts ==
    ASSUME PartsInv, NEW part
    PROVE  LET x == Completed(part) IN
           /\ DOMAIN x = DOMAIN c /\ x.state = c.state /\ x.complete = c.complete \cup {part}
           /\ x.sub = IF x.complete = {"data", "ctrl"} THEN "SUB_SUCCESS" ELSE "NEED_BODY"
           /\ x.job = c.job /\ x.sent = c.sent /\ x.type = c.type /\ x.repcode = c.repcode
           /\ x.offset = c.offset /\ x.stream_error = c.stream_error /\ x.line = c.line
<1> DEFINE all == c.complete \cup {part}
           sub == IF all = {"data", "ctrl"} THEN "SUB_SUCCESS" ELSE "NEED_BODY"
<1>1. Completed(part) = [c EXCEPT !.complete = all, !.sub = sub]
  BY DEF Completed, PartsInv, ClientParts
<1> HIDE DEF all
<1>2. sub = IF all = {"data", "ctrl"} THEN "SUB_SUCCESS" ELSE "NEED_BODY"
  OBVIOUS
<1> HIDE DEF sub
<1> QED BY <1>1, <1>2 DEF PartsInv, ClientParts, all

\* The reply after the transfer.
LEMMA FinalFacts ==
    ASSUME PartsInv, NEW code, FinalCode(code)
    PROVE  /\ DOMAIN c' = DOMAIN c /\ c'.state = c.state /\ c'.job = c.job /\ c'.offset = c.offset
           /\ c'.type = c.type /\ c'.sent = c.sent /\ c'.repcode = code /\ c'.line = "first"
           /\ \/ /\ code \div 100 = 2 /\ c'.complete = c.complete \cup {"ctrl"}
                 /\ c'.sub = IF c'.complete = {"data", "ctrl"} THEN "SUB_SUCCESS" ELSE "NEED_BODY"
              \/ /\ code \div 100 # 2 /\ c'.complete = c.complete /\ c'.sub = "SUB_ERROR"
<1> USE DEF PartsInv, ClientParts
<1>1. CASE code \div 100 = 2
  <2> DEFINE x == Completed("ctrl")
  <2>1. c' = [x EXCEPT !.repcode = code, !.line = "first"]
    BY <1>1 DEF FinalCode
  <2>2. /\ DOMAIN x = DOMAIN c /\ x.state = c.state /\ x.complete = c.complete \cup {"ctrl"}
        /\ x.sub = IF x.complete = {"data", "ctrl"} THEN "SUB_SUCCESS" ELSE "NEED_BODY"
        /\ x.job = c.job /\ x.sent = c.sent /\ x.type = c.type /\ x.offset = c.offset
    BY CompletedFacts
  <2> HIDE DEF x
  <2> QED BY <1>1, <2>1, <2>2
<1>2. CASE code \div 100 # 2
  <2>1. c' = [c EXCEPT !.sub = "SUB_ERROR", !.repcode = code, !.line = "first"]
    BY <1>2 DEF FinalCode
  <2> QED BY <1>2, <2>1
<1> QED BY <1>1, <1>2

LEMMA ReadFinalFacts ==
    ASSUME PartsInv, ReadFinal
    PROVE  /\ c.state = "NEED_DATA" /\ c.sub = "NEED_BODY"
           /\ UNCHANGED <<job, d, version, commands, srv, out>> /\ (clean' => clean)
           /\ \/ ReadsReply /\ UNCHANGED conn /\ FinalCode(CodeOf(replies[1]))
              \/ UNCHANGED <<c, conn, replies>>
              \/ /\ replies = <<>> /\ conn # "open" /\ conn' = Deaf /\ UNCHANGED replies
                 /\ FinalCode(c.repcode)
<1>1. c.state = "NEED_DATA" /\ c.sub = "NEED_BODY"
  BY DEF ReadFinal, InFinal
<1>2. \/ ReadsReply /\ FinalCode(CodeOf(replies[1]))
      \/ UNCHANGED c /\ Internal
      \/ /\ replies = <<>> /\ conn # "open" /\ FinalCode(c.repcode) /\ conn' = Deaf
         /\ UNCHANGED <<job, d, version, commands, replies, srv, clean, out>>
  BY DEF ReadFinal, ReadsReply
<1>3. ReadsReply => UNCHANGED <<job, d, conn, version, commands, srv, out>> /\ (clean' => clean)
  BY DEF ReadsReply, ReadBlock
<1> QED BY <1>1, <1>2, <1>3 DEF Internal

\* What a step of the server leaves as it is.
ServerKeeps ==
    /\ UNCHANGED <<c, run>> /\ DOMAIN d' = DOMAIN d /\ DOMAIN srv' = DOMAIN srv
    /\ d' = d \/ d.sock \in {"listen", "open"}
    /\ conn' # "open" => commands' = <<>> /\ srv'.doing = "none"
    /\ conn' \notin {"none", "open"} => ~srv'.greet
    /\ conn' # "none"

LEMMA ServerParts ==
    ASSUME PartsInv, ServerKeeps
    PROVE  PartsInv'
<1>1. c.state \in {"NONE", "NEED_CCON"} => d' = d
  BY DEF PartsInv, NoData, ServerKeeps
<1> QED BY <1>1 DEF PartsInv, InState, Resting, Beginning, Logging, Dialling, AskingServer,
                    Getting, Through, ServerKeeps

LEMMA PartsNext ==
    ASSUME PartsInv, Next
    PROVE  PartsInv'
<1> USE DEF PartsInv, ClientParts, InState, LoginSubs, DialSubs, ServerSubs, DataSubs, Resting,
            Beginning, Logging, Dialling, AskingServer, Getting, Through
<1>1. CASE Start
  BY ZenonT(100), <1>1 DEF Start, Active, NewRequest, NotEnded, Idle, ListType, NoJob
<1>2. CASE Reuse
  BY <1>2 DEF Reuse
<1>3. CASE Connect
  BY <1>3 DEF Connect, Enter, NewSession
<1>4. CASE ConnectFails
  BY <1>4 DEF ConnectFails, Cleanup, Ended, Idle, NoData, NoJob
<1>5. CASE SendCommand
  <2>1. /\ HasCommand /\ UNCHANGED <<d, run, replies, srv>>
        /\ \/ conn = "open" /\ c' = Sent /\ UNCHANGED conn
           \/ /\ conn # "open" /\ conn' \in {conn, Deaf} /\ UNCHANGED commands
              /\ c' = Sent \/ c' = [Sent EXCEPT !.sub = "SUB_ERROR"]
    BY <1>5 DEF SendCommand
  <2>2. c.sub \in CommandSubs
    BY <2>1, CommandFacts
  <2>3. /\ DOMAIN c' = DOMAIN c /\ c'.state = c.state /\ c'.sub \in {c.sub, "SUB_ERROR"}
    BY <2>1 DEF Sent, PartsInv, ClientParts
  <2>4. conn' # "open" <=> conn # "open"
    BY <2>1 DEF Deaf
  <2>5. Logging' \/ Dialling' \/ AskingServer' \/ Getting'
    BY <2>2, <2>3 DEF CommandSubs, LoginSubs, DialSubs, ServerSubs, DataSubs
  <2>6. conn' = "none" <=> conn = "none"
    BY <2>1 DEF Deaf
  <2> QED BY <2>1, <2>2, <2>3, <2>4, <2>5, <2>6 DEF CommandSubs
<1>6. CASE ReadReply
  <2>1. /\ Awaits /\ DOMAIN c' = DOMAIN c /\ c'.state = c.state
        /\ c'.sub = After(CodeOf(replies[1]), TextOf(replies[1]))
        /\ UNCHANGED <<d, conn, run, commands, srv>>
    BY <1>6, ReadReplyFacts DEF ReadKeeps
  <2> QED BY <2>1, AfterFacts
<1>7. CASE ReadBlocks
  BY <1>7 DEF ReadBlocks, Internal
<1>8. CASE ReadClosed
  BY <1>8, AfterFacts DEF ReadClosed, Deaf
<1>42. CASE ReadPart
  <2>1. /\ DOMAIN c' = DOMAIN c /\ c'.state = c.state /\ c'.sub = c.sub
        /\ UNCHANGED <<d, conn, commands, srv>>
        /\ Awaits \/ InFinal
    BY <1>42, ReadPartFacts DEF ReadKeeps
  <2> QED BY <2>1, AfterFacts DEF InFinal
<1>43. CASE ReadUncoded
  <2>1. /\ DOMAIN c' = DOMAIN c /\ c'.state = c.state /\ c'.sub = "SUB_ERROR"
        /\ UNCHANGED <<d, conn, run, commands, srv>>
        /\ Awaits \/ InFinal
    BY <1>43, ReadUncodedFacts DEF ReadKeeps
  <2> QED BY <2>1, AfterFacts DEF InFinal
<1>9. CASE LoginSelect
  BY <1>9 DEF LoginSelect, At, Goto, Internal
<1>10. CASE PromptUser
  BY <1>10 DEF PromptUser, At, Goto, Internal
<1>11. CASE LoginEnds
  BY <1>11 DEF LoginEnds, At, Enter, Internal
<1>12. CASE TypeOfList
  BY <1>12 DEF TypeOfList, At, Goto, Internal
<1>13. CASE Listen
  BY <1>13 DEF Listen, At, Goto, NoData
<1>14. CASE DataConnectionEnds
  BY ZenonT(100), <1>14 DEF DataConnectionEnds, At, Enter, Internal
<1>15. CASE KnownServer
  BY <1>15 DEF KnownServer, At, Internal, ListType
<1>16. CASE ServerInfoEnds
  BY <1>16 DEF ServerInfoEnds, At, ListType
<1>17. CASE DataSelect
  BY <1>17 DEF DataSelect, At, Goto, Internal
<1>18. CASE NextSegment
  BY <1>18 DEF NextSegment, At, Internal
<1>19. CASE Accept
  BY <1>19 DEF Accept, At, Goto
<1>20. CASE Stream
  BY <1>20 DEF Stream, At, Goto, Internal
<1>21. CASE Put
  BY <1>21 DEF Put, At, DataFailed
<1>22. CASE ReadData
  BY <1>22 DEF ReadData, At, Completed, DataFailed
<1>23. CASE ReadFinal
  <2>1. /\ c.state = "NEED_DATA" /\ UNCHANGED <<d, commands, srv>>
        /\ conn' = conn \/ (replies' = replies /\ conn # "open" /\ conn' = Deaf)
        /\ c' = c \/ \E code : FinalCode(code)
    BY <1>23, ReadFinalFacts
  <2>2. DOMAIN c' = DOMAIN c /\ c'.state = c.state /\ c'.sub \in DataSubs
    BY <2>1, FinalFacts, <1>23, ReadFinalFacts
  <2> QED BY <2>1, <2>2 DEF Deaf
<1>24. CASE GetDataEnds
  BY ZenonT(100), <1>24 DEF GetDataEnds, At, Enter, Internal, ListType
<1>25. CASE Finish
  BY <1>25 DEF Finish, Cleanup, Ended, Idle, NoData, NoJob
<1>26. CASE ControlEvent
  BY <1>26 DEF ControlEvent, Internal, Ready, Active
<1>27. CASE DataEvent
  BY <1>27 DEF DataEvent, Internal, Ready, Active
<1>28. CASE IdleEvent
  BY <1>28 DEF IdleEvent, Active, CloseControl, NewSession
<1>29. CASE IdleTimeoutEvent
  BY <1>29 DEF IdleTimeoutEvent, Active, CloseControl, NewSession
<1>30. CASE Kill
  BY <1>30 DEF Kill, Cleanup, Ready, Ended, Active, Idle, NoData, NoJob
<1>31. CASE DataTimeout
  BY <1>31 DEF DataTimeout, Cleanup, Ready, Ended, Active, Idle, NoData, NoJob
<1>32. CASE ControlTimeout
  BY <1>32 DEF ControlTimeout, CloseControl, Ended, Ready, NewSession, Idle, NoData, Active,
               NoJob
<1>33. CASE Greet
  <2>1. ServerKeeps
    BY <1>33 DEF PartsInv, ServerKeeps, Greet, Says, ServerOnly, Talks
  <2> QED BY <2>1, ServerParts
<1>34. CASE Answer
  <2>1. ServerKeeps
    BY <1>34 DEF PartsInv, ServerKeeps, Answer, Says, ServerOnly, Session, Talks, NewSession
  <2> QED BY <2>1, ServerParts
<1>35. CASE Dial
  <2>1. ServerKeeps
    BY <1>35 DEF PartsInv, ServerKeeps, Dial, Phase, ServerOnly
  <2> QED BY <2>1, ServerParts
<1>36. CASE CannotDial
  <2>1. ServerKeeps
    BY <1>36 DEF PartsInv, ServerKeeps, CannotDial, Over, Phase, ServerOnly, Says
  <2> QED BY <2>1, ServerParts
<1>37. CASE SendData
  <2>1. ServerKeeps
    BY <1>37 DEF PartsInv, ServerKeeps, SendData, Connected, Phase, ServerOnly
  <2> QED BY <2>1, ServerParts
<1>38. CASE EndData
  <2>1. ServerKeeps
    BY <1>38 DEF PartsInv, ServerKeeps, EndData, Connected, Phase, ServerOnly
  <2> QED BY <2>1, ServerParts
<1>39. CASE DataGone
  <2>1. ServerKeeps
    BY <1>39 DEF PartsInv, ServerKeeps, DataGone, Connected, Over, Phase, ServerOnly, Says
  <2> QED BY <2>1, ServerParts
<1>40. CASE Final
  <2>1. ServerKeeps
    BY <1>40 DEF PartsInv, ServerKeeps, Final, Over, Phase, ServerOnly, Says
  <2> QED BY <2>1, ServerParts
<1>41. CASE ServerCloses
  <2>1. ServerKeeps
    BY <1>41 DEF PartsInv, ServerKeeps, ServerCloses, Connected, NewSession, ServerOnly
  <2> QED BY <2>1, ServerParts
<1> QED BY <1>1, <1>2, <1>3, <1>4, <1>5, <1>6, <1>7, <1>8, <1>9, <1>10, <1>11, <1>12, <1>13,
           <1>14, <1>15, <1>16, <1>17, <1>18, <1>19, <1>20, <1>21, <1>22, <1>23, <1>24, <1>25,
           <1>26, <1>27, <1>28, <1>29, <1>30, <1>31, <1>32, <1>33, <1>34, <1>35, <1>36, <1>37,
           <1>38, <1>39, <1>40, <1>41, <1>42, <1>43 DEF Next, Machine, Server

(***************************************************************************)
(* The data connection: a step keeps SocketInv.                            *)
(***************************************************************************)
LEMMA SocketNext ==
    ASSUME PartsInv, SocketInv, Next
    PROVE  SocketInv'
<1> USE DEF PartsInv, ClientParts, InState, LoginSubs, DialSubs, ServerSubs, DataSubs, Resting,
            Beginning, Logging, Dialling, AskingServer, Getting, Through, SocketInv, IsDir
<1>1. CASE Start
  <2>1. c'.state = "NEED_CCON" /\ c'.sub = "" /\ c'.complete = {} /\ d' = d
    BY ZenonT(100), <1>1 DEF Start, NewRequest, Idle
  <2>2. d = NoData
    BY <1>1 DEF Start, Active
  <2> QED BY <2>1, <2>2 DEF NoData
<1>2. CASE Reuse
  BY <1>2 DEF Reuse
<1>3. CASE Connect
  BY <1>3 DEF Connect, Enter, NewSession
<1>4. CASE ConnectFails
  BY <1>4 DEF ConnectFails, Cleanup, Ended, Idle, NoData, NoJob
<1>5. CASE SendCommand
  BY ZenonT(100), <1>5 DEF SendCommand, Deaf, Needed, Sent
<1>6. CASE ReadReply
  <2> DEFINE code == CodeOf(replies[1])
             text == TextOf(replies[1])
             sub == After(code, text)
  <2>1. /\ Awaits /\ UNCHANGED d
        /\ c'.sub = sub /\ c'.state = c.state /\ c'.type = c.type /\ c'.complete = c.complete
    BY <1>6, ReadReplyFacts DEF ReadKeeps
  <2>3. /\ c.state = "NEED_DCON" => sub \in {"SELECT", "SUB_ERROR", "SUB_SUCCESS"}
        /\ c.state = "NEED_DCON" /\ sub = "SUB_SUCCESS" => c.sub = "NEED_PORT"
        /\ c.state = "NEED_DCON" /\ sub = "SELECT" => c.sub = "NEED_TYPE"
        /\ c.state = "NEED_LOGIN" => sub \notin {"NEED_STREAM", "NEED_BODY"}
        /\ c.state = "NEED_SERVER" => sub \notin {"NEED_STREAM", "NEED_BODY"}
        /\ c.state = "NEED_DATA" => sub \notin {"NEED_STREAM", "NEED_BODY"}
        /\ c.state \in {"NEED_LOGIN", "NEED_DCON", "NEED_SERVER", "NEED_DATA"}
    BY <2>1, AfterFacts
  <2> HIDE DEF sub
  <2>4. c.state = "NEED_DATA" => c.sub \in {"NEED_CWD", "NEED_ACTION"}
    BY <2>1, CommandFacts DEF Awaits, CommandSubs
  <2> QED BY <2>1, <2>3, <2>4
<1>42. CASE ReadPart
  <2>1. /\ c'.state = c.state /\ c'.sub = c.sub /\ c'.type = c.type /\ c'.complete = c.complete
        /\ UNCHANGED d
    BY <1>42, ReadPartFacts DEF ReadKeeps
  <2> QED BY <2>1
<1>43. CASE ReadUncoded
  <2>1. /\ c'.state = c.state /\ c'.sub = "SUB_ERROR" /\ c'.type = c.type
        /\ c'.complete = c.complete /\ UNCHANGED d
    BY <1>43, ReadUncodedFacts DEF ReadKeeps
  <2> QED BY <2>1
<1>7. CASE ReadBlocks
  BY <1>7 DEF ReadBlocks, Internal
<1>8. CASE ReadClosed
  BY <1>8 DEF ReadClosed, Deaf
<1>9. CASE LoginSelect
  BY <1>9 DEF LoginSelect, At, Goto, Internal
<1>10. CASE PromptUser
  BY ZenonT(100), <1>10 DEF PromptUser, At, Goto, Internal
<1>11. CASE LoginEnds
  BY ZenonT(100), <1>11 DEF LoginEnds, At, Enter, Internal
<1>12. CASE TypeOfList
  BY <1>12 DEF TypeOfList, At, Goto, Internal
<1>13. CASE Listen
  BY <1>13 DEF Listen, At, Goto, NoData
<1>14. CASE DataConnectionEnds
  <2>1. /\ c.state = "NEED_DCON" /\ UNCHANGED d
        /\ \/ c' = [c EXCEPT !.state = "ERROR", !.sub = ""]
           \/ /\ c.sub = "SUB_SUCCESS" /\ c.type = "N"
              /\ c' = [c EXCEPT !.state = "NEED_SERVER", !.sub = "NEED_SYST"]
           \/ /\ c.sub = "SUB_SUCCESS"
              /\ c' = [c EXCEPT !.state = "NEED_DATA", !.sub = "SELECT"]
    BY <1>14 DEF DataConnectionEnds, At, Enter, Internal
  <2>2. c'.type = c.type /\ c'.complete = c.complete
    BY ZenonT(100), <2>1
  <2>3. \/ c'.state = "ERROR" /\ c'.sub = ""
        \/ /\ c.sub = "SUB_SUCCESS"
           /\ \/ c'.state = "NEED_SERVER" /\ c'.sub = "NEED_SYST" /\ c.type = "N"
              \/ c'.state = "NEED_DATA" /\ c'.sub = "SELECT"
    BY <2>1
  <2> QED BY <2>1, <2>2, <2>3
<1>15. CASE KnownServer
  BY <1>15 DEF KnownServer, At, Internal, ListType
<1>16. CASE ServerInfoEnds
  BY ZenonT(100), <1>16 DEF ServerInfoEnds, At, ListType
<1>17. CASE DataSelect
  BY <1>17 DEF DataSelect, At, Goto, Internal
<1>18. CASE NextSegment
  BY <1>18 DEF NextSegment, At, Internal
<1>19. CASE Accept
  BY <1>19 DEF Accept, At, Goto
<1>20. CASE Stream
  BY <1>20 DEF Stream, At, Goto, Internal
<1>21. CASE Put
  BY ZenonT(100), <1>21 DEF Put, At, DataFailed
<1>22. CASE ReadData
  <2>1. /\ c.state = "NEED_DATA" /\ c.sub = "NEED_BODY" /\ d.sock = "open"
        /\ \/ c' = c \/ c' = Completed("data")
           \/ c' = [c EXCEPT !.sub = "SUB_ERROR", !.stream_error = TRUE]
        /\ \/ d' = d \/ d' = [d EXCEPT !.read = @ + 1] \/ d' = [d EXCEPT !.sock = "closed"]
    BY <1>22 DEF ReadData, At, DataFailed
  <2>2. /\ d'.sock # "listen" /\ (d'.eof => d'.dialled)
    BY <2>1
  <2>3. /\ c'.state = "NEED_DATA" /\ c'.sub \in {"NEED_BODY", "SUB_ERROR", "SUB_SUCCESS"}
        /\ c'.complete \subseteq {"data", "ctrl"}
    <3>1. CASE c' = Completed("data")
      <4>1. /\ c'.state = c.state /\ c'.sub \in {"NEED_BODY", "SUB_SUCCESS"}
            /\ c'.complete = c.complete \cup {"data"}
        BY <3>1, CompletedFacts
      <4> QED BY <2>1, <4>1
    <3>2. CASE c' = c \/ c' = [c EXCEPT !.sub = "SUB_ERROR", !.stream_error = TRUE]
      BY <2>1, <3>2
    <3> QED BY <2>1, <3>1, <3>2
  <2> QED BY <2>2, <2>3
<1>23. CASE ReadFinal
  <2>1. /\ c.state = "NEED_DATA" /\ c.sub = "NEED_BODY" /\ UNCHANGED d
        /\ c' = c \/ \E code : FinalCode(code)
    BY <1>23, ReadFinalFacts
  <2>2. /\ c'.state = "NEED_DATA" /\ c'.sub \in {"NEED_BODY", "SUB_ERROR", "SUB_SUCCESS"}
        /\ c'.complete \subseteq {"data", "ctrl"}
    BY <2>1, FinalFacts
  <2> QED BY <2>1, <2>2
<1>24. CASE GetDataEnds
  <2>1. /\ UNCHANGED d /\ c.state = "NEED_DATA"
        /\ \/ c' = [c EXCEPT !.state = "SUCCESS", !.sub = ""]
           \/ c' = [c EXCEPT !.state = "ERROR", !.sub = ""]
           \/ c' = [c EXCEPT !.state = "NEED_SERVER", !.sub = "NEED_SYST", !.type = ListType(c.server)]
    BY <1>24 DEF GetDataEnds, At, Enter, Internal
  <2>2. /\ c'.complete = c.complete /\ c'.sub \in {"", "NEED_SYST"}
        /\ c'.state \in {"SUCCESS", "ERROR"} \/ (c'.state = "NEED_SERVER" /\ c'.type \in {"L", "N"})
    BY ZenonT(100), <2>1 DEF ListType
  <2> QED BY <2>1, <2>2
<1>25. CASE Finish
  BY <1>25 DEF Finish, Cleanup, Ended, Idle, NoData, NoJob
<1>26. CASE ControlEvent
  BY <1>26 DEF ControlEvent, Internal, Ready, Active
<1>27. CASE DataEvent
  BY <1>27 DEF DataEvent, Internal, Ready, Active
<1>28. CASE IdleEvent
  BY <1>28 DEF IdleEvent, Active, CloseControl, NewSession
<1>29. CASE IdleTimeoutEvent
  BY <1>29 DEF IdleTimeoutEvent, Active, CloseControl, NewSession
<1>30. CASE Kill
  BY <1>30 DEF Kill, Cleanup, Ready, Ended, Active, Idle, NoData, NoJob
<1>31. CASE DataTimeout
  BY <1>31 DEF DataTimeout, Cleanup, Ready, Ended, Active, Idle, NoData, NoJob
<1>32. CASE ControlTimeout
  BY <1>32 DEF ControlTimeout, CloseControl, Ended, Ready, NewSession, Idle, NoData, Active,
               NoJob
<1>33. CASE Greet
  BY <1>33 DEF Greet, Says, ServerOnly, Talks
<1>34. CASE Answer
  BY <1>34 DEF Answer, Says, ServerOnly, Session, Talks, NewSession
<1>35. CASE Dial
  BY <1>35 DEF Dial, Phase, ServerOnly
<1>36. CASE CannotDial
  BY <1>36 DEF CannotDial, Over, Phase, ServerOnly, Says
<1>37. CASE SendData
  BY <1>37 DEF SendData, Connected, Phase, ServerOnly
<1>38. CASE EndData
  BY <1>38 DEF EndData, Connected, Phase, ServerOnly
<1>39. CASE DataGone
  BY <1>39 DEF DataGone, Connected, Over, Phase, ServerOnly, Says
<1>40. CASE Final
  <2>1. UNCHANGED <<c, d>>
    BY <1>40 DEF Final, ServerOnly
  <2> QED BY <2>1
<1>41. CASE ServerCloses
  BY <1>41 DEF ServerCloses, Connected, NewSession, ServerOnly
<1> QED BY <1>1, <1>2, <1>3, <1>4, <1>5, <1>6, <1>7, <1>8, <1>9, <1>10, <1>11, <1>12, <1>13,
           <1>14, <1>15, <1>16, <1>17, <1>18, <1>19, <1>20, <1>21, <1>22, <1>23, <1>24, <1>25,
           <1>26, <1>27, <1>28, <1>29, <1>30, <1>31, <1>32, <1>33, <1>34, <1>35, <1>36, <1>37,
           <1>38, <1>39, <1>40, <1>41, <1>42, <1>43 DEF Next, Machine, Server

(***************************************************************************)
(* Commands and replies: a step keeps StepInv.                             *)
(***************************************************************************)
\* Nothing on its way is one of the cases of every other shape.
LEMMA QuietFits ==
    /\ Quiet => Greeting /\ Answering /\ Transferring /\ Finishing
    /\ Quiet' => Greeting' /\ Answering' /\ Transferring' /\ Finishing'
  BY DEF Quiet, Greeting, Answering, Transferring, Finishing

\* A step that neither sends nor receives.
LEMMA WireKept ==
    ASSUME UNCHANGED <<commands, replies, srv>>
    PROVE  /\ Quiet' = Quiet /\ Greeting' = Greeting /\ Finishing' = Finishing
           /\ UNCHANGED <<c, job>> => Answering' = Answering /\ Transferring' = Transferring
<1>1. Quiet' = Quiet /\ Greeting' = Greeting /\ Finishing' = Finishing
  BY DEF Quiet, Greeting, Finishing
<1>2. ASSUME UNCHANGED <<c, job>> PROVE Answering' = Answering /\ Transferring' = Transferring
  <2>1. Pending' = Pending
    BY <1>2 DEF Pending, CommandOf, Argument, Rest, Segment, Name, Job
  <2> QED BY <2>1 DEF Answering, Transferring
<1> QED BY <1>1, <1>2

\* A step after which nothing is on its way.
LEMMA QuietStep ==
    ASSUME Quiet',
           c'.sent /\ conn' = "open" => c'.sub \in CommandSubs /\ (c'.sub = "NEED_TYPE" => ~IsDir')
    PROVE  StepInv'
  BY QuietFits DEF StepInv

\* What is on its way has one of the shapes.
LEMMA SomeShape ==
    ASSUME PartsInv, StepInv, c.state \notin {"NONE", "NEED_CCON"}
    PROVE  Quiet \/ Greeting \/ Answering \/ Transferring \/ Finishing
<1> USE DEF StepInv, CommandSubs, Transfer
<1>1. CASE Logging
  BY <1>1 DEF Logging, InState, LoginSubs
<1>2. CASE Dialling
  BY <1>2 DEF Dialling, InState, DialSubs
<1>3. CASE AskingServer
  BY <1>3 DEF AskingServer, InState, ServerSubs
<1>4. CASE Getting
  BY <1>4 DEF Getting, InState, DataSubs
<1>5. CASE Through
  BY <1>5 DEF Through
<1> QED BY <1>1, <1>2, <1>3, <1>4, <1>5 DEF PartsInv, Resting, Beginning

\* Nothing is outstanding only if nothing is on its way.
LEMMA NoneOutstanding ==
    ASSUME Quiet \/ Greeting \/ Answering \/ Transferring \/ Finishing
    PROVE  /\ Quiet => Outstanding = 0
           /\ Outstanding = 0 => Quiet
<1> DEFINE a == Len(commands)
           b == Len(replies)
<1>1. Outstanding = a + b + (IF srv.doing # "none" THEN 1 ELSE 0) + (IF srv.greet THEN 1 ELSE 0)
  BY DEF Outstanding
<1>2. (commands = <<>> /\ a = 0) \/ a = 1
  <2>1. Len(<<>>) = 0 /\ Len(Pending) = 1
    BY DEF Pending
  <2> QED BY <2>1 DEF Quiet, Greeting, Answering, Transferring, Finishing
<1>3. (replies = <<>> /\ b = 0) \/ b = 1 \/ b = 2
  <2>1. Len(<<>>) = 0
    OBVIOUS
  <2> QED BY <2>1 DEF Quiet, Greeting, Answering, Transferring, Finishing, One, Two
<1> HIDE DEF a, b
<1>4. ASSUME Outstanding = 0 PROVE Quiet
  BY <1>1, <1>2, <1>3, <1>4 DEF Quiet
<1>5. ASSUME Quiet PROVE Outstanding = 0
  <2>1. a = 0 /\ b = 0
    BY <1>5 DEF Quiet, a, b
  <2> QED BY <1>1, <1>5, <2>1 DEF Quiet
<1> QED BY <1>4, <1>5

\* A request ends and leaves the connection to the next one.
LEMMA CleanupStep ==
    ASSUME PartsInv, clean => StepInv, clean', c.state \notin {"NONE", "NEED_CCON"},
           NEW status, NEW by, Cleanup(status, by)
    PROVE  StepInv'
<1>1. /\ clean /\ Outstanding = 0 /\ UNCHANGED <<commands, replies, srv>> /\ ~c'.sent
  BY DEF Cleanup, Ended, Idle
<1>2. Quiet
  BY <1>1, SomeShape, NoneOutstanding
<1>3. Quiet'
  BY <1>1, <1>2, WireKept
<1> QED BY <1>1, <1>3, QuietStep

LEMMA CloseStep ==
    ASSUME CloseControl, c'.state = "NONE", c'.sub = ""
    PROVE  StepInv'
  BY DEF CloseControl, StepInv, CommandSubs, Transfer

\* The steps of the machines that neither send nor receive.
LEMMA StepInternal ==
    ASSUME PartsInv, SocketInv, clean, StepInv,
           \/ LoginSelect \/ PromptUser \/ LoginEnds \/ TypeOfList \/ DataConnectionEnds \/ KnownServer
           \/ ServerInfoEnds \/ DataSelect \/ NextSegment \/ GetDataEnds \/ Stream \/ ReadBlocks
           \/ ControlEvent \/ DataEvent \/ Accept \/ Listen
    PROVE  StepInv'
<1> USE DEF PartsInv, ClientParts, InState, LoginSubs, DialSubs, ServerSubs, DataSubs, Resting,
            Beginning, Logging, Dialling, AskingServer, Getting, Through, StepInv, GivesUp,
            Transfer, CommandSubs, Job, IsDir
<1>0. UNCHANGED <<commands, replies, srv, job>>
  BY DEF Internal, At, LoginSelect, PromptUser, LoginEnds, TypeOfList, DataConnectionEnds,
         KnownServer, ServerInfoEnds, DataSelect, NextSegment, GetDataEnds, Stream, ReadBlocks,
         ControlEvent, DataEvent, Accept, Listen
<1>1. CASE LoginSelect
  BY <1>1, <1>0, QuietFits, WireKept DEF LoginSelect, At, Goto, Internal
<1>2. CASE PromptUser
  BY <1>2, <1>0, QuietFits, WireKept DEF PromptUser, At, Goto, Internal
<1>3. CASE LoginEnds
  <2>1. /\ c.state = "NEED_LOGIN" /\ UNCHANGED conn
        /\ \/ c.sub = "SUB_ERROR" /\ c' = [c EXCEPT !.state = "ERROR", !.sub = ""]
           \/ c.sub = "SUB_SUCCESS" /\ c' = [c EXCEPT !.state = "NEED_DCON", !.sub = "NEED_TYPE"]
    BY <1>3 DEF LoginEnds, At, Enter, Internal
  <2>2. Quiet /\ (c.sent => conn # "open")
    BY <2>1
  <2>3. c'.sent = c.sent
    BY <2>1
  <2> QED BY <1>0, <2>1, <2>2, <2>3, WireKept, QuietStep
<1>4. CASE TypeOfList
  <2>1. c.state = "NEED_DCON" /\ c.sub = "NEED_TYPE" /\ IsDir /\ UNCHANGED conn
        /\ c' = [c EXCEPT !.sub = "SELECT"]
    BY <1>4 DEF TypeOfList, At, Goto, Internal
  <2>2. Quiet /\ (c.sent => conn # "open")
    BY <2>1
  <2>3. c'.sent = c.sent
    BY <2>1
  <2> QED BY <1>0, <2>1, <2>2, <2>3, WireKept, QuietStep
<1>5. CASE DataConnectionEnds
  BY ZenonT(100), <1>5, <1>0, QuietFits, WireKept DEF DataConnectionEnds, At, Enter, Internal
<1>6. CASE KnownServer
  BY <1>6, <1>0, QuietFits, WireKept DEF KnownServer, At, Internal, ListType
<1>7. CASE ServerInfoEnds
  BY ZenonT(100), <1>7, <1>0, QuietFits, WireKept DEF ServerInfoEnds, At, ListType
<1>8. CASE DataSelect
  BY <1>8, <1>0, QuietFits, WireKept DEF DataSelect, At, Goto, Internal
<1>9. CASE NextSegment
  BY <1>9, <1>0, QuietFits, WireKept DEF NextSegment, At, Internal
<1>10. CASE GetDataEnds
  <2>1. /\ c.state = "NEED_DATA" /\ UNCHANGED conn
        /\ \/ c.sub = "SUB_SUCCESS" /\ c' = [c EXCEPT !.state = "SUCCESS", !.sub = ""]
           \/ c.sub = "SUB_ERROR" /\ c' = [c EXCEPT !.state = "ERROR", !.sub = ""]
           \/ /\ c.sub = "SUB_ERROR" /\ ~GivesUp
              /\ c' = [c EXCEPT !.state = "NEED_SERVER", !.sub = "NEED_SYST", !.type = ListType(c.server)]
    BY <1>10 DEF GetDataEnds, At, Enter, Internal
  <2>2. c'.sent = c.sent /\ c'.job = c.job /\ (c.sent => conn # "open")
    BY <2>1
  <2>3. CASE c.sub = "SUB_SUCCESS" /\ c' = [c EXCEPT !.state = "SUCCESS", !.sub = ""]
    <3>1. c'.state = "SUCCESS" /\ c'.sub = "" /\ (Quiet \/ (Job.kind = "put" /\ Finishing))
      BY <2>3
    <3> QED BY <1>0, <2>1, <2>2, <3>1, WireKept
  <2>4. CASE c.sub = "SUB_ERROR" /\ c' = [c EXCEPT !.state = "ERROR", !.sub = ""]
    <3>1. c'.state = "ERROR" /\ c'.sub = "" /\ Finishing
      BY <2>4, QuietFits
    <3> QED BY <1>0, <2>1, <2>2, <3>1, WireKept
  <2>5. CASE c.sub = "SUB_ERROR" /\ ~GivesUp /\ c'.sub = "NEED_SYST"
    <3>1. Quiet /\ c'.sub = "NEED_SYST"
      BY <2>5
    <3> HIDE DEF StepInv
    <3> QED BY <1>0, <2>1, <2>2, <3>1, WireKept, QuietStep
  <2> QED BY <2>1, <2>3, <2>4, <2>5
<1>11. CASE Stream
  BY <1>11, <1>0, QuietFits, WireKept DEF Stream, At, Goto, Internal
<1>12. CASE ReadBlocks
  BY <1>12, <1>0, QuietFits, WireKept DEF ReadBlocks, Internal
<1>13. CASE ControlEvent
  BY ZenonT(100), <1>13, <1>0, QuietFits, WireKept DEF ControlEvent, Internal, Ready, Active
<1>14. CASE DataEvent
  BY ZenonT(100), <1>14, <1>0, QuietFits, WireKept DEF DataEvent, Internal, Ready, Active
<1>15. CASE Accept
  <2>1. /\ c.state = "NEED_DATA" /\ c.sub = "NEED_ACCEPT" /\ UNCHANGED conn
        /\ \/ c' = [c EXCEPT !.sub = "NEED_STREAM"] \/ c' = c
           \/ d.sock # "listen" /\ c' = [c EXCEPT !.sub = "SUB_ERROR"]
    BY <1>15 DEF Accept, At, Goto
  <2>2. Finishing' /\ (c.sent => conn # "open")
    BY <1>0, <2>1, WireKept
  <2>3. CASE c' = c
    BY <2>1, <2>2, <2>3
  <2>4. CASE c' = [c EXCEPT !.sub = "NEED_STREAM"]
    <3>1. c'.state = "NEED_DATA" /\ c'.sub = "NEED_STREAM" /\ c'.sent = c.sent
      BY <2>1, <2>4
    <3> QED BY <2>1, <2>2, <3>1
  <2>5. CASE d.sock # "listen" /\ c' = [c EXCEPT !.sub = "SUB_ERROR"]
    <3>1. IsDir
      BY <2>1, <2>5 DEF SocketInv
    <3>2. /\ c'.state = c.state /\ c'.sub = "SUB_ERROR" /\ c'.sent = c.sent /\ c'.type = c.type
      BY <2>5
    <3> QED BY <2>1, <2>2, <3>1, <3>2
  <2> QED BY <2>1, <2>3, <2>4, <2>5
<1>16. CASE Listen
  BY <1>16, <1>0, QuietFits, WireKept DEF Listen, At, Goto, NoData
<1> QED BY <1>1, <1>2, <1>3, <1>4, <1>5, <1>6, <1>7, <1>8, <1>9, <1>10, <1>11, <1>12, <1>13,
           <1>14, <1>15, <1>16

\* Sequences of one or two replies.
LEMMA TupleFacts ==
    ASSUME NEW x, NEW y
    PROVE  /\ One(<<x>>) <=> Proper(x)
           /\ ~One(<<>>) /\ ~One(<<x, y>>) /\ ~Two(<<>>) /\ ~Two(<<x>>)
           /\ Two(<<x, y>>) <=> Proper(x) /\ Proper(y)
           /\ Append(<<>>, x) = <<x>> /\ Append(<<x>>, y) = <<x, y>>
           /\ Head(<<x>>) = x /\ Tail(<<x>>) = <<>> /\ Head(<<x, y>>) = x /\ Tail(<<x, y>>) = <<y>>
           /\ <<x>> \o <<>> = <<x>> /\ <<x>> \o <<y>> = <<x, y>>
<1>1. (One(<<x>>) <=> Proper(x)) /\ ~One(<<>>) /\ ~One(<<x, y>>)
  BY DEF One
<1>2. (Two(<<x, y>>) <=> Proper(x) /\ Proper(y)) /\ ~Two(<<>>) /\ ~Two(<<x>>)
  BY DEF Two
<1>3. Append(<<>>, x) = <<x>>
  OBVIOUS
<1>4. /\ <<x>> \in Seq({x, y}) /\ <<y>> \in Seq({x, y}) /\ <<x, y>> \in Seq({x, y}) /\ y \in {x, y}
      /\ Len(<<x>>) = 1 /\ Len(<<y>>) = 1 /\ Len(<<x, y>>) = 2
      /\ <<x>>[1] = x /\ <<y>>[1] = y /\ <<x, y>>[1] = x /\ <<x, y>>[2] = y
  OBVIOUS
<1>5. ASSUME NEW t \in Seq({x, y}), Len(t) = 2, t[1] = x, t[2] = y PROVE t = <<x, y>>
  BY <1>4, <1>5, SeqEqual
<1>6. Append(<<x>>, y) = <<x, y>>
  <2> DEFINE t == Append(<<x>>, y)
  <2>1. t \in Seq({x, y}) /\ Len(t) = 2 /\ t[1] = x /\ t[2] = y
    BY <1>4, AppendProperties
  <2> HIDE DEF t
  <2>2. t = <<x, y>>
    BY <1>5, <2>1
  <2> QED BY <2>2 DEF t
<1>7. <<x>> \o <<y>> = <<x, y>>
  <2> DEFINE t == <<x>> \o <<y>>
  <2>1. t \in Seq({x, y}) /\ Len(t) = 2 /\ t[1] = x /\ t[2] = y
    BY <1>4, ConcatProperties
  <2> HIDE DEF t
  <2>2. t = <<x, y>>
    BY <1>5, <2>1
  <2> QED BY <2>2 DEF t
<1>8. <<x>> \o <<>> = <<x>>
  BY <1>4, ConcatEmptySeq
<1>9. Head(<<x>>) = x /\ Head(<<x, y>>) = x
  OBVIOUS
<1>10. Tail(<<x>>) = <<>>
  OBVIOUS
<1>11. Tail(<<x, y>>) = <<y>>
  <2> DEFINE t == Tail(<<x, y>>)
  <2>1. t \in Seq({x, y}) /\ Len(t) = 1 /\ t[1] = y
    BY <1>4, HeadTailProperties
  <2> HIDE DEF t
  <2>2. t = <<y>>
    BY <1>4, <2>1, SeqEqual
  <2> QED BY <2>2 DEF t
<1> QED BY <1>1, <1>2, <1>3, <1>6, <1>7, <1>8, <1>9, <1>10, <1>11

\* What is left of a reply after some of its lines.
LEMMA CutFacts ==
    ASSUME NEW r, Proper(r), NEW i \in 1..(Len(r.lines) - 1)
    PROVE  Proper(CutOff(r, i, FALSE)) /\ CutOff(r, i, FALSE).code = r.code
<1> DEFINE ls == r.lines
           n == Len(ls)
           rest == SubSeq(ls, i + 1, n)
           x == CutOff(r, i, FALSE)
<1>1. /\ DOMAIN r = {"code", "text", "lines"} /\ ls \in Seq({"coded", "plain", "end"})
      /\ n \in Nat /\ ls[n] = "end" /\ \A l \in 1..(n - 1) : ls[l] = "coded"
  BY DEF Proper
<1>2. i \in 1..(n - 1)
  OBVIOUS
<1>3. x = [r EXCEPT !.text = "", !.lines = rest]
  BY DEF CutOff
<1> HIDE DEF ls, n, x
<1>4. /\ rest \in Seq({"coded", "plain", "end"}) /\ Len(rest) = n - i
      /\ \A l \in 1..(n - i) : rest[l] = ls[i + l]
  <2>1. /\ i + 1 \in 1..(n + 1) /\ n \in (i + 1) - 1..n /\ n - (i + 1) + 1 = n - i
        /\ \A l \in 1..(n - i) : (i + 1) + l - 1 = i + l
    BY <1>1, <1>2
  <2> QED BY <1>1, <1>2, <2>1, SubSeqProperties DEF n
<1> HIDE DEF rest
<1>5. DOMAIN x = {"code", "text", "lines"} /\ x.lines = rest /\ x.code = r.code
  BY <1>1, <1>3
<1>6. n - i > 0 /\ i + (n - i) = n /\ \A l \in 1..((n - i) - 1) : l \in 1..(n - i) /\ i + l \in 1..(n - 1)
  BY <1>1, <1>2
<1>7. n - i \in 1..(n - i)
  BY <1>1, <1>2
<1> QED BY <1>1, <1>4, <1>5, <1>6, <1>7 DEF Proper, x

\* In a proper reply only the last line ends it.
LEMMA ProperEnds ==
    ASSUME One(replies) \/ Two(replies), NEW i \in 0..(Len(replies[1].lines) - 1)
    PROVE  ~Ends(i)
  BY DEF Ends, One, Two, Proper

\* The reply that was waited for is read, and the one behind it perhaps.
LEMMA ReplyRead ==
    ASSUME One(replies) \/ Two(replies), ReadsReply, clean'
    PROVE  /\ clean
           /\ One(replies) => replies' = <<>>
           /\ Two(replies) => replies' = <<>> \/ (One(replies') /\ replies'[1].code = replies[2].code)
<1>0. PICK m \in 0..Len(replies) : \E i \in LinesBehind(m), torn \in BOOLEAN :
           EndsReply(m, i) /\ ReadBlock(m, i, torn)
  BY DEF ReadsReply
<1>1. PICK i \in LinesBehind(m), torn \in BOOLEAN : EndsReply(m, i) /\ ReadBlock(m, i, torn)
  BY <1>0
<1>2. clean /\ torn = FALSE /\ replies' = Left(m, i, FALSE)
  BY <1>1 DEF ReadBlock
<1>3. Len(replies) \in {1, 2} /\ m \in {0, 1, 2}
  <2>1. Len(replies) \in {1, 2}
    BY DEF One, Two
  <2>2. m \in 0..Len(replies)
    BY <1>0
  <2> QED BY <2>1, <2>2
<1>4. m # 0
  <2> SUFFICES ASSUME m = 0 PROVE FALSE
    OBVIOUS
  <2>1. i \in 0..(Len(replies[1].lines) - 1)
    BY <1>1, <1>3 DEF LinesBehind
  <2> QED BY <1>1, <2>1, ProperEnds DEF EndsReply
<1>5. CASE m = Len(replies)
  <2>1. i = 0
    BY <1>5 DEF LinesBehind
  <2>2. replies' = SubSeq(replies, m + 1, Len(replies))
    BY <1>2, <2>1 DEF Left
  <2>3. SubSeq(replies, m + 1, Len(replies)) = <<>>
    BY <1>3, <1>5, SubSeqEmpty
  <2> QED BY <1>2, <2>2, <2>3
<1>6. CASE m # Len(replies)
  <2> DEFINE x == replies[1]
             y == replies[2]
  <2>1. m = 1 /\ Len(replies) = 2 /\ Two(replies) /\ i \in 0..(Len(y.lines) - 1)
    BY <1>1, <1>3, <1>4, <1>6 DEF One, LinesBehind
  <2>2. replies = <<x, y>> /\ Proper(y)
    BY <2>1 DEF Two
  <2>7. ~One(replies)
    BY <2>1 DEF One
  <2> HIDE DEF x, y
  <2>3. SubSeq(<<x, y>>, 2, 2) = <<y>>
    <3>1. <<x, y>> \in Seq({x, y}) /\ Len(<<x, y>>) = 2 /\ <<x, y>>[2] = y /\ 2 \in 1..2
      OBVIOUS
    <3>2. SubSeq(<<x, y>>, 2, 2) = <<y>> \o SubSeq(<<x, y>>, 3, 2)
      BY <3>1, SubSeqRecursiveFirst
    <3>3. SubSeq(<<x, y>>, 3, 2) = <<>>
      BY SubSeqEmpty
    <3> QED BY <3>2, <3>3, TupleFacts
  <2>4. replies' = IF i = 0 THEN <<y>> ELSE <<CutOff(y, i, FALSE)>>
    <3> DEFINE rest == SubSeq(replies, m + 1, Len(replies))
    <3>1. rest = <<y>>
      BY <2>1, <2>2, <2>3
    <3>2. replies' = IF i = 0 THEN rest ELSE <<CutOff(Head(rest), i, FALSE)>> \o Tail(rest)
      BY <1>2 DEF Left
    <3> HIDE DEF rest
    <3>3. Head(rest) = y /\ Tail(rest) = <<>> /\ <<CutOff(y, i, FALSE)>> \o <<>> = <<CutOff(y, i, FALSE)>>
      BY <3>1, TupleFacts
    <3> QED BY <3>1, <3>2, <3>3
  <2>5. CASE i = 0
    <3>1. replies' = <<y>>
      BY <2>4, <2>5
    <3>2. One(replies') /\ replies'[1].code = y.code
      BY <2>2, <3>1, TupleFacts
    <3> QED BY <1>2, <2>7, <3>2 DEF y
  <2>6. CASE i # 0
    <3> DEFINE z == CutOff(y, i, FALSE)
    <3>1. Proper(z) /\ z.code = y.code
      <4>1. i \in 1..(Len(y.lines) - 1)
        BY <2>1, <2>6
      <4> QED BY <2>2, <4>1, CutFacts
    <3>2. replies' = <<z>>
      BY <2>4, <2>6
    <3> HIDE DEF z
    <3>3. One(replies') /\ replies'[1].code = y.code
      BY <3>1, <3>2, TupleFacts
    <3> QED BY <1>2, <2>7, <3>3 DEF y
  <2> QED BY <2>5, <2>6
<1> QED BY <1>5, <1>6

\* Some lines of the reply that was waited for are read.
LEMMA PartRead ==
    ASSUME One(replies) \/ Two(replies), NEW i \in LinesBehind(0), ~Ends(i), ReadBlock(0, i, FALSE)
    PROVE  /\ One(replies) => One(replies') /\ replies'[1].code = replies[1].code
           /\ Two(replies) => /\ Two(replies') /\ replies'[1].code = replies[1].code
                              /\ replies'[2].code = replies[2].code
<1> DEFINE x == replies[1]
           y == replies[2]
           z == CutOff(x, i, FALSE)
<1>1. replies # <<>> /\ Len(replies) \in {1, 2} /\ Proper(x)
  BY DEF One, Two
<1>2. i \in 1..(Len(x.lines) - 1)
  <2>1. 0 # Len(replies) /\ i > 0 /\ i \in 0..(Len(x.lines) - 1)
    BY <1>1 DEF LinesBehind, ReadBlock
  <2> QED BY <2>1
<1>3. Proper(z) /\ z.code = x.code
  BY <1>1, <1>2, CutFacts
<1> DEFINE rest == SubSeq(replies, 1, Len(replies))
<1>4. replies' = <<CutOff(Head(rest), i, FALSE)>> \o Tail(rest)
  <2>1. replies' = Left(0, i, FALSE) /\ i # 0 /\ 0 + 1 = 1
    BY <1>2 DEF ReadBlock
  <2>2. Left(0, i, FALSE) = IF i = 0 THEN SubSeq(replies, 0 + 1, Len(replies))
           ELSE <<CutOff(Head(SubSeq(replies, 0 + 1, Len(replies))), i, FALSE)>>
                    \o Tail(SubSeq(replies, 0 + 1, Len(replies)))
    BY DEF Left
  <2> QED BY <2>1, <2>2
<1> HIDE DEF rest
<1>5. CASE One(replies)
  <2>1. replies = <<x>> /\ Len(replies) = 1
    BY <1>5 DEF One
  <2> HIDE DEF x, y, z
  <2>2. SubSeq(<<x>>, 1, 1) = <<x>>
    BY <<x>> \in Seq({x}), Len(<<x>>) = 1, SubSeqFull
  <2>3. rest = <<x>>
    BY <2>1, <2>2 DEF rest
  <2>5. Head(rest) = x /\ Tail(rest) = <<>> /\ <<z>> \o <<>> = <<z>>
    BY <2>3, TupleFacts
  <2>6. replies' = <<z>>
    BY <1>4, <2>5 DEF z
  <2>7. One(replies') /\ replies'[1].code = z.code /\ ~Two(replies)
    BY <1>3, <2>1, <2>6, TupleFacts
  <2> QED BY <1>3, <2>7 DEF x
<1>6. CASE Two(replies)
  <2>1. replies = <<x, y>> /\ Proper(y) /\ Len(replies) = 2
    BY <1>6 DEF Two
  <2> HIDE DEF x, y, z
  <2>2. SubSeq(<<x, y>>, 1, 2) = <<x, y>>
    <3>1. <<x, y>> \in Seq({x, y}) /\ Len(<<x, y>>) = 2
      OBVIOUS
    <3> QED BY <3>1, SubSeqFull
  <2>3. rest = <<x, y>>
    BY <2>1, <2>2 DEF rest
  <2>4. Head(rest) = x /\ Tail(rest) = <<y>>
    BY <2>3, TupleFacts
  <2>5. <<z>> \o <<y>> = <<z, y>>
    BY TupleFacts
  <2>6. replies' = <<z, y>>
    BY <1>4, <2>4, <2>5 DEF z
  <2>7. Two(replies') /\ replies'[1].code = z.code /\ replies'[2].code = y.code /\ ~One(replies)
    BY <1>3, <2>1, <2>6, TupleFacts
  <2> QED BY <1>3, <2>7 DEF x, y
<1> QED BY <1>5, <1>6

\* What the client waits for when it waits for a reply.
LEMMA AwaitedShape ==
    ASSUME PartsInv, StepInv, Awaits
    PROVE  /\ c.state \notin {"NONE", "NEED_CCON"}
           /\ c.sub = "NEED_GREETING" => Greeting
           /\ c.sub = "NEED_ACTION" => Transferring
           /\ c.sub \notin {"NEED_GREETING", "NEED_ACTION"} => Answering
           /\ c.sub = "NEED_GREETING" \/ (c.sub \in CommandSubs /\ c.sent)
<1>1. c.sub = "NEED_GREETING" \/ (c.sub \in CommandSubs /\ c.sent)
  BY CommandFacts DEF Awaits
<1>2. c.state \notin {"NONE", "NEED_CCON"}
  BY <1>1 DEF CommandSubs, PartsInv, InState, Resting, Beginning, Logging, Dialling,
              AskingServer, Getting, Through
<1> QED BY <1>1, <1>2 DEF StepInv

\* One or two replies have come to a client that reads.
LEMMA SomeReplies ==
    ASSUME PartsInv, StepInv, Awaits \/ InFinal, replies # <<>>
    PROVE  /\ One(replies) \/ Two(replies)
           /\ c.sub \in {"NEED_ACTION", "NEED_GREETING", "NEED_BODY"} \/ c.sub \in CommandSubs
<1>1. CASE Awaits
  BY <1>1, AwaitedShape DEF Greeting, Answering, Transferring
<1>2. CASE InFinal
  BY <1>2 DEF InFinal, StepInv, Transfer, Finishing
<1> QED BY <1>1, <1>2

\* What the stream has seen of a reply is of the reply that is read on.
LEMMA CodeKnown ==
    ASSUME MoreInv
    PROVE  CodeOf(replies[1]) = replies[1].code
  BY DEF MoreInv, CodeOf

\* As long as every line has a code a reply is never taken for something else.
LEMMA NeverUncoded ==
    ASSUME PartsInv, StepInv, MoreInv, ReadUncoded
    PROVE  FALSE
<1>1. replies # <<>> /\ Fails /\ (Awaits \/ InFinal)
  BY ReadUncodedFacts
<1>2. Proper(replies[1])
  BY <1>1, SomeReplies DEF One, Two
<1> DEFINE ls == replies[1].lines
           n == Len(ls)
<1>3. n \in Nat /\ n > 0 /\ ls[n] = "end" /\ \A l \in 1..(n - 1) : ls[l] = "coded"
  BY <1>2 DEF Proper
<1> HIDE DEF ls, n
<1>4. n = 1 \/ 1 \in 1..(n - 1)
  BY <1>3
<1>5. ls[1] # "plain"
  BY <1>3, <1>4
<1> QED BY <1>1, <1>5 DEF Fails, MoreInv, ls

LEMMA ReadReplyStep ==
    ASSUME PartsInv, clean', StepInv, MoreInv, ReadReply
    PROVE  StepInv' /\ (Quiet' \/ (c'.sub = "NEED_ACCEPT" /\ c.sub = "NEED_ACTION" /\ Finishing'))
<1> DEFINE code == replies[1].code
           sub == After(CodeOf(replies[1]), TextOf(replies[1]))
<1>1. /\ Awaits /\ ReadsReply /\ replies # <<>>
      /\ UNCHANGED <<job, d, conn, version, commands, srv, out>>
  BY ReadReplyFacts DEF ReadsReply, ReadKeeps
<1>2. c'.sub = sub /\ c'.sent = FALSE /\ c'.state = c.state
  BY ReadReplyFacts DEF ReadKeeps
<1>3. /\ One(replies) => replies' = <<>>
      /\ Two(replies) => replies' = <<>> \/ One(replies')
  BY <1>1, SomeReplies, ReplyRead
<1>5. sub = "NEED_ACCEPT" \/ (c.sub = "NEED_ACTION" => code \notin Starts)
  <2>1. c.sub = "NEED_ACTION" /\ code \in Starts => sub = "NEED_ACCEPT"
    <3> SUFFICES ASSUME c.sub = "NEED_ACTION", code \in Starts PROVE sub = "NEED_ACCEPT"
      OBVIOUS
    <3>1. c.state = "NEED_DATA"
      BY DEF PartsInv, InState, Resting, Beginning, Logging, Dialling, AskingServer, Getting,
             Through, LoginSubs, DialSubs, ServerSubs
    <3>2. sub = AfterGetData(code)
      BY <3>1, CodeKnown DEF After
    <3>3. code \in {125, 150, 225}
      BY DEF Starts
    <3> HIDE DEF code, sub
    <3>4. code \div 100 # 5
      BY <3>3
    <3> QED BY <3>2, <3>4 DEF AfterGetData
  <2> QED BY <2>1
<1>6. sub = "NEED_ACCEPT" => c.sub = "NEED_ACTION" /\ code \in Starts /\ c.state = "NEED_DATA"
  BY <1>1, AfterFacts, CodeKnown DEF LoginSubs, ServerSubs
<1> HIDE DEF sub
<1>7. CASE c.sub = "NEED_GREETING"
  <2>1. Greeting /\ One(replies) /\ ~srv.greet
    BY <1>1, <1>7, AwaitedShape DEF Greeting
  <2>2. Quiet'
    BY <1>1, <1>3, <2>1 DEF Greeting, Quiet
  <2> QED BY <1>2, <2>2, QuietStep
<1>8. CASE c.sub \notin {"NEED_GREETING", "NEED_ACTION"}
  <2>1. Answering /\ One(replies) /\ commands = <<>>
    BY <1>1, <1>8, AwaitedShape DEF Answering
  <2>2. Quiet'
    BY <1>1, <1>3, <2>1 DEF Answering, Quiet
  <2> QED BY <1>2, <2>2, QuietStep
<1>9. CASE c.sub = "NEED_ACTION"
  <2>1. Transferring /\ (One(replies) \/ Two(replies)) /\ commands = <<>>
    BY <1>1, <1>9, AwaitedShape DEF Transferring
  <2>2. CASE code \notin Starts
    <3>1. One(replies) /\ srv.doing = "none"
      BY <1>1, <2>1, <2>2 DEF Transferring
    <3>2. Quiet'
      BY <1>1, <1>3, <2>1, <3>1 DEF Transferring, Quiet
    <3> QED BY <1>2, <3>2, QuietStep
  <2>3. CASE code \in Starts
    <3>1. sub = "NEED_ACCEPT" /\ c.state = "NEED_DATA"
      BY <1>5, <1>6, <1>9, <2>3
    <3>2. Finishing'
      <4>1. Two(replies) => srv.doing = "none"
        BY <2>1, TupleFacts DEF Transferring, Two, One
      <4>2. replies' = <<>> \/ (srv.doing = "none" /\ One(replies'))
        BY <1>3, <2>1, <4>1
      <4> QED BY <1>1, <2>1, <4>2 DEF Transferring, Finishing
    <3> QED BY <1>2, <1>9, <3>1, <3>2 DEF StepInv, CommandSubs, Transfer
  <2> QED BY <2>2, <2>3
<1> QED BY <1>7, <1>8, <1>9

\* Lines without the end of a reply change nothing of what is on its way.
LEMMA ReadPartStep ==
    ASSUME PartsInv, StepInv, ReadPart
    PROVE  /\ StepInv' /\ ~Quiet /\ ~Quiet' /\ replies' # <<>>
           /\ replies'[1].code = replies[1].code
           /\ One(replies') => One(replies)
           /\ Two(replies') => Two(replies) /\ replies'[2].code = replies[2].code
<1>1. /\ UNCHANGED <<job, conn, commands, srv>>
      /\ c'.state = c.state /\ c'.job = c.job /\ c'.offset = c.offset /\ c'.type = c.type
      /\ c'.sub = c.sub /\ c'.sent = c.sent /\ c'.stream_error = c.stream_error
      /\ c'.behind = c.behind /\ c'.reset = c.reset
  BY ReadPartFacts DEF ReadKeeps
<1>10. /\ replies # <<>> /\ (Awaits \/ InFinal)
      /\ \E i \in LinesBehind(0) : ~Ends(i) /\ ReadBlock(0, i, FALSE)
  BY ReadPartFacts DEF ReadKeeps
<1>2. One(replies) \/ Two(replies)
  BY <1>10, SomeReplies
<1>3. /\ One(replies) => One(replies') /\ replies'[1].code = replies[1].code
      /\ Two(replies) => /\ Two(replies') /\ replies'[1].code = replies[1].code
                         /\ replies'[2].code = replies[2].code
  BY <1>10, <1>2, PartRead
<1>4. Pending' = Pending
  BY <1>1 DEF Pending, CommandOf, Argument, Rest, Segment, Name, Job
<1>5. /\ ~Quiet /\ (Greeting => Greeting') /\ (Answering => Answering')
      /\ (Transferring => Transferring') /\ (Finishing => Finishing')
  BY <1>1, <1>10, <1>2, <1>3, <1>4 DEF Quiet, Greeting, Answering, Transferring, Finishing
<1>6. replies' # <<>>
  BY <1>2, <1>3, TupleFacts
<1>7. GivesUp' = GivesUp /\ Job' = Job /\ IsDir' = IsDir
  BY <1>1 DEF GivesUp, Job, IsDir
<1>8. StepInv'
  BY <1>1, <1>5, <1>7 DEF StepInv
<1>9. /\ One(replies) => ~Two(replies)
      /\ One(replies') => ~Two(replies')
  BY DEF One, Two
<1> QED BY <1>2, <1>3, <1>5, <1>6, <1>8, <1>9 DEF Quiet

LEMMA SendCommandStep ==
    ASSUME PartsInv, clean, StepInv, SendCommand
    PROVE  StepInv' /\ (Quiet' \/ (conn = "open" /\ commands' = Pending'))
<1>1. /\ HasCommand /\ ~c.sent /\ Needed /\ UNCHANGED <<job, replies, srv>>
      /\ \/ /\ conn = "open" /\ UNCHANGED conn /\ c' = Sent
            /\ commands' = Append(commands, [name |-> CommandOf[c.sub], arg |-> Argument, job |-> job])
         \/ /\ conn # "open" /\ conn' # "open" /\ UNCHANGED commands
            /\ c' = Sent \/ c' = [Sent EXCEPT !.sub = "SUB_ERROR"]
  BY DEF SendCommand, Deaf
<1>2. c.sub \in CommandSubs /\ Quiet
  BY <1>1, CommandFacts DEF StepInv
<1>3. CASE conn # "open"
  <2>1. Quiet'
    BY <1>1, <1>2, <1>3, WireKept
  <2> QED BY <1>1, <1>3, <2>1, QuietStep
<1>4. CASE conn = "open"
  <2>1. /\ DOMAIN c' = DOMAIN c /\ c'.sent = TRUE
        /\ c'.state = c.state /\ c'.sub = c.sub /\ c'.job = c.job
        /\ c'.type = c.type /\ c'.offset = c.offset /\ c'.behind = c.behind /\ conn' = "open"
    BY <1>1, <1>4 DEF Sent, PartsInv, ClientParts
  <2>2. Pending' = <<[name |-> CommandOf[c.sub], arg |-> Argument, job |-> job]>>
    BY <1>1, <2>1 DEF Pending, CommandOf, Argument, Rest, Segment, Name, Job
  <2> DEFINE m == [name |-> CommandOf[c.sub], arg |-> Argument, job |-> job]
  <2>3. commands' = Append(<<>>, m) /\ Pending' = <<m>>
    BY <1>1, <1>2, <1>4, <2>2 DEF Quiet
  <2> HIDE DEF m
  <2>4. commands' = Pending'
    BY <2>3, TupleFacts
  <2>5. replies' = <<>> /\ srv'.doing = "none" /\ ~srv'.greet
    BY <1>1, <1>2 DEF Quiet
  <2>6. Answering' /\ Transferring'
    BY <2>4, <2>5 DEF Answering, Transferring
  <2>7. c.state \notin {"NONE", "NEED_CCON", "ERROR", "SUCCESS"}
    BY <1>2 DEF CommandSubs, PartsInv, InState, Resting, Beginning, Logging, Dialling,
                AskingServer, Getting, Through
  <2>8. c'.sub = "NEED_TYPE" => ~IsDir'
    BY <1>1, <2>1 DEF Needed, IsDir
  <2>9. c'.sub \in CommandSubs
    BY <1>2, <2>1
  <2>10. StepInv'
    BY <2>1, <2>6, <2>7, <2>8, <2>9 DEF StepInv, CommandSubs, Transfer
  <2> QED BY <1>4, <2>4, <2>10
<1> QED BY <1>3, <1>4

\* The client sees that the server has closed the connection.
LEMMA ReadClosedStep ==
    ASSUME PartsInv, clean, StepInv, ReadClosed
    PROVE  Quiet' /\ StepInv'
<1>1. /\ Awaits /\ replies = <<>> /\ conn # "open" /\ conn' # "open"
      /\ UNCHANGED <<commands, replies, srv>>
  BY DEF ReadClosed, Deaf
<1>2. commands = <<>> /\ srv.doing = "none"
  BY <1>1 DEF PartsInv
<1>3. ~srv.greet
  BY <1>1, AwaitedShape DEF PartsInv
<1>4. Quiet'
  BY <1>1, <1>2, <1>3 DEF Quiet
<1> QED BY <1>1, <1>4, QuietStep

LEMMA ReadFinalStep ==
    ASSUME PartsInv, SocketInv, clean', StepInv, WholeInv, ReadFinal
    PROVE  StepInv' /\ (Quiet' \/ (UNCHANGED <<c, d, commands, replies, srv, conn>>))
<1>1. c.state = "NEED_DATA" /\ c.sub = "NEED_BODY" /\ UNCHANGED <<job, d, commands, srv>>
  BY ReadFinalFacts
<1>0. Finishing
  BY <1>1 DEF StepInv, Transfer
<1>2. CASE UNCHANGED <<c, conn, replies>>
  BY <1>0, <1>1, <1>2, WireKept DEF StepInv
<1>3. CASE ReadsReply /\ UNCHANGED conn /\ FinalCode(CodeOf(replies[1]))
  <2>2. One(replies) /\ srv.doing = "none"
    BY <1>0, <1>3 DEF Finishing, ReadsReply
  <2>3. Quiet' /\ conn' = conn
    BY <1>0, <1>1, <1>3, <2>2, ReplyRead DEF Finishing, Quiet
  <2>4. c'.sent = c.sent
    BY <1>3, FinalFacts
  <2> QED BY <1>1, <2>3, <2>4, QuietStep DEF StepInv, CommandSubs
<1>4. CASE replies = <<>> /\ conn # "open" /\ UNCHANGED replies /\ conn' = Deaf
  <2>1. Quiet'
    BY <1>0, <1>1, <1>4 DEF Quiet, Finishing, PartsInv
  <2> QED BY <1>4, <2>1, QuietStep DEF Deaf
<1> QED BY <1>2, <1>3, <1>4, ReadFinalFacts

\* Between two requests, or with none, nothing is on its way.
LEMMA RestStep ==
    ASSUME c'.state \in {"NONE", "NEED_CCON"}, c'.sub = "", ~c'.sent, conn' = "none" \/ Quiet'
    PROVE  StepInv'
  BY DEF StepInv, CommandSubs, Transfer

LEMMA BeginStep ==
    ASSUME PartsInv, clean => StepInv, clean', Start \/ Reuse \/ Connect \/ ConnectFails
    PROVE  StepInv'
<1> USE DEF PartsInv, ClientParts, InState, Resting, Beginning, Logging, Dialling, AskingServer,
            Getting, Through
<1>1. CASE Start
  <2>1. /\ UNCHANGED <<conn, commands, replies, srv, clean>> /\ c.state = "NONE"
        /\ c'.state = "NEED_CCON" /\ c'.sub = "" /\ ~c'.sent
    BY ZenonT(100), <1>1 DEF Start, Active, NewRequest, Idle
  <2>2. conn = "none" \/ Quiet
    BY <2>1 DEF StepInv
  <2> QED BY <2>1, <2>2, WireKept, RestStep
<1>2. CASE Reuse
  <2>1. /\ UNCHANGED <<conn, commands, replies, srv, clean>> /\ c.state = "NEED_CCON" /\ conn # "none"
        /\ c'.sent = c.sent
    BY <1>2 DEF Reuse
  <2>2. Quiet /\ ~c.sent
    BY <2>1 DEF StepInv
  <2> QED BY <2>1, <2>2, WireKept, QuietStep
<1>3. CASE Connect
  <2>1. /\ c.state = "NEED_CCON"
        /\ commands' = <<>> /\ replies' = <<>> /\ srv'.doing = "none"
        /\ c' = [c EXCEPT !.state = "NEED_LOGIN", !.sub = "SELECT"]
    BY <1>3 DEF Connect, Enter, NewSession
  <2>2. c'.state = "NEED_LOGIN" /\ c'.sub = "SELECT" /\ ~c'.sent /\ ~c'.reset
    BY <2>1
  <2>3. Greeting'
    BY <2>1 DEF Greeting
  <2> QED BY <2>2, <2>3 DEF StepInv, CommandSubs, Transfer
<1>4. CASE ConnectFails
  <2>1. conn' = "none" /\ c' = Idle
    BY <1>4 DEF ConnectFails, Cleanup, Ended
  <2>2. c'.state = "NONE" /\ c'.sub = "" /\ ~c'.sent
    BY <2>1 DEF Idle
  <2> QED BY <2>1, <2>2, RestStep
<1> QED BY <1>1, <1>2, <1>3, <1>4

\* The end of a request, and of a connection no request uses.
LEMMA EndStep ==
    ASSUME PartsInv, clean => StepInv, clean',
           Finish \/ Kill \/ DataTimeout \/ ControlTimeout \/ IdleEvent \/ IdleTimeoutEvent
    PROVE  StepInv'
<1>1. CASE Finish
  <2>1. c.state \notin {"NONE", "NEED_CCON"} /\ \E status, by : Cleanup(status, by)
    BY <1>1 DEF Finish
  <2> QED BY <2>1, CleanupStep
<1>2. CASE Kill
  <2>1. c.state \notin {"NONE", "NEED_CCON"} /\ \E status, by : Cleanup(status, by)
    BY <1>2 DEF Kill, Ready, Active
  <2> QED BY <2>1, CleanupStep
<1>3. CASE DataTimeout
  <2>1. c.state \notin {"NONE", "NEED_CCON"} /\ \E status, by : Cleanup(status, by)
    BY <1>3 DEF DataTimeout, Ready, Active
  <2> QED BY <2>1, CleanupStep
<1>4. CASE ControlTimeout
  <2>1. CloseControl /\ c' = Idle
    BY <1>4 DEF ControlTimeout, Ended
  <2> QED BY <2>1, CloseStep DEF Idle
<1>5. CASE IdleEvent \/ IdleTimeoutEvent
  <2>1. CloseControl /\ c' = c /\ c.state = "NONE"
    BY <1>5 DEF IdleEvent, IdleTimeoutEvent, Active
  <2>2. c.sub = ""
    BY <2>1 DEF PartsInv, InState, Resting, Beginning, Logging, Dialling, AskingServer, Getting,
                Through
  <2> QED BY <2>1, <2>2, CloseStep
<1> QED BY <1>1, <1>2, <1>3, <1>4, <1>5

\* A command on its way is the one the client waits for the reply to.
LEMMA CommandShape ==
    ASSUME PartsInv, StepInv, conn = "open", commands # <<>>
    PROVE  /\ c.sub \in CommandSubs /\ c.sent /\ commands = Pending
           /\ replies = <<>> /\ srv.doing = "none" /\ ~srv.greet
<1>1. c.state \notin {"NONE", "NEED_CCON"}
  BY DEF StepInv, Quiet
<1>2. ASSUME ~(c.sub \in CommandSubs /\ c.sent) PROVE Quiet \/ Greeting \/ Finishing
  <2> USE <1>2 DEF StepInv, CommandSubs, Transfer
  <2>1. CASE Logging
    BY <2>1 DEF Logging, InState, LoginSubs
  <2>2. CASE Dialling
    BY <2>2 DEF Dialling, InState, DialSubs
  <2>3. CASE AskingServer
    BY <2>3 DEF AskingServer, InState, ServerSubs
  <2>4. CASE Getting
    BY <2>4 DEF Getting, InState, DataSubs
  <2>5. CASE Through
    BY <2>5 DEF Through
  <2> QED BY <1>1, <2>1, <2>2, <2>3, <2>4, <2>5 DEF PartsInv, Resting, Beginning
<1>3. c.sub \in CommandSubs /\ c.sent
  BY <1>2 DEF Quiet, Greeting, Finishing
<1>4. Answering \/ Transferring
  BY <1>3 DEF StepInv
<1> QED BY <1>3, <1>4 DEF Answering, Transferring

\* Only the command for a transfer is answered with a code that starts one.
LEMMA TransferCommands ==
    /\ \A sub \in CommandSubs \ {"NEED_ACTION"} : CommandOf[sub] \in Commands \ Transfers
    /\ CommandOf["NEED_ACTION"] \in Transfers
  BY DEF CommandSubs, CommandOf, Commands, Transfers

\* What the server says is one reply, proper if every line has a code.
LEMMA SaidFacts ==
    ASSUME FTPAssumption, NEW m \in DOMAIN Layouts, NEW r, Says(m, r)
    PROVE  \E x : replies' = Append(replies, x) /\ x.code = r[1] /\ (clean' => clean /\ Proper(x))
<1>1. PICK layout \in Layouts[m] :
           /\ replies' = Append(replies, Reply(r, layout))
           /\ clean' = (clean /\ \A l \in DOMAIN layout : layout[l] = "coded")
  BY DEF Says
<1> DEFINE x == Reply(r, layout)
           ls == layout \o <<"end">>
           T == {"coded", "plain", "end"}
<1>2. x = [code |-> r[1], text |-> r[2], lines |-> ls]
  BY DEF Reply
<1>3. layout \in Seq({"coded", "plain"})
  BY DEF FTPAssumption
<1>4. layout \in Seq(T) /\ <<"end">> \in Seq(T) /\ Len(<<"end">>) = 1 /\ <<"end">>[1] = "end"
      /\ Len(layout) \in Nat /\ DOMAIN layout = 1..Len(layout)
  BY <1>3
<1>5. /\ ls \in Seq(T) /\ Len(ls) = Len(layout) + 1
      /\ \A l \in 1..(Len(layout) + 1) :
             ls[l] = IF l <= Len(layout) THEN layout[l] ELSE <<"end">>[l - Len(layout)]
  BY <1>4, ConcatProperties
<1> HIDE DEF x, ls, T
<1>6. DOMAIN x = {"code", "text", "lines"} /\ x.lines = ls /\ x.code = r[1]
  BY <1>2
<1>7. Len(ls) \in 1..(Len(layout) + 1) /\ Len(ls) > 0 /\ ls[Len(ls)] = "end"
  <2>1. /\ Len(ls) \in 1..(Len(layout) + 1) /\ Len(ls) > 0
        /\ ~(Len(ls) <= Len(layout)) /\ Len(ls) - Len(layout) = 1
    BY <1>4, <1>5
  <2> QED BY <1>4, <1>5, <2>1
<1>8. ASSUME clean' PROVE \A l \in 1..(Len(ls) - 1) : ls[l] = "coded"
  <2> TAKE l \in 1..(Len(ls) - 1)
  <2>1. l \in 1..Len(layout) /\ l \in 1..(Len(layout) + 1) /\ l <= Len(layout)
    BY <1>4, <1>5
  <2>2. ls[l] = layout[l]
    BY <1>5, <2>1
  <2> QED BY <1>1, <1>4, <1>8, <2>1, <2>2
<1>9. clean' => clean /\ Proper(x)
  BY <1>1, <1>5, <1>6, <1>7, <1>8 DEF Proper, T
<1> QED BY <1>1, <1>6, <1>9 DEF x

LEMMA AnswerFacts ==
    ASSUME FTPAssumption, PartsInv, StepInv, Answer
    PROVE  /\ c.sub \in CommandSubs /\ c.sent /\ commands = Pending
           /\ replies = <<>> /\ srv.doing = "none" /\ ~srv.greet /\ conn = "open"
           /\ UNCHANGED <<c, job, d, conn, run>> /\ commands' = <<>> /\ (clean' => clean)
           /\ \E r \in Replies[CommandOf[c.sub]] :
                 /\ srv' = Session(Pending[1], r[1])
                 /\ \E x : replies' = <<x>> /\ x.code = r[1] /\ (clean' => Proper(x))
<1>1. conn = "open" /\ commands # <<>>
  BY DEF Answer, Talks
<1>2. /\ c.sub \in CommandSubs /\ c.sent /\ commands = Pending
      /\ replies = <<>> /\ srv.doing = "none" /\ ~srv.greet
  BY <1>1, CommandShape
<1> DEFINE m == [name |-> CommandOf[c.sub], arg |-> Argument, job |-> job]
<1>3. commands = <<m>> /\ Pending[1] = m /\ m.name = CommandOf[c.sub]
  BY <1>2 DEF Pending
<1> HIDE DEF m
<1>4. Head(commands) = m /\ Tail(commands) = <<>>
  BY <1>3, TupleFacts
<1>5. commands' = <<>> /\ \E r \in Replies[m.name] : Says(m.name, r) /\ srv' = Session(m, r[1])
  BY <1>4 DEF Answer
<1>6. PICK r \in Replies[m.name] : Says(m.name, r) /\ srv' = Session(m, r[1])
  BY <1>5
<1>7. m.name \in DOMAIN Layouts
  BY <1>2, <1>3, TransferCommands DEF FTPAssumption, Commands, Transfers
<1>8. PICK x : replies' = Append(replies, x) /\ x.code = r[1] /\ (clean' => clean /\ Proper(x))
  BY <1>6, <1>7, SaidFacts
<1>9. replies' = <<x>>
  BY <1>2, <1>8, TupleFacts
<1> QED BY <1>1, <1>2, <1>3, <1>5, <1>6, <1>8, <1>9 DEF Answer, ServerOnly

\* What an answer does to the session.
LEMMA SessionFacts ==
    ASSUME PartsInv, NEW m, NEW code, srv' = Session(m, code), srv.doing = "none", ~srv.greet
    PROVE  /\ ~srv'.greet /\ DOMAIN srv' = DOMAIN srv
           /\ srv'.doing = "none" \/ (code \in Starts /\ srv'.doing = m.name /\ srv'.phase = "dial")
  BY DEF PartsInv, Session, NewSession

\* The steps of the server other than an answer, seen from the control connection.
ServerTurn ==
    /\ UNCHANGED <<c, job, run>> /\ (clean' => clean)
    /\ srv'.greet => srv.greet
    /\ \/ UNCHANGED <<commands, replies>> /\ srv'.doing = srv.doing
       \/ UNCHANGED replies /\ commands' = <<>> /\ ~srv'.greet /\ srv'.doing = "none"
       \/ \E x : /\ (srv.greet /\ ~srv'.greet) \/ srv.doing # "none"
                 /\ replies' = Append(replies, x) /\ (clean' => Proper(x)) /\ UNCHANGED commands
                 /\ srv'.doing = "none"

LEMMA OverFacts ==
    ASSUME FTPAssumption, PartsInv, NEW code, Over(code)
    PROVE  /\ srv'.doing = "none" /\ srv'.greet = srv.greet
           /\ \E x : replies' = Append(replies, x) /\ x.code = code /\ (clean' => clean /\ Proper(x))
<1> DEFINE r == <<code, "">>
<1>1. Says("over", r) /\ r[1] = code /\ srv' = [srv EXCEPT !.doing = "none"]
  BY DEF Over
<1>2. "over" \in DOMAIN Layouts
  BY DEF FTPAssumption
<1> HIDE DEF r
<1> QED BY <1>1, <1>2, SaidFacts DEF PartsInv

LEMMA ServerTurns ==
    ASSUME FTPAssumption, PartsInv,
           Greet \/ Dial \/ CannotDial \/ SendData \/ EndData \/ DataGone \/ Final \/ ServerCloses
    PROVE  ServerTurn /\ (conn' = conn \/ (conn = "open" /\ conn' = "closed"))
<1> USE DEF PartsInv, ServerOnly, ServerTurn
<1>1. CASE Greet
  <2>1. PICK r : Says("connect", r)
    BY <1>1 DEF Greet
  <2>2. "connect" \in DOMAIN Layouts
    BY DEF FTPAssumption
  <2>3. \E x : replies' = Append(replies, x) /\ x.code = r[1] /\ (clean' => clean /\ Proper(x))
    BY <2>1, <2>2, SaidFacts
  <2> QED BY <1>1, <2>3 DEF Greet, Talks
<1>2. CASE Dial
  BY <1>2 DEF Dial
<1>3. CASE CannotDial
  <2>1. PICK code : Over(code) /\ UNCHANGED <<conn, commands>> /\ srv.doing # "none"
    BY <1>3 DEF CannotDial, Phase
  <2> QED BY <1>3, <2>1, OverFacts DEF CannotDial
<1>4. CASE SendData
  BY <1>4 DEF SendData
<1>5. CASE EndData
  BY <1>5 DEF EndData
<1>6. CASE DataGone
  <2>1. PICK code : Over(code) /\ UNCHANGED <<conn, commands>> /\ srv.doing # "none"
    BY <1>6 DEF DataGone, Phase
  <2> QED BY <1>6, <2>1, OverFacts DEF DataGone
<1>7. CASE Final
  <2>1. PICK code : Over(code) /\ UNCHANGED <<conn, commands>> /\ srv.doing # "none"
    BY <1>7 DEF Final, Phase
  <2> QED BY <1>7, <2>1, OverFacts DEF Final
<1>8. CASE ServerCloses
  BY <1>8 DEF ServerCloses, NewSession
<1> QED BY <1>1, <1>2, <1>3, <1>4, <1>5, <1>6, <1>7, <1>8

LEMMA TurnKeepsShapes ==
    ASSUME ServerTurn, clean'
    PROVE  /\ Quiet => Quiet'
           /\ Greeting => Greeting'
           /\ Answering => Answering'
           /\ Transferring => Transferring'
           /\ Finishing => Finishing'
<1>1. Pending' = Pending
  BY DEF ServerTurn, Pending, CommandOf, Argument, Rest, Segment, Name, Job
<1>2. CASE UNCHANGED <<commands, replies>> /\ srv'.doing = srv.doing
  BY <1>1, <1>2 DEF ServerTurn, Quiet, Greeting, Answering, Transferring, Finishing
<1>3. CASE UNCHANGED replies /\ commands' = <<>> /\ ~srv'.greet /\ srv'.doing = "none"
  BY <1>1, <1>3 DEF Quiet, Greeting, Answering, Transferring, Finishing
<1>4. CASE \E x : /\ (srv.greet /\ ~srv'.greet) \/ srv.doing # "none"
                  /\ replies' = Append(replies, x) /\ Proper(x) /\ UNCHANGED commands
                  /\ srv'.doing = "none"
  <2>1. PICK x : /\ (srv.greet /\ ~srv'.greet) \/ srv.doing # "none"
                 /\ replies' = Append(replies, x) /\ Proper(x) /\ UNCHANGED commands
                 /\ srv'.doing = "none" /\ (srv'.greet => srv.greet)
    BY <1>4 DEF ServerTurn
  <2>2. ASSUME replies = <<>> PROVE replies' = <<x>> /\ One(replies')
    BY <2>1, <2>2, TupleFacts
  <2>3. ASSUME One(replies) PROVE replies' = <<replies[1], x>> /\ Two(replies')
    <3> DEFINE y == replies[1]
    <3>1. replies = <<y>> /\ Proper(y)
      BY <2>3 DEF One
    <3> HIDE DEF y
    <3>2. replies' = <<y, x>>
      BY <2>1, <3>1, TupleFacts
    <3> QED BY <2>1, <3>1, <3>2, TupleFacts DEF y
  <2>4. ~Quiet /\ ~Answering
    BY <2>1 DEF Quiet, Answering
  <2>5. Greeting => Greeting'
    BY <2>1, <2>2 DEF Greeting
  <2>6. Transferring => Transferring'
    <3> SUFFICES ASSUME Transferring PROVE Transferring'
      OBVIOUS
    <3>1. One(replies) /\ replies[1].code \in Starts /\ commands = <<>>
      BY <2>1 DEF Transferring
    <3> DEFINE y == replies[1]
    <3>2. replies' = <<y, x>> /\ Two(replies') /\ y.code \in Starts
      BY <2>3, <3>1
    <3> HIDE DEF y
    <3>3. replies'[1].code \in Starts
      BY <3>2
    <3> QED BY <2>1, <3>1, <3>2, <3>3 DEF Transferring
  <2>7. Finishing => Finishing'
    BY <2>1, <2>2 DEF Finishing
  <2> QED BY <2>4, <2>5, <2>6, <2>7
<1> QED BY <1>2, <1>3, <1>4 DEF ServerTurn

LEMMA ServerStep ==
    ASSUME FTPAssumption, PartsInv, clean => StepInv, clean',
           Greet \/ Dial \/ CannotDial \/ SendData \/ EndData \/ DataGone \/ Final \/ ServerCloses
    PROVE  StepInv'
<1>1. ServerTurn /\ UNCHANGED <<c, job>> /\ clean /\ (conn' = conn \/ (conn = "open" /\ conn' = "closed"))
  BY ServerTurns DEF ServerTurn
<1>2. GivesUp' = GivesUp /\ Job' = Job /\ IsDir' = IsDir
  BY <1>1 DEF GivesUp, Job, IsDir
<1>3. StepInv
  BY <1>1
<1> QED BY <1>1, <1>2, <1>3, TurnKeepsShapes DEF StepInv

LEMMA AnswerStep ==
    ASSUME FTPAssumption, PartsInv, clean => StepInv, clean', Answer
    PROVE  StepInv'
<1>1. clean /\ StepInv
  BY DEF Answer, Says
<1>2. /\ c.sub \in CommandSubs /\ c.sent /\ commands = Pending
      /\ replies = <<>> /\ srv.doing = "none" /\ ~srv.greet /\ conn = "open"
      /\ UNCHANGED <<c, job, d, conn, run>> /\ commands' = <<>>
  BY <1>1, AnswerFacts
<1> DEFINE name == CommandOf[c.sub]
           m == Pending[1]
<1>3. PICK r \in Replies[name] :
           /\ srv' = Session(m, r[1])
           /\ \E x : replies' = <<x>> /\ x.code = r[1] /\ (clean' => Proper(x))
  BY <1>1, AnswerFacts
<1>4. c.sub # "NEED_ACTION" => r[1] \notin Starts
  <2>1. c.sub # "NEED_ACTION" => name \in Commands \ Transfers
    BY <1>2, TransferCommands
  <2> QED BY <1>3, <2>1 DEF FTPAssumption
<1>5. PICK x : replies' = <<x>> /\ x.code = r[1] /\ Proper(x)
  BY <1>3
<1> HIDE DEF m
<1>6. ~srv'.greet /\ (srv'.doing = "none" \/ r[1] \in Starts)
  BY <1>2, <1>3, SessionFacts
<1>7. One(replies') /\ replies'[1].code = r[1]
  BY <1>5, TupleFacts
<1>8. Transferring' /\ (c.sub # "NEED_ACTION" => Answering')
  BY <1>2, <1>4, <1>6, <1>7 DEF Transferring, Answering
<1>9. c.state \notin {"NONE", "NEED_CCON", "ERROR", "SUCCESS"}
  BY <1>2 DEF CommandSubs, PartsInv, InState, Resting, Beginning, Logging, Dialling,
              AskingServer, Getting, Through
<1>10. IsDir' = IsDir
  BY <1>2 DEF IsDir
<1> QED BY <1>1, <1>2, <1>8, <1>9, <1>10 DEF StepInv, CommandSubs, Transfer

\* The data connection while it is read and written.
LEMMA DataStep ==
    ASSUME PartsInv, clean, StepInv, WholeInv, Put \/ ReadData
    PROVE  StepInv'
<1>1. /\ c.state = "NEED_DATA" /\ c.sub = "NEED_BODY" /\ Finishing
      /\ UNCHANGED <<job, conn, commands, replies, srv>>
  BY DEF Put, ReadData, At, StepInv, Transfer
<1>2. c.sent => conn # "open"
  BY <1>1 DEF StepInv, CommandSubs
<1> USE DEF PartsInv, ClientParts
<1>3. Finishing' /\ Quiet' = Quiet
  BY <1>1, WireKept
<1>4. CASE c' = c
  BY <1>1, <1>3, <1>4 DEF StepInv, CommandSubs, Transfer
<1>5. CASE DataFailed
  <2>1. /\ c'.state = "NEED_DATA" /\ c'.sub = "SUB_ERROR" /\ c'.stream_error /\ c'.sent = c.sent
    BY <1>1, <1>5 DEF DataFailed
  <2> QED BY <1>1, <1>2, <1>3, <2>1 DEF StepInv, CommandSubs, Transfer, GivesUp
<1>6. CASE Put /\ c' = [c EXCEPT !.sub = "SUB_SUCCESS", !.complete = {"data", "ctrl"}]
  <2>1. c'.state = "NEED_DATA" /\ c'.sub = "SUB_SUCCESS" /\ c'.sent = c.sent /\ c'.job = c.job
    BY <1>1, <1>6
  <2>2. Job'.kind = "put"
    BY <1>6, <2>1 DEF Put, Job
  <2> QED BY <1>1, <1>2, <1>3, <2>1, <2>2 DEF StepInv, CommandSubs, Transfer
<1>7. CASE ReadData /\ c' = Completed("data")
  <2>1. /\ c'.state = "NEED_DATA" /\ c'.sent = c.sent
        /\ c'.sub = "NEED_BODY" \/ (c'.sub = "SUB_SUCCESS" /\ "ctrl" \in c.complete)
    BY <1>1, <1>7, CompletedFacts
  <2>2. c'.sub = "SUB_SUCCESS" => Quiet'
    BY <1>1, <1>3, <2>1 DEF WholeInv
  <2> QED BY <1>1, <1>2, <1>3, <2>1, <2>2 DEF StepInv, CommandSubs, Transfer
<1> QED BY <1>4, <1>5, <1>6, <1>7 DEF Put, ReadData

LEMMA StepNext ==
    ASSUME FTPAssumption, PartsInv, SocketInv, clean => StepInv /\ MoreInv /\ WholeInv, Next, clean'
    PROVE  StepInv'
<1>1. CASE Start \/ Reuse \/ Connect \/ ConnectFails
  BY <1>1, BeginStep
<1>2. CASE Finish \/ Kill \/ DataTimeout \/ ControlTimeout \/ IdleEvent \/ IdleTimeoutEvent
  BY <1>2, EndStep
<1>3. CASE Greet \/ Dial \/ CannotDial \/ SendData \/ EndData \/ DataGone \/ Final \/ ServerCloses
  BY <1>3, ServerStep
<1>4. CASE Answer
  BY <1>4, AnswerStep
<1>5. CASE \/ LoginSelect \/ PromptUser \/ LoginEnds \/ TypeOfList \/ DataConnectionEnds \/ KnownServer
           \/ ServerInfoEnds \/ DataSelect \/ NextSegment \/ GetDataEnds \/ Stream \/ ReadBlocks
           \/ ControlEvent \/ DataEvent \/ Accept \/ Listen
  <2>1. clean
    BY <1>5 DEF LoginSelect, PromptUser, LoginEnds, TypeOfList, DataConnectionEnds, KnownServer,
                ServerInfoEnds, DataSelect, NextSegment, GetDataEnds, Stream, ReadBlocks,
                ControlEvent, DataEvent, Accept, Listen, Internal
  <2> QED BY <1>5, <2>1, StepInternal
<1>6. CASE Put \/ ReadData
  BY <1>6, DataStep DEF Put, ReadData
<1>7. CASE SendCommand \/ ReadReply \/ ReadPart \/ ReadUncoded \/ ReadClosed \/ ReadFinal
  <2>1. clean
    BY <1>7, ReadReplyFacts, ReadPartFacts, ReadUncodedFacts, ReadFinalFacts
       DEF SendCommand, ReadClosed, ReadKeeps
  <2> QED BY <1>7, <2>1, SendCommandStep, ReadReplyStep, ReadPartStep, NeverUncoded, ReadClosedStep,
             ReadFinalStep
<1> QED BY <1>1, <1>2, <1>3, <1>4, <1>5, <1>6, <1>7 DEF Next, Machine, Server

\* One more reply behind those there are.
LEMMA FirstKept ==
    ASSUME One(replies) \/ Two(replies), NEW x
    PROVE  Append(replies, x) # <<>> /\ Append(replies, x)[1] = replies[1]
<1> DEFINE y == replies[1]
           z == replies[2]
           t == Append(replies, x)
<1>1. replies = <<y>> \/ replies = <<y, z>>
  BY DEF One, Two
<1> HIDE DEF y, z
<1>2. /\ replies \in Seq({x, y, z}) /\ x \in {x, y, z} /\ Len(replies) \in {1, 2} /\ replies[1] = y
  <2>1. CASE replies = <<y>>
    BY <2>1
  <2>2. CASE replies = <<y, z>>
    BY <2>2
  <2> QED BY <1>1, <2>1, <2>2
<1>3. t \in Seq({x, y, z}) /\ Len(t) = Len(replies) + 1 /\ t[1] = y
  <2>1. Len(replies) \in {1, 2}
    BY <1>2
  <2>2. 1 \in 1..Len(replies)
    BY <2>1
  <2> QED BY <1>2, <2>2, AppendProperties
<1>4. t # <<>>
  <2>1. Len(t) # 0
    BY <1>2, <1>3
  <2> HIDE DEF t
  <2> QED BY <2>1
<1> QED BY <1>2, <1>3, <1>4

LEMMA MoreNext ==
    ASSUME FTPAssumption, PartsInv, clean => StepInv /\ MoreInv, Next, clean'
    PROVE  MoreInv'
<1> USE DEF PartsInv, ClientParts
<1>1. CASE c'.line = "first"
  BY <1>1 DEF MoreInv
<1>2. CASE clean /\ c'.line = c.line /\ c'.repcode = c.repcode /\ UNCHANGED replies
  BY <1>2 DEF MoreInv
<1>3. CASE Start \/ Reuse \/ Connect \/ ConnectFails
  <2>1. CASE Start
    BY <1>1, <2>1 DEF Start, NewRequest, Idle
  <2>2. CASE Reuse \/ Connect
    <3>1. c.state = "NEED_CCON" /\ c'.line = c.line
      BY <2>2 DEF Reuse, Connect, Enter
    <3>2. c.line = "first"
      BY <3>1 DEF InState, Resting, Beginning, Logging, Dialling, AskingServer, Getting, Through
    <3> QED BY <1>1, <3>1, <3>2
  <2>3. CASE ConnectFails
    BY <1>1, <2>3 DEF ConnectFails, Cleanup, Ended, Idle
  <2> QED BY <1>3, <2>1, <2>2, <2>3
<1>4. CASE Finish \/ Kill \/ DataTimeout \/ ControlTimeout
  <2>1. c' = Idle
    BY <1>4 DEF Finish, Kill, DataTimeout, ControlTimeout, Cleanup, Ended
  <2> QED BY <1>1, <2>1 DEF Idle
<1>5. CASE IdleEvent \/ IdleTimeoutEvent
  <2>1. c' = c /\ c.state = "NONE"
    BY <1>5 DEF IdleEvent, IdleTimeoutEvent, Active
  <2>2. c.line = "first"
    BY <2>1 DEF InState, Resting, Beginning, Logging, Dialling, AskingServer, Getting, Through
  <2> QED BY <1>1, <2>1, <2>2
<1>6. CASE Greet \/ Answer \/ Dial \/ CannotDial \/ SendData \/ EndData \/ DataGone \/ Final \/ ServerCloses
  <2>1. c' = c /\ clean
    BY <1>6, ServerTurns DEF ServerTurn, Answer, ServerOnly, Says
  <2>2. CASE c.line = "first"
    BY <1>1, <2>1, <2>2
  <2>3. CASE c.line # "first"
    <3>1. c.line = "more" /\ replies # <<>> /\ c.repcode = replies[1].code
      BY <2>1, <2>3 DEF MoreInv
    <3>2. c.state \notin {"NONE", "NEED_CCON"}
      BY <2>3 DEF InState, Resting, Beginning, Logging, Dialling, AskingServer, Getting, Through
    <3>3. One(replies) \/ Two(replies)
      BY <2>1, <3>1, <3>2, SomeShape DEF Quiet, Greeting, Answering, Transferring, Finishing
    <3>4. ~Answer
      BY <2>1, <3>1, AnswerFacts
    <3>5. replies' = replies \/ \E x : replies' = Append(replies, x)
      BY <1>6, <3>4, ServerTurns DEF ServerTurn
    <3>6. replies' # <<>> /\ replies'[1] = replies[1]
      BY <3>1, <3>3, <3>5, FirstKept
    <3> QED BY <2>1, <3>1, <3>6 DEF MoreInv
  <2> QED BY <2>2, <2>3
<1>7. CASE ReadReply
  BY <1>1, <1>7, ReadReplyFacts
<1>8. CASE ReadPart
  <2>1. clean /\ c'.line = "more" /\ c'.repcode = replies[1].code
    BY <1>8, ReadPartFacts, CodeKnown DEF ReadKeeps
  <2>2. replies' # <<>> /\ replies'[1].code = replies[1].code
    BY <1>8, <2>1, ReadPartStep
  <2> QED BY <2>1, <2>2 DEF MoreInv
<1>9. CASE ReadUncoded
  <2>1. clean
    BY <1>9, ReadUncodedFacts DEF ReadKeeps
  <2> QED BY <1>9, <2>1, NeverUncoded
<1>10. CASE ReadFinal
  <2>1. clean
    BY <1>10, ReadFinalFacts
  <2>2. CASE UNCHANGED <<c, replies>>
    BY <1>2, <2>1, <2>2
  <2>3. CASE \E code : FinalCode(code)
    BY <1>1, <2>3, FinalFacts
  <2> QED BY <1>10, <2>2, <2>3, ReadFinalFacts
<1>11. CASE \/ SendCommand \/ ReadBlocks \/ ReadClosed \/ TypeOfList \/ Listen \/ DataSelect
            \/ NextSegment \/ Accept \/ Stream \/ ControlEvent \/ DataEvent
  BY ZenonT(60), <1>2, <1>11
     DEF SendCommand, Sent, ReadBlocks, ReadClosed, TypeOfList, Listen, DataSelect, NextSegment,
         Accept, Stream, ControlEvent, DataEvent, At, Goto, Internal
<1>12. CASE LoginSelect \/ PromptUser \/ LoginEnds \/ KnownServer \/ ServerInfoEnds
  BY ZenonT(100), <1>2, <1>12
     DEF LoginSelect, PromptUser, LoginEnds, KnownServer, ServerInfoEnds, At, Goto, Enter, Internal
<1>13. CASE DataConnectionEnds \/ GetDataEnds \/ Put
  BY ZenonT(100), <1>2, <1>13 DEF DataConnectionEnds, GetDataEnds, Put, DataFailed, At, Enter, Internal
<1>14. CASE ReadData
  <2>1. /\ UNCHANGED <<replies, clean>>
        /\ \/ c' = c \/ c' = Completed("data")
           \/ c' = [c EXCEPT !.sub = "SUB_ERROR", !.stream_error = TRUE]
    BY <1>14 DEF ReadData, DataFailed
  <2>2. c'.line = c.line /\ c'.repcode = c.repcode
    <3>1. CASE c' = c
      BY <3>1
    <3>2. CASE c' = Completed("data")
      BY <3>2 DEF Completed
    <3>3. CASE c' = [c EXCEPT !.sub = "SUB_ERROR", !.stream_error = TRUE]
      BY <3>3
    <3> QED BY <2>1, <3>1, <3>2, <3>3
  <2> QED BY <1>2, <2>1, <2>2
<1> QED BY <1>3, <1>4, <1>5, <1>6, <1>7, <1>8, <1>9, <1>10, <1>11, <1>12, <1>13, <1>14
        DEF Next, Machine, Server

LEMMA CountsNext ==
    ASSUME FTPAssumption, PartsInv, CountsInv, Next
    PROVE  CountsInv'
<1> USE DEF CountsInv, PartsInv, NoData
<1>1. CASE d' = d
  BY <1>1
<1>2. CASE d' = NoData
  BY <1>2
<1>3. CASE Listen
  BY <1>3 DEF Listen
<1>4. CASE Accept
  BY <1>4 DEF Accept
<1>5. CASE Put
  BY <1>5 DEF Put, FTPAssumption
<1>6. CASE ReadData
  BY <1>6 DEF ReadData
<1>7. CASE Dial \/ SendData \/ EndData \/ ServerCloses
  BY <1>7 DEF Dial, SendData, EndData, ServerCloses
<1> QED BY <1>1, <1>2, <1>3, <1>4, <1>5, <1>6, <1>7
        DEF Next, Machine, Server, Start, Reuse, Connect, ConnectFails, SendCommand, ReadReply, ReadPart,
            ReadUncoded, ReadBlock, ReadBlocks, ReadClosed, LoginSelect, PromptUser, LoginEnds, TypeOfList, DataConnectionEnds,
            KnownServer, ServerInfoEnds, DataSelect, NextSegment, Stream, ReadFinal, GetDataEnds, Finish,
            ControlEvent, DataEvent, IdleEvent, IdleTimeoutEvent, Kill, DataTimeout, ControlTimeout,
            Greet, Answer, CannotDial, DataGone, Final, Internal, ServerOnly, Cleanup, Ended

(***************************************************************************)
(* What has been transferred.                                              *)
(***************************************************************************)
\* With no transfer under way and none that the client waits for.
LEMMA WholeRest ==
    ASSUME c'.sub \notin {"NEED_ACTION", "SUB_SUCCESS"} \cup Transfer, c'.state # "SUCCESS",
           srv'.doing = "none" \/ (WholeInv /\ UNCHANGED <<d, srv>> /\ c'.job = c.job)
    PROVE  WholeInv'
  BY DEF WholeInv, Transfer, AllSent, Confirmed, Job

LEMMA TransferShapes ==
    ASSUME StepInv, c.sub \in {"NEED_ACTION"} \cup Transfer
    PROVE  /\ c.sub = "NEED_ACTION" => Transferring
           /\ c.sub \in Transfer => Finishing
           /\ ~srv.greet
<1>1. c.sub = "NEED_ACTION" => Transferring
  BY QuietFits DEF StepInv, CommandSubs
<1>2. c.sub \in Transfer => Finishing
  BY DEF StepInv
<1> QED BY <1>1, <1>2 DEF Transferring, Finishing

LEMMA WholeBegin ==
    ASSUME PartsInv, clean => StepInv, clean', Start \/ Reuse \/ Connect \/ ConnectFails
    PROVE  WholeInv'
<1> USE DEF PartsInv, ClientParts, InState, Resting, Beginning, Logging, Dialling, AskingServer,
            Getting, Through
<1>1. CASE Start \/ Reuse
  <2>1. /\ UNCHANGED <<conn, commands, replies, srv, clean>> /\ c.state \in {"NONE", "NEED_CCON"}
        /\ \/ c'.state = "NEED_CCON" /\ c'.sub = ""
           \/ c'.state = "NEED_LOGIN" /\ c'.sub = "SELECT"
    BY <1>1 DEF Start, Active, NewRequest, Idle, Reuse
  <2>2. srv.doing = "none"
    BY <2>1 DEF StepInv, Quiet
  <2> QED BY <2>1, <2>2, WholeRest DEF Transfer
<1>2. CASE Connect
  <2>1. srv'.doing = "none" /\ c'.state = "NEED_LOGIN" /\ c'.sub = "SELECT"
    BY <1>2 DEF Connect, Enter, NewSession
  <2> QED BY <2>1, WholeRest DEF Transfer
<1>3. CASE ConnectFails
  <2>1. conn = "none" /\ c' = Idle /\ UNCHANGED srv
    BY <1>3 DEF ConnectFails, Cleanup, Ended
  <2>2. c'.state = "NONE" /\ c'.sub = "" /\ srv'.doing = "none"
    BY <2>1 DEF Idle
  <2> QED BY <2>2, WholeRest DEF Transfer
<1> QED BY <1>1, <1>2, <1>3

LEMMA CleanupFacts ==
    ASSUME PartsInv, clean => StepInv, clean', c.state \notin {"NONE", "NEED_CCON"},
           NEW status, NEW by, Cleanup(status, by)
    PROVE  Quiet /\ UNCHANGED <<commands, replies, srv>> /\ c' = Idle /\ clean
<1>1. clean /\ Outstanding = 0
  BY DEF Cleanup
<1> QED BY <1>1, SomeShape, NoneOutstanding DEF Cleanup, Ended

LEMMA WholeEnd ==
    ASSUME PartsInv, clean => StepInv, clean',
           Finish \/ Kill \/ DataTimeout \/ ControlTimeout \/ IdleEvent \/ IdleTimeoutEvent
    PROVE  WholeInv'
<1>1. CASE \/ \E status, by : Cleanup(status, by) /\ c.state \notin {"NONE", "NEED_CCON"}
  <2>1. srv'.doing = "none" /\ c' = Idle
    BY <1>1, CleanupFacts DEF Quiet
  <2> QED BY <2>1, WholeRest DEF Idle, Transfer
<1>2. CASE ControlTimeout
  <2>1. CloseControl /\ c' = Idle
    BY <1>2 DEF ControlTimeout, Ended
  <2> QED BY <2>1, WholeRest DEF Idle, Transfer, CloseControl, NewSession
<1>3. CASE IdleEvent \/ IdleTimeoutEvent
  <2>1. CloseControl /\ c' = c /\ c.state = "NONE"
    BY <1>3 DEF IdleEvent, IdleTimeoutEvent, Active
  <2>2. c.sub = ""
    BY <2>1 DEF PartsInv, InState, Resting, Beginning, Logging, Dialling, AskingServer, Getting,
                Through
  <2> QED BY <2>1, <2>2, WholeRest DEF Transfer, CloseControl, NewSession
<1> QED BY <1>1, <1>2, <1>3 DEF Finish, Kill, DataTimeout, Ready, Active

\* Steps of the server that send no reply.
LEMMA WholeSilent ==
    ASSUME WholeInv, ServerTurn, clean', UNCHANGED replies,
           d'.read = d.read, d.eof => d'.eof /\ d'.sent = d.sent,
           srv'.doing # "none" => srv'.doing = srv.doing,
           srv'.doing # "none" /\ srv'.phase = "data" => d'.dialled /\ ~d'.eof,
           srv'.doing # "none" /\ srv'.phase = "whole" => AllSent'
    PROVE  WholeInv'
<1>1. UNCHANGED c /\ Job' = Job
  BY DEF ServerTurn, Job
<1>2. (AllSent => AllSent') /\ (Confirmed => Confirmed')
  BY <1>1 DEF AllSent, Confirmed
<1>3. Quiet => Quiet'
  BY TurnKeepsShapes
<1>4. Two(replies') = Two(replies) /\ One(replies') = One(replies) /\ replies' = replies
  BY DEF One, Two
<1> QED BY <1>1, <1>2, <1>3, <1>4 DEF WholeInv

\* The reply after a transfer.
LEMMA WholeOver ==
    ASSUME FTPAssumption, PartsInv, StepInv, WholeInv, NEW code, Over(code), UNCHANGED <<c, d, job, commands>>,
           srv.doing # "none", code \div 100 = 2 => Job.kind = "put" \/ AllSent
    PROVE  WholeInv'
<1>1. srv'.doing = "none" /\ \E x : replies' = Append(replies, x) /\ x.code = code
  BY OverFacts
<1> PICK x : replies' = Append(replies, x) /\ x.code = code
  BY <1>1
<1>2. ~Quiet
  BY DEF Quiet
<1>3. ASSUME c.sub = "NEED_ACTION" PROVE replies'[2] = x
  <2>1. One(replies)
    BY <1>3, TransferShapes DEF Transferring
  <2> DEFINE y == replies[1]
  <2>2. replies = <<y>>
    BY <2>1 DEF One
  <2> HIDE DEF y
  <2>3. replies' = <<y, x>>
    BY <1>1, <2>2, TupleFacts
  <2> QED BY <2>3
<1>4. ASSUME c.sub \in Transfer PROVE replies'[1] = x
  <2>1. replies = <<>>
    BY <1>4, TransferShapes DEF Finishing
  <2>2. replies' = <<x>>
    BY <1>1, <2>1, TupleFacts
  <2> QED BY <2>2
<1>5. Job' = Job /\ AllSent' = AllSent /\ Confirmed' = Confirmed
  BY DEF Job, AllSent, Confirmed
<1> QED BY <1>1, <1>2, <1>3, <1>4, <1>5 DEF WholeInv

LEMMA WholeServer ==
    ASSUME FTPAssumption, PartsInv, SocketInv, clean', StepInv, WholeInv,
           Greet \/ Dial \/ CannotDial \/ SendData \/ EndData \/ DataGone \/ Final \/ ServerCloses
    PROVE  WholeInv'
<1>0. ServerTurn
  BY ServerTurns
<1> USE DEF PartsInv
<1>1. CASE Greet
  <2>1. /\ srv.greet /\ UNCHANGED <<c, d>> /\ srv.doing = "none" /\ srv'.doing = "none"
    BY <1>1 DEF Greet, Talks, ServerOnly
  <2>2. ~Quiet /\ c.sub \notin {"NEED_ACTION"} \cup Transfer
    BY <2>1, TransferShapes DEF Quiet
  <2>3. Job' = Job
    BY <2>1 DEF Job
  <2> QED BY <2>1, <2>2, <2>3, TurnKeepsShapes, <1>0 DEF WholeInv, Transfer, Confirmed, AllSent
<1>2. CASE Dial
  <2>1. /\ UNCHANGED replies /\ d'.read = d.read /\ d'.sent = d.sent /\ d'.eof = d.eof
        /\ d'.dialled /\ ~d.eof /\ srv'.doing = srv.doing /\ srv'.phase = "data"
    BY <1>2 DEF Dial, SocketInv
  <2> QED BY <1>0, <2>1, WholeSilent
<1>3. CASE CannotDial
  <2>1. Over(425) /\ UNCHANGED <<c, d, job, commands>> /\ srv.doing # "none"
    BY <1>3 DEF CannotDial, Phase, ServerOnly
  <2> QED BY <2>1, WholeOver, 425 \div 100 = 4
<1>4. CASE SendData
  <2>1. /\ UNCHANGED <<replies, srv>> /\ d'.read = d.read /\ d'.eof = d.eof /\ d'.dialled = d.dialled
        /\ srv.doing # "none" /\ srv.phase = "data"
    BY <1>4 DEF SendData, Phase
  <2>2. d.dialled /\ ~d.eof
    BY <2>1 DEF WholeInv
  <2> QED BY <1>0, <2>1, <2>2, WholeSilent
<1>5. CASE EndData
  <2>1. /\ UNCHANGED <<replies>> /\ d'.read = d.read /\ d'.eof /\ d'.sent = d.sent
        /\ srv'.doing = srv.doing /\ srv'.phase = IF d.sent = Chunks THEN "whole" ELSE "cut"
    BY <1>5 DEF EndData
  <2>2. srv'.phase = "whole" => AllSent'
    BY <2>1 DEF AllSent
  <2> QED BY <1>0, <2>1, <2>2, WholeSilent
<1>6. CASE DataGone
  <2>1. CASE srv.doing = "STOR"
    <3>1. Over(226) /\ UNCHANGED <<c, d, job, commands>> /\ srv.doing # "none"
      BY <1>6, <2>1 DEF DataGone, Phase, ServerOnly
    <3> QED BY <2>1, <3>1, WholeOver DEF WholeInv
  <2>2. CASE srv.doing # "STOR"
    <3>1. Over(426) /\ UNCHANGED <<c, d, job, commands>> /\ srv.doing # "none"
      BY <1>6, <2>2 DEF DataGone, Phase, ServerOnly
    <3> QED BY <3>1, WholeOver, 426 \div 100 = 4
  <2> QED BY <2>1, <2>2
<1>7. CASE Final
  <2>1. UNCHANGED <<c, d, job, commands>> /\ srv.doing # "none"
    BY <1>7 DEF Final, Phase, ServerOnly
  <2>2. CASE Phase("whole") /\ Over(226)
    BY <2>1, <2>2, WholeOver DEF Phase, WholeInv
  <2>3. CASE Phase("cut") /\ Over(426)
    BY <2>1, <2>3, WholeOver, 426 \div 100 = 4
  <2> QED BY <1>7, <2>2, <2>3 DEF Final
<1>8. CASE ServerCloses
  <2>1. /\ UNCHANGED replies /\ d'.read = d.read /\ d'.sent = d.sent /\ (d.eof => d'.eof)
        /\ srv'.doing = "none"
    BY <1>8 DEF ServerCloses, NewSession
  <2> QED BY <1>0, <2>1, WholeSilent
<1> QED BY <1>1, <1>2, <1>3, <1>4, <1>5, <1>6, <1>7, <1>8

LEMMA WholeAnswer ==
    ASSUME FTPAssumption, PartsInv, StepInv, Answer
    PROVE  WholeInv'
<1>1. /\ c.sub \in CommandSubs /\ commands = Pending
      /\ srv.doing = "none" /\ ~srv.greet /\ UNCHANGED <<c, job>>
  BY AnswerFacts
<1> DEFINE name == CommandOf[c.sub]
           m == Pending[1]
<1>2. PICK r \in Replies[name] : srv' = Session(m, r[1]) /\ \E x : replies' = <<x>>
  BY AnswerFacts
<1>3. ~Two(replies')
  BY <1>2, TupleFacts
<1>4. m.name = name
  BY DEF Pending
<1> HIDE DEF m, name
<1>5. srv'.doing = "none" \/ (r[1] \in Starts /\ srv'.doing = name /\ srv'.phase = "dial")
  BY <1>1, <1>2, <1>4, SessionFacts
<1>6. srv'.doing = "STOR" => Job.kind = "put"
  <2>1. name = "STOR" => Job.kind = "put"
    BY <1>1 DEF name, CommandOf, CommandSubs
  <2> QED BY <1>5, <2>1
<1>7. Job' = Job
  BY <1>1 DEF Job
<1>8. c.state # "SUCCESS"
  BY <1>1 DEF CommandSubs, PartsInv, InState, Resting, Beginning, Logging, Dialling,
              AskingServer, Getting, Through
<1> QED BY <1>1, <1>3, <1>5, <1>6, <1>7, <1>8 DEF WholeInv, CommandSubs, Transfer

\* The steps of the machines that neither read nor write.
LEMMA WholeInternal ==
    ASSUME PartsInv, SocketInv, StepInv, WholeInv,
           \/ LoginSelect \/ PromptUser \/ LoginEnds \/ TypeOfList \/ DataConnectionEnds \/ KnownServer
           \/ ServerInfoEnds \/ DataSelect \/ NextSegment \/ GetDataEnds \/ Stream \/ ReadBlocks
           \/ ControlEvent \/ DataEvent \/ Accept \/ Listen
    PROVE  WholeInv'
<1> USE DEF PartsInv, ClientParts
<1>0. UNCHANGED <<commands, replies, srv, job>>
  BY DEF Internal, At, LoginSelect, PromptUser, LoginEnds, TypeOfList, DataConnectionEnds,
         KnownServer, ServerInfoEnds, DataSelect, NextSegment, GetDataEnds, Stream, ReadBlocks,
         ControlEvent, DataEvent, Accept, Listen
<1>1. CASE ReadBlocks \/ ControlEvent \/ DataEvent
  <2>1. UNCHANGED <<c, d>> /\ Quiet' = Quiet
    BY <1>0, <1>1, WireKept DEF ReadBlocks, ControlEvent, DataEvent, Internal
  <2>2. Job' = Job /\ AllSent' = AllSent /\ (c'.repcode = c.repcode => Confirmed' = Confirmed)
    BY <2>1 DEF Job, AllSent, Confirmed
  <2>3. Two(replies') = Two(replies) /\ One(replies') = One(replies)
    BY <1>0 DEF One, Two
  <2> QED BY <1>0, <2>1, <2>2, <2>3 DEF WholeInv
<1>2. CASE LoginSelect \/ PromptUser
  <2>1. /\ c.state = "NEED_LOGIN" /\ c'.state = c.state /\ c'.job = c.job /\ UNCHANGED d
        /\ c'.sub \in {"NEED_REIN", "NEED_GREETING", "NEED_UID", "SUB_ERROR"}
    BY <1>2 DEF LoginSelect, PromptUser, At, Goto, Internal
  <2> QED BY <1>0, <2>1, WholeRest DEF Transfer
<1>3. CASE LoginEnds
  <2>1. /\ c'.state \in {"ERROR", "NEED_DCON"} /\ c'.job = c.job /\ UNCHANGED d
        /\ c'.sub \in {"", "NEED_TYPE"}
    BY <1>3 DEF LoginEnds, At, Enter, Internal
  <2> QED BY <1>0, <2>1, WholeRest DEF Transfer
<1>4. CASE TypeOfList
  <2>1. /\ c'.state = "NEED_DCON" /\ c'.job = c.job /\ UNCHANGED d /\ c'.sub = "SELECT"
    BY <1>4 DEF TypeOfList, At, Goto, Internal
  <2> QED BY <1>0, <2>1, WholeRest DEF Transfer
<1>5. CASE DataConnectionEnds
  <2>1. /\ c'.state \in {"ERROR", "NEED_SERVER", "NEED_DATA"} /\ c'.job = c.job /\ UNCHANGED d
        /\ c'.sub \in {"", "NEED_SYST", "SELECT"}
    BY <1>5 DEF DataConnectionEnds, At, Enter, Internal
  <2> QED BY <1>0, <2>1, WholeRest DEF Transfer
<1>6. CASE KnownServer \/ ServerInfoEnds
  <2>1. c'.state = "NEED_DATA" /\ c'.job = c.job /\ UNCHANGED d /\ c'.sub = "SELECT"
    BY <1>6 DEF KnownServer, ServerInfoEnds, At, Internal
  <2> QED BY <1>0, <2>1, WholeRest DEF Transfer
<1>7. CASE DataSelect \/ NextSegment
  <2>1. /\ c.state = "NEED_DATA" /\ c.sub \in {"SELECT", "NEED_SEGMENT"} /\ UNCHANGED d
        /\ c'.state = "NEED_DATA" /\ c'.job = c.job /\ c'.sub \in {"NEED_ACTION", "NEED_CWD"}
    BY <1>7 DEF DataSelect, NextSegment, At, Goto, Internal
  <2>2. replies' = <<>>
    BY <1>0, <2>1 DEF StepInv, Quiet
  <2>3. ~Two(replies')
    BY <2>2, TupleFacts
  <2>4. Job' = Job /\ AllSent' = AllSent /\ (c'.repcode = c.repcode => Confirmed' = Confirmed)
    BY <2>1 DEF Job, AllSent, Confirmed
  <2> QED BY <1>0, <2>1, <2>3, <2>4 DEF WholeInv, Transfer
<1>8. CASE GetDataEnds
  <2>1. /\ c'.job = c.job /\ UNCHANGED d
        /\ \/ /\ c.state = "NEED_DATA" /\ c.sub = "SUB_SUCCESS" /\ c'.repcode = c.repcode
              /\ c'.state = "SUCCESS" /\ c'.sub = ""
           \/ c'.state \in {"ERROR", "NEED_SERVER"} /\ c'.sub \in {"", "NEED_SYST"}
    <3>1. CASE At("NEED_DATA", "SUB_SUCCESS") /\ Enter("SUCCESS", "") /\ Internal
      BY <3>1 DEF At, Enter, Internal
    <3>2. CASE /\ At("NEED_DATA", "SUB_ERROR") /\ Internal
               /\ \/ Enter("ERROR", "")
                  \/ c' = [c EXCEPT !.state = "NEED_SERVER", !.sub = "NEED_SYST", !.type = ListType(c.server)]
      BY <3>2 DEF At, Enter, Internal
    <3> QED BY <1>8, <3>1, <3>2 DEF GetDataEnds
  <2>2. CASE c'.state # "SUCCESS"
    BY <1>0, <2>1, <2>2, WholeRest DEF Transfer
  <2>3. CASE c'.state = "SUCCESS"
    <3>1. Job.kind = "put" \/ (Quiet /\ (c.repcode = 225 \/ (AllSent /\ d.read = Chunks)))
      BY <2>1, <2>3 DEF WholeInv
    <3>2. Job' = Job /\ Quiet' = Quiet /\ AllSent' = AllSent
      BY <1>0, <2>1, WireKept DEF Job, AllSent
    <3>3. c'.sub = "" /\ d' = d /\ srv' = srv
      BY <1>0, <2>1, <2>3
    <3> QED BY ZenonT(60), <2>1, <2>3, <3>1, <3>2, <3>3 DEF WholeInv, Transfer
  <2> QED BY <2>2, <2>3
<1>9. CASE Stream
  <2>1. /\ c.state = "NEED_DATA" /\ c.sub = "NEED_STREAM" /\ UNCHANGED d
        /\ c'.state = "NEED_DATA" /\ c'.sub = "NEED_BODY" /\ c'.job = c.job
        /\ c'.complete = c.complete /\ c'.repcode = c.repcode
    BY <1>9 DEF Stream, At, Goto, Internal
  <2>2. c.complete = {} /\ c.repcode \in {125, 150, 225}
    BY <2>1 DEF SocketInv, WholeInv, Starts
  <2>4. c.repcode \div 100 = 2 => c.repcode = 225
    BY <2>2
  <2>3. Job' = Job /\ AllSent' = AllSent /\ (c'.repcode = c.repcode => Confirmed' = Confirmed)
    BY <2>1 DEF Job, AllSent, Confirmed
  <2> QED BY <1>0, <2>1, <2>2, <2>3, <2>4 DEF WholeInv, Transfer
<1>10. CASE Accept
  <2>1. /\ c.state = "NEED_DATA" /\ c.sub = "NEED_ACCEPT"
        /\ d'.eof = d.eof /\ d'.sent = d.sent /\ d'.dialled = d.dialled
        /\ c'.state = "NEED_DATA" /\ c'.sub \in {"NEED_ACCEPT", "NEED_STREAM", "SUB_ERROR"}
        /\ c'.job = c.job /\ c'.repcode = c.repcode
    BY <1>10 DEF Accept, At, Goto
  <2>2. Job' = Job /\ AllSent' = AllSent /\ (c'.repcode = c.repcode => Confirmed' = Confirmed)
    BY <2>1 DEF Job, AllSent, Confirmed
  <2> QED BY <1>0, <2>1, <2>2 DEF WholeInv, Transfer
<1>11. CASE Listen
  <2>1. c.state = "NEED_DCON" /\ c.sub = "SELECT" /\ c'.state = "NEED_DCON" /\ c'.sub = "NEED_PORT"
    BY <1>11 DEF Listen, At, Goto
  <2>2. srv'.doing = "none"
    BY <1>0, <2>1 DEF StepInv, Quiet
  <2> QED BY <2>1, <2>2, WholeRest DEF Transfer
<1> QED BY <1>1, <1>2, <1>3, <1>4, <1>5, <1>6, <1>7, <1>8, <1>9, <1>10, <1>11

LEMMA WholeData ==
    ASSUME PartsInv, CountsInv, StepInv, WholeInv, Put \/ ReadData
    PROVE  WholeInv'
<1> USE DEF PartsInv, ClientParts
<1>1. /\ c.state = "NEED_DATA" /\ c.sub = "NEED_BODY" /\ UNCHANGED <<commands, replies, srv, job>>
  BY DEF Put, ReadData, At
<1>2. Quiet' = Quiet
  BY <1>1, WireKept
<1>3. CASE DataFailed /\ UNCHANGED d
  <2>1. c'.state = "NEED_DATA" /\ c'.sub = "SUB_ERROR" /\ c'.job = c.job
    BY <1>1, <1>3 DEF DataFailed
  <2> QED BY <1>1, <1>3, <2>1, WholeRest DEF Transfer
<1>4. CASE /\ Put /\ c' = [c EXCEPT !.sub = "SUB_SUCCESS", !.complete = {"data", "ctrl"}]
           /\ d' = [d EXCEPT !.sent = Chunks, !.read = Chunks]
  <2>1. /\ c'.state = "NEED_DATA" /\ c'.sub = "SUB_SUCCESS" /\ c'.job = c.job
        /\ d'.eof = d.eof /\ d'.dialled = d.dialled /\ d'.sent = Chunks
    BY <1>1, <1>4
  <2>2. Job'.kind = "put" /\ Job' = Job /\ (AllSent => AllSent')
    BY <1>4, <2>1 DEF Put, Job, AllSent
  <2> QED BY <1>1, <2>1, <2>2 DEF WholeInv, Transfer
<1>5. CASE ReadData /\ UNCHANGED c
  <2>1. /\ d'.eof = d.eof /\ d'.dialled = d.dialled /\ d'.sent = d.sent
        /\ d' = d \/ d.read < d.sent \/ c' = Completed("data")
    BY <1>5 DEF ReadData, CountsInv, DataFailed
  <2>2. d' = d \/ ~(d.read = d.sent) \/ "data" \notin c.complete \/ c' = Completed("data")
    BY <2>1 DEF CountsInv
  <2>3. Job' = Job /\ AllSent' = AllSent /\ Confirmed' = Confirmed
    BY <1>5, <2>1 DEF Job, AllSent, Confirmed
  <2>4. "data" \in c.complete => d'.eof /\ d'.read = d'.sent
    BY <1>1, <1>5, <2>1 DEF WholeInv, CountsInv, ReadData, DataFailed
  <2> QED BY <1>1, <1>2, <1>5, <2>1, <2>3, <2>4 DEF WholeInv, Transfer
<1>6. CASE ReadData /\ c' = Completed("data") /\ d' = [d EXCEPT !.sock = "closed"] /\ d.read = d.sent /\ d.eof
  <2>1. /\ c'.state = "NEED_DATA" /\ c'.job = c.job /\ c'.repcode = c.repcode /\ c'.line = c.line
        /\ c'.complete = c.complete \cup {"data"}
        /\ c'.sub = "NEED_BODY" \/ (c'.sub = "SUB_SUCCESS" /\ "ctrl" \in c.complete)
    BY <1>1, <1>6, CompletedFacts
  <2>2. d'.eof = d.eof /\ d'.dialled = d.dialled /\ d'.sent = d.sent /\ d'.read = d.read
    BY <1>6
  <2>3. /\ Job' = Job /\ AllSent' = AllSent /\ Confirmed' = Confirmed
        /\ AllSent => d'.read = Chunks
    BY <1>6, <2>1, <2>2 DEF Job, AllSent, Confirmed
  <2>4. Confirmed => c'.repcode = 225 \/ (AllSent' /\ d'.read = Chunks)
    BY <2>1, <2>3 DEF Confirmed
  <2> QED BY <1>1, <1>2, <1>6, <2>1, <2>2, <2>3, <2>4 DEF WholeInv, Transfer
<1> QED BY <1>1, <1>3, <1>4, <1>5, <1>6 DEF Put, ReadData, CountsInv

LEMMA WholeReplies ==
    ASSUME PartsInv, SocketInv, clean', StepInv, MoreInv, WholeInv,
           SendCommand \/ ReadReply \/ ReadPart \/ ReadUncoded \/ ReadClosed \/ ReadFinal
    PROVE  WholeInv'
<1> USE DEF PartsInv, ClientParts
<1>1. CASE SendCommand
  <2>1. /\ HasCommand /\ ~c.sent /\ Needed /\ UNCHANGED <<d, replies, srv>>
        /\ c' = Sent \/ c' = [Sent EXCEPT !.sub = "SUB_ERROR"]
    BY <1>1 DEF SendCommand
  <2>2. c.sub \in CommandSubs /\ replies = <<>>
    BY <2>1, CommandFacts DEF StepInv, Quiet
  <2>3. c'.job = c.job /\ c'.state = c.state /\ c'.sub \in {c.sub, "SUB_ERROR"}
    BY <2>1 DEF Sent
  <2>4. c.state # "SUCCESS"
    BY <2>2 DEF CommandSubs, InState, Resting, Beginning, Logging, Dialling, AskingServer,
                Getting, Through
  <2>5. ~Two(replies')
    BY <2>1, <2>2, TupleFacts
  <2>6. Job' = Job /\ AllSent' = AllSent
    BY <2>1, <2>3 DEF Job, AllSent
  <2> QED BY <2>1, <2>2, <2>3, <2>4, <2>5, <2>6 DEF WholeInv, Transfer, CommandSubs
<1>2. CASE ReadReply
  <2> DEFINE code == replies[1].code
             sub == After(CodeOf(replies[1]), TextOf(replies[1]))
  <2>1. /\ Awaits /\ ReadsReply /\ replies # <<>> /\ UNCHANGED <<d, srv>>
    BY <1>2, ReadReplyFacts DEF ReadsReply, ReadKeeps
  <2>2. c'.sub = sub /\ c'.state = c.state /\ c'.job = c.job /\ c'.repcode = code
    BY <1>2, ReadReplyFacts, CodeKnown DEF ReadKeeps
  <2>3. /\ sub = "NEED_ACCEPT" => c.sub = "NEED_ACTION" /\ code \in Starts
        /\ sub \notin {"NEED_ACTION", "NEED_STREAM", "NEED_BODY"}
        /\ c.state = "NEED_DATA" => sub # "SUB_SUCCESS"
        /\ c.state # "SUCCESS"
    BY <2>1, AfterFacts, CodeKnown DEF LoginSubs, ServerSubs
  <2>6. Job' = Job /\ AllSent' = AllSent
    BY <2>1, <2>2 DEF Job, AllSent
  <2> HIDE DEF sub, code
  <2>4. CASE sub # "NEED_ACCEPT"
    BY <2>1, <2>2, <2>3, <2>4, <2>6 DEF WholeInv, Transfer
  <2>5. CASE sub = "NEED_ACCEPT"
    <3>1. One(replies) \/ Two(replies)
      BY <2>1, SomeReplies
    <3>2. One(replies') => Two(replies) /\ replies'[1].code = replies[2].code
      BY <2>1, <3>1, ReplyRead, TupleFacts
    <3> QED BY <2>1, <2>2, <2>3, <2>5, <2>6, <3>2 DEF WholeInv, Transfer
  <2> QED BY <2>4, <2>5
<1>3. CASE ReadClosed
  <2>1. /\ Awaits /\ UNCHANGED <<d, srv>> /\ c'.sub = "SUB_ERROR" /\ c'.state = c.state /\ c'.job = c.job
    BY <1>3 DEF ReadClosed
  <2>2. c.state # "SUCCESS"
    BY <2>1, AfterFacts
  <2>3. Job' = Job /\ AllSent' = AllSent
    BY <2>1 DEF Job, AllSent
  <2> QED BY <2>1, <2>2, <2>3 DEF WholeInv, Transfer
<1>5. CASE ReadPart
  <2>1. /\ Awaits \/ InFinal
        /\ replies # <<>> /\ UNCHANGED <<d, srv>> /\ c'.state = c.state /\ c'.job = c.job
        /\ c'.sub = c.sub /\ c'.complete = c.complete /\ c'.line = "more"
    BY <1>5, ReadPartFacts DEF ReadKeeps
  <2>2. /\ ~Quiet /\ replies'[1].code = replies[1].code /\ (One(replies') => One(replies))
        /\ Two(replies') => Two(replies) /\ replies'[2].code = replies[2].code
    BY <1>5, ReadPartStep
  <2>3. c.state # "SUCCESS" /\ c.sub \notin {"SUB_SUCCESS", "NEED_ACCEPT", "NEED_STREAM"}
    <3>1. CASE Awaits
      BY <2>1, <3>1, AfterFacts, AwaitedShape DEF CommandSubs
    <3>2. CASE InFinal
      BY <3>2 DEF InFinal
    <3> QED BY <2>1, <3>1, <3>2
  <2>4. Job' = Job /\ AllSent' = AllSent
    BY <2>1 DEF Job, AllSent
  <2> QED BY <2>1, <2>2, <2>3, <2>4 DEF WholeInv, Transfer
<1>6. CASE ReadUncoded
  BY <1>6, NeverUncoded
<1>4. CASE ReadFinal
  <2>1. /\ c.state = "NEED_DATA" /\ c.sub = "NEED_BODY" /\ UNCHANGED <<d, commands, srv>>
    BY <1>4, ReadFinalFacts
  <2>0. Finishing
    BY <2>1 DEF StepInv, Transfer
  <2>2. CASE UNCHANGED <<c, conn, replies>>
    <3>1. Quiet' = Quiet /\ Job' = Job /\ AllSent' = AllSent /\ Confirmed' = Confirmed
      BY <2>1, <2>2, WireKept DEF Job, AllSent, Confirmed
    <3>2. Two(replies') = Two(replies) /\ One(replies') = One(replies) /\ replies' = replies
      BY <2>2 DEF One, Two
    <3> QED BY <2>1, <2>2, <3>1, <3>2 DEF WholeInv
  <2>3. CASE Quiet' /\ \E code : FinalCode(code) /\ (code \div 100 = 2 => code = 225 \/ Job.kind = "put" \/ AllSent)
    <3>1. PICK code : FinalCode(code) /\ (code \div 100 = 2 => code = 225 \/ Job.kind = "put" \/ AllSent)
      BY <2>3
    <3>2. CASE code \div 100 = 2
      <4>3. /\ c'.state = c.state /\ c'.complete = c.complete \cup {"ctrl"} /\ c'.job = c.job
            /\ c'.sub = "NEED_BODY" \/ (c'.sub = "SUB_SUCCESS" /\ "data" \in c.complete)
            /\ c'.repcode = code
        BY <3>1, <3>2, FinalFacts
      <4>4. Job' = Job /\ AllSent' = AllSent /\ (Job.kind = "put" \/ Confirmed')
        BY <2>1, <3>1, <3>2, <4>3 DEF Job, AllSent, Confirmed
      <4>5. "data" \in c.complete => d.eof /\ d.read = d.sent
        BY <2>1 DEF WholeInv
      <4>6. "data" \in c.complete => Job.kind = "put" \/ code = 225 \/ (AllSent /\ d.read = Chunks)
        BY <3>1, <3>2, <4>5 DEF AllSent
      <4>7. ~One(replies')
        BY <2>3, TupleFacts DEF Quiet
      <4> QED BY <2>1, <2>3, <4>3, <4>4, <4>5, <4>6, <4>7 DEF WholeInv, Transfer
    <3>3. CASE code \div 100 # 2
      <4>1. c'.sub = "SUB_ERROR" /\ c'.state = "NEED_DATA" /\ c'.job = c.job
        BY <2>1, <3>1, <3>3, FinalFacts
      <4> QED BY <2>1, <4>1, WholeRest DEF Transfer
    <3> QED BY <3>2, <3>3
  <2>4. CASE ReadsReply /\ FinalCode(CodeOf(replies[1]))
    <3>1. One(replies)
      BY <2>0, <2>4 DEF Finishing, ReadsReply
    <3>2. replies[1].code \div 100 = 2 => Job.kind = "put" \/ AllSent
      BY <2>1, <3>1 DEF WholeInv, Transfer
    <3>3. Quiet'
      BY <2>0, <2>1, <2>4, <3>1, ReplyRead DEF Quiet, Finishing, ReadsReply
    <3> QED BY <2>3, <2>4, <3>2, <3>3, CodeKnown
  <2>5. CASE replies = <<>> /\ conn # "open" /\ UNCHANGED replies /\ FinalCode(c.repcode)
    <3>1. Quiet' /\ Quiet
      BY <2>0, <2>1, <2>5 DEF Quiet, Finishing
    <3>2. c.line = "first"
      BY <2>5 DEF MoreInv
    <3>3. c.repcode \div 100 = 2 => c.repcode = 225 \/ Job.kind = "put" \/ AllSent
      BY <2>1, <3>2 DEF WholeInv, Confirmed
    <3> QED BY <2>3, <2>5, <3>1, <3>3
  <2> QED BY <1>4, <2>2, <2>4, <2>5, ReadFinalFacts
<1> QED BY <1>1, <1>2, <1>3, <1>4, <1>5, <1>6

LEMMA WholeNext ==
    ASSUME FTPAssumption, PartsInv, SocketInv, CountsInv, clean => StepInv /\ MoreInv /\ WholeInv, Next, clean'
    PROVE  WholeInv'
<1>1. CASE Start \/ Reuse \/ Connect \/ ConnectFails
  BY <1>1, WholeBegin
<1>2. CASE Finish \/ Kill \/ DataTimeout \/ ControlTimeout \/ IdleEvent \/ IdleTimeoutEvent
  BY <1>2, WholeEnd
<1>3. CASE Greet \/ Dial \/ CannotDial \/ SendData \/ EndData \/ DataGone \/ Final \/ ServerCloses
  BY <1>3, ServerTurns, WholeServer DEF ServerTurn
<1>4. CASE Answer
  BY <1>4, WholeAnswer DEF Answer, Says
<1>5. CASE \/ LoginSelect \/ PromptUser \/ LoginEnds \/ TypeOfList \/ DataConnectionEnds \/ KnownServer
           \/ ServerInfoEnds \/ DataSelect \/ NextSegment \/ GetDataEnds \/ Stream \/ ReadBlocks
           \/ ControlEvent \/ DataEvent \/ Accept \/ Listen
  <2>1. clean
    BY <1>5 DEF LoginSelect, PromptUser, LoginEnds, TypeOfList, DataConnectionEnds, KnownServer,
                ServerInfoEnds, DataSelect, NextSegment, GetDataEnds, Stream, ReadBlocks,
                ControlEvent, DataEvent, Accept, Listen, Internal
  <2> QED BY <1>5, <2>1, WholeInternal
<1>6. CASE Put \/ ReadData
  BY <1>6, WholeData DEF Put, ReadData
<1>7. CASE SendCommand \/ ReadReply \/ ReadPart \/ ReadUncoded \/ ReadClosed \/ ReadFinal
  <2>1. clean
    BY <1>7, ReadReplyFacts, ReadPartFacts, ReadUncodedFacts, ReadFinalFacts
       DEF SendCommand, ReadClosed, ReadKeeps
  <2> QED BY <1>7, <2>1, WholeReplies
<1> QED BY <1>1, <1>2, <1>3, <1>4, <1>5, <1>6, <1>7 DEF Next, Machine, Server

(***************************************************************************)
(* The directory the server is in.                                         *)
(***************************************************************************)
LEMMA JobFacts ==
    ASSUME FTPAssumption, NEW j \in UNION {Jobs[i] : i \in DOMAIN Jobs}
    PROVE  /\ j.path \in Seq(STRING \ {"/"}) /\ Len(j.path) \in Nat /\ (j.path # <<>> => Len(j.path) > 0)
           /\ \A i \in 1..Len(j.path) : j.path[i] # "/"
<1>1. j.path \in Seq(STRING \ {"/"})
  BY DEF FTPAssumption
<1> DEFINE p == j.path
<1>2. p \in Seq(STRING \ {"/"})
  BY <1>1
<1> HIDE DEF p
<1>3. Len(p) \in Nat /\ \A i \in 1..Len(p) : p[i] \in STRING \ {"/"}
  BY <1>2
<1>4. p # <<>> => Len(p) > 0
  BY <1>2, EmptySeq
<1> QED BY <1>1, <1>3, <1>4 DEF p

\* Steps that leave the request, and what of the name has been passed.
LEMMA RequestKept ==
    ASSUME PartsInv, Next
    PROVE  \/ Start \/ NextSegment \/ (c' = Idle /\ UNCHANGED job)
           \/ /\ UNCHANGED job /\ c'.job = c.job /\ c'.offset = c.offset
              /\ c'.state = "NONE" <=> c.state = "NONE"
              /\ c'.state = "NEED_CCON" => c.state = "NEED_CCON"
<1> USE DEF PartsInv, ClientParts
<1>1. CASE UNCHANGED <<c, job>>
  BY <1>1
<1>2. CASE c' = Idle /\ UNCHANGED job
  BY <1>2
<1>3. CASE Reuse \/ Connect
  BY <1>3 DEF Reuse, Connect, Enter
<1>4. CASE SendCommand
  BY <1>4 DEF SendCommand, Sent
<1>5. CASE ReadReply \/ ReadPart \/ ReadUncoded
  BY <1>5, ReadReplyFacts, ReadPartFacts, ReadUncodedFacts DEF ReadKeeps
<1>6. CASE ReadClosed
  BY <1>6 DEF ReadClosed
<1>7. CASE LoginSelect \/ PromptUser \/ LoginEnds
  BY ZenonT(100), <1>7 DEF LoginSelect, PromptUser, LoginEnds, At, Goto, Enter, Internal
<1>8. CASE TypeOfList \/ Listen \/ DataConnectionEnds
  BY ZenonT(100), <1>8 DEF TypeOfList, Listen, DataConnectionEnds, At, Goto, Enter, Internal
<1>9. CASE KnownServer \/ ServerInfoEnds
  BY ZenonT(100), <1>9 DEF KnownServer, ServerInfoEnds, At, Internal
<1>10. CASE DataSelect \/ Accept \/ Stream
  BY <1>10 DEF DataSelect, Accept, Stream, At, Goto, Internal
<1>11. CASE Put
  BY ZenonT(100), <1>11 DEF Put, DataFailed
<1>12. CASE ReadData
  <2>1. /\ UNCHANGED job
        /\ \/ c' = c \/ c' = Completed("data")
           \/ c' = [c EXCEPT !.sub = "SUB_ERROR", !.stream_error = TRUE]
    BY <1>12 DEF ReadData, DataFailed
  <2> DEFINE x == Completed("data")
  <2>2. x.state = c.state /\ x.job = c.job /\ x.offset = c.offset
    BY CompletedFacts
  <2> HIDE DEF x
  <2>3. c' = c \/ c' = x \/ c' = [c EXCEPT !.sub = "SUB_ERROR", !.stream_error = TRUE]
    BY <2>1 DEF x
  <2> QED BY <2>1, <2>2, <2>3
<1>13. CASE ReadFinal
  <2>1. UNCHANGED job /\ (c' = c \/ \E code : FinalCode(code))
    BY <1>13, ReadFinalFacts
  <2> QED BY <2>1, FinalFacts
<1>14. CASE GetDataEnds
  BY ZenonT(100), <1>14 DEF GetDataEnds, At, Enter, Internal
<1> QED BY <1>1, <1>2, <1>3, <1>4, <1>5, <1>6, <1>7, <1>8, <1>9, <1>10, <1>11, <1>12, <1>13, <1>14
        DEF Next, Machine, Server, ConnectFails, ReadBlocks, Finish, ControlEvent, DataEvent, IdleEvent,
            IdleTimeoutEvent, Kill, DataTimeout, ControlTimeout, Greet, Answer, Dial, CannotDial, SendData,
            EndData, DataGone, Final, ServerCloses, Internal, ServerOnly, Cleanup, Ended

LEMMA JobNext ==
    ASSUME FTPAssumption, PartsInv, JobInv, Next
    PROVE  JobInv'
<1> USE DEF JobInv, Job
<1>1. CASE Start
  <2>1. job' = job + 1 /\ job' \in DOMAIN Jobs
    BY <1>1 DEF Start, FTPAssumption
  <2>2. PICK j \in Jobs[job'] : \E behind \in Behind(j) : c' = NewRequest(j, behind)
    BY <1>1, <2>1 DEF Start
  <2>3. c'.job = j /\ c'.offset = 0
    BY <2>2 DEF NewRequest, Idle
  <2>4. j \in UNION {Jobs[i] : i \in DOMAIN Jobs}
    BY <2>1, <2>2
  <2>5. Len(j.path) \in Nat
    BY <2>4, JobFacts
  <2> QED BY <2>1, <2>3, <2>4, <2>5
<1>2. CASE NextSegment
  <2>1. /\ c.state = "NEED_DATA" /\ UNCHANGED job
        /\ \/ /\ c.offset = 0 \/ c.offset < Len(Name)
              /\ c' = [c EXCEPT !.offset = c.offset + 1, !.sub = "NEED_CWD"]
           \/ c' = [c EXCEPT !.sub = "NEED_ACTION"]
    BY <1>2 DEF NextSegment, At, Internal
  <2>2. /\ c'.job = c.job /\ c.offset \in Nat
        /\ \/ c'.offset = c.offset
           \/ (c.offset = 0 \/ c.offset < Len(Name)) /\ c'.offset = c.offset + 1
    BY <2>1 DEF PartsInv, ClientParts
  <2>3. Len(Job.path) \in Nat /\ (Job.path # <<>> => Len(Job.path) > 0)
    BY <2>1, JobFacts
  <2>4. Job.path # <<>> => Name = Job.path
    BY DEF Name
  <2> QED BY <2>1, <2>2, <2>3, <2>4
<1>3. CASE c' = Idle /\ UNCHANGED job
  BY <1>3 DEF Idle
<1>4. CASE /\ UNCHANGED job /\ c'.job = c.job /\ c'.offset = c.offset
           /\ c'.state = "NONE" <=> c.state = "NONE"
  BY <1>4
<1> QED BY <1>1, <1>2, <1>3, <1>4, RequestKept

\* Steps that begin no session.
LEMMA SinceKept ==
    ASSUME FTPAssumption, PartsInv, Next
    PROVE  \/ Connect \/ Answer \/ IdleEvent \/ IdleTimeoutEvent \/ ControlTimeout \/ ServerCloses
           \/ srv'.since = srv.since /\ (clean' => clean)
<1> USE DEF PartsInv
<1>1. CASE UNCHANGED <<srv, clean>>
  BY <1>1
<1>2. CASE ReadReply \/ ReadPart \/ ReadUncoded \/ ReadFinal
  BY <1>2, ReadReplyFacts, ReadPartFacts, ReadUncodedFacts, ReadFinalFacts DEF ReadKeeps
<1>3. CASE ConnectFails \/ Finish \/ Kill \/ DataTimeout
  BY <1>3 DEF ConnectFails, Finish, Kill, DataTimeout, Cleanup
<1>4. CASE Greet
  BY <1>4 DEF Greet, Says
<1>5. CASE CannotDial \/ DataGone \/ Final
  <2>1. PICK code : Over(code)
    BY <1>5 DEF CannotDial, DataGone, Final
  <2> QED BY <2>1 DEF Over, Says
<1>6. CASE Dial \/ SendData \/ EndData
  BY <1>6 DEF Dial, SendData, EndData
<1> QED BY <1>1, <1>2, <1>3, <1>4, <1>5, <1>6
        DEF Next, Machine, Server, Start, Reuse, SendCommand, ReadBlocks, ReadClosed, LoginSelect, PromptUser,
            LoginEnds, TypeOfList, Listen, DataConnectionEnds, KnownServer, ServerInfoEnds, DataSelect,
            NextSegment, Accept, Stream, Put, ReadData, GetDataEnds, ControlEvent, DataEvent, Internal

LEMMA SinceNext ==
    ASSUME FTPAssumption, PartsInv, JobInv, clean => StepInv /\ SinceInv, Next, clean'
    PROVE  SinceInv'
<1>1. job \in Nat
  BY DEF JobInv
<1>2. CASE Connect
  <2>1. UNCHANGED job /\ srv'.since = job /\ c'.state = "NEED_LOGIN"
    BY <1>2 DEF Connect, Enter, NewSession, PartsInv, ClientParts
  <2> QED BY <1>1, <2>1 DEF SinceInv
<1>3. CASE IdleEvent \/ IdleTimeoutEvent \/ ControlTimeout
  <2>1. UNCHANGED job /\ srv' = NewSession /\ c'.state = "NONE"
    <3>1. CASE IdleEvent \/ IdleTimeoutEvent
      BY <3>1 DEF IdleEvent, IdleTimeoutEvent, CloseControl, Active
    <3>2. CASE ControlTimeout
      BY <3>2 DEF ControlTimeout, CloseControl, Ended, Idle
    <3> QED BY <1>3, <3>1, <3>2
  <2>2. srv'.since = 0
    BY <2>1 DEF NewSession
  <2> QED BY <1>1, <2>1, <2>2 DEF SinceInv
<1>4. CASE ServerCloses
  <2>1. UNCHANGED <<job, c, clean>> /\ srv'.since = 0
    BY <1>4 DEF ServerCloses, ServerOnly, NewSession
  <2>2. c.state = "NEED_CCON" => job > 0
    BY <1>1, <2>1 DEF SinceInv
  <2> QED BY <1>1, <2>1, <2>2 DEF SinceInv
<1>5. CASE Answer
  <2>1. clean /\ StepInv /\ SinceInv
    BY <1>5 DEF Answer, Says
  <2>2. UNCHANGED <<c, job>> /\ c.sub \in CommandSubs
    BY <1>5, <2>1, AnswerFacts
  <2>3. c.state # "NEED_CCON"
    BY <2>2 DEF CommandSubs, PartsInv, InState, Resting, Beginning, Logging, Dialling, AskingServer,
                Getting, Through
  <2> DEFINE m == Pending[1]
  <2>4. PICK r : srv' = Session(m, r[1])
    BY <1>5, <2>1, AnswerFacts
  <2>5. m.job = job
    BY DEF Pending
  <2> HIDE DEF m
  <2>6. srv'.since = job \/ srv'.since = srv.since
    BY <2>4, <2>5 DEF Session, NewSession, PartsInv
  <2> QED BY <1>1, <2>1, <2>2, <2>3, <2>6 DEF SinceInv
<1>6. CASE srv'.since = srv.since /\ clean
  <2>1. SinceInv
    BY <1>6
  <2>2. CASE Start
    BY <1>1, <1>6, <2>1, <2>2 DEF Start, SinceInv
  <2>3. CASE NextSegment
    <3>1. UNCHANGED job /\ c'.state = "NEED_DATA"
      BY <2>3 DEF NextSegment, At, Internal, PartsInv, ClientParts
    <3> QED BY <1>6, <2>1, <3>1 DEF SinceInv
  <2>4. CASE c' = Idle /\ UNCHANGED job
    BY <1>6, <2>1, <2>4 DEF SinceInv, Idle
  <2>5. CASE UNCHANGED job /\ (c'.state = "NEED_CCON" => c.state = "NEED_CCON")
    BY <1>6, <2>1, <2>5 DEF SinceInv
  <2> QED BY <2>2, <2>3, <2>4, <2>5, RequestKept
<1> QED BY <1>2, <1>3, <1>4, <1>5, <1>6, SinceKept

\* Steps that leave the directory.
LEMMA UrlKept ==
    ASSUME UrlInv, UNCHANGED job, c'.job = c.job, c'.offset = c.offset,
           c.state \notin {"NONE", "NEED_CCON"},
           c'.state \in {"NEED_LOGIN", "NEED_DCON"} => c.state \in {"NEED_LOGIN", "NEED_DCON"},
           c'.sub = "NEED_CWD" => c.sub = "NEED_CWD",
           conn' = "open" => /\ conn = "open" /\ (Descending' <=> Descending)
                             /\ srv'.refused = srv.refused /\ srv'.cwd = srv.cwd
                             /\ srv'.since = srv.since
                             /\ srv'.doing # "none" => srv.doing # "none" /\ srv'.path = srv.path
    PROVE  UrlInv'
<1>1. Job' = Job
  BY DEF Job
<1> HIDE DEF Job
<1> QED BY <1>1 DEF UrlInv, FromHome

LEMMA UrlRest ==
    ASSUME c'.state \in {"NONE", "NEED_CCON"}, c'.sub = ""
    PROVE  UrlInv'
  BY DEF UrlInv

\* With nothing of the name passed and no transfer.
LEMMA UrlOutset ==
    ASSUME c'.offset = 0, c'.sub # "NEED_CWD",
           conn' = "open" => srv'.doing = "none" /\ (srv'.since = job' => srv'.cwd = Home)
    PROVE  UrlInv'
  BY DEF UrlInv, FromHome

LEMMA UrlBegin ==
    ASSUME PartsInv, JobInv, clean => StepInv /\ SinceInv, clean',
           Start \/ Reuse \/ Connect \/ ConnectFails
    PROVE  UrlInv'
<1>0. clean /\ c.state = "NEED_CCON" => srv.since # job
  <2>1. SUFFICES ASSUME srv.since \in Nat, srv.since < job PROVE srv.since # job
    BY DEF SinceInv
  <2> DEFINE n == srv.since
  <2>2. n \in Nat /\ n < job /\ job \in Nat
    BY <2>1 DEF JobInv
  <2> HIDE DEF n
  <2>3. n # job
    BY <2>2
  <2> QED BY <2>3 DEF n
<1> USE DEF PartsInv, ClientParts, InState, Resting, Beginning, Logging, Dialling, AskingServer,
            Getting, Through
<1>1. CASE Start
  <2>1. PICK j, behind : c' = NewRequest(j, behind)
    BY <1>1 DEF Start
  <2>2. c'.state = "NEED_CCON" /\ c'.sub = ""
    BY <2>1 DEF NewRequest, Idle
  <2> QED BY <2>2, UrlRest
<1>2. CASE Reuse
  <2>1. /\ UNCHANGED <<job, srv, clean>> /\ c.state = "NEED_CCON" /\ conn # "none"
        /\ c'.sub = "SELECT" /\ c'.offset = c.offset
    BY <1>2 DEF Reuse
  <2>2. srv'.doing = "none" /\ c'.offset = 0
    BY <2>1 DEF StepInv, Quiet
  <2>3. srv'.since # job'
    BY <1>0, <2>1
  <2> QED BY <2>1, <2>2, <2>3, UrlOutset
<1>3. CASE Connect
  <2>1. /\ c.state = "NEED_CCON" /\ c'.sub = "SELECT" /\ c'.offset = c.offset
        /\ srv'.doing = "none" /\ srv'.cwd = Home
    BY <1>3 DEF Connect, Enter, NewSession
  <2> QED BY <2>1, UrlOutset
<1>4. CASE ConnectFails
  <2>1. c' = Idle
    BY <1>4 DEF ConnectFails, Cleanup, Ended
  <2> QED BY <2>1, UrlRest DEF Idle
<1> QED BY <1>1, <1>2, <1>3, <1>4

LEMMA UrlEnd ==
    ASSUME PartsInv,
           Finish \/ Kill \/ DataTimeout \/ ControlTimeout \/ IdleEvent \/ IdleTimeoutEvent
    PROVE  UrlInv'
<1>1. CASE c' = Idle
  BY <1>1, UrlRest DEF Idle
<1>2. CASE IdleEvent \/ IdleTimeoutEvent
  <2>1. c' = c /\ c.state = "NONE"
    BY <1>2 DEF IdleEvent, IdleTimeoutEvent, Active
  <2>2. c.sub = ""
    BY <2>1 DEF PartsInv, InState, Resting, Beginning, Logging, Dialling, AskingServer, Getting,
                Through
  <2> QED BY <2>1, <2>2, UrlRest
<1> QED BY <1>1, <1>2 DEF Finish, Kill, DataTimeout, ControlTimeout, Cleanup, Ended

LEMMA UrlServer ==
    ASSUME FTPAssumption, PartsInv, StepInv, UrlInv,
           Greet \/ Dial \/ CannotDial \/ SendData \/ EndData \/ DataGone \/ Final \/ ServerCloses
    PROVE  UrlInv'
<1> USE DEF PartsInv
<1>1. ServerTurn /\ UNCHANGED <<c, job>>
  BY ServerTurns DEF ServerTurn
<1>2. conn' = "open" => /\ conn = "open" /\ UNCHANGED commands
                        /\ srv'.refused = srv.refused /\ srv'.cwd = srv.cwd /\ srv'.since = srv.since
                        /\ srv'.doing # "none" => srv.doing # "none" /\ srv'.path = srv.path
  <2>1. CASE \E code : Over(code) /\ UNCHANGED <<conn, commands>>
    BY <2>1 DEF Over
  <2>2. CASE Greet \/ Dial \/ SendData \/ EndData \/ ServerCloses
    BY ZenonT(100), <2>2 DEF Greet, Dial, SendData, EndData, ServerCloses, Talks, Phase, ServerOnly
  <2> QED BY <2>1, <2>2 DEF CannotDial, DataGone, Final
<1>3. CASE c.state \in {"NONE", "NEED_CCON"}
  <2>1. c'.sub = ""
    BY <1>1, <1>3 DEF InState, Resting, Beginning, Logging, Dialling, AskingServer, Getting, Through
  <2> QED BY <1>1, <1>3, <2>1, UrlRest
<1>4. CASE c.state \notin {"NONE", "NEED_CCON"}
  <2>1. conn' = "open" => (Descending' <=> Descending)
    BY <1>1, <1>2 DEF Descending
  <2> QED BY <1>1, <1>2, <1>4, <2>1, UrlKept
<1> QED BY <1>3, <1>4

\* The name in a command stands for the directory it should.
LEMMA ResolvedSegment ==
    ASSUME FTPAssumption, NEW j \in UNION {Jobs[i] : i \in DOMAIN Jobs}, NEW i \in 1..Len(j.path),
           NEW cwd, i > 1 => cwd = SubSeq(j.path, 1, i - 2)
    PROVE  Resolved(cwd, IF i = 1 THEN <<"/">> ELSE <<j.path[i - 1]>>) = SubSeq(j.path, 1, i - 1)
<1> DEFINE p == j.path
           S == STRING \ {"/"}
<1>1. p \in Seq(S) /\ Len(p) \in Nat
  BY JobFacts
<1>2. \A k \in 1..Len(p) : p[k] # "/"
  BY JobFacts
<1>3. i \in 1..Len(p) /\ (i > 1 => cwd = SubSeq(p, 1, i - 2))
  OBVIOUS
<1> SUFFICES Resolved(cwd, IF i = 1 THEN <<"/">> ELSE <<p[i - 1]>>) = SubSeq(p, 1, i - 1)
  OBVIOUS
<1> HIDE DEF p, S
<1>4. CASE i = 1
  <2>1. SubSeq(p, 1, 0) = <<>>
    BY SubSeqEmpty
  <2>2. Tail(<<"/">>) = <<>> /\ <<"/">>[1] = "/"
    BY TupleFacts
  <2> QED BY <1>4, <2>1, <2>2 DEF Resolved
<1>5. CASE i # 1
  <2> DEFINE e == p[i - 1]
  <2>1. i - 1 \in 1..Len(p) /\ e # "/"
    BY <1>1, <1>2, <1>3, <1>5
  <2>2. SubSeq(p, 1, i - 1) = SubSeq(p, 1, (i - 1) - 1) \o <<e>>
    <3>1. 1 \in 1..Len(p) /\ i - 1 \in 1..Len(p)
      BY <1>1, <1>3, <2>1
    <3> QED BY <1>1, <3>1, SubSeqRecursiveSecond
  <2> HIDE DEF e
  <2>3. (i - 1) - 1 = i - 2 /\ i > 1
    BY <1>1, <1>3, <1>5
  <2>4. <<e>>[1] # "/"
    BY <2>1
  <2>5. Resolved(cwd, <<e>>) = cwd \o <<e>>
    BY <2>4 DEF Resolved
  <2> QED BY <1>3, <1>5, <2>2, <2>3, <2>5 DEF e
<1> QED BY <1>4, <1>5

LEMMA ResolvedRest ==
    ASSUME FTPAssumption, NEW j \in UNION {Jobs[i] : i \in DOMAIN Jobs}, j.path # <<>>,
           NEW i \in 0..Len(j.path), NEW cwd, i > 0 => cwd = SubSeq(j.path, 1, i - 1)
    PROVE  Resolved(cwd, IF i = 0 THEN <<"/">> \o j.path ELSE SubSeq(j.path, i, Len(j.path))) = j.path
<1> DEFINE p == j.path
           S == STRING \ {"/"}
<1>1. p \in Seq(S) /\ Len(p) \in Nat /\ Len(p) > 0
  BY JobFacts
<1>2. \A k \in 1..Len(p) : p[k] # "/"
  BY JobFacts
<1>3. i \in 0..Len(p) /\ (i > 0 => cwd = SubSeq(p, 1, i - 1))
  OBVIOUS
<1> SUFFICES Resolved(cwd, IF i = 0 THEN <<"/">> \o p ELSE SubSeq(p, i, Len(p))) = p
  OBVIOUS
<1> HIDE DEF p
<1>4. CASE i = 0
  <2> DEFINE T == S \cup {"/"}
             r == <<"/">> \o p
  <2>1. p \in Seq(T) /\ <<"/">> \in Seq(T) /\ Len(<<"/">>) = 1 /\ <<"/">>[1] = "/"
    BY <1>1
  <2> HIDE DEF T, S
  <2>2. r \in Seq(T) /\ Len(r) = 1 + Len(p)
        /\ \A k \in 1..(1 + Len(p)) : r[k] = IF k <= 1 THEN <<"/">>[k] ELSE p[k - 1]
    BY <2>1, ConcatProperties
  <2> HIDE DEF r
  <2>3. r[1] = "/" /\ r # <<>>
    BY <1>1, <2>1, <2>2
  <2>4. Tail(r) \in Seq(T) /\ Len(Tail(r)) = Len(p) /\ \A k \in 1..Len(p) : Tail(r)[k] = r[k + 1]
    BY <1>1, <2>2, <2>3, HeadTailProperties
  <2>5. \A k \in 1..Len(p) : Tail(r)[k] = p[k]
    BY <1>1, <2>2, <2>4
  <2>6. Tail(r) = p
    BY <2>1, <2>4, <2>5, SeqEqual
  <2> QED BY <1>4, <2>3, <2>6 DEF Resolved, r
<1>5. CASE i # 0
  <2> HIDE DEF S
  <2>1. i \in 1..Len(p) /\ i - 1 \in 0..Len(p) /\ (i - 1) + 1 = i /\ i > 0
    BY <1>1, <1>3, <1>5
  <2> DEFINE r == SubSeq(p, i, Len(p))
  <2>2. r[1] = p[i]
    BY <1>1, <2>1, SubSeqProperties
  <2>3. r[1] # "/" /\ r # <<>>
    <3>1. Len(r) = Len(p) - i + 1
      BY <1>1, <2>1, SubSeqProperties
    <3> HIDE DEF r
    <3>2. Len(r) > 0
      BY <1>1, <2>1, <3>1
    <3> QED BY <1>2, <2>1, <2>2, <3>2
  <2> DEFINE k == i - 1
             n == Len(p)
  <2>4. 1 \in 1..(Len(p) + 1) /\ k \in (1 - 1)..Len(p) /\ n \in k..Len(p)
    BY <1>1, <2>1
  <2>5. SubSeq(p, 1, k) \o SubSeq(p, k + 1, n) = SubSeq(p, 1, n)
    <3> HIDE DEF k, n
    <3> QED BY <1>1, <2>4, ConcatAdjacentSubSeq
  <2>6. SubSeq(p, 1, Len(p)) = p
    BY <1>1, SubSeqFull
  <2>7. cwd \o r = p
    BY <1>3, <2>1, <2>5, <2>6
  <2> QED BY <1>5, <2>3, <2>7 DEF Resolved
<1> QED BY <1>4, <1>5

LEMMA UrlAnswer ==
    ASSUME FTPAssumption, PartsInv, StepInv, JobInv, UrlInv, Answer
    PROVE  UrlInv'
<1>1. /\ c.sub \in CommandSubs /\ c.sent /\ commands = Pending /\ commands' = <<>> /\ conn = "open"
      /\ srv.doing = "none" /\ ~srv.greet /\ UNCHANGED <<c, job, conn>>
  BY AnswerFacts
<1> DEFINE name == CommandOf[c.sub]
           m == Pending[1]
<1>2. PICK r \in Replies[name] : srv' = Session(m, r[1])
  BY AnswerFacts
<1>3. m.name = name /\ m.arg = Argument /\ m.job = job
  BY DEF Pending
<1>4. r[1] \in Starts => c.sub = "NEED_ACTION"
  <2>1. c.sub # "NEED_ACTION" => name \in Commands \ Transfers
    BY <1>1, TransferCommands
  <2> QED BY <1>2, <2>1 DEF FTPAssumption
<1>5. /\ name = "CWD" <=> c.sub = "NEED_CWD"
      /\ name = "REIN" <=> c.sub = "NEED_REIN"
      /\ name = "PORT" <=> c.sub = "NEED_PORT"
  BY <1>1 DEF CommandOf, CommandSubs
<1>6. c.state \notin {"NONE", "NEED_CCON"} /\ (c.sub = "NEED_REIN" => c.state = "NEED_LOGIN")
  BY <1>1 DEF CommandSubs, PartsInv, InState, Resting, Beginning, Logging, Dialling,
              AskingServer, Getting, Through, DialSubs, ServerSubs, DataSubs
<1>7. Job \in UNION {Jobs[i] : i \in DOMAIN Jobs} /\ c.offset \in Nat
      /\ (Job.path # <<>> => c.offset <= Len(Job.path))
  BY <1>6 DEF JobInv
<1>8. Len(Job.path) \in Nat
  BY <1>7, JobFacts
<1>9. Job' = Job /\ ~Descending' /\ (Descending <=> c.sub = "NEED_CWD")
  <2>1. commands # <<>>
    <3> DEFINE x == [name |-> CommandOf[c.sub], arg |-> Argument, job |-> job]
    <3>1. commands = <<x>>
      BY <1>1 DEF Pending
    <3> HIDE DEF x
    <3> QED BY <3>1
  <2> QED BY <1>1, <2>1 DEF Job, Descending
<1> HIDE DEF name, m
<1>10. CASE name = "REIN" /\ r[1] = 220
  <2>1. c'.offset = 0 /\ c'.sub # "NEED_CWD"
    BY <1>1, <1>5, <1>6, <1>10 DEF UrlInv
  <2>2. srv'.doing = "none" /\ srv'.cwd = Home
    BY <1>2, <1>3, <1>4, <1>5, <1>10 DEF Session, NewSession
  <2> QED BY <2>1, <2>2, UrlOutset
<1>11. CASE name = "CWD" /\ r[1] = 250
  <2>1. srv' = [srv EXCEPT !.cwd = Resolved(srv.cwd, Segment)]
    BY <1>2, <1>3, <1>4, <1>5, <1>11 DEF Session, Argument
  <2>2. srv'.doing = "none" /\ srv'.cwd = Resolved(srv.cwd, Segment) /\ srv'.refused = srv.refused
    BY <1>1, <2>1 DEF PartsInv
  <2>3. c.offset > 0 /\ c.sub = "NEED_CWD" /\ Descending
    BY <1>5, <1>9, <1>11 DEF UrlInv
  <2>4. srv.refused # job /\ Job.path # <<>> => srv'.cwd = SubSeq(Job.path, 1, c.offset - 1)
    <3>1. SUFFICES ASSUME srv.refused # job, Job.path # <<>>
                   PROVE  srv'.cwd = SubSeq(Job.path, 1, c.offset - 1)
      OBVIOUS
    <3>2. c.offset > 1 => srv.cwd = SubSeq(Job.path, 1, c.offset - 2)
      BY <1>1, <1>6, <2>3, <3>1 DEF UrlInv
    <3>3. c.offset \in 1..Len(Job.path)
      BY <1>7, <1>8, <2>3, <3>1
    <3> DEFINE cwd == srv.cwd
               j == Job
               i == c.offset
    <3>4. j \in UNION {Jobs[k] : k \in DOMAIN Jobs} /\ i \in 1..Len(j.path)
          /\ (i > 1 => cwd = SubSeq(j.path, 1, i - 2))
      BY <1>7, <3>2, <3>3
    <3>5. srv'.cwd = Resolved(cwd, IF i = 1 THEN <<"/">> ELSE <<j.path[i - 1]>>)
      BY <2>2, <3>1 DEF Segment, Name
    <3> HIDE DEF cwd, i, j
    <3>6. srv'.cwd = SubSeq(j.path, 1, i - 1)
      BY <3>4, <3>5, ResolvedSegment
    <3> QED BY <3>6 DEF i, j
  <2>5. c'.offset > 0 /\ c'.offset # 0
    BY <1>1, <1>7, <2>3
  <2> QED BY <1>1, <1>6, <1>9, <2>2, <2>3, <2>4, <2>5 DEF UrlInv, FromHome
<1>12. CASE name = "CWD" /\ r[1] # 250
  <2>1. srv' = [srv EXCEPT !.refused = job]
    BY <1>2, <1>3, <1>4, <1>5, <1>12 DEF Session
  <2>2. srv'.refused = job
    BY <2>1 DEF PartsInv
  <2> QED BY <1>1, <1>6, <1>9, <2>2 DEF UrlInv
<1>13. CASE r[1] \in Starts
  <2>1. srv' = [srv EXCEPT !.doing = name, !.path = Resolved(srv.cwd, Rest), !.phase = "dial"]
    BY <1>2, <1>3, <1>4, <1>5, <1>13 DEF Session, Argument
  <2>2. /\ srv'.cwd = srv.cwd /\ srv'.path = Resolved(srv.cwd, Rest) /\ srv'.refused = srv.refused
        /\ srv'.since = srv.since
    BY <2>1 DEF PartsInv
  <2>3. srv.refused # job /\ Job.path # <<>> => srv'.path = Job.path
    <3>1. SUFFICES ASSUME srv.refused # job, Job.path # <<>> PROVE srv'.path = Job.path
      OBVIOUS
    <3>2. c.offset > 0 => srv.cwd = SubSeq(Job.path, 1, c.offset - 1)
      BY <1>1, <1>4, <1>6, <1>9, <1>13, <3>1 DEF UrlInv
    <3>3. c.offset \in 0..Len(Job.path)
      BY <1>7, <1>8, <3>1
    <3> DEFINE cwd == srv.cwd
               j == Job
               i == c.offset
    <3>4. j \in UNION {Jobs[k] : k \in DOMAIN Jobs} /\ i \in 0..Len(j.path) /\ j.path # <<>>
          /\ (i > 0 => cwd = SubSeq(j.path, 1, i - 1))
      BY <1>7, <3>1, <3>2, <3>3
    <3>5. Rest = IF i = 0 THEN <<"/">> \o j.path ELSE SubSeq(j.path, i, Len(j.path))
      <4>1. Name = Job.path
        BY <3>1 DEF Name
      <4>2. c.offset = 0 \/ c.offset > 0
        BY <1>7
      <4> QED BY <3>1, <4>1, <4>2 DEF Rest
    <3>6. srv'.path = Resolved(cwd, IF i = 0 THEN <<"/">> \o j.path ELSE SubSeq(j.path, i, Len(j.path)))
      BY <2>2, <3>5
    <3> HIDE DEF cwd, i, j
    <3>7. srv'.path = j.path
      BY <3>4, <3>6, ResolvedRest
    <3> QED BY <3>7 DEF j
  <2>4. srv.refused # job /\ Job.path = <<>> /\ c.offset = 0 /\ srv.since = job
            => srv'.cwd = Home /\ srv'.path = Home
    <3>1. SUFFICES ASSUME srv.refused # job, Job.path = <<>>, c.offset = 0, srv.since = job
                   PROVE  srv.cwd = Home /\ srv'.path = Home
      BY <2>2
    <3>2. srv.cwd = Home
      BY <1>1, <1>6, <3>1 DEF UrlInv, FromHome
    <3>3. Rest = <<>>
      BY <3>1 DEF Rest
    <3>4. srv'.path = Home \o <<>>
      BY <2>2, <3>2, <3>3 DEF Resolved
    <3>5. Home \o <<>> = Home
      BY TupleFacts DEF Home
    <3> QED BY <3>2, <3>4, <3>5
  <2> QED BY <1>1, <1>4, <1>6, <1>9, <1>13, <2>2, <2>3, <2>4 DEF UrlInv, FromHome
<1>14. CASE name # "CWD" /\ r[1] \notin Starts /\ ~(name = "REIN" /\ r[1] = 220)
  <2>1. srv' = srv \/ srv' = [srv EXCEPT !.port = m.job]
    BY <1>2, <1>3, <1>14 DEF Session
  <2>2. srv'.cwd = srv.cwd /\ srv'.doing = srv.doing /\ srv'.refused = srv.refused /\ srv'.since = srv.since
    BY <2>1 DEF PartsInv
  <2>3. (Descending' <=> Descending)
    BY <1>5, <1>9, <1>14
  <2> QED BY <1>1, <1>6, <2>2, <2>3, UrlKept
<1> QED BY <1>10, <1>11, <1>12, <1>13, <1>14

\* Steps of the machines that no change of the directory is part of.
LEMMA UrlSame ==
    ASSUME PartsInv, UrlInv, Next, UNCHANGED srv, conn' = "open" => conn = "open",
           c.state \notin {"NONE", "NEED_CCON"}, c.sub \notin {"NEED_CWD", "NEED_SEGMENT"},
           c'.state # "NONE", c'.sub # "NEED_CWD",
           c'.state \in {"NEED_LOGIN", "NEED_DCON"} => c.state \in {"NEED_LOGIN", "NEED_DCON"}
    PROVE  UrlInv'
<1>1. UNCHANGED job /\ c'.job = c.job /\ c'.offset = c.offset
  <2>1. ~Start /\ ~NextSegment
    BY DEF Start, Active, NextSegment, At
  <2>2. c' # Idle
    <3>1. Idle.state = "NONE"
      BY DEF Idle
    <3> QED BY <3>1
  <2> QED BY <2>1, <2>2, RequestKept
<1>2. ~Descending /\ ~Descending'
  BY DEF Descending
<1> QED BY <1>1, <1>2, UrlKept

LEMMA UrlMachine ==
    ASSUME PartsInv, SocketInv, StepInv, UrlInv, Next,
           \/ LoginSelect \/ PromptUser \/ LoginEnds \/ TypeOfList \/ DataConnectionEnds \/ KnownServer
           \/ ServerInfoEnds \/ DataSelect \/ GetDataEnds \/ Stream \/ Accept \/ Listen
           \/ Put \/ ReadData \/ ReadFinal
    PROVE  UrlInv'
<1> USE DEF PartsInv, ClientParts
<1>1. CASE LoginSelect \/ PromptUser
  <2>1. /\ c.state = "NEED_LOGIN" /\ c.sub \in {"SELECT", "PROMPT_USER"} /\ UNCHANGED <<conn, srv>>
        /\ c'.state = "NEED_LOGIN" /\ c'.sub \in {"NEED_REIN", "NEED_GREETING", "NEED_UID", "SUB_ERROR"}
    BY <1>1 DEF LoginSelect, PromptUser, At, Goto, Internal
  <2> QED BY <2>1, UrlSame
<1>2. CASE LoginEnds
  <2>1. /\ c.state = "NEED_LOGIN" /\ c.sub \in {"SUB_ERROR", "SUB_SUCCESS"} /\ UNCHANGED <<conn, srv>>
        /\ c'.state \in {"ERROR", "NEED_DCON"} /\ c'.sub \in {"", "NEED_TYPE"}
    BY <1>2 DEF LoginEnds, At, Enter, Internal
  <2> QED BY <2>1, UrlSame
<1>3. CASE TypeOfList \/ Listen
  <2>1. /\ c.state = "NEED_DCON" /\ c.sub \in {"NEED_TYPE", "SELECT"} /\ UNCHANGED <<conn, srv>>
        /\ c'.state = "NEED_DCON" /\ c'.sub \in {"SELECT", "NEED_PORT"}
    BY <1>3 DEF TypeOfList, Listen, At, Goto, Internal
  <2> QED BY <2>1, UrlSame
<1>4. CASE DataConnectionEnds
  <2>1. /\ c.state = "NEED_DCON" /\ c.sub \in {"SUB_ERROR", "SUB_SUCCESS"} /\ UNCHANGED <<conn, srv>>
        /\ c'.state \in {"ERROR", "NEED_SERVER", "NEED_DATA"} /\ c'.sub \in {"", "NEED_SYST", "SELECT"}
    BY <1>4 DEF DataConnectionEnds, At, Enter, Internal
  <2> QED BY <2>1, UrlSame
<1>5. CASE KnownServer \/ ServerInfoEnds
  <2>1. /\ c.state = "NEED_SERVER" /\ c.sub \in {"NEED_SYST", "SUB_ERROR", "SUB_SUCCESS"}
        /\ UNCHANGED <<conn, srv>> /\ c'.state = "NEED_DATA" /\ c'.sub = "SELECT"
    BY <1>5 DEF KnownServer, ServerInfoEnds, At, Internal
  <2> QED BY <2>1, UrlSame
<1>6. CASE DataSelect \/ Accept \/ Stream
  <2>1. /\ c.state = "NEED_DATA" /\ c.sub \in {"SELECT", "NEED_ACCEPT", "NEED_STREAM"}
        /\ UNCHANGED <<conn, srv>> /\ c'.state = "NEED_DATA"
        /\ c'.sub \in {"NEED_ACTION", "NEED_ACCEPT", "NEED_STREAM", "NEED_BODY", "SUB_ERROR"}
    BY <1>6 DEF DataSelect, Accept, Stream, At, Goto, Internal
  <2> QED BY <2>1, UrlSame
<1>7. CASE GetDataEnds
  <2>1. /\ c.state = "NEED_DATA" /\ c.sub \in {"SUB_ERROR", "SUB_SUCCESS"} /\ UNCHANGED <<conn, srv>>
        /\ c'.state \in {"SUCCESS", "ERROR", "NEED_SERVER"} /\ c'.sub \in {"", "NEED_SYST"}
    BY <1>7 DEF GetDataEnds, At, Enter, Internal
  <2> QED BY <2>1, UrlSame
<1>8. CASE Put
  <2>1. /\ c.state = "NEED_DATA" /\ c.sub = "NEED_BODY" /\ UNCHANGED <<conn, srv>>
        /\ c'.state = "NEED_DATA" /\ c'.sub \in {"SUB_ERROR", "SUB_SUCCESS"}
    BY <1>8 DEF Put, At, DataFailed
  <2> QED BY <2>1, UrlSame
<1>9. CASE ReadData
  <2>1. /\ c.state = "NEED_DATA" /\ c.sub = "NEED_BODY" /\ UNCHANGED <<conn, srv>>
        /\ \/ c' = c \/ c' = Completed("data")
           \/ c' = [c EXCEPT !.sub = "SUB_ERROR", !.stream_error = TRUE]
    BY <1>9 DEF ReadData, At, DataFailed
  <2> DEFINE x == Completed("data")
  <2>2. x.state = c.state /\ x.sub \in {"NEED_BODY", "SUB_SUCCESS"}
    BY CompletedFacts
  <2> HIDE DEF x
  <2>3. c' = c \/ c' = x \/ c' = [c EXCEPT !.sub = "SUB_ERROR", !.stream_error = TRUE]
    BY <2>1 DEF x
  <2>4. c'.state = "NEED_DATA" /\ c'.sub \in {"NEED_BODY", "SUB_SUCCESS", "SUB_ERROR"}
    BY <2>1, <2>2, <2>3
  <2> QED BY <2>1, <2>4, UrlSame
<1>10. CASE ReadFinal
  <2>1. /\ c.state = "NEED_DATA" /\ c.sub = "NEED_BODY" /\ UNCHANGED srv
        /\ conn' = conn \/ (conn # "open" /\ conn' = Deaf)
        /\ c' = c \/ \E code : FinalCode(code)
    BY <1>10, ReadFinalFacts
  <2>2. c'.state = "NEED_DATA" /\ c'.sub \in {"NEED_BODY", "SUB_SUCCESS", "SUB_ERROR"}
    BY <2>1, FinalFacts
  <2>3. conn' = "open" => conn = "open"
    BY <2>1 DEF Deaf
  <2> QED BY <2>1, <2>2, <2>3, UrlSame
<1> QED BY <1>1, <1>2, <1>3, <1>4, <1>5, <1>6, <1>7, <1>8, <1>9, <1>10

\* The steps that are about a change of the directory, and those that leave everything.
LEMMA UrlDescent ==
    ASSUME FTPAssumption, PartsInv, StepInv, MoreInv, JobInv, UrlInv, Next, clean',
           \/ SendCommand \/ ReadReply \/ ReadPart \/ ReadUncoded \/ ReadClosed \/ NextSegment
           \/ ReadBlocks \/ ControlEvent \/ DataEvent
    PROVE  UrlInv'
<1> USE DEF PartsInv, ClientParts
<1>0. c.state \notin {"NONE", "NEED_CCON"} /\ UNCHANGED <<job, srv>>
  <2>1. CASE ReadReply \/ ReadPart \/ ReadUncoded
    <3>1. UNCHANGED <<job, srv>> /\ (Awaits \/ InFinal)
      BY <2>1, ReadReplyFacts, ReadPartFacts, ReadUncodedFacts DEF ReadKeeps
    <3> QED BY <3>1, AwaitedShape DEF InFinal
  <2>2. CASE SendCommand \/ ReadClosed \/ NextSegment \/ ReadBlocks \/ ControlEvent \/ DataEvent
    BY <2>2 DEF SendCommand, ReadClosed, NextSegment, ReadBlocks, ControlEvent,
           DataEvent, At, Internal, Ready, Active
  <2> QED BY <2>1, <2>2
<1>1. CASE ReadBlocks \/ ControlEvent \/ DataEvent
  <2>1. UNCHANGED <<c, conn, commands>>
    BY <1>1 DEF ReadBlocks, ControlEvent, DataEvent, Internal
  <2>2. Descending' <=> Descending
    BY <2>1 DEF Descending
  <2> QED BY <1>0, <2>1, <2>2, UrlKept
<1>2. CASE SendCommand
  <2>1. /\ c' = Sent \/ c' = [Sent EXCEPT !.sub = "SUB_ERROR"]
        /\ ~c.sent /\ HasCommand
        /\ conn' = "open" => conn = "open" /\ c' = Sent /\ \E m : commands' = Append(commands, m)
    BY <1>2 DEF SendCommand, Deaf
  <2>2. /\ c'.job = c.job /\ c'.offset = c.offset /\ c'.state = c.state
        /\ c'.sub \in {c.sub, "SUB_ERROR"} /\ (c' = Sent => c'.sub = c.sub)
    BY <2>1 DEF Sent
  <2>3. ASSUME conn' = "open" PROVE Descending' <=> Descending
    <3>1. commands = <<>>
      BY <2>1, CommandFacts DEF StepInv, Quiet
    <3>2. commands' # <<>>
      <4>1. PICK m : commands' = Append(<<>>, m)
        BY <2>1, <2>3, <3>1
      <4>2. commands' = <<m>>
        BY <4>1, TupleFacts
      <4> QED BY <4>2
    <3> QED BY <2>1, <2>2, <2>3, <3>2 DEF Descending
  <2> QED BY <1>0, <2>1, <2>2, <2>3, UrlKept
<1>3. CASE ReadReply
  <2>1. /\ Awaits /\ replies # <<>> /\ UNCHANGED conn
        /\ c'.sub = After(CodeOf(replies[1]), TextOf(replies[1]))
        /\ c'.state = c.state /\ c'.job = c.job /\ c'.offset = c.offset
    BY <1>3, ReadReplyFacts DEF ReadKeeps, ReadsReply
  <2>2. c'.sub # "NEED_CWD"
    BY <2>1, AfterFacts DEF LoginSubs, ServerSubs
  <2>3. ~Descending
    <3>1. SUFFICES ASSUME c.sub = "NEED_CWD" PROVE c.sent /\ commands = <<>>
      BY DEF Descending
    <3>2. Answering /\ c.sent
      BY <2>1, <3>1, AwaitedShape
    <3> QED BY <2>1, <3>2 DEF Answering
  <2>4. ~Descending'
    BY <2>2 DEF Descending
  <2> QED BY <1>0, <2>1, <2>2, <2>3, <2>4, UrlKept
<1>4. CASE ReadPart \/ ReadClosed
  <2>1. /\ c'.state = c.state /\ c'.job = c.job /\ c'.offset = c.offset
        /\ \/ c'.sub = c.sub /\ c'.sent = c.sent /\ UNCHANGED <<conn, commands>>
           \/ c'.sub = "SUB_ERROR" /\ conn' # "open"
    <3>1. CASE ReadPart
      BY <3>1, ReadPartFacts DEF ReadKeeps
    <3>2. CASE ReadClosed
      BY <3>2 DEF ReadClosed, Deaf
    <3> QED BY <1>4, <3>1, <3>2
  <2>2. conn' = "open" => (Descending' <=> Descending)
    BY <2>1 DEF Descending
  <2> QED BY <1>0, <2>1, <2>2, UrlKept
<1>5. CASE NextSegment
  <2>1. /\ c.state = "NEED_DATA" /\ c.sub = "NEED_SEGMENT" /\ UNCHANGED conn
        /\ \/ c' = [c EXCEPT !.offset = c.offset + 1, !.sub = "NEED_CWD"]
           \/ c' = [c EXCEPT !.sub = "NEED_ACTION"]
    BY <1>5 DEF NextSegment, At, Internal
  <2>2. Quiet /\ ~Descending
    BY <2>1 DEF StepInv, Descending
  <2>3. CASE c' = [c EXCEPT !.sub = "NEED_ACTION"]
    <3>1. c'.sub = "NEED_ACTION" /\ c'.state = c.state /\ c'.job = c.job /\ c'.offset = c.offset
      BY <2>3
    <3>2. ~Descending'
      BY <3>1 DEF Descending
    <3> QED BY <1>0, <2>1, <2>2, <3>1, <3>2, UrlKept
  <2>4. CASE c' = [c EXCEPT !.offset = c.offset + 1, !.sub = "NEED_CWD"]
    <3>1. /\ c'.sub = "NEED_CWD" /\ c'.offset = c.offset + 1
          /\ c'.state = c.state /\ c'.job = c.job /\ c'.sent = c.sent
      BY <2>4
    <3>2. c.offset \in Nat
      BY <2>1 DEF JobInv
    <3>3. conn = "open" => ~c.sent
      BY <2>1 DEF StepInv, CommandSubs
    <3>4. conn = "open" => Descending'
      BY <3>1, <3>3 DEF Descending
    <3>5. Job' = Job
      BY <3>1 DEF Job
    <3>6. srv.doing = "none"
      BY <2>2 DEF Quiet
    <3>7. /\ c'.offset > 0 /\ (c'.offset > 1 => c.offset > 0) /\ c'.offset - 2 = c.offset - 1
      BY <3>1, <3>2
    <3> QED BY <1>0, <2>1, <2>2, <3>1, <3>4, <3>5, <3>6, <3>7 DEF UrlInv, FromHome
  <2> QED BY <2>1, <2>3, <2>4
<1> QED BY <1>1, <1>2, <1>3, <1>4, <1>5, NeverUncoded

LEMMA UrlNext ==
    ASSUME FTPAssumption, PartsInv, SocketInv, JobInv,
           clean => StepInv /\ MoreInv /\ SinceInv /\ UrlInv, Next, clean'
    PROVE  UrlInv'
<1>1. CASE Start \/ Reuse \/ Connect \/ ConnectFails
  BY <1>1, UrlBegin
<1>2. CASE Finish \/ Kill \/ DataTimeout \/ ControlTimeout \/ IdleEvent \/ IdleTimeoutEvent
  BY <1>2, UrlEnd
<1>3. CASE Greet \/ Dial \/ CannotDial \/ SendData \/ EndData \/ DataGone \/ Final \/ ServerCloses
  BY <1>3, ServerTurns, UrlServer DEF ServerTurn
<1>4. CASE Answer
  <2>1. clean
    BY <1>4 DEF Answer, Says
  <2> QED BY <1>4, <2>1, UrlAnswer
<1>5. CASE \/ LoginSelect \/ PromptUser \/ LoginEnds \/ TypeOfList \/ DataConnectionEnds \/ KnownServer
           \/ ServerInfoEnds \/ DataSelect \/ GetDataEnds \/ Stream \/ Accept \/ Listen
           \/ Put \/ ReadData \/ ReadFinal
  <2>1. clean
    BY <1>5, ReadFinalFacts
       DEF LoginSelect, PromptUser, LoginEnds, TypeOfList, DataConnectionEnds, KnownServer,
           ServerInfoEnds, DataSelect, GetDataEnds, Stream, Accept, Listen, Put, ReadData, Internal
  <2> QED BY <1>5, <2>1, UrlMachine
<1>6. CASE \/ SendCommand \/ ReadReply \/ ReadPart \/ ReadUncoded \/ ReadClosed \/ NextSegment
           \/ ReadBlocks \/ ControlEvent \/ DataEvent
  <2>1. clean
    BY <1>6, ReadReplyFacts, ReadPartFacts, ReadUncodedFacts
       DEF ReadKeeps, SendCommand, ReadClosed, NextSegment, ReadBlocks, ControlEvent, DataEvent, Internal
  <2> QED BY <1>6, <2>1, UrlDescent
<1> QED BY <1>1, <1>2, <1>3, <1>4, <1>5, <1>6 DEF Next, Machine, Server

(***************************************************************************)
(* The invariant, and what follows from it.                                *)
(***************************************************************************)
LEMMA InitInvariant ==
    ASSUME Init
    PROVE  IInv
<1>1. /\ DOMAIN c = ClientParts /\ c.state = "NONE" /\ c.sub = "" /\ ~c.sent /\ c.complete = {}
      /\ c.line = "first" /\ d = NoData /\ srv = NewSession /\ conn = "none" /\ run = "none" /\ job = 0
      /\ commands = <<>> /\ replies = <<>>
  BY DEF Init, Idle, ClientParts
<1>2. PartsInv
  BY <1>1 DEF PartsInv, Resting, NoData, NewSession
<1>3. SocketInv /\ CountsInv /\ JobInv
  BY <1>1 DEF SocketInv, CountsInv, JobInv, NoData
<1>4. StepInv /\ WholeInv /\ UrlInv
  BY <1>1 DEF StepInv, WholeInv, UrlInv, NoData, NewSession, CommandSubs, Transfer
<1>5. MoreInv
  BY <1>1 DEF MoreInv
<1>6. SinceInv
  <2>1. srv.since = 0 /\ job = 0 /\ c.state # "NEED_CCON"
    BY <1>1 DEF NewSession
  <2>2. srv.since \in Nat /\ srv.since <= job
    BY <2>1
  <2> QED BY <2>1, <2>2 DEF SinceInv
<1> QED BY <1>2, <1>3, <1>4, <1>5, <1>6 DEF IInv

LEMMA NextInvariant ==
    ASSUME FTPAssumption, IInv, [Next]_vars
    PROVE  IInv'
<1>1. CASE Next
  BY <1>1, PartsNext, SocketNext, CountsNext, JobNext, StepNext, MoreNext, WholeNext, SinceNext, UrlNext
     DEF IInv
<1>2. CASE UNCHANGED vars
  <2>1. /\ UNCHANGED <<job, c, d, conn, run, commands, replies, srv, clean>>
    BY <1>2 DEF vars
  <2>2. PartsInv' /\ SocketInv' /\ CountsInv' /\ JobInv'
    BY ZenonT(100), <2>1 DEF IInv, PartsInv, InState, Resting, Beginning, Logging, Dialling, AskingServer,
                Getting, Through, SocketInv, CountsInv, JobInv, Job, IsDir
  <2>3. /\ Quiet' = Quiet /\ Greeting' = Greeting /\ Finishing' = Finishing
        /\ Answering' = Answering /\ Transferring' = Transferring
    BY <2>1, WireKept
  <2>4. StepInv => StepInv'
    BY <2>1, <2>3 DEF StepInv, GivesUp, Job, IsDir
  <2>5. WholeInv => WholeInv'
    BY <2>1, <2>3 DEF WholeInv, AllSent, Confirmed, Job, One, Two
  <2>6. (MoreInv => MoreInv') /\ (SinceInv => SinceInv')
    BY <2>1 DEF MoreInv, SinceInv
  <2>7. UrlInv => UrlInv'
    BY <2>1 DEF UrlInv, FromHome, Descending, Job
  <2> QED BY <2>1, <2>2, <2>4, <2>5, <2>6, <2>7 DEF IInv
<1> QED BY <1>1, <1>2

LEMMA Invariance == Spec => []IInv
<1>1. Init => IInv
  BY InitInvariant
<1>2. IInv /\ [Next]_vars => IInv'
  BY FTPAssumption, NextInvariant
<1> QED BY <1>1, <1>2, PTL DEF Spec

\* The client sends a command only when every reply to the commands before it has been
\* read, in as many blocks as it came and with whatever lines a code is on: no reply is
\* taken for the reply to another command (ScanResponse, FTPStatus_put_block, HTFTPLogin
\* to HTFTPGetData).  The premise that every line has a code is needed: see FirstInStep.
THEOREM CommandsInStep == Spec => []InStep
<1>1. IInv => InStep
  <2>1. SUFFICES ASSUME IInv, clean, HasCommand, ~c.sent, Needed PROVE Outstanding = 0
    BY DEF InStep
  <2>2. Quiet
    BY <2>1, CommandFacts DEF IInv, StepInv
  <2> QED BY <2>2, NoneOutstanding
<1> QED BY <1>1, Invariance, PTL

\* The name of a transfer is the one of the URL, of any number of segments, and that of
\* the root is the directory the session began in, if this request began it (FTPNavigate
\* and SendCommand in HTFTPGetData).
THEOREM TransfersFollowUrl == Spec => []AsksForUrl
<1>1. IInv => AsksForUrl
  <2>1. SUFFICES ASSUME IInv, clean, Active, srv.doing # "none", srv.refused # job
                 PROVE  IF Job.path # <<>> THEN srv.path = Job.path
                        ELSE c.offset = 0 /\ srv.since = job => srv.path = Home
    BY DEF AsksForUrl
  <2>2. conn = "open" /\ ~Quiet
    BY <2>1 DEF IInv, PartsInv, Quiet
  <2>3. c.state \notin {"NONE", "NEED_CCON"}
    BY <2>1, <2>2 DEF IInv, StepInv
  <2> QED BY <2>1, <2>2, <2>3 DEF IInv, UrlInv, FromHome
<1> QED BY <1>1, Invariance, PTL

\* What is reported as loaded is whole, unless the code 225 was all the server said of it,
\* and nothing of it is left for the next request, a reply of many lines included
\* (HTFTPGetData, FTPCleanup).
THEOREM LoadedWhole == Spec => []LoadedIsWhole
<1>1. Init => LoadedIsWhole
  <2>1. Init => out = NotEnded
    BY DEF Init
  <2>2. NotEnded.status # "LOADED"
    BY DEF NotEnded
  <2> QED BY <2>1, <2>2 DEF LoadedIsWhole
<1>2. ASSUME IInv, LoadedIsWhole, [Next]_vars PROVE LoadedIsWhole'
  <2>1. CASE out' = out
    BY <1>2, <2>1 DEF LoadedIsWhole
  <2>2. CASE Start
    BY <2>2 DEF Start, LoadedIsWhole, NotEnded
  <2>3. CASE ConnectFails \/ Kill \/ DataTimeout \/ ControlTimeout \/ (Finish /\ c.state # "SUCCESS")
    <3>1. out'.status # "LOADED" \/ out'.by # "machine"
      BY <2>3 DEF ConnectFails, Kill, DataTimeout, ControlTimeout, Finish, Cleanup, Ended
    <3> QED BY <3>1 DEF LoadedIsWhole
  <2>4. CASE Finish /\ c.state = "SUCCESS"
    <3>1. /\ out'.kind = Job.kind /\ out'.clean = clean /\ out'.left = Outstanding
          /\ out'.whole = (d.eof /\ d.read = Chunks) /\ out'.code = c.repcode
      BY <2>4 DEF Finish, Cleanup, Ended
    <3>2. clean /\ Job.kind # "put" => Quiet /\ (c.repcode = 225 \/ (AllSent /\ d.read = Chunks))
      BY <1>2, <2>4 DEF IInv, WholeInv
    <3>3. clean /\ Job.kind # "put" => Outstanding = 0
      BY <3>2, NoneOutstanding
    <3> QED BY <3>1, <3>2, <3>3 DEF LoadedIsWhole, AllSent
  <2>5. \/ Start \/ ConnectFails \/ Kill \/ DataTimeout \/ ControlTimeout \/ Finish
        \/ out' = out
    <3>1. CASE ReadReply \/ ReadPart \/ ReadUncoded \/ ReadFinal
      BY <1>2, <3>1, ReadReplyFacts, ReadPartFacts, ReadUncodedFacts, ReadFinalFacts DEF ReadKeeps, IInv
    <3> QED BY <1>2, <3>1
       DEF Next, vars, Machine, Server, Reuse, Connect, SendCommand, ReadBlocks, ReadClosed, LoginSelect,
           PromptUser, LoginEnds, TypeOfList, Listen, DataConnectionEnds, KnownServer, ServerInfoEnds,
           DataSelect, NextSegment, Accept, Stream, Put, ReadData, GetDataEnds, ControlEvent, DataEvent,
           IdleEvent, IdleTimeoutEvent, Greet, Answer, Dial, CannotDial, SendData, EndData,
           DataGone, Final, ServerCloses, Internal, ServerOnly
  <2> QED BY <2>1, <2>2, <2>3, <2>4, <2>5
<1> QED BY <1>1, <1>2, Invariance, PTL DEF Spec

===============================================================================
