------------------------------ MODULE HTReader -------------------------------
(***************************************************************************)
(* The reading half of a connection: the socket reader (HTReader.c), the   *)
(* stream that reads the status line (HTTPStatus of HTTP.c), the parser of *)
(* the header and the account of the body (HTMIME.c), and the decoder of   *)
(* chunks (HTTChunk.c).  The stream of a request gets the blocks read as   *)
(* long as the request is the first of the pipeline.                       *)
(*                                                                         *)
(* The reader and the streams count what is used of a block each on their  *)
(* own: "buf" is what the reader takes for unread, "block" is what the     *)
(* stream that has the block at the moment has not looked at.  What a      *)
(* stream leaves unread when it is not finished is lost.                   *)
(***************************************************************************)
EXTENDS Integers, Sequences, SequencesExt, HTMIME, HTTChunk

CONSTANTS Responses,    \* what the server sends: header fields, coding and body
          Input         \* INPUT_BUFFER_SIZE

Codings == {"none", "length", "chunked"}

ASSUME ReaderAssumption ==
    /\ Input \in Nat \ {0}
    /\ \A k \in DOMAIN Responses : Responses[k].coding \in Codings

VARIABLES wire,         \* bytes on their way
          buf,          \* bytes read from the socket and not used
          block,        \* bytes of the block the stream has not looked at
          busy,         \* a put_block is under way
          reply,        \* the streams of the first request of the pipeline
          out           \* the responses the requests have got

vars == <<wire, buf, block, busy, reply, out>>

(***************************************************************************)
(* The server: names and values of headers are one byte long.              *)
(***************************************************************************)
EOL == <<"CR", "LF">>
Line(field) == <<field[1], "COLON", "SP">> \o field[2] \o EOL
Size1(n) == <<CHOOSE d \in DOMAIN HexDigits : HexDigits[d] = n>>
Chunk1(data) == Size1(Len(data)) \o EOL \o data \o EOL

Encoded(r) ==
    <<"S">> \o EOL
    \o FlattenSeq([i \in DOMAIN r.fields |-> Line(r.fields[i])]) \o EOL
    \o CASE r.coding = "none"    -> <<>>
         [] r.coding = "length"  -> FlattenSeq(r.body)
         [] r.coding = "chunked" -> FlattenSeq([i \in DOMAIN r.body |-> Chunk1(r.body[i])])
                                    \o <<"0">> \o EOL
                                    \o FlattenSeq([i \in DOMAIN r.trailer |-> Line(r.trailer[i])])
                                    \o EOL

(***************************************************************************)
(* State.                                                                  *)
(***************************************************************************)
NewReply == [pc |-> "status", line |-> <<>>, mime |-> NewParser, length |-> -1,
             chunked |-> FALSE, decoder |-> NewDecoder, foot |-> 0, body |-> <<>>]

Init ==
    /\ wire = FlattenSeq([k \in DOMAIN Responses |-> Encoded(Responses[k])])
    /\ buf = <<>> /\ block = <<>> /\ busy = FALSE
    /\ reply = NewReply
    /\ out = <<>>

(***************************************************************************)
(* What a stream tells the reader.                                         *)
(***************************************************************************)
Consumed(n) == SubSeq(buf, n + 1, Len(buf))
From(n) == SubSeq(block, n, Len(block))
Upto(n) == SubSeq(block, 1, n)

\* n bytes are consumed, and the rest of the block goes on down the streams.
Pass(r, n) == buf' = Consumed(n) /\ block' = From(n + 1) /\ busy' = TRUE /\ reply' = r /\ out' = out

\* HT_OK: HTReader_read takes it that everything was consumed.
ReturnOk(r) == buf' = <<>> /\ block' = <<>> /\ busy' = FALSE /\ reply' = r /\ out' = out

\* HT_LOADED: the request is finished; the next one of the pipeline, which has
\* streams of its own, gets what is not consumed.
ReturnLoaded(r, n) ==
    /\ buf' = Consumed(n) /\ block' = <<>> /\ busy' = FALSE
    /\ out' = Append(out, [fields |-> r.mime.fields, body |-> r.body])
    /\ reply' = NewReply

(***************************************************************************)
(* The reader.                                                             *)
(***************************************************************************)
Awaited == Len(out) < Len(Responses) /\ reply.pc # "failed"

\* HTReader_read of a socket that has some bytes.
Read ==
    /\ Awaited /\ ~busy /\ buf = <<>>
    /\ \E n \in 1 .. (IF Len(wire) < Input THEN Len(wire) ELSE Input) :
          /\ buf' = SubSeq(wire, 1, n)
          /\ wire' = SubSeq(wire, n + 1, Len(wire))
    /\ block' = buf' /\ busy' = TRUE
    /\ reply' = [reply EXCEPT !.mime = Block(@)]
    /\ UNCHANGED out

\* HTReader_read when the request before has left bytes in the buffer.
Resume ==
    /\ Awaited /\ ~busy /\ buf # <<>>
    /\ block' = buf /\ busy' = TRUE
    /\ UNCHANGED <<wire, buf, reply, out>>

(***************************************************************************)
(* The streams.                                                            *)
(***************************************************************************)
\* HTTPStatus_put_block: the status line.  What does not begin like one is not HTTP.
StatusLine ==
    /\ busy /\ reply.pc = "status"
    /\ \E n \in {SelectInSeq(block, LAMBDA x : x = "LF")} :
          LET line == reply.line \o Upto(n)
              next == [reply EXCEPT !.line = line, !.pc = "mime"]
          IN  CASE n = 0 -> ReturnOk([reply EXCEPT !.line = @ \o block])
                [] n > 0 /\ line[1] # "S" -> ReturnOk([reply EXCEPT !.pc = "failed"])
                [] n > 0 /\ line[1] = "S" /\ n = Len(block) -> ReturnOk(next)
                [] n > 0 /\ line[1] = "S" /\ n < Len(block) -> Pass(next, n)
    /\ UNCHANGED wire

Value(m, name) ==
    LET i == SelectLastInSeq(m.fields, LAMBDA f : f[1] = <<name>>)
    IN  IF i = 0 THEN <<>> ELSE m.fields[i][2]

\* pumpData: the headers say what body there is.
PumpData(r, m) ==
    [r EXCEPT !.mime    = m,
              !.pc      = "body",
              !.length  = IF Value(m, "L") = <<>> THEN -1 ELSE StrToL(Value(m, "L"), 10),
              !.chunked = Value(m, "T") # <<>>]

\* HTMIME_put_block: a byte of the header, and the end of a block in the header.
HeaderByte ==
    /\ busy /\ reply.pc = "mime" /\ ~reply.mime.done
    /\ reply.mime.at <= Len(block)
    /\ reply' = [reply EXCEPT !.mime = MimeByte(@, block, block[@.at])]
    /\ UNCHANGED <<wire, buf, block, busy, out>>

HeaderBlock ==
    /\ busy /\ reply.pc = "mime" /\ ~reply.mime.done
    /\ reply.mime.at > Len(block)
    /\ LET m == Stash(reply.mime, block)
       IN  IF m.done THEN Pass(PumpData(reply, m), Len(block))
                     ELSE ReturnOk([reply EXCEPT !.mime = m])
    /\ UNCHANGED wire

HeaderEnd ==
    /\ busy /\ reply.pc = "mime" /\ reply.mime.done
    /\ Pass(PumpData(reply, reply.mime), reply.mime.at - 1)
    /\ UNCHANGED wire

HasBody == reply.length >= 0 \/ reply.chunked

NoBody ==
    /\ busy /\ reply.pc = "body" /\ ~HasBody
    /\ ReturnLoaded(reply, 0)
    /\ UNCHANGED wire

\* HTMIME_put_block: of the body as much as Content-Length allows.
Body ==
    LET need == reply.length - Len(reply.body)
    IN  /\ busy /\ reply.pc = "body" /\ reply.length >= 0
        /\ IF Len(block) >= need
           THEN ReturnLoaded([reply EXCEPT !.body = @ \o Upto(need)], need)
           ELSE ReturnOk([reply EXCEPT !.body = @ \o block])
        /\ UNCHANGED wire

Decoding == busy /\ reply.pc = "body" /\ reply.length < 0 /\ reply.chunked

\* HTChunkDecode_block: a byte of the line before a chunk.
DecodeByte ==
    /\ Decoding /\ InLine(reply.decoder, block)
    /\ reply' = [reply EXCEPT !.decoder = Byte(@, block[@.at])]
    /\ UNCHANGED <<wire, buf, block, busy, out>>

\* The rest of a round.  Each round with a trailer puts another stream for it before
\* the target; of them only the parity is counted.
DecodeRound ==
    LET c    == reply.decoder
        data == Data(c, From(c.at))
        n    == c.at - 1 + Len(data)
        next == [reply EXCEPT !.decoder = NextRound(c, Len(data)),
                              !.body    = @ \o data,
                              !.foot    = IF c.trailer THEN 1 - @ ELSE @]
    IN  /\ Decoding /\ ~InLine(c, block)
        /\ CASE IsLoaded(c)                   -> ReturnLoaded(reply, c.at - 1)
             [] ~IsLoaded(c) /\ n = Len(block) -> ReturnOk(next)
             [] ~IsLoaded(c) /\ n < Len(block) -> Pass(next, n)
        /\ UNCHANGED wire

Next == Read \/ Resume \/ StatusLine \/ HeaderByte \/ HeaderBlock \/ HeaderEnd
        \/ NoBody \/ Body \/ DecodeByte \/ DecodeRound

Spec == Init /\ [][Next]_vars

\* The event loop reports a readable socket, and put_block runs until it returns.
FairSpec == Spec /\ WF_vars(Next)

(***************************************************************************)
(* Properties.                                                             *)
(***************************************************************************)
Promise == INSTANCE Delivery WITH
    Sent <- [k \in DOMAIN Responses |->
               [fields |-> [i \in DOMAIN Responses[k].fields |->
                              <<<<Responses[k].fields[i][1]>>, Responses[k].fields[i][2]>>],
                body   |-> FlattenSeq(Responses[k].body)]],
    part <- reply.body

\* However the bytes of the connection are cut into reads, the requests of the
\* pipeline get the responses of the server in order, each with its own headers and
\* its own body, and they all get one.
AsSent == Promise!Spec
==============================================================================
