------------------------------ MODULE HttpClient ------------------------------
(***************************************************************************)
(* The part of src-plugins/fasterhttp.c that output-es uses: RequestHttp   *)
(* sends a request, reads the answer as it comes and parses it with a      *)
(* parser that can stop after any byte, one labelled step after another.   *)
(*                                                                         *)
(* A character is a model value; a word of the protocol (a status or a     *)
(* header name) may have two, so that it can be cut in the middle.         *)
(* Pointers are offsets from the start of the response buffer.  In the     *)
(* code most are, too, or are adjusted when ReallocHttpBuffer moves the    *)
(* buffer, but chunked_body and chunked_body_end are not: a buffer that    *)
(* grows within a chunked body leaves them in the block that was freed.    *)
(* That a pointer dangles is part of the state, and what the parser does   *)
(* with one is a choice: it may wait for more, or go on anywhere behind the*)
(* chunk's beginning.  (A crash of the worker is a behaviour that stops    *)
(* there.  What is overwritten or read outside of the buffer is left out.) *)
(*                                                                         *)
(* Left out, too: requests to parse, HEAD, trailers, compressed bodies and *)
(* SSL, which the plugin does not use, the values of headers other than    *)
(* the two that frame a body, and that a buffer of more than 100 KB is     *)
(* made smaller before the next request.                                   *)
(*                                                                         *)
(* The server and the network are external: what they do follows from how  *)
(* the code reads the socket.                                              *)
(***************************************************************************)
EXTENDS Integers, SequencesExt

CONSTANTS
    Answers,    \* what the server may answer: its text and the places of its parts
    BufSize,    \* FASTERHTTP_RESPONSE_BUFSIZE_DEFAULT
    Request,    \* how many pieces a request can be cut into when it is sent
    MaxFaults   \* bound: faults of the network, the server or the machine

\* A sequence of characters, whatever these are.
IsText(text) == text \in Seq({text[i] : i \in DOMAIN text})

ASSUME HttpAssumption ==
    /\ BufSize \in Nat \ {0, 1}
    /\ Request \in Nat \ {0} /\ MaxFaults \in Nat
    /\ \A a \in Answers : IsText(a.text) /\ a.chunked \in BOOLEAN

-----------------------------------------------------------------------------
(* Numbers in a text *)

Decimal == [c \in {"0", "1", "2"} |-> CASE c = "0" -> 0 [] c = "1" -> 1 [] c = "2" -> 2]

\* A character behind the digits of n; all others are passed over.
Digit(n, c) == IF c \in DOMAIN Decimal THEN n * 10 + Decimal[c] ELSE n

Digits(before, text) ==
    LET n[i \in 0 .. Len(text)] == IF i = 0 THEN before ELSE Digit(n[i - 1], text[i])
    IN  n[Len(text)]

\* Mutant: each fragment of a number starts it anew.
Number_Restarts(before, text) == Digits(0, text)

\* A number continued over text: base 10 for a chunk's size too.
Number(before, text) == Digits(before, text)

-----------------------------------------------------------------------------
(* What a server answers: HTTP/1.1 as far as the parser depends on it.  With *)
(* its text an answer has the places of its parts: head is where the headers *)
(* end, and chunks tells of each chunk where its size and its data begin,    *)
(* how long it is and where in the body it belongs.                          *)

Piece(text, i, n) == SubSeq(text, i + 1, i + n)

\* None of these characters is there from i on, before j.
Free(text, i, j, chars) == \A k \in i + 1 .. j : text[k] \notin chars

\* One blank each between version, status and reason.
StatusLine(a) ==
    LET n == Len(a.status)
    IN  /\ a.text[1] = "H" /\ a.text[2] = "sp"
        /\ n > 0 /\ Piece(a.text, 2, n) = a.status /\ Free(a.text, 2, n + 2, {"sp", "lf"})
        /\ a.text[n + 3] = "sp" /\ a.text[n + 4] \notin {"sp", "lf"}
        /\ \E end \in n + 4 .. a.head - 2 :
              Free(a.text, n + 3, end, {"lf"}) /\ a.text[end + 1] = "lf"

\* Another line of the headers begins at i.
LineAt(a, i) == i \in 1 .. a.head - 1 /\ a.text[i] = "lf"

\* It is the empty line.
EmptyLine(a, i) ==
    \/ a.text[i + 1] = "lf" /\ a.head = i + 1
    \/ a.text[i + 1] = "cr" /\ a.text[i + 2] = "lf" /\ a.head = i + 2

\* It is a header, with its colon at colon, a value that is not blank from value
\* on and the end of the line at end.
Header(a, i, colon, value, end) ==
    /\ i < colon /\ colon < value /\ value < end /\ end < a.head - 1
    /\ Free(a.text, i, colon, {"sp", "cr", "col", "lf"}) /\ a.text[colon + 1] = "col"
    /\ \A k \in colon + 2 .. value : a.text[k] = "sp"
    /\ a.text[value + 1] \notin {"sp", "lf"}
    /\ Free(a.text, value, end, {"lf"}) /\ a.text[end + 1] = "lf"

\* A value without the blanks and returns behind it.
Trimmed(text) ==
    LET blank(n) == \A k \in n + 1 .. Len(text) : text[k] \in {"sp", "cr"}
    IN  SubSeq(text, 1, Min({n \in 0 .. Len(text) : blank(n)}))

\* It says that the body has n bytes.
SaysLength(a, i, n) ==
    \E colon, value, end \in 1 .. a.head :
        /\ Header(a, i, colon, value, end)
        /\ Piece(a.text, i, colon - i) = <<"C", "L">>
        /\ Number(0, Piece(a.text, value, end - value)) = n

\* It says that the body comes in chunks.
SaysChunked(a, i) ==
    \E colon, value, end \in 1 .. a.head :
        /\ Header(a, i, colon, value, end)
        /\ Piece(a.text, i, colon - i) = <<"T", "E">>
        /\ Trimmed(Piece(a.text, value, end - value)) = <<"c", "k">>

\* What Content-Length may be: that of the body, and for chunks none.
Size(a) == IF a.chunked THEN 0 ELSE Len(a.body)

\* Whatever line begins at i, it is empty or a header, and the two headers that
\* frame the body are right.
LineOK(a, i) ==
    \/ EmptyLine(a, i)
    \/ \E colon, value, end \in 1 .. a.head :
          /\ Header(a, i, colon, value, end)
          /\ Piece(a.text, i, colon - i) = <<"C", "L">> => SaysLength(a, i, Size(a))
          /\ SaysChunked(a, i) => a.chunked

\* The body is framed by a header, or there is none.
Framed(a) ==
    IF a.chunked THEN \E i \in 1 .. a.head : LineAt(a, i) /\ SaysChunked(a, i)
    ELSE /\ a.body # <<>> => \E i \in 1 .. a.head : LineAt(a, i) /\ SaysLength(a, i, Size(a))
         /\ Len(a.text) = a.head + Len(a.body) /\ Piece(a.text, a.head, Len(a.body)) = a.body

\* A chunk: its size on a line of its own, its part of the body, and a line end
\* before the next size.  The last one has none.
ChunkOK(a, k) ==
    LET c == a.chunks[k]
        behind == c.data + c.length
    IN  /\ c.size < c.data /\ c.data <= Len(a.text)
        /\ Free(a.text, c.size, c.data - 1, {"lf"}) /\ a.text[c.data] = "lf"
        /\ Number(0, Piece(a.text, c.size, c.data - 1 - c.size)) = c.length
        /\ IF k = Len(a.chunks) THEN c.length = 0 /\ c.at = Len(a.body)
           ELSE /\ c.length > 0 /\ c.at + c.length <= Len(a.body)
                /\ Piece(a.text, c.data, c.length) = Piece(a.body, c.at, c.length)
                /\ a.chunks[k + 1].at = c.at + c.length
                /\ \/ /\ a.text[behind + 1] = "cr" /\ a.text[behind + 2] = "lf"
                      /\ a.chunks[k + 1].size = behind + 2
                   \/ a.text[behind + 1] = "lf" /\ a.chunks[k + 1].size = behind + 1

Chunks(a) ==
    /\ a.chunks # <<>> /\ a.chunks[1].size = a.head /\ a.chunks[1].at = 0
    /\ \A k \in DOMAIN a.chunks : ChunkOK(a, k)

\* The version, followed by a blank, is nowhere else in an answer.
OneVersion(a) == \A i \in 2 .. Len(a.text) - 1 : a.text[i] = "H" => a.text[i + 1] # "sp"

WellFormed(a) ==
    /\ a.head \in 1 .. Len(a.text)
    /\ StatusLine(a) /\ OneVersion(a)
    /\ \A i \in 1 .. a.head : LineAt(a, i) => LineOK(a, i)
    /\ Framed(a)
    /\ a.chunked => Chunks(a)

ASSUME AnswerAssumption ==
    \A a \in Answers :
        /\ IsText(a.status) /\ IsText(a.body)
        /\ a.chunks \in Seq([size : Nat, data : Nat, length : Nat, at : Nat])
        /\ WellFormed(a)

-----------------------------------------------------------------------------

VARIABLES
    http,       \* RequestHttp: "idle", "send", "recv", "parse", "done" or "failed"
    env,        \* struct HttpEnv: the response buffer and the parser
    left,       \* pieces of the request still to send
    conn,       \* the socket: "none", "open", or "closed" by the server
    wire,       \* characters on their way to the client
    got,        \* pieces of a request the server has
    answer,     \* what the server answered to this request, <<>> before it did
    faults      \* faults so far

httpVars == <<http, env, left, conn, wire, got, answer, faults>>

Steps == {"VERSION0", "VERSION", "STATUSCODE0", "STATUSCODE", "REASONPHRASE0",
          "REASONPHRASE", "HEADER_NAME0", "HEADER_NAME", "HEADER_VALUE0",
          "HEADER_VALUE", "BODY", "CHUNKED_SIZE", "CHUNKED_DATA", "DONE"}

\* struct HttpEnv.  buf: base to fill_ptr; size: buf_size; process: process_ptr;
\* p: the local pointer of the parser; at: offset of the word that is read; name,
\* nameLen: of the header; chunk, chunkEnd: chunked_body, chunked_body_end;
\* reforming: reforming_flag; dangling: which pointers are in a block that was
\* freed; astray (history): the parser has gone back to a place that it had
\* passed, or has used a pointer that dangles.
FreshEnv(text, size) ==
    [buf |-> text, size |-> size, process |-> 0, p |-> 0, step |-> "VERSION0",
     at |-> 0, name |-> 0, nameLen |-> 0, status |-> <<>>,
     length |-> 0, chunked |-> FALSE, body |-> 0,
     chunkLen |-> 0, chunk |-> 0, chunkEnd |-> 0, reforming |-> FALSE,
     dangling |-> {}, astray |-> FALSE]

\* Mutant: what was read of the last answer stays in the buffer.
ResetHttpEnv_KeepsAll(e) == FreshEnv(e.buf, e.size)

\* The parser starts anew; bytes after the last answer are moved to the front
\* of the buffer when the parser has seen them there.
ResetHttpEnv(e) ==
    FreshEnv(IF e.process < Len(e.buf) /\ e.reforming
             THEN SubSeq(e.buf, e.process + 1, Len(e.buf)) ELSE <<>>, e.size)

HttpInit ==
    /\ http = "idle"
    /\ env = FreshEnv(<<>>, BufSize)
    /\ left = 0 /\ got = 0
    /\ conn = "none"
    /\ wire = <<>> /\ answer = <<>>
    /\ faults = 0

Fault == faults < MaxFaults /\ faults' = faults + 1

-----------------------------------------------------------------------------
(* The server *)

\* The request is complete: the server carries it out and answers.  A chunked
\* answer counts as a fault: the client reads it but for its last line.
ServerAnswers ==
    /\ conn = "open" /\ got = Request
    /\ \E a \in Answers :
        /\ wire' = wire \o a.text
        /\ answer' = <<a>>
        /\ IF a.chunked THEN Fault ELSE UNCHANGED faults
    /\ got' = 0
    /\ UNCHANGED <<http, env, left, conn>>

\* The server, or the network, ends the connection.  What is on the wire may
\* arrive or not.  (The parser does not see the socket: while it runs this can
\* wait.)
ServerCloses ==
    /\ conn = "open" /\ http # "parse"
    /\ conn' = "closed"
    /\ wire' \in {wire, <<>>}
    /\ got' = 0
    /\ Fault
    /\ UNCHANGED <<http, env, left, answer>>

-----------------------------------------------------------------------------
(* SendHttpRequest and ReceiveHttpBuffer *)

\* StrcpyfHttpBuffer has put the request together; RequestHttp begins.
BeginRequest ==
    /\ env' = ResetHttpEnv(env)
    /\ left' = Request
    /\ answer' = <<>>
    /\ http' = "send"
    /\ UNCHANGED <<conn, wire, got, faults>>

Fails == http' = "failed" /\ UNCHANGED <<env, left, conn, wire, got, answer>>

\* SendHttpBuffer until everything is sent.  Bytes for a connection that the
\* server has closed are taken by the kernel and lost.
Send ==
    /\ http = "send" /\ conn # "none"
    /\ \E n \in 1 .. left :
        /\ left' = left - n
        /\ got' = IF conn = "open" THEN got + n ELSE got
    /\ http' = IF left' = 0 THEN "recv" ELSE "send"
    /\ UNCHANGED <<env, conn, wire, answer, faults>>

\* send fails on a connection that is gone, select on a socket that is -1.
SendFails == http = "send" /\ conn # "open" /\ Fails /\ UNCHANGED faults

\* The time for the whole request is used up before select returns, or there is
\* no memory for a larger buffer.  It takes no fault when the parser has lost its
\* place in the chunks and waits for more than the server has sent.
TimesOut ==
    /\ http \in {"send", "recv"}
    /\ \/ Fault
       \/ http = "recv" /\ env.dangling # {} /\ wire = <<>> /\ UNCHANGED faults
    /\ Fails

\* Nothing was parsed, but something is there: parse it first.
Unread == env.process = 0 /\ env.buf # <<>>

\* Mutant: all of the buffer is filled, with no place for the NUL behind an answer.
Room_All == env.size - Len(env.buf)

\* How much recv may put behind fill_ptr.
Room == env.size - 1 - Len(env.buf)

\* ReallocHttpBuffer makes the buffer twice as large (above 100 MB, 100 MB larger),
\* and realloc may move it.  Only base, fill_ptr and process_ptr move with it.
Grow ==
    /\ http = "recv" /\ ~Unread /\ Room <= 0
    /\ \E moves \in BOOLEAN :
        env' = [env EXCEPT !.size = 2 * @,
                           !.dangling = IF moves /\ env.step \in {"CHUNKED_SIZE", "CHUNKED_DATA"}
                                        THEN @ \cup {"chunk", "chunkEnd"} ELSE @]
    /\ UNCHANGED <<http, left, conn, wire, got, answer, faults>>

\* The fragment ends between the CR and the LF of the empty line.
SplitsEnd(buf) ==
    /\ Len(buf) > 1
    /\ SubSeq(buf, Len(buf) - 1, Len(buf)) = <<"lf", "cr">>

\* ReceiveHttpBuffer: any part of what has arrived and has room.  A fragment that
\* ends within the last line end of the headers counts as a fault, because the
\* parser does not survive it.
Receive ==
    /\ http = "recv"
    /\ \/ /\ Unread
          /\ env' = [env EXCEPT !.p = 0]
          /\ UNCHANGED <<wire, faults>>
       \/ /\ ~Unread /\ Room > 0 /\ wire # <<>>
          /\ \E n \in 1 .. Min({Len(wire), Room}) :
              /\ env' = [env EXCEPT !.buf = @ \o SubSeq(wire, 1, n), !.p = env.process]
              /\ wire' = SubSeq(wire, n + 1, Len(wire))
              /\ IF SplitsEnd(env'.buf) THEN Fault ELSE UNCHANGED faults
    /\ http' = "parse"
    /\ UNCHANGED <<left, conn, got, answer>>

\* Mutant: the 0 that recv returns at the end is taken for an empty fragment.
AtEnd_NotSeen == FALSE

\* recv returns 0 or ECONNRESET.
AtEnd == conn # "open" /\ wire = <<>>

ReceiveFails ==
    /\ http = "recv" /\ ~Unread /\ Room > 0 /\ AtEnd
    /\ Fails /\ UNCHANGED faults

-----------------------------------------------------------------------------
(* ParseHttpBuffer: one operator for each shape of step *)

Fill == Len(env.buf)
At(i) == env.buf[i + 1]
Text(i, n) == SubSeq(env.buf, i + 1, i + n)

\* The first place from p on with, or without, one of these characters, or the
\* end of what was received.
Scan(p, Stops(_)) ==
    LET hits == {i \in p .. Fill - 1 : Stops(At(i))}
    IN  IF hits = {} THEN Fill ELSE CHOOSE i \in hits : \A j \in hits : i <= j
Find(p, chars) == Scan(p, LAMBDA c : c \in chars)
Skip(p) == Scan(p, LAMBDA c : c # "sp")

Parsing(step) == http = "parse" /\ env.step = step
NeedMore(e, p) == env' = [e EXCEPT !.process = p] /\ http' = "recv"
Invalid == env' = env /\ http' = "failed"
Goto(e, step, p) == env' = [e EXCEPT !.step = step, !.p = p] /\ http' = "parse"

\* DONE at p; whether the buffer's unread rest is kept for the next answer
\* depends on the way.  ReceiveHttpResponse puts a NUL behind the answer.
Done(e, p, keeps) ==
    /\ env' = [e EXCEPT !.step = "DONE", !.process = p, !.reforming = keeps /\ p < Fill,
                        !.buf = IF p < Fill THEN [@ EXCEPT ![p + 1] = "nul"] ELSE @]
    /\ http' = "done"

\* VERSION0, STATUSCODE0, REASONPHRASE0, HEADER_VALUE0: skip blanks to a word.
WordBegins(step, next) ==
    /\ Parsing(step)
    /\ LET p == Skip(env.p) IN
        \/ p = Fill /\ NeedMore(env, p)
        \/ p < Fill /\ At(p) = "lf" /\ Invalid
        \/ p < Fill /\ At(p) # "lf" /\ Goto([env EXCEPT !.at = p], next, p + 1)

\* VERSION and STATUSCODE: the word ends with a blank; the line must not.
WordEnds(step, next, Accepts(_), Keep(_)) ==
    /\ Parsing(step)
    /\ LET p == Find(env.p, {"sp", "lf"})
           word == Text(env.at, p - env.at)
       IN  \/ p = Fill /\ NeedMore(env, p)
           \/ p < Fill /\ (At(p) = "lf" \/ ~Accepts(word)) /\ Invalid
           \/ p < Fill /\ At(p) = "sp" /\ Accepts(word) /\ Goto(Keep(word), next, p + 1)

\* "H" stands for each version that the code lets pass: HTTP/1.0, HTTP/1.1 and
\* any other word of eight bytes that does not begin with HTTP/1.
ParseVersion ==
    \/ WordBegins("VERSION0", "VERSION")
    \/ WordEnds("VERSION", "STATUSCODE0", LAMBDA word : word = <<"H">>, LAMBDA word : env)

ParseStatus ==
    \/ WordBegins("STATUSCODE0", "STATUSCODE")
    \/ WordEnds("STATUSCODE", "REASONPHRASE0",
                LAMBDA word : TRUE, LAMBDA word : [env EXCEPT !.status = word])

ParseReason ==
    \/ WordBegins("REASONPHRASE0", "REASONPHRASE")
    \/ /\ Parsing("REASONPHRASE")
       /\ LET p == Find(env.p, {"lf"})
          IN  IF p = Fill THEN NeedMore(env, p) ELSE Goto(env, "HEADER_NAME0", p + 1)

\* _IF_THEN_GO_PARSING_BODY at p
HeadersEnd(p) ==
    CASE env.length > 0 -> Goto([env EXCEPT !.body = p], "BODY", p)
      [] env.length = 0 /\ env.chunked ->
            Goto([env EXCEPT !.body = p, !.chunkEnd = p], "CHUNKED_SIZE", p)
      [] OTHER -> Done(env, p, FALSE)

\* HEADER_NAME0: a header, or the empty line.  When only its CR is there,
\* process_ptr stays where it was saved last although the step is already this
\* one: what follows that place is parsed as headers the next time.
ParseHeaderName0 ==
    /\ Parsing("HEADER_NAME0")
    /\ LET p == Skip(env.p) IN
        CASE p = Fill -> NeedMore(env, p)
          [] p < Fill /\ At(p) = "cr" /\ p + 1 = Fill ->
                NeedMore([env EXCEPT !.astray = @ \/ env.process < p], env.process)
          [] p + 1 < Fill /\ At(p) = "cr" /\ At(p + 1) = "lf" -> HeadersEnd(p + 2)
          [] p + 1 < Fill /\ At(p) = "cr" /\ At(p + 1) # "lf" -> HeadersEnd(p + 1)
          [] p < Fill /\ At(p) = "lf" -> HeadersEnd(p + 1)
          [] OTHER -> Goto([env EXCEPT !.name = p], "HEADER_NAME", p + 1)

ParseHeaderName ==
    /\ Parsing("HEADER_NAME")
    /\ LET p == Find(env.p, {"sp", "col", "lf"})
           q == Find(p, {"col", "lf"})
       IN  CASE p = Fill -> NeedMore(env, p)
             [] p < Fill /\ q = Fill -> NeedMore([env EXCEPT !.nameLen = p - env.name], q)
             [] q < Fill /\ At(q) = "lf" -> Invalid
             [] OTHER -> Goto([env EXCEPT !.nameLen = p - env.name], "HEADER_VALUE0", q + 1)

\* HEADER_VALUE: Content-Length and Transfer-Encoding are taken over.
ParseHeaderValue ==
    \/ WordBegins("HEADER_VALUE0", "HEADER_VALUE")
    \/ /\ Parsing("HEADER_VALUE")
       /\ LET p == Find(env.p, {"lf"})
              name == Text(env.name, env.nameLen)
              value == Trimmed(Text(env.at, p - env.at))
              next == CASE name = <<"C", "L">> -> [env EXCEPT !.length = Number(0, Text(env.at, p - env.at))]
                        [] name = <<"T", "E">> /\ value = <<"c", "k">> ->
                               [env EXCEPT !.chunked = TRUE]
                        [] OTHER -> env
          IN  IF p = Fill THEN NeedMore(env, p) ELSE Goto(next, "HEADER_NAME0", p + 1)

BodyIsThere == Fill - env.body >= env.length

ParseBody ==
    /\ Parsing("BODY")
    /\ IF BodyIsThere
       THEN Done(env, env.body + env.length, TRUE)
       ELSE NeedMore(env, Fill)

\* CHUNKED_SIZE: the last chunk ends the answer, its empty line is not read.
ParseChunkSize ==
    /\ Parsing("CHUNKED_SIZE")
    /\ LET p == Find(env.p, {"lf"})
           e == [env EXCEPT !.chunkLen = Number(env.chunkLen, Text(env.p, p - env.p))]
       IN  CASE p = Fill -> NeedMore(e, p)
             [] p < Fill /\ e.chunkLen = 0 -> Done(e, p + 1, TRUE)
             [] OTHER -> Goto([e EXCEPT !.chunk = p + 1,
                                        !.dangling = IF "p" \in @ THEN @ ELSE @ \ {"chunk"}],
                              "CHUNKED_DATA", p + 1)

\* memmove: the chunk follows the chunks before it, without their sizes.  When
\* chunked_body_end dangles it is copied to the block that was freed.
MoveChunk ==
    IF "chunkEnd" \in env.dangling THEN env.buf
    ELSE [i \in 1 .. Fill |->
             IF i \in env.chunkEnd + 1 .. env.chunkEnd + env.chunkLen
             THEN env.buf[i - env.chunkEnd + env.chunk] ELSE env.buf[i]]

ChunkIsThere == Fill - env.chunk >= env.chunkLen + 2

\* CHUNKED_DATA: the size of the next chunk is behind this one.
ParseChunk ==
    /\ "chunk" \notin env.dangling
    /\ IF ChunkIsThere
       THEN LET p == env.chunk + env.chunkLen
                gap == IF p + 1 < Fill /\ At(p) = "cr" /\ At(p + 1) = "lf" THEN 2
                       ELSE IF p < Fill /\ At(p) = "lf" THEN 1 ELSE 0
            IN  Goto([env EXCEPT !.buf = MoveChunk, !.chunkEnd = @ + env.chunkLen,
                                 !.length = @ + env.chunkLen, !.chunkLen = 0,
                                 !.astray = @ \/ env.dangling # {}],
                     "CHUNKED_SIZE", p + gap)
       ELSE NeedMore(env, Fill)

\* fill_ptr - chunked_body is that of two blocks.  If the chunk seems to be there
\* p leaves the buffer with it, and the next size is looked for in whatever is
\* there: often a copy of the answer, so any place of it is taken for p.
ParseFreedChunk ==
    /\ "chunk" \in env.dangling
    /\ LET e == [env EXCEPT !.astray = TRUE]
       IN  \/ NeedMore(e, Fill)
           \/ \E p \in env.chunk .. Fill :
                 Goto([e EXCEPT !.dangling = @ \cup {"p"}, !.length = @ + env.chunkLen,
                                !.chunkLen = 0],
                      "CHUNKED_SIZE", p)

ParseChunkData == Parsing("CHUNKED_DATA") /\ (ParseChunk \/ ParseFreedChunk)

ParseHttpBuffer ==
    /\ \/ ParseVersion \/ ParseStatus \/ ParseReason
       \/ ParseHeaderName0 \/ ParseHeaderName \/ ParseHeaderValue
       \/ ParseBody \/ ParseChunkSize \/ ParseChunkData
    /\ UNCHANGED <<left, conn, wire, got, answer, faults>>

RequestHttp ==
    Send \/ SendFails \/ TimesOut \/ Grow \/ Receive \/ ReceiveFails \/ ParseHttpBuffer

Server == ServerAnswers \/ ServerCloses

-----------------------------------------------------------------------------
(* Properties *)

HttpTypeOK ==
    /\ http \in {"idle", "send", "recv", "parse", "done", "failed"}
    /\ env.step \in Steps
    /\ Fill < env.size
    /\ "p" \notin env.dangling => env.process \in 0 .. Fill /\ env.p \in 0 .. Fill
    /\ left \in 0 .. Request /\ got \in 0 .. Request
    /\ conn \in {"none", "open", "closed"}
    /\ faults \in 0 .. MaxFaults

\* When RequestHttp returns 0 the server has answered this very request, and the
\* status and the body that were parsed are those of its answer, wherever the
\* network has cut the answers: never those of an answer before it or of the sizes
\* between chunks.  Two cases are excepted, in which the code does read something
\* else: a cut within the empty line makes the parser go back and take earlier
\* lines for headers, and a buffer that grows within a chunked body leaves it with
\* pointers into the freed block, which it then uses.
AnswerRead ==
    http = "done" =>
        /\ answer # <<>>
        /\ ~env.astray =>
              /\ env.status = answer[1].status
              /\ Text(env.body, env.length) = answer[1].body
=============================================================================
