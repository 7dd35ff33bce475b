------------------------------ MODULE OutputEs -------------------------------
(***************************************************************************)
(* src-plugins/logpipe-output-es.c: the blocks of a message are put         *)
(* together to lines, each line is split into fields, the fields are filled *)
(* into a template, and the documents are posted one by one or, with        *)
(* "bulk", once for each block.  A post that fails is repeated on a new     *)
(* connection until RequestHttp returns 0.                                  *)
(*                                                                         *)
(* A character is a model value.  Left out: uncompressing and iconv, which  *)
(* map a block or a document to another or give up on it, the HTTP header   *)
(* of the request and the bulk_head line, which are constant.               *)
(***************************************************************************)
EXTENDS HttpClient

CONSTANTS
    Options,        \* settings of bulk and fields_strictly
    Messages,       \* what an input may pass on: a block of text, and its file
    MaxBlocks,      \* bound: blocks
    ParseSize,      \* PARSE_BUFFER_SIZE
    FormatSize,     \* FORMAT_BUFFER_SIZE
    Template,       \* output_template
    Separators,     \* separator_charset
    Translated,     \* translate_charset
    Grep            \* grep, a character, or "none"

ASSUME EsAssumption ==
    /\ Options \subseteq [bulk : BOOLEAN, strict : BOOLEAN]
    /\ MaxBlocks \in Nat /\ ParseSize \in Nat \ {0} /\ FormatSize \in Nat
    /\ \A m \in Messages : IsText(m.text) /\ Len(m.text) <= ParseSize

VARIABLES
    option,     \* the element of Options this plugin is configured with
    pc,         \* "init", "idle", "combine", "replace", "lines", "shift", "post", "event"
    after,      \* pc after the post
    watched,    \* the socket is registered with epoll
    due,        \* its event is in the batch of epoll_wait that is handled
    filename,   \* of the message, from BeforeWriteOutputPlugin
    block,      \* the block WriteOutputPlugin was called with
    parse,      \* parse_buffer: behind the text there are old bytes
    parseLen,   \* parse_buflen
    newline,    \* p_newline: where the line ends that is a document now
    post,       \* post_buffer: the documents to post, each with its number
    stream,     \* history: every block written, with its file
    made,       \* history: the texts of the documents
    served,     \* history: the first and last document of the latest request served
    repeats,    \* history: requests served whose documents had been served before
    clean       \* history: no line was forced or too long, no Write gave up

textVars == <<filename, block, parse, parseLen, newline>>
docVars == <<post, made>>
vars == <<httpVars, option, pc, after, watched, due, textVars, docVars,
          stream, served, repeats, clean>>

Init ==
    /\ HttpInit
    /\ option \in Options
    /\ pc = "init" /\ after = "idle"
    /\ watched = FALSE /\ due = FALSE
    /\ filename = <<>> /\ block = <<>>
    /\ parse = [i \in 1 .. ParseSize + 1 |-> "nul"]
    /\ parseLen = 0 /\ newline = 0
    /\ post = <<>> /\ made = <<>>
    /\ stream = <<>> /\ repeats = 0 /\ clean = TRUE
    /\ served = [from |-> 1, to |-> 0]

-----------------------------------------------------------------------------
(* FormatOutputTemplate *)

\* The place of the first character from i on that is one of these.
Next1(text, i, chars) ==
    LET hits == {j \in i .. Len(text) : text[j] \in chars}
    IN  IF hits = {} THEN Len(text) + 1 ELSE Min(hits)

\* field_separator_array_size - 1: the largest number in the template.
LastField ==
    Max({Decimal[Template[i + 1]] : i \in {j \in 1 .. Len(Template) : Template[j] = "$"}})

\* p = p_endptr: behind the "$n" there was, whatever the length of the value.
\* (Numbers have one digit here: there is at least the text's NUL.)
AfterValue(i) == i + 2

\* One turn of the loop: the next "$n" is replaced if the line has such a field.
FillNext(fields, s) ==
    LET i == Next1(s.text, s.at, {"$"})
        n == Decimal[s.text[i + 1]]
    IN  IF i > Len(s.text) \/ s.long THEN s
        ELSE IF n \notin DOMAIN fields THEN [s EXCEPT !.at = AfterValue(i)]
        ELSE IF Len(s.text) + Len(fields[n]) - 2 > FormatSize THEN [s EXCEPT !.long = TRUE]
        ELSE [s EXCEPT !.text = SubSeq(@, 1, i - 1) \o fields[n] \o SubSeq(@, i + 2, Len(@)),
                       !.at = AfterValue(i)]

\* The text, and whether it is too long for format_buffer.
FormatOutputTemplate(fields) ==
    FoldLeft(LAMBDA s, k : FillNext(fields, s),
             [text |-> Template, at |-> 1, long |-> FALSE], [k \in 1 .. FormatSize |-> k])

-----------------------------------------------------------------------------
(* ParseCombineBuffer: from the C string at the start of the buffer *)

StringLen(buf) == Next1(buf, 1, {"nul"}) - 1

\* grep: the string may be longer than the line.
Matches(buf) ==
    Grep = "none" \/ \E i \in 1 .. StringLen(buf) : buf[i] = Grep

Translate(buf) ==
    [i \in DOMAIN buf |->
        IF i <= StringLen(buf) /\ buf[i] \in Translated THEN "sp" ELSE buf[i]]

FieldBegin(buf, p) == Next1(buf, p, {buf[i] : i \in DOMAIN buf} \ Separators)

\* Field n from p on.  The scan goes on one behind the end of a field also when
\* that is the NUL that ends the line: a field the line lacks is then looked for
\* in what follows it in the buffer, the next line.
NextField(buf, s, n) ==
    LET begin == FieldBegin(buf, s.p)
        end == Next1(buf, begin, Separators \cup {"nul"})
    IN  IF begin > Len(buf) \/ buf[begin] = "nul" THEN [s EXCEPT !.p = Len(buf) + 1]
        ELSE [p |-> end + 1, fields |-> s.fields @@ n :> SubSeq(buf, begin, end - 1)]

Fields(buf, name) ==
    FoldLeft(LAMBDA s, n : NextField(buf, s, n),
             [p |-> 1, fields |-> 0 :> name], [n \in 1 .. LastField |-> n]).fields

\* fields_strictly: the last field must have been found.
Dropped(buf, fields) == ~Matches(buf) \/ (option.strict /\ LastField \notin DOMAIN fields)

\* The line becomes a document behind those in post_buffer and, without bulk, is
\* posted at once, and then the caller goes on at next.
ParseCombineBuffer(buf, next) ==
    LET line == IF Matches(buf) THEN Translate(buf) ELSE buf
        fields == Fields(line, filename)
        d == FormatOutputTemplate(fields)
        adds == ~Dropped(buf, fields) /\ ~d.long
    IN  /\ parse' = line
        /\ post' = IF adds THEN Append(post, [no |-> Len(made) + 1, text |-> d.text]) ELSE post
        /\ made' = IF adds THEN Append(made, d.text) ELSE made
        /\ clean' = (clean /\ (Dropped(buf, fields) \/ ~d.long))
        /\ IF adds /\ ~option.bulk
           THEN pc' = "post" /\ after' = next
           ELSE pc' = next /\ after' = after

-----------------------------------------------------------------------------
(* BeforeWriteOutputPlugin, WriteOutputPlugin and CombineToParseBuffer *)

netVars == <<httpVars, option, watched, due, served, repeats>>

\* A block of a message of one of the files.
WriteOutputPlugin ==
    /\ pc = "idle" /\ Len(stream) < MaxBlocks
    /\ \E m \in Messages :
        /\ filename' = m.file
        /\ block' = m.text
        /\ stream' = Append(stream, m)
    /\ pc' = "combine"
    /\ UNCHANGED <<netVars, after, parse, parseLen, newline, docVars, clean>>

Put(buf, i, text) ==
    [j \in DOMAIN buf |-> IF j \in i + 1 .. i + Len(text) THEN text[j - i] ELSE buf[j]]

\* The block is put behind the rest of the last line, of whatever message.
Fits ==
    /\ pc = "combine" /\ parseLen + Len(block) <= ParseSize
    /\ parse' = Put(parse, parseLen, block)
    /\ parseLen' = parseLen + Len(block)
    /\ pc' = "lines"
    /\ UNCHANGED <<netVars, after, filename, block, newline, docVars, stream, clean>>

\* The rest is made a line, with the bytes that are behind it in the buffer ...
Forced ==
    /\ pc = "combine" /\ parseLen + Len(block) > ParseSize
    /\ ParseCombineBuffer(parse, "replace")
    /\ UNCHANGED <<netVars, filename, block, parseLen, newline, stream>>

\* ... and the block takes its place.
Replace ==
    /\ pc = "replace"
    /\ parse' = Put(parse, 0, block)
    /\ parseLen' = Len(block)
    /\ clean' = FALSE
    /\ pc' = "lines"
    /\ UNCHANGED <<netVars, after, filename, block, newline, docVars, stream>>

LineEnd == Next1(SubSeq(parse, 1, parseLen), 1, {"nl"})

\* The next line in the buffer ends with a NUL now.
Line ==
    /\ pc = "lines" /\ LineEnd <= parseLen
    /\ newline' = LineEnd
    /\ ParseCombineBuffer([parse EXCEPT ![LineEnd] = "nul"], "shift")
    /\ UNCHANGED <<netVars, filename, block, parseLen, stream>>

\* Mutant: remain_len counts the byte that is the NUL now twice.
RemainLen_OneLess == IF parseLen > newline THEN parseLen - newline - 1 ELSE 0

\* remain_len
RemainLen == parseLen - newline

Shift ==
    /\ pc = "shift"
    /\ parse' = Put(parse, 0, SubSeq(parse, newline + 1, newline + RemainLen))
    /\ parseLen' = RemainLen
    /\ pc' = "lines"
    /\ UNCHANGED <<netVars, after, filename, block, newline, docVars, stream, clean>>

\* No more lines: with bulk the documents are posted, if any or not.
LastLine ==
    /\ pc = "lines" /\ LineEnd > parseLen
    /\ after' = "idle"
    /\ pc' = IF option.bulk THEN "post" ELSE "idle"
    /\ UNCHANGED <<netVars, textVars, docVars, stream, clean>>

-----------------------------------------------------------------------------
(* PostToEs *)

Post == pc = "post" /\ http = "idle"

\* _GOTO_RESEND: the request is put together from all of post_buffer.
StartRequest ==
    /\ Post
    /\ BeginRequest
    /\ UNCHANGED <<option, pc, after, watched, due, textVars, docVars, stream,
                   served, repeats, clean>>

\* StrcpyfHttpBuffer has no memory: PostToEs returns 1, post_buffer is kept.
StrcpyFails ==
    /\ Post /\ Fault
    /\ pc' = after
    /\ env' = ResetHttpEnv(env)
    /\ UNCHANGED <<http, left, conn, wire, got, answer, option, after, watched, due,
                   textVars, docVars, stream, served, repeats, clean>>

InRequest ==
    /\ pc = "post"
    /\ RequestHttp
    /\ UNCHANGED <<option, pc, after, watched, due, textVars, docVars, stream,
                   served, repeats, clean>>

\* ConnectElasticSearchServer succeeds, after some attempts or none.
Connected == conn' = "open" /\ wire' = <<>> /\ got' = 0

\* Mutant: the documents of a request that failed are given up.
Unposted_Dropped == <<>>

\* What is posted after a failed request.
Unposted == post

\* RequestHttp failed: close, connect, and from _GOTO_RESEND again.  The new
\* socket is not registered.
Reconnect ==
    /\ pc = "post" /\ http = "failed"
    /\ Connected
    /\ http' = "idle"
    /\ watched' = FALSE
    /\ post' = Unposted
    /\ UNCHANGED <<env, left, answer, faults, option, pc, after, due, textVars, made,
                   stream, served, repeats, clean>>

\* There is no socket to be had: -1, up to WriteAllOutputPlugins.  The worker
\* goes on, as with input-file, and the buffers keep what they have.
SocketFails ==
    /\ pc = "post" /\ http = "failed"
    /\ conn' = "none" /\ wire' = <<>> /\ got' = 0
    /\ http' = "idle" /\ pc' = "idle"
    /\ watched' = FALSE /\ clean' = FALSE
    /\ UNCHANGED <<env, left, answer, faults, option, after, due, textVars, docVars,
                   stream, served, repeats>>

\* RequestHttp returned 0: whatever the status, the documents are done with.
Posted ==
    /\ pc = "post" /\ http = "done"
    /\ http' = "idle"
    /\ post' = <<>>
    /\ pc' = after
    /\ UNCHANGED <<env, left, conn, wire, got, answer, faults, option, after, watched, due,
                   textVars, made, stream, served, repeats, clean>>

-----------------------------------------------------------------------------
(* The event loop *)

\* InitOutputPluginContext, and OnOutputPluginEvent: close and connect.
Connect ==
    /\ pc \in {"init", "event"}
    /\ Connected
    /\ pc' = "idle" /\ watched' = TRUE
    /\ UNCHANGED <<http, env, left, answer, faults, option, after, due, textVars, docVars,
                   stream, served, repeats, clean>>

\* epoll_wait reports the socket, perhaps after an input whose message makes
\* the plugin connect anew.
EpollWait ==
    /\ pc = "idle" /\ watched /\ ~due
    /\ conn = "closed" \/ wire # <<>>
    /\ due' = TRUE
    /\ UNCHANGED <<httpVars, option, pc, after, watched, textVars, docVars, stream,
                   served, repeats, clean>>

\* The event is handled: OnOutputPluginEvent closes the socket, this or a later.
OnOutputPluginEvent ==
    /\ pc = "idle" /\ due
    /\ due' = FALSE
    /\ pc' = "event"
    /\ conn' = "none" /\ wire' = <<>> /\ got' = 0 /\ watched' = FALSE
    /\ UNCHANGED <<http, env, left, answer, faults, option, after, textVars, docVars,
                   stream, served, repeats, clean>>

-----------------------------------------------------------------------------
(* The server *)

\* A complete request is served, and the documents in it are known.
Serve ==
    /\ ServerAnswers
    /\ IF post = <<>> THEN UNCHANGED <<served, repeats>>
       ELSE /\ served' = [from |-> post[1].no, to |-> post[Len(post)].no]
            /\ repeats' = IF post[1].no <= served.to THEN repeats + 1 ELSE repeats
    /\ UNCHANGED <<option, pc, after, watched, due, textVars, docVars, stream, clean>>

Closes ==
    /\ ServerCloses
    /\ UNCHANGED <<option, pc, after, watched, due, textVars, docVars, stream,
                   served, repeats, clean>>

PostToEs ==
    StartRequest \/ StrcpyFails \/ InRequest \/ Reconnect \/ SocketFails \/ Posted

Next ==
    \/ WriteOutputPlugin \/ Fits \/ Forced \/ Replace \/ Line \/ Shift \/ LastLine
    \/ PostToEs
    \/ Connect \/ EpollWait \/ OnOutputPluginEvent
    \/ Serve \/ Closes

\* A worker that is in PostToEs goes on, and so does the server; neither has to
\* fail, and an input need not have more to say.
Fairness == WF_vars(PostToEs) /\ WF_vars(Serve)

Spec == Init /\ [][Next]_vars /\ Fairness

-----------------------------------------------------------------------------
(* Properties *)

\* The type invariant: the lengths stay within the buffers.
TypeOK ==
    /\ HttpTypeOK
    /\ parseLen \in 0 .. ParseSize
    /\ newline \in 0 .. ParseSize
    /\ LineEnd \in 1 .. ParseSize + 1
    /\ pc \in {"init", "idle", "combine", "replace", "lines", "shift", "post", "event"}
    /\ pc # "post" => http = "idle"

\* A request for documents that were served already takes a fault each: without
\* one no document is posted twice.
RepeatsExcused == repeats <= faults

\* PostToEs: the server gets the documents in order and without a gap, each at
\* least once, however often connections break, answers are late or cut, and
\* events are stale.
Log == INSTANCE AtLeastOnce WITH last <- served
InOrder == Log!Spec

\* Nothing stays in post_buffer: a worker that is in PostToEs leaves it.
PostEnds == pc = "post" ~> pc # "post"

\* What the documents should be: the lines of all blocks one after the other,
\* each with the name of the file that ended it.
Chars == FlattenSeq([i \in 1 .. Len(stream) |->
             [j \in 1 .. Len(stream[i].text) |-> <<stream[i].text[j], stream[i].file>>]])
Lines ==
    LET ends == SetToSortSeq({i \in 1 .. Len(Chars) : Chars[i][1] = "nl"}, <)
    IN  [k \in 1 .. Len(ends) |->
            [text |-> [i \in 1 .. ends[k] - 1 - (IF k = 1 THEN 0 ELSE ends[k - 1]) |->
                          Chars[i + (IF k = 1 THEN 0 ELSE ends[k - 1])][1]],
             file |-> Chars[ends[k]][2]]]

\* The words of a line by their number.
Words(text) ==
    LET in(i) == text[i] \notin Separators \cup Translated
        starts == SetToSortSeq({i \in 1 .. Len(text) : in(i) /\ (i = 1 \/ ~in(i - 1))}, <)
    IN  [k \in 1 .. Len(starts) |->
            SubSeq(text, starts[k], starts[k] - 1 +
                Cardinality({j \in starts[k] .. Len(text) : \A i \in starts[k] .. j : in(i)}))]

Document(line) ==
    FlattenSeq([i \in 1 .. Len(Template) |->
        IF Template[i] = "$" THEN <<>>
        ELSE IF i = 1 \/ Template[i - 1] # "$" THEN <<Template[i]>>
        ELSE IF Template[i] = "0" THEN line.file
        ELSE Words(line.text)[Decimal[Template[i]]]])

Wanted(line) == Grep = "none" \/ \E i \in 1 .. Len(line.text) : line.text[i] = Grep

\* The documents are those of the lines that grep wants, in their order: no byte
\* is lost, kept twice or moved where a block, a line or a message ends.  (A line
\* with fewer fields than the template takes some of the next, and a line that is
\* forced out ends in old bytes: such streams are left out, here only.)
Documents ==
    LET wanted == SelectSeq(Lines, Wanted)
        whole == \A k \in DOMAIN wanted : Len(Words(wanted[k].text)) >= LastField
    IN  clean /\ pc = "idle" /\ whole => made = [k \in DOMAIN wanted |-> Document(wanted[k])]
=============================================================================
