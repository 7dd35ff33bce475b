------------------------------ MODULE OutputIngeek ------------------------------
(***************************************************************************)
(* src-plugins/logpipe-output-ingeek.c: the blocks are put together to      *)
(* lines; a line and the tail made for it become two entries of an iovec,   *)
(* which is sent with the last line of a block, or when it is full, to the  *)
(* next of several peers.  A peer that refuses a connection is left out     *)
(* for disable_timeout seconds.                                             *)
(*                                                                         *)
(* A byte of a line is the number it has in the text, 0 when it is a        *)
(* newline that became a NUL; a tail is one byte, less than 0, so that it   *)
(* fits its entry of tail_array.  (In the code a tail that a long file name *)
(* makes longer than MAX_TAIL_BUF has the length snprintf wanted, and what  *)
(* is behind its entry is sent as well.)  An iovec entry refers to          *)
(* parse_buffer or tail_array: what is sent is what is there at the time.   *)
(***************************************************************************)
EXTENDS Worker, FiniteSetsExt, SequencesExt

CONSTANTS
    PeerCount,      \* forward_session_count
    SendCounts,     \* values of iov_send_count
    ParseSize,      \* PARSE_BUFFER_SIZE
    Newlines        \* the sets of bytes of the text that may be the newlines

ASSUME IngeekAssumption ==
    /\ PeerCount \in Nat \ {0}
    /\ SendCounts \subseteq Nat \ {0}
    /\ ParseSize \in Nat
    /\ Newlines \subseteq SUBSET (Nat \ {0})

VARIABLES
    sendCount,  \* iov_send_count
    newlines,   \* the newlines of this text
    step,       \* in WriteOutputPlugin: "idle", "lines", "connect" or "send"
    index,      \* forward_session_index and p_forward_session; 0 for -1
    sock,       \* the connection of each peer, or 0
    conns,      \* history: connections made
    gone,       \* connections whose peer has closed
    disabled,   \* peers with an enable_timestamp to come
    parse,      \* parse_buffer, as far as parse_buflen
    from,       \* p_line
    lineAdd,    \* line_add
    iov,        \* iov_array
    tails,      \* tail_array
    wire,       \* history: what was sent, batch by batch, with its connection
    stuck       \* history: there was no socket to be had in the middle of a block

peerVars == <<index, sock, conns, gone, disabled>>
lineVars == <<parse, from, lineAdd>>
iovVars == <<iov, tails>>
ingeekVars == <<sendCount, newlines, step, peerVars, lineVars, iovVars, wire, stuck>>

Peers == 1 .. PeerCount

IngeekInit ==
    /\ sendCount \in IF conf.output = "ingeek" THEN SendCounts ELSE {1}
    /\ newlines \in IF conf.output = "ingeek" THEN Newlines ELSE {{}}
    /\ step = "idle"
    /\ index = 0 /\ sock = [p \in Peers |-> 0] /\ conns = 0
    /\ gone = {} /\ disabled = {}
    /\ parse = <<>> /\ from = 1 /\ lineAdd = 0
    /\ iov = <<>> /\ tails = [i \in 1 .. sendCount |-> 0]
    /\ wire = <<>> /\ stuck = FALSE

Ingeek == conf.output = "ingeek"

Sock(conn) == <<"sock", conn>>

\* A connection the peer has closed is readable.
PeerEvents == {Event(Sock(c), TRUE) : c \in {c \in gone : Sock(c) \in watched}}

IngeekTypeOK ==
    /\ step \in {"idle", "lines", "connect", "send"}
    /\ step # "idle" => hook = "write"
    /\ index \in 0 .. PeerCount
    /\ \A p \in Peers : sock[p] \in 0 .. conns
    /\ Len(parse) <= ParseSize
    /\ from \in 1 .. Len(parse) + 1
    /\ Len(iov) <= sendCount

-----------------------------------------------------------------------------
(* CheckAndConnectForwardSocket *)

\* connect and AddOutputPluginEvent
Connected(p) ==
    /\ conns' = conns + 1
    /\ sock' = [sock EXCEPT ![p] = conns + 1]
    /\ watched' = watched \cup {Sock(conns + 1)}

Unconnected == {p \in Peers : sock[p] = 0}

\* InitOutputPluginContext: the peers in turn, each until it accepts, and then
\* the first.  (There may be no socket to be had.)
ConnectAll ==
    /\ Ingeek /\ hook = "initOutput"
    /\ \/ /\ Unconnected # {}
          /\ Connected(Min(Unconnected))
          /\ index' = index
          /\ UNCHANGED <<hook, accepted, faults>>
       \/ /\ Unconnected = {}
          /\ index' = 1
          /\ Return("ok")
          /\ UNCHANGED <<conns, sock, watched, faults>>
       \/ /\ Unconnected # {}
          /\ Fault
          /\ Return("hard")
          /\ UNCHANGED <<index, conns, sock, watched>>
    /\ UNCHANGED <<loopVars, sendCount, newlines, step, gone, disabled, lineVars, iovVars,
                   wire, stuck>>

NextIndex == IF index = PeerCount THEN 1 ELSE index + 1

Seeking == Ingeek /\ hook = "write" /\ step = "connect"

\* sock >= 0
Usable(p) == sock[p] # 0

\* A peer that is disabled is passed over, one that is connected is taken.
PassOver ==
    /\ Seeking /\ NextIndex \in disabled
    /\ index' = NextIndex
    /\ UNCHANGED <<workerVars, sendCount, newlines, step, sock, conns, gone, disabled,
                   lineVars, iovVars, wire, stuck>>

Take ==
    /\ Seeking /\ NextIndex \notin disabled /\ Usable(NextIndex)
    /\ index' = NextIndex
    /\ step' = "send"
    /\ UNCHANGED <<workerVars, sendCount, newlines, sock, conns, gone, disabled,
                   lineVars, iovVars, wire, stuck>>

Refused ==
    /\ Seeking /\ NextIndex \notin disabled /\ ~Usable(NextIndex)
    /\ index' = NextIndex
    /\ disabled' = disabled \cup {NextIndex}
    /\ UNCHANGED <<workerVars, sendCount, newlines, step, sock, conns, gone,
                   lineVars, iovVars, wire, stuck>>

Accepted ==
    /\ Seeking /\ NextIndex \notin disabled /\ ~Usable(NextIndex)
    /\ index' = NextIndex
    /\ Connected(NextIndex)
    /\ step' = "send"
    /\ UNCHANGED <<loopVars, hook, accepted, faults, sendCount, newlines, gone, disabled,
                   lineVars, iovVars, wire, stuck>>

\* socket fails: -1 through SendLineBuffer, CombineToParseBuffer and
\* WriteOutputPlugin.  The lines of this block stay in parse_buffer, with NULs.
NoSocket ==
    /\ Seeking /\ NextIndex \notin disabled /\ ~Usable(NextIndex)
    /\ Fault
    /\ index' = NextIndex
    /\ iov' = <<>>
    /\ step' = "idle"
    /\ stuck' = TRUE
    /\ from' = 1 /\ lineAdd' = 0
    /\ Return("hard")
    /\ UNCHANGED <<loopVars, watched, sendCount, newlines, sock, conns, gone, disabled,
                   parse, tails, wire>>

\* enable_timestamp is over.
Enable ==
    /\ \E p \in disabled : disabled' = disabled \ {p}
    /\ hook # "exit"
    /\ UNCHANGED <<workerVars, sendCount, newlines, step, index, sock, conns, gone,
                   lineVars, iovVars, wire, stuck>>

-----------------------------------------------------------------------------
(* CombineToParseBuffer and SendLineBuffer *)

BeginIngeek ==
    /\ Ingeek /\ hook = "before"
    /\ Return("ok")
    /\ UNCHANGED <<loopVars, watched, faults, ingeekVars>>

TailOf(no) == -1 - no

\* Mutant: one entry too many is put into iov_array.
NoRoom_OneLate(slot) == slot > sendCount

\* iov_count >= iov_send_count, after the line's entry
NoRoom(slot) == slot >= sendCount

\* SendLineBuffer up to the flush.  With no room for the tail all is given up;
\* otherwise the batch is sent when it is full or the caller says so.
AddLine(at, len, no, flush) ==
    LET slot == Len(iov) + 1
        full == NoRoom(slot)
    IN  /\ tails' = [tails EXCEPT ![slot] = TailOf(no)]
        /\ iov' = IF full THEN <<>>
                  ELSE iov \o <<[at |-> at, len |-> len], [at |-> slot, len |-> -1]>>
        /\ step' = IF ~full /\ (slot + 1 >= sendCount \/ flush) THEN "connect" ELSE "lines"

\* The block is put behind the rest of the last line ...
Combine ==
    /\ Ingeek /\ hook = "write" /\ step = "idle"
    /\ Len(parse) + Len(block) <= ParseSize
    /\ parse' = parse \o block
    /\ from' = 1 /\ lineAdd' = 0
    /\ step' = "lines"
    /\ UNCHANGED <<workerVars, sendCount, newlines, peerVars, iovVars, wire, stuck>>

\* ... or the rest is sent first as a line of its own; from > Len(parse) then.
ForceLine ==
    /\ Ingeek /\ hook = "write" /\ step = "idle"
    /\ Len(parse) + Len(block) > ParseSize
    /\ AddLine(1, Len(parse), 0, TRUE)
    /\ from' = Len(parse) + 1 /\ lineAdd' = 0
    /\ UNCHANGED <<workerVars, sendCount, newlines, peerVars, parse, wire, stuck>>

Forced == step = "lines" /\ lineAdd = 0 /\ from > 1

Replace ==
    /\ Ingeek /\ Forced
    /\ parse' = block
    /\ from' = 1
    /\ UNCHANGED <<workerVars, sendCount, newlines, step, peerVars, lineAdd, iovVars, wire,
                   stuck>>

NewlinesFrom(i) == {j \in i .. Len(parse) : parse[j] \in newlines}

InLines == Ingeek /\ step = "lines" /\ ~Forced

\* p_next_newline ? 0 : 1
IsLast(end) == NewlinesFrom(end + 1) = {}

SendLine ==
    /\ InLines /\ NewlinesFrom(from) # {}
    /\ LET end == Min(NewlinesFrom(from))
       IN  /\ AddLine(from, end - from, lineAdd + 1, IsLast(end))
           /\ parse' = [parse EXCEPT ![end] = 0]
           /\ from' = end + 1
    /\ lineAdd' = lineAdd + 1
    /\ UNCHANGED <<workerVars, sendCount, newlines, peerVars, wire, stuck>>

\* What is behind the last newline is moved to the start.
EndWrite ==
    /\ InLines /\ NewlinesFrom(from) = {}
    /\ parse' = SubSeq(parse, from, Len(parse))
    /\ from' = 1 /\ lineAdd' = 0
    /\ step' = "idle"
    /\ Return("ok")
    /\ UNCHANGED <<loopVars, watched, faults, sendCount, newlines, peerVars, iovVars, wire,
                   stuck>>

-----------------------------------------------------------------------------
(* writev3 *)

EntryBytes(e) ==
    IF e.len < 0 THEN <<tails[e.at]>> ELSE SubSeq(parse, e.at, e.at + e.len - 1)

BatchBytes == FlattenSeq([i \in DOMAIN iov |-> EntryBytes(iov[i])])

Sending == Ingeek /\ hook = "write" /\ step = "send"

Sent(n) ==
    wire' = Append(wire, [conn |-> sock[index], bytes |-> SubSeq(BatchBytes, 1, n)])

\* All of it, to a peer that may have closed already.
SendBatch ==
    /\ Sending
    /\ Sent(Len(BatchBytes))
    /\ iov' = <<>>
    /\ step' = "lines"
    /\ UNCHANGED <<workerVars, sendCount, newlines, peerVars, lineVars, tails, stuck>>

\* Mutant: the connection is kept.
CloseBroken_KeepsIt == UNCHANGED <<sock, watched>>

\* close( p_forward_session->sock )
CloseBroken ==
    /\ sock' = [sock EXCEPT ![index] = 0]
    /\ watched' = watched \ {Sock(sock[index])}

\* An error, or iov_send_timeout is over: some bytes were taken, the connection
\* is closed, the batch is given up, and SendLineBuffer returns 1, which its
\* callers only log.
SendFails ==
    /\ Sending
    /\ \/ Fault
       \/ sock[index] \in gone /\ faults' = faults
    /\ \E n \in 0 .. Len(BatchBytes) - 1 : Sent(n)
    /\ CloseBroken
    /\ iov' = <<>>
    /\ step' = "lines"
    /\ UNCHANGED <<loopVars, hook, accepted, sendCount, newlines, index, conns, gone, disabled,
                   lineVars, tails, stuck>>

-----------------------------------------------------------------------------
(* Events and the end *)

\* OnOutputPluginEvent looks at all connections, whichever the event was for.
CloseGone ==
    /\ Ingeek /\ hook = "onOutput"
    /\ sock' = [p \in Peers |-> IF sock[p] \in gone THEN 0 ELSE sock[p]]
    /\ watched' = watched \ {Sock(c) : c \in gone}
    /\ Return("ok")
    /\ UNCHANGED <<loopVars, faults, sendCount, newlines, step, index, conns, gone, disabled,
                   lineVars, iovVars, wire, stuck>>

\* CleanOutputPluginContext closes the current connection.
CleanIngeek ==
    /\ Ingeek /\ hook = "cleanOutput"
    /\ sock' = [sock EXCEPT ![index] = 0]
    /\ watched' = watched \ {Sock(sock[index])}
    /\ Return("ok")
    /\ UNCHANGED <<loopVars, faults, sendCount, newlines, step, index, conns, gone, disabled,
                   lineVars, iovVars, wire, stuck>>

PeerCloses ==
    /\ Ingeek /\ hook # "exit"
    /\ Fault
    /\ \E p \in Peers :
        /\ sock[p] \notin gone \cup {0}
        /\ gone' = gone \cup {sock[p]}
    /\ UNCHANGED <<loopVars, watched, hook, accepted, sendCount, newlines, step, index, sock, conns,
                   disabled, lineVars, iovVars, wire, stuck>>

IngeekHooks ==
    \/ ConnectAll \/ PassOver \/ Take \/ Refused \/ Accepted \/ NoSocket
    \/ BeginIngeek \/ Combine \/ ForceLine \/ Replace \/ SendLine \/ EndWrite
    \/ SendBatch \/ SendFails \/ CloseGone \/ CleanIngeek

-----------------------------------------------------------------------------
(* Properties *)

\* What WriteOutputPlugin was called with up to now, block by block.
Blocks == IF hook = "write" THEN Append(accepted, block) ELSE accepted
Passed == FlattenSeq(Blocks)

Stream(c) == FlattenSeq([i \in DOMAIN wire |-> IF wire[i].conn = c THEN wire[i].bytes ELSE <<>>])

BlockStart(b) == Min({b[i] : i \in DOMAIN b})

\* The line ends at a newline, and its tail has the number of that newline in the
\* block that brought it; or, with 0, it ends where a block begins.
EndsRight(next, no) ==
    \E b \in {Blocks[k] : k \in DOMAIN Blocks} :
        IF no = 0 THEN b # <<>> /\ next = BlockStart(b)
        ELSE /\ next \in newlines
             /\ \E i \in DOMAIN b : b[i] = next /\ no = Cardinality({j \in 1 .. i : b[j] \in newlines})

\* It begins at the start of the text, behind a newline, or with a block that
\* parse_buffer had no room for behind the rest of the last line.
BeginsRight(i) ==
    \/ i = 1 \/ Passed[i - 1] \in newlines
    \/ \E b \in {Blocks[k] : k \in DOMAIN Blocks} :
        /\ b # <<>> /\ BlockStart(b) = Passed[i]
        /\ Cardinality({j \in 1 .. i - 1 : \A k \in j .. i - 1 : Passed[k] \notin newlines})
              + Len(b) > ParseSize

Tails(s) == {t \in DOMAIN s : s[t] < 0}

\* Where the line before tail t begins.
LineStart(s, t) == Max({u + 1 : u \in {u \in Tails(s) : u < t}} \cup {1})

\* What is from begin to the tail t is a line of the text with its own tail, or
\* an empty line.
LineRight(s, begin, t) ==
    \/ begin = t
    \/ \E i \in {i \in DOMAIN Passed : Passed[i] = s[begin]} :
        /\ \A k \in begin .. t - 1 : s[k] = Passed[i + (k - begin)]
        /\ BeginsRight(i)
        /\ i + (t - begin) \in DOMAIN Passed
        /\ EndsRight(Passed[i + (t - begin)], TailOf(s[t]))

LinesRight(s) == \A t \in Tails(s) : LineRight(s, LineStart(s, t), t)

\* SendLineBuffer: a connection that is open carries whole lines of the text, each
\* followed by its own tail; no line is sent twice or late, on whatever
\* connection; and no entry of iov_array outlives the buffers it points to.  (After
\* a socket could not be made in the middle of a block lines run together.)
LinesWhole ==
    /\ step = "idle" => iov = <<>>
    /\ ~stuck =>
        /\ \A p \in Peers : sock[p] # 0 =>
                LET s == Stream(sock[p]) IN s = <<>> \/ s[Len(s)] < 0
        /\ \A c \in 1 .. conns : LinesRight(Stream(c))
        /\ LET sent == FlattenSeq([i \in DOMAIN wire |-> wire[i].bytes])
           IN  \A i, j \in DOMAIN sent : i < j /\ sent[i] > 0 /\ sent[j] > 0 => sent[i] < sent[j]
=============================================================================
