------------------------------ MODULE TcpForward ------------------------------
(***************************************************************************)
(* src-plugins/logpipe-output-tcp.c in one worker, connected to            *)
(* src-plugins/logpipe-input-tcp.c in the workers of several servers.  A   *)
(* message is a head (magic and file name), blocks, each a length and then *)
(* its data, and a length of 0.  The sender takes the servers in turn,     *)
(* skips those it could not connect to for a while, and when a write fails *)
(* sends the part that failed once more on the next connection.            *)
(*                                                                         *)
(* A connection carries tokens, the units of the code's readn and writen;  *)
(* the last one may be cut off when the connection breaks.  Assumed of the *)
(* contents: no block is empty or fills the input buffer, none begins with *)
(* the magic '@', and the first four bytes of a block or of a head, taken  *)
(* for a length, exceed the input buffer, as those of a text do.           *)
(***************************************************************************)
EXTENDS Naturals, Sequences

CONSTANTS
    Servers,      \* forward_session_count; the servers are 1..Servers
    MaxMessages,  \* bound: messages sent
    MaxBlocks,    \* bound: blocks of one message
    Conns,        \* bound: the names of connections, reused
    MaxFaults     \* bound: faults of the network and of processes

ASSUME ForwardAssumption ==
    /\ Servers \in Nat \ {0} /\ MaxMessages \in Nat /\ MaxBlocks \in Nat
    /\ Conns \subseteq Nat \ {0} /\ MaxFaults \in Nat

VARIABLES
    step,      \* what the sender does next
    resume,    \* and what it does once CheckAndConnectForwardSocket returned
    sock,      \* forward_session_array[s].sock
    disabled,  \* the servers whose enable_timestamp is not 0
    current,   \* forward_session_index + 1: p_forward_session
    msg, blk,  \* the message and its block being sent
    link,      \* what the two ends of each connection have of it
    faults,    \* how many faults there were
    skipped,   \* history: a message was given up without its AfterWrite hook
    begun,     \* history: the messages whose Before hooks a server has called
    got        \* history: the blocks a server has handed to its outputs

senderVars == <<step, resume, sock, disabled, current, msg, blk>>
vars == <<step, resume, sock, disabled, current, msg, blk, link, faults, skipped, begun, got>>

Messages == 1 .. MaxMessages
Server == 1 .. Servers
Token ==
    [kind : {"head", "eob"}, m : Messages, k : {0}, cut : BOOLEAN]
    \cup [kind : {"len", "data"}, m : Messages, k : 1 .. MaxBlocks, cut : BOOLEAN]
Block == [m : Messages, k : 1 .. MaxBlocks, cut : BOOLEAN]

NoSock == 0
NoMessage == 0

\* server: where it leads to, 0 while the name is unused.  pipe: written and
\* not yet read.  up: what is written will arrive.  session: what the server
\* reads next, "queued" before accept, "gone" after RemoveInputPluginSession.
\* reading: the message whose hooks the session is in.
Link ==
    [server : 0 .. Servers, pipe : Seq(Token), up : BOOLEAN,
     session : {"queued", "head", "len", "data", "gone"}, reading : 0 .. MaxMessages]

Unused == [server |-> 0, pipe |-> <<>>, up |-> FALSE, session |-> "gone", reading |-> NoMessage]

Opened(s) == [server |-> s, pipe |-> <<>>, up |-> TRUE, session |-> "queued",
              reading |-> NoMessage]

Init ==
    /\ step = "init" /\ resume = "idle"
    /\ sock = [s \in Server |-> NoSock]
    /\ disabled = {}
    /\ current = 0
    /\ msg = 0 /\ blk = 0
    /\ link = [c \in Conns |-> Unused]
    /\ faults = 0
    /\ skipped = FALSE
    /\ begun = {}
    /\ got = [m \in Messages |-> <<>>]

-----------------------------------------------------------------------------
(* Connections *)

Socks == {sock[s] : s \in Server} \ {NoSock}

\* The sender closes its end: what it wrote can still be read.
Closed(l) == IF l.session = "gone" THEN Unused ELSE [l EXCEPT !.up = FALSE]

\* RemoveInputPluginSession, or the end of the server's worker: what was not
\* read is lost and the sender will be told.  From within a Read hook it frees
\* the session of which WriteAllOutputPlugins then takes the After hook; taken
\* to find none there, as if the memory was still as it was.
Removed(c) ==
    IF c \in Socks
    THEN [link[c] EXCEPT !.pipe = <<>>, !.up = FALSE, !.session = "gone",
                         !.reading = NoMessage]
    ELSE Unused

CutOff(t) == [t EXCEPT !.cut = TRUE]

\* What may be left of q when its connection breaks.
Remains(q) ==
    {SubSeq(q, 1, n) : n \in 0 .. Len(q)}
    \cup {Append(SubSeq(q, 1, n - 1), CutOff(q[n])) : n \in 1 .. Len(q)}

Fault == faults < MaxFaults /\ faults' = faults + 1

-----------------------------------------------------------------------------
(* The sender *)

\* connect succeeds; sock and the epoll event are set.
Connect(s) ==
    \E c \in Conns :
       /\ link[c] = Unused
       /\ \A d \in Conns : link[d] = Unused => c <= d
       /\ link' = [link EXCEPT ![c] = Opened(s)]
       /\ sock' = [sock EXCEPT ![s] = c]

\* Mutant: one server too many.
ServersLeft_OneMore == current + 1 <= Servers

ServersLeft == current + 1 < Servers

\* InitOutputPluginContext connects one server after the other, however long
\* each of them takes, and then asks for the first.
InitConnect ==
    /\ step = "init"
    /\ Connect(current + 1)
    /\ IF ServersLeft
       THEN current' = current + 1 /\ UNCHANGED step
       ELSE current' = 0 /\ step' = "connect"
    /\ UNCHANGED <<resume, disabled, msg, blk, faults, skipped, begun, got>>

NextIndex == IF current < Servers THEN current + 1 ELSE 1

\* One turn of the loop in CheckAndConnectForwardSocket( ... , -1 ).  A server
\* that is disabled is passed over until its time has come.
TryNext ==
    /\ step = "connect"
    /\ current' = NextIndex
    /\ LET s == NextIndex IN
       \/ /\ s \in disabled
          /\ UNCHANGED <<disabled, sock, link, step>>
       \/ /\ sock[s] # NoSock
          /\ disabled' = disabled \ {s}
          /\ step' = resume
          /\ UNCHANGED <<sock, link>>
       \/ /\ sock[s] = NoSock
          /\ Connect(s)
          /\ disabled' = disabled \ {s}
          /\ step' = resume
       \/ /\ sock[s] = NoSock
          /\ disabled' = disabled \cup {s}
          /\ UNCHANGED <<sock, link, step>>
    /\ UNCHANGED <<resume, msg, blk, faults, skipped, begun, got>>

\* socket fails, and with it the hook: what is left of the message is given up
\* on a connection that was closed before.
SocketFails ==
    /\ step = "connect" /\ resume # "idle"
    /\ sock[NextIndex] = NoSock
    /\ current' = NextIndex
    /\ disabled' = disabled \ {NextIndex}
    /\ step' = "idle"
    /\ UNCHANGED <<resume, sock, msg, blk, link, faults, skipped, begun, got>>

\* writen succeeds, whether or not the peer is still there.
Write(t) ==
    LET c == sock[current] IN
    /\ c # NoSock
    /\ link' = [link EXCEPT ![c].pipe = IF link[c].up THEN Append(@, t) ELSE @]
    /\ UNCHANGED <<sock, faults>>

\* writen fails: the connection was down, or breaks now with a part of the
\* token on its way.  The socket is closed.
WriteFails(t) ==
    LET c == sock[current] IN
    /\ c # NoSock
    /\ \/ /\ ~link[c].up
          /\ link' = [link EXCEPT ![c] = Closed(@)]
          /\ UNCHANGED faults
       \/ /\ link[c].up
          /\ Fault
          /\ \E q \in {link[c].pipe, Append(link[c].pipe, CutOff(t))} :
                link' = [link EXCEPT ![c] = Closed([@ EXCEPT !.pipe = q])]
    /\ sock' = [sock EXCEPT ![current] = NoSock]

ThisToken(kind) ==
    [kind |-> kind, m |-> msg, k |-> IF kind \in {"len", "data"} THEN blk + 1 ELSE 0,
     cut |-> FALSE]

\* With b blocks sent the input plugin has another one, or the message ends,
\* by its end or because another plugin returned > 0.
GoesOn(b) ==
    /\ \/ step' = "len" /\ b < MaxBlocks
       \/ step' = "eob"
    /\ UNCHANGED skipped

\* Or another plugin returned < 0 and the input plugin goes on regardless.
GivenUp ==
    /\ step' = "idle"
    /\ skipped' = TRUE

\* WriteAllOutputPlugins starts: BeforeWriteOutputPlugin.
Message ==
    /\ step = "idle"
    /\ msg < MaxMessages
    /\ msg' = msg + 1 /\ blk' = 0
    /\ step' = "connect" /\ resume' = "head"
    /\ UNCHANGED <<sock, disabled, current, link, faults, skipped, begun, got>>

\* The Before hook of a plugin ahead of this one returned > 0, and this one's
\* AfterWriteOutputPlugin is called for a message it never began.
Refused ==
    /\ step = "idle"
    /\ msg < MaxMessages
    /\ Fault
    /\ msg' = msg + 1 /\ blk' = 0
    /\ step' = "eob"
    /\ UNCHANGED <<resume, sock, disabled, current, link, skipped, begun, got>>

\* Mutant: the whole message is sent again.
Again_WholeMessage(part) ==
    /\ step' = "connect" /\ resume' = "head"
    /\ blk' = 0
    /\ UNCHANGED skipped

\* What to do when a write failed: the same part again on the next connection.
Again(part) ==
    /\ step' = "connect" /\ resume' = part
    /\ UNCHANGED <<blk, skipped>>

SendHead ==
    /\ step = "head"
    /\ \/ Write(ThisToken("head")) /\ (GoesOn(0) \/ GivenUp) /\ UNCHANGED <<resume, blk>>
       \/ WriteFails(ThisToken("head")) /\ Again("head")
    /\ UNCHANGED <<disabled, current, msg, begun, got>>

SendLen ==
    /\ step = "len"
    /\ \/ Write(ThisToken("len")) /\ step' = "data" /\ UNCHANGED <<resume, blk, skipped>>
       \/ WriteFails(ThisToken("len")) /\ Again("len")
    /\ UNCHANGED <<disabled, current, msg, begun, got>>

SendData ==
    /\ step = "data"
    /\ \/ /\ Write(ThisToken("data"))
          /\ blk' = blk + 1
          /\ GoesOn(blk + 1) \/ GivenUp
          /\ UNCHANGED resume
       \/ WriteFails(ThisToken("data")) /\ Again("data")
    /\ UNCHANGED <<disabled, current, msg, begun, got>>

\* Mutant: the hook sends nothing.
SendEob_Silent ==
    /\ step = "eob"
    /\ step' = "idle"
    /\ UNCHANGED <<resume, sock, link, faults, disabled, current, msg, blk, skipped, begun, got>>

\* AfterWriteOutputPlugin; nothing is sent without a socket.
SendEob ==
    /\ step = "eob"
    /\ \/ Write(ThisToken("eob"))
       \/ WriteFails(ThisToken("eob"))
       \/ sock[current] = NoSock /\ UNCHANGED <<sock, link, faults>>
    /\ step' = "idle"
    /\ UNCHANGED <<resume, disabled, current, msg, blk, skipped, begun, got>>

\* OnOutputPluginEvent, between messages: closes the connections whose hangup
\* or error is known by now.
OnOutputPluginEvent ==
    /\ step = "idle"
    /\ \E S \in SUBSET {s \in Server : sock[s] # NoSock} \ {{}} :
          /\ \A s \in S : ~link[sock[s]].up
          /\ link' = [c \in Conns |->
                         IF \E s \in S : sock[s] = c THEN Closed(link[c]) ELSE link[c]]
          /\ sock' = [s \in Server |-> IF s \in S THEN NoSock ELSE sock[s]]
    /\ UNCHANGED <<step, resume, disabled, current, msg, blk, faults, skipped, begun, got>>

\* The sender's worker ends, in a message or between two, and another starts.
SenderRestarts ==
    /\ step # "init"
    /\ Fault
    /\ link' = [c \in Conns |-> IF c \in Socks THEN Closed(link[c]) ELSE link[c]]
    /\ sock' = [s \in Server |-> NoSock]
    /\ disabled' = {} /\ current' = 0
    /\ step' = "init" /\ resume' = "idle"
    /\ UNCHANGED <<msg, blk, skipped, begun, got>>

-----------------------------------------------------------------------------
(* The network and the servers' processes *)

Break ==
    /\ Fault
    /\ \E c \in Conns :
          /\ link[c].up
          /\ \E q \in Remains(link[c].pipe) :
                link' = [link EXCEPT ![c].pipe = q, ![c].up = FALSE]
    /\ UNCHANGED <<step, resume, sock, disabled, current, msg, blk, skipped, begun, got>>

ServerRestarts ==
    /\ Fault
    /\ \E s \in Server :
          /\ \E c \in Conns : link[c].server = s /\ link[c].session # "gone"
          /\ link' = [c \in Conns |-> IF link[c].server = s THEN Removed(c) ELSE link[c]]
    /\ UNCHANGED <<step, resume, sock, disabled, current, msg, blk, skipped, begun, got>>

-----------------------------------------------------------------------------
(* The servers: one thread each, which waits inside a message for the rest *)
(* of it, whatever its other sessions have to say.                         *)

Busy(s) == \E c \in Conns : link[c].server = s /\ link[c].session \in {"len", "data"}

\* Mutant: readn goes on waiting at the end of the connection.
AtEnd_Waits(c) == FALSE

\* readn meets the end of the connection; it returns the next token.
AtEnd(c) == link[c].pipe = <<>> /\ ~link[c].up
Readable(c) == link[c].pipe # <<>>
NextToken(c) == Head(link[c].pipe)

RemoveSession(c) == link' = [link EXCEPT ![c] = Removed(c)]

\* The token is read and the session goes on to session s of message m.
Proceed(c, s, m) ==
    link' = [link EXCEPT ![c].pipe = Tail(@), ![c].session = s, ![c].reading = m]

\* OnInputPluginEvent: accept and AddInputPluginSession
Accept(c) ==
    /\ link[c].session = "queued"
    /\ ~Busy(link[c].server)
    /\ link' = [link EXCEPT ![c].session = "head"]
    /\ UNCHANGED <<begun, got>>

\* A whole head begins a message; a head cut off in the file name begins one
\* under a part of it.
Begins(c, t) ==
    /\ t.kind = "head"
    /\ Proceed(c, "len", IF t.cut THEN NoMessage ELSE t.m)
    /\ begun' = IF t.cut \/ skipped THEN begun ELSE begun \cup {t.m}

\* OnInputPluginEvent_accepted_session up to WriteAllOutputPlugins
ReadHead(c) ==
    /\ link[c].session = "head"
    /\ ~Busy(link[c].server)
    /\ \/ AtEnd(c) /\ RemoveSession(c) /\ UNCHANGED begun
       \/ Readable(c) /\ Begins(c, NextToken(c))
       \/ /\ Readable(c)
          /\ NextToken(c).kind # "head" \/ NextToken(c).cut
          /\ RemoveSession(c)
          /\ UNCHANGED begun
    /\ UNCHANGED got

\* Mutant: any number is accepted for a length.
IsLength_Unchecked(t) == t.kind # "eob" \/ t.cut

\* Of a length that was cut off anything may be left.
IsLength(t) == t.kind = "len" \/ t.cut
IsZero(t) == t.kind = "eob" \/ t.cut
TooLong(t) == t.kind \in {"head", "data"} \/ t.cut

\* ReadInputPlugin_accepted_session, the length
ReadLen(c) ==
    /\ link[c].session = "len"
    /\ \/ AtEnd(c) /\ RemoveSession(c)
       \/ /\ Readable(c)
          /\ \/ IsLength(NextToken(c)) /\ Proceed(c, "data", link[c].reading)
             \/ IsZero(NextToken(c)) /\ Proceed(c, "head", NoMessage)
             \/ TooLong(NextToken(c)) /\ RemoveSession(c)
    /\ UNCHANGED <<begun, got>>

Contents(t) == [m |-> t.m, k |-> t.k, cut |-> t.cut]

\* ReadInputPlugin_accepted_session, the data: a short one is passed on too.
ReadData(c) ==
    /\ link[c].session = "data"
    /\ \/ AtEnd(c) /\ RemoveSession(c) /\ UNCHANGED got
       \/ /\ Readable(c)
          /\ Proceed(c, "len", link[c].reading)
          /\ got' = IF link[c].reading = NoMessage \/ skipped THEN got
                    ELSE [got EXCEPT ![link[c].reading] = Append(@, Contents(NextToken(c)))]
    /\ UNCHANGED begun

\* A plugin of the server returns > 0, in a Before hook or for a block: the
\* rest of the message is still to come when the next head is expected.
Rejects(c) ==
    /\ Fault
    /\ Readable(c)
    /\ \/ link[c].session = "head" /\ NextToken(c).kind = "head" /\ ~Busy(link[c].server)
       \/ link[c].session = "data"
    /\ Proceed(c, "head", NoMessage)
    /\ UNCHANGED <<begun, got>>

Read ==
    /\ \E c \in Conns :
          \/ Rejects(c)
          \/ (Accept(c) \/ ReadHead(c) \/ ReadLen(c) \/ ReadData(c)) /\ UNCHANGED faults
    /\ UNCHANGED <<step, resume, sock, disabled, current, msg, blk, skipped>>

-----------------------------------------------------------------------------

Sending == InitConnect \/ TryNext \/ SendHead \/ SendLen \/ SendData \/ SendEob

Next ==
    \/ Sending \/ SocketFails \/ Message \/ Refused \/ OnOutputPluginEvent \/ SenderRestarts
    \/ Break \/ ServerRestarts
    \/ Read

Spec == Init /\ [][Next]_vars

\* Within a message the sender goes on, and the servers read what is there.
FairSpec == Spec /\ WF_vars(Sending) /\ WF_vars(Read)

-----------------------------------------------------------------------------
(* Properties *)

\* The type invariant: the sockets and the index stay within
\* forward_session_array, each connection leads to a server.
TypeOK ==
    /\ step \in {"init", "idle", "connect", "head", "len", "data", "eob"}
    /\ resume \in {"idle", "head", "len", "data"}
    /\ sock \in [Server -> Conns \cup {NoSock}]
    /\ disabled \in SUBSET Server
    /\ current \in 0 .. Servers
    /\ msg \in 0 .. MaxMessages /\ blk \in 0 .. MaxBlocks
    /\ link \in [Conns -> Link]
    /\ faults \in 0 .. MaxFaults
    /\ skipped \in BOOLEAN
    /\ begun \in SUBSET Messages
    /\ got \in [Messages -> Seq(Block)]

\* A server that has accepted a length reads the data it belongs to, or the end
\* of the connection, although lengths and data are sent again separately
\* (_GOTO_WRITEN_BLOCK_LEN, _GOTO_WRITEN_BLOCK) and messages may be given up.
LenThenData ==
    \A c \in Conns :
        link[c].session = "data" /\ link[c].pipe # <<>> => Head(link[c].pipe).kind = "data"

\* The last token written left the message unfinished.
InMessage(l) ==
    IF l.pipe = <<>> THEN l.session \in {"len", "data"}
    ELSE l.pipe[Len(l.pipe)].kind # "eob"

\* No connection is left in the middle of a message but the one the message is
\* being sent on: what is sent next elsewhere starts with a head, and the stray
\* part of a message meets a server that expects one and rejects it.  A message
\* given up without AfterWriteOutputPlugin breaks this.
InStep ==
    ~skipped =>
        \A c \in Conns :
            link[c].up /\ InMessage(link[c]) =>
                c = sock[current] /\ step \in {"len", "data", "eob"}

\* What has become of message m at the far end.
StateOf(m) ==
    IF m \notin begun THEN "new"
    ELSE IF \A c \in Conns : link[c].reading # m THEN "closed"
    ELSE IF got[m] # <<>> /\ got[m][Len(got[m])].cut THEN "torn"
    ELSE "open"

\* The far end as a MessageChannel.
Channel == INSTANCE MessageChannel WITH got <- got, state <- [m \in Messages |-> StateOf(m)]

\* Until a message is given up, the servers together are a MessageChannel: parts
\* sent again after a failover are never taken for the rest of a message.
Forwards == Channel!Spec

\* A server, one thread in a blocking readn, does not wait for ever inside a
\* message: the sender ends it or closes the connection.
Unblocked == \A s \in Server : Busy(s) ~> (~Busy(s) \/ skipped)
=============================================================================
