-------------------------- MODULE TcpForward_proofs --------------------------
(***************************************************************************)
(* What holds of the connections between output-tcp and input-tcp for any  *)
(* number of servers, messages, blocks, connections and faults.            *)
(***************************************************************************)
EXTENDS TcpForward, SequenceTheorems, TLAPS

-----------------------------------------------------------------------------
(* The inductive invariant *)

\* A socket of the array is a connection of its own, to its server.
SocksOK == \A s \in Server : sock[s] # NoSock => link[sock[s]].server = s

\* Where the sender is, or will be when it is connected again.
At(part) == step = part \/ (step = "connect" /\ resume = part)

SenderOK ==
    /\ step = "init" => current < Servers /\ resume = "idle"
    /\ step \in {"idle", "head", "len", "data", "eob"} => current \in Server
    /\ step \in {"head", "len", "data"} => sock[current] # NoSock
    /\ At("head") => msg \in Messages /\ blk = 0
    /\ At("len") \/ At("data") => msg \in Messages /\ blk < MaxBlocks
    /\ step = "eob" => msg \in Messages

\* In a pipe data follows each length, and only its last token may be cut off,
\* when the connection is down.
InOrder(q, up) ==
    \A n \in 1 .. Len(q) :
        /\ q[n].cut => n = Len(q) /\ ~up
        /\ q[n].kind = "len" /\ n < Len(q) => q[n + 1].kind = "data"

StreamOK(l) ==
    /\ InOrder(l.pipe, l.up)
    /\ l.session = "data" /\ l.pipe # <<>> => l.pipe[1].kind = "data"

\* The last thing that went through is a length whose data is still to come.
Owes(l) ==
    l.up /\ IF l.pipe = <<>> THEN l.session = "data" ELSE l.pipe[Len(l.pipe)].kind = "len"

\* Only the current connection can be in that state, and the data is sent next.
DataNext == \A c \in Conns : Owes(link[c]) => step = "data" /\ sock[current] = c

StreamsOK == \A c \in Conns : StreamOK(link[c])

IInv == TypeOK /\ SocksOK /\ SenderOK /\ StreamsOK /\ DataNext

-----------------------------------------------------------------------------
(* What happens to one connection *)

LEMMA UnusedOK ==
    ASSUME NEW s \in Server
    PROVE  /\ Unused \in Link /\ StreamOK(Unused) /\ ~Owes(Unused)
           /\ Opened(s) \in Link /\ StreamOK(Opened(s)) /\ ~Owes(Opened(s))
BY ForwardAssumption
   DEF Unused, Opened, Link, StreamOK, InOrder, Owes, Server, NoMessage

\* The connection goes down with q left of its pipe.
LEMMA BrokenOK ==
    ASSUME NEW l \in Link, NEW q \in Seq(Token), InOrder(q, FALSE),
           l.session = "data" /\ q # <<>> => q[1].kind = "data"
    PROVE  LET r == [l EXCEPT !.pipe = q, !.up = FALSE]
               c == Closed([l EXCEPT !.pipe = q])
           IN  /\ r \in Link /\ StreamOK(r) /\ ~Owes(r) /\ r.server = l.server
               /\ c \in Link /\ StreamOK(c) /\ ~Owes(c)
<1> DEFINE r == [l EXCEPT !.pipe = q, !.up = FALSE]
           c == Closed([l EXCEPT !.pipe = q])
<1>1. r \in Link /\ r.pipe = q /\ r.up = FALSE /\ r.session = l.session /\ r.server = l.server
  BY DEF Link
<1>2. StreamOK(r) /\ ~Owes(r)
  BY <1>1 DEF StreamOK, Owes
<1>3. Unused \in Link /\ StreamOK(Unused) /\ ~Owes(Unused)
  BY ForwardAssumption DEF Unused, Link, StreamOK, InOrder, Owes, NoMessage
<1>4. c = Unused \/ c = r
  BY DEF Closed, Link
<1> QED
  BY <1>1, <1>2, <1>3, <1>4

LEMMA ClosedOK ==
    ASSUME NEW l \in Link, StreamOK(l)
    PROVE  Closed(l) \in Link /\ StreamOK(Closed(l)) /\ ~Owes(Closed(l))
<1> DEFINE r == [l EXCEPT !.up = FALSE]
<1>1. r \in Link /\ r.pipe = l.pipe /\ r.up = FALSE /\ r.session = l.session
  BY DEF Link
<1>2. StreamOK(r) /\ ~Owes(r)
  BY <1>1 DEF StreamOK, InOrder, Owes
<1>3. Unused \in Link /\ StreamOK(Unused) /\ ~Owes(Unused)
  BY ForwardAssumption DEF Unused, Link, StreamOK, InOrder, Owes, NoMessage
<1>4. Closed(l) = Unused \/ Closed(l) = r
  BY DEF Closed
<1> QED
  BY <1>1, <1>2, <1>3, <1>4

LEMMA RemovedOK ==
    ASSUME NEW c \in Conns, link[c] \in Link
    PROVE  /\ Removed(c) \in Link /\ StreamOK(Removed(c)) /\ ~Owes(Removed(c))
           /\ c \in Socks => Removed(c).server = link[c].server
<1> DEFINE r == [link[c] EXCEPT !.pipe = <<>>, !.up = FALSE, !.session = "gone",
                                !.reading = NoMessage]
<1>1. r \in Link /\ r.pipe = <<>> /\ r.up = FALSE /\ r.server = link[c].server
  <2>1. ASSUME NEW l \in Link
        PROVE  LET x == [l EXCEPT !.pipe = <<>>, !.up = FALSE, !.session = "gone",
                                  !.reading = NoMessage]
               IN  x \in Link /\ x.pipe = <<>> /\ x.up = FALSE /\ x.server = l.server
    <3>1. <<>> \in Seq(Token) /\ NoMessage \in 0 .. MaxMessages
      BY ForwardAssumption DEF NoMessage
    <3> QED
      BY <3>1 DEF Link
  <2> QED
    BY <2>1
<1>2. Unused \in Link /\ StreamOK(Unused) /\ ~Owes(Unused)
  BY ForwardAssumption DEF Unused, Link, StreamOK, InOrder, Owes, NoMessage
<1>3. StreamOK(r) /\ ~Owes(r)
  BY <1>1 DEF StreamOK, InOrder, Owes
<1> QED
  BY <1>1, <1>2, <1>3 DEF Removed

\* A token is added to a pipe of whole tokens.
LEMMA InOrderAppend ==
    ASSUME NEW q \in Seq(Token), NEW t \in Token, NEW up \in BOOLEAN,
           \A n \in 1 .. Len(q) : ~q[n].cut,
           \A n \in 1 .. Len(q) : q[n].kind = "len" /\ n < Len(q) => q[n + 1].kind = "data",
           q # <<>> /\ q[Len(q)].kind = "len" => t.kind = "data",
           t.cut => ~up
    PROVE  InOrder(Append(q, t), up)
<1> DEFINE a == Append(q, t)
<1>1. /\ Len(a) = Len(q) + 1 /\ a[Len(q) + 1] = t /\ Len(q) \in Nat
      /\ \A n \in 1 .. Len(q) : a[n] = q[n]
  OBVIOUS
<1> SUFFICES ASSUME NEW n \in 1 .. Len(a)
             PROVE  /\ a[n].cut => n = Len(a) /\ ~up
                    /\ a[n].kind = "len" /\ n < Len(a) => a[n + 1].kind = "data"
  BY DEF InOrder
<1> HIDE DEF a
<1>2. CASE n = Len(a)
  BY <1>1, <1>2
<1>3. CASE n < Len(q)
  <2>1. n \in 1 .. Len(q) /\ n + 1 \in 1 .. Len(q)
    BY <1>1, <1>3
  <2> QED
    BY <1>1, <1>3, <2>1
<1>4. CASE n = Len(q)
  <2>1. n \in 1 .. Len(q) /\ q # <<>>
    BY <1>1, <1>4
  <2> QED
    BY <1>1, <1>4, <2>1
<1> QED
  BY <1>1, <1>2, <1>3, <1>4

\* What StreamOK says of a pipe whose connection is up.
LEMMA UpWhole ==
    ASSUME NEW l \in Link, StreamOK(l), l.up
    PROVE  /\ l.pipe \in Seq(Token)
           /\ \A n \in 1 .. Len(l.pipe) : ~l.pipe[n].cut
           /\ \A n \in 1 .. Len(l.pipe) :
                 l.pipe[n].kind = "len" /\ n < Len(l.pipe) => l.pipe[n + 1].kind = "data"
           /\ l.pipe # <<>> /\ l.pipe[Len(l.pipe)].kind = "len" => Owes(l)
BY DEF Link, StreamOK, InOrder, Owes

\* A token that may follow is written.
LEMMA AppendOK ==
    ASSUME NEW l \in Link, StreamOK(l), l.up, NEW t \in Token, ~t.cut,
           Owes(l) => t.kind = "data"
    PROVE  LET r == [l EXCEPT !.pipe = Append(@, t)]
           IN  r \in Link /\ StreamOK(r) /\ (Owes(r) => t.kind = "len") /\ r.server = l.server
<1> DEFINE r == [l EXCEPT !.pipe = Append(@, t)]
           q == Append(l.pipe, t)
<1>1. /\ l.pipe \in Seq(Token) /\ r \in Link /\ r.pipe = q /\ r.up = l.up
      /\ r.session = l.session /\ r.server = l.server
  <2>1. l.pipe \in Seq(Token) /\ q \in Seq(Token)
    BY DEF Link
  <2>2. r \in Link /\ r.pipe = q /\ r.session = l.session /\ r.server = l.server
    BY <2>1 DEF Link
  <2>3. r.up = l.up
    BY DEF Link
  <2> QED
    BY <2>1, <2>2, <2>3
<1>2. q # <<>> /\ q[Len(q)] = t
  BY <1>1
<1>3. l.up \in BOOLEAN
  BY DEF Link
<1>4. InOrder(q, l.up)
  BY <1>1, <1>3, UpWhole, InOrderAppend
<1>5. l.session = "data" => q[1].kind = "data"
  <2>1. CASE l.pipe = <<>>
    BY <1>1, <2>1 DEF Owes
  <2>2. CASE l.pipe # <<>>
    BY <1>1, <2>2 DEF StreamOK
  <2> QED
    BY <2>1, <2>2
<1>6. StreamOK(r)
  BY <1>1, <1>4, <1>5 DEF StreamOK
<1>7. Owes(r) => t.kind = "len"
  BY <1>1, <1>2 DEF Owes
<1> QED
  BY <1>1, <1>6, <1>7

LEMMA CutOffType == ASSUME NEW t \in Token PROVE CutOff(t) \in Token
BY DEF CutOff, Token

LEMMA CutOffFields ==
    ASSUME NEW t \in Token PROVE CutOff(t).kind = t.kind
BY DEF CutOff, Token

\* A token that may follow is cut off on its way.
LEMMA CutAppendOK ==
    ASSUME NEW l \in Link, StreamOK(l), l.up, NEW t \in Token,
           Owes(l) => t.kind = "data"
    PROVE  LET q == Append(l.pipe, CutOff(t))
           IN  /\ q \in Seq(Token) /\ InOrder(q, FALSE)
               /\ l.session = "data" => q[1].kind = "data"
<1> DEFINE u == CutOff(t)
           q == Append(l.pipe, u)
<1>1. u \in Token /\ u.kind = t.kind
  BY CutOffType, CutOffFields
<1> HIDE DEF u
<1>2. l.pipe \in Seq(Token) /\ q \in Seq(Token)
  BY <1>1 DEF Link
<1>3. InOrder(q, FALSE)
  BY <1>1, UpWhole, InOrderAppend
<1>4. l.session = "data" => q[1].kind = "data"
  <2>1. CASE l.pipe = <<>>
    BY <1>1, <1>2, <2>1 DEF Owes
  <2>2. CASE l.pipe # <<>>
    BY <1>2, <2>2 DEF StreamOK
  <2> QED
    BY <2>1, <2>2
<1> QED
  BY <1>2, <1>3, <1>4 DEF u

\* A connection breaks with a part of its pipe left.
LEMMA RemainsOK ==
    ASSUME NEW l \in Link, StreamOK(l), NEW q \in Remains(l.pipe)
    PROVE  /\ q \in Seq(Token) /\ InOrder(q, FALSE)
           /\ l.session = "data" /\ q # <<>> => q[1].kind = "data"
<1>1. l.pipe \in Seq(Token) /\ Len(l.pipe) \in Nat
  BY DEF Link
<1> DEFINE p == l.pipe
<1>2. /\ \A n \in 1 .. Len(p) : p[n].cut => n = Len(p)
      /\ \A n \in 1 .. Len(p) : p[n].kind = "len" /\ n < Len(p) => p[n + 1].kind = "data"
      /\ l.session = "data" /\ p # <<>> => p[1].kind = "data"
  BY DEF StreamOK, InOrder
<1> HIDE DEF p
<1>3. p \in Seq(Token) /\ Len(p) \in Nat
  BY <1>1 DEF p
<1>4. ASSUME NEW n \in 0 .. Len(p)
      PROVE  LET r == SubSeq(p, 1, n)
             IN  /\ r \in Seq(Token) /\ Len(r) = n /\ \A i \in 1 .. n : r[i] = p[i]
                 /\ InOrder(r, FALSE)
                 /\ l.session = "data" /\ r # <<>> => r[1].kind = "data"
  <2> DEFINE r == SubSeq(p, 1, n)
  <2>1. r \in Seq(Token) /\ Len(r) = n /\ \A i \in 1 .. n : r[i] = p[i]
    BY <1>3
  <2> HIDE DEF r
  <2>2. InOrder(r, FALSE)
    <3> SUFFICES ASSUME NEW i \in 1 .. Len(r)
                 PROVE  /\ r[i].cut => i = Len(r)
                        /\ r[i].kind = "len" /\ i < Len(r) => r[i + 1].kind = "data"
      BY DEF InOrder
    <3>1. i \in 1 .. Len(p) /\ r[i] = p[i]
      BY <1>3, <2>1
    <3>2. r[i].cut => i = Len(r)
      BY <1>2, <1>3, <2>1, <3>1
    <3>3. ASSUME r[i].kind = "len", i < Len(r) PROVE r[i + 1].kind = "data"
      <4>1. i + 1 \in 1 .. n /\ i < Len(p)
        BY <1>3, <2>1, <3>3
      <4> QED
        BY <1>2, <2>1, <3>1, <3>3, <4>1
    <3> QED
      BY <3>2, <3>3
  <2>3. ASSUME l.session = "data", r # <<>> PROVE r[1].kind = "data"
    <3>1. 1 \in 1 .. n /\ p # <<>>
      BY <1>3, <2>1, <2>3
    <3> QED
      BY <1>2, <2>1, <2>3, <3>1
  <2> QED
    BY <2>1, <2>2, <2>3 DEF r
<1>5. ASSUME NEW n \in 1 .. Len(p), q = Append(SubSeq(p, 1, n - 1), CutOff(p[n]))
      PROVE  /\ q \in Seq(Token) /\ InOrder(q, FALSE)
             /\ l.session = "data" /\ q # <<>> => q[1].kind = "data"
  <2> DEFINE r == SubSeq(p, 1, n - 1)
             u == CutOff(p[n])
  <2>1. n - 1 \in 0 .. Len(p)
    BY <1>3
  <2>2. /\ r \in Seq(Token) /\ Len(r) = n - 1 /\ \A i \in 1 .. n - 1 : r[i] = p[i]
        /\ InOrder(r, FALSE)
        /\ l.session = "data" /\ r # <<>> => r[1].kind = "data"
    BY <1>4, <2>1
  <2>3. p[n] \in Token
    BY <1>3
  <2>4. u \in Token /\ u.kind = p[n].kind
    BY <2>3, CutOffType, CutOffFields
  <2>5. q = Append(r, u)
    BY <1>5
  <2> HIDE DEF r, u
  <2>6. \A i \in 1 .. Len(r) : ~r[i].cut
    <3> SUFFICES ASSUME NEW i \in 1 .. Len(r) PROVE ~r[i].cut
      OBVIOUS
    <3>1. i \in 1 .. n - 1 /\ i \in 1 .. Len(p) /\ i # Len(p)
      BY <1>3, <2>2
    <3> QED
      BY <1>2, <2>2, <3>1
  <2>7. \A i \in 1 .. Len(r) : r[i].kind = "len" /\ i < Len(r) => r[i + 1].kind = "data"
    BY <2>2 DEF InOrder
  <2>8. ASSUME r # <<>>, r[Len(r)].kind = "len" PROVE u.kind = "data"
    <3>1. n - 1 \in 1 .. n - 1 /\ n - 1 \in 1 .. Len(p) /\ n - 1 < Len(p) /\ (n - 1) + 1 = n
      BY <1>3, <2>2, <2>8
    <3>2. p[n - 1].kind = "len"
      BY <2>2, <2>8, <3>1
    <3>3. p[(n - 1) + 1].kind = "data"
      BY <1>2, <3>1, <3>2
    <3> QED
      BY <2>4, <3>1, <3>3
  <2>9. q \in Seq(Token) /\ InOrder(q, FALSE)
    <3>1. r \in Seq(Token) /\ u \in Token
      BY <2>2, <2>4
    <3>2. Append(r, u) \in Seq(Token)
      BY <3>1
    <3>3. InOrder(Append(r, u), FALSE)
      BY <3>1, <2>6, <2>7, <2>8, InOrderAppend
    <3> QED
      BY <2>5, <3>2, <3>3
  <2>10. ASSUME l.session = "data" PROVE q[1].kind = "data"
    <3>1. CASE n = 1
      <4>1. r = <<>> /\ p # <<>>
        BY <1>3, <2>2, <3>1
      <4>2. q[1] = u
        BY <2>5, <4>1
      <4> QED
        BY <1>2, <2>4, <2>10, <3>1, <4>1, <4>2
    <3>2. CASE n # 1
      <4>1. r # <<>>
        BY <2>2, <3>2
      <4>2. q[1] = r[1]
        BY <2>2, <2>4, <2>5, <4>1
      <4> QED
        BY <2>2, <2>10, <4>1, <4>2
    <3> QED
      BY <3>1, <3>2
  <2> QED
    BY <2>9, <2>10
<1>6. \/ \E n \in 0 .. Len(p) : q = SubSeq(p, 1, n)
      \/ \E n \in 1 .. Len(p) : q = Append(SubSeq(p, 1, n - 1), CutOff(p[n]))
  BY DEF Remains, p
<1> QED
  BY <1>4, <1>5, <1>6

\* The server reads a token.
LEMMA ReadOK ==
    ASSUME NEW l \in Link, StreamOK(l), l.pipe # <<>>,
           NEW s \in {"head", "len", "data"}, NEW m \in 0 .. MaxMessages,
           s = "data" => l.pipe[1].kind = "len" \/ l.pipe[1].cut
    PROVE  LET r == [l EXCEPT !.pipe = Tail(@), !.session = s, !.reading = m]
           IN  r \in Link /\ StreamOK(r) /\ (Owes(r) => Owes(l)) /\ r.server = l.server
<1> DEFINE r == [l EXCEPT !.pipe = Tail(@), !.session = s, !.reading = m]
           p == l.pipe
           q == Tail(p)
<1>1. p \in Seq(Token) /\ p # <<>> /\ q \in Seq(Token)
  BY DEF Link
<1>2. r \in Link /\ r.pipe = q /\ r.session = s /\ r.server = l.server
  BY <1>1 DEF Link
<1>3. r.up = l.up
  BY DEF Link
<1> HIDE DEF r
<1>4. /\ \A n \in 1 .. Len(p) : p[n].cut => n = Len(p) /\ ~l.up
      /\ \A n \in 1 .. Len(p) : p[n].kind = "len" /\ n < Len(p) => p[n + 1].kind = "data"
  BY DEF StreamOK, InOrder
<1> HIDE DEF p
<1>5. /\ Len(p) \in Nat \ {0} /\ Len(q) = Len(p) - 1
      /\ \A n \in 1 .. Len(q) : q[n] = p[n + 1] /\ n + 1 \in 1 .. Len(p)
  BY <1>1
<1> HIDE DEF q
<1>6. InOrder(q, l.up)
  <2> SUFFICES ASSUME NEW n \in 1 .. Len(q)
               PROVE  /\ q[n].cut => n = Len(q) /\ ~l.up
                      /\ q[n].kind = "len" /\ n < Len(q) => q[n + 1].kind = "data"
    BY DEF InOrder
  <2>1. q[n] = p[n + 1] /\ n + 1 \in 1 .. Len(p)
    BY <1>5
  <2>2. q[n].cut => n = Len(q) /\ ~l.up
    BY <1>4, <1>5, <2>1
  <2>3. ASSUME q[n].kind = "len", n < Len(q) PROVE q[n + 1].kind = "data"
    <3>1. n + 1 \in 1 .. Len(q) /\ n + 1 < Len(p)
      BY <1>5, <2>3
    <3>2. q[n + 1] = p[(n + 1) + 1]
      BY <1>5, <3>1
    <3> QED
      BY <1>4, <2>1, <2>3, <3>1, <3>2
  <2> QED
    BY <2>2, <2>3
<1>7. ASSUME s = "data", q # <<>> PROVE q[1].kind = "data"
  <2>1. 1 \in 1 .. Len(q) /\ 1 \in 1 .. Len(p) /\ 1 < Len(p)
    BY <1>1, <1>5, <1>7
  <2>2. q[1] = p[2]
    BY <1>5, <2>1
  <2>3. p[1].kind = "len"
    BY <1>4, <1>7, <2>1 DEF p
  <2> QED
    BY <1>4, <2>1, <2>2, <2>3
<1>8. StreamOK(r)
  BY <1>2, <1>3, <1>6, <1>7 DEF StreamOK
<1>9. ASSUME Owes(r) PROVE Owes(l)
  <2>1. l.up
    BY <1>3, <1>9 DEF Owes
  <2>2. CASE q = <<>>
    <3>1. s = "data" /\ Len(p) = 1
      BY <1>2, <1>5, <1>9, <2>2 DEF Owes
    <3>2. p[1].kind = "len"
      BY <1>4, <1>5, <2>1, <3>1 DEF p
    <3> QED
      BY <1>1, <2>1, <3>1, <3>2 DEF Owes, p
  <2>3. CASE q # <<>>
    <3>1. q[Len(q)].kind = "len" /\ Len(q) \in 1 .. Len(q)
      BY <1>1, <1>2, <1>5, <1>9, <2>3 DEF Owes
    <3>2. q[Len(q)] = p[Len(p)]
      BY <1>5, <3>1
    <3> QED
      BY <1>1, <2>1, <3>1, <3>2 DEF Owes, p
  <2> QED
    BY <2>2, <2>3
<1> QED
  BY <1>2, <1>8, <1>9 DEF r

-----------------------------------------------------------------------------
(* What happens to the connections *)

LEMMA OneLink ==
    ASSUME link \in [Conns -> Link], StreamsOK, NEW c \in Conns,
           NEW r \in Link, StreamOK(r), link' = [link EXCEPT ![c] = r]
    PROVE  /\ link' \in [Conns -> Link] /\ StreamsOK' /\ link'[c] = r
           /\ \A d \in Conns : d # c => link'[d] = link[d]
BY DEF StreamsOK

\* The socket of a server, if it has one, is a connection.
LEMMA SockConn ==
    ASSUME TypeOK, NEW s \in Server, sock[s] # NoSock
    PROVE  sock[s] \in Conns /\ link[sock[s]] \in Link
BY DEF TypeOK

LEMMA ConnectOK ==
    ASSUME IInv, NEW s \in Server, Connect(s), \A d \in Conns : ~Owes(link[d])
    PROVE  /\ sock' \in [Server -> Conns \cup {NoSock}] /\ link' \in [Conns -> Link]
           /\ SocksOK' /\ StreamsOK' /\ sock'[s] # NoSock
           /\ \A d \in Conns : ~Owes(link'[d])
<1>1. PICK c \in Conns : /\ link[c] = Unused /\ link' = [link EXCEPT ![c] = Opened(s)]
                         /\ sock' = [sock EXCEPT ![s] = c]
  BY DEF Connect
<1>2. /\ link' \in [Conns -> Link] /\ StreamsOK' /\ link'[c] = Opened(s)
      /\ \A d \in Conns : d # c => link'[d] = link[d]
  BY <1>1, UnusedOK, OneLink DEF IInv, TypeOK
<1>3. c # NoSock /\ sock' \in [Server -> Conns \cup {NoSock}] /\ sock'[s] = c
  BY <1>1, ForwardAssumption DEF IInv, TypeOK, NoSock
<1>4. ASSUME NEW z \in Server, sock'[z] # NoSock PROVE link'[sock'[z]].server = z
  <2>1. CASE z = s
    BY <1>2, <1>3, <2>1 DEF Opened
  <2>2. CASE z # s
    <3>1. sock'[z] = sock[z]
      BY <1>1, <2>2 DEF IInv, TypeOK
    <3>2. sock[z] \in Conns /\ link[sock[z]].server = z
      BY <1>4, <3>1, SockConn DEF IInv, SocksOK
    <3>3. sock[z] # c
      BY <1>1, <3>2 DEF Unused, Server
    <3> QED
      BY <1>2, <3>1, <3>2, <3>3
  <2> QED
    BY <2>1, <2>2
<1>5. \A d \in Conns : ~Owes(link'[d])
  BY <1>2, UnusedOK
<1> QED
  BY <1>2, <1>3, <1>4, <1>5 DEF SocksOK

LEMMA WriteOK ==
    ASSUME IInv, current \in Server, NEW t \in Token, ~t.cut, Write(t),
           step # "data" \/ t.kind = "data"
    PROVE  /\ sock[current] # NoSock /\ UNCHANGED <<sock, faults>>
           /\ link' \in [Conns -> Link] /\ SocksOK' /\ StreamsOK'
           /\ \A d \in Conns : Owes(link'[d]) => t.kind = "len" /\ sock[current] = d
<1> DEFINE c == sock[current]
           l == link[c]
           r == [l EXCEPT !.pipe = IF l.up THEN Append(@, t) ELSE @]
<1>1. c # NoSock /\ UNCHANGED <<sock, faults>> /\ link' = [link EXCEPT ![c] = r]
  BY DEF Write
<1>2. c \in Conns /\ l \in Link /\ StreamOK(l)
  BY <1>1, SockConn DEF IInv, StreamsOK
<1>3. Owes(l) => t.kind = "data"
  BY <1>2 DEF IInv, DataNext
<1>4. r \in Link /\ StreamOK(r) /\ (Owes(r) => t.kind = "len") /\ r.server = l.server
  <2>1. CASE l.up
    <3>1. r = [l EXCEPT !.pipe = Append(@, t)]
      BY <2>1
    <3> HIDE DEF r, l
    <3> QED
      BY <1>2, <1>3, <2>1, <3>1, AppendOK DEF l
  <2>2. CASE ~l.up
    <3>1. l.pipe \in Seq(Token)
      BY <1>2 DEF Link
    <3>2. r \in Link /\ r.pipe = l.pipe /\ r.session = l.session /\ r.server = l.server
      BY <1>2, <2>2, <3>1 DEF Link
    <3>3. r.up = l.up
      BY <1>2 DEF Link
    <3> HIDE DEF r
    <3> QED
      BY <1>2, <2>2, <3>2, <3>3 DEF StreamOK, Owes
  <2> QED
    BY <2>1, <2>2
<1> HIDE DEF r
<1>5. /\ link' \in [Conns -> Link] /\ StreamsOK' /\ link'[c] = r
      /\ \A d \in Conns : d # c => link'[d] = link[d]
  BY <1>1, <1>2, <1>4, OneLink DEF IInv, TypeOK
<1>6. SocksOK'
  <2> SUFFICES ASSUME NEW z \in Server, sock[z] # NoSock PROVE link'[sock[z]].server = z
    BY <1>1 DEF SocksOK
  <2>1. sock[z] \in Conns /\ link[sock[z]].server = z
    BY SockConn DEF IInv, SocksOK
  <2> QED
    BY <1>4, <1>5, <2>1
<1>7. ASSUME NEW d \in Conns, Owes(link'[d]) PROVE t.kind = "len" /\ c = d
  <2>1. CASE d = c
    BY <1>4, <1>5, <1>7, <2>1
  <2>2. CASE d # c
    BY <1>5, <1>7, <2>2 DEF IInv, DataNext
  <2> QED
    BY <2>1, <2>2
<1> QED
  BY <1>1, <1>5, <1>6, <1>7

LEMMA FaultOK == ASSUME TypeOK, Fault PROVE faults' \in 0 .. MaxFaults
BY ForwardAssumption DEF TypeOK, Fault

LEMMA WriteFailsOK ==
    ASSUME IInv, current \in Server, NEW t \in Token, WriteFails(t),
           step # "data" \/ t.kind = "data"
    PROVE  /\ sock' \in [Server -> Conns \cup {NoSock}] /\ link' \in [Conns -> Link]
           /\ faults' \in 0 .. MaxFaults
           /\ SocksOK' /\ StreamsOK' /\ \A d \in Conns : ~Owes(link'[d])
<1> DEFINE c == sock[current]
           l == link[c]
<1>1. c # NoSock /\ sock' = [sock EXCEPT ![current] = NoSock]
  BY DEF WriteFails
<1>2. c \in Conns /\ l \in Link /\ StreamOK(l)
  BY <1>1, SockConn DEF IInv, StreamsOK
<1>3. Owes(l) => t.kind = "data"
  BY <1>2 DEF IInv, DataNext
<1>4. l.pipe \in Seq(Token) /\ InOrder(l.pipe, FALSE)
      /\ (l.session = "data" /\ l.pipe # <<>> => l.pipe[1].kind = "data")
  BY <1>2 DEF Link, StreamOK, InOrder
<1>5. /\ faults' \in 0 .. MaxFaults
      /\ \E r \in Link : StreamOK(r) /\ ~Owes(r) /\ link' = [link EXCEPT ![c] = r]
  <2>1. CASE ~l.up /\ link' = [link EXCEPT ![c] = Closed(@)] /\ UNCHANGED faults
    <3>1. Closed(l) \in Link /\ StreamOK(Closed(l)) /\ ~Owes(Closed(l))
      BY <1>2, ClosedOK
    <3>2. link' = [link EXCEPT ![c] = Closed(l)]
      BY <2>1
    <3>3. faults' \in 0 .. MaxFaults
      BY <2>1 DEF IInv, TypeOK
    <3> QED
      BY <3>1, <3>2, <3>3
  <2>2. ASSUME l.up, Fault, NEW q \in {l.pipe, Append(l.pipe, CutOff(t))},
               link' = [link EXCEPT ![c] = Closed([@ EXCEPT !.pipe = q])]
        PROVE  <1>5
    <3> DEFINE r == Closed([l EXCEPT !.pipe = q])
    <3>1. /\ q \in Seq(Token) /\ InOrder(q, FALSE)
          /\ l.session = "data" /\ q # <<>> => q[1].kind = "data"
      <4>1. CASE q = l.pipe
        BY <1>4, <4>1
      <4>2. CASE q = Append(l.pipe, CutOff(t))
        BY <1>2, <1>3, <2>2, <4>2, CutAppendOK
      <4> QED
        BY <2>2, <4>1, <4>2
    <3>2. r \in Link /\ StreamOK(r) /\ ~Owes(r)
      BY <1>2, <3>1, BrokenOK
    <3>3. link' = [link EXCEPT ![c] = r]
      BY <2>2
    <3> HIDE DEF r
    <3>4. faults' \in 0 .. MaxFaults
      BY <2>2, FaultOK DEF IInv
    <3> QED
      BY <3>2, <3>3, <3>4
  <2> QED
    BY <2>1, <2>2 DEF WriteFails
<1>6. PICK r \in Link : StreamOK(r) /\ ~Owes(r) /\ link' = [link EXCEPT ![c] = r]
  BY <1>5
<1>7. /\ link' \in [Conns -> Link] /\ StreamsOK' /\ link'[c] = r
      /\ \A d \in Conns : d # c => link'[d] = link[d]
  BY <1>2, <1>6, OneLink DEF IInv, TypeOK
<1>8. sock' \in [Server -> Conns \cup {NoSock}]
  BY <1>1 DEF IInv, TypeOK
<1>9. ASSUME NEW z \in Server, sock'[z] # NoSock PROVE link'[sock'[z]].server = z
  <2>1. z # current /\ sock'[z] = sock[z]
    BY <1>1, <1>9 DEF IInv, TypeOK
  <2>2. sock[z] \in Conns /\ link[sock[z]].server = z
    BY <1>9, <2>1, SockConn DEF IInv, SocksOK
  <2>3. sock[z] # c
    BY <1>1, <2>1, <2>2 DEF IInv, SocksOK
  <2> QED
    BY <1>7, <2>1, <2>2, <2>3
<1>10. \A d \in Conns : ~Owes(link'[d])
  BY <1>6, <1>7 DEF IInv, DataNext
<1> QED
  BY <1>5, <1>7, <1>8, <1>9, <1>10 DEF SocksOK

-----------------------------------------------------------------------------
(* Every action preserves the invariant. *)

\* A token of the current message.
LEMMA ThisTokenOK ==
    ASSUME NEW kind \in {"head", "len", "data", "eob"}, msg \in Messages,
           kind \in {"len", "data"} => blk \in Nat /\ blk < MaxBlocks
    PROVE  ThisToken(kind) \in Token /\ ThisToken(kind).kind = kind /\ ~ThisToken(kind).cut
BY ForwardAssumption DEF ThisToken, Token

\* The connections, the sockets and the histories as they were.
LEMMA SameLinks ==
    ASSUME IInv, UNCHANGED <<sock, link>>
    PROVE  SocksOK' /\ StreamsOK'
BY DEF IInv, SocksOK, StreamsOK

LEMMA NoneOwes ==
    ASSUME IInv, step # "data" PROVE \A d \in Conns : ~Owes(link[d])
BY DEF IInv, DataNext

LEMMA InitInv == Init => IInv
<1> SUFFICES ASSUME Init PROVE IInv
  OBVIOUS
<1>1. TypeOK
  <2>1. Unused \in Link
    BY ForwardAssumption DEF Unused, Link, NoMessage
  <2>2. got \in [Messages -> Seq(Block)]
    BY DEF Init
  <2>3. sock \in [Server -> Conns \cup {NoSock}] /\ link \in [Conns -> Link]
    BY <2>1 DEF Init
  <2>4. /\ current \in 0 .. Servers /\ msg \in 0 .. MaxMessages /\ blk \in 0 .. MaxBlocks
        /\ faults \in 0 .. MaxFaults
    BY ForwardAssumption DEF Init
  <2>5. disabled \in SUBSET Server /\ begun \in SUBSET Messages /\ skipped \in BOOLEAN
    BY DEF Init
  <2> QED
    BY <2>2, <2>3, <2>4, <2>5 DEF Init, TypeOK
<1>2. SocksOK
  BY DEF Init, SocksOK
<1>3. SenderOK
  BY ForwardAssumption DEF Init, SenderOK, At
<1>4. StreamsOK
  BY DEF Init, StreamsOK, StreamOK, Unused, InOrder
<1>5. DataNext
  BY DEF Init, DataNext, Owes, Unused
<1> QED
  BY <1>1, <1>2, <1>3, <1>4, <1>5 DEF IInv

LEMMA InitConnectInv == IInv /\ InitConnect => IInv'
<1> SUFFICES ASSUME IInv, InitConnect PROVE IInv'
  OBVIOUS
<1>1. step = "init" /\ Connect(current + 1) /\ current + 1 \in Server
  BY ForwardAssumption DEF InitConnect, IInv, TypeOK, SenderOK, Server
<1>2. /\ sock' \in [Server -> Conns \cup {NoSock}] /\ link' \in [Conns -> Link]
      /\ SocksOK' /\ StreamsOK' /\ \A d \in Conns : ~Owes(link'[d])
  BY <1>1, NoneOwes, ConnectOK
<1>3. TypeOK'
  BY <1>1, <1>2, ForwardAssumption DEF InitConnect, ServersLeft, IInv, TypeOK
<1>4. SenderOK'
  <2>1. resume' = "idle" /\ current \in 0 .. Servers
    BY DEF InitConnect, IInv, SenderOK, TypeOK
  <2>2. CASE ServersLeft
    BY <1>1, <2>1, <2>2, ForwardAssumption DEF InitConnect, ServersLeft, SenderOK, At
  <2>3. CASE ~ServersLeft
    BY <1>1, <2>1, <2>3 DEF InitConnect, SenderOK, At
  <2> QED
    BY <2>2, <2>3
<1>5. DataNext'
  BY <1>2 DEF DataNext
<1> QED
  BY <1>2, <1>3, <1>4, <1>5 DEF IInv

LEMMA NextIndexOK == ASSUME current \in 0 .. Servers PROVE NextIndex \in Server
BY ForwardAssumption DEF NextIndex, Server

LEMMA TryNextInv == IInv /\ TryNext => IInv'
<1> SUFFICES ASSUME IInv, TryNext PROVE IInv'
  OBVIOUS
<1> DEFINE s == NextIndex
<1>1. s \in Server /\ s \in 0 .. Servers
  BY NextIndexOK DEF IInv, TypeOK, Server
<1>2. /\ step = "connect" /\ current' = s
      /\ UNCHANGED <<resume, msg, blk, faults, skipped, begun, got>>
  BY DEF TryNext
<1>3. \A d \in Conns : ~Owes(link[d])
  BY <1>2, NoneOwes
<1> HIDE DEF s
<1>4. /\ sock' \in [Server -> Conns \cup {NoSock}] /\ link' \in [Conns -> Link]
      /\ SocksOK' /\ StreamsOK' /\ \A d \in Conns : ~Owes(link'[d])
      /\ disabled' \in SUBSET Server
      /\ step' = "connect" \/ (step' = resume /\ sock'[s] # NoSock)
  <2>1. CASE UNCHANGED <<sock, link>> /\ disabled' \in {disabled, disabled \cup {s}}
             /\ UNCHANGED step
    BY <1>1, <1>2, <1>3, <2>1, SameLinks DEF IInv, TypeOK
  <2>2. CASE sock[s] # NoSock /\ disabled' = disabled \ {s} /\ step' = resume
             /\ UNCHANGED <<sock, link>>
    BY <1>1, <1>2, <1>3, <2>2, SameLinks DEF IInv, TypeOK
  <2>3. CASE Connect(s) /\ disabled' = disabled \ {s} /\ step' = resume
    BY <1>1, <1>2, <1>3, <2>3, ConnectOK DEF IInv, TypeOK
  <2> QED
    BY <2>1, <2>2, <2>3 DEF TryNext, s
<1>5. TypeOK'
  BY <1>1, <1>2, <1>4 DEF IInv, TypeOK
<1>6. SenderOK'
  BY <1>1, <1>2, <1>4 DEF IInv, TypeOK, SenderOK, At
<1>7. DataNext'
  BY <1>4 DEF DataNext
<1> QED
  BY <1>4, <1>5, <1>6, <1>7 DEF IInv

LEMMA SocketFailsInv == IInv /\ SocketFails => IInv'
<1> SUFFICES ASSUME IInv, SocketFails PROVE IInv'
  OBVIOUS
<1>1. current' \in Server /\ current' \in 0 .. Servers /\ faults' \in 0 .. MaxFaults
  BY NextIndexOK DEF SocketFails, IInv, TypeOK, Server
<1>2. TypeOK'
  BY <1>1 DEF SocketFails, IInv, TypeOK
<1>3. SenderOK'
  BY <1>1 DEF SocketFails, SenderOK, At
<1>4. DataNext'
  BY NoneOwes DEF SocketFails, DataNext
<1> QED
  BY <1>2, <1>3, <1>4, SameLinks DEF IInv, SocketFails

LEMMA MessageInv == IInv /\ (Message \/ Refused) => IInv'
<1> SUFFICES ASSUME IInv, Message \/ Refused PROVE IInv'
  OBVIOUS
<1>1. /\ step = "idle" /\ msg' \in Messages /\ msg' \in 0 .. MaxMessages /\ blk' = 0
      /\ UNCHANGED <<sock, disabled, current, link, skipped, begun, got>>
      /\ \/ step' = "eob" /\ UNCHANGED resume
         \/ step' = "connect" /\ resume' = "head"
  BY ForwardAssumption DEF Message, Refused, IInv, TypeOK, Messages
<1>2. faults' \in 0 .. MaxFaults
  BY FaultOK DEF Message, Refused, IInv, TypeOK
<1>3. TypeOK'
  BY <1>1, <1>2, ForwardAssumption DEF IInv, TypeOK
<1>4. SenderOK'
  BY <1>1 DEF IInv, SenderOK, At
<1>5. DataNext'
  BY <1>1, NoneOwes DEF DataNext
<1> QED
  BY <1>1, <1>3, <1>4, <1>5, SameLinks DEF IInv

\* The three hooks send a part of the message, or have to send it again.
LEMMA SendInv == IInv /\ (SendHead \/ SendLen \/ SendData) => IInv'
<1> SUFFICES ASSUME IInv, SendHead \/ SendLen \/ SendData PROVE IInv'
  OBVIOUS
<1> DEFINE t == ThisToken(step)
<1>1. step \in {"head", "len", "data"} /\ UNCHANGED <<disabled, current, msg, begun, got>>
  BY DEF SendHead, SendLen, SendData
<1>2. /\ current \in Server /\ msg \in Messages
      /\ step = "head" => blk = 0
      /\ step \in {"len", "data"} => blk \in Nat /\ blk < MaxBlocks
  BY <1>1, ForwardAssumption DEF IInv, SenderOK, TypeOK, At
<1>3. t \in Token /\ t.kind = step /\ ~t.cut
  BY <1>1, <1>2, ThisTokenOK
<1>4. CASE WriteFails(t) /\ Again(step)
  <2>1. /\ sock' \in [Server -> Conns \cup {NoSock}] /\ link' \in [Conns -> Link]
        /\ faults' \in 0 .. MaxFaults
        /\ SocksOK' /\ StreamsOK' /\ \A d \in Conns : ~Owes(link'[d])
    BY <1>1, <1>2, <1>3, <1>4, WriteFailsOK
  <2>2. step' = "connect" /\ resume' = step /\ UNCHANGED <<blk, skipped>>
    BY <1>4 DEF Again
  <2>3. TypeOK'
    BY <1>1, <2>1, <2>2 DEF IInv, TypeOK
  <2>4. SenderOK'
    BY <1>1, <1>2, <2>2 DEF SenderOK, At
  <2>5. DataNext'
    BY <2>1 DEF DataNext
  <2> QED
    BY <2>1, <2>3, <2>4, <2>5 DEF IInv
<1>5. ASSUME Write(t), UNCHANGED resume, skipped' \in BOOLEAN, blk' \in 0 .. MaxBlocks,
             \/ step = "len" /\ step' = "data" /\ blk' = blk
             \/ step # "len" /\ step' = "len" /\ blk' < MaxBlocks
             \/ step # "len" /\ step' \in {"eob", "idle"}
      PROVE  IInv'
  <2>1. /\ sock[current] # NoSock /\ UNCHANGED <<sock, faults>>
        /\ link' \in [Conns -> Link] /\ SocksOK' /\ StreamsOK'
        /\ \A d \in Conns : Owes(link'[d]) => step = "len" /\ sock[current] = d
    BY <1>1, <1>2, <1>3, <1>5, WriteOK
  <2>2. step' \in {"data", "len", "eob", "idle"}
    BY <1>5
  <2>3. TypeOK'
    BY <1>1, <1>5, <2>1, <2>2 DEF IInv, TypeOK
  <2>4. SenderOK'
    BY <1>1, <1>2, <1>5, <2>1 DEF SenderOK, At
  <2>5. DataNext'
    BY <1>1, <1>5, <2>1 DEF DataNext
  <2> QED
    BY <2>1, <2>3, <2>4, <2>5 DEF IInv
<1>6. \A b : GoesOn(b) \/ GivenUp =>
          /\ skipped' \in BOOLEAN
          /\ (step' = "len" /\ b < MaxBlocks) \/ step' \in {"eob", "idle"}
  BY DEF GoesOn, GivenUp, IInv, TypeOK
<1>7. CASE SendHead
  <2>1. CASE Write(t) /\ (GoesOn(0) \/ GivenUp) /\ UNCHANGED <<resume, blk>>
    <3>1. step = "head" /\ blk' = 0 /\ blk' \in 0 .. MaxBlocks /\ UNCHANGED resume
      BY <1>2, <1>7, <2>1 DEF SendHead, IInv, TypeOK
    <3> QED
      BY <1>5, <1>6, <2>1, <3>1
  <2> QED
    BY <1>4, <1>7, <2>1 DEF SendHead
<1>8. CASE SendLen
  <2>1. CASE Write(t) /\ step' = "data" /\ UNCHANGED <<resume, blk, skipped>>
    <3>1. step = "len" /\ blk' \in 0 .. MaxBlocks /\ skipped' \in BOOLEAN
      BY <1>8, <2>1 DEF SendLen, IInv, TypeOK
    <3> QED
      BY <1>5, <2>1, <3>1
  <2> QED
    BY <1>4, <1>8, <2>1 DEF SendLen
<1>9. CASE SendData
  <2>1. CASE Write(t) /\ blk' = blk + 1 /\ (GoesOn(blk + 1) \/ GivenUp) /\ UNCHANGED resume
    <3>1. step = "data" /\ blk' \in 0 .. MaxBlocks
      BY <1>2, <1>9, <2>1, ForwardAssumption DEF SendData
    <3> QED
      BY <1>5, <1>6, <2>1, <3>1
  <2> QED
    BY <1>4, <1>9, <2>1 DEF SendData
<1> QED
  BY <1>7, <1>8, <1>9

LEMMA SendEobInv == IInv /\ SendEob => IInv'
<1> SUFFICES ASSUME IInv, SendEob PROVE IInv'
  OBVIOUS
<1> DEFINE t == ThisToken("eob")
<1>1. /\ step = "eob" /\ step' = "idle" /\ current \in Server /\ msg \in Messages
      /\ UNCHANGED <<resume, disabled, current, msg, blk, skipped, begun, got>>
  BY DEF SendEob, IInv, SenderOK
<1>2. t \in Token /\ t.kind = "eob" /\ ~t.cut
  BY <1>1, ThisTokenOK
<1>3. /\ sock' \in [Server -> Conns \cup {NoSock}] /\ link' \in [Conns -> Link]
      /\ faults' \in 0 .. MaxFaults
      /\ SocksOK' /\ StreamsOK' /\ \A d \in Conns : ~Owes(link'[d])
  <2>1. CASE Write(t)
    BY <1>1, <1>2, <2>1, WriteOK DEF IInv, TypeOK
  <2>2. CASE WriteFails(t)
    BY <1>1, <1>2, <2>2, WriteFailsOK
  <2>3. CASE UNCHANGED <<sock, link, faults>>
    BY <1>1, <2>3, SameLinks, NoneOwes DEF IInv, TypeOK
  <2> QED
    BY <2>1, <2>2, <2>3 DEF SendEob
<1>4. TypeOK'
  BY <1>1, <1>3 DEF IInv, TypeOK
<1>5. SenderOK'
  BY <1>1 DEF SenderOK, At
<1>6. DataNext'
  BY <1>3 DEF DataNext
<1> QED
  BY <1>3, <1>4, <1>5, <1>6 DEF IInv

\* Some of the sender's connections are closed, with their sockets.
LEMMA ClosingOK ==
    ASSUME IInv, NEW S \in SUBSET Server,
           link' = [c \in Conns |->
                       IF \E s \in S : sock[s] = c THEN Closed(link[c]) ELSE link[c]],
           sock' = [s \in Server |-> IF s \in S THEN NoSock ELSE sock[s]]
    PROVE  /\ sock' \in [Server -> Conns \cup {NoSock}] /\ link' \in [Conns -> Link]
           /\ SocksOK' /\ StreamsOK'
           /\ \A c \in Conns : Owes(link'[c]) => Owes(link[c]) /\ \A s \in S : sock[s] # c
<1>1. \A c \in Conns : link[c] \in Link /\ StreamOK(link[c])
  BY DEF IInv, TypeOK, StreamsOK
<1>2. ASSUME NEW c \in Conns
      PROVE  /\ link'[c] \in Link /\ StreamOK(link'[c])
             /\ Owes(link'[c]) => Owes(link[c]) /\ \A s \in S : sock[s] # c
  BY <1>1, ClosedOK
<1>3. sock' \in [Server -> Conns \cup {NoSock}] /\ link' \in [Conns -> Link]
  BY <1>2 DEF IInv, TypeOK
<1>4. ASSUME NEW z \in Server, sock'[z] # NoSock PROVE link'[sock'[z]].server = z
  <2>1. z \notin S /\ sock'[z] = sock[z]
    BY <1>4
  <2>2. sock[z] \in Conns /\ link[sock[z]].server = z
    BY <1>4, <2>1, SockConn DEF IInv, SocksOK
  <2>3. ASSUME NEW s \in S PROVE sock[s] # sock[z]
    <3>1. sock[s] # NoSock => link[sock[s]].server = s
      BY DEF IInv, SocksOK
    <3> QED
      BY <1>4, <2>1, <2>2, <3>1
  <2> QED
    BY <2>1, <2>2, <2>3
<1> QED
  BY <1>2, <1>3, <1>4 DEF SocksOK, StreamsOK

LEMMA OnOutputPluginEventInv == IInv /\ OnOutputPluginEvent => IInv'
<1> SUFFICES ASSUME IInv, OnOutputPluginEvent PROVE IInv'
  OBVIOUS
<1>1. PICK S \in SUBSET Server :
          /\ link' = [c \in Conns |->
                         IF \E s \in S : sock[s] = c THEN Closed(link[c]) ELSE link[c]]
          /\ sock' = [s \in Server |-> IF s \in S THEN NoSock ELSE sock[s]]
  BY DEF OnOutputPluginEvent
<1>2. /\ sock' \in [Server -> Conns \cup {NoSock}] /\ link' \in [Conns -> Link]
      /\ SocksOK' /\ StreamsOK'
      /\ \A c \in Conns : Owes(link'[c]) => Owes(link[c])
  BY <1>1, ClosingOK
<1>3. /\ step = "idle"
      /\ UNCHANGED <<step, resume, disabled, current, msg, blk, faults, skipped, begun, got>>
  BY DEF OnOutputPluginEvent
<1>4. TypeOK'
  BY <1>2, <1>3 DEF IInv, TypeOK
<1>5. SenderOK'
  BY <1>3 DEF IInv, SenderOK, At
<1>6. DataNext'
  BY <1>2, <1>3, NoneOwes DEF DataNext
<1> QED
  BY <1>2, <1>4, <1>5, <1>6 DEF IInv

LEMMA SenderRestartsInv == IInv /\ SenderRestarts => IInv'
<1> SUFFICES ASSUME IInv, SenderRestarts PROVE IInv'
  OBVIOUS
<1> DEFINE S == {s \in Server : sock[s] # NoSock}
<1>1. /\ link' = [c \in Conns |->
                     IF \E s \in S : sock[s] = c THEN Closed(link[c]) ELSE link[c]]
      /\ sock' = [s \in Server |-> IF s \in S THEN NoSock ELSE sock[s]]
  <2>1. \A c \in Conns : c \in Socks <=> \E s \in S : sock[s] = c
    BY ForwardAssumption DEF Socks, NoSock
  <2>2. sock' = [s \in Server |-> IF s \in S THEN NoSock ELSE sock[s]]
    BY DEF SenderRestarts
  <2> QED
    BY <2>1, <2>2 DEF SenderRestarts
<1>2. /\ sock' \in [Server -> Conns \cup {NoSock}] /\ link' \in [Conns -> Link]
      /\ SocksOK' /\ StreamsOK'
      /\ \A c \in Conns : Owes(link'[c]) => Owes(link[c]) /\ \A s \in S : sock[s] # c
  BY <1>1, ClosingOK
<1>3. ASSUME NEW c \in Conns PROVE ~Owes(link'[c])
  <2>1. Owes(link[c]) => step = "data" /\ sock[current] = c
    BY DEF IInv, DataNext
  <2>2. step = "data" => current \in S
    BY DEF IInv, SenderOK
  <2> QED
    BY <1>2, <2>1, <2>2
<1>4. /\ step' = "init" /\ resume' = "idle" /\ current' = 0 /\ disabled' = {}
      /\ UNCHANGED <<msg, blk, skipped, begun, got>> /\ faults' \in 0 .. MaxFaults
  BY FaultOK DEF SenderRestarts, IInv
<1>5. TypeOK'
  BY <1>2, <1>4, ForwardAssumption DEF IInv, TypeOK
<1>6. SenderOK'
  BY <1>4, ForwardAssumption DEF SenderOK, At
<1>7. DataNext'
  BY <1>3 DEF DataNext
<1> QED
  BY <1>2, <1>5, <1>6, <1>7 DEF IInv

\* A connection changes while the sender does nothing.
LEMMA LinkStepInv ==
    ASSUME IInv, NEW c \in Conns, NEW r \in Link, StreamOK(r), Owes(r) => Owes(link[c]),
           c \in Socks => r.server = link[c].server,
           link' = [link EXCEPT ![c] = r],
           UNCHANGED <<step, resume, sock, disabled, current, msg, blk>>
    PROVE  link' \in [Conns -> Link] /\ SocksOK' /\ SenderOK' /\ StreamsOK' /\ DataNext'
<1>1. /\ link' \in [Conns -> Link] /\ StreamsOK' /\ link'[c] = r
      /\ \A d \in Conns : d # c => link'[d] = link[d]
  BY OneLink DEF IInv, TypeOK
<1>2. ASSUME NEW z \in Server, sock[z] # NoSock PROVE link'[sock[z]].server = z
  <2>1. sock[z] \in Conns /\ link[sock[z]].server = z /\ sock[z] \in Socks
    BY <1>2, SockConn DEF IInv, SocksOK, Socks
  <2> QED
    BY <1>1, <2>1
<1>3. SocksOK'
  BY <1>2 DEF SocksOK
<1>4. SenderOK'
  BY DEF IInv, SenderOK, At
<1>5. DataNext'
  BY <1>1 DEF IInv, DataNext
<1> QED
  BY <1>1, <1>3, <1>4, <1>5

LEMMA BreakInv == IInv /\ Break => IInv'
<1> SUFFICES ASSUME IInv, Break PROVE IInv'
  OBVIOUS
<1>1. PICK c \in Conns : \E q \in Remains(link[c].pipe) :
          link' = [link EXCEPT ![c].pipe = q, ![c].up = FALSE]
  BY DEF Break
<1>2. PICK q \in Remains(link[c].pipe) : link' = [link EXCEPT ![c].pipe = q, ![c].up = FALSE]
  BY <1>1
<1> DEFINE l == link[c]
           r == [l EXCEPT !.pipe = q, !.up = FALSE]
<1>3. l \in Link /\ StreamOK(l)
  BY DEF IInv, TypeOK, StreamsOK
<1>4. /\ q \in Seq(Token) /\ InOrder(q, FALSE)
      /\ l.session = "data" /\ q # <<>> => q[1].kind = "data"
  BY <1>3, RemainsOK
<1>5. r \in Link /\ StreamOK(r) /\ ~Owes(r) /\ r.server = l.server
  BY <1>3, <1>4, BrokenOK
<1>6. link' = [link EXCEPT ![c] = r]
  BY <1>2 DEF IInv, TypeOK
<1> HIDE DEF r
<1>7. UNCHANGED <<step, resume, sock, disabled, current, msg, blk, skipped, begun, got>>
  BY DEF Break
<1>8. link' \in [Conns -> Link] /\ SocksOK' /\ SenderOK' /\ StreamsOK' /\ DataNext'
  BY <1>5, <1>6, <1>7, LinkStepInv
<1>9. TypeOK'
  BY <1>7, <1>8, FaultOK DEF Break, IInv, TypeOK
<1> QED
  BY <1>8, <1>9 DEF IInv

LEMMA ServerRestartsInv == IInv /\ ServerRestarts => IInv'
<1> SUFFICES ASSUME IInv, ServerRestarts PROVE IInv'
  OBVIOUS
<1>1. PICK s \in Server :
          link' = [c \in Conns |-> IF link[c].server = s THEN Removed(c) ELSE link[c]]
  BY DEF ServerRestarts
<1>2. UNCHANGED <<step, resume, sock, disabled, current, msg, blk, skipped, begun, got>>
  BY DEF ServerRestarts
<1>3. ASSUME NEW c \in Conns
      PROVE  /\ link'[c] \in Link /\ StreamOK(link'[c]) /\ (Owes(link'[c]) => Owes(link[c]))
             /\ c \in Socks => link'[c].server = link[c].server
  BY <1>1, RemovedOK DEF IInv, TypeOK, StreamsOK
<1>4. link' \in [Conns -> Link]
  BY <1>1, <1>3
<1>5. ASSUME NEW z \in Server, sock[z] # NoSock PROVE link'[sock[z]].server = z
  <2>1. sock[z] \in Conns /\ link[sock[z]].server = z /\ sock[z] \in Socks
    BY <1>5, SockConn DEF IInv, SocksOK, Socks
  <2> QED
    BY <1>3, <2>1
<1>6. SocksOK' /\ StreamsOK'
  BY <1>2, <1>3, <1>5 DEF SocksOK, StreamsOK
<1>7. SenderOK'
  BY <1>2 DEF IInv, SenderOK, At
<1>8. DataNext'
  BY <1>2, <1>3 DEF IInv, DataNext
<1>9. TypeOK'
  BY <1>2, <1>4, FaultOK DEF ServerRestarts, IInv, TypeOK
<1> QED
  BY <1>6, <1>7, <1>8, <1>9 DEF IInv

\* One step of a server at connection c.
LEMMA ReadInv == IInv /\ Read => IInv'
<1> SUFFICES ASSUME IInv, Read PROVE IInv'
  OBVIOUS
<1>1. UNCHANGED <<step, resume, sock, disabled, current, msg, blk, skipped>>
  BY DEF Read
<1>2. PICK c \in Conns :
          \/ Rejects(c)
          \/ (Accept(c) \/ ReadHead(c) \/ ReadLen(c) \/ ReadData(c)) /\ UNCHANGED faults
  BY DEF Read
<1> DEFINE l == link[c]
<1>3. l \in Link /\ StreamOK(l) /\ l.pipe \in Seq(Token)
  BY DEF IInv, TypeOK, StreamsOK, Link
<1>4. faults' \in 0 .. MaxFaults
  BY <1>2, FaultOK DEF Rejects, IInv, TypeOK
<1>5. ASSUME NEW r \in Link, StreamOK(r), Owes(r) => Owes(l),
             c \in Socks => r.server = l.server, link' = [link EXCEPT ![c] = r],
             begun' \in SUBSET Messages, got' \in [Messages -> Seq(Block)]
      PROVE  IInv'
  <2>1. link' \in [Conns -> Link] /\ SocksOK' /\ SenderOK' /\ StreamsOK' /\ DataNext'
    BY <1>1, <1>5, LinkStepInv
  <2>2. TypeOK'
    BY <1>1, <1>4, <1>5, <2>1 DEF IInv, TypeOK
  <2> QED
    BY <2>1, <2>2 DEF IInv
<1>6. begun \in SUBSET Messages /\ got \in [Messages -> Seq(Block)]
  BY DEF IInv, TypeOK
<1>7. ASSUME RemoveSession(c), UNCHANGED <<begun, got>> PROVE IInv'
  <2>1. /\ Removed(c) \in Link /\ StreamOK(Removed(c)) /\ ~Owes(Removed(c))
        /\ c \in Socks => Removed(c).server = l.server
    BY <1>3, RemovedOK
  <2> QED
    BY <1>5, <1>6, <1>7, <2>1 DEF RemoveSession
<1>8. ASSUME NEW s \in {"head", "len", "data"}, NEW m \in 0 .. MaxMessages,
             Readable(c), Proceed(c, s, m),
             s = "data" => NextToken(c).kind = "len" \/ NextToken(c).cut,
             begun' \in SUBSET Messages, got' \in [Messages -> Seq(Block)]
      PROVE  IInv'
  <2> DEFINE r == [l EXCEPT !.pipe = Tail(@), !.session = s, !.reading = m]
  <2>1. l.pipe # <<>> /\ NextToken(c) = l.pipe[1]
    BY <1>3, <1>8 DEF Readable, NextToken
  <2>2. r \in Link /\ StreamOK(r) /\ (Owes(r) => Owes(l)) /\ r.server = l.server
    <3>1. s = "data" => l.pipe[1].kind = "len" \/ l.pipe[1].cut
      BY <1>8, <2>1
    <3>2. s \in {"head", "len", "data"} /\ m \in 0 .. MaxMessages
      BY <1>8
    <3> HIDE DEF l
    <3> QED
      BY <1>3, <2>1, <3>1, <3>2, ReadOK
  <2>3. link' = [link EXCEPT ![c] = r]
    BY <1>8 DEF Proceed, IInv, TypeOK
  <2> HIDE DEF r
  <2> QED
    BY <1>5, <1>8, <2>2, <2>3
<1>9. Readable(c) => NextToken(c) \in Token
  BY <1>3 DEF Readable, NextToken
<1>10. NoMessage \in 0 .. MaxMessages /\ l.reading \in 0 .. MaxMessages
  BY <1>3, ForwardAssumption DEF NoMessage, Link
<1>11. CASE Rejects(c)
  BY <1>6, <1>8, <1>10, <1>11 DEF Rejects
<1>12. CASE Accept(c)
  <2> DEFINE r == [l EXCEPT !.session = "head"]
  <2>1. link' = [link EXCEPT ![c] = r] /\ l.session = "queued" /\ UNCHANGED <<begun, got>>
    BY <1>12 DEF Accept, IInv, TypeOK
  <2>2. r \in Link /\ r.pipe = l.pipe /\ r.session = "head" /\ r.server = l.server
    BY <1>3 DEF Link
  <2>3. r.up = l.up
    BY <1>3 DEF Link
  <2> HIDE DEF r
  <2>4. StreamOK(r) /\ (Owes(r) => Owes(l))
    BY <1>3, <2>1, <2>2, <2>3 DEF StreamOK, Owes
  <2> QED
    BY <1>5, <1>6, <2>1, <2>2, <2>4
<1>13. CASE ReadHead(c)
  <2>1. CASE RemoveSession(c) /\ UNCHANGED begun
    BY <1>7, <1>13, <2>1 DEF ReadHead
  <2>2. CASE Readable(c) /\ Begins(c, NextToken(c))
    <3> DEFINE t == NextToken(c)
               m == IF t.cut THEN NoMessage ELSE t.m
    <3>1. t.m \in Messages /\ m \in 0 .. MaxMessages
      BY <1>9, <1>10, <2>2 DEF Token, Messages
    <3>2. Proceed(c, "len", m) /\ begun' \in SUBSET Messages /\ UNCHANGED got
      BY <1>6, <1>13, <2>2, <3>1 DEF Begins, ReadHead
    <3> HIDE DEF m
    <3> QED
      BY <1>6, <1>8, <2>2, <3>1, <3>2
  <2> QED
    BY <1>13, <2>1, <2>2 DEF ReadHead
<1>14. CASE ReadLen(c)
  <2>1. CASE RemoveSession(c)
    BY <1>7, <1>14, <2>1 DEF ReadLen
  <2>2. CASE Readable(c) /\ IsLength(NextToken(c)) /\ Proceed(c, "data", l.reading)
    BY <1>6, <1>8, <1>10, <1>14, <2>2 DEF ReadLen, IsLength
  <2>3. CASE Readable(c) /\ Proceed(c, "head", NoMessage)
    BY <1>6, <1>8, <1>10, <1>14, <2>3 DEF ReadLen
  <2> QED
    BY <1>14, <2>1, <2>2, <2>3 DEF ReadLen
<1>15. CASE ReadData(c)
  <2>1. CASE RemoveSession(c) /\ UNCHANGED got
    BY <1>7, <1>15, <2>1 DEF ReadData
  <2>2. CASE Readable(c) /\ ~(RemoveSession(c) /\ UNCHANGED got)
    <3> DEFINE t == NextToken(c)
    <3>1. Proceed(c, "len", l.reading) /\ l.session = "data" /\ UNCHANGED begun
      BY <1>15, <2>2 DEF ReadData
    <3>2. t \in Token /\ t = l.pipe[1] /\ l.pipe # <<>>
      BY <1>3, <1>9, <2>2 DEF Readable, NextToken
    <3>3. t.kind = "data"
      BY <1>3, <3>1, <3>2 DEF StreamOK
    <3>4. Contents(t) \in Block
      BY <3>2, <3>3 DEF Token, Contents, Block
    <3>5. got' \in [Messages -> Seq(Block)]
      <4>1. CASE l.reading = NoMessage \/ skipped
        BY <1>6, <1>15, <2>2, <4>1 DEF ReadData
      <4>2. CASE ~(l.reading = NoMessage \/ skipped)
        <5>1. l.reading \in Messages
          BY <1>10, <4>2 DEF Messages, NoMessage
        <5>2. got' = [got EXCEPT ![l.reading] = Append(@, Contents(t))]
          BY <1>15, <2>2, <4>2 DEF ReadData
        <5>3. Append(got[l.reading], Contents(t)) \in Seq(Block)
          BY <1>6, <3>4, <5>1
        <5> QED
          BY <1>6, <5>1, <5>2, <5>3
      <4> QED
        BY <4>1, <4>2
    <3> QED
      BY <1>6, <1>8, <1>10, <2>2, <3>1, <3>5
  <2> QED
    BY <1>15, <2>1, <2>2 DEF ReadData
<1> QED
  BY <1>2, <1>11, <1>12, <1>13, <1>14, <1>15

-----------------------------------------------------------------------------
(* The theorems *)

LEMMA InvStep == IInv /\ [Next]_vars => IInv'
<1> SUFFICES ASSUME IInv, [Next]_vars PROVE IInv'
  OBVIOUS
<1>1. CASE UNCHANGED vars
  <2>1. TypeOK'
    BY <1>1 DEF vars, IInv, TypeOK
  <2>2. SenderOK'
    BY <1>1 DEF vars, IInv, SenderOK, At
  <2>3. SocksOK' /\ StreamsOK' /\ DataNext'
    BY <1>1 DEF vars, IInv, SocksOK, StreamsOK, DataNext
  <2> QED
    BY <2>1, <2>2, <2>3 DEF IInv
<1>2. CASE Sending
  BY <1>2, InitConnectInv, TryNextInv, SendInv, SendEobInv DEF Sending
<1>3. CASE SocketFails \/ Message \/ Refused \/ OnOutputPluginEvent \/ SenderRestarts
  BY <1>3, SocketFailsInv, MessageInv, OnOutputPluginEventInv, SenderRestartsInv
<1>4. CASE Break \/ ServerRestarts \/ Read
  BY <1>4, BreakInv, ServerRestartsInv, ReadInv
<1> QED
  BY <1>1, <1>2, <1>3, <1>4 DEF Next

LEMMA Invariant == Spec => []IInv
BY InitInv, InvStep, PTL DEF Spec

\* The sender's array of sockets, its index, the connections and the servers'
\* sessions keep their types, for any number of servers, messages and faults.
THEOREM TypeCorrect == Spec => []TypeOK
<1>1. IInv => TypeOK
  BY DEF IInv
<1> QED
  BY <1>1, Invariant, PTL

\* However often a length or a block is sent again by itself on another
\* connection, whatever is cut off, and although a message may be given up
\* without its AfterWriteOutputPlugin: a server that has accepted a length in
\* ReadInputPlugin_accepted_session never reads anything but data for it.
THEOREM LengthThenData == Spec => []LenThenData
<1>1. IInv => LenThenData
  <2> SUFFICES ASSUME IInv, NEW c \in Conns, link[c].session = "data", link[c].pipe # <<>>
               PROVE  Head(link[c].pipe).kind = "data"
    BY DEF LenThenData
  <2>1. link[c].pipe \in Seq(Token) /\ link[c].pipe[1].kind = "data"
    BY DEF IInv, TypeOK, StreamsOK, StreamOK, Link
  <2> QED
    BY <2>1
<1> QED
  BY <1>1, Invariant, PTL

-----------------------------------------------------------------------------
(* Where a message is left *)

\* What is written next on l will be taken for a part of the message before it.
Middle(l) == l.up /\ InMessage(l)

Outside == \A c \in Conns : ~Middle(link[c])

LEMMA NotMiddle ==
    /\ ~Middle(Unused)
    /\ \A s \in Server : ~Middle(Opened(s))
    /\ \A l \in Link : ~Middle(Closed(l))
    /\ \A c \in Conns : link[c] \in Link => ~Middle(Removed(c))
<1>1. ~Middle(Unused) /\ \A s \in Server : ~Middle(Opened(s))
  BY DEF Middle, InMessage, Unused, Opened
<1>2. ASSUME NEW l \in Link PROVE [l EXCEPT !.up = FALSE].up = FALSE
  BY DEF Link
<1>3. ASSUME NEW l \in Link
      PROVE  [l EXCEPT !.pipe = <<>>, !.up = FALSE, !.session = "gone",
                       !.reading = NoMessage].up = FALSE
  BY DEF Link
<1> QED
  BY <1>1, <1>2, <1>3 DEF Middle, Closed, Removed

\* Reading a token leaves no pipe in the middle that was not.
LEMMA ReadMiddle ==
    ASSUME NEW l \in Link, StreamOK(l), l.pipe # <<>>,
           NEW s \in {"head", "len", "data"}, NEW m \in 0 .. MaxMessages,
           s # "head" => l.pipe[1].kind # "eob" \/ l.pipe[1].cut,
           Middle([l EXCEPT !.pipe = Tail(@), !.session = s, !.reading = m])
    PROVE  Middle(l)
<1> DEFINE r == [l EXCEPT !.pipe = Tail(@), !.session = s, !.reading = m]
           p == l.pipe
           q == Tail(p)
<1>1. p \in Seq(Token) /\ p # <<>> /\ q \in Seq(Token)
  BY DEF Link
<1>2. r.pipe = q /\ r.session = s
  BY <1>1 DEF Link
<1>3. r.up = l.up
  BY DEF Link
<1> HIDE DEF r
<1>4. l.up /\ InMessage(r)
  BY <1>3 DEF Middle, r
<1>5. \A n \in 1 .. Len(p) : ~p[n].cut
  BY <1>4 DEF StreamOK, InOrder
<1>6. p[Len(p)].kind # "eob"
  <2>1. CASE q = <<>>
    <3>1. Len(p) \in Nat \ {0} /\ Len(q) = Len(p) - 1 /\ Len(q) = 0
      <4> HIDE DEF p
      <4>1. p \in Seq(Token) /\ p # <<>>
        BY <1>1
      <4>2. Len(p) \in Nat \ {0} /\ Len(q) = Len(p) - 1
        BY <4>1
      <4> QED
        BY <2>1, <4>2
    <3>2. s # "head"
      BY <1>2, <1>4, <2>1 DEF InMessage
    <3>3. Len(p) = 1 /\ 1 \in 1 .. Len(p)
      BY <3>1
    <3> QED
      BY <1>5, <3>2, <3>3 DEF p
  <2>2. CASE q # <<>>
    <3>1. q[Len(q)] = p[Len(p)]
      BY <1>1, <2>2
    <3> QED
      BY <1>2, <1>4, <2>2, <3>1 DEF InMessage
  <2> QED
    BY <2>1, <2>2
<1> QED
  BY <1>1, <1>4, <1>6 DEF Middle, InMessage

LEMMA ConnectMiddle ==
    ASSUME IInv, NEW s \in Server, Connect(s), Outside PROVE Outside'
<1>1. PICK c \in Conns : link' = [link EXCEPT ![c] = Opened(s)]
  BY DEF Connect
<1>2. \A d \in Conns : link'[d] = IF d = c THEN Opened(s) ELSE link[d]
  BY <1>1 DEF IInv, TypeOK
<1> QED
  BY <1>2, NotMiddle DEF Outside

\* Only the connection a token was written to can be in the middle because of it,
\* and not when the token was the end of the message.
LEMMA WriteMiddle ==
    ASSUME IInv, current \in Server, NEW t \in Token, Write(t),
           NEW d \in Conns, Middle(link'[d])
    PROVE  /\ sock' = sock
           /\ IF d = sock[current] THEN t.kind # "eob" ELSE Middle(link[d])
<1> DEFINE c == sock[current]
           l == link[c]
           r == [l EXCEPT !.pipe = IF l.up THEN Append(@, t) ELSE @]
<1>1. c # NoSock /\ sock' = sock /\ link' = [link EXCEPT ![c] = r]
  BY DEF Write
<1>2. c \in Conns /\ l \in Link
  BY <1>1, SockConn DEF IInv
<1>3. link'[d] = IF d = c THEN r ELSE link[d]
  BY <1>1 DEF IInv, TypeOK
<1>4. ASSUME d = c PROVE t.kind # "eob"
  <2>1. Middle(r)
    BY <1>3, <1>4
  <2>2. r.up = l.up
    BY <1>2 DEF Link
  <2>3. l.up /\ l.pipe \in Seq(Token)
    BY <1>2, <2>1, <2>2 DEF Middle, Link
  <2>4. r.pipe = Append(l.pipe, t)
    BY <1>2, <2>3 DEF Link
  <2> HIDE DEF r, l
  <2>5. r.pipe # <<>> /\ r.pipe[Len(r.pipe)] = t
    BY <2>3, <2>4
  <2> QED
    BY <2>1, <2>5 DEF Middle, InMessage
<1> QED
  BY <1>1, <1>3, <1>4

\* A connection that failed is closed.
LEMMA WriteFailsMiddle ==
    ASSUME IInv, current \in Server, NEW t \in Token, WriteFails(t),
           NEW d \in Conns, Middle(link'[d])
    PROVE  d # sock[current] /\ Middle(link[d])
<1> DEFINE c == sock[current]
           l == link[c]
<1>1. c # NoSock /\ c \in Conns /\ l \in Link /\ l.pipe \in Seq(Token)
  BY SockConn DEF WriteFails, IInv, Link
<1>2. \E x \in Link : link' = [link EXCEPT ![c] = Closed(x)]
  <2>1. CASE link' = [link EXCEPT ![c] = Closed(@)]
    BY <1>1, <2>1
  <2>2. ASSUME NEW q \in {l.pipe, Append(l.pipe, CutOff(t))},
               link' = [link EXCEPT ![c] = Closed([@ EXCEPT !.pipe = q])]
        PROVE  <1>2
    <3>1. q \in Seq(Token)
      BY <1>1, CutOffType
    <3>2. [l EXCEPT !.pipe = q] \in Link
      BY <1>1, <3>1 DEF Link
    <3> QED
      BY <2>2, <3>2
  <2> QED
    BY <2>1, <2>2 DEF WriteFails
<1>3. PICK x \in Link : link' = [link EXCEPT ![c] = Closed(x)]
  BY <1>2
<1>4. link'[d] = IF d = c THEN Closed(x) ELSE link[d]
  BY <1>3 DEF IInv, TypeOK
<1> QED
  BY <1>4, NotMiddle

-----------------------------------------------------------------------------
(* No message is left in the middle *)

\* InStep, said of the states in which no message was given up.
LEMMA InStepMeans ==
    /\ InStep <=> (~skipped => \A c \in Conns : Middle(link[c]) =>
                      c = sock[current] /\ step \in {"len", "data", "eob"})
    /\ Outside => InStep
BY DEF InStep, Middle, Outside

LEMMA OutsideStart ==
    ASSUME InStep, ~skipped, step \notin {"len", "data", "eob"} PROVE Outside
BY DEF InStep, Middle, Outside

\* The steps that find the sender at the start of a message, or looking for the
\* connection the next part goes to, leave it there.
LEMMA StartsOutside ==
    ASSUME IInv, Outside,
           InitConnect \/ TryNext \/ SocketFails \/ Message \/ Refused
    PROVE  Outside'
<1>1. CASE UNCHANGED link
  BY <1>1 DEF Outside, Middle, InMessage
<1>2. ASSUME NEW s \in Server, Connect(s) PROVE Outside'
  BY <1>2, ConnectMiddle
<1>3. CASE InitConnect
  <2>1. current + 1 \in Server
    BY <1>3, ForwardAssumption DEF InitConnect, IInv, TypeOK, SenderOK, Server
  <2> QED
    BY <1>2, <1>3, <2>1 DEF InitConnect
<1>4. CASE TryNext
  <2>1. NextIndex \in Server
    BY NextIndexOK DEF IInv, TypeOK
  <2> QED
    BY <1>1, <1>2, <1>4, <2>1 DEF TryNext
<1>5. CASE SocketFails \/ Message \/ Refused
  BY <1>1, <1>5 DEF SocketFails, Message, Refused
<1> QED
  BY <1>3, <1>4, <1>5

LEMMA SendInStep ==
    ASSUME IInv, InStep, SendHead \/ SendLen \/ SendData PROVE InStep'
<1> SUFFICES ASSUME ~skipped', NEW d \in Conns, Middle(link'[d])
             PROVE  d = sock'[current'] /\ step' \in {"len", "data", "eob"}
  BY DEF InStep, Middle, InMessage
<1> DEFINE t == ThisToken(step)
<1>1. /\ step \in {"head", "len", "data"} /\ current' = current /\ current \in Server
      /\ msg \in Messages
      /\ step \in {"len", "data"} => blk \in Nat /\ blk < MaxBlocks
  BY ForwardAssumption DEF SendHead, SendLen, SendData, IInv, SenderOK, TypeOK, At
<1>2. t \in Token
  BY <1>1, ThisTokenOK
<1>3. ~skipped
  BY DEF SendHead, SendLen, SendData, GoesOn, GivenUp, Again
<1>4. Middle(link[d]) => d = sock[current]
  BY <1>3, InStepMeans
<1>5. ~WriteFails(t)
  BY <1>1, <1>2, <1>4, WriteFailsMiddle
<1>6. Write(t)
  BY <1>5 DEF SendHead, SendLen, SendData
<1>7. d = sock'[current']
  BY <1>1, <1>2, <1>4, <1>6, WriteMiddle
<1>8. step' \in {"len", "data", "eob"}
  BY <1>5 DEF SendHead, SendLen, SendData, GoesOn, GivenUp
<1> QED
  BY <1>7, <1>8

\* The end of the message takes its connection out of it.
LEMMA SendEobOutside ==
    ASSUME IInv, InStep, ~skipped, SendEob PROVE Outside'
<1> SUFFICES ASSUME NEW d \in Conns, Middle(link'[d]) PROVE FALSE
  BY DEF Outside, Middle, InMessage
<1> DEFINE t == ThisToken("eob")
<1>1. current \in Server /\ msg \in Messages
  BY DEF SendEob, IInv, SenderOK
<1>2. t \in Token /\ t.kind = "eob"
  BY <1>1, ThisTokenOK
<1>3. Middle(link[d]) => d = sock[current]
  BY InStepMeans
<1>4. ~Write(t) /\ ~WriteFails(t)
  BY <1>1, <1>2, <1>3, WriteMiddle, WriteFailsMiddle
<1>5. sock[current] = NoSock /\ link' = link
  BY <1>4 DEF SendEob
<1> QED
  BY <1>3, <1>5, ForwardAssumption DEF NoSock

LEMMA ClosingOutside ==
    ASSUME IInv, InStep, ~skipped, OnOutputPluginEvent \/ SenderRestarts PROVE Outside'
<1>1. \A c \in Conns : link[c] \in Link
  BY DEF IInv, TypeOK
<1>2. CASE OnOutputPluginEvent
  <2>1. Outside
    BY <1>2, OutsideStart DEF OnOutputPluginEvent
  <2>2. \A c \in Conns : link'[c] = Closed(link[c]) \/ link'[c] = link[c]
    BY <1>2 DEF OnOutputPluginEvent
  <2> QED
    BY <1>1, <2>1, <2>2, NotMiddle DEF Outside
<1>3. CASE SenderRestarts
  <2>1. \A c \in Conns : link'[c] = IF c \in Socks THEN Closed(link[c]) ELSE link[c]
    BY <1>3 DEF SenderRestarts
  <2>2. ASSUME NEW c \in Conns, Middle(link[c]) PROVE c \in Socks
    <3>1. c = sock[current] /\ step \in {"len", "data", "eob"}
      BY <2>2, InStepMeans
    <3>2. current \in Server /\ c # NoSock
      BY <3>1, ForwardAssumption DEF IInv, SenderOK, NoSock
    <3> QED
      BY <3>1, <3>2 DEF Socks
  <2> QED
    BY <1>1, <2>1, <2>2, NotMiddle DEF Outside
<1> QED
  BY <1>2, <1>3

\* What a server or the network does takes no connection into the middle.
LEMMA OthersMiddle ==
    ASSUME IInv, Break \/ ServerRestarts \/ Read, NEW d \in Conns, Middle(link'[d])
    PROVE  Middle(link[d])
<1>1. /\ link[d] \in Link /\ StreamOK(link[d]) /\ link[d].pipe \in Seq(Token)
      /\ link \in [Conns -> Link]
  BY DEF IInv, TypeOK, StreamsOK, Link
<1>2. CASE Break
  <2>1. PICK c \in Conns : \E q \in Remains(link[c].pipe) :
            link' = [link EXCEPT ![c].pipe = q, ![c].up = FALSE]
    BY <1>2 DEF Break
  <2>2. link'[d].up = FALSE \/ link'[d] = link[d]
    BY <1>1, <2>1 DEF Link
  <2> QED
    BY <2>2 DEF Middle
<1>3. CASE ServerRestarts
  BY <1>1, <1>3, NotMiddle DEF ServerRestarts
<1>4. CASE Read
  <2>1. PICK c \in Conns : Rejects(c) \/ Accept(c) \/ ReadHead(c) \/ ReadLen(c) \/ ReadData(c)
    BY <1>4 DEF Read
  <2> DEFINE l == link[c]
             NotEob == l.pipe[1].kind # "eob" \/ l.pipe[1].cut
  <2>2. l \in Link /\ StreamOK(l) /\ (l.pipe # <<>> => NextToken(c) = l.pipe[1])
    BY <1>1 DEF IInv, StreamsOK, Link, NextToken
  <2>3. d # c => link'[d] = link[d]
    BY <1>1, <2>1 DEF Rejects, Accept, ReadHead, ReadLen, ReadData, Begins, Proceed,
                      RemoveSession
  <2>4. ASSUME d = c, RemoveSession(c) PROVE FALSE
    <3>1. link'[c] = Removed(c)
      BY <1>1, <2>4 DEF RemoveSession
    <3> QED
      BY <2>2, <2>4, <3>1, NotMiddle
  <2>5. ASSUME d = c, Readable(c), NEW s \in {"head", "len", "data"},
               NEW m \in 0 .. MaxMessages, Proceed(c, s, m), (s # "head" => NotEob)
        PROVE  Middle(l)
    <3>1. link'[c] = [l EXCEPT !.pipe = Tail(@), !.session = s, !.reading = m]
      BY <1>1, <2>5 DEF Proceed
    <3>2. l.pipe # <<>>
      BY <2>5 DEF Readable
    <3>3. Middle([l EXCEPT !.pipe = Tail(@), !.session = s, !.reading = m])
      BY <2>5, <3>1
    <3>4. s # "head" => l.pipe[1].kind # "eob" \/ l.pipe[1].cut
      BY <2>5
    <3> HIDE DEF l
    <3> QED
      BY <2>2, <2>5, <3>2, <3>3, <3>4, ReadMiddle
  <2>6. NoMessage \in 0 .. MaxMessages /\ l.reading \in 0 .. MaxMessages
    BY <2>2, ForwardAssumption DEF NoMessage, Link
  <2>7. Readable(c) => NextToken(c) = l.pipe[1] /\ NextToken(c) \in Token
    BY <1>1, <2>2 DEF Readable, Link
  <2>8. CASE d = c /\ Rejects(c)
    BY <2>5, <2>6, <2>8 DEF Rejects
  <2>9. CASE d = c /\ Accept(c)
    <3>1. link'[c] = [l EXCEPT !.session = "head"] /\ l.session = "queued"
      BY <1>1, <2>9 DEF Accept
    <3>2. link'[c].up = l.up /\ link'[c].pipe = l.pipe /\ link'[c].session = "head"
      BY <2>2, <3>1 DEF Link
    <3> QED
      BY <2>9, <3>2 DEF Middle, InMessage
  <2>10. CASE d = c /\ ReadHead(c)
    <3>1. CASE Readable(c) /\ Begins(c, NextToken(c))
      <4> DEFINE t == NextToken(c)
                 m == IF t.cut THEN NoMessage ELSE t.m
      <4>1. NotEob /\ Proceed(c, "len", m)
        BY <2>7, <3>1 DEF Begins
      <4>2. m \in 0 .. MaxMessages
        BY <2>6, <2>7, <3>1 DEF Token, Messages
      <4> HIDE DEF m
      <4> QED
        BY <2>5, <2>10, <3>1, <4>1, <4>2
    <3> QED
      BY <2>4, <2>10, <3>1 DEF ReadHead
  <2>11. CASE d = c /\ ReadLen(c)
    <3>1. CASE Readable(c) /\ IsLength(NextToken(c)) /\ Proceed(c, "data", l.reading)
      <4>1. NotEob
        BY <2>7, <3>1 DEF IsLength
      <4> QED
        BY <2>5, <2>6, <2>11, <3>1, <4>1
    <3>2. CASE Readable(c) /\ Proceed(c, "head", NoMessage)
      BY <2>5, <2>6, <2>11, <3>2
    <3> QED
      BY <2>4, <2>11, <3>1, <3>2 DEF ReadLen
  <2>12. CASE d = c /\ ReadData(c)
    <3>1. CASE Readable(c) /\ Proceed(c, "len", l.reading)
      <4>1. NotEob
        BY <2>2, <2>7, <2>12, <3>1 DEF ReadData, StreamOK, Readable
      <4> QED
        BY <2>5, <2>6, <2>12, <3>1, <4>1
    <3> QED
      BY <2>4, <2>12, <3>1 DEF ReadData
  <2> QED
    BY <2>1, <2>3, <2>8, <2>9, <2>10, <2>11, <2>12
<1> QED
  BY <1>2, <1>3, <1>4

LEMMA InStepStep == IInv /\ InStep /\ [Next]_vars => InStep'
<1> SUFFICES ASSUME IInv, InStep, [Next]_vars PROVE InStep'
  OBVIOUS
<1>1. CASE UNCHANGED vars
  BY <1>1 DEF vars, InStep, InMessage
<1>2. ASSUME ~skipped, Outside' PROVE InStep'
  BY <1>2 DEF InStep, Outside, Middle, InMessage
<1>3. CASE InitConnect \/ TryNext \/ SocketFails \/ Message \/ Refused
  <2>1. step \notin {"len", "data", "eob"} /\ skipped' = skipped
    BY <1>3 DEF InitConnect, TryNext, SocketFails, Message, Refused
  <2>2. CASE skipped
    BY <2>1, <2>2 DEF InStep
  <2>3. CASE ~skipped
    BY <1>2, <1>3, <2>1, <2>3, OutsideStart, StartsOutside
  <2> QED
    BY <2>2, <2>3
<1>4. CASE SendHead \/ SendLen \/ SendData
  BY <1>4, SendInStep
<1>5. CASE SendEob \/ OnOutputPluginEvent \/ SenderRestarts
  <2>1. CASE skipped
    BY <1>5, <2>1 DEF InStep, SendEob, OnOutputPluginEvent, SenderRestarts
  <2> QED
    BY <1>2, <1>5, <2>1, SendEobOutside, ClosingOutside
<1>6. CASE Break \/ ServerRestarts \/ Read
  <2>1. UNCHANGED <<skipped, sock, current, step>>
    BY <1>6 DEF Break, ServerRestarts, Read
  <2> SUFFICES ASSUME ~skipped, NEW d \in Conns, Middle(link'[d])
               PROVE  d = sock[current] /\ step \in {"len", "data", "eob"}
    BY <2>1 DEF InStep, Middle, InMessage
  <2> QED
    BY <1>6, OthersMiddle, InStepMeans
<1> QED
  BY <1>1, <1>3, <1>4, <1>5, <1>6 DEF Next, Sending

\* While no message was given up without its AfterWriteOutputPlugin, no
\* connection but the current one is left inside a message, and that one only
\* while the message is being sent, however its parts moved from server to
\* server: a part sent again elsewhere always meets a server that wants a head.
THEOREM InStepAlways == Spec => []InStep
<1>1. Init => InStep
  BY DEF Init, InStep, Unused
<1> QED
  BY <1>1, InStepStep, Invariant, PTL DEF Spec

-----------------------------------------------------------------------------
(* The refinement of MessageChannel: the inductive invariant *)

\* A session is in the hooks of a message only between the head and its end.
HooksOK ==
    \A c \in Conns : link[c].session \notin {"len", "data"} => link[c].reading = NoMessage

InHooks(l) == l.session \in {"len", "data"}

\* A server is in one message at a time.
OneBusy ==
    \A c, d \in Conns :
        InHooks(link[c]) /\ InHooks(link[d]) /\ link[c].server = link[d].server => c = d

IsHead(t, m) == t.kind = "head" /\ ~t.cut /\ t.m = m

HeadIn(q, m) == \E n \in 1 .. Len(q) : IsHead(q[n], m)

OneHead(q) ==
    \A m \in Messages : \A i, j \in 1 .. Len(q) : IsHead(q[i], m) /\ IsHead(q[j], m) => i = j

\* Message m has a whole head on l or is being read from it.
Carries(l, m) == l.reading = m \/ HeadIn(l.pipe, m)

\* The head of message m may have been written.
Sent(m) == m < msg \/ (m = msg /\ ~At("head"))

\* The whole head of a message is written once, and read once.
HeadsOK ==
    /\ \A m \in begun : Sent(m)
    /\ \A m \in Messages \ begun : got[m] = <<>>
    /\ \A c \in Conns : OneHead(link[c].pipe)
    /\ \A m \in Messages : \A c \in Conns :
          /\ Carries(link[c], m) => Sent(m)
          /\ HeadIn(link[c].pipe, m) => m \notin begun /\ link[c].reading # m
          /\ \A d \in Conns : Carries(link[c], m) /\ Carries(link[d], m) => c = d

\* What is written after token t on the same connection.
Follows(t, u) ==
    /\ t.kind = "len" => u.kind = "data" /\ u.m = t.m /\ u.k = t.k
    /\ t.kind \in {"head", "data"} =>
          u.kind = "eob" \/ (u.kind = "len" /\ u.m = t.m /\ u.k = t.k + 1)

\* What session l read last, when the outputs have had the blocks g.
Behind(l, g) ==
    IF l.session = "data"
    THEN [kind |-> "len", m |-> l.reading, k |-> Len(g[l.reading]) + 1]
    ELSE [kind |-> "data", m |-> l.reading, k |-> Len(g[l.reading])]

\* Token t may come next on l: nothing else is expected by the session, or by
\* what is already in the pipe.
Continues(l, g, t) ==
    IF l.pipe = <<>> THEN l.reading # NoMessage => Follows(Behind(l, g), t)
    ELSE Follows(l.pipe[Len(l.pipe)], t)

Stream(l, g) ==
    /\ l.pipe # <<>> /\ l.reading # NoMessage => Follows(Behind(l, g), l.pipe[1])
    /\ \A n \in 1 .. Len(l.pipe) : n < Len(l.pipe) => Follows(l.pipe[n], l.pipe[n + 1])

Torn(g, m) == g[m] # <<>> /\ g[m][Len(g[m])].cut

LinkFlow(l, g, b) ==
    /\ Stream(l, g)
    /\ l.reading # NoMessage => l.reading \in b
    /\ l.reading # NoMessage /\ Torn(g, l.reading) => l.pipe = <<>> /\ ~l.up

\* Until a message is given up, each pipe goes on where the outputs are, and the
\* sender where the pipe ends.
Flow == ~skipped => \A c \in Conns : LinkFlow(link[c], got, begun)

Ready ==
    ~skipped =>
        \A c \in Conns :
            Middle(link[c]) => Continues(link[c], got, ThisToken(step))

JInv == IInv /\ InStep /\ HooksOK /\ OneBusy /\ HeadsOK /\ Flow /\ Ready

-----------------------------------------------------------------------------
(* The heads of a pipe *)

\* Every whole head of q2 is one of q, and they are in the same places of both.
Fewer(q2, q) ==
    \E o \in {0, 1} : \A i \in 1 .. Len(q2) : \A m \in Messages :
        IsHead(q2[i], m) => i + o \in 1 .. Len(q) /\ IsHead(q[i + o], m)

LEMMA FewerMeans ==
    ASSUME NEW q \in Seq(Token), NEW q2 \in Seq(Token), Fewer(q2, q)
    PROVE  /\ \A m \in Messages : HeadIn(q2, m) => HeadIn(q, m)
           /\ OneHead(q) => OneHead(q2)
<1>1. PICK o \in {0, 1} : \A i \in 1 .. Len(q2) : \A m \in Messages :
          IsHead(q2[i], m) => i + o \in 1 .. Len(q) /\ IsHead(q[i + o], m)
  BY DEF Fewer
<1>2. ASSUME NEW m \in Messages, HeadIn(q2, m) PROVE HeadIn(q, m)
  BY <1>1, <1>2 DEF HeadIn
<1>3. ASSUME OneHead(q), NEW m \in Messages, NEW i \in 1 .. Len(q2), NEW j \in 1 .. Len(q2),
             IsHead(q2[i], m), IsHead(q2[j], m)
      PROVE  i = j
  <2>1. i + o = j + o
    BY <1>1, <1>3 DEF OneHead
  <2> QED
    BY <2>1
<1> QED
  BY <1>2, <1>3 DEF OneHead

LEMMA FewerCases ==
    ASSUME NEW q \in Seq(Token)
    PROVE  /\ Fewer(<<>>, q) /\ Fewer(q, q)
           /\ q # <<>> => Fewer(Tail(q), q)
           /\ \A t \in Token : t.cut \/ t.kind # "head" => Fewer(Append(q, t), q)
<1>1. Fewer(<<>>, q)
  BY DEF Fewer
<1>2. Fewer(q, q)
  <2>1. \A i \in 1 .. Len(q) : i + 0 = i
    OBVIOUS
  <2> QED
    BY <2>1 DEF Fewer
<1>3. ASSUME q # <<>> PROVE Fewer(Tail(q), q)
  <2>1. \A i \in 1 .. Len(Tail(q)) : i + 1 \in 1 .. Len(q) /\ Tail(q)[i] = q[i + 1]
    BY <1>3
  <2> QED
    BY <2>1 DEF Fewer
<1>4. ASSUME NEW t \in Token, t.cut \/ t.kind # "head" PROVE Fewer(Append(q, t), q)
  <2> DEFINE a == Append(q, t)
  <2>1. \A i \in 1 .. Len(a) : (i \in 1 .. Len(q) /\ i + 0 = i /\ a[i] = q[i]) \/ a[i] = t
    OBVIOUS
  <2>2. \A m \in Messages : ~IsHead(t, m)
    BY <1>4 DEF IsHead
  <2> HIDE DEF a
  <2>3. \A i \in 1 .. Len(a) : \A m \in Messages :
            IsHead(a[i], m) => i + 0 \in 1 .. Len(q) /\ IsHead(q[i + 0], m)
    BY <2>1, <2>2
  <2>4. Fewer(a, q)
    BY <2>3 DEF Fewer
  <2> QED
    BY <2>4 DEF a
<1> QED
  BY <1>1, <1>2, <1>3, <1>4

\* A part of a pipe, its last token perhaps cut off: what it has in each place.
LEMMA RemainsPlaces ==
    ASSUME NEW p \in Seq(Token), NEW q \in Remains(p)
    PROVE  /\ q \in Seq(Token) /\ Len(q) \in 0 .. Len(p)
           /\ \A n \in 1 .. Len(q) : q[n] = p[n] \/ q[n] = CutOff(p[n])
<1>1. CASE \E n \in 0 .. Len(p) : q = SubSeq(p, 1, n)
  BY <1>1
<1>2. CASE \E n \in 1 .. Len(p) : q = Append(SubSeq(p, 1, n - 1), CutOff(p[n]))
  <2>1. PICK n \in 1 .. Len(p) : q = Append(SubSeq(p, 1, n - 1), CutOff(p[n]))
    BY <1>2
  <2> DEFINE r == SubSeq(p, 1, n - 1)
             u == CutOff(p[n])
  <2>2. r \in Seq(Token) /\ Len(r) = n - 1 /\ \A i \in 1 .. n - 1 : r[i] = p[i]
    OBVIOUS
  <2>3. p[n] \in Token
    OBVIOUS
  <2>4. u \in Token
    BY <2>3, CutOffType
  <2>5. q = Append(r, u) /\ (u = CutOff(p[n]))
    BY <2>1
  <2> HIDE DEF r, u
  <2>6. Len(q) = n /\ q \in Seq(Token)
    BY <2>2, <2>4, <2>5
  <2>7. q[n] = u
    BY <2>2, <2>4, <2>5
  <2>8. \A i \in 1 .. n - 1 : q[i] = p[i]
    BY <2>2, <2>4, <2>5
  <2> QED
    BY <2>5, <2>6, <2>7, <2>8
<1> QED
  BY <1>1, <1>2 DEF Remains

LEMMA CutOffAlike ==
    ASSUME NEW t \in Token
    PROVE  /\ CutOff(t).kind = t.kind /\ CutOff(t).m = t.m /\ CutOff(t).k = t.k
           /\ CutOff(t).cut
BY DEF CutOff, Token

LEMMA FewerRemains ==
    ASSUME NEW p \in Seq(Token), NEW q \in Remains(p) PROVE Fewer(q, p)
<1>1. Len(q) \in 0 .. Len(p) /\ \A n \in 1 .. Len(q) : q[n] = p[n] \/ q[n] = CutOff(p[n])
  BY RemainsPlaces
<1>2. ASSUME NEW i \in 1 .. Len(q), NEW m \in Messages, IsHead(q[i], m)
      PROVE  i + 0 \in 1 .. Len(p) /\ IsHead(p[i + 0], m)
  <2>1. i \in 1 .. Len(p) /\ i + 0 = i /\ p[i] \in Token
    BY <1>1
  <2>2. q[i] = p[i]
    BY <1>1, <1>2, <2>1, CutOffAlike DEF IsHead
  <2> QED
    BY <1>2, <2>1, <2>2
<1> QED
  BY <1>2 DEF Fewer

-----------------------------------------------------------------------------
(* What a connection has still to say *)

\* A token and what is left of it are followed by the same.
LEMMA FollowsCut ==
    ASSUME NEW t \in Token, NEW u
    PROVE  /\ Follows(u, CutOff(t)) <=> Follows(u, t)
           /\ Follows(CutOff(t), u) <=> Follows(t, u)
BY CutOffAlike DEF Follows

\* Nothing is asked of a connection nothing is in.
LEMMA FlowEmpty ==
    ASSUME NEW l \in Link, l.pipe = <<>>, l.reading = NoMessage, NEW g, NEW b
    PROVE  LinkFlow(l, g, b)
BY DEF LinkFlow, Stream

\* A connection goes down.
LEMMA FlowDown ==
    ASSUME NEW l \in Link, NEW g, NEW b, LinkFlow(l, g, b)
    PROVE  LinkFlow([l EXCEPT !.up = FALSE], g, b)
<1> DEFINE r == [l EXCEPT !.up = FALSE]
<1>1. r.pipe = l.pipe /\ r.session = l.session /\ r.reading = l.reading /\ ~r.up
  BY DEF Link
<1> QED
  BY <1>1 DEF LinkFlow, Stream, Behind

LEMMA FlowClosed ==
    ASSUME NEW l \in Link, NEW g, NEW b, LinkFlow(l, g, b)
    PROVE  LinkFlow(Closed(l), g, b)
<1>1. Unused \in Link /\ LinkFlow(Unused, g, b)
  BY ForwardAssumption DEF Unused, Link, NoMessage, LinkFlow, Stream
<1> QED
  BY <1>1, FlowDown DEF Closed

\* A token that may come next is added, whole or not.
LEMMA FlowAppend ==
    ASSUME NEW l \in Link, NEW g, NEW b, LinkFlow(l, g, b), l.up,
           NEW t \in Token, Continues(l, g, t), NEW u \in {t, CutOff(t)}
    PROVE  LinkFlow([l EXCEPT !.pipe = Append(@, u)], g, b)
<1> DEFINE r == [l EXCEPT !.pipe = Append(@, u)]
           q == Append(l.pipe, u)
<1>1. u \in Token /\ l.pipe \in Seq(Token) /\ q \in Seq(Token)
  BY CutOffType DEF Link
<1>2. r.pipe = q /\ r.session = l.session /\ r.reading = l.reading
  BY <1>1 DEF Link
<1>3. Continues(l, g, u)
  BY FollowsCut DEF Continues
<1> HIDE DEF r
<1>4. /\ Len(q) = Len(l.pipe) + 1 /\ q[Len(q)] = u /\ Len(l.pipe) \in Nat
      /\ \A n \in 1 .. Len(l.pipe) : q[n] = l.pipe[n]
      /\ q # <<>>
  BY <1>1
<1> HIDE DEF q
<1>5. ASSUME l.reading # NoMessage PROVE Follows(Behind(l, g), q[1])
  <2>1. CASE l.pipe = <<>>
    <3>1. q[1] = u
      BY <1>4, <2>1
    <3> QED
      BY <1>3, <1>5, <2>1, <3>1 DEF Continues
  <2>2. CASE l.pipe # <<>>
    <3>1. q[1] = l.pipe[1]
      BY <1>1, <1>4, <2>2
    <3> QED
      BY <1>5, <2>2, <3>1 DEF LinkFlow, Stream
  <2> QED
    BY <2>1, <2>2
<1>6. ASSUME NEW n \in 1 .. Len(q), n < Len(q) PROVE Follows(q[n], q[n + 1])
  <2>1. CASE n = Len(l.pipe)
    <3>1. l.pipe # <<>> /\ q[n] = l.pipe[n] /\ q[n + 1] = u
      BY <1>4, <2>1
    <3> QED
      BY <1>3, <2>1, <3>1 DEF Continues
  <2>2. CASE n # Len(l.pipe)
    <3>1. n \in 1 .. Len(l.pipe) /\ n < Len(l.pipe) /\ n + 1 \in 1 .. Len(l.pipe)
      BY <1>4, <1>6, <2>2
    <3> QED
      BY <1>4, <3>1 DEF LinkFlow, Stream
  <2> QED
    BY <2>1, <2>2
<1>7. Stream(r, g)
  BY <1>2, <1>5, <1>6 DEF Stream, Behind
<1> QED
  BY <1>2, <1>7 DEF LinkFlow, r

\* A connection breaks with a part of its pipe left.
LEMMA FlowRemains ==
    ASSUME NEW l \in Link, NEW g, NEW b, LinkFlow(l, g, b), l.up, NEW q \in Remains(l.pipe)
    PROVE  LinkFlow([l EXCEPT !.pipe = q, !.up = FALSE], g, b)
<1> DEFINE r == [l EXCEPT !.pipe = q, !.up = FALSE]
           p == l.pipe
<1>1. p \in Seq(Token)
  BY DEF Link
<1>2. /\ q \in Seq(Token) /\ Len(q) \in 0 .. Len(p)
      /\ \A n \in 1 .. Len(q) : q[n] = p[n] \/ q[n] = CutOff(p[n])
  BY <1>1, RemainsPlaces
<1>3. r.pipe = q /\ r.session = l.session /\ r.reading = l.reading
  BY <1>2 DEF Link
<1>4. /\ p # <<>> /\ l.reading # NoMessage => Follows(Behind(l, g), p[1])
      /\ \A n \in 1 .. Len(p) : n < Len(p) => Follows(p[n], p[n + 1])
  BY DEF LinkFlow, Stream
<1>5. ~(l.reading # NoMessage /\ Torn(g, l.reading)) /\ (l.reading # NoMessage => l.reading \in b)
  BY DEF LinkFlow
<1> HIDE DEF p, r
<1>6. ASSUME q # <<>>, l.reading # NoMessage PROVE Follows(Behind(l, g), q[1])
  <2>1. p # <<>> /\ 1 \in 1 .. Len(q) /\ p[1] \in Token
    BY <1>1, <1>2, <1>6
  <2> QED
    BY <1>2, <1>4, <1>6, <2>1, FollowsCut
<1>7. ASSUME NEW n \in 1 .. Len(q), n < Len(q) PROVE Follows(q[n], q[n + 1])
  <2>1. n \in 1 .. Len(p) /\ n < Len(p) /\ n + 1 \in 1 .. Len(q) /\ n + 1 \in 1 .. Len(p)
    BY <1>1, <1>2, <1>7
  <2>2. p[n] \in Token /\ p[n + 1] \in Token /\ Follows(p[n], p[n + 1])
    BY <1>1, <1>4, <2>1
  <2> QED
    BY <1>2, <2>1, <2>2, FollowsCut
<1>8. Stream(r, g)
  BY <1>3, <1>6, <1>7 DEF Stream, Behind
<1> QED
  BY <1>3, <1>5, <1>8 DEF LinkFlow, r

\* A token is read, and its session is behind what it read.
LEMMA StreamRead ==
    ASSUME NEW l \in Link, StreamOK(l), NEW g, NEW b, LinkFlow(l, g, b), l.pipe # <<>>,
           NEW r, NEW g2, r.pipe = Tail(l.pipe),
           r.reading # NoMessage /\ ~l.pipe[1].cut =>
               \A u \in Token : Follows(l.pipe[1], u) => Follows(Behind(r, g2), u)
    PROVE  /\ Stream(r, g2)
           /\ l.up => \A u \in Token : Continues(l, g, u) => Continues(r, g2, u)
<1> DEFINE p == l.pipe
           q == Tail(p)
           m == r.reading
<1>1. p \in Seq(Token) /\ p # <<>> /\ q \in Seq(Token)
  BY DEF Link
<1>2. r.pipe = q
  OBVIOUS
<1>3. /\ \A n \in 1 .. Len(p) : n < Len(p) => Follows(p[n], p[n + 1])
      /\ \A n \in 1 .. Len(p) : p[n].cut => n = Len(p) /\ ~l.up
  BY DEF LinkFlow, Stream, StreamOK, InOrder
<1>4. m # NoMessage /\ ~p[1].cut => \A u \in Token : Follows(p[1], u) => Follows(Behind(r, g2), u)
  OBVIOUS
<1> HIDE DEF p
<1>5. /\ Len(p) \in Nat \ {0} /\ Len(q) = Len(p) - 1
      /\ \A n \in 1 .. Len(q) : q[n] = p[n + 1] /\ n + 1 \in 1 .. Len(p)
  BY <1>1
<1> HIDE DEF q
<1>6. ASSUME q # <<>>, m # NoMessage PROVE Follows(Behind(r, g2), q[1])
  <2>1. 1 \in 1 .. Len(q) /\ 1 \in 1 .. Len(p) /\ 1 < Len(p) /\ q[1] = p[1 + 1] /\ q[1] \in Token
    BY <1>1, <1>5, <1>6
  <2> QED
    BY <1>3, <1>4, <1>6, <2>1
<1>7. ASSUME NEW n \in 1 .. Len(q), n < Len(q) PROVE Follows(q[n], q[n + 1])
  <2>1. n + 1 \in 1 .. Len(q) /\ n + 1 \in 1 .. Len(p) /\ n + 1 < Len(p)
    BY <1>5, <1>7
  <2>2. q[n] = p[n + 1] /\ q[n + 1] = p[(n + 1) + 1]
    BY <1>5, <2>1
  <2> QED
    BY <1>3, <2>1, <2>2
<1>8. Stream(r, g2)
  BY <1>2, <1>6, <1>7 DEF Stream
<1>9. ASSUME l.up, NEW u \in Token, Continues(l, g, u) PROVE Continues(r, g2, u)
  <2>1. Follows(p[Len(p)], u)
    BY <1>1, <1>9 DEF Continues, p
  <2>2. CASE q = <<>>
    <3>1. Len(p) = 1
      BY <1>5, <2>2
    <3> QED
      BY <1>2, <1>3, <1>4, <1>9, <2>1, <2>2, <3>1 DEF Continues
  <2>3. CASE q # <<>>
    <3>1. Len(q) \in 1 .. Len(q)
      BY <1>1, <2>3
    <3>2. q[Len(q)] = p[Len(p)]
      BY <1>5, <3>1
    <3> QED
      BY <1>2, <2>1, <2>3, <3>2 DEF Continues
  <2> QED
    BY <2>2, <2>3
<1> QED
  BY <1>8, <1>9

-----------------------------------------------------------------------------
(* Steps in which no message begins *)

HookOK(l) == l.session \notin {"len", "data"} => l.reading = NoMessage

\* l2 has no head and is in no message that l was not.
Quiet(l2, l) ==
    /\ l2 \in Link /\ HookOK(l2)
    /\ Fewer(l2.pipe, l.pipe)
    /\ l2.reading \in {l.reading, NoMessage}
    /\ InHooks(l2) => InHooks(l) /\ l2.server = l.server

LEMMA QuietCases ==
    ASSUME NEW l \in Link, HookOK(l)
    PROVE  /\ Quiet(l, l) /\ Quiet(Unused, l) /\ Quiet(Closed(l), l)
           /\ \A q \in Seq(Token) : Fewer(q, l.pipe) =>
                 /\ Quiet([l EXCEPT !.pipe = q], l)
                 /\ Quiet([l EXCEPT !.pipe = q, !.up = FALSE], l)
<1>1. l.pipe \in Seq(Token)
  BY DEF Link
<1>2. Quiet(l, l)
  BY <1>1, FewerCases DEF Quiet
<1>3. Quiet(Unused, l)
  BY <1>1, FewerCases, ForwardAssumption
     DEF Unused, Link, NoMessage, Quiet, HookOK, InHooks
<1>4. Quiet([l EXCEPT !.up = FALSE], l)
  <2> DEFINE r == [l EXCEPT !.up = FALSE]
  <2>1. /\ r \in Link /\ r.pipe = l.pipe /\ r.session = l.session /\ r.reading = l.reading
        /\ r.server = l.server
    BY DEF Link
  <2> HIDE DEF r
  <2>2. Quiet(r, l)
    BY <1>2, <2>1 DEF Quiet, HookOK, InHooks
  <2> QED
    BY <2>2 DEF r
<1>5. Quiet(Closed(l), l)
  BY <1>3, <1>4 DEF Closed
<1>6. ASSUME NEW q \in Seq(Token), Fewer(q, l.pipe), NEW up \in BOOLEAN
      PROVE  Quiet([l EXCEPT !.pipe = q, !.up = up], l)
  <2> DEFINE r == [l EXCEPT !.pipe = q, !.up = up]
  <2>1. /\ r \in Link /\ r.pipe = q /\ r.session = l.session /\ r.reading = l.reading
        /\ r.server = l.server
    BY <1>6 DEF Link
  <2> HIDE DEF r
  <2>2. Quiet(r, l)
    BY <1>6, <2>1 DEF Quiet, HookOK, InHooks
  <2> QED
    BY <2>2 DEF r
<1>7. ASSUME NEW q \in Seq(Token) PROVE [l EXCEPT !.pipe = q] = [l EXCEPT !.pipe = q, !.up = l.up]
  BY DEF Link
<1>8. l.up \in BOOLEAN
  BY DEF Link
<1>9. ASSUME NEW q \in Seq(Token), Fewer(q, l.pipe)
      PROVE  /\ Quiet([l EXCEPT !.pipe = q], l)
             /\ Quiet([l EXCEPT !.pipe = q, !.up = FALSE], l)
  BY <1>6, <1>7, <1>8, <1>9
<1> QED
  BY <1>2, <1>3, <1>5, <1>9

LEMMA QuietRemoved ==
    ASSUME NEW c \in Conns, link[c] \in Link
    PROVE  /\ Quiet(Removed(c), link[c])
           /\ Removed(c).pipe = <<>> /\ Removed(c).reading = NoMessage /\ ~Removed(c).up
<1> DEFINE r == [link[c] EXCEPT !.pipe = <<>>, !.up = FALSE, !.session = "gone",
                                !.reading = NoMessage]
<1>1. /\ r.pipe = <<>> /\ r.up = FALSE /\ r.session = "gone" /\ r.reading = NoMessage
      /\ Unused.pipe = <<>> /\ Unused.up = FALSE /\ Unused.session = "gone"
      /\ Unused.reading = NoMessage
  <2>1. ASSUME NEW l \in Link
        PROVE  LET x == [l EXCEPT !.pipe = <<>>, !.up = FALSE, !.session = "gone",
                                  !.reading = NoMessage]
               IN  x.pipe = <<>> /\ x.up = FALSE /\ x.session = "gone" /\ x.reading = NoMessage
    BY DEF Link
  <2> QED
    BY <2>1 DEF Unused
<1>2. Removed(c) \in Link
  BY RemovedOK
<1>3. link[c].pipe \in Seq(Token)
  BY DEF Link
<1>4. Removed(c) \in {r, Unused}
  BY DEF Removed
<1> HIDE DEF r
<1>5. /\ Removed(c).pipe = <<>> /\ Removed(c).reading = NoMessage /\ ~Removed(c).up
      /\ Removed(c).session = "gone"
  BY <1>1, <1>4
<1> QED
  BY <1>2, <1>3, <1>5, FewerCases DEF Quiet, HookOK, InHooks

\* A head that may have been sent may still have been.
LEMMA SentKept ==
    ASSUME IInv, [Next]_vars, NEW m \in Messages, Sent(m) PROVE Sent(m)'
<1>1. m \in Nat /\ msg \in Nat
  BY ForwardAssumption DEF Messages, IInv, TypeOK
<1>2. ASSUME msg' = msg, At("head")' => At("head") PROVE Sent(m)'
  BY <1>2 DEF Sent
<1>3. CASE UNCHANGED vars
  BY <1>2, <1>3 DEF vars, At
<1>4. CASE Message \/ Refused
  BY <1>1, <1>4 DEF Message, Refused, Sent
<1>5. CASE InitConnect
  BY <1>2, <1>5 DEF InitConnect, IInv, SenderOK, At
<1>6. CASE TryNext \/ SocketFails
  BY <1>2, <1>6 DEF TryNext, SocketFails, At
<1>7. CASE SendHead
  BY <1>2, <1>7 DEF SendHead, At
<1>8. CASE SendLen \/ SendData \/ SendEob
  BY <1>2, <1>8 DEF SendLen, SendData, SendEob, GoesOn, GivenUp, Again, At
<1>9. CASE OnOutputPluginEvent \/ SenderRestarts \/ Break \/ ServerRestarts \/ Read
  BY <1>2, <1>9 DEF OnOutputPluginEvent, SenderRestarts, Break, ServerRestarts, Read, At
<1> QED
  BY <1>3, <1>4, <1>5, <1>6, <1>7, <1>8, <1>9 DEF Next, Sending

LEMMA JTypes ==
    ASSUME JInv
    PROVE  /\ link \in [Conns -> Link] /\ begun \in SUBSET Messages
           /\ \A c \in Conns :
                 /\ link[c] \in Link /\ StreamOK(link[c]) /\ HookOK(link[c])
                 /\ link[c].pipe \in Seq(Token)
                 /\ ~skipped => LinkFlow(link[c], got, begun)
BY DEF JInv, IInv, TypeOK, StreamsOK, HooksOK, HookOK, Flow, Link

LEMMA QuietStep ==
    ASSUME JInv, [Next]_vars, \A c \in Conns : Quiet(link'[c], link[c]),
           begun' = begun, \A m \in Messages \ begun : got'[m] = got[m]
    PROVE  HooksOK' /\ OneBusy' /\ HeadsOK'
<1>1. HooksOK' /\ OneBusy'
  BY DEF JInv, Quiet, HookOK, HooksOK, OneBusy
<1>2. \A m \in Messages : Sent(m) => Sent(m)'
  BY SentKept DEF JInv
<1>3. ASSUME NEW c \in Conns
      PROVE  /\ OneHead(link[c].pipe) => OneHead(link'[c].pipe)
             /\ \A m \in Messages : HeadIn(link'[c].pipe, m) => HeadIn(link[c].pipe, m)
             /\ \A m \in Messages : Carries(link'[c], m) => Carries(link[c], m)
             /\ \A m \in Messages : link'[c].reading = m => link[c].reading = m
  <2>1. link[c].pipe \in Seq(Token) /\ link'[c].pipe \in Seq(Token)
    BY JTypes DEF Quiet, Link
  <2>2. NoMessage \notin Messages
    BY DEF NoMessage, Messages
  <2> QED
    BY <2>1, <2>2, FewerMeans DEF Quiet, Carries
<1>4. \A m \in begun' : Sent(m)'
  BY <1>2, JTypes DEF JInv, HeadsOK
<1> QED
  BY <1>1, <1>2, <1>3, <1>4 DEF JInv, HeadsOK

\* The same, when the outputs of the servers are told nothing.
LEMMA SilentStep ==
    ASSUME JInv, [Next]_vars, UNCHANGED <<begun, got>>, skipped => skipped',
           \A c \in Conns :
              Quiet(link'[c], link[c]) /\ (~skipped => LinkFlow(link'[c], got, begun))
    PROVE  HooksOK' /\ OneBusy' /\ HeadsOK' /\ Flow'
BY QuietStep DEF Flow

\* A link that is opened or closed, or left alone.
LEMMA SilentCases ==
    ASSUME JInv, NEW c \in Conns, NEW s \in Server,
           NEW r, r \in {link[c], Closed(link[c])} \/ (link[c] = Unused /\ r = Opened(s))
    PROVE  Quiet(r, link[c]) /\ (~skipped => LinkFlow(r, got, begun)) /\ r.reading = link[c].reading
<1>1. link[c] \in Link /\ HookOK(link[c]) /\ (~skipped => LinkFlow(link[c], got, begun))
  BY JTypes
<1>2. CASE r = link[c]
  BY <1>1, <1>2, QuietCases
<1>3. CASE r = Closed(link[c])
  <2>1. Closed(link[c]).reading = link[c].reading
    BY <1>1 DEF Closed, HookOK, Unused, Link
  <2> QED
    BY <1>1, <1>3, <2>1, QuietCases, FlowClosed
<1>4. CASE link[c] = Unused /\ r = Opened(s)
  <2>1. r \in Link /\ r.pipe = <<>> /\ r.reading = NoMessage /\ r.session = "queued"
    BY <1>4, UnusedOK DEF Opened
  <2>2. link[c].reading = NoMessage /\ link[c].pipe \in Seq(Token)
    BY <1>1, <1>4 DEF Unused, Link
  <2> QED
    BY <2>1, <2>2, FewerCases, FlowEmpty DEF Quiet, HookOK, InHooks
<1> QED
  BY <1>2, <1>3, <1>4

-----------------------------------------------------------------------------
(* The sender's steps *)

SameReading == \A c \in Conns : link'[c].reading = link[c].reading

Kept == HooksOK' /\ OneBusy' /\ HeadsOK' /\ Flow' /\ Ready'

LEMMA OutsideReady ==
    ASSUME Outside' \/ skipped' PROVE Ready'
BY DEF Outside, Ready, Middle, InMessage

Elsewhere == InitConnect \/ TryNext \/ SocketFails \/ Message \/ Refused

\* What the steps do that write nothing.
LEMMA SenderLinks ==
    ASSUME JInv, Elsewhere \/ OnOutputPluginEvent \/ SenderRestarts
    PROVE  /\ UNCHANGED <<begun, got, skipped>>
           /\ \A c \in Conns : \E s \in Server :
                 \/ link'[c] \in {link[c], Closed(link[c])}
                 \/ link[c] = Unused /\ link'[c] = Opened(s)
<1>1. link \in [Conns -> Link] /\ \E s \in Server : TRUE
  BY JTypes, ForwardAssumption DEF Server
<1>2. UNCHANGED <<begun, got, skipped>>
  BY DEF Elsewhere, InitConnect, TryNext, SocketFails, Message, Refused, OnOutputPluginEvent,
         SenderRestarts
<1>3. ASSUME NEW s \in Server, Connect(s), NEW c \in Conns
      PROVE  link'[c] = link[c] \/ (link[c] = Unused /\ link'[c] = Opened(s))
  BY <1>1, <1>3 DEF Connect
<1>4. CASE InitConnect
  <2>1. current + 1 \in Server
    BY <1>4, ForwardAssumption DEF InitConnect, JInv, IInv, TypeOK, SenderOK, Server
  <2> QED
    BY <1>2, <1>3, <1>4, <2>1 DEF InitConnect
<1>5. CASE TryNext
  <2>1. NextIndex \in Server
    BY NextIndexOK DEF JInv, IInv, TypeOK
  <2>2. link' = link \/ Connect(NextIndex)
    BY <1>5 DEF TryNext
  <2> QED
    BY <1>1, <1>2, <1>3, <2>1, <2>2
<1>6. CASE SocketFails \/ Message \/ Refused
  BY <1>1, <1>2, <1>6 DEF SocketFails, Message, Refused
<1>7. CASE OnOutputPluginEvent \/ SenderRestarts
  <2>1. \A c \in Conns : link'[c] \in {link[c], Closed(link[c])}
    BY <1>7 DEF OnOutputPluginEvent, SenderRestarts
  <2> QED
    BY <1>1, <1>2, <2>1
<1> QED
  BY <1>4, <1>5, <1>6, <1>7 DEF Elsewhere

LEMMA SenderKeeps ==
    ASSUME JInv, [Next]_vars, Elsewhere \/ OnOutputPluginEvent \/ SenderRestarts
    PROVE  Kept /\ SameReading /\ UNCHANGED <<begun, got>>
<1>1. /\ UNCHANGED <<begun, got, skipped>>
      /\ \A c \in Conns :
            /\ Quiet(link'[c], link[c])
            /\ ~skipped => LinkFlow(link'[c], got, begun)
            /\ link'[c].reading = link[c].reading
  BY SenderLinks, SilentCases
<1>2. HooksOK' /\ OneBusy' /\ HeadsOK' /\ Flow'
  BY <1>1, SilentStep
<1>3. Ready'
  <2>1. CASE skipped
    BY <1>1, <2>1, OutsideReady
  <2>2. CASE ~skipped /\ Elsewhere
    <3>1. step \notin {"len", "data", "eob"}
      BY <2>2 DEF Elsewhere, InitConnect, TryNext, SocketFails, Message, Refused
    <3>2. Outside
      BY <2>2, <3>1, OutsideStart DEF JInv
    <3> QED
      BY <2>2, <3>2, StartsOutside, OutsideReady DEF JInv, Elsewhere
  <2>3. CASE ~skipped /\ (OnOutputPluginEvent \/ SenderRestarts)
    BY <2>3, ClosingOutside, OutsideReady DEF JInv
  <2> QED
    BY <2>1, <2>2, <2>3
<1> QED
  BY <1>1, <1>2, <1>3 DEF Kept, SameReading

\* What the sender writes next may come next on every connection that is up.
LEMMA ContinuesNow ==
    ASSUME JInv, ~skipped, NEW c \in Conns, link[c].up
    PROVE  Continues(link[c], got, ThisToken(step))
<1>1. link[c].pipe \in Seq(Token) /\ HookOK(link[c])
  BY JTypes
<1>2. CASE Middle(link[c])
  BY <1>2 DEF JInv, Ready
<1>3. CASE ~Middle(link[c]) /\ link[c].pipe = <<>>
  BY <1>1, <1>3 DEF Middle, InMessage, Continues, HookOK
<1>4. CASE ~Middle(link[c]) /\ link[c].pipe # <<>>
  BY <1>1, <1>4 DEF Middle, InMessage, Continues, Follows
<1> QED
  BY <1>2, <1>3, <1>4

\* A token of the message is written to the current connection.
LEMMA WriteLinks ==
    ASSUME JInv, current \in Server, Write(ThisToken(step)), ThisToken(step) \in Token
    PROVE  LET t == ThisToken(step)
               c == sock[current]
               r == [link[c] EXCEPT !.pipe = Append(@, t)]
           IN  /\ sock' = sock /\ c \in Conns
               /\ \A d \in Conns : link'[d] = IF d = c /\ link[c].up THEN r ELSE link[d]
               /\ link' \in [Conns -> Link]
               /\ r \in Link /\ r.pipe = Append(link[c].pipe, t) /\ r.pipe \in Seq(Token)
               /\ r.session = link[c].session /\ r.reading = link[c].reading
               /\ r.server = link[c].server /\ r.up = link[c].up
               /\ ~skipped /\ link[c].up => LinkFlow(r, got, begun)
<1> DEFINE t == ThisToken(step)
           c == sock[current]
           l == link[c]
           r == [l EXCEPT !.pipe = Append(@, t)]
<1>1. c # NoSock /\ sock' = sock /\ c \in Conns
  BY SockConn DEF Write, JInv, IInv
<1>2. l \in Link /\ l.pipe \in Seq(Token) /\ link \in [Conns -> Link]
      /\ (~skipped => LinkFlow(l, got, begun))
  BY <1>1, JTypes
<1>3. link' = [link EXCEPT ![c].pipe = IF l.up THEN Append(@, t) ELSE @]
  BY DEF Write
<1> HIDE DEF t, c
<1>4. t \in Token
  BY DEF t
<1>5. ASSUME NEW d \in Conns PROVE link'[d] = IF d = c /\ l.up THEN r ELSE link[d]
  <2>1. CASE d = c /\ l.up
    BY <1>1, <1>2, <1>3, <2>1
  <2>2. CASE d = c /\ ~l.up
    <3>1. link'[c] = [link[c] EXCEPT !.pipe = @]
      BY <1>1, <1>2, <1>3, <2>2
    <3>2. [link[c] EXCEPT !.pipe = @] = link[c]
      BY <1>2 DEF Link
    <3> QED
      BY <2>2, <3>1, <3>2
  <2>3. CASE d # c
    BY <1>2, <1>3, <2>3
  <2> QED
    BY <2>1, <2>2, <2>3
<1>6. /\ r \in Link /\ r.pipe = Append(l.pipe, t) /\ r.pipe \in Seq(Token)
      /\ r.session = l.session /\ r.reading = l.reading /\ r.server = l.server
  <2> HIDE DEF l
  <2>1. Append(l.pipe, t) \in Seq(Token)
    BY <1>2, <1>4
  <2> QED
    BY <1>2, <2>1 DEF Link
<1>7. r.up = l.up
  BY <1>2 DEF Link
<1>8. ASSUME ~skipped, l.up PROVE LinkFlow(r, got, begun)
  <2>1. Continues(l, got, t)
    BY <1>1, <1>8, ContinuesNow DEF t
  <2> HIDE DEF l
  <2> QED
    BY <1>2, <1>4, <1>8, <2>1, FlowAppend DEF l
<1>9. link' \in [Conns -> Link]
  <2>1. \A d \in Conns : link'[d] \in Link
    BY <1>1, <1>2, <1>5, <1>6
  <2> QED
    BY <1>2, <1>3, <2>1
<1> QED
  BY <1>1, <1>5, <1>6, <1>7, <1>8, <1>9 DEF t, c

LEMMA HeadAppend ==
    ASSUME NEW q \in Seq(Token), NEW t \in Token
    PROVE  /\ \A m \in Messages : HeadIn(Append(q, t), m) => HeadIn(q, m) \/ IsHead(t, m)
           /\ OneHead(q) /\ (\A m \in Messages : IsHead(t, m) => ~HeadIn(q, m))
              => OneHead(Append(q, t))
<1> DEFINE a == Append(q, t)
<1>1. /\ Len(a) = Len(q) + 1 /\ a[Len(a)] = t
      /\ \A n \in 1 .. Len(a) : n = Len(a) \/ (n \in 1 .. Len(q) /\ a[n] = q[n])
  OBVIOUS
<1> HIDE DEF a
<1>2. ASSUME NEW m \in Messages, HeadIn(a, m) PROVE HeadIn(q, m) \/ IsHead(t, m)
  BY <1>1, <1>2 DEF HeadIn
<1>3. ASSUME OneHead(q), \A m \in Messages : IsHead(t, m) => ~HeadIn(q, m) PROVE OneHead(a)
  <2> SUFFICES ASSUME NEW m \in Messages, NEW i \in 1 .. Len(a), NEW j \in 1 .. Len(a),
                      IsHead(a[i], m), IsHead(a[j], m)
               PROVE  i = j
    BY DEF OneHead
  <2>1. CASE i # Len(a) /\ j # Len(a)
    BY <1>1, <1>3, <2>1 DEF OneHead
  <2>2. CASE i = Len(a) \/ j = Len(a)
    BY <1>1, <1>3, <2>2 DEF HeadIn
  <2> QED
    BY <2>1, <2>2
<1> QED
  BY <1>2, <1>3 DEF a

\* The head of a message, written for the first time.
LEMMA HeadKeeps ==
    ASSUME JInv, SendHead, Write(ThisToken("head"))
    PROVE  HooksOK' /\ OneBusy' /\ HeadsOK' /\ SameReading
<1> DEFINE t == ThisToken("head")
           c == sock[current]
           l == link[c]
           r == [l EXCEPT !.pipe = Append(@, t)]
<1>1. /\ step = "head" /\ current \in Server /\ msg \in Messages /\ msg \in Nat
      /\ step' \in {"len", "eob", "idle"} /\ UNCHANGED <<msg, begun, got>>
  <2>1. step = "head" /\ UNCHANGED <<msg, begun, got>>
    BY DEF SendHead
  <2>2. current \in Server /\ msg \in Messages /\ msg \in Nat
    BY <2>1, ForwardAssumption DEF JInv, IInv, TypeOK, SenderOK, At
  <2>3. ~WriteFails(t)
    <3>1. link' \in [Conns -> Link] /\ sock' = sock /\ c # NoSock
      BY WriteOK, <2>1, <2>2, ThisTokenOK DEF JInv, IInv, Write
    <3> QED
      BY <2>2, <3>1 DEF WriteFails, JInv, IInv, TypeOK
  <2> QED
    BY <2>1, <2>2, <2>3 DEF SendHead, GoesOn, GivenUp
<1>2. t \in Token /\ IsHead(t, msg) /\ \A m \in Messages : IsHead(t, m) => m = msg
  BY <1>1, ThisTokenOK DEF IsHead, ThisToken
<1>3. /\ sock' = sock /\ c \in Conns
      /\ \A d \in Conns : link'[d] = IF d = c /\ l.up THEN r ELSE link[d]
      /\ r \in Link /\ r.pipe = Append(l.pipe, t) /\ r.pipe \in Seq(Token)
      /\ r.session = l.session /\ r.reading = l.reading /\ r.server = l.server
  BY <1>1, <1>2, WriteLinks
<1>4. l.pipe \in Seq(Token)
  BY <1>3, JTypes
<1>5. \A m \in Messages : m \in Nat /\ (Sent(m) => m < msg) /\ (Sent(m)' <=> m <= msg)
  BY <1>1, ForwardAssumption DEF Sent, At, Messages
<1>6. HooksOK' /\ OneBusy' /\ SameReading
  <2> HIDE DEF r
  <2>1. \A d \in Conns : /\ link'[d].session = link[d].session
                         /\ link'[d].reading = link[d].reading
                         /\ link'[d].server = link[d].server
    BY <1>3
  <2> QED
    BY <2>1 DEF JInv, HooksOK, OneBusy, InHooks, SameReading
<1>7. /\ msg \notin begun /\ ~Sent(msg)
      /\ \A d \in Conns : ~Carries(link[d], msg)
  BY <1>1, <1>5 DEF JInv, HeadsOK
<1> HIDE DEF r, t
<1>8. ASSUME NEW d \in Conns, NEW m \in Messages
      PROVE  /\ HeadIn(link'[d].pipe, m) => HeadIn(link[d].pipe, m) \/ (m = msg /\ d = c)
             /\ Carries(link'[d], m) => Carries(link[d], m) \/ (m = msg /\ d = c)
             /\ link'[d].reading = link[d].reading
  <2>1. CASE d = c /\ l.up
    <3>1. link'[d].pipe = Append(l.pipe, t) /\ link'[d].reading = link[d].reading
      BY <1>3, <2>1
    <3>2. HeadIn(Append(l.pipe, t), m) => HeadIn(l.pipe, m) \/ IsHead(t, m)
      <4> HIDE DEF l
      <4> QED
        BY <1>2, <1>4, HeadAppend
    <3> QED
      BY <1>2, <2>1, <3>1, <3>2 DEF Carries
  <2>2. CASE ~(d = c /\ l.up)
    BY <1>3, <2>2
  <2> QED
    BY <2>1, <2>2
<1>9. ASSUME NEW d \in Conns PROVE OneHead(link'[d].pipe)
  <2>1. OneHead(link[d].pipe)
    BY DEF JInv, HeadsOK
  <2>2. CASE d = c /\ l.up
    <3>1. \A m \in Messages : IsHead(t, m) => ~HeadIn(l.pipe, m)
      BY <1>2, <1>3, <1>7 DEF Carries
    <3> QED
      BY <1>2, <1>3, <1>4, <2>1, <2>2, <3>1, HeadAppend
  <2>3. CASE ~(d = c /\ l.up)
    BY <1>3, <2>1, <2>3
  <2> QED
    BY <2>2, <2>3
<1>10. HeadsOK'
  <2>1. ASSUME NEW m \in begun PROVE Sent(m)'
    <3>1. m \in Messages /\ Sent(m)
      BY JTypes DEF JInv, HeadsOK
    <3> QED
      BY <1>1, <1>5, <3>1
  <2>2. \A m \in Messages \ begun' : got'[m] = <<>>
    BY <1>1 DEF JInv, HeadsOK
  <2>3. ASSUME NEW m \in Messages, NEW d \in Conns
        PROVE  /\ Carries(link'[d], m) => Sent(m)'
               /\ HeadIn(link'[d].pipe, m) => m \notin begun' /\ link'[d].reading # m
               /\ \A e \in Conns : Carries(link'[d], m) /\ Carries(link'[e], m) => d = e
    <3>1. Carries(link'[d], m) => Sent(m)'
      BY <1>1, <1>5, <1>8 DEF JInv, HeadsOK
    <3>2. HeadIn(link'[d].pipe, m) => m \notin begun' /\ link'[d].reading # m
      BY <1>1, <1>7, <1>8 DEF JInv, HeadsOK, Carries
    <3>3. ASSUME NEW e \in Conns, Carries(link'[d], m), Carries(link'[e], m) PROVE d = e
      BY <1>7, <1>8, <3>3 DEF JInv, HeadsOK
    <3> QED
      BY <3>1, <3>2, <3>3
  <2> QED
    BY <1>1, <1>9, <2>1, <2>2, <2>3 DEF HeadsOK
<1> QED
  BY <1>6, <1>10

\* A part of a message that could not be written.
LEMMA FailKeeps ==
    ASSUME JInv, [Next]_vars, current \in Server, ThisToken(step) \in Token,
           ThisToken(step).kind = step, WriteFails(ThisToken(step)),
           UNCHANGED <<begun, got>>, skipped => skipped'
    PROVE  /\ HooksOK' /\ OneBusy' /\ HeadsOK' /\ Flow' /\ SameReading
           /\ ~skipped => Outside'
<1> DEFINE t == ThisToken(step)
           c == sock[current]
           l == link[c]
<1>1. c # NoSock /\ c \in Conns
  BY SockConn DEF WriteFails, JInv, IInv
<1>2. /\ l \in Link /\ l.pipe \in Seq(Token) /\ link \in [Conns -> Link] /\ HookOK(l)
      /\ (~skipped => LinkFlow(l, got, begun))
  BY <1>1, JTypes
<1> HIDE DEF t, c
<1>3. t \in Token
  BY DEF t
<1>4. CutOff(t) \in Token /\ CutOff(t).cut
  BY <1>3, CutOffType, CutOffAlike
<1>5. \E x \in Link : /\ link' = [link EXCEPT ![c] = Closed(x)]
                      /\ HookOK(x) /\ Quiet(x, l) /\ x.reading = l.reading
                      /\ x.session = l.session /\ x.server = l.server
                      /\ (~skipped => LinkFlow(x, got, begun))
  <2>1. CASE link' = [link EXCEPT ![c] = Closed(@)]
    BY <1>1, <1>2, <2>1, QuietCases
  <2>2. ASSUME l.up, NEW q \in {l.pipe, Append(l.pipe, CutOff(t))},
               link' = [link EXCEPT ![c] = Closed([@ EXCEPT !.pipe = q])]
        PROVE  <1>5
    <3> DEFINE x == [l EXCEPT !.pipe = q]
    <3>1. q \in Seq(Token) /\ Fewer(q, l.pipe)
      <4> HIDE DEF l
      <4>1. Fewer(l.pipe, l.pipe) /\ Fewer(Append(l.pipe, CutOff(t)), l.pipe)
        BY <1>2, <1>4, FewerCases
      <4>2. Append(l.pipe, CutOff(t)) \in Seq(Token)
        BY <1>2, <1>4
      <4>3. q = l.pipe \/ q = Append(l.pipe, CutOff(t))
        BY <2>2
      <4> QED
        BY <1>2, <4>1, <4>2, <4>3
    <3>2. /\ x \in Link /\ x.reading = l.reading /\ x.session = l.session
          /\ x.server = l.server
      BY <1>2, <3>1 DEF Link
    <3>3. Quiet(x, l)
      BY <1>2, <3>1, QuietCases
    <3>4. ASSUME ~skipped PROVE LinkFlow(x, got, begun)
      <4>1. CASE q = l.pipe
        <5>1. x = l
          BY <1>2, <4>1 DEF Link
        <5> QED
          BY <1>2, <3>4, <5>1
      <4>2. CASE q = Append(l.pipe, CutOff(t))
        <5>1. Continues(l, got, t)
          BY <1>1, <2>2, <3>4, ContinuesNow DEF t
        <5>2. x = [l EXCEPT !.pipe = Append(@, CutOff(t))]
          BY <4>2
        <5> HIDE DEF l, x
        <5>3. LinkFlow([l EXCEPT !.pipe = Append(@, CutOff(t))], got, begun)
          BY <1>2, <1>3, <2>2, <3>4, <5>1, FlowAppend
        <5> QED
          BY <5>2, <5>3
      <4> QED
        BY <2>2, <4>1, <4>2
    <3>5. link' = [link EXCEPT ![c] = Closed(x)]
      BY <2>2
    <3> HIDE DEF x
    <3>6. HookOK(x)
      BY <3>3 DEF Quiet
    <3> QED
      BY <3>2, <3>3, <3>4, <3>5, <3>6
  <2> QED
    BY <2>1, <2>2 DEF WriteFails, t, c
<1>6. PICK x \in Link : /\ link' = [link EXCEPT ![c] = Closed(x)]
                        /\ HookOK(x) /\ Quiet(x, l) /\ x.reading = l.reading
                        /\ x.session = l.session /\ x.server = l.server
                        /\ (~skipped => LinkFlow(x, got, begun))
  BY <1>5
<1>7. /\ Quiet(Closed(x), l) /\ Closed(x).reading = l.reading
      /\ ~skipped => LinkFlow(Closed(x), got, begun)
  <2>1. Closed(x).reading = x.reading
    BY <1>6 DEF Closed, HookOK, Unused, Link
  <2>2. Quiet(Closed(x), x)
    BY <1>6, QuietCases
  <2>3. /\ Closed(x).pipe \in Seq(Token) /\ x.pipe \in Seq(Token)
        /\ Closed(x).pipe \in {x.pipe, <<>>}
    <3>1. Closed(x).pipe \in {x.pipe, <<>>} /\ x.pipe \in Seq(Token)
      BY <1>6 DEF Closed, Unused, Link
    <3>2. Closed(x).pipe \in Seq(Token)
      BY <2>2 DEF Quiet, Link
    <3> QED
      BY <3>1, <3>2
  <2>4. Fewer(Closed(x).pipe, l.pipe)
    BY <1>2, <1>6, <2>3, FewerCases DEF Quiet
  <2>5. Quiet(Closed(x), l)
    BY <1>6, <2>1, <2>2, <2>4 DEF Quiet, InHooks
  <2> QED
    BY <1>6, <2>1, <2>5, FlowClosed
<1>8. \A d \in Conns : link'[d] = IF d = c THEN Closed(x) ELSE link[d]
  BY <1>2, <1>6
<1>9. ASSUME NEW d \in Conns
      PROVE  /\ Quiet(link'[d], link[d]) /\ link'[d].reading = link[d].reading
             /\ ~skipped => LinkFlow(link'[d], got, begun)
  <2>1. Quiet(link[d], link[d]) /\ (~skipped => LinkFlow(link[d], got, begun))
    BY JTypes, QuietCases
  <2> QED
    BY <1>7, <1>8, <2>1
<1>10. HooksOK' /\ OneBusy' /\ HeadsOK' /\ Flow' /\ SameReading
  BY <1>9, SilentStep DEF SameReading
<1>11. ASSUME ~skipped, NEW d \in Conns, Middle(link'[d]) PROVE FALSE
  <2>1. d # c /\ Middle(link[d])
    BY <1>11, WriteFailsMiddle DEF JInv, c, t
  <2> QED
    BY <1>11, <2>1, InStepMeans DEF JInv, c
<1> QED
  BY <1>10, <1>11 DEF Outside, Middle, InMessage

\* A length, data or the end of a message, written.
LEMMA PartKeeps ==
    ASSUME JInv, [Next]_vars, current \in Server, step \in {"len", "data", "eob"},
           Write(ThisToken(step)), ThisToken(step) \in Token, ThisToken(step).kind = step,
           UNCHANGED <<begun, got>>, skipped => skipped'
    PROVE  HooksOK' /\ OneBusy' /\ HeadsOK' /\ Flow' /\ SameReading
<1> DEFINE t == ThisToken(step)
           c == sock[current]
           l == link[c]
           r == [l EXCEPT !.pipe = Append(@, t)]
<1>1. /\ c \in Conns /\ r.reading = l.reading
      /\ \A d \in Conns : link'[d] = IF d = c /\ l.up THEN r ELSE link[d]
      /\ ~skipped /\ l.up => LinkFlow(r, got, begun)
  BY WriteLinks
<1>2. l \in Link /\ HookOK(l) /\ l.pipe \in Seq(Token)
  BY <1>1, JTypes
<1>3. Quiet(r, l)
  <2>1. Append(l.pipe, t) \in Seq(Token) /\ Fewer(Append(l.pipe, t), l.pipe)
    <3> HIDE DEF l, t
    <3>1. t \in Token /\ t.kind # "head"
      BY DEF t
    <3> QED
      BY <1>2, <3>1, FewerCases
  <2> QED
    BY <1>2, <2>1, QuietCases
<1> HIDE DEF r
<1>4. ASSUME NEW d \in Conns
      PROVE  /\ Quiet(link'[d], link[d]) /\ link'[d].reading = link[d].reading
             /\ ~skipped => LinkFlow(link'[d], got, begun)
  <2>1. Quiet(link[d], link[d]) /\ (~skipped => LinkFlow(link[d], got, begun))
    BY JTypes, QuietCases
  <2> QED
    BY <1>1, <1>3, <2>1
<1> QED
  BY <1>4, SilentStep DEF SameReading

\* What goes on after the token that was written.
LEMMA GoesOnReady ==
    ASSUME JInv, [Next]_vars, SendHead \/ SendLen \/ SendData, current \in Server,
           Write(ThisToken(step)), ThisToken(step) \in Token
    PROVE  Ready'
<1> SUFFICES ASSUME ~skipped', NEW d \in Conns, Middle(link'[d])
             PROVE  Continues(link'[d], got', ThisToken(step)')
  BY DEF Ready, Middle, InMessage
<1> DEFINE t == ThisToken(step)
           c == sock[current]
           l == link[c]
           r == [l EXCEPT !.pipe = Append(@, t)]
<1>1. /\ c \in Conns /\ r.pipe = Append(l.pipe, t) /\ r.pipe \in Seq(Token) /\ r.up = l.up
      /\ \A e \in Conns : link'[e] = IF e = c /\ l.up THEN r ELSE link[e]
      /\ sock' = sock /\ link' \in [Conns -> Link]
  BY WriteLinks
<1>2. current' = current /\ msg' = msg
  BY DEF SendHead, SendLen, SendData
<1>3. d = c
  <2>1. InStep'
    BY InStepStep DEF JInv
  <2> QED
    BY <1>1, <1>2, <2>1 DEF InStep, Middle, InMessage
<1>4. l.up /\ link'[d] = r
  BY <1>1, <1>3 DEF Middle
<1>5. l.pipe \in Seq(Token)
  BY <1>1, JTypes
<1>6. r.pipe # <<>> /\ r.pipe[Len(r.pipe)] = t
  <2> HIDE DEF l, t, r
  <2>1. t \in Token
    BY DEF t
  <2> QED
    BY <1>1, <1>5, <2>1
<1>7. Follows(t, ThisToken(step)')
  <2>1. ~WriteFails(t)
    <3>1. c # NoSock
      BY DEF Write
    <3> QED
      BY <1>1, <3>1 DEF WriteFails, JInv, IInv, TypeOK
  <2>2. CASE SendHead
    <3>1. step = "head" /\ step' \in {"len", "eob"} /\ blk' = blk /\ blk = 0
      BY <2>1, <2>2 DEF SendHead, GoesOn, GivenUp, JInv, IInv, SenderOK, At
    <3> QED
      BY <1>2, <3>1 DEF Follows, ThisToken
  <2>3. CASE SendLen
    <3>1. step = "len" /\ step' = "data" /\ blk' = blk
      BY <2>1, <2>3 DEF SendLen
    <3> QED
      BY <1>2, <3>1 DEF Follows, ThisToken
  <2>4. CASE SendData
    <3>1. step = "data" /\ step' \in {"len", "eob"} /\ blk' = blk + 1
      BY <2>1, <2>4 DEF SendData, GoesOn, GivenUp
    <3> QED
      BY <1>2, <3>1 DEF Follows, ThisToken
  <2> QED
    BY <2>2, <2>3, <2>4
<1> HIDE DEF r, t
<1> QED
  BY <1>4, <1>6, <1>7 DEF Continues

LEMMA SendKeeps ==
    ASSUME JInv, [Next]_vars, SendHead \/ SendLen \/ SendData \/ SendEob
    PROVE  Kept /\ SameReading /\ UNCHANGED <<begun, got>>
<1> DEFINE t == ThisToken(step)
<1>1. /\ step \in {"head", "len", "data", "eob"} /\ current \in Server /\ msg \in Messages
      /\ step \in {"len", "data"} => blk \in Nat /\ blk < MaxBlocks
      /\ UNCHANGED <<begun, got>>
  BY ForwardAssumption
     DEF SendHead, SendLen, SendData, SendEob, JInv, IInv, SenderOK, TypeOK, At
<1>2. t \in Token /\ t.kind = step
  BY <1>1, ThisTokenOK
<1>3. skipped => skipped'
  BY DEF SendHead, SendLen, SendData, SendEob, GoesOn, GivenUp, Again
<1>4. SendEob => Ready'
  <2>1. SendEob => skipped' = skipped
    BY DEF SendEob
  <2> QED
    BY <2>1, SendEobOutside, OutsideReady DEF JInv
<1>5. CASE WriteFails(t)
  BY <1>1, <1>2, <1>3, <1>5, FailKeeps, OutsideReady DEF Kept
<1>6. CASE Write(t) /\ step # "head"
  <2>1. HooksOK' /\ OneBusy' /\ HeadsOK' /\ Flow' /\ SameReading
    BY <1>1, <1>2, <1>3, <1>6, PartKeeps
  <2>2. Ready'
    BY <1>1, <1>2, <1>4, <1>6, GoesOnReady
  <2> QED
    BY <1>1, <2>1, <2>2 DEF Kept
<1>7. CASE Write(t) /\ step = "head"
  <2>1. SendHead
    BY <1>7 DEF SendHead, SendLen, SendData, SendEob
  <2>2. HooksOK' /\ OneBusy' /\ HeadsOK' /\ SameReading
    BY <1>7, <2>1, HeadKeeps
  <2>3. Ready'
    BY <1>1, <1>2, <1>7, <2>1, GoesOnReady
  <2>4. Flow'
    <3> SUFFICES ASSUME ~skipped, NEW d \in Conns PROVE LinkFlow(link'[d], got, begun)
      BY <1>1, <1>3 DEF Flow
    <3> QED
      BY <1>1, <1>2, <1>7, WriteLinks, JTypes
  <2> QED
    BY <1>1, <2>2, <2>3, <2>4 DEF Kept
<1>8. CASE SendEob /\ UNCHANGED <<sock, link, faults>>
  <2>1. \A c \in Conns : /\ Quiet(link'[c], link[c]) /\ link'[c].reading = link[c].reading
                         /\ (~skipped => LinkFlow(link'[c], got, begun))
    BY <1>8, JTypes, QuietCases
  <2>2. HooksOK' /\ OneBusy' /\ HeadsOK' /\ Flow'
    BY <1>1, <1>3, <2>1, SilentStep
  <2> QED
    BY <1>1, <1>4, <1>8, <2>1, <2>2 DEF Kept, SameReading
<1> QED
  BY <1>5, <1>6, <1>7, <1>8 DEF SendHead, SendLen, SendData, SendEob

-----------------------------------------------------------------------------
(* The network and the ends of servers *)

\* The sender does nothing: it goes on where it would have.
LEMMA ReadyLinks ==
    ASSUME JInv, UNCHANGED <<step, msg, blk, skipped>>,
           \A c \in Conns : Middle(link'[c]) =>
               \A u \in Token : Middle(link[c]) /\ Continues(link[c], got, u)
                                => Continues(link'[c], got', u),
           \A c \in Conns : Middle(link'[c]) => Middle(link[c])
    PROVE  Ready'
<1> SUFFICES ASSUME ~skipped, NEW c \in Conns, Middle(link'[c])
             PROVE  Continues(link'[c], got', ThisToken(step))
  BY DEF Ready, Middle, InMessage, ThisToken
<1>1. Middle(link[c]) /\ Continues(link[c], got, ThisToken(step))
  BY DEF JInv, Ready
<1>2. step \in {"len", "data", "eob"}
  BY <1>1, InStepMeans DEF JInv
<1>3. ThisToken(step) \in Token
  <2>1. /\ msg \in Messages
        /\ step \in {"len", "data"} => blk \in Nat /\ blk < MaxBlocks
    BY <1>2, ForwardAssumption DEF JInv, IInv, SenderOK, TypeOK, At
  <2> QED
    BY <1>2, <2>1, ThisTokenOK
<1> QED
  BY <1>1, <1>3

LEMMA BreakKeeps ==
    ASSUME JInv, [Next]_vars, Break
    PROVE  Kept /\ SameReading /\ UNCHANGED <<begun, got>>
<1>1. UNCHANGED <<step, msg, blk, skipped, begun, got>>
  BY DEF Break
<1>2. PICK c \in Conns : /\ link[c].up
                         /\ \E q \in Remains(link[c].pipe) :
                               link' = [link EXCEPT ![c].pipe = q, ![c].up = FALSE]
  BY DEF Break
<1>3. PICK q \in Remains(link[c].pipe) : link' = [link EXCEPT ![c].pipe = q, ![c].up = FALSE]
  BY <1>2
<1> DEFINE l == link[c]
           r == [l EXCEPT !.pipe = q, !.up = FALSE]
<1>4. /\ l \in Link /\ HookOK(l) /\ l.pipe \in Seq(Token) /\ link \in [Conns -> Link]
      /\ (~skipped => LinkFlow(l, got, begun))
  BY JTypes
<1>5. \A d \in Conns : link'[d] = IF d = c THEN r ELSE link[d]
  BY <1>3, <1>4
<1>6. q \in Seq(Token) /\ Fewer(q, l.pipe)
  BY <1>3, <1>4, RemainsPlaces, FewerRemains
<1>7. Quiet(r, l)
  BY <1>4, <1>6, QuietCases
<1>8. ~skipped => LinkFlow(r, got, begun)
  <2> HIDE DEF l
  <2>1. l.up /\ q \in Remains(l.pipe)
    BY <1>2, <1>3 DEF l
  <2> QED
    BY <1>4, <2>1, FlowRemains
<1>9. r.up = FALSE /\ r.reading = l.reading
  BY <1>4, <1>6 DEF Link
<1> HIDE DEF r
<1>10. ASSUME NEW d \in Conns
       PROVE  /\ Quiet(link'[d], link[d]) /\ link'[d].reading = link[d].reading
              /\ ~skipped => LinkFlow(link'[d], got, begun)
              /\ Middle(link'[d]) => link'[d] = link[d]
  <2>1. Quiet(link[d], link[d]) /\ (~skipped => LinkFlow(link[d], got, begun))
    BY JTypes, QuietCases
  <2> QED
    BY <1>5, <1>7, <1>8, <1>9, <2>1 DEF Middle
<1>11. HooksOK' /\ OneBusy' /\ HeadsOK' /\ Flow'
  BY <1>1, <1>10, SilentStep
<1>12. Ready'
  BY <1>1, <1>10, ReadyLinks
<1> QED
  BY <1>1, <1>10, <1>11, <1>12 DEF Kept, SameReading

LEMMA ServerRestartsKeeps ==
    ASSUME JInv, [Next]_vars, ServerRestarts
    PROVE  /\ Kept /\ UNCHANGED <<begun, got>>
           /\ \E s \in Server : \A c \in Conns :
                 link'[c].reading = IF link[c].server = s THEN NoMessage ELSE link[c].reading
<1>1. UNCHANGED <<step, msg, blk, skipped, begun, got>>
  BY DEF ServerRestarts
<1>2. PICK s \in Server :
          link' = [c \in Conns |-> IF link[c].server = s THEN Removed(c) ELSE link[c]]
  BY DEF ServerRestarts
<1>3. ASSUME NEW d \in Conns
      PROVE  /\ Quiet(link'[d], link[d])
             /\ ~skipped => LinkFlow(link'[d], got, begun)
             /\ Middle(link'[d]) => link'[d] = link[d]
             /\ link'[d].reading = IF link[d].server = s THEN NoMessage ELSE link[d].reading
  <2>1. link[d] \in Link /\ Quiet(link[d], link[d])
        /\ (~skipped => LinkFlow(link[d], got, begun))
    BY JTypes, QuietCases
  <2>2. /\ Quiet(Removed(d), link[d]) /\ LinkFlow(Removed(d), got, begun)
        /\ Removed(d).reading = NoMessage /\ ~Middle(Removed(d))
    BY <2>1, QuietRemoved, FlowEmpty DEF Quiet, Middle
  <2> QED
    BY <1>2, <2>1, <2>2
<1>4. HooksOK' /\ OneBusy' /\ HeadsOK' /\ Flow'
  BY <1>1, <1>3, SilentStep
<1>5. Ready'
  BY <1>1, <1>3, ReadyLinks
<1> QED
  BY <1>1, <1>3, <1>4, <1>5 DEF Kept

-----------------------------------------------------------------------------
(* The steps of a server *)

\* What the outputs have of other messages does not matter to a connection.
LEMMA FlowSame ==
    ASSUME NEW l, NEW g, NEW g2, NEW b, NEW b2, b \subseteq b2,
           l.reading # NoMessage => g2[l.reading] = g[l.reading]
    PROVE  /\ LinkFlow(l, g, b) => LinkFlow(l, g2, b2)
           /\ \A u : Continues(l, g, u) => Continues(l, g2, u)
<1>1. l.reading # NoMessage =>
        Behind(l, g2) = Behind(l, g) /\ Torn(g2, l.reading) = Torn(g, l.reading)
  BY DEF Behind, Torn
<1> QED
  BY <1>1 DEF LinkFlow, Stream, Continues

\* The links but c are as they were, and c is now r.
LEMMA OneKeeps ==
    ASSUME JInv, Read, NEW c \in Conns, NEW r \in Link, link' = [link EXCEPT ![c] = r],
           begun \subseteq begun',
           \A d \in Conns \ {c} :
              link[d].reading # NoMessage => got'[link[d].reading] = got[link[d].reading],
           ~skipped => LinkFlow(r, got', begun'),
           ~skipped /\ link[c].up =>
              \A u \in Token : Continues(link[c], got, u) => Continues(r, got', u)
    PROVE  Flow' /\ Ready'
<1>1. UNCHANGED <<step, msg, blk, skipped>>
  BY DEF Read
<1>2. \A d \in Conns : link'[d] = IF d = c THEN r ELSE link[d]
  BY JTypes
<1>3. Flow'
  <2> SUFFICES ASSUME ~skipped, NEW d \in Conns PROVE LinkFlow(link'[d], got', begun')
    BY <1>1 DEF Flow
  <2>1. CASE d = c
    BY <1>2, <2>1
  <2>2. CASE d # c
    <3>1. LinkFlow(link[d], got, begun)
      BY JTypes
    <3>2. link[d].reading # NoMessage => got'[link[d].reading] = got[link[d].reading]
      BY <2>2
    <3> QED
      BY <1>2, <2>2, <3>1, <3>2, FlowSame
  <2> QED
    BY <2>1, <2>2
<1>4. Ready'
  <2>1. CASE skipped
    BY <1>1, <2>1, OutsideReady
  <2>2. CASE ~skipped
    <3>1. \A d \in Conns : Middle(link'[d]) => Middle(link[d])
      BY OthersMiddle DEF JInv
    <3>2. ASSUME NEW d \in Conns, Middle(link'[d]), NEW u \in Token, Middle(link[d]),
                 Continues(link[d], got, u)
          PROVE  Continues(link'[d], got', u)
      <4>1. CASE d = c
        BY <1>2, <2>2, <3>2, <4>1 DEF Middle
      <4>2. CASE d # c
        <5>1. link[d].reading # NoMessage => got'[link[d].reading] = got[link[d].reading]
          BY <4>2
        <5> QED
          BY <1>2, <3>2, <4>2, <5>1, FlowSame
      <4> QED
        BY <4>1, <4>2
    <3> QED
      BY <1>1, <3>1, <3>2, ReadyLinks
  <2> QED
    BY <2>1, <2>2
<1> QED
  BY <1>3, <1>4

\* A session that is removed.
LEMMA RemoveKeeps ==
    ASSUME JInv, [Next]_vars, Read, NEW c \in Conns, RemoveSession(c), UNCHANGED <<begun, got>>
    PROVE  Kept /\ link'[c].reading = NoMessage
<1> DEFINE r == Removed(c)
<1>1. link[c] \in Link /\ link \in [Conns -> Link]
  BY JTypes
<1>2. Quiet(r, link[c]) /\ r.pipe = <<>> /\ r.reading = NoMessage /\ r \in Link /\ ~r.up
  BY <1>1, QuietRemoved DEF Quiet
<1>3. link' = [link EXCEPT ![c] = r]
  BY DEF RemoveSession
<1> HIDE DEF r
<1>4. \A d \in Conns : Quiet(link'[d], link[d])
  BY <1>1, <1>2, <1>3, JTypes, QuietCases
<1>5. HooksOK' /\ OneBusy' /\ HeadsOK'
  BY <1>4, QuietStep
<1>6. LinkFlow(r, got', begun')
  BY <1>2, FlowEmpty
<1>7. \A u \in Token : Continues(r, got', u)
  BY <1>2 DEF Continues
<1>8. Flow' /\ Ready'
  BY <1>2, <1>3, <1>6, <1>7, OneKeeps
<1> QED
  BY <1>1, <1>2, <1>3, <1>5, <1>8 DEF Kept

LEMMA AcceptKeeps ==
    ASSUME JInv, [Next]_vars, Read, NEW c \in Conns, Accept(c)
    PROVE  Kept /\ SameReading /\ UNCHANGED <<begun, got>>
<1> DEFINE l == link[c]
           r == [l EXCEPT !.session = "head"]
<1>1. /\ l \in Link /\ HookOK(l) /\ link \in [Conns -> Link] /\ l.pipe \in Seq(Token)
      /\ (~skipped => LinkFlow(l, got, begun))
  BY JTypes
<1>2. l.session = "queued" /\ link' = [link EXCEPT ![c] = r] /\ UNCHANGED <<begun, got>>
  BY <1>1 DEF Accept
<1>3. l.reading = NoMessage
  BY <1>1, <1>2 DEF HookOK
<1>4. r \in Link /\ r.pipe = l.pipe /\ r.reading = NoMessage /\ r.session = "head"
  BY <1>1, <1>3 DEF Link
<1>5. r.up = l.up
  BY <1>1 DEF Link
<1> HIDE DEF r
<1>6. Quiet(r, l)
  BY <1>1, <1>3, <1>4, FewerCases DEF Quiet, HookOK, InHooks
<1>7. \A d \in Conns : Quiet(link'[d], link[d])
  BY <1>1, <1>2, <1>6, JTypes, QuietCases
<1>8. HooksOK' /\ OneBusy' /\ HeadsOK'
  BY <1>2, <1>7, QuietStep
<1>9. ~skipped => LinkFlow(r, got', begun')
  BY <1>1, <1>2, <1>4 DEF LinkFlow, Stream
<1>10. \A u \in Token : Continues(l, got, u) => Continues(r, got', u)
  BY <1>4 DEF Continues
<1>11. Flow' /\ Ready'
  BY <1>2, <1>4, <1>9, <1>10, OneKeeps
<1>12. SameReading
  BY <1>1, <1>2, <1>3, <1>4 DEF SameReading
<1> QED
  BY <1>2, <1>8, <1>11, <1>12 DEF Kept

\* A token is read and the session stays in its message or leaves it.
LEMMA ProceedKeeps ==
    ASSUME JInv, [Next]_vars, Read, NEW c \in Conns, Readable(c),
           NEW s \in {"head", "len", "data"}, NEW m \in {link[c].reading, NoMessage},
           Proceed(c, s, m), IF s = "head" THEN m = NoMessage ELSE InHooks(link[c]),
           begun' = begun, \A p \in Messages \ begun : got'[p] = got[p],
           \A d \in Conns \ {c} :
              link[d].reading # NoMessage => got'[link[d].reading] = got[link[d].reading],
           ~skipped /\ m # NoMessage /\ ~NextToken(c).cut =>
              \A u \in Token : Follows(NextToken(c), u)
                               => Follows(Behind([session |-> s, reading |-> m], got'), u),
           ~skipped /\ m # NoMessage /\ Torn(got', m) => NextToken(c).cut
    PROVE  Kept /\ link'[c].reading = m
<1> DEFINE l == link[c]
           t == NextToken(c)
           r == [l EXCEPT !.pipe = Tail(@), !.session = s, !.reading = m]
<1>1. /\ l \in Link /\ HookOK(l) /\ link \in [Conns -> Link] /\ l.pipe \in Seq(Token)
      /\ StreamOK(l) /\ (~skipped => LinkFlow(l, got, begun))
  BY JTypes
<1>2. l.pipe # <<>> /\ t = l.pipe[1]
  BY <1>1 DEF Readable, NextToken
<1>3. m \in 0 .. MaxMessages
  BY <1>1, ForwardAssumption DEF Link, NoMessage
<1>4. Tail(l.pipe) \in Seq(Token) /\ Fewer(Tail(l.pipe), l.pipe)
  <2> HIDE DEF l
  <2> QED
    BY <1>1, <1>2, FewerCases
<1>5. /\ r \in Link /\ r.pipe = Tail(l.pipe) /\ r.session = s /\ r.reading = m
      /\ r.server = l.server
  BY <1>1, <1>3, <1>4 DEF Link
<1>6. link' = [link EXCEPT ![c] = r]
  BY <1>1 DEF Proceed
<1>7. Behind(r, got') = Behind([session |-> s, reading |-> m], got')
  <2> HIDE DEF r
  <2> QED
    BY <1>5 DEF Behind
<1>8. r.up = l.up
  BY <1>1 DEF Link
<1>9. ASSUME ~skipped
      PROVE  /\ Stream(r, got')
             /\ l.up => \A u \in Token : Continues(l, got, u) => Continues(r, got', u)
  <2>1. m # NoMessage /\ ~l.pipe[1].cut =>
            \A u \in Token : Follows(l.pipe[1], u) => Follows(Behind(r, got'), u)
    BY <1>2, <1>7, <1>9
  <2>2. l \in Link /\ StreamOK(l) /\ LinkFlow(l, got, begun) /\ l.pipe # <<>>
    BY <1>1, <1>2, <1>9
  <2> HIDE DEF l, r
  <2> QED
    BY <1>5, <2>1, <2>2, StreamRead
<1>10. t.cut => Tail(l.pipe) = <<>> /\ ~l.up
  <2> HIDE DEF l
  <2>1. Len(l.pipe) \in Nat \ {0} /\ 1 \in 1 .. Len(l.pipe)
    BY <1>1, <1>2
  <2>2. t.cut => Len(l.pipe) = 1 /\ ~l.up
    BY <1>1, <1>2, <2>1 DEF StreamOK, InOrder
  <2>3. Len(Tail(l.pipe)) = Len(l.pipe) - 1 /\ Tail(l.pipe) \in Seq(Token)
    BY <1>1, <1>2
  <2>4. Len(l.pipe) = 1 => Tail(l.pipe) = <<>>
    <3> DEFINE q == Tail(l.pipe)
    <3>1. Len(l.pipe) = 1 => Len(q) = 0 /\ q \in Seq(Token)
      BY <2>3
    <3> HIDE DEF q
    <3>2. Len(l.pipe) = 1 => q = <<>>
      BY <3>1
    <3> QED
      BY <3>2 DEF q
  <2> QED
    BY <2>2, <2>4
<1>11. Quiet(r, l)
  <2> HIDE DEF r
  <2> QED
    BY <1>4, <1>5 DEF Quiet, HookOK, InHooks
<1>12. ASSUME ~skipped PROVE LinkFlow(r, got', begun')
  <2>1. m # NoMessage => m \in begun
    BY <1>1, <1>12 DEF LinkFlow
  <2>2. Stream(r, got') /\ r.up = l.up
    BY <1>8, <1>9, <1>12
  <2> HIDE DEF r, t
  <2> QED
    BY <1>5, <1>10, <1>12, <2>1, <2>2 DEF LinkFlow, t
<1> HIDE DEF r
<1>13. \A d \in Conns : Quiet(link'[d], link[d])
  BY <1>1, <1>6, <1>11, JTypes, QuietCases
<1>14. HooksOK' /\ OneBusy' /\ HeadsOK'
  BY <1>13, QuietStep
<1>15. Flow' /\ Ready'
  BY <1>5, <1>6, <1>9, <1>12, OneKeeps
<1> QED
  BY <1>1, <1>5, <1>6, <1>14, <1>15 DEF Kept

\* A head is read, whole or cut off.
LEMMA BeginKeeps ==
    ASSUME JInv, [Next]_vars, Read, NEW c \in Conns, link[c].session = "head",
           ~Busy(link[c].server), Readable(c), Begins(c, NextToken(c)), UNCHANGED got
    PROVE  LET t == NextToken(c)
           IN  /\ Kept
               /\ link'[c].reading = IF t.cut THEN NoMessage ELSE t.m
               /\ link[c].reading = NoMessage
               /\ ~t.cut => t.m \in Messages /\ t.m \notin begun
<1> DEFINE l == link[c]
           t == NextToken(c)
           m == IF t.cut THEN NoMessage ELSE t.m
           r == [l EXCEPT !.pipe = Tail(@), !.session = "len", !.reading = m]
<1>1. /\ l \in Link /\ HookOK(l) /\ link \in [Conns -> Link] /\ l.pipe \in Seq(Token)
      /\ StreamOK(l) /\ (~skipped => LinkFlow(l, got, begun)) /\ begun \in SUBSET Messages
  BY JTypes
<1>2. l.pipe # <<>> /\ t = l.pipe[1] /\ t \in Token /\ t.kind = "head" /\ t.k = 0
      /\ 1 \in 1 .. Len(l.pipe)
  <2>1. l.pipe # <<>> /\ t = l.pipe[1] /\ t.kind = "head"
    BY <1>1 DEF Readable, NextToken, Begins
  <2>2. t \in Token /\ 1 \in 1 .. Len(l.pipe)
    <3> HIDE DEF l
    <3>1. l.pipe[1] \in Token /\ 1 \in 1 .. Len(l.pipe)
      BY <1>1, <2>1
    <3> QED
      BY <2>1, <3>1
  <2>3. t.k = 0
    BY <2>1, <2>2 DEF Token
  <2> QED
    BY <2>1, <2>2, <2>3
<1>3. l.reading = NoMessage
  BY <1>1 DEF HookOK
<1>4. /\ t.m \in Messages /\ m \in 0 .. MaxMessages /\ (m # NoMessage <=> ~t.cut)
      /\ m # NoMessage => IsHead(t, m) /\ m \in Messages
  BY <1>2, ForwardAssumption DEF Token, Messages, NoMessage, IsHead
<1>5. link' = [link EXCEPT ![c] = r] /\ UNCHANGED <<skipped, got, step, msg, blk>>
  BY <1>1 DEF Begins, Proceed, Read
<1>6. begun' = IF t.cut \/ skipped THEN begun ELSE begun \cup {t.m}
  BY DEF Begins
<1>7. Tail(l.pipe) \in Seq(Token) /\ Fewer(Tail(l.pipe), l.pipe)
  <2> HIDE DEF l, t, m
  <2> QED
    BY <1>1, <1>2, FewerCases
<1> HIDE DEF m
<1>8. /\ r \in Link /\ r.pipe = Tail(l.pipe) /\ r.session = "len" /\ r.reading = m
      /\ r.server = l.server
  BY <1>1, <1>4, <1>7 DEF Link
<1>9. r.up = l.up
  BY <1>1 DEF Link
<1> HIDE DEF r, t
<1>10. ASSUME m # NoMessage
       PROVE  /\ m \in Messages \ begun /\ HeadIn(l.pipe, m) /\ got[m] = <<>>
              /\ ~HeadIn(r.pipe, m)
              /\ \A d \in Conns \ {c} : ~Carries(link[d], m)
  <2>1. IsHead(l.pipe[1], m) /\ m \in Messages
    BY <1>2, <1>4, <1>10
  <2>2. HeadIn(l.pipe, m)
    BY <1>2, <2>1 DEF HeadIn
  <2>3. m \in Messages \ begun /\ got[m] = <<>>
    BY <2>1, <2>2 DEF JInv, HeadsOK
  <2>4. \A d \in Conns \ {c} : ~Carries(link[d], m)
    BY <2>1, <2>2 DEF JInv, HeadsOK, Carries
  <2>5. ~HeadIn(r.pipe, m)
    <3>1. \A n \in 1 .. Len(Tail(l.pipe)) :
              n + 1 \in 1 .. Len(l.pipe) /\ n + 1 # 1 /\ Tail(l.pipe)[n] = l.pipe[n + 1]
      <4> HIDE DEF l
      <4> QED
        BY <1>1, <1>2
    <3>2. OneHead(l.pipe)
      BY DEF JInv, HeadsOK
    <3> HIDE DEF l
    <3> QED
      BY <1>2, <1>8, <2>1, <3>1, <3>2 DEF HeadIn, OneHead
  <2> QED
    BY <2>2, <2>3, <2>4, <2>5
<1>11. \A d \in Conns : link'[d] = IF d = c THEN r ELSE link[d]
  BY <1>1, <1>5
<1>12. HooksOK'
  BY <1>8, <1>11 DEF JInv, HooksOK
<1>13. OneBusy'
  <2>1. \A d \in Conns : link[d].server = l.server => ~InHooks(link[d])
    BY DEF Busy, InHooks
  <2> QED
    BY <1>8, <1>11, <2>1 DEF JInv, OneBusy, InHooks
<1>14. HeadsOK'
  <2>1. \A p \in Messages : Sent(p) => Sent(p)'
    BY SentKept DEF JInv
  <2>2. /\ OneHead(r.pipe)
        /\ \A p \in Messages : HeadIn(r.pipe, p) => HeadIn(l.pipe, p)
    <3>1. OneHead(l.pipe)
      BY DEF JInv, HeadsOK
    <3> HIDE DEF l
    <3> QED
      BY <1>1, <1>7, <1>8, <3>1, FewerMeans
  <2>3. \A p \in Messages : Carries(r, p) => Carries(l, p)
    BY <1>4, <1>8, <1>10, <2>2 DEF Carries, Messages, NoMessage
  <2>4. begun' = begun \/ (begun' = begun \cup {m} /\ m # NoMessage)
    BY <1>4, <1>6 DEF m
  <2>5. ASSUME NEW p \in begun' PROVE Sent(p)'
    <3>1. CASE p \in begun
      BY <1>1, <2>1, <3>1 DEF JInv, HeadsOK
    <3>2. CASE p = m /\ m # NoMessage
      BY <1>10, <2>1, <3>2 DEF JInv, HeadsOK, Carries
    <3> QED
      BY <2>4, <2>5, <3>1, <3>2
  <2>6. \A p \in Messages \ begun' : got'[p] = <<>>
    BY <1>5, <2>4 DEF JInv, HeadsOK
  <2>7. \A d \in Conns : OneHead(link'[d].pipe)
    BY <1>11, <2>2 DEF JInv, HeadsOK
  <2>8. ASSUME NEW p \in Messages, NEW d \in Conns
        PROVE  /\ Carries(link'[d], p) => Carries(link[d], p)
               /\ HeadIn(link'[d].pipe, p) => p \notin begun' /\ link'[d].reading # p
    <3>1. Carries(link'[d], p) => Carries(link[d], p)
      BY <1>11, <2>3
    <3>2. ASSUME HeadIn(link'[d].pipe, p) PROVE p \notin begun' /\ link'[d].reading # p
      <4>1. HeadIn(link[d].pipe, p)
        BY <1>11, <2>2, <3>2
      <4>2. p \notin begun /\ link[d].reading # p
        BY <4>1 DEF JInv, HeadsOK
      <4>3. m # NoMessage => p # m
        BY <1>8, <1>10, <1>11, <3>2, <4>1 DEF Carries
      <4>4. p # NoMessage
        BY DEF Messages, NoMessage
      <4> QED
        BY <1>8, <1>11, <2>4, <4>2, <4>3, <4>4
    <3> QED
      BY <3>1, <3>2
  <2> QED
    BY <2>1, <2>5, <2>6, <2>7, <2>8 DEF JInv, HeadsOK
<1>15. ASSUME ~skipped
       PROVE  /\ Stream(r, got)
              /\ l.up => \A u \in Token : Continues(l, got, u) => Continues(r, got, u)
  <2>1. ASSUME m # NoMessage, NEW u \in Token, Follows(t, u) PROVE Follows(Behind(r, got), u)
    <3>1. Behind(r, got) = [kind |-> "data", m |-> m, k |-> 0]
      BY <1>8, <1>10, <2>1 DEF Behind
    <3>2. t.m = m
      BY <1>4, <2>1 DEF m
    <3> QED
      BY <1>2, <2>1, <3>1, <3>2 DEF Follows
  <2>2. LinkFlow(l, got, begun)
    BY <1>1, <1>15
  <2> HIDE DEF l
  <2> QED
    BY <1>1, <1>2, <1>8, <2>1, <2>2, StreamRead
<1>16. ASSUME ~skipped PROVE LinkFlow(r, got', begun')
  <2>1. m # NoMessage => m \in begun' /\ ~Torn(got, m)
    BY <1>4, <1>6, <1>10, <1>16 DEF m, Torn
  <2> QED
    BY <1>5, <1>8, <1>15, <1>16, <2>1 DEF LinkFlow
<1>17. Flow' /\ Ready'
  <2>1. begun \subseteq begun'
    BY <1>6
  <2>2. \A d \in Conns \ {c} :
           link[d].reading # NoMessage => got'[link[d].reading] = got[link[d].reading]
    BY <1>5
  <2> QED
    BY <1>5, <1>8, <1>15, <1>16, <2>1, <2>2, OneKeeps
<1>18. link'[c].reading = m
  BY <1>8, <1>11
<1>19. ~t.cut => t.m = m /\ m # NoMessage
  BY <1>4 DEF m
<1> QED
  BY <1>3, <1>10, <1>12, <1>13, <1>14, <1>17, <1>18, <1>19 DEF Kept, m, t

-----------------------------------------------------------------------------
(* The steps of a MessageChannel *)

ChannelStep == [Channel!Next]_Channel!vars

LEMMA Stutter ==
    ASSUME \A m \in Messages : StateOf(m)' = StateOf(m), got' = got PROVE ChannelStep
BY DEF ChannelStep, Channel!vars

LEMMA SameState ==
    ASSUME SameReading, UNCHANGED <<begun, got>> PROVE ChannelStep
<1>1. \A m \in Messages : StateOf(m)' = StateOf(m)
  BY DEF SameReading, StateOf
<1> QED
  BY <1>1, Stutter

\* A session leaves its message: the outputs hear the end of it.
LEMMA LeaveStep ==
    ASSUME JInv, UNCHANGED <<begun, got>>, NEW c \in Conns, link'[c].reading = NoMessage,
           \A d \in Conns \ {c} : link'[d].reading = link[d].reading
    PROVE  ChannelStep
<1>1. PICK m : m = link[c].reading
  OBVIOUS
<1>2. m = NoMessage \/ m \in Messages
  BY <1>1, JTypes DEF Link, Messages, NoMessage
<1>3. CASE m = NoMessage
  BY <1>1, <1>3, SameState DEF SameReading
<1>4. ASSUME m \in Messages PROVE m # NoMessage /\ \A d \in Conns \ {c} : link[d].reading # m
  <2>1. Carries(link[c], m)
    BY <1>1 DEF Carries
  <2> QED
    BY <1>1, <1>4, <2>1 DEF JInv, HeadsOK, Carries, Messages, NoMessage
<1>5. ASSUME m \in Messages, NEW p \in Messages, p # m PROVE StateOf(p)' = StateOf(p)
  <2>1. \A d \in Conns : link'[d].reading = p <=> link[d].reading = p
    BY <1>1, <1>5 DEF Messages, NoMessage
  <2> QED
    BY <2>1 DEF StateOf
<1>6. CASE m \in Messages /\ m \notin begun
  <2>1. StateOf(m)' = StateOf(m)
    BY <1>6 DEF StateOf
  <2> QED
    BY <1>5, <1>6, <2>1, Stutter
<1>7. CASE m \in Messages /\ m \in begun
  <2>1. StateOf(m) \in {"open", "torn"}
    BY <1>1, <1>7 DEF StateOf
  <2>2. StateOf(m)' = "closed"
    <3>1. \A d \in Conns : link'[d].reading # m
      BY <1>1, <1>4, <1>7 DEF Messages, NoMessage
    <3> QED
      BY <1>7, <3>1 DEF StateOf
  <2>3. Channel!End(m)
    BY <1>5, <1>7, <2>1, <2>2 DEF Channel!End
  <2> QED
    BY <1>7, <2>3 DEF ChannelStep, Channel!Next
<1> QED
  BY <1>2, <1>3, <1>6, <1>7

\* A server ends: it was in one message at most.
LEMMA EndsStep ==
    ASSUME JInv, UNCHANGED <<begun, got>>, NEW s \in Server,
           \A c \in Conns :
              link'[c].reading = IF link[c].server = s THEN NoMessage ELSE link[c].reading
    PROVE  ChannelStep
<1>1. CASE \A c \in Conns : link[c].server = s => link[c].reading = NoMessage
  <2>1. SameReading
    BY <1>1 DEF SameReading
  <2> QED
    BY <2>1, SameState
<1>2. ASSUME NEW c \in Conns, link[c].server = s, link[c].reading # NoMessage
      PROVE  ChannelStep
  <2>1. ASSUME NEW d \in Conns \ {c} PROVE link'[d].reading = link[d].reading
    BY <1>2 DEF JInv, HooksOK, OneBusy, InHooks
  <2> QED
    BY <1>2, <2>1, LeaveStep
<1> QED
  BY <1>1, <1>2

\* A session begins a message: nobody did before.
LEMMA BeginStep ==
    ASSUME JInv, NEW c \in Conns, NEW m \in Messages, m \notin begun,
           link[c].reading = NoMessage, link'[c].reading = m,
           \A d \in Conns \ {c} : link'[d].reading = link[d].reading,
           got' = got, begun' = IF skipped THEN begun ELSE begun \cup {m}
    PROVE  ChannelStep
<1>1. ASSUME NEW p \in Messages, p # m PROVE StateOf(p)' = StateOf(p)
  <2>1. \A d \in Conns : link'[d].reading = p <=> link[d].reading = p
    BY <1>1 DEF Messages, NoMessage
  <2>2. p \in begun' <=> p \in begun
    BY <1>1
  <2> QED
    BY <2>1, <2>2 DEF StateOf
<1>2. StateOf(m) = "new" /\ got[m] = <<>>
  BY DEF StateOf, JInv, HeadsOK
<1>3. CASE skipped
  <2>1. StateOf(m)' = "new"
    BY <1>3 DEF StateOf
  <2> QED
    BY <1>1, <1>2, <2>1, Stutter
<1>4. CASE ~skipped
  <2>1. StateOf(m)' = "open"
    BY <1>2, <1>4 DEF StateOf
  <2>2. Channel!Begin(m)
    BY <1>1, <1>2, <2>1 DEF Channel!Begin
  <2> QED
    BY <2>2 DEF ChannelStep, Channel!Next
<1> QED
  BY <1>3, <1>4

\* The outputs take the next block of a message, or what there is of it.
LEMMA TakeStep ==
    ASSUME JInv, SameReading, UNCHANGED begun, NEW m \in begun, NEW c \in Conns,
           link[c].reading = m, ~Torn(got, m),
           NEW cut \in BOOLEAN, Len(got[m]) + 1 \in 1 .. MaxBlocks,
           got' = [got EXCEPT ![m] = Append(@, [m |-> m, k |-> Len(@) + 1, cut |-> cut])]
    PROVE  ChannelStep
<1> DEFINE b == [m |-> m, k |-> Len(got[m]) + 1, cut |-> cut]
<1>1. m \in Messages /\ got \in [Messages -> Seq(Block)]
  BY JTypes DEF JInv, IInv, TypeOK
<1>2. got'[m] = Append(got[m], b) /\ \A p \in Messages \ {m} : got'[p] = got[p]
  BY <1>1
<1>3. got'[m] # <<>> /\ got'[m][Len(got'[m])] = b
  <2>1. got[m] \in Seq(Block)
    BY <1>1
  <2>2. Len(got[m]) + 1 \in 1 .. MaxBlocks
    OBVIOUS
  <2>3. b \in Block
    BY <1>1, <2>2 DEF Block
  <2> HIDE DEF b
  <2> QED
    BY <1>2, <2>1, <2>3
<1>4. \A p \in Messages \ {m} : StateOf(p)' = StateOf(p)
  BY <1>2 DEF StateOf, SameReading
<1>5. StateOf(m) = "open"
  BY DEF StateOf, Torn
<1>6. StateOf(m)' = IF cut THEN "torn" ELSE "open"
  <2>1. link'[c].reading = m /\ m \in begun'
    BY DEF SameReading
  <2>2. (got'[m] # <<>> /\ got'[m][Len(got'[m])].cut) <=> cut
    BY <1>3
  <2> QED
    BY <2>1, <2>2 DEF StateOf
<1>7. Channel!Take(m)
  <2>1. Len(got[m]) < MaxBlocks
    <3>1. Len(got[m]) \in Nat
      BY <1>1
    <3> QED
      BY <3>1, ForwardAssumption
  <2>2. [p \in Messages |-> StateOf(p)]' =
            [[p \in Messages |-> StateOf(p)] EXCEPT ![m] = IF cut THEN "torn" ELSE "open"]
    BY <1>1, <1>4, <1>6
  <2>3. [p \in Messages |-> StateOf(p)][m] = "open"
    BY <1>1, <1>5
  <2> QED
    BY <2>1, <2>2, <2>3 DEF Channel!Take
<1> QED
  BY <1>1, <1>7 DEF ChannelStep, Channel!Next

-----------------------------------------------------------------------------
(* Every step *)

\* A server reads: the session stays in its message or leaves it.
LEMMA StayStep ==
    ASSUME JInv, [Next]_vars, Read, UNCHANGED <<begun, got>>, NEW c \in Conns, Readable(c),
           NEW s \in {"head", "len", "data"}, NEW m \in {link[c].reading, NoMessage},
           Proceed(c, s, m), IF s = "head" THEN m = NoMessage ELSE InHooks(link[c]),
           ~skipped /\ m # NoMessage /\ ~NextToken(c).cut =>
              \A u \in Token : Follows(NextToken(c), u)
                               => Follows(Behind([session |-> s, reading |-> m], got), u)
    PROVE  Kept /\ ChannelStep
<1>1. link \in [Conns -> Link] /\ (~skipped => LinkFlow(link[c], got, begun))
  BY JTypes
<1>2. ASSUME ~skipped, m # NoMessage, Torn(got, m) PROVE FALSE
  BY <1>1, <1>2 DEF LinkFlow, Readable
<1>3. Kept /\ link'[c].reading = m
  BY <1>2, ProceedKeeps
<1>4. \A d \in Conns \ {c} : link'[d].reading = link[d].reading
  BY <1>1 DEF Proceed
<1>5. ChannelStep
  <2>1. CASE m = NoMessage
    BY <1>3, <1>4, <2>1, LeaveStep
  <2>2. CASE m = link[c].reading
    <3>1. SameReading
      BY <1>3, <1>4, <2>2 DEF SameReading
    <3> QED
      BY <3>1, SameState
  <2> QED
    BY <2>1, <2>2
<1> QED
  BY <1>3, <1>5

\* A block is handed to the outputs.
LEMMA BlockStep ==
    ASSUME JInv, [Next]_vars, Read, ~skipped, UNCHANGED begun, NEW c \in Conns, Readable(c),
           link[c].session = "data", link[c].reading # NoMessage,
           Proceed(c, "len", link[c].reading),
           got' = [got EXCEPT ![link[c].reading] = Append(@, Contents(NextToken(c)))]
    PROVE  Kept /\ ChannelStep
<1> DEFINE l == link[c]
<1>1. PICK m : m = l.reading
  OBVIOUS
<1>2. PICK t : t = NextToken(c)
  OBVIOUS
<1>3. /\ l \in Link /\ link \in [Conns -> Link] /\ l.pipe \in Seq(Token) /\ StreamOK(l)
      /\ LinkFlow(l, got, begun) /\ begun \in SUBSET Messages
      /\ got \in [Messages -> Seq(Block)]
  BY JTypes DEF JInv, IInv, TypeOK
<1>4. /\ m # NoMessage /\ m \in begun /\ m \in Messages
      /\ l.pipe # <<>> /\ t = l.pipe[1]
  BY <1>1, <1>2, <1>3 DEF LinkFlow, Readable, NextToken
<1>5. t \in Token /\ t.kind = "data" /\ t.cut \in BOOLEAN
  <2>1. l.pipe[1] \in Token
    <3> HIDE DEF l
    <3> QED
      BY <1>3, <1>4
  <2>2. t.kind = "data"
    BY <1>3, <1>4 DEF StreamOK
  <2> QED
    BY <1>4, <2>1, <2>2 DEF Token
<1>6. t.m = m /\ t.k = Len(got[m]) + 1 /\ t.k \in 1 .. MaxBlocks
  <2>1. Follows(Behind(l, got), t)
    BY <1>1, <1>3, <1>4 DEF LinkFlow, Stream
  <2>2. Behind(l, got) = [kind |-> "len", m |-> m, k |-> Len(got[m]) + 1]
    BY <1>1 DEF Behind
  <2>3. t.k \in 1 .. MaxBlocks
    BY <1>5 DEF Token
  <2> QED
    BY <2>1, <2>2, <2>3 DEF Follows
<1>7. ~Torn(got, m)
  BY <1>1, <1>3, <1>4 DEF LinkFlow
<1>8. got' = [got EXCEPT ![m] = Append(@, [m |-> m, k |-> Len(@) + 1, cut |-> t.cut])]
  BY <1>1, <1>2, <1>3, <1>4, <1>6 DEF Contents
<1>9. \A d \in Conns \ {c} : link[d].reading # m
  <2>1. Carries(l, m)
    BY <1>1 DEF Carries
  <2> QED
    BY <1>4, <2>1 DEF JInv, HeadsOK, Carries
<1>10. /\ \A p \in Messages \ {m} : got'[p] = got[p]
       /\ \A d \in Conns \ {c} :
             link[d].reading # NoMessage => got'[link[d].reading] = got[link[d].reading]
  <2>1. \A p \in Messages \ {m} : got'[p] = got[p]
    BY <1>3, <1>8
  <2>2. \A d \in Conns : link[d].reading # NoMessage => link[d].reading \in Messages
    BY JTypes DEF Link, Messages, NoMessage
  <2> QED
    BY <1>9, <2>1, <2>2
<1>11. /\ Len(got'[m]) = Len(got[m]) + 1
       /\ Torn(got', m) => t.cut
  <2> DEFINE b == [m |-> m, k |-> Len(got[m]) + 1, cut |-> t.cut]
  <2>1. got[m] \in Seq(Block) /\ b \in Block /\ got'[m] = Append(got[m], b)
    BY <1>3, <1>4, <1>5, <1>6, <1>8 DEF Block
  <2>2. b.cut = t.cut
    OBVIOUS
  <2> HIDE DEF b
  <2>3. Len(got'[m]) = Len(got[m]) + 1 /\ got'[m][Len(got'[m])] = b
    BY <2>1
  <2> QED
    BY <2>2, <2>3 DEF Torn
<1>12. ASSUME NEW u \in Token, Follows(t, u)
       PROVE  Follows(Behind([session |-> "len", reading |-> m], got'), u)
  <2>1. Behind([session |-> "len", reading |-> m], got') = [kind |-> "data", m |-> m, k |-> t.k]
    BY <1>6, <1>11 DEF Behind
  <2> QED
    BY <1>5, <1>6, <1>12, <2>1 DEF Follows
<1>13. Kept /\ link'[c].reading = m
  <2>1. InHooks(link[c]) /\ Proceed(c, "len", m)
    BY <1>1 DEF InHooks
  <2>2. \A p \in Messages \ begun : got'[p] = got[p]
    BY <1>4, <1>10
  <2>3. m \in {link[c].reading, NoMessage}
    BY <1>1
  <2> QED
    BY <1>2, <1>10, <1>11, <1>12, <2>1, <2>2, <2>3, ProceedKeeps
<1>14. SameReading
  BY <1>1, <1>3, <1>13 DEF SameReading, Proceed
<1>15. ChannelStep
  BY <1>1, <1>4, <1>5, <1>6, <1>7, <1>8, <1>14, TakeStep
<1> QED
  BY <1>13, <1>15

LEMMA ReadStep ==
    ASSUME JInv, [Next]_vars, Read PROVE Kept /\ ChannelStep
<1>1. PICK c \in Conns : Rejects(c) \/ Accept(c) \/ ReadHead(c) \/ ReadLen(c) \/ ReadData(c)
  BY DEF Read
<1> DEFINE l == link[c]
           t == NextToken(c)
<1>2. /\ l \in Link /\ HookOK(l) /\ link \in [Conns -> Link] /\ l.pipe \in Seq(Token)
      /\ StreamOK(l) /\ (~skipped => LinkFlow(l, got, begun))
  BY JTypes
<1>3. Readable(c) => l.pipe # <<>> /\ t = l.pipe[1]
  BY <1>2 DEF Readable, NextToken
<1>4. ASSUME RemoveSession(c), UNCHANGED <<begun, got>> PROVE Kept /\ ChannelStep
  <2>1. Kept /\ link'[c].reading = NoMessage
    BY <1>4, RemoveKeeps
  <2>2. \A d \in Conns \ {c} : link'[d].reading = link[d].reading
    BY <1>2, <1>4 DEF RemoveSession
  <2> QED
    BY <1>4, <2>1, <2>2, LeaveStep
<1>5. ASSUME Readable(c), Proceed(c, "head", NoMessage), UNCHANGED <<begun, got>>
      PROVE  Kept /\ ChannelStep
  BY <1>5, StayStep
<1>6. CASE Rejects(c)
  BY <1>5, <1>6 DEF Rejects
<1>7. CASE Accept(c)
  BY <1>7, AcceptKeeps, SameState
<1>8. CASE ReadHead(c)
  <2>1. CASE RemoveSession(c) /\ UNCHANGED begun
    BY <1>4, <1>8, <2>1 DEF ReadHead
  <2>2. CASE Readable(c) /\ Begins(c, NextToken(c))
    <3>1. l.session = "head" /\ ~Busy(l.server) /\ UNCHANGED got
      BY <1>8 DEF ReadHead
    <3>2. /\ Kept
          /\ link'[c].reading = IF t.cut THEN NoMessage ELSE t.m
          /\ link[c].reading = NoMessage
          /\ ~t.cut => t.m \in Messages /\ t.m \notin begun
      BY <2>2, <3>1, BeginKeeps
    <3>3. \A d \in Conns \ {c} : link'[d].reading = link[d].reading
      BY <1>2, <2>2 DEF Begins, Proceed
    <3>4. begun' = IF t.cut \/ skipped THEN begun ELSE begun \cup {t.m}
      BY <2>2 DEF Begins
    <3>5. CASE t.cut
      BY <3>1, <3>2, <3>3, <3>4, <3>5, SameState DEF SameReading
    <3>6. CASE ~t.cut
      <4>1. PICK m \in Messages : m = t.m
        BY <3>2, <3>6
      <4> QED
        BY <3>1, <3>2, <3>3, <3>4, <3>6, <4>1, BeginStep
    <3> QED
      BY <3>5, <3>6
  <2> QED
    BY <1>8, <2>1, <2>2 DEF ReadHead
<1>9. CASE ReadLen(c)
  <2>1. l.session = "len" /\ UNCHANGED <<begun, got>>
    BY <1>9 DEF ReadLen
  <2>2. CASE RemoveSession(c)
    BY <1>4, <2>1, <2>2
  <2>3. CASE Readable(c) /\ Proceed(c, "head", NoMessage)
    BY <1>5, <2>1, <2>3
  <2>4. CASE Readable(c) /\ IsLength(t) /\ Proceed(c, "data", l.reading)
    <3> DEFINE m == l.reading
    <3>1. ASSUME ~skipped, m # NoMessage, ~t.cut, NEW u \in Token, Follows(t, u)
          PROVE  Follows(Behind([session |-> "data", reading |-> m], got), u)
      <4>1. t.kind = "len"
        BY <2>4, <3>1 DEF IsLength
      <4>2. Follows(Behind(l, got), t)
        BY <1>2, <1>3, <2>4, <3>1 DEF LinkFlow, Stream
      <4>3. Behind(l, got) = [kind |-> "data", m |-> m, k |-> Len(got[m])]
        BY <2>1 DEF Behind
      <4>4. t.m = m /\ t.k = Len(got[m]) + 1
        BY <4>1, <4>2, <4>3 DEF Follows
      <4>5. Behind([session |-> "data", reading |-> m], got)
                = [kind |-> "len", m |-> m, k |-> Len(got[m]) + 1]
        BY DEF Behind
      <4> QED
        BY <3>1, <4>1, <4>4, <4>5 DEF Follows
    <3>2. InHooks(link[c]) /\ m \in {link[c].reading, NoMessage}
      BY <2>1 DEF InHooks
    <3> HIDE DEF m
    <3>3. Proceed(c, "data", m)
      BY <2>4 DEF m
    <3> QED
      BY <2>1, <2>4, <3>1, <3>2, <3>3, StayStep
  <2> QED
    BY <1>9, <2>2, <2>3, <2>4 DEF ReadLen
<1>10. CASE ReadData(c)
  <2>1. l.session = "data" /\ UNCHANGED begun
    BY <1>10 DEF ReadData
  <2>2. CASE RemoveSession(c) /\ UNCHANGED got
    BY <1>4, <2>1, <2>2
  <2>3. CASE Readable(c) /\ Proceed(c, "len", l.reading) /\ (l.reading = NoMessage \/ skipped)
             /\ UNCHANGED got
    <3>1. InHooks(link[c]) /\ link[c].reading \in {link[c].reading, NoMessage}
      BY <2>1 DEF InHooks
    <3> QED
      BY <2>1, <2>3, <3>1, StayStep
  <2>4. CASE /\ Readable(c) /\ Proceed(c, "len", l.reading)
             /\ ~(l.reading = NoMessage \/ skipped)
             /\ got' = [got EXCEPT ![l.reading] = Append(@, Contents(t))]
    BY <2>1, <2>4, BlockStep
  <2> QED
    BY <1>10, <2>2, <2>3, <2>4 DEF ReadData
<1> QED
  BY <1>1, <1>6, <1>7, <1>8, <1>9, <1>10

LEMMA JInit == Init => JInv /\ Channel!Init
<1> SUFFICES ASSUME Init PROVE JInv /\ Channel!Init
  OBVIOUS
<1>1. \A c \in Conns : link[c] = Unused
  BY DEF Init
<1>2. InStep /\ HooksOK /\ OneBusy
  BY <1>1 DEF InStep, HooksOK, OneBusy, InHooks, Unused
<1>3. \A m \in Messages : \A c \in Conns : ~Carries(link[c], m) /\ ~HeadIn(link[c].pipe, m)
  BY <1>1 DEF Carries, HeadIn, Unused, Messages, NoMessage
<1>4. HeadsOK
  <2>1. begun = {} /\ \A m \in Messages : got[m] = <<>>
    BY DEF Init
  <2>2. \A c \in Conns : OneHead(link[c].pipe)
    BY <1>1 DEF OneHead, Unused
  <2> QED
    BY <1>3, <2>1, <2>2 DEF HeadsOK
<1>5. Flow /\ Ready
  BY <1>1 DEF Flow, LinkFlow, Stream, Ready, Middle, Unused
<1>6. Channel!Init
  BY DEF Init, Channel!Init, StateOf
<1> QED
  BY <1>2, <1>4, <1>5, <1>6, InitInv DEF JInv

LEMMA JStep ==
    ASSUME JInv, [Next]_vars PROVE JInv' /\ ChannelStep
<1>1. IInv' /\ InStep'
  BY InvStep, InStepStep DEF JInv
<1>2. Kept /\ ChannelStep
  <2>1. CASE UNCHANGED vars
    <3>1. UNCHANGED <<begun, got, skipped, link, step, msg, blk>>
      BY <2>1 DEF vars
    <3>2. \A c \in Conns : /\ Quiet(link'[c], link[c])
                           /\ ~skipped => LinkFlow(link'[c], got, begun)
      BY <3>1, JTypes, QuietCases
    <3>3. HooksOK' /\ OneBusy' /\ HeadsOK' /\ Flow'
      BY <3>1, <3>2, SilentStep
    <3>4. Ready'
      BY <3>1, ReadyLinks
    <3> QED
      BY <3>1, <3>3, <3>4, SameState DEF Kept, SameReading
  <2>2. CASE Elsewhere \/ OnOutputPluginEvent \/ SenderRestarts
    BY <2>2, SenderKeeps, SameState
  <2>3. CASE SendHead \/ SendLen \/ SendData \/ SendEob
    BY <2>3, SendKeeps, SameState
  <2>4. CASE Break
    BY <2>4, BreakKeeps, SameState
  <2>5. CASE ServerRestarts
    BY <2>5, ServerRestartsKeeps, EndsStep
  <2>6. CASE Read
    BY <2>6, ReadStep
  <2> QED
    BY <2>1, <2>2, <2>3, <2>4, <2>5, <2>6 DEF Next, Sending, Elsewhere
<1> QED
  BY <1>1, <1>2 DEF JInv, Kept

-----------------------------------------------------------------------------
(* The theorem *)

\* Until a message is given up, the servers together pass on each message at
\* most once, at one of them, its blocks in order and unmixed: what
\* CheckAndConnectForwardSocket and the three hooks of output-tcp send again
\* elsewhere, and what input-tcp makes of pieces, restarts and rejected
\* messages, is a MessageChannel, for any number of servers and faults.
THEOREM ForwardsAlways == Spec => Forwards
<1>1. Init => JInv /\ Channel!Init
  BY JInit
<1>2. JInv /\ [Next]_vars => JInv' /\ [Channel!Next]_Channel!vars
  BY JStep DEF ChannelStep
<1> QED
  BY <1>1, <1>2, PTL DEF Spec, Forwards, Channel!Spec
=============================================================================
