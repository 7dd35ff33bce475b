---------------------------- MODULE OutputEs_proofs ----------------------------
(***************************************************************************)
(* The resend loop of output-es, for any text, template, number of         *)
(* documents, faults and answers, and any size of the response buffer,     *)
(* which grows as it fills: RequestHttp returns 0 only for a request that  *)
(* was answered, with the status and the body of that answer if the parser *)
(* did not go astray; hence the documents reach the server in order and    *)
(* without a gap, and are sent twice only after a fault, astray or not;    *)
(* and no more is received, or collected in lines, than a buffer holds.    *)
(***************************************************************************)
EXTENDS OutputEs, HttpClient_proofs

-----------------------------------------------------------------------------
(* The inductive invariant *)

SomeSeq(s) == \E S : s \in Seq(S)

\* The number of the last document that is done with.
Base == Len(made) - Len(post)

\* post_buffer holds the latest documents, in order and without a gap.
Numbered ==
    /\ SomeSeq(post) /\ SomeSeq(made)
    /\ Len(post) <= Len(made)
    /\ \A k \in 1 .. Len(post) : post[k].no = Base + k

\* The server knows all that is done with, and perhaps some of post_buffer.
Known ==
    /\ served \in [from : Int, to : Nat]
    /\ \/ served.to = Base
       \/ served.from = Base + 1 /\ served.to \in Base + 1 .. Len(made)

\* No request is half-way to the server outside of RequestHttp, nor one that it
\* has answered.
Underway ==
    /\ pc # "post" => http = "idle"
    /\ left \in Nat /\ got \in Nat
    /\ http = "idle" => got = 0
    /\ http = "send" => left > 0 /\ got + left <= Request
    /\ http # "idle" /\ answer # <<>> => got = 0 /\ http # "send"

\* The answer to this request is to all of post_buffer.
AllKnown == http # "idle" /\ answer # <<>> => post = <<>> \/ served.to = Len(made)

IInv == Numbered /\ Known /\ Underway /\ AllKnown

-----------------------------------------------------------------------------
(* The documents *)

LEMMA KeptPost ==
    ASSUME Numbered, Known, UNCHANGED <<post, made, served>>
    PROVE  Numbered' /\ Known'
BY DEF Numbered, Known, Base, SomeSeq

\* A document is put behind the others.
LEMMA AddedPost ==
    ASSUME Numbered, Known, served' = served, NEW text,
           post' = Append(post, [no |-> Len(made) + 1, text |-> text]),
           made' = Append(made, text)
    PROVE  Numbered' /\ Known'
<1> DEFINE doc == [no |-> Len(made) + 1, text |-> text]
<1>1. PICK S : post \in Seq(S)
  BY DEF Numbered, SomeSeq
<1>2. PICK T : made \in Seq(T)
  BY DEF Numbered, SomeSeq
<1>3. /\ post' \in Seq(S \cup {doc}) /\ Len(post') = Len(post) + 1
      /\ \A k \in 1 .. Len(post) : post'[k] = post[k]
      /\ post'[Len(post) + 1] = doc
  <2>1. post \in Seq(S \cup {doc})
    BY <1>1
  <2> QED BY <2>1, AppendProperties
<1>4. made' \in Seq(T \cup {text}) /\ Len(made') = Len(made) + 1
  <2>1. made \in Seq(T \cup {text})
    BY <1>2
  <2> QED BY <2>1, AppendProperties
<1>5. Len(post) \in Nat /\ Len(made) \in Nat
  BY <1>1, <1>2
<1>6. Base' = Base /\ Base \in Nat
  BY <1>3, <1>4, <1>5 DEF Base, Numbered
<1>7. Numbered'
  <2> SUFFICES ASSUME NEW k \in 1 .. Len(post) + 1 PROVE post'[k].no = Base + k
    BY <1>3, <1>4, <1>5, <1>6 DEF Numbered, SomeSeq
  <2>1. CASE k = Len(post) + 1
    BY <1>3, <1>5, <2>1 DEF Base
  <2>2. CASE k \in 1 .. Len(post)
    BY <1>3, <2>2 DEF Numbered
  <2> QED BY <1>5, <2>1, <2>2
<1>8. Known'
  BY <1>4, <1>5, <1>6 DEF Known
<1> QED BY <1>7, <1>8

LEMMA ParsedPost ==
    ASSUME Numbered, Known, served' = served, NEW buf, NEW next,
           ParseCombineBuffer(buf, next)
    PROVE  Numbered' /\ Known'
<1>1. \/ UNCHANGED <<post, made>>
      \/ \E text : /\ post' = Append(post, [no |-> Len(made) + 1, text |-> text])
                   /\ made' = Append(made, text)
  BY DEF ParseCombineBuffer
<1> QED BY <1>1, KeptPost, AddedPost

\* All documents are done with.
LEMMA EmptiedPost ==
    ASSUME Numbered, Known, post' = <<>>, UNCHANGED <<made, served>>,
           post = <<>> \/ served.to = Len(made)
    PROVE  Numbered' /\ Known'
<1>1. Len(made) \in Nat /\ Len(post) \in Nat
  BY DEF Numbered, SomeSeq
<1>2. served.to = Len(made)
  BY <1>1 DEF Known, Base
<1>3. Numbered'
  <2>1. post' \in Seq({}) /\ Len(post') = 0
    OBVIOUS
  <2> QED BY <1>1, <2>1 DEF Numbered, SomeSeq, Base
<1> QED BY <1>1, <1>2, <1>3 DEF Known, Base

\* The server carries a request out: the step of AtLeastOnce.
LEMMA ServedPost ==
    ASSUME Numbered, Known, UNCHANGED <<post, made>>, post # <<>>,
           served' = [from |-> post[1].no, to |-> post[Len(post)].no]
    PROVE  Numbered' /\ Known' /\ served'.to = Len(made) /\ Log!Next
<1>1. PICK S : post \in Seq(S)
  BY DEF Numbered, SomeSeq
<1>2. Len(post) \in Nat \ {0} /\ Len(made) \in Nat
  BY <1>1 DEF Numbered, SomeSeq
<1>3. served' = [from |-> Base + 1, to |-> Len(made)]
  <2>1. 1 \in 1 .. Len(post) /\ Len(post) \in 1 .. Len(post)
    BY <1>2
  <2>2. post[1].no = Base + 1 /\ post[Len(post)].no = Base + Len(post)
    BY <2>1 DEF Numbered
  <2>3. Base + Len(post) = Len(made)
    BY <1>2 DEF Base
  <2> QED BY <2>2, <2>3
<1>4. Base \in Nat /\ Len(made) \in Base + 1 .. Len(made)
  BY <1>2 DEF Base, Numbered
<1>5. Numbered'
  BY <1>2 DEF Numbered, Base, SomeSeq
<1>6. Known'
  BY <1>3, <1>4 DEF Known, Base
<1>7. served' \in [from : {Base + 1}, to : Nat] /\ served'.to = Len(made)
  BY <1>2, <1>3
<1>8. Log!Next
  <2>1. CASE served.to = Base
    <3>1. served' \in [from : {served.to + 1}, to : Nat] /\ served'.to > served.to
      BY <1>4, <1>7, <2>1
    <3> QED BY <3>1 DEF Log!Next, Log!Advance
  <2>2. CASE served.from = Base + 1 /\ served.to \in Base + 1 .. Len(made)
    <3>1. served' \in [from : {served.from}, to : Nat] /\ served'.to >= served.to
      BY <1>4, <1>7, <2>2
    <3> QED BY <3>1 DEF Log!Next, Log!Repeat
  <2> QED BY <2>1, <2>2 DEF Known
<1> QED BY <1>3, <1>5, <1>6, <1>8

-----------------------------------------------------------------------------
(* The steps *)

\* The lines of a block; RequestHttp is not running.
Blocks == WriteOutputPlugin \/ Fits \/ Forced \/ Replace \/ Line \/ Shift \/ LastLine

Step == IInv' /\ [Log!Next]_served

LEMMA LinesStep == IInv /\ Blocks => Step
<1> SUFFICES ASSUME IInv, Blocks PROVE Step
  OBVIOUS
<1>1. http = "idle" /\ UNCHANGED <<httpVars, served>>
  BY DEF IInv, Underway, Blocks, WriteOutputPlugin, Fits, Forced, Replace, Line, Shift,
         LastLine, netVars
<1>2. Numbered' /\ Known'
  <2>1. CASE WriteOutputPlugin \/ Fits \/ Replace \/ Shift \/ LastLine
    BY <1>1, <2>1, KeptPost
       DEF IInv, WriteOutputPlugin, Fits, Replace, Shift, LastLine, docVars
  <2>2. CASE Forced \/ Line
    BY <1>1, <2>2, ParsedPost DEF IInv, Forced, Line
  <2> QED BY <2>1, <2>2 DEF Blocks
<1>3. Underway' /\ AllKnown'
  BY <1>1 DEF IInv, Underway, AllKnown, httpVars
<1> QED BY <1>1, <1>2, <1>3 DEF Step, IInv

\* RequestHttp keeps what was read and sent of this request.
LEMMA RequestStep == IInv /\ InRequest => Step
<1> SUFFICES ASSUME IInv, InRequest PROVE Step
  OBVIOUS
<1>1. pc = "post" /\ UNCHANGED <<pc, post, made, served>>
  BY DEF InRequest, docVars
<1>2. Numbered' /\ Known'
  BY <1>1, KeptPost DEF IInv
<1>3. answer' = answer /\ http # "idle" /\ http' # "idle"
  BY ParserKeeps
     DEF InRequest, RequestHttp, Send, SendFails, TimesOut, Grow, Receive, ReceiveFails, Fails
<1>4. Underway'
  <2>1. CASE Send
    <3>1. PICK n \in 1 .. left : /\ left' = left - n
                                 /\ got' = IF conn = "open" THEN got + n ELSE got
      BY <2>1 DEF Send
    <3>2. left \in Nat /\ got \in Nat /\ got + left <= Request /\ answer = <<>>
      BY <2>1 DEF IInv, Underway, Send
    <3>3. left' \in Nat /\ got' \in Nat /\ got' + left' <= Request
      BY <3>1, <3>2, HttpAssumption
    <3>4. http' = "send" => left' # 0
      BY <2>1 DEF Send
    <3> QED BY <1>1, <1>3, <3>2, <3>3, <3>4 DEF Underway
  <2>2. CASE SendFails \/ TimesOut \/ Grow \/ Receive \/ ReceiveFails
    <3>1. UNCHANGED <<left, got>> /\ http' # "send"
      BY <2>2 DEF SendFails, TimesOut, Grow, Receive, ReceiveFails, Fails
    <3> QED BY <1>1, <1>3, <3>1 DEF IInv, Underway
  <2>3. CASE ParseHttpBuffer
    BY <1>1, <1>3, <2>3, ParserKeeps DEF IInv, Underway
  <2> QED BY <2>1, <2>2, <2>3 DEF InRequest, RequestHttp
<1>5. AllKnown'
  BY <1>1, <1>3 DEF IInv, AllKnown
<1> QED BY <1>1, <1>2, <1>4, <1>5 DEF Step, IInv

\* Between requests, and around the socket.
LEMMA BetweenStep ==
    IInv /\ AnswerRead /\ (PostToEs \/ Connect \/ EpollWait \/ OnOutputPluginEvent) => Step
<1> SUFFICES ASSUME IInv, AnswerRead, PostToEs \/ Connect \/ EpollWait \/ OnOutputPluginEvent
             PROVE  Step
  OBVIOUS
<1>1. CASE InRequest
  BY <1>1, RequestStep
<1>2. CASE StartRequest
  <2>1. UNCHANGED <<post, made, served, got, pc>> /\ http = "idle" /\ http' = "send" /\ answer' = <<>>
        /\ left' = Request /\ pc = "post"
    BY <1>2 DEF StartRequest, BeginRequest, Post, docVars
  <2>2. Underway' /\ AllKnown'
    BY <2>1, HttpAssumption DEF IInv, Underway, AllKnown
  <2> QED BY <2>1, <2>2, KeptPost DEF IInv, Step
<1>3. CASE StrcpyFails
  <2>1. UNCHANGED <<post, made, served, got, left, http, answer>> /\ http = "idle"
    BY <1>3 DEF StrcpyFails, Post, docVars
  <2>2. Underway' /\ AllKnown'
    BY <2>1 DEF IInv, Underway, AllKnown
  <2> QED BY <2>1, <2>2, KeptPost DEF IInv, Step
<1>4. CASE Reconnect \/ SocketFails
  <2>1. UNCHANGED <<post, made, served, left>> /\ http' = "idle" /\ got' = 0
    BY <1>4 DEF Reconnect, Unposted, Connected, SocketFails, docVars
  <2>2. Underway' /\ AllKnown'
    BY <2>1 DEF IInv, Underway, AllKnown
  <2> QED BY <2>1, <2>2, KeptPost DEF IInv, Step
<1>5. CASE Posted
  <2>1. UNCHANGED <<made, served, left, got>> /\ post' = <<>> /\ http' = "idle" /\ http = "done"
    BY <1>5 DEF Posted
  <2>2. answer # <<>>
    BY <2>1 DEF AnswerRead
  <2>3. got = 0 /\ (post = <<>> \/ served.to = Len(made))
    BY <2>1, <2>2 DEF IInv, Underway, AllKnown
  <2>4. Underway' /\ AllKnown'
    BY <2>1, <2>3 DEF IInv, Underway, AllKnown
  <2> QED BY <2>1, <2>3, <2>4, EmptiedPost DEF IInv, Step
<1>6. CASE Connect \/ EpollWait \/ OnOutputPluginEvent
  <2>1. UNCHANGED <<post, made, served, left, http, answer>> /\ got' \in {0, got} /\ pc # "post"
    BY <1>6 DEF Connect, Connected, EpollWait, OnOutputPluginEvent, docVars, httpVars
  <2>2. Underway' /\ AllKnown'
    BY <2>1 DEF IInv, Underway, AllKnown
  <2> QED BY <2>1, <2>2, KeptPost DEF IInv, Step
<1> QED BY <1>1, <1>2, <1>3, <1>4, <1>5, <1>6 DEF PostToEs

\* The server answers, or closes the connection.
LEMMA ServerStep == IInv /\ (Serve \/ Closes) => Step
<1> SUFFICES ASSUME IInv, Serve \/ Closes PROVE Step
  OBVIOUS
<1>1. CASE Serve
  <2>1. got = Request /\ got' = 0 /\ UNCHANGED <<http, left, pc, post, made>>
    BY <1>1 DEF Serve, ServerAnswers, docVars
  <2>2. http # "idle" /\ http # "send"
    BY <2>1, HttpAssumption DEF IInv, Underway
  <2>3. Underway'
    BY <2>1, <2>2 DEF IInv, Underway
  <2>4. CASE post = <<>>
    BY <1>1, <2>1, <2>3, <2>4, KeptPost DEF Serve, IInv, Step, AllKnown
  <2>5. CASE post # <<>>
    <3>1. served' = [from |-> post[1].no, to |-> post[Len(post)].no]
      BY <1>1, <2>5 DEF Serve
    <3>2. Numbered' /\ Known' /\ served'.to = Len(made) /\ Log!Next
      BY <2>1, <2>5, <3>1, ServedPost DEF IInv
    <3> QED BY <2>1, <2>3, <3>2 DEF IInv, Step, AllKnown
  <2> QED BY <2>4, <2>5
<1>2. CASE Closes
  <2>1. got' = 0 /\ UNCHANGED <<http, left, answer, pc, post, made, served>>
    BY <1>2 DEF Closes, ServerCloses, docVars
  <2>2. Underway' /\ AllKnown'
    BY <2>1, HttpAssumption DEF IInv, Underway, AllKnown
  <2> QED BY <2>1, <2>2, KeptPost DEF IInv, Step
<1> QED BY <1>1, <1>2

LEMMA NextStep == IInv /\ AnswerRead /\ [Next]_vars => Step
<1> SUFFICES ASSUME IInv, AnswerRead, [Next]_vars PROVE Step
  OBVIOUS
<1>1. CASE UNCHANGED vars
  <2>1. UNCHANGED <<post, made, served, http, pc, left, got, answer>>
    BY <1>1 DEF vars, httpVars, docVars
  <2>2. Underway' /\ AllKnown'
    BY <2>1 DEF IInv, Underway, AllKnown
  <2> QED BY <2>1, <2>2, KeptPost DEF IInv, Step
<1> QED BY <1>1, LinesStep, BetweenStep, ServerStep DEF Next, Blocks

LEMMA InitInv == Init => IInv /\ Log!Init
<1> SUFFICES ASSUME Init PROVE IInv /\ Log!Init
  OBVIOUS
<1>1. Len(post) = 0 /\ Len(made) = 0 /\ post \in Seq({}) /\ made \in Seq({})
  BY DEF Init
<1>2. Numbered
  BY <1>1 DEF Numbered, SomeSeq
<1>3. Known
  BY <1>1 DEF Known, Base, Init
<1>4. Underway /\ AllKnown
  BY DEF Init, HttpInit, Underway, AllKnown
<1> QED BY <1>2, <1>3, <1>4 DEF IInv, Init, Log!Init

-----------------------------------------------------------------------------
(* The types *)

\* A line that is cut off the text in parse_buffer ends within it.
BufferOK ==
    /\ parseLen \in 0 .. ParseSize /\ newline \in 0 .. ParseSize
    /\ Len(block) \in 0 .. ParseSize
    /\ pc \in {"init", "idle", "combine", "replace", "lines", "shift", "post", "event"}
    /\ after \in {"idle", "replace", "shift"}
    /\ pc = "shift" \/ (pc = "post" /\ after = "shift") => newline <= parseLen

\* The inductive invariant, together with IInv, which keeps got + left within a request.
TypeInv == HttpOK /\ BufferOK

\* RequestHttp.
LEMMA RequestTypes ==
    ASSUME HttpOK, Underway, RequestHttp
    PROVE  HttpOK'
<1>0. left \in Nat /\ got \in Nat /\ Request \in Nat /\ MaxFaults \in Nat
  BY HttpAssumption DEF Underway
<1>1. CASE Send
  <2>1. PICK n \in 1 .. left : /\ left' = left - n
                               /\ got' = IF conn = "open" THEN got + n ELSE got
    BY <1>1 DEF Send
  <2>2. got + left <= Request
    BY <1>1 DEF Underway, Send
  <2>3. left' <= Request /\ got' <= Request
    BY <1>0, <2>1, <2>2 DEF HttpOK
  <2>4. http' \in {"recv", "send"} /\ UNCHANGED <<env, conn, wire, faults>>
    BY <1>1 DEF Send
  <2> QED
    BY <2>3, <2>4 DEF HttpOK
<1>2. CASE SendFails \/ TimesOut \/ ReceiveFails
  <2>1. UNCHANGED <<env, left, conn, wire, got>> /\ http' = "failed"
    BY <1>2 DEF SendFails, TimesOut, ReceiveFails, Fails
  <2>2. faults' \in 0 .. MaxFaults
    BY <1>2, FaultOK DEF SendFails, TimesOut, ReceiveFails, HttpOK
  <2> QED
    BY <2>1, <2>2 DEF HttpOK
<1>3. CASE Receive
  <2>1. http' = "parse" /\ UNCHANGED <<left, conn, got>>
    BY <1>3 DEF Receive
  <2>2. CASE Unread /\ env' = [env EXCEPT !.p = 0] /\ UNCHANGED <<wire, faults>>
    <3>1. EnvOK(env')
      <4>1. env' \in EnvType /\ env'.p = 0 /\ env'.buf = env.buf /\ env'.process = env.process
            /\ env'.step = env.step /\ env'.body = env.body /\ env'.size = env.size
            /\ env'.dangling = env.dangling /\ env'.chunked = env.chunked
        BY <2>2 DEF HttpOK, EnvOK, EnvType
      <4>2. 0 <= Len(env.buf)
        BY DEF HttpOK, EnvOK, EnvType
      <4> QED
        BY <4>1, <4>2 DEF HttpOK, EnvOK
    <3> QED
      BY <2>1, <2>2, <3>1 DEF HttpOK
  <2>3. CASE \E n \in 1 .. Min({Len(wire), Room}) :
                /\ env' = [env EXCEPT !.buf = @ \o SubSeq(wire, 1, n), !.p = env.process]
                /\ wire' = SubSeq(wire, n + 1, Len(wire))
                /\ Fault \/ UNCHANGED faults
    <3>1. EnvOK(env') /\ wire' \in Seq(Characters)
      BY <2>3, FragmentOK
    <3>2. faults' \in 0 .. MaxFaults
      BY <2>3, FaultOK DEF HttpOK
    <3> QED
      BY <2>1, <3>1, <3>2 DEF HttpOK
  <2> QED
    BY <1>3, <2>2, <2>3 DEF Receive
<1>4. CASE ParseHttpBuffer
  <2>1. Parsed
    BY <1>4, ParserOK DEF HttpOK
  <2>2. UNCHANGED <<left, conn, wire, got, faults>>
    BY <1>4, Zenon DEF ParseHttpBuffer
  <2> QED
    BY <2>1, <2>2 DEF HttpOK, Parsed
<1>5. CASE Grow
  BY <1>5, GrowOK
<1> QED
  BY <1>1, <1>2, <1>3, <1>4, <1>5 DEF RequestHttp

\* The server and the network.
LEMMA ServerTypes ==
    ASSUME HttpOK, ServerAnswers \/ ServerCloses
    PROVE  HttpOK'
<1>0. Request \in Nat /\ 0 <= Request /\ <<>> \in Seq(Characters)
  BY HttpAssumption
<1>1. CASE ServerAnswers
  <2>1. PICK a \in Answers : /\ wire' = wire \o a.text
                             /\ Fault \/ UNCHANGED faults
    BY <1>1 DEF ServerAnswers
  <2>2. a.text \in Seq(Characters)
    <3>1. a.text \in Seq({a.text[i] : i \in DOMAIN a.text})
      BY HttpAssumption DEF IsText
    <3>2. {a.text[i] : i \in DOMAIN a.text} \subseteq Characters
      BY DEF Characters
    <3> HIDE DEF Characters
    <3> QED
      BY <3>1, <3>2
  <2>3. wire' \in Seq(Characters)
    BY <2>1, <2>2 DEF HttpOK
  <2>4. faults' \in 0 .. MaxFaults
    BY <2>1, FaultOK DEF HttpOK
  <2>5. got' = 0 /\ UNCHANGED <<http, env, left, conn>>
    BY <1>1 DEF ServerAnswers
  <2> QED
    BY <1>0, <2>3, <2>4, <2>5 DEF HttpOK
<1>2. CASE ServerCloses
  <2>1. conn' = "closed" /\ wire' \in {wire, <<>>} /\ got' = 0 /\ UNCHANGED <<http, env, left>>
    BY <1>2 DEF ServerCloses
  <2>2. faults' \in 0 .. MaxFaults
    BY <1>2, FaultOK DEF ServerCloses, HttpOK
  <2> QED
    BY <1>0, <2>1, <2>2 DEF HttpOK
<1> QED
  BY <1>1, <1>2

\* A line ends within the text, or there is none.
LEMMA LineEndOK ==
    ASSUME parseLen \in Nat
    PROVE  LineEnd \in 1 .. parseLen + 1
<1> DEFINE text == SubSeq(parse, 1, parseLen)
           hits == {j \in 1 .. Len(text) : text[j] \in {"nl"}}
<1>1. Len(text) = parseLen
  <2>1. \A i \in 1 .. parseLen : parse[i] \in {parse[j] : j \in 1 .. parseLen}
    OBVIOUS
  <2>2. Len(SubSeq(parse, 1, parseLen)) = IF 1 <= parseLen THEN parseLen - 1 + 1 ELSE 0
    BY <2>1, SubSeqProperties
  <2> QED
    BY <2>2
<1>2. LineEnd = IF hits = {} THEN Len(text) + 1 ELSE CHOOSE i \in hits : \A j \in hits : i <= j
  BY DEF LineEnd, Next1, Min
<1>3. hits \in SUBSET (1 .. (parseLen + 1) - 1) /\ parseLen + 1 \in Nat /\ 1 <= parseLen + 1
  BY <1>1
<1> HIDE DEF text, hits
<1> QED
  BY <1>1, <1>2, <1>3, ScanOK

\* A block fits parse_buffer.
LEMMA BlockLength == \A m \in Messages : Len(m.text) \in 0 .. ParseSize
<1>1. TAKE m \in Messages
<1>2. m.text \in Seq({m.text[i] : i \in DOMAIN m.text}) /\ Len(m.text) <= ParseSize
  BY EsAssumption DEF IsText
<1> QED
  BY <1>2, EsAssumption

\* The lines of a block.
LEMMA BlocksTypes ==
    ASSUME IInv, TypeInv, Blocks
    PROVE  TypeInv'
<1>1. UNCHANGED httpVars
  BY DEF Blocks, WriteOutputPlugin, Fits, Forced, Replace, Line, Shift, LastLine, netVars
<1>2. HttpOK'
  BY <1>1, HttpKept DEF TypeInv
<1>3. ParseSize \in Nat /\ parseLen \in Nat /\ newline \in Nat /\ Len(block) \in Nat
  BY EsAssumption DEF TypeInv, BufferOK
<1>4. CASE WriteOutputPlugin
  <2>1. Len(block') \in 0 .. ParseSize
    BY <1>4, BlockLength DEF WriteOutputPlugin
  <2> QED
    BY <1>2, <1>4, <2>1 DEF TypeInv, BufferOK, WriteOutputPlugin
<1>5. CASE Fits
  <2>1. parseLen' \in 0 .. ParseSize /\ pc' = "lines" /\ UNCHANGED <<newline, block, after>>
    BY <1>3, <1>5 DEF Fits
  <2> QED
    BY <1>2, <2>1 DEF TypeInv, BufferOK
<1>6. CASE Forced
  <2>1. /\ UNCHANGED <<parseLen, newline, block>>
        /\ \/ pc' = "post" /\ after' = "replace"
           \/ pc' = "replace" /\ after' = after
    BY <1>6 DEF Forced, ParseCombineBuffer
  <2> QED
    BY <1>2, <2>1 DEF TypeInv, BufferOK
<1>7. CASE Replace
  <2>1. parseLen' = Len(block) /\ pc' = "lines" /\ UNCHANGED <<newline, block, after>>
    BY <1>7 DEF Replace
  <2> QED
    BY <1>2, <2>1 DEF TypeInv, BufferOK
<1>8. CASE Line
  <2>1. /\ UNCHANGED <<parseLen, block>> /\ newline' = LineEnd /\ LineEnd <= parseLen
        /\ \/ pc' = "post" /\ after' = "shift"
           \/ pc' = "shift" /\ after' = after
    BY <1>8 DEF Line, ParseCombineBuffer
  <2>2. newline' \in 0 .. ParseSize /\ newline' <= parseLen'
    BY <1>3, <2>1, LineEndOK DEF TypeInv, BufferOK
  <2> QED
    BY <1>2, <2>1, <2>2 DEF TypeInv, BufferOK
<1>9. CASE Shift
  <2>1. parseLen' = parseLen - newline /\ pc' = "lines" /\ UNCHANGED <<newline, block, after>> /\ pc = "shift"
    BY <1>9 DEF Shift, RemainLen
  <2>2. parseLen' \in 0 .. ParseSize
    BY <1>3, <2>1 DEF TypeInv, BufferOK
  <2> QED
    BY <1>2, <2>1, <2>2 DEF TypeInv, BufferOK
<1>10. CASE LastLine
  <2>1. after' = "idle" /\ pc' \in {"post", "idle"} /\ UNCHANGED <<parseLen, newline, block>>
    BY <1>10 DEF LastLine, textVars
  <2> QED
    BY <1>2, <2>1 DEF TypeInv, BufferOK
<1> QED
  BY <1>4, <1>5, <1>6, <1>7, <1>8, <1>9, <1>10 DEF Blocks

\* The requests, and the socket.
LEMMA NetTypes ==
    ASSUME IInv, TypeInv, PostToEs \/ Connect \/ EpollWait \/ OnOutputPluginEvent
    PROVE  TypeInv'
<1>0. Request \in Nat /\ 0 <= Request /\ <<>> \in Seq(Characters)
  BY HttpAssumption
<1>1. UNCHANGED <<parseLen, newline, block>>
  <2>1. UNCHANGED textVars
    BY DEF PostToEs, StartRequest, StrcpyFails, InRequest, Reconnect, SocketFails, Posted, Connect,
           EpollWait, OnOutputPluginEvent
  <2> QED
    BY <2>1 DEF textVars
<1>2. after' = after /\ (pc' \in {pc, "idle", "event"} \/ (pc = "post" /\ pc' = after))
  BY DEF PostToEs, StartRequest, StrcpyFails, InRequest, Reconnect, SocketFails, Posted, Connect,
         EpollWait, OnOutputPluginEvent, Post
<1>3. BufferOK'
  BY <1>1, <1>2 DEF TypeInv, BufferOK
<1>4. CASE StartRequest
  <2>1. env' = ResetHttpEnv(env) /\ left' = Request /\ http' = "send"
        /\ UNCHANGED <<conn, wire, got, faults>>
    BY <1>4 DEF StartRequest, BeginRequest
  <2>2. EnvOK(env')
    BY <2>1, ResetOK DEF TypeInv, HttpOK
  <2> QED
    BY <1>0, <1>3, <2>1, <2>2 DEF TypeInv, HttpOK
<1>5. CASE StrcpyFails
  <2>1. env' = ResetHttpEnv(env) /\ UNCHANGED <<http, left, conn, wire, got>> /\ Fault
    BY <1>5 DEF StrcpyFails
  <2>2. EnvOK(env')
    BY <2>1, ResetOK DEF TypeInv, HttpOK
  <2>3. faults' \in 0 .. MaxFaults
    BY <2>1, FaultOK DEF TypeInv, HttpOK
  <2> QED
    BY <1>3, <2>1, <2>2, <2>3 DEF TypeInv, HttpOK
<1>6. CASE InRequest
  <2>1. HttpOK'
    BY <1>6, RequestTypes DEF InRequest, IInv, TypeInv
  <2> QED
    BY <1>3, <2>1 DEF TypeInv
<1>7. CASE Reconnect \/ SocketFails \/ Posted
  <2>1. /\ http' = "idle" /\ UNCHANGED <<env, left, faults>>
        /\ conn' \in {"open", "none", conn} /\ wire' \in {wire, <<>>} /\ got' \in {got, 0}
    BY <1>7 DEF Reconnect, SocketFails, Posted, Connected
  <2> QED
    BY <1>0, <1>3, <2>1 DEF TypeInv, HttpOK
<1>8. CASE Connect \/ EpollWait \/ OnOutputPluginEvent
  <2>1. /\ UNCHANGED <<http, env, left, faults>>
        /\ conn' \in {"open", "none", conn} /\ wire' \in {wire, <<>>} /\ got' \in {got, 0}
    BY <1>8 DEF Connect, EpollWait, OnOutputPluginEvent, Connected, httpVars
  <2> QED
    BY <1>0, <1>3, <2>1 DEF TypeInv, HttpOK
<1> QED
  BY <1>4, <1>5, <1>6, <1>7, <1>8 DEF PostToEs

\* Every step.
LEMMA TypesStep ==
    ASSUME IInv, TypeInv, [Next]_vars
    PROVE  TypeInv'
<1>1. CASE Blocks
  BY <1>1, BlocksTypes
<1>2. CASE PostToEs \/ Connect \/ EpollWait \/ OnOutputPluginEvent
  BY <1>2, NetTypes
<1>3. CASE Serve \/ Closes
  <2>1. HttpOK'
    BY <1>3, ServerTypes DEF Serve, Closes, TypeInv
  <2>2. UNCHANGED <<parseLen, newline, block, pc, after>>
    BY <1>3 DEF Serve, Closes, textVars
  <2> QED
    BY <2>1, <2>2 DEF TypeInv, BufferOK
<1>4. CASE UNCHANGED vars
  <2>1. UNCHANGED httpVars /\ UNCHANGED <<parseLen, newline, block, pc, after>>
    BY <1>4 DEF vars, textVars
  <2> QED
    BY <2>1, HttpKept DEF TypeInv, BufferOK
<1> QED
  BY <1>1, <1>2, <1>3, <1>4 DEF Next, Blocks

\* The initial states.
LEMMA InitTypes == Init => TypeInv
<1> SUFFICES ASSUME Init PROVE TypeInv
  OBVIOUS
<1>1. EnvOK(env)
  <2>1. <<>> \in Seq(Characters) /\ BufSize \in Nat /\ Len(<<>>) < BufSize
    BY HttpAssumption
  <2> QED
    BY <2>1, FreshOK DEF Init, HttpInit
<1>2. 0 \in 0 .. MaxFaults /\ 0 <= Request /\ <<>> \in Seq(Characters)
  BY HttpAssumption
<1>3. HttpOK
  BY <1>1, <1>2 DEF HttpOK, Init, HttpInit
<1>4. Len(<<>>) = 0 /\ 0 \in 0 .. ParseSize
  BY EsAssumption
<1>5. BufferOK
  BY <1>4 DEF BufferOK, Init
<1> QED
  BY <1>3, <1>5 DEF TypeInv

-----------------------------------------------------------------------------
(* The answer belongs to the request *)

\* Every request before this one took its fault with it.
Owed == repeats < faults

\* Some of post_buffer was served already.
AlreadyServed == post # <<>> /\ served.to > Base

\* There is an answer or none, and no request begins with what is left of one.
Asked ==
    /\ answer \in {<<>>} \cup {<<a>> : a \in Answers}
    /\ http \in {"send", "recv", "parse", "failed"} => env.reforming = FALSE

\* Before the answer, nothing is taken for one.
Waits ==
    http \in {"send", "recv", "parse"} /\ answer = <<>> =>
        /\ Before(env, Place, Stream, Len(Stream))
        /\ Blank(Stream, Len(Stream)) \/ Owed

\* The answer is read from where it begins.
ReadFrom(b) ==
    /\ Reading(answer[1], env, Place, Stream, b)
    /\ Blank(Stream, b) \/ Owed
    /\ http = "recv" /\ Unread => env.astray = TRUE \/ Fill <= b

Follows ==
    http \in {"recv", "parse"} /\ answer # <<>> =>
        /\ \E b \in Nat : ReadFrom(b)
        /\ env.astray = TRUE \/ answer[1].chunked \/ conn # "open" => Owed
        /\ http = "parse" /\ SplitsEnd(env.buf) => Owed

\* What is kept is no answer.
KeepsOK ==
    http \in {"idle", "done"} => Quiet(Kept) /\ (Blank(Kept, Len(Kept)) \/ Owed)

\* A request that was served and whose answer is not to be had took a fault.
DebtOK ==
    /\ repeats \in Nat /\ repeats <= faults
    /\ AlreadyServed /\ (http \in {"idle", "failed"} \/ answer = <<>>) => Owed
    /\ AlreadyServed /\ http = "idle" => Blank(Kept, Len(Kept))
    /\ AlreadyServed /\ http \in {"send", "recv", "parse"} /\ answer = <<>> =>
            Blank(Stream, Len(Stream))
    /\ http = "failed" /\ answer = <<>> /\ conn = "open" =>
            Owed /\ (AlreadyServed => repeats + 1 < faults)

ReadInv == Asked /\ Waits /\ Follows /\ KeepsOK /\ DebtOK /\ AnswerRead

\* Between two requests.
LEMMA IdleInv ==
    ASSUME http' = "idle", answer' \in {<<>>} \cup {<<a>> : a \in Answers},
           repeats' \in Nat, repeats' <= faults', AlreadyServed' => Owed' /\ Blank(Kept', Len(Kept')),
           Quiet(Kept'), Blank(Kept', Len(Kept')) \/ Owed'
    PROVE  ReadInv'
BY DEF ReadInv, Asked, Waits, Follows, KeepsOK, DebtOK, AnswerRead

\* What stays.
LEMMA SameInv ==
    ASSUME ReadInv, UNCHANGED <<httpVars, repeats>>, AlreadyServed' => AlreadyServed
    PROVE  ReadInv'
<1>1. UNCHANGED <<http, env, conn, wire, answer, faults, repeats, Stream, Kept, Place, Fill>>
  BY DEF httpVars, Stream, Kept, Place, Fill
<1>2. Owed' = Owed /\ Unread' = Unread /\ SplitsEnd(env.buf)' = SplitsEnd(env.buf)
  BY <1>1 DEF Owed, Unread
<1>3. Asked' /\ Waits' /\ KeepsOK' /\ AnswerRead'
  BY <1>1, <1>2 DEF ReadInv, Asked, Waits, KeepsOK, AnswerRead, Text
<1>4. \A b : ReadFrom(b) => ReadFrom(b)'
  BY <1>1, <1>2 DEF ReadFrom
<1>5. Follows'
  BY <1>1, <1>2, <1>4 DEF ReadInv, Follows
<1>6. DebtOK'
  BY <1>1, <1>2 DEF ReadInv, DebtOK
<1> QED
  BY <1>3, <1>5, <1>6 DEF ReadInv

\* A document that is put behind the others was not served.
LEMMA AddedServed ==
    ASSUME IInv, served' = served,
           \/ post' = post /\ made' = made
           \/ \E text : /\ post' = Append(post, [no |-> Len(made) + 1, text |-> text])
                        /\ made' = Append(made, text)
    PROVE  AlreadyServed' => AlreadyServed
<1>1. CASE post' = post /\ made' = made
  BY <1>1 DEF AlreadyServed, Base
<1>2. CASE \E text : /\ post' = Append(post, [no |-> Len(made) + 1, text |-> text])
                     /\ made' = Append(made, text)
  <2>1. PICK text : /\ post' = Append(post, [no |-> Len(made) + 1, text |-> text])
                    /\ made' = Append(made, text)
    BY <1>2
  <2>2. /\ Len(post) \in Nat /\ Len(post') = Len(post) + 1
        /\ Len(made) \in Nat /\ Len(made') = Len(made) + 1
        /\ (post = <<>> => Len(post) = 0)
    BY <2>1 DEF IInv, Numbered, SomeSeq
  <2>3. Base' = Base /\ (post = <<>> => Base = Len(made))
    BY <2>2 DEF Base
  <2>4. post = <<>> => served.to = Base
    <3>1. SUFFICES ASSUME post = <<>> PROVE served.to = Base
      OBVIOUS
    <3>2. ~(served.to \in Base + 1 .. Len(made))
      BY <2>2, <2>3, <3>1
    <3> QED
      BY <3>2 DEF IInv, Known
  <2>5. Base \in Int
    BY <2>2 DEF Base
  <2> QED
    BY <2>3, <2>4, <2>5 DEF AlreadyServed
<1> QED
  BY <1>1, <1>2

\* The lines of a block.
LEMMA BlocksRead ==
    ASSUME IInv, ReadInv, Blocks
    PROVE  ReadInv'
<1>1. UNCHANGED <<httpVars, repeats, served>>
  BY DEF Blocks, WriteOutputPlugin, Fits, Forced, Replace, Line, Shift, LastLine, netVars
<1>2. \/ post' = post /\ made' = made
      \/ \E text : /\ post' = Append(post, [no |-> Len(made) + 1, text |-> text])
                   /\ made' = Append(made, text)
  <2>1. CASE WriteOutputPlugin \/ Fits \/ Replace \/ Shift \/ LastLine
    BY <2>1 DEF WriteOutputPlugin, Fits, Replace, Shift, LastLine, docVars
  <2>2. ASSUME NEW buf, NEW next, ParseCombineBuffer(buf, next)
        PROVE  \/ post' = post /\ made' = made
               \/ \E text : /\ post' = Append(post, [no |-> Len(made) + 1, text |-> text])
                            /\ made' = Append(made, text)
    BY <2>2 DEF ParseCombineBuffer
  <2>3. CASE Forced \/ Line
    BY <2>2, <2>3 DEF Forced, Line
  <2> QED
    BY <2>1, <2>3 DEF Blocks
<1>3. AlreadyServed' => AlreadyServed
  BY <1>1, <1>2, AddedServed
<1> QED
  BY <1>1, <1>3, SameInv

\* What is kept when nothing new comes.
LEMMA KeptShrinks ==
    ASSUME EnvOK(env), wire \in Seq(Characters), env' = env, wire' = <<>>
    PROVE  Begins(Kept', Kept, 0)
<1> DEFINE x == ResetHttpEnv(env).buf
<1>1. x \in Seq(Characters)
  BY ResetOK DEF EnvOK, EnvType
<1>2. Kept = x \o wire /\ Kept' = x \o <<>>
  BY DEF Kept
<1> HIDE DEF x
<1>3. Kept' = x
  BY <1>1, <1>2, ConcatEmptySeq
<1> QED
  BY <1>1, <1>2, <1>3 DEF Begins

\* The beginning of what has no version has none.
LEMMA QuietBegins ==
    ASSUME NEW s, NEW t, Begins(t, s, 0), Quiet(s)
    PROVE  Quiet(t)
<1>1. Len(s) \in Nat /\ Len(t) \in Nat /\ Len(t) <= Len(s)
  BY DEF Begins
<1>2. \A k \in 1 .. Len(t) - 1 : k \in 1 .. Len(s) - 1 /\ t[k] = s[k] /\ t[k + 1] = s[k + 1]
  BY <1>1 DEF Begins
<1> QED
  BY <1>2 DEF Quiet

\* The beginning of what is blank is blank.
LEMMA AllBlankBegins ==
    ASSUME NEW s, NEW t, NEW n, Begins(t, s, n), Blank(s, Len(s))
    PROVE  Blank(t, Len(t))
<1>1. Len(s) \in Nat /\ Len(t) \in Nat /\ Len(t) <= Len(s)
  BY DEF Begins
<1>2. \A k \in 1 .. Len(t) : k \in 1 .. Len(s) /\ k <= Len(s) /\ t[k] = s[k]
  BY <1>1 DEF Begins
<1> QED
  BY <1>2 DEF Blank

\* The socket is opened or closed between requests.
LEMMA SocketRead ==
    ASSUME IInv, TypeInv, ReadInv, Connect \/ OnOutputPluginEvent
    PROVE  ReadInv'
<1>1. /\ http = "idle" /\ http' = "idle" /\ wire' = <<>>
      /\ UNCHANGED <<env, answer, faults, post, made, served, repeats>>
  BY DEF IInv, Underway, Connect, Connected, OnOutputPluginEvent, docVars
<1>2. Begins(Kept', Kept, 0)
  BY <1>1, KeptShrinks DEF TypeInv, HttpOK
<1>3. AlreadyServed' = AlreadyServed /\ Owed' = Owed
  BY <1>1 DEF AlreadyServed, Base, Owed
<1>4. Quiet(Kept') /\ (Blank(Kept, Len(Kept)) => Blank(Kept', Len(Kept')))
  BY <1>1, <1>2, QuietBegins, AllBlankBegins DEF ReadInv, KeepsOK
<1>5. /\ answer' \in {<<>>} \cup {<<a>> : a \in Answers} /\ repeats' \in Nat /\ repeats' <= faults'
      /\ AlreadyServed' => Owed' /\ Blank(Kept', Len(Kept'))
      /\ Blank(Kept', Len(Kept')) \/ Owed'
  BY <1>1, <1>3, <1>4 DEF ReadInv, Asked, KeepsOK, DebtOK
<1> QED
  BY <1>1, <1>4, <1>5, IdleInv

\* Nothing is kept unless the parser has seen that more follows the answer.
LEMMA NothingKept ==
    ASSUME env'.reforming = FALSE
    PROVE  Kept' = <<>> \o wire'
BY DEF Kept, ResetHttpEnv, FreshEnv

\* Then nothing is kept without a wire.
LEMMA EmptyKept ==
    ASSUME env'.reforming = FALSE, wire' = <<>>
    PROVE  Quiet(Kept') /\ Blank(Kept', Len(Kept'))
<1>1. <<>> \o <<>> = <<>>
  OBVIOUS
<1>2. Kept' = <<>>
  BY <1>1, NothingKept
<1>3. Len(Kept') = 0
  BY <1>2
<1> QED
  BY <1>3 DEF Quiet, Blank

\* A failed request is begun again, or given up with its connection.
LEMMA AgainRead ==
    ASSUME IInv, TypeInv, ReadInv, Reconnect \/ SocketFails
    PROVE  ReadInv'
<1>1. /\ http = "failed" /\ http' = "idle" /\ wire' = <<>>
      /\ UNCHANGED <<env, answer, faults, post, made, served, repeats>>
  BY DEF Reconnect, SocketFails, Connected, Unposted, docVars
<1>2. Quiet(Kept') /\ Blank(Kept', Len(Kept'))
  BY <1>1, EmptyKept DEF ReadInv, Asked
<1>3. AlreadyServed' = AlreadyServed /\ Owed' = Owed
  BY <1>1 DEF AlreadyServed, Base, Owed
<1>4. /\ answer' \in {<<>>} \cup {<<a>> : a \in Answers} /\ repeats' \in Nat /\ repeats' <= faults'
      /\ AlreadyServed' => Owed'
  BY <1>1, <1>3 DEF ReadInv, Asked, DebtOK
<1> QED
  BY <1>1, <1>2, <1>4, IdleInv

\* The documents are done with.
LEMMA PostedRead ==
    ASSUME ReadInv, Posted
    PROVE  ReadInv'
<1>1. /\ http = "done" /\ http' = "idle" /\ post' = <<>>
      /\ UNCHANGED <<env, wire, answer, faults, repeats>>
  BY DEF Posted
<1>2. ~AlreadyServed'
  BY <1>1 DEF AlreadyServed
<1>3. Kept' = Kept /\ Owed' = Owed
  BY <1>1 DEF Kept, Owed
<1>4. /\ answer' \in {<<>>} \cup {<<a>> : a \in Answers} /\ repeats' \in Nat /\ repeats' <= faults'
      /\ Quiet(Kept') /\ (Blank(Kept', Len(Kept')) \/ Owed')
  BY <1>1, <1>3 DEF ReadInv, Asked, KeepsOK, DebtOK
<1> QED
  BY <1>1, <1>2, <1>4, IdleInv

\* Nothing but the wire is left.
LEMMA StrcpyRead ==
    ASSUME IInv, TypeInv, ReadInv, StrcpyFails
    PROVE  ReadInv'
<1>1. /\ http = "idle" /\ http' = "idle" /\ env' = ResetHttpEnv(env) /\ faults' = faults + 1
      /\ UNCHANGED <<wire, answer, post, made, served, repeats>>
  BY DEF StrcpyFails, Post, Fault, docVars
<1>2. repeats \in Nat /\ faults \in Nat /\ repeats <= faults /\ wire \in Seq(Characters) /\ EnvOK(env)
  BY DEF ReadInv, DebtOK, TypeInv, HttpOK
<1>3. Owed' /\ AlreadyServed' = AlreadyServed
  BY <1>1, <1>2 DEF Owed, AlreadyServed, Base
<1> DEFINE x == ResetHttpEnv(env).buf
<1>4. x \in Seq(Characters)
  BY <1>2, ResetOK DEF EnvOK, EnvType
<1>5. Kept' = wire
  <2>1. env'.reforming = FALSE
    BY <1>1 DEF ResetHttpEnv, FreshEnv
  <2>2. Kept' = <<>> \o wire
    BY <1>1, <2>1, NothingKept
  <2> QED
    BY <1>2, <2>2, ConcatEmptySeq
<1>6. Kept = x \o wire
  BY DEF Kept
<1> HIDE DEF x
<1>7. Len(x) \in Nat /\ Len(wire) \in Nat /\ Len(Kept) = Len(x) + Len(wire)
      /\ \A k \in 1 .. Len(wire) : Kept[Len(x) + k] = wire[k]
  BY <1>2, <1>4, <1>6, Joined
<1>8. Quiet(wire)
  <2>1. SUFFICES ASSUME NEW k \in 1 .. Len(wire) - 1, wire[k] = "H" PROVE wire[k + 1] # "sp"
    BY DEF Quiet
  <2>2. /\ k \in 1 .. Len(wire) /\ k + 1 \in 1 .. Len(wire)
        /\ Len(x) + k \in 1 .. Len(Kept) - 1 /\ Len(x) + (k + 1) = (Len(x) + k) + 1
    BY <1>7
  <2>3. Quiet(Kept)
    BY <1>1 DEF ReadInv, KeepsOK
  <2>4. Kept[Len(x) + k] = wire[k] /\ Kept[(Len(x) + k) + 1] = wire[k + 1]
    BY <1>7, <2>2
  <2> QED
    BY <2>1, <2>2, <2>3, <2>4 DEF Quiet
<1>9. Blank(Kept, Len(Kept)) => Blank(wire, Len(wire))
  <2>1. SUFFICES ASSUME Blank(Kept, Len(Kept)), NEW k \in 1 .. Len(wire) PROVE wire[k] = "sp"
    BY DEF Blank
  <2>2. Len(x) + k \in 1 .. Len(Kept) /\ Len(x) + k <= Len(Kept)
    BY <1>7
  <2> QED
    BY <1>7, <2>1, <2>2 DEF Blank
<1>10. /\ answer' \in {<<>>} \cup {<<a>> : a \in Answers} /\ repeats' \in Nat /\ repeats' <= faults'
       /\ AlreadyServed' => Blank(wire, Len(wire))
  BY <1>1, <1>2, <1>3, <1>9 DEF ReadInv, Asked, DebtOK
<1> QED
  BY <1>1, <1>3, <1>5, <1>8, <1>10, IdleInv

\* A request begins with what is kept.
LEMMA StartRead ==
    ASSUME IInv, TypeInv, ReadInv, StartRequest
    PROVE  ReadInv'
<1>1. /\ http = "idle" /\ http' = "send" /\ env' = ResetHttpEnv(env) /\ answer' = <<>>
      /\ UNCHANGED <<wire, faults, post, made, served, repeats>>
  BY DEF StartRequest, BeginRequest, Post, docVars
<1>2. /\ env'.step = "VERSION0" /\ env'.process = 0 /\ Untouched(env')
  BY <1>1 DEF ResetHttpEnv, FreshEnv, Untouched
<1>3. Stream' = Kept /\ Place' = 0 /\ Owed' = Owed /\ AlreadyServed' = AlreadyServed
  BY <1>1, <1>2 DEF Stream, Kept, Place, Owed, AlreadyServed, Base
<1>4. Quiet(Kept) /\ (Blank(Kept, Len(Kept)) \/ Owed)
  BY <1>1 DEF ReadInv, KeepsOK
<1>5. Before(env', 0, Kept, Len(Kept))
  <2>1. Blank(Kept, 0)
    BY DEF Blank
  <2> QED
    BY <1>2, <1>4, <2>1 DEF Before, Quiet
<1>6. Asked' /\ Follows' /\ KeepsOK' /\ AnswerRead'
  BY <1>1, <1>2 DEF Asked, Follows, KeepsOK, AnswerRead, Untouched
<1>7. Waits'
  BY <1>3, <1>4, <1>5 DEF Waits
<1>8. DebtOK'
  BY <1>1, <1>3 DEF ReadInv, DebtOK
<1> QED
  BY <1>6, <1>7, <1>8 DEF ReadInv

\* Part of the request is sent.
LEMMA SendRead ==
    ASSUME IInv, ReadInv, Send, UNCHANGED <<post, made, served, repeats>>
    PROVE  ReadInv'
<1>1. /\ http = "send" /\ http' \in {"send", "recv"}
      /\ UNCHANGED <<env, conn, wire, answer, faults>>
  BY DEF Send
<1>2. Stream' = Stream /\ Place' = Place /\ Owed' = Owed /\ AlreadyServed' = AlreadyServed
  BY <1>1 DEF Stream, Place, Owed, AlreadyServed, Base
<1>3. answer = <<>>
  BY <1>1 DEF IInv, Underway
<1>4. Asked' /\ Follows' /\ KeepsOK' /\ AnswerRead'
  BY <1>1, <1>3 DEF ReadInv, Asked, Follows, KeepsOK, AnswerRead
<1>5. Waits'
  BY <1>1, <1>2 DEF ReadInv, Waits
<1>6. DebtOK'
  BY <1>1, <1>2 DEF ReadInv, DebtOK
<1> QED
  BY <1>4, <1>5, <1>6 DEF ReadInv

\* The request fails because the connection is gone, or its time is used up.
LEMMA FailsRead ==
    ASSUME IInv, TypeInv, ReadInv, SendFails \/ TimesOut \/ ReceiveFails,
           UNCHANGED <<post, made, served, repeats>>
    PROVE  ReadInv'
<1>1. /\ http \in {"send", "recv"} /\ http' = "failed" /\ UNCHANGED <<env, conn, wire, answer>>
      /\ \/ faults' = faults /\ conn # "open"
         \/ faults' = faults /\ http = "recv" /\ env.dangling # {}
         \/ faults' = faults + 1
  BY DEF SendFails, TimesOut, ReceiveFails, Fails, Fault, AtEnd
<1>2. repeats \in Nat /\ faults \in Nat /\ repeats <= faults
  BY DEF ReadInv, DebtOK, TypeInv, HttpOK
<1>3. AlreadyServed' = AlreadyServed
  BY <1>1 DEF AlreadyServed, Base
<1>4. Asked' /\ Waits' /\ Follows' /\ KeepsOK' /\ AnswerRead'
  BY <1>1 DEF ReadInv, Asked, Waits, Follows, KeepsOK, AnswerRead
<1>5. CASE faults' = faults /\ conn # "open"
  <2>1. AlreadyServed => Owed
    <3>1. CASE answer = <<>>
      BY <3>1 DEF ReadInv, DebtOK
    <3>2. CASE answer # <<>>
      <4>1. http = "recv"
        BY <1>1, <3>2 DEF IInv, Underway
      <4> QED
        BY <1>5, <3>2, <4>1 DEF ReadInv, Follows
    <3> QED
      BY <3>1, <3>2
  <2>2. Owed' = Owed
    BY <1>5 DEF Owed
  <2>3. DebtOK'
    BY <1>1, <1>2, <1>3, <1>5, <2>1, <2>2 DEF DebtOK
  <2> QED
    BY <1>4, <2>3 DEF ReadInv
<1>7. CASE faults' = faults /\ http = "recv" /\ env.dangling # {}
  <2>1. EnvOK(env)
    BY DEF TypeInv, HttpOK
  <2>2. answer # <<>>
    <3>1. SUFFICES ASSUME answer = <<>> PROVE FALSE
      OBVIOUS
    <3>2. Untouched(env)
      BY <1>7, <3>1 DEF ReadInv, Waits, Before
    <3> QED
      BY <1>7, <2>1, <3>2 DEF Untouched, EnvOK
  <2>3. PICK b \in Nat : Reading(answer[1], env, Place, Stream, b)
    BY <1>7, <2>2 DEF ReadInv, Follows, ReadFrom
  <2>4. env.astray = TRUE \/ answer[1].chunked
    BY <1>7, <2>1, <2>3, ReadingDangling
  <2>5. Owed
    BY <1>7, <2>2, <2>4 DEF ReadInv, Follows
  <2>6. DebtOK'
    BY <1>1, <1>2, <1>3, <1>7, <2>2, <2>5 DEF DebtOK, Owed
  <2> QED
    BY <1>4, <2>6 DEF ReadInv
<1>6. CASE faults' = faults + 1
  <2>1. Owed' /\ repeats <= faults'
    BY <1>2, <1>6 DEF Owed
  <2>2. AlreadyServed /\ answer = <<>> => repeats + 1 < faults'
    <3>1. SUFFICES ASSUME AlreadyServed, answer = <<>> PROVE repeats + 1 < faults'
      OBVIOUS
    <3>2. repeats < faults
      BY <3>1 DEF ReadInv, DebtOK, Owed
    <3> QED
      BY <1>2, <1>6, <3>2
  <2>3. DebtOK'
    BY <1>1, <1>2, <1>3, <2>1, <2>2 DEF DebtOK
  <2> QED
    BY <1>4, <2>3 DEF ReadInv
<1> QED
  BY <1>1, <1>5, <1>6, <1>7

\* The buffer grows; what is in it stays.
LEMMA GrowRead ==
    ASSUME TypeInv, ReadInv, Grow, UNCHANGED <<post, made, served, repeats>>
    PROVE  ReadInv'
<1>1. /\ http = "recv" /\ http' = "recv" /\ UNCHANGED <<conn, wire, answer, faults>>
  BY DEF Grow
<1>2. EnvOK(env) /\ Fill = Len(env.buf) /\ Fill \in Nat
  BY EnvTypes DEF TypeInv, HttpOK
<1>3. /\ Alike(env, env') /\ env'.buf = env.buf
      /\ Stream' = Stream /\ Place' = Place /\ Fill' = Fill /\ (Unread' = Unread)
  BY <1>2, GrowAlike
<1>4. AlreadyServed' = AlreadyServed /\ Owed' = Owed
  BY <1>1 DEF AlreadyServed, Base, Owed
<1>5. Asked' /\ KeepsOK' /\ AnswerRead'
  BY <1>1, <1>3 DEF ReadInv, Asked, KeepsOK, AnswerRead, Alike
<1>6. Waits'
  BY <1>1, <1>3, <1>4, BeforeAlike DEF ReadInv, Waits
<1>7. Follows'
  <2>1. \A a, b : b \in Nat /\ Reading(a, env, Place, Stream, b) => Reading(a, env', Place, Stream, b)
    BY <1>2, <1>3, ReadingAlike
  <2>2. \A b \in Nat : ReadFrom(b) => ReadFrom(b)'
    BY <1>1, <1>3, <1>4, <2>1 DEF ReadFrom, Alike
  <2> QED
    BY <1>1, <1>3, <1>4, <2>2 DEF ReadInv, Follows, Alike
<1>8. DebtOK'
  BY <1>1, <1>3, <1>4 DEF ReadInv, DebtOK
<1> QED
  BY <1>5, <1>6, <1>7, <1>8 DEF ReadInv

\* The buffer before the answer is blank, and has no line end.
LEMMA BlankBuffer ==
    ASSUME EnvOK(env), wire \in Seq(Characters), NEW b \in Nat, Blank(Stream, b), Fill <= b
    PROVE  ~SplitsEnd(env.buf)
<1>1. Has(Stream) /\ env.buf \in Seq(Characters) /\ Fill = Len(env.buf) /\ Fill \in Nat /\ Len(Stream) \in Nat
      /\ Fill <= Len(Stream)
  BY StreamOK, EnvTypes DEF Has
<1>2. SUFFICES ASSUME SplitsEnd(env.buf) PROVE FALSE
  OBVIOUS
<1>3. Len(env.buf) > 1 /\ env.buf[Len(env.buf)] = "cr"
  BY <1>1, <1>2, SplitsEndIs
<1>4. Fill \in 1 .. Fill /\ Fill \in 1 .. Len(Stream) /\ Fill <= b
  BY <1>1, <1>3
<1>5. Stream[Fill] = "sp" /\ env.buf[Fill] = Stream[Fill]
  BY <1>1, <1>4 DEF Blank, Has
<1> QED
  BY <1>1, <1>3, <1>5

\* A fragment is received, or what is left is parsed first.
LEMMA ReceiveRead ==
    ASSUME TypeInv, ReadInv, Receive, UNCHANGED <<post, made, served, repeats>>
    PROVE  ReadInv'
<1>1. /\ http = "recv" /\ http' = "parse" /\ UNCHANGED <<conn, answer>>
  BY DEF Receive
<1>2. /\ EnvOK(env) /\ wire \in Seq(Characters) /\ Len(env.buf) \in Nat /\ Fill = Len(env.buf)
      /\ repeats \in Nat /\ faults \in Nat /\ repeats <= faults
  BY EnvTypes DEF TypeInv, HttpOK, ReadInv, DebtOK
<1>3. AlreadyServed' = AlreadyServed
  BY <1>1 DEF AlreadyServed, Base
<1>4. /\ Stream' = Stream /\ Place' = Place /\ Alike(env, env') /\ Fill <= Fill' /\ Fill' \in Nat
      /\ faults' \in Nat /\ faults <= faults' /\ (Owed => Owed')
      /\ http' = "parse" /\ SplitsEnd(env'.buf) => Owed' \/ (Unread /\ env'.buf = env.buf)
  <2>1. CASE Unread /\ env' = [env EXCEPT !.p = 0] /\ UNCHANGED <<wire, faults>>
    <3>1. /\ env'.buf = env.buf /\ env'.p = 0 /\ env'.process = env.process /\ Alike(env, env')
      BY <1>2, <2>1 DEF EnvOK, EnvType, Alike
    <3>2. env.process = 0
      BY <2>1 DEF Unread
    <3>3. Fill' = Fill /\ Fill <= Fill'
      BY <1>2, <3>1 DEF Fill
    <3> QED
      BY <1>1, <1>2, <2>1, <3>1, <3>2, <3>3 DEF Stream, Place, Owed
  <2>2. CASE \E n \in 1 .. Min({Len(wire), Room}) :
                /\ env' = [env EXCEPT !.buf = @ \o SubSeq(wire, 1, n), !.p = env.process]
                /\ wire' = SubSeq(wire, n + 1, Len(wire))
                /\ IF SplitsEnd(env'.buf) THEN Fault ELSE UNCHANGED faults
    <3>1. PICK n \in 1 .. Min({Len(wire), Room}) :
                /\ env' = [env EXCEPT !.buf = @ \o SubSeq(wire, 1, n), !.p = env.process]
                /\ wire' = SubSeq(wire, n + 1, Len(wire))
                /\ IF SplitsEnd(env'.buf) THEN Fault ELSE UNCHANGED faults
      BY <2>2
    <3>2. EnvOK(env')
      BY <3>1, FragmentOK DEF TypeInv
    <3>0. n \in 1 .. Len(wire)
      BY <3>1, RoomOK DEF TypeInv
    <3>3. Stream' = Stream /\ Place' = Place /\ Alike(env, env') /\ Fill <= Fill'
      BY <1>1, <1>2, <3>0, <3>1, Arrives
    <3>4. Fill' \in Nat
      BY <3>2 DEF Fill, EnvOK, EnvType
    <3>5. IF SplitsEnd(env'.buf) THEN faults' = faults + 1 ELSE faults' = faults
      BY <3>1 DEF Fault
    <3>6. faults' \in Nat /\ faults <= faults' /\ (Owed => Owed') /\ (SplitsEnd(env'.buf) => Owed')
      BY <1>2, <3>5 DEF Owed
    <3> QED
      BY <3>3, <3>4, <3>6
  <2> QED
    BY <2>1, <2>2 DEF Receive
<1>5. Asked' /\ KeepsOK' /\ AnswerRead'
  BY <1>1, <1>4 DEF ReadInv, Asked, KeepsOK, AnswerRead, Alike
<1>6. Waits'
  <2>1. SUFFICES ASSUME answer = <<>>
                 PROVE  /\ Before(env', Place', Stream', Len(Stream'))
                        /\ Blank(Stream', Len(Stream')) \/ Owed'
    BY <1>1 DEF Waits
  <2>2. Before(env, Place, Stream, Len(Stream)) /\ (Blank(Stream, Len(Stream)) \/ Owed)
    BY <1>1, <2>1 DEF ReadInv, Waits
  <2>3. Before(env', Place, Stream, Len(Stream))
    BY <1>4, <2>2, BeforeAlike
  <2> QED
    BY <1>4, <2>2, <2>3
<1>7. Follows'
  <2>1. SUFFICES ASSUME answer # <<>>
                 PROVE  /\ \E b \in Nat : ReadFrom(b)'
                        /\ env'.astray = TRUE \/ answer[1].chunked \/ conn # "open" => Owed'
                        /\ SplitsEnd(env'.buf) => Owed'
    BY <1>1 DEF Follows
  <2>2. PICK b \in Nat : ReadFrom(b)
    BY <1>1, <2>1 DEF ReadInv, Follows
  <2>3. env.astray = TRUE \/ answer[1].chunked \/ conn # "open" => Owed
    BY <1>1, <2>1 DEF ReadInv, Follows
  <2>4. Reading(answer[1], env, Place, Stream, b) /\ (Blank(Stream, b) \/ Owed)
        /\ (Unread => env.astray = TRUE \/ Fill <= b)
    BY <1>1, <2>2 DEF ReadFrom
  <2>5. Reading(answer[1], env', Place, Stream, b)
    <3>1. Len(env'.buf) \in Nat /\ Len(env.buf) <= Len(env'.buf)
      BY <1>2, <1>4 DEF Fill
    <3> QED
      BY <1>2, <1>4, <2>4, <3>1, ReadingAlike
  <2>6. ReadFrom(b)'
    BY <1>1, <1>4, <2>4, <2>5 DEF ReadFrom
  <2>7. SplitsEnd(env'.buf) => Owed'
    <3>1. SUFFICES ASSUME SplitsEnd(env'.buf), Unread, env'.buf = env.buf PROVE Owed
      BY <1>1, <1>4
    <3>2. CASE env.astray = TRUE
      BY <2>3, <3>2
    <3>3. CASE Fill <= b
      <4>1. ~Blank(Stream, b)
        BY <1>2, <3>1, <3>3, BlankBuffer
      <4> QED
        BY <2>4, <4>1
    <3> QED
      BY <2>4, <3>1, <3>2, <3>3
  <2> QED
    BY <1>4, <2>3, <2>6, <2>7 DEF Alike
<1>8. DebtOK'
  <2>1. repeats' <= faults'
    BY <1>2, <1>4
  <2> QED
    BY <1>1, <1>2, <1>3, <1>4, <2>1 DEF ReadInv, DebtOK
<1> QED
  BY <1>5, <1>6, <1>7, <1>8 DEF ReadInv

\* The parser.
LEMMA ParserRead ==
    ASSUME TypeInv, ReadInv, ParseHttpBuffer, UNCHANGED <<post, made, served, repeats>>
    PROVE  ReadInv'
<1>1. http = "parse" /\ UNCHANGED <<conn, wire, answer, faults>> /\ Place = env.p
  BY LabelIs, ParserKeeps DEF Place
<1>2. EnvOK(env) /\ wire \in Seq(Characters) /\ repeats' \in Nat /\ repeats' <= faults'
  BY <1>1 DEF TypeInv, HttpOK, ReadInv, DebtOK
<1>3. AlreadyServed' = AlreadyServed /\ Owed' = Owed
  BY <1>1 DEF AlreadyServed, Base, Owed
<1>4. answer' \in {<<>>} \cup {<<a>> : a \in Answers} /\ env.reforming = FALSE
  BY <1>1 DEF ReadInv, Asked
<1>5. CASE answer = <<>>
  <2>1. Before(env, env.p, Stream, Len(Stream)) /\ (Blank(Stream, Len(Stream)) \/ Owed)
        /\ (AlreadyServed => Blank(Stream, Len(Stream)) /\ Owed)
    BY <1>1, <1>5 DEF ReadInv, Waits, DebtOK
  <2>2. CASE Invalid /\ ~Blank(Stream, Len(Stream))
    <3>1. http' = "failed" /\ env' = env /\ Owed /\ ~AlreadyServed
      BY <2>1, <2>2 DEF Invalid
    <3>2. Asked' /\ Waits' /\ Follows' /\ KeepsOK' /\ AnswerRead'
      BY <1>1, <1>4, <3>1 DEF Asked, Waits, Follows, KeepsOK, AnswerRead
    <3>3. DebtOK'
      BY <1>1, <1>2, <1>3, <3>1 DEF DebtOK
    <3> QED
      BY <3>2, <3>3 DEF ReadInv
  <2>3. CASE /\ http' \in {"parse", "recv"} /\ env'.buf = env.buf /\ env'.reforming = FALSE
             /\ Stream' = Stream /\ Before(env', Place', Stream', Len(Stream'))
    <3>1. Asked' /\ Follows' /\ KeepsOK' /\ AnswerRead'
      BY <1>1, <1>4, <1>5, <2>3 DEF Asked, Follows, KeepsOK, AnswerRead
    <3>2. Waits'
      BY <1>3, <2>1, <2>3 DEF Waits
    <3>3. DebtOK'
      BY <1>1, <1>2, <1>3, <2>1, <2>3 DEF DebtOK
    <3> QED
      BY <3>1, <3>2, <3>3 DEF ReadInv
  <2> QED
    BY <1>2, <2>1, <2>2, <2>3, WaitingStep
<1>6. CASE answer # <<>>
  <2>1. PICK a \in Answers : answer = <<a>> /\ answer[1] = a
    BY <1>6 DEF ReadInv, Asked
  <2>2. PICK b \in Nat : ReadFrom(b)
    BY <1>1, <1>6 DEF ReadInv, Follows
  <2>3. Reading(a, env, env.p, Stream, b) /\ (Blank(Stream, b) \/ Owed)
    BY <1>1, <2>1, <2>2 DEF ReadFrom
  <2>4. (env.astray = TRUE \/ a.chunked \/ conn # "open" => Owed) /\ (SplitsEnd(env.buf) => Owed)
    BY <1>1, <1>6, <2>1 DEF ReadInv, Follows
  <2>5. ReadingOutcome(a, b)
    BY <1>2, <2>3, ReadingStep
  <2>6. CASE Invalid /\ (env.astray = TRUE \/ ~Blank(Stream, b))
    <3>1. http' = "failed" /\ env' = env /\ Owed
      BY <2>3, <2>4, <2>6 DEF Invalid
    <3>2. Asked' /\ Waits' /\ Follows' /\ KeepsOK' /\ AnswerRead'
      BY <1>1, <1>4, <3>1 DEF Asked, Waits, Follows, KeepsOK, AnswerRead
    <3>3. DebtOK'
      BY <1>1, <1>2, <1>3, <1>6, <3>1 DEF DebtOK
    <3> QED
      BY <3>2, <3>3 DEF ReadInv
  <2>7. CASE ReadsOnward(a, b)
    <3>1. /\ http' \in {"parse", "recv"} /\ env'.reforming = FALSE
          /\ Reading(a, env', Place', Stream', b)
          /\ Blank(Stream', b) \/ Owed
          /\ env'.astray = TRUE => Owed
          /\ SplitsEnd(env'.buf) => Owed
          /\ http' = "recv" /\ Unread' => env'.astray = TRUE
      BY <2>3, <2>4, <2>7 DEF ReadsOnward
    <3>2. Asked' /\ Waits' /\ KeepsOK' /\ AnswerRead'
      BY <1>1, <1>4, <1>6, <3>1 DEF Asked, Waits, KeepsOK, AnswerRead
    <3>3. ReadFrom(b)'
      BY <1>1, <1>3, <2>1, <3>1 DEF ReadFrom
    <3>4. Follows'
      BY <1>1, <1>3, <2>1, <2>4, <3>1, <3>3 DEF Follows
    <3>5. DebtOK'
      BY <1>1, <1>2, <1>3, <1>6, <3>1 DEF DebtOK
    <3> QED
      BY <3>2, <3>4, <3>5 DEF ReadInv
  <2>8. CASE Ended(a)
    <3>1. /\ http' = "done" /\ Quiet(Kept') /\ (~env'.astray => Right(a))
          /\ Blank(Kept', Len(Kept')) \/ Owed
      BY <2>4, <2>8 DEF Ended
    <3>2. Asked' /\ Waits' /\ Follows'
      BY <1>1, <1>4, <3>1 DEF Asked, Waits, Follows
    <3>3. KeepsOK'
      BY <1>3, <3>1 DEF KeepsOK
    <3>4. AnswerRead'
      BY <1>1, <1>6, <2>1, <3>1 DEF AnswerRead, Right, Text
    <3>5. DebtOK'
      BY <1>1, <1>2, <1>6, <3>1 DEF DebtOK
    <3> QED
      BY <3>2, <3>3, <3>4, <3>5 DEF ReadInv
  <2> QED
    BY <2>5, <2>6, <2>7, <2>8 DEF ReadingOutcome
<1> QED
  BY <1>5, <1>6

\* What was already served goes out again: then the fault is there.
LEMMA RepeatOK ==
    ASSUME IInv, ReadInv, faults \in Nat, faults' \in {faults, faults + 1}, Serve
    PROVE  /\ repeats' \in Nat
           /\ AlreadyServed \/ repeats' = repeats
           /\ repeats' \in {repeats, repeats + 1}
<1>1. repeats \in Nat
  BY DEF ReadInv, DebtOK
<1>2. CASE post = <<>>
  BY <1>1, <1>2 DEF Serve
<1>3. CASE post # <<>>
  <2>1. repeats' = IF post[1].no <= served.to THEN repeats + 1 ELSE repeats
    BY <1>3 DEF Serve
  <2>2. post[1].no = Base + 1 /\ Base \in Int /\ served.to \in Nat
    <3>1. Len(post) \in Nat /\ Len(post) # 0 /\ Len(made) \in Nat
      BY <1>3, EmptySeq DEF IInv, Numbered, SomeSeq
    <3>2. 1 \in 1 .. Len(post)
      BY <3>1
    <3> QED
      BY <3>1, <3>2 DEF IInv, Numbered, Known, Base
  <2>3. post[1].no <= served.to => served.to > Base
    BY <2>2
  <2> QED
    BY <1>1, <1>3, <2>1, <2>3 DEF AlreadyServed
<1> QED
  BY <1>2, <1>3

\* The server carries the request out and answers.
LEMMA ServeRead ==
    ASSUME IInv, TypeInv, ReadInv, Serve
    PROVE  ReadInv'
<1>1. PICK a \in Answers : /\ wire' = wire \o a.text /\ answer' = <<a>>
                           /\ IF a.chunked THEN Fault ELSE UNCHANGED faults
  BY DEF Serve, ServerAnswers
<1>2. /\ conn = "open" /\ got = Request /\ UNCHANGED <<http, env, conn, post, made>>
  BY DEF Serve, ServerAnswers, docVars
<1>3. http \in {"recv", "parse", "failed"} /\ answer = <<>>
  <2>1. got # 0
    BY <1>2, HttpAssumption
  <2>2. http # "idle" /\ answer = <<>> /\ http # "send"
    BY <1>2, <2>1, HttpAssumption DEF IInv, Underway
  <2>3. http # "done"
    BY <2>2 DEF ReadInv, AnswerRead
  <2> QED
    BY <2>2, <2>3 DEF TypeInv, HttpOK
<1>4. EnvOK(env) /\ wire \in Seq(Characters) /\ faults \in Nat /\ repeats \in Nat /\ repeats <= faults
  BY DEF TypeInv, HttpOK, ReadInv, DebtOK
<1>5. faults' \in {faults, faults + 1} /\ (a.chunked => faults' = faults + 1)
  BY <1>1 DEF Fault
<1>6. repeats' \in Nat /\ (AlreadyServed \/ repeats' = repeats) /\ repeats' \in {repeats, repeats + 1}
  BY <1>4, <1>5, RepeatOK
<1>7. AlreadyServed => Owed
  BY <1>3 DEF ReadInv, DebtOK
<1>8. repeats' <= faults' /\ (~AlreadyServed /\ Owed => Owed') /\ (a.chunked => Owed')
  BY <1>4, <1>5, <1>6, <1>7 DEF Owed
<1>9. Asked' /\ Waits' /\ KeepsOK' /\ AnswerRead' /\ answer' # <<>> /\ answer'[1] = a
  BY <1>1, <1>2, <1>3 DEF ReadInv, Asked, Waits, KeepsOK, AnswerRead
<1>10. CASE http = "failed"
  <2>1. Owed'
    <3>1. Owed /\ (AlreadyServed => repeats + 1 < faults)
      BY <1>2, <1>3, <1>10 DEF ReadInv, DebtOK
    <3> QED
      BY <1>4, <1>5, <1>6, <1>8, <3>1 DEF Owed
  <2>2. Follows'
    BY <1>2, <1>10 DEF Follows
  <2>3. DebtOK'
    BY <1>2, <1>6, <1>8, <1>9, <1>10, <2>1 DEF DebtOK
  <2> QED
    BY <1>9, <2>2, <2>3 DEF ReadInv
<1>11. CASE http \in {"recv", "parse"}
  <2> DEFINE b == Len(Stream)
  <2>1. /\ Before(env, Place, Stream, b) /\ (Blank(Stream, b) \/ Owed)
        /\ (AlreadyServed => Blank(Stream, b))
    BY <1>3, <1>11 DEF ReadInv, Waits, DebtOK
  <2>2. b \in Nat /\ Fill \in Nat /\ Fill <= b /\ Fill = Len(env.buf) /\ Stream \in Seq(Characters)
        /\ Place \in Nat /\ Place <= Len(env.buf)
    <3>1. Place \in Nat /\ Place <= Len(env.buf)
      BY <1>4 DEF Place, EnvOK, EnvType
    <3> QED
      BY <1>4, <3>1, StreamOK, EnvTypes DEF Has
  <2>3. Stream' = Stream \o a.text /\ Place' = Place /\ Fill' = Fill /\ (Unread' = Unread)
    <3>1. env.buf \in Seq(Characters) /\ a.text \in Seq(Characters)
      BY <1>4, AnswerText DEF EnvOK, EnvType
    <3>2. (env.buf \o wire) \o a.text = env.buf \o (wire \o a.text)
      BY <1>4, <3>1, Together
    <3> QED
      BY <1>1, <1>2, <3>2 DEF Stream, Place, Fill, Unread
  <2>4. Reading(a, env, Place, Stream', b) /\ (Blank(Stream, b) => Blank(Stream', b))
    <3> DEFINE s == Stream
               t == Stream'
               pos == Place
    <3>1. /\ s \in Seq(Characters) /\ Len(env.buf) <= Len(s) /\ pos \in Nat /\ pos <= Len(env.buf)
          /\ Before(env, pos, s, Len(s)) /\ t = s \o a.text /\ b = Len(s)
      BY <2>1, <2>2, <2>3
    <3> HIDE DEF s, t, pos, b
    <3>2. Reading(a, env, pos, t, Len(s)) /\ (Blank(s, Len(s)) => Blank(t, Len(s)))
      BY <1>4, <3>1, AnswerComes
    <3> QED
      BY <3>1, <3>2 DEF s, t, pos
  <2>5. Blank(Stream', b) \/ Owed'
    BY <1>8, <2>1, <2>4
  <2>6. \E c \in Nat : ReadFrom(c)'
    <3>1. PICK c \in Nat : c = Len(Stream)
      BY <2>2
    <3>2. ReadFrom(c)'
      BY <1>2, <1>9, <2>2, <2>3, <2>4, <2>5, <3>1 DEF ReadFrom
    <3> QED
      BY <3>2
  <2>7. env.astray # TRUE
    BY <2>1 DEF Before, Untouched
  <2>8. SplitsEnd(env.buf) => Owed'
    <3>1. SUFFICES ASSUME SplitsEnd(env.buf) PROVE Owed'
      OBVIOUS
    <3>2. ~Blank(Stream, b)
      BY <1>4, <2>2, <3>1, BlankBuffer
    <3> QED
      BY <1>8, <2>1, <3>2
  <2>9. Follows'
    BY <1>2, <1>8, <1>9, <2>2, <2>6, <2>7, <2>8 DEF Follows
  <2>10. DebtOK'
    BY <1>2, <1>6, <1>8, <1>9, <1>11 DEF DebtOK
  <2> QED
    BY <1>9, <2>9, <2>10 DEF ReadInv
<1> QED
  BY <1>3, <1>10, <1>11

\* What comes when the connection ends is the beginning of what was to come.
LEMMA StreamShrinks ==
    ASSUME EnvOK(env), wire \in Seq(Characters), env' = env, wire' \in {wire, <<>>}
    PROVE  Begins(Stream', Stream, Len(env.buf)) /\ Begins(Kept', Kept, 0)
<1> DEFINE x == ResetHttpEnv(env).buf
<1>1. x \in Seq(Characters) /\ env.buf \in Seq(Characters)
  BY ResetOK DEF EnvOK, EnvType
<1>2. ASSUME NEW u \in Seq(Characters)
      PROVE  Begins(u \o wire', u \o wire, Len(u)) /\ Begins(u \o wire', u \o wire, 0)
  <2>1. CASE wire' = wire
    BY <2>1 DEF Begins
  <2>2. CASE wire' = <<>>
    <3>1. u \o wire' = u
      BY <2>2, ConcatEmptySeq
    <3> QED
      BY <3>1 DEF Begins
  <2> QED
    BY <2>1, <2>2
<1>3. Kept = x \o wire /\ Kept' = x \o wire' /\ Stream = env.buf \o wire /\ Stream' = env.buf \o wire'
  BY DEF Kept, Stream
<1> HIDE DEF x
<1> QED
  BY <1>1, <1>2, <1>3

\* The connection ends.
LEMMA ClosesRead ==
    ASSUME IInv, TypeInv, ReadInv, Closes
    PROVE  ReadInv'
<1>1. /\ http # "parse" /\ conn' = "closed" /\ wire' \in {wire, <<>>} /\ faults' = faults + 1
      /\ UNCHANGED <<http, env, answer, post, made, served, repeats>>
  BY DEF Closes, ServerCloses, Fault, docVars
<1>2. EnvOK(env) /\ wire \in Seq(Characters) /\ faults \in Nat /\ repeats \in Nat /\ repeats <= faults
  BY DEF TypeInv, HttpOK, ReadInv, DebtOK
<1>3. Owed' /\ repeats' <= faults' /\ AlreadyServed' = AlreadyServed
  BY <1>1, <1>2 DEF Owed, AlreadyServed, Base
<1>4. Begins(Stream', Stream, Len(env.buf)) /\ Begins(Kept', Kept, 0)
  BY <1>1, <1>2, StreamShrinks
<1>5. Place' = Place /\ Fill' = Fill /\ Unread' = Unread /\ Place \in Nat /\ Place <= Len(env.buf)
  BY <1>1, <1>2 DEF Place, Fill, Unread, EnvOK, EnvType
<1>6. Asked' /\ AnswerRead'
  BY <1>1 DEF ReadInv, Asked, AnswerRead, Text
<1>7. KeepsOK'
  BY <1>1, <1>3, <1>4, QuietBegins DEF ReadInv, KeepsOK
<1>8. Waits'
  <2>1. SUFFICES ASSUME http \in {"send", "recv"}, answer = <<>>
                 PROVE  Before(env, Place, Stream', Len(Stream'))
    BY <1>1, <1>3, <1>5 DEF Waits
  <2>2. Before(env, Place, Stream, Len(Stream))
    BY <2>1 DEF ReadInv, Waits
  <2>3. Len(Stream) \in Nat /\ Len(Stream') \in Nat /\ Len(Stream') <= Len(Stream)
    BY <1>4 DEF Begins
  <2> QED
    BY <1>2, <1>4, <1>5, <2>2, <2>3, BeforeBegins
<1>9. Follows'
  <2>1. SUFFICES ASSUME http = "recv", answer # <<>> PROVE \E b \in Nat : ReadFrom(b)'
    BY <1>1, <1>3 DEF Follows
  <2>2. PICK a \in Answers : answer = <<a>> /\ answer[1] = a
    BY <2>1 DEF ReadInv, Asked
  <2>3. PICK b \in Nat : ReadFrom(b)
    BY <2>1 DEF ReadInv, Follows
  <2>4. Reading(a, env, Place, Stream', b)
    BY <1>2, <1>4, <1>5, <2>2, <2>3, ReadingBegins DEF ReadFrom
  <2>5. ReadFrom(b)'
    BY <1>1, <1>3, <1>5, <2>2, <2>3, <2>4 DEF ReadFrom
  <2> QED
    BY <2>5
<1>10. DebtOK'
  <2>1. AlreadyServed /\ http = "idle" => Blank(Kept', Len(Kept'))
    BY <1>4, AllBlankBegins DEF ReadInv, DebtOK
  <2>2. AlreadyServed /\ http \in {"send", "recv", "parse"} /\ answer = <<>> => Blank(Stream', Len(Stream'))
    BY <1>4, AllBlankBegins DEF ReadInv, DebtOK
  <2> QED
    BY <1>1, <1>2, <1>3, <2>1, <2>2 DEF DebtOK
<1> QED
  BY <1>6, <1>7, <1>8, <1>9, <1>10 DEF ReadInv

\* Every step.
LEMMA ReadStep ==
    ASSUME IInv, TypeInv, ReadInv, [Next]_vars
    PROVE  ReadInv'
<1>1. CASE InRequest
  <2>1. RequestHttp /\ UNCHANGED <<post, made, served, repeats>>
    BY <1>1 DEF InRequest, docVars
  <2> QED
    BY <2>1, SendRead, FailsRead, GrowRead, ReceiveRead, ParserRead DEF RequestHttp
<1>2. CASE EpollWait \/ UNCHANGED vars
  <2>1. UNCHANGED <<httpVars, repeats, post, made, served>>
    BY <1>2 DEF EpollWait, vars, docVars
  <2>2. AlreadyServed' = AlreadyServed
    BY <2>1 DEF AlreadyServed, Base
  <2> QED
    BY <2>1, <2>2, SameInv
<1>3. CASE PostToEs
  BY <1>1, <1>3, StartRead, StrcpyRead, AgainRead, PostedRead DEF PostToEs
<1> QED
  BY <1>2, <1>3, BlocksRead, SocketRead, ServeRead, ClosesRead DEF Next, Blocks

\* The initial states.
LEMMA InitRead == Init => ReadInv
<1> SUFFICES ASSUME Init PROVE ReadInv
  OBVIOUS
<1>1. http = "idle" /\ answer = <<>> /\ repeats = 0 /\ faults = 0 /\ post = <<>> /\ wire = <<>>
      /\ env.reforming = FALSE
  BY DEF Init, HttpInit, FreshEnv
<1>2. ~AlreadyServed
  BY <1>1 DEF AlreadyServed
<1>3. Kept = <<>>
  BY <1>1 DEF Kept, ResetHttpEnv, FreshEnv
<1>4. Quiet(Kept) /\ Blank(Kept, Len(Kept))
  <2>1. Len(Kept) = 0
    BY <1>3
  <2> QED
    BY <2>1 DEF Quiet, Blank
<1> QED
  BY <1>1, <1>2, <1>4 DEF ReadInv, Asked, Waits, Follows, KeepsOK, DebtOK, AnswerRead

-----------------------------------------------------------------------------
(* What holds always *)

\* The invariant that is inductive: what the server knows, the buffers, and how far the
\* parser has come with the answer to this very request.
AllInv == IInv /\ TypeInv /\ ReadInv

\* It holds in every state.
LEMMA AllInvAlways == Spec => []AllInv
<1>1. Init => AllInv
  BY InitInv, InitTypes, InitRead DEF AllInv
<1>2. AllInv /\ [Next]_vars => AllInv'
  <2>1. ReadInv => AnswerRead
    BY DEF ReadInv
  <2> QED
    BY <2>1, NextStep, TypesStep, ReadStep DEF AllInv, Step
<1> QED
  BY <1>1, <1>2, PTL DEF Spec

\* When RequestHttp returns 0 the server has answered this very request, and the status
\* and the body that were parsed are those of the answer, wherever the network cut it and
\* whatever was left in the buffer by the answer before, and however often the buffer
\* grows: unless the cut is in the empty line, or the buffer grows within a chunked body
\* and is moved, which leaves the parser with pointers into the freed block.
THEOREM AnswerReadAlways == Spec => []AnswerRead
<1>1. AllInv => AnswerRead
  BY DEF AllInv, ReadInv
<1> QED
  BY <1>1, AllInvAlways, PTL

\* PostToEs: no request carries documents that the server has had before unless a fault of
\* the network, the server or the machine came before it, one for each.
THEOREM RepeatsExcusedAlways == Spec => []RepeatsExcused
<1>1. AllInv => RepeatsExcused
  BY DEF AllInv, ReadInv, DebtOK, RepeatsExcused
<1> QED
  BY <1>1, AllInvAlways, PTL

\* PostToEs: the server gets the documents in order and without a gap, each at least once,
\* whatever is lost, late, cut, resent or kept in post_buffer after a failure.
THEOREM InOrderAlways == Spec => InOrder
<1>1. Init => Log!Init
  BY InitInv
<1>2. AllInv /\ [Next]_vars => [Log!Next]_served
  BY NextStep DEF AllInv, ReadInv, Step
<1> QED
  BY <1>1, <1>2, AllInvAlways, PTL DEF Spec, InOrder, Log!Spec

\* Whatever the server answers and wherever that is cut, recv never fills the last byte
\* of the response buffer, which is grown first, and parse_buflen never passes the end of
\* parse_buffer.  process_ptr and the parser's pointer never pass fill_ptr, but for one
\* case, of which nothing is claimed: the parser has gone on from a chunk whose pointer
\* was left in a freed block.  (Number has no sign and no end: lengths that an int does
\* not hold are left out.)
THEOREM TypeOKAlways == Spec => []TypeOK
<1>1. AllInv => TypeOK
  <2> SUFFICES ASSUME IInv, TypeInv PROVE TypeOK
    BY DEF AllInv
  <2>1. EnvOK(env)
    BY DEF TypeInv, HttpOK
  <2>2. env.step \in Steps /\ Fill < env.size /\ env.process \in 0 .. Fill /\ env.p \in 0 .. Fill
    <3>1. Fill < env.size
      BY <2>1 DEF EnvOK, Fill
    <3> QED
      BY <2>1, <3>1, EnvTypes
  <2>3. left \in 0 .. Request /\ got \in 0 .. Request
    BY HttpAssumption DEF TypeInv, HttpOK, IInv, Underway
  <2>4. HttpTypeOK
    BY <2>2, <2>3 DEF HttpTypeOK, TypeInv, HttpOK
  <2>5. parseLen \in Nat /\ parseLen <= ParseSize /\ ParseSize \in Nat
    BY EsAssumption DEF TypeInv, BufferOK
  <2>6. LineEnd \in 1 .. ParseSize + 1
    BY <2>5, LineEndOK
  <2> QED
    BY <2>4, <2>6 DEF TypeOK, TypeInv, BufferOK, IInv, Underway
<1> QED
  BY <1>1, AllInvAlways, PTL
=============================================================================
