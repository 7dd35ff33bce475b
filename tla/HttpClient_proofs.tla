--------------------------- MODULE HttpClient_proofs ---------------------------
(***************************************************************************)
(* What the parser of RequestHttp does with an answer, for any answers of  *)
(* the kind HttpClient describes and wherever the network cuts them: its   *)
(* pointers stay within what was received, unless they are in a block that *)
(* was freed, and when it is done it has the status and the body of the    *)
(* answer, unless it went astray: it was made to go back, by a cut within  *)
(* the empty line, or used such a pointer.  Then, too, it does not take    *)
(* anything before the answer, or behind it, for an answer.                *)
(*                                                                         *)
(* Reading says how far the parser has come with the answer, which begins  *)
(* behind the first b characters of what it has received and will receive. *)
(* It is relative to the place from which the parser goes on, so that it   *)
(* holds between two fragments as well as between two labels.              *)
(***************************************************************************)
EXTENDS HttpClient, SequenceTheorems, WellFoundedInduction, TLAPS

-----------------------------------------------------------------------------
(* The frame of the parser *)

\* Only the parser's own state changes while an answer is parsed.
LEMMA ParserKeeps ==
    ASSUME ParseHttpBuffer
    PROVE  http' # "send" /\ http' # "idle" /\ http # "idle" /\ http # "send"
           /\ UNCHANGED <<left, conn, wire, got, answer, faults>>
<1> DEFINE Before == http = "parse"
           After == http' \in {"parse", "recv", "failed", "done"}
<1>1. \A e, p : NeedMore(e, p) => After
  BY DEF NeedMore
<1>2. \A e, st, p : Goto(e, st, p) => After
  BY DEF Goto
<1>3. \A e, p, keeps : Done(e, p, keeps) => After
  BY DEF Done
<1>4. Invalid => After
  BY DEF Invalid
<1>5. \A st : Parsing(st) => Before
  BY DEF Parsing
<1>6. Before /\ After
  <2> HIDE DEF Before, After
  <2>1. \A p : HeadersEnd(p) => After
    BY <1>2, <1>3 DEF HeadersEnd
  <2>2. \A st, next : WordBegins(st, next) => Before /\ After
    BY <1>1, <1>2, <1>4, <1>5, Zenon DEF WordBegins
  <2>3. CASE ParseVersion
    BY <1>1, <1>2, <1>4, <1>5, <2>2, <2>3, Zenon DEF ParseVersion, WordEnds
  <2>4. CASE ParseStatus
    BY <1>1, <1>2, <1>4, <1>5, <2>2, <2>4, Zenon DEF ParseStatus, WordEnds
  <2>5. CASE ParseReason
    BY <1>1, <1>2, <1>5, <2>2, <2>5, Zenon DEF ParseReason
  <2>6. CASE ParseHeaderName0
    BY <1>1, <1>2, <1>5, <2>1, <2>6, Zenon DEF ParseHeaderName0
  <2>7. CASE ParseHeaderName
    BY <1>1, <1>2, <1>4, <1>5, <2>7, Zenon DEF ParseHeaderName
  <2>8. CASE ParseHeaderValue
    BY <1>1, <1>2, <1>5, <2>2, <2>8, Zenon DEF ParseHeaderValue
  <2>9. CASE ParseBody
    BY <1>1, <1>3, <1>5, <2>9, Zenon DEF ParseBody
  <2>10. CASE ParseChunkSize
    BY <1>1, <1>2, <1>3, <1>5, <2>10, Zenon DEF ParseChunkSize
  <2>11. CASE ParseChunkData
    BY <1>1, <1>2, <1>5, <2>11, Zenon DEF ParseChunkData, ParseChunk, ParseFreedChunk
  <2> QED
    BY <2>3, <2>4, <2>5, <2>6, <2>7, <2>8, <2>9, <2>10, <2>11 DEF ParseHttpBuffer
<1>7. UNCHANGED <<left, conn, wire, got, answer, faults>>
  BY Zenon DEF ParseHttpBuffer
<1> QED BY <1>6, <1>7

-----------------------------------------------------------------------------
(* Numbers *)

\* A set of numbers has a least one.
LEMMA LeastOK ==
    ASSUME NEW S \in SUBSET Nat, S # {}
    PROVE  \E x \in S : \A y \in S : x <= y
<1>1. PICK x \in S : \A y \in S : <<y, x>> \notin OpToRel(<, Nat)
  BY NatLessThanWellFounded, WFMin
<1>2. \A y \in S : x <= y
  <2>1. TAKE y \in S
  <2>2. <<y, x>> \in Nat \X Nat /\ <<y, x>>[1] = y /\ <<y, x>>[2] = x
    OBVIOUS
  <2>3. ~(y < x)
    BY <1>1, <2>2 DEF OpToRel
  <2> QED
    BY <2>3
<1> QED
  BY <1>2

\* The numbers read up to each of the first n characters.
Reads(f, b, text, n) == f = [i \in 0 .. n |-> IF i = 0 THEN b ELSE Digit(f[i - 1], text[i])]

\* There are such numbers.
LEMMA ReadsExists ==
    ASSUME NEW b, NEW text, NEW m \in Nat
    PROVE  \E f : Reads(f, b, text, m)
<1> DEFINE Bad == {n \in Nat : ~ \E f : Reads(f, b, text, n)}
<1>1. SUFFICES ASSUME Bad # {} PROVE FALSE
  OBVIOUS
<1>2. PICK n \in Bad : \A k \in Bad : n <= k
  <2> HIDE DEF Bad
  <2>1. Bad \in SUBSET Nat
    BY DEF Bad
  <2> QED
    BY <1>1, <2>1, LeastOK
<1>3. n \in Nat /\ ~ \E f : Reads(f, b, text, n)
  OBVIOUS
<1>4. n # 0
  <2> DEFINE g == [i \in 0 .. 0 |-> b]
             h == [i \in 0 .. 0 |-> IF i = 0 THEN b ELSE Digit(g[i - 1], text[i])]
  <2>1. \A i \in 0 .. 0 : g[i] = h[i]
    OBVIOUS
  <2>2. g = h
    BY <2>1
  <2>3. Reads(g, b, text, 0)
    BY <2>2 DEF Reads
  <2> QED
    BY <1>3, <2>3
<1>5. n - 1 \in Nat /\ n - 1 \notin Bad
  BY <1>2, <1>3, <1>4
<1>6. PICK f : Reads(f, b, text, n - 1)
  BY <1>5
<1> DEFINE g == [i \in 0 .. n |-> IF i <= n - 1 THEN f[i] ELSE Digit(f[i - 1], text[i])]
           h == [i \in 0 .. n |-> IF i = 0 THEN b ELSE Digit(g[i - 1], text[i])]
<1>7. ASSUME NEW i \in 0 .. n PROVE g[i] = h[i]
  <2>1. CASE i <= n - 1
    <3>1. i \in 0 .. n - 1 /\ (i # 0 => i - 1 \in 0 .. n /\ i - 1 <= n - 1)
      BY <1>3, <2>1
    <3>2. f[i] = IF i = 0 THEN b ELSE Digit(f[i - 1], text[i])
      BY <1>6, <3>1 DEF Reads
    <3>3. g[i] = f[i] /\ (i # 0 => g[i - 1] = f[i - 1])
      BY <2>1, <3>1
    <3> QED
      BY <3>2, <3>3
  <2>2. CASE ~(i <= n - 1)
    <3>1. i # 0 /\ i - 1 \in 0 .. n /\ i - 1 <= n - 1
      BY <1>3, <1>4, <2>2
    <3> QED
      BY <2>2, <3>1
  <2> QED
    BY <2>1, <2>2
<1>8. g = h
  BY <1>7
<1>9. Reads(g, b, text, n)
  BY <1>8 DEF Reads
<1> QED
  BY <1>3, <1>9

\* A digit behind a number makes a number.
LEMMA DigitType == \A n \in Nat : \A c : Digit(n, c) \in Nat
<1>1. \A c \in DOMAIN Decimal : Decimal[c] \in Nat
  BY DEF Decimal
<1>2. \A n, d \in Nat : n * 10 + d \in Nat
  OBVIOUS
<1> QED
  BY <1>1, <1>2 DEF Digit

\* They are numbers: the first one that is not would have one before it.
LEMMA ReadsType ==
    ASSUME NEW b \in Nat, NEW text, NEW m \in Nat, NEW f, Reads(f, b, text, m)
    PROVE  f[m] \in Nat
<1> DEFINE Bad == {n \in 0 .. m : f[n] \notin Nat}
<1>1. SUFFICES ASSUME Bad # {} PROVE FALSE
  OBVIOUS
<1>2. PICK n \in Bad : \A k \in Bad : n <= k
  <2> HIDE DEF Bad
  <2>1. Bad \in SUBSET Nat
    BY DEF Bad
  <2> QED
    BY <1>1, <2>1, LeastOK
<1>3. n \in 0 .. m /\ f[n] \notin Nat
  OBVIOUS
<1>4. n # 0
  BY <1>3 DEF Reads
<1>5. n - 1 \in 0 .. m /\ f[n - 1] \in Nat
  BY <1>2, <1>3, <1>4
<1>6. f[n] = Digit(f[n - 1], text[n])
  <2>1. \A i \in 0 .. m : f[i] = IF i = 0 THEN b ELSE Digit(f[i - 1], text[i])
    BY DEF Reads
  <2> QED
    BY <1>3, <1>4, <2>1
<1> QED
  BY <1>3, <1>5, <1>6, DigitType

\* Number gives a number.
LEMMA NumberType ==
    ASSUME NEW b \in Nat, NEW text, Len(text) \in Nat
    PROVE  Number(b, text) \in Nat
<1> DEFINE f == CHOOSE f : Reads(f, b, text, Len(text))
<1>1. Reads(f, b, text, Len(text))
  BY ReadsExists, Zenon
<1>2. Number(b, text) = f[Len(text)]
  BY DEF Number, Digits, Reads
<1> HIDE DEF f
<1> QED
  BY <1>1, <1>2, ReadsType

-----------------------------------------------------------------------------
(* The parser stays within the response buffer *)

\* What may be in the response buffer.
Characters == {"nul"} \cup UNION {{a.text[i] : i \in DOMAIN a.text} : a \in Answers}

\* struct HttpEnv.
EnvType ==
    [buf : Seq(Characters), size : Nat, process : Nat, p : Nat, step : Steps,
     at : Nat, name : Nat, nameLen : Int, status : Seq(Characters),
     length : Nat, chunked : BOOLEAN, body : Nat,
     chunkLen : Nat, chunk : Nat, chunkEnd : Nat, reforming : BOOLEAN,
     dangling : SUBSET {"p", "chunk", "chunkEnd"}, astray : BOOLEAN]

InChunks(step) == step \in {"CHUNKED_SIZE", "CHUNKED_DATA"}

\* What holds of it at every label of the parser.
EnvOK(e) ==
    /\ e \in EnvType
    /\ Len(e.buf) < e.size
    /\ e.process <= Len(e.buf) /\ e.p <= Len(e.buf)
    /\ e.step = "BODY" => e.body <= Len(e.buf)
    /\ e.dangling # {} \/ InChunks(e.step) => e.chunked = TRUE

\* Scan stops between p and fill_ptr.
LEMMA ScanOK ==
    ASSUME NEW p \in Nat, NEW n \in Nat, p <= n, NEW hits \in SUBSET (p .. n - 1)
    PROVE  (IF hits = {} THEN n ELSE CHOOSE i \in hits : \A j \in hits : i <= j) \in p .. n
<1>1. CASE hits = {}
  BY <1>1
<1>2. CASE hits # {}
  <2>1. hits \in SUBSET Nat
    OBVIOUS
  <2>2. \E i \in hits : \A j \in hits : i <= j
    BY <1>2, <2>1, LeastOK
  <2>3. (CHOOSE i \in hits : \A j \in hits : i <= j) \in hits
    BY <2>2
  <2>4. \A i \in hits : i \in p .. n
    OBVIOUS
  <2> QED
    BY <1>2, <2>3, <2>4
<1> QED
  BY <1>1, <1>2

\* So do Find and Skip.
LEMMA FindOK ==
    ASSUME EnvOK(env), NEW p \in Nat, p <= Fill, NEW chars
    PROVE  Find(p, chars) \in p .. Fill
<1> DEFINE hits == {i \in p .. Fill - 1 : At(i) \in chars}
<1>1. Fill \in Nat
  BY DEF EnvOK, EnvType, Fill
<1>2. hits \in SUBSET (p .. Fill - 1)
  OBVIOUS
<1>3. Find(p, chars) = IF hits = {} THEN Fill ELSE CHOOSE i \in hits : \A j \in hits : i <= j
  BY DEF Find, Scan
<1> HIDE DEF hits
<1> QED
  BY <1>1, <1>2, <1>3, ScanOK

LEMMA SkipOK ==
    ASSUME EnvOK(env), NEW p \in Nat, p <= Fill
    PROVE  Skip(p) \in p .. Fill
<1> DEFINE hits == {i \in p .. Fill - 1 : At(i) # "sp"}
<1>1. Fill \in Nat
  BY DEF EnvOK, EnvType, Fill
<1>2. hits \in SUBSET (p .. Fill - 1)
  OBVIOUS
<1>3. Skip(p) = IF hits = {} THEN Fill ELSE CHOOSE i \in hits : \A j \in hits : i <= j
  BY DEF Skip, Scan
<1> HIDE DEF hits
<1> QED
  BY <1>1, <1>2, <1>3, ScanOK

\* The parser at its start.
LEMMA FreshOK ==
    ASSUME NEW text \in Seq(Characters), NEW size \in Nat, Len(text) < size
    PROVE  EnvOK(FreshEnv(text, size))
<1>1. Len(text) \in Nat /\ <<>> \in Seq(Characters)
  OBVIOUS
<1>2. FreshEnv(text, size) \in EnvType
  BY <1>1 DEF FreshEnv, EnvType, Steps
<1> QED
  BY <1>1, <1>2 DEF FreshEnv, EnvOK, InChunks

\* ResetHttpEnv keeps the rest of an answer or nothing.
LEMMA ResetOK ==
    ASSUME EnvOK(env)
    PROVE  EnvOK(ResetHttpEnv(env))
<1>1. env.buf \in Seq(Characters) /\ env.process \in Nat /\ Len(env.buf) \in Nat
  BY DEF EnvOK, EnvType
<1>2. \A i \in env.process + 1 .. Len(env.buf) : env.buf[i] \in Characters
  BY <1>1
<1>3. SubSeq(env.buf, env.process + 1, Len(env.buf)) \in Seq(Characters)
  BY <1>1, <1>2, SubSeqProperties
<1>4. <<>> \in Seq(Characters) /\ Len(<<>>) = 0
  OBVIOUS
<1>5. env.size \in Nat /\ Len(env.buf) < env.size
  BY DEF EnvOK, EnvType
<1>6. Len(SubSeq(env.buf, env.process + 1, Len(env.buf))) <= Len(env.buf)
  BY <1>1
<1> DEFINE rest == SubSeq(env.buf, env.process + 1, Len(env.buf))
<1>7. Len(rest) \in Nat /\ Len(rest) < env.size /\ Len(<<>>) < env.size
  BY <1>1, <1>3, <1>4, <1>5, <1>6
<1>8. EnvOK(FreshEnv(rest, env.size)) /\ EnvOK(FreshEnv(<<>>, env.size))
  BY <1>3, <1>4, <1>5, <1>7, FreshOK
<1> QED
  BY <1>8 DEF ResetHttpEnv

\* The text of a word.
LEMMA TextType ==
    ASSUME EnvOK(env), NEW i \in Nat, NEW p \in Nat, p <= Fill
    PROVE  Text(i, p - i) \in Seq(Characters) /\ Len(Text(i, p - i)) \in Nat
<1>1. env.buf \in Seq(Characters) /\ Fill = Len(env.buf) /\ Fill \in Nat
  BY DEF EnvOK, EnvType, Fill
<1>2. i + (p - i) = p /\ i + 1 \in Int
  OBVIOUS
<1>3. \A k \in i + 1 .. p : env.buf[k] \in Characters
  BY <1>1
<1>4. SubSeq(env.buf, i + 1, p) \in Seq(Characters)
  BY <1>2, <1>3, SubSeqProperties
<1> QED
  BY <1>2, <1>4 DEF Text

\* The ways the parser stops or goes on.
LEMMA MoreOK ==
    ASSUME NEW e, EnvOK(e), NEW p \in Nat, p <= Len(e.buf), NeedMore(e, p)
    PROVE  EnvOK(env') /\ http' = "recv"
<1>1. env' = [e EXCEPT !.process = p]
  BY DEF NeedMore
<1>2. env' \in EnvType /\ env'.process = p /\ env'.buf = e.buf /\ env'.p = e.p
      /\ env'.step = e.step /\ env'.body = e.body /\ env'.size = e.size
      /\ env'.dangling = e.dangling /\ env'.chunked = e.chunked
  BY <1>1 DEF EnvOK, EnvType
<1> QED
  BY <1>2 DEF EnvOK, NeedMore

LEMMA GotoOK ==
    ASSUME NEW e, EnvOK(e), NEW step \in Steps, NEW p \in Nat, p <= Len(e.buf),
           step = "BODY" => e.body <= Len(e.buf), InChunks(step) => e.chunked = TRUE,
           Goto(e, step, p)
    PROVE  EnvOK(env') /\ http' = "parse"
<1>1. env' = [e EXCEPT !.step = step, !.p = p]
  BY DEF Goto
<1>2. env' \in EnvType /\ env'.process = e.process /\ env'.buf = e.buf /\ env'.p = p
      /\ env'.step = step /\ env'.body = e.body /\ env'.size = e.size
      /\ env'.dangling = e.dangling /\ env'.chunked = e.chunked
  BY <1>1 DEF EnvOK, EnvType
<1> QED
  BY <1>2 DEF EnvOK, Goto

LEMMA DoneOK ==
    ASSUME NEW e, EnvOK(e), Len(e.buf) = Fill, NEW p \in Nat, p <= Fill,
           NEW keeps \in BOOLEAN, Done(e, p, keeps)
    PROVE  EnvOK(env') /\ http' = "done"
<1> DEFINE b == IF p < Fill THEN [e.buf EXCEPT ![p + 1] = "nul"] ELSE e.buf
           k == keeps /\ p < Fill
<1>1. env' = [e EXCEPT !.step = "DONE", !.process = p, !.reforming = k, !.buf = b]
  BY DEF Done
<1>2. b \in Seq(Characters) /\ Len(b) = Len(e.buf)
  <2>1. e.buf \in Seq(Characters) /\ "nul" \in Characters
    BY DEF EnvOK, EnvType, Characters
  <2> QED
    BY <2>1
<1>3. k \in BOOLEAN
  OBVIOUS
<1> HIDE DEF b, k
<1>4. env' \in EnvType /\ env'.process = p /\ env'.buf = b /\ env'.p = e.p /\ env'.step = "DONE"
      /\ env'.size = e.size /\ env'.dangling = e.dangling /\ env'.chunked = e.chunked
  BY <1>1, <1>2, <1>3 DEF EnvOK, EnvType, Steps
<1> QED
  BY <1>2, <1>4 DEF EnvOK, Done, InChunks

\* What a step of the parser leaves.
Parsed == EnvOK(env') /\ http' \in {"parse", "recv", "failed", "done"}

\* What the steps of the parser know of it.
LEMMA EnvTypes ==
    ASSUME EnvOK(env)
    PROVE  /\ Fill \in Nat /\ Fill = Len(env.buf) /\ env.buf \in Seq(Characters)
           /\ env.p \in Nat /\ env.p <= Fill /\ env.process \in Nat /\ env.process <= Fill
           /\ env.at \in Nat /\ env.name \in Nat /\ env.length \in Nat /\ env.body \in Nat
           /\ env.chunkLen \in Nat /\ env.chunk \in Nat /\ env.chunkEnd \in Nat
           /\ env.step \in Steps /\ (env.step = "BODY" => env.body <= Fill)
BY DEF EnvOK, EnvType, Fill

\* One lemma for each label.
LEMMA InvalidOK ==
    ASSUME EnvOK(env), Invalid
    PROVE  Parsed
BY DEF Invalid, Parsed

LEMMA WordBeginsOK ==
    ASSUME EnvOK(env), NEW step, NEW next \in Steps \ {"BODY"}, ~InChunks(next),
           WordBegins(step, next)
    PROVE  Parsed
<1> DEFINE p == Skip(env.p)
<1>1. p \in Nat /\ p <= Fill /\ Fill = Len(env.buf) /\ Fill \in Nat
  BY EnvTypes, SkipOK, SMTT(30)
<1>2. \/ NeedMore(env, p) \/ Invalid
      \/ p < Fill /\ Goto([env EXCEPT !.at = p], next, p + 1)
  BY DEF WordBegins
<1> HIDE DEF p
<1>3. CASE NeedMore(env, p)
  BY <1>1, <1>3, MoreOK DEF Parsed
<1>4. CASE p < Fill /\ Goto([env EXCEPT !.at = p], next, p + 1)
  <2> DEFINE e == [env EXCEPT !.at = p]
  <2>1. EnvOK(e) /\ e.buf = env.buf
    BY <1>1 DEF EnvOK, EnvType
  <2>2. p + 1 \in Nat /\ p + 1 <= Len(e.buf)
    BY <1>1, <1>4, <2>1
  <2> HIDE DEF e
  <2>3. Goto(e, next, p + 1)
    BY <1>4 DEF e
  <2> QED
    BY <2>1, <2>2, <2>3, GotoOK DEF Parsed, InChunks
<1> QED
  BY <1>2, <1>3, <1>4, InvalidOK

LEMMA VersionOK ==
    ASSUME EnvOK(env), ParseVersion
    PROVE  Parsed
<1>1. CASE WordBegins("VERSION0", "VERSION")
  BY <1>1, WordBeginsOK DEF Steps, InChunks
<1>2. CASE ~WordBegins("VERSION0", "VERSION")
  <2> DEFINE p == Find(env.p, {"sp", "lf"})
  <2>1. p \in Nat /\ p <= Fill /\ Fill = Len(env.buf) /\ Fill \in Nat
    BY EnvTypes, FindOK
  <2>2. NeedMore(env, p) \/ Invalid \/ (p < Fill /\ Goto(env, "STATUSCODE0", p + 1))
    BY <1>2 DEF ParseVersion, WordEnds
  <2> HIDE DEF p
  <2>3. CASE NeedMore(env, p)
    BY <2>1, <2>3, MoreOK DEF Parsed
  <2>4. CASE p < Fill /\ Goto(env, "STATUSCODE0", p + 1)
    <3>1. p + 1 \in Nat /\ p + 1 <= Len(env.buf)
      BY <2>1, <2>4
    <3> QED
      BY <2>4, <3>1, GotoOK DEF Parsed, Steps, InChunks
  <2> QED
    BY <2>2, <2>3, <2>4, InvalidOK
<1> QED
  BY <1>1, <1>2

LEMMA StatusOK ==
    ASSUME EnvOK(env), ParseStatus
    PROVE  Parsed
<1>1. CASE WordBegins("STATUSCODE0", "STATUSCODE")
  BY <1>1, WordBeginsOK DEF Steps, InChunks
<1>2. CASE ~WordBegins("STATUSCODE0", "STATUSCODE")
  <2> DEFINE p == Find(env.p, {"sp", "lf"})
             word == Text(env.at, p - env.at)
             e == [env EXCEPT !.status = word]
  <2>1. p \in Nat /\ p <= Fill /\ Fill = Len(env.buf) /\ Fill \in Nat
    BY EnvTypes, FindOK
  <2>2. NeedMore(env, p) \/ Invalid \/ (p < Fill /\ Goto(e, "REASONPHRASE0", p + 1))
    BY <1>2 DEF ParseStatus, WordEnds
  <2> HIDE DEF p
  <2>3. CASE NeedMore(env, p)
    BY <2>1, <2>3, MoreOK DEF Parsed
  <2>4. CASE p < Fill /\ Goto(e, "REASONPHRASE0", p + 1)
    <3>1. word \in Seq(Characters)
      BY <2>1, EnvTypes, TextType
    <3> HIDE DEF word
    <3>2. EnvOK(e) /\ e.buf = env.buf
      BY <3>1 DEF EnvOK, EnvType
    <3>3. p + 1 \in Nat /\ p + 1 <= Len(e.buf)
      BY <2>1, <2>4, <3>2
    <3> HIDE DEF e
    <3> QED
      BY <2>4, <3>2, <3>3, GotoOK DEF Parsed, Steps, InChunks
  <2> QED
    BY <2>2, <2>3, <2>4, InvalidOK
<1> QED
  BY <1>1, <1>2

LEMMA ReasonOK ==
    ASSUME EnvOK(env), ParseReason
    PROVE  Parsed
<1>1. CASE WordBegins("REASONPHRASE0", "REASONPHRASE")
  BY <1>1, WordBeginsOK DEF Steps, InChunks
<1>2. CASE ~WordBegins("REASONPHRASE0", "REASONPHRASE")
  <2> DEFINE p == Find(env.p, {"lf"})
  <2>1. p \in Nat /\ p <= Fill /\ Fill = Len(env.buf) /\ Fill \in Nat
    BY EnvTypes, FindOK
  <2>2. NeedMore(env, p) \/ (p # Fill /\ Goto(env, "HEADER_NAME0", p + 1))
    BY <1>2 DEF ParseReason
  <2> HIDE DEF p
  <2>3. CASE NeedMore(env, p)
    BY <2>1, <2>3, MoreOK DEF Parsed
  <2>4. CASE p # Fill /\ Goto(env, "HEADER_NAME0", p + 1)
    <3>1. p + 1 \in Nat /\ p + 1 <= Len(env.buf)
      BY <2>1, <2>4
    <3> QED
      BY <2>4, <3>1, GotoOK DEF Parsed, Steps, InChunks
  <2> QED
    BY <2>2, <2>3, <2>4
<1> QED
  BY <1>1, <1>2

\* _IF_THEN_GO_PARSING_BODY is reached behind the empty line, at most at fill_ptr.
LEMMA HeadersEndOK ==
    ASSUME EnvOK(env), NEW p \in Nat, p <= Fill, HeadersEnd(p)
    PROVE  Parsed
<1> DEFINE e == [env EXCEPT !.body = p]
           f == [env EXCEPT !.body = p, !.chunkEnd = p]
<1>1. Fill = Len(env.buf) /\ Fill \in Nat
  BY EnvTypes
<1>2. \/ Goto(e, "BODY", p) \/ Done(env, p, FALSE)
      \/ env.chunked = TRUE /\ Goto(f, "CHUNKED_SIZE", p)
  <2>1. env.chunked \in BOOLEAN /\ env.length \in Nat
    BY DEF EnvOK, EnvType
  <2> HIDE DEF e, f
  <2>2. CASE env.length > 0
    <3>1. ~(env.length = 0 /\ env.chunked)
      BY <2>1, <2>2
    <3>2. Goto(e, "BODY", p)
      BY <2>2, <3>1 DEF HeadersEnd, e
    <3> QED
      BY <3>2
  <2>3. CASE ~(env.length > 0) /\ env.length = 0 /\ env.chunked
    BY <2>1, <2>3 DEF HeadersEnd, f
  <2>4. CASE ~(env.length > 0) /\ ~(env.length = 0 /\ env.chunked)
    BY <2>4 DEF HeadersEnd
  <2> QED
    BY <2>2, <2>3, <2>4
<1>3. EnvOK(e) /\ e.buf = env.buf /\ e.body = p
  BY <1>1 DEF EnvOK, EnvType
<1>4. EnvOK(f) /\ f.buf = env.buf /\ f.body = p /\ f.chunked = env.chunked
  BY <1>1 DEF EnvOK, EnvType
<1> HIDE DEF e, f
<1>5. CASE Goto(e, "BODY", p)
  BY <1>1, <1>3, <1>5, GotoOK DEF Parsed, Steps, InChunks
<1>6. CASE env.chunked = TRUE /\ Goto(f, "CHUNKED_SIZE", p)
  BY <1>1, <1>4, <1>6, GotoOK DEF Parsed, Steps, InChunks
<1>7. CASE Done(env, p, FALSE)
  BY <1>1, <1>7, DoneOK DEF Parsed
<1> QED
  BY <1>2, <1>5, <1>6, <1>7

LEMMA HeaderName0OK ==
    ASSUME EnvOK(env), ParseHeaderName0
    PROVE  Parsed
<1> DEFINE p == Skip(env.p)
           astray == [env EXCEPT !.astray = @ \/ env.process < p]
           named == [env EXCEPT !.name = p]
<1>1. p \in Nat /\ p <= Fill /\ Fill = Len(env.buf) /\ Fill \in Nat
  BY EnvTypes, SkipOK, SMTT(30)
<1>2. \/ NeedMore(env, p) \/ NeedMore(astray, env.process)
      \/ p + 1 < Fill /\ HeadersEnd(p + 2)
      \/ p < Fill /\ HeadersEnd(p + 1)
      \/ p # Fill /\ Goto(named, "HEADER_NAME", p + 1)
  <2>1. p + 1 < Fill => p < Fill
    BY <1>1
  <2> HIDE DEF p
  <2> DEFINE q == Skip(env.p)
  <2>2. p = q
    BY DEF p
  <2> QED
    BY <1>1, <2>1, <2>2 DEF ParseHeaderName0
<1> HIDE DEF p
<1>3. CASE NeedMore(env, p)
  BY <1>1, <1>3, MoreOK DEF Parsed
<1>4. CASE NeedMore(astray, env.process)
  <2>1. (env.astray \/ env.process < p) \in BOOLEAN
    OBVIOUS
  <2>2. EnvOK(astray) /\ astray.buf = env.buf
    BY <2>1 DEF EnvOK, EnvType
  <2>3. env.process \in Nat /\ env.process <= Len(astray.buf)
    BY <2>2, EnvTypes
  <2> HIDE DEF astray
  <2> QED
    BY <1>4, <2>2, <2>3, MoreOK DEF Parsed
<1>5. CASE p + 1 < Fill /\ HeadersEnd(p + 2)
  <2>1. p + 2 \in Nat /\ p + 2 <= Fill
    BY <1>1, <1>5
  <2> QED
    BY <1>5, <2>1, HeadersEndOK
<1>6. CASE p < Fill /\ HeadersEnd(p + 1)
  <2>1. p + 1 \in Nat /\ p + 1 <= Fill
    BY <1>1, <1>6
  <2> QED
    BY <1>6, <2>1, HeadersEndOK
<1>7. CASE p # Fill /\ Goto(named, "HEADER_NAME", p + 1)
  <2>1. EnvOK(named) /\ named.buf = env.buf
    BY <1>1 DEF EnvOK, EnvType
  <2>2. p + 1 \in Nat /\ p + 1 <= Len(named.buf)
    BY <1>1, <1>7, <2>1
  <2> HIDE DEF named
  <2> QED
    BY <1>7, <2>1, <2>2, GotoOK DEF Parsed, Steps, InChunks
<1> QED
  BY <1>2, <1>3, <1>4, <1>5, <1>6, <1>7

LEMMA HeaderNameOK ==
    ASSUME EnvOK(env), ParseHeaderName
    PROVE  Parsed
<1> DEFINE p == Find(env.p, {"sp", "col", "lf"})
           q == Find(p, {"col", "lf"})
           named == [env EXCEPT !.nameLen = p - env.name]
<1>1. p \in Nat /\ p <= Fill /\ Fill = Len(env.buf) /\ Fill \in Nat
  BY EnvTypes, FindOK
<1>2. q \in Nat /\ q <= Fill
  <2> HIDE DEF p
  <2> QED
    BY <1>1, FindOK
<1>3. EnvOK(named) /\ named.buf = env.buf
  <2> HIDE DEF p
  <2>1. p - env.name \in Int
    BY <1>1, EnvTypes
  <2> QED
    BY <2>1 DEF EnvOK, EnvType
<1> HIDE DEF p, q, named
<1>4. \/ NeedMore(env, p) \/ NeedMore(named, q) \/ Invalid
      \/ q # Fill /\ Goto(named, "HEADER_VALUE0", q + 1)
  <2>1. p = Fill \/ p < Fill
    BY <1>1
  <2>2. q = Fill \/ q < Fill
    BY <1>1, <1>2
  <2> QED
    BY <2>1, <2>2 DEF ParseHeaderName, p, q, named
<1>5. CASE NeedMore(env, p)
  BY <1>1, <1>5, MoreOK DEF Parsed
<1>6. CASE NeedMore(named, q)
  BY <1>1, <1>2, <1>3, <1>6, MoreOK DEF Parsed
<1>7. CASE q # Fill /\ Goto(named, "HEADER_VALUE0", q + 1)
  <2>1. q + 1 \in Nat /\ q + 1 <= Len(named.buf)
    BY <1>1, <1>2, <1>3, <1>7
  <2> QED
    BY <1>3, <1>7, <2>1, GotoOK DEF Parsed, Steps, InChunks
<1> QED
  BY <1>4, <1>5, <1>6, <1>7, InvalidOK

LEMMA HeaderValueOK ==
    ASSUME EnvOK(env), ParseHeaderValue
    PROVE  Parsed
<1>1. CASE WordBegins("HEADER_VALUE0", "HEADER_VALUE")
  BY <1>1, WordBeginsOK DEF Steps, InChunks
<1>2. CASE ~WordBegins("HEADER_VALUE0", "HEADER_VALUE")
  <2> DEFINE p == Find(env.p, {"lf"})
             number == Number(0, Text(env.at, p - env.at))
             sized == [env EXCEPT !.length = number]
             chunked == [env EXCEPT !.chunked = TRUE]
  <2>1. p \in Nat /\ p <= Fill /\ Fill = Len(env.buf) /\ Fill \in Nat
    BY EnvTypes, FindOK
  <2>2. \/ NeedMore(env, p)
        \/ p # Fill /\ \E next \in {sized, chunked, env} : Goto(next, "HEADER_NAME0", p + 1)
    BY <1>2 DEF ParseHeaderValue
  <2> HIDE DEF p
  <2>3. number \in Nat
    BY <2>1, EnvTypes, TextType, NumberType
  <2> HIDE DEF number
  <2>4. \A next \in {sized, chunked, env} : EnvOK(next) /\ next.buf = env.buf
    <3>1. EnvOK(sized) /\ sized.buf = env.buf
      BY <2>3 DEF EnvOK, EnvType
    <3>2. EnvOK(chunked) /\ chunked.buf = env.buf
      BY DEF EnvOK, EnvType
    <3> QED
      BY <3>1, <3>2
  <2> HIDE DEF sized, chunked
  <2>5. CASE NeedMore(env, p)
    BY <2>1, <2>5, MoreOK DEF Parsed
  <2>6. CASE p # Fill /\ \E next \in {sized, chunked, env} : Goto(next, "HEADER_NAME0", p + 1)
    <3>1. PICK next \in {sized, chunked, env} : Goto(next, "HEADER_NAME0", p + 1)
      BY <2>6
    <3>2. p + 1 \in Nat /\ p + 1 <= Len(next.buf) /\ EnvOK(next)
      BY <2>1, <2>4, <2>6
    <3> QED
      BY <3>1, <3>2, GotoOK DEF Parsed, Steps, InChunks
  <2> QED
    BY <2>2, <2>5, <2>6
<1> QED
  BY <1>1, <1>2

LEMMA BodyOK ==
    ASSUME EnvOK(env), ParseBody
    PROVE  Parsed
<1>1. env.step = "BODY" /\ http = "parse"
  BY DEF ParseBody, Parsing
<1>2. CASE BodyIsThere
  <2> DEFINE p == env.body + env.length
  <2>1. p \in Nat /\ p <= Fill
    BY <1>1, <1>2, EnvTypes DEF BodyIsThere
  <2>2. Done(env, p, TRUE)
    BY <1>2 DEF ParseBody
  <2> HIDE DEF p
  <2> QED
    BY <2>1, <2>2, EnvTypes, DoneOK DEF Parsed
<1>3. CASE ~BodyIsThere
  <2>1. NeedMore(env, Fill)
    BY <1>3 DEF ParseBody
  <2> QED
    BY <2>1, EnvTypes, MoreOK DEF Parsed
<1> QED
  BY <1>2, <1>3

LEMMA ChunkSizeOK ==
    ASSUME EnvOK(env), ParseChunkSize
    PROVE  Parsed
<1> DEFINE p == Find(env.p, {"lf"})
           number == Number(env.chunkLen, Text(env.p, p - env.p))
           e == [env EXCEPT !.chunkLen = number]
           keep == IF "p" \in e.dangling THEN e.dangling ELSE e.dangling \ {"chunk"}
           f == [e EXCEPT !.chunk = p + 1, !.dangling = keep]
<1>1. p \in Nat /\ p <= Fill /\ Fill = Len(env.buf) /\ Fill \in Nat
  BY EnvTypes, FindOK
<1>2. NeedMore(e, p) \/ (p # Fill /\ (Done(e, p + 1, TRUE) \/ Goto(f, "CHUNKED_DATA", p + 1)))
  <2> HIDE DEF p, number, e, f
  <2>1. CASE p = Fill
    <3>1. ~(p < Fill)
      BY <1>1, <2>1
    <3>2. NeedMore(e, p)
      BY <2>1, <3>1 DEF ParseChunkSize, p, number, e, f
    <3> QED
      BY <3>2
  <2>2. CASE p # Fill /\ e.chunkLen = 0
    <3>1. p < Fill
      BY <1>1, <2>2
    <3>2. Done(e, p + 1, TRUE)
      BY <2>2, <3>1 DEF ParseChunkSize, p, number, e, f
    <3> QED
      BY <2>2, <3>2
  <2>3. CASE p # Fill /\ e.chunkLen # 0
    <3>1. Goto(f, "CHUNKED_DATA", p + 1)
      BY <2>3 DEF ParseChunkSize, p, number, e, f
    <3> QED
      BY <2>3, <3>1
  <2> QED
    BY <2>1, <2>2, <2>3
<1> HIDE DEF p
<1>3. number \in Nat
  BY <1>1, EnvTypes, TextType, NumberType
<1> HIDE DEF number
<1>4. EnvOK(e) /\ e.buf = env.buf
  BY <1>3 DEF EnvOK, EnvType
<1> HIDE DEF e
<1>0. env.chunked = TRUE
  BY DEF EnvOK, ParseChunkSize, Parsing, InChunks
<1>5. EnvOK(f) /\ f.buf = env.buf /\ f.chunked = env.chunked
  <2>0. e.chunked = env.chunked
    BY DEF e, EnvOK, EnvType
  <2>1. p + 1 \in Nat
    BY <1>1
  <2>2. e \in EnvType
    BY <1>4 DEF EnvOK
  <2>3. keep \in SUBSET {"p", "chunk", "chunkEnd"} /\ keep \subseteq e.dangling
    BY <2>2 DEF EnvType
  <2> HIDE DEF keep
  <2>4. f \in EnvType /\ f.buf = e.buf /\ f.process = e.process /\ f.p = e.p
        /\ f.step = e.step /\ f.body = e.body /\ f.size = e.size
        /\ f.dangling = keep /\ f.chunked = e.chunked
    BY <2>1, <2>2, <2>3 DEF EnvType
  <2> QED
    BY <1>4, <2>0, <2>3, <2>4 DEF EnvOK
<1> HIDE DEF f
<1>6. p # Fill => p + 1 \in Nat /\ p + 1 <= Fill
  BY <1>1
<1>7. CASE NeedMore(e, p)
  BY <1>1, <1>4, <1>7, MoreOK DEF Parsed
<1>8. CASE p # Fill /\ Done(e, p + 1, TRUE)
  <2>1. Len(e.buf) = Fill
    BY <1>1, <1>4
  <2> QED
    BY <1>4, <1>6, <1>8, <2>1, DoneOK DEF Parsed
<1>9. CASE p # Fill /\ Goto(f, "CHUNKED_DATA", p + 1)
  BY <1>0, <1>1, <1>5, <1>6, <1>9, GotoOK DEF Parsed, Steps, InChunks
<1> QED
  BY <1>2, <1>7, <1>8, <1>9

\* A chunk in a freed block is waited for, or gone on behind.
LEMMA FreedChunkOK ==
    ASSUME EnvOK(env), ParseFreedChunk
    PROVE  Parsed
<1> DEFINE e == [env EXCEPT !.astray = TRUE]
           l == env.length + env.chunkLen
           d == env.dangling \cup {"p"}
           f == [e EXCEPT !.dangling = d, !.length = l, !.chunkLen = 0]
<1>1. NeedMore(e, Fill) \/ \E p \in env.chunk .. Fill : Goto(f, "CHUNKED_SIZE", p)
  BY DEF ParseFreedChunk
<1>2. Fill \in Nat /\ Fill = Len(env.buf) /\ env.chunk \in Nat /\ l \in Nat
  BY EnvTypes
<1>3. d \in SUBSET {"p", "chunk", "chunkEnd"} /\ env.dangling # {}
  BY DEF EnvOK, EnvType, ParseFreedChunk
<1> HIDE DEF l, d
<1>4. EnvOK(e) /\ e.buf = env.buf /\ e.dangling = env.dangling
  BY DEF EnvOK, EnvType
<1>5. EnvOK(f) /\ f.buf = env.buf /\ f.chunked = TRUE
  <2>1. /\ f \in EnvType /\ f.buf = e.buf /\ f.process = e.process /\ f.p = e.p
        /\ f.step = e.step /\ f.body = e.body /\ f.size = e.size /\ f.chunked = e.chunked
    <3>1. e \in EnvType
      BY <1>4 DEF EnvOK
    <3> HIDE DEF e
    <3> QED
      BY <1>2, <1>3, <3>1 DEF EnvType
  <2> QED
    BY <1>3, <1>4, <2>1 DEF EnvOK
<1> HIDE DEF e, f
<1>6. CASE NeedMore(e, Fill)
  BY <1>2, <1>4, <1>6, MoreOK DEF Parsed
<1>7. CASE \E p \in env.chunk .. Fill : Goto(f, "CHUNKED_SIZE", p)
  <2>1. PICK p \in env.chunk .. Fill : Goto(f, "CHUNKED_SIZE", p)
    BY <1>7
  <2>2. p \in Nat /\ p <= Len(f.buf)
    BY <1>2, <1>5
  <2> QED
    BY <1>5, <2>1, <2>2, GotoOK DEF Parsed, Steps, InChunks
<1> QED
  BY <1>1, <1>6, <1>7

\* memmove takes a chunk that is there, to a place before it.
LEMMA ChunkDataOK ==
    ASSUME EnvOK(env), ParseChunkData
    PROVE  Parsed
<1> DEFINE p == env.chunk + env.chunkLen
           gap == IF p + 1 < Fill /\ At(p) = "cr" /\ At(p + 1) = "lf" THEN 2
                  ELSE IF p < Fill /\ At(p) = "lf" THEN 1 ELSE 0
           stray == env.astray \/ env.dangling # {}
           e == [env EXCEPT !.buf = MoveChunk, !.chunkEnd = @ + env.chunkLen,
                            !.length = @ + env.chunkLen, !.chunkLen = 0, !.astray = stray]
<1>0. (ParseChunk /\ "chunk" \notin env.dangling) \/ ParseFreedChunk
  BY DEF ParseChunkData, ParseChunk
<1>1. CASE ParseChunk /\ ChunkIsThere
  <2>1. Goto(e, "CHUNKED_SIZE", p + gap)
    BY <1>1 DEF ParseChunk
  <2>2. p \in Nat /\ p + 2 <= Fill /\ gap \in 0 .. 2
    BY <1>1, EnvTypes, SMTT(30) DEF ChunkIsThere
  <2> DEFINE b == MoveChunk
  <2>3. b \in Seq(Characters) /\ Len(b) = Fill
    <3>0. CASE "chunkEnd" \in env.dangling
      BY <3>0, EnvTypes DEF MoveChunk
    <3>1. \A i \in 1 .. Fill :
            (IF i \in env.chunkEnd + 1 .. env.chunkEnd + env.chunkLen
             THEN env.buf[i - env.chunkEnd + env.chunk] ELSE env.buf[i]) \in Characters
      <4>1. TAKE i \in 1 .. Fill
      <4>2. CASE i \in env.chunkEnd + 1 .. env.chunkEnd + env.chunkLen
        <5>1. i - env.chunkEnd + env.chunk \in 1 .. Fill
          <6>1. env.chunkEnd \in Nat /\ env.chunk \in Nat /\ env.chunkLen \in Nat /\ Fill \in Nat
            BY EnvTypes
          <6>2. \A end, chunk, len, n \in Nat : \A k \in end + 1 .. end + len :
                    chunk + len + 2 <= n => k - end + chunk \in 1 .. n
            OBVIOUS
          <6>3. env.chunk + env.chunkLen + 2 <= Fill
            BY <2>2
          <6> HIDE DEF p, gap, e
          <6> QED
            BY <4>2, <6>1, <6>2, <6>3
        <5> QED
          BY <4>2, <5>1, EnvTypes, SMTT(30)
      <4>3. CASE i \notin env.chunkEnd + 1 .. env.chunkEnd + env.chunkLen
        BY <4>3, EnvTypes
      <4> QED
        BY <4>2, <4>3
    <3>2. Fill \in Nat
      BY EnvTypes
    <3>3. CASE "chunkEnd" \notin env.dangling
      BY <3>1, <3>2, <3>3 DEF MoveChunk
    <3> QED
      BY <3>0, <3>3
  <2> HIDE DEF b
  <2> DEFINE n == env.chunkEnd + env.chunkLen
             l == env.length + env.chunkLen
  <2>4. n \in Nat /\ l \in Nat /\ stray \in BOOLEAN
    BY EnvTypes, SMTT(30)
  <2>5. e = [env EXCEPT !.buf = b, !.chunkEnd = n, !.length = l, !.chunkLen = 0,
                        !.astray = stray]
    BY DEF b
  <2> HIDE DEF e, n, l, stray
  <2>6. e \in EnvType /\ e.buf = b /\ e.process = env.process /\ e.p = env.p /\ e.step = env.step
        /\ e.body = env.body /\ e.size = env.size
        /\ e.dangling = env.dangling /\ e.chunked = env.chunked
    BY <2>3, <2>4, <2>5 DEF EnvOK, EnvType
  <2>7. EnvOK(e) /\ Len(e.buf) = Fill
    BY <2>3, <2>6, EnvTypes DEF EnvOK
  <2>8. p + gap \in Nat /\ p + gap <= Fill
    BY <2>2, EnvTypes
  <2>9. e.chunked = TRUE
    BY <2>6 DEF EnvOK, ParseChunkData, Parsing, InChunks
  <2> HIDE DEF p, gap
  <2> QED
    BY <2>1, <2>7, <2>8, <2>9, GotoOK DEF Parsed, Steps, InChunks
<1>2. CASE ParseChunk /\ ~ChunkIsThere
  <2>1. NeedMore(env, Fill)
    BY <1>2 DEF ParseChunk
  <2> QED
    BY <2>1, EnvTypes, MoreOK DEF Parsed
<1>3. CASE ParseFreedChunk
  BY <1>3, FreedChunkOK
<1> QED
  BY <1>0, <1>1, <1>2, <1>3

\* All of ParseHttpBuffer.
LEMMA ParserOK ==
    ASSUME EnvOK(env), ParseHttpBuffer
    PROVE  Parsed
BY VersionOK, StatusOK, ReasonOK, HeaderName0OK, HeaderNameOK, HeaderValueOK, BodyOK,
   ChunkSizeOK, ChunkDataOK DEF ParseHttpBuffer

-----------------------------------------------------------------------------
(* The client and the connection *)

\* The client and the connection.
HttpOK ==
    /\ http \in {"idle", "send", "recv", "parse", "done", "failed"}
    /\ EnvOK(env)
    /\ conn \in {"none", "open", "closed"}
    /\ wire \in Seq(Characters)
    /\ left <= Request /\ got <= Request
    /\ faults \in 0 .. MaxFaults

\* Steps of others.
LEMMA HttpKept ==
    ASSUME HttpOK, UNCHANGED httpVars
    PROVE  HttpOK'
BY DEF HttpOK, httpVars, EnvOK, EnvType

\* A fault is counted within the bound.
LEMMA FaultOK ==
    ASSUME faults \in 0 .. MaxFaults, Fault
    PROVE  faults' \in 0 .. MaxFaults
BY HttpAssumption DEF Fault

\* The lesser of what has arrived and of what there is room for.
LEMMA RoomOK ==
    ASSUME HttpOK, NEW n \in 1 .. Min({Len(wire), Room})
    PROVE  n \in 1 .. Len(wire) /\ n <= Room
<1>1. Len(wire) \in Nat /\ Room \in Int
  BY DEF HttpOK, EnvOK, EnvType, Room
<1>2. Min({Len(wire), Room}) = IF Len(wire) <= Room THEN Len(wire) ELSE Room
  BY <1>1 DEF Min
<1> QED
  BY <1>1, <1>2

\* A buffer that grows keeps what is in it.
LEMMA GrowOK ==
    ASSUME HttpOK, Grow
    PROVE  HttpOK'
<1>1. PICK moves \in BOOLEAN :
        env' = [env EXCEPT !.size = 2 * @,
                           !.dangling = IF moves /\ env.step \in {"CHUNKED_SIZE", "CHUNKED_DATA"}
                                        THEN @ \cup {"chunk", "chunkEnd"} ELSE @]
  BY DEF Grow
<1> DEFINE d == IF moves /\ env.step \in {"CHUNKED_SIZE", "CHUNKED_DATA"}
                THEN env.dangling \cup {"chunk", "chunkEnd"} ELSE env.dangling
           s == 2 * env.size
<1>2. env' = [env EXCEPT !.size = s, !.dangling = d]
  BY <1>1
<1>3. env \in EnvType /\ env.size \in Nat /\ s \in Nat /\ d \in SUBSET {"p", "chunk", "chunkEnd"}
  BY DEF HttpOK, EnvOK, EnvType
<1>4. d # {} \/ InChunks(env.step) => env.chunked = TRUE
  BY DEF HttpOK, EnvOK, InChunks
<1>7. s >= env.size
  BY <1>3
<1> HIDE DEF d, s
<1>5. /\ env' \in EnvType /\ env'.buf = env.buf /\ env'.p = env.p /\ env'.process = env.process
      /\ env'.step = env.step /\ env'.body = env.body /\ env'.size = s
      /\ env'.dangling = d /\ env'.chunked = env.chunked
  BY <1>2, <1>3 DEF EnvType
<1>8. Len(env'.buf) < env'.size
  <2>1. Len(env.buf) \in Nat /\ Len(env.buf) < env.size
    BY DEF HttpOK, EnvOK, EnvType
  <2>2. Len(env.buf) < s
    BY <1>3, <1>7, <2>1
  <2> QED
    BY <1>5, <2>2
<1>6. EnvOK(env')
  BY <1>4, <1>5, <1>8 DEF HttpOK, EnvOK
<1> QED
  BY <1>6 DEF HttpOK, Grow

\* What arrives is appended to the buffer.
LEMMA FragmentOK ==
    ASSUME HttpOK, NEW n \in 1 .. Min({Len(wire), Room}),
           env' = [env EXCEPT !.buf = @ \o SubSeq(wire, 1, n), !.p = env.process],
           wire' = SubSeq(wire, n + 1, Len(wire))
    PROVE  EnvOK(env') /\ wire' \in Seq(Characters)
<1> DEFINE b == env.buf \o SubSeq(wire, 1, n)
<1>0. n \in 1 .. Len(wire) /\ n <= Room
  BY RoomOK
<1>1. wire \in Seq(Characters) /\ Len(wire) \in Nat /\ \A i \in 1 .. Len(wire) : wire[i] \in Characters
  BY DEF HttpOK
<1>2. SubSeq(wire, 1, n) \in Seq(Characters) /\ wire' \in Seq(Characters)
  <2>1. \A i \in 1 .. n : wire[i] \in Characters
    BY <1>0, <1>1
  <2>2. \A i \in n + 1 .. Len(wire) : wire[i] \in Characters
    BY <1>0, <1>1
  <2>3. n \in Int /\ n + 1 \in Int /\ Len(wire) \in Int
    BY <1>0, <1>1
  <2>4. SubSeq(wire, 1, n) \in Seq(Characters)
    BY <2>1, <2>3, SubSeqProperties
  <2>5. SubSeq(wire, n + 1, Len(wire)) \in Seq(Characters)
    BY <2>2, <2>3, SubSeqProperties
  <2> QED
    BY <2>4, <2>5
<1>3. env.buf \in Seq(Characters) /\ env.process \in Nat /\ env.process <= Len(env.buf)
      /\ (env.step = "BODY" => env.body <= Len(env.buf)) /\ env.body \in Nat /\ env \in EnvType
      /\ env.size \in Nat /\ (env.dangling # {} \/ InChunks(env.step) => env.chunked = TRUE)
  BY DEF HttpOK, EnvOK, EnvType
<1>4. b \in Seq(Characters) /\ Len(b) \in Nat /\ Len(env.buf) \in Nat /\ Len(env.buf) <= Len(b)
      /\ Len(b) < env.size
  <2>1. b \in Seq(Characters) /\ Len(b) = Len(env.buf) + Len(SubSeq(wire, 1, n))
    BY <1>2, <1>3
  <2>2. Len(SubSeq(wire, 1, n)) = n
    BY <1>0, <1>1
  <2> HIDE DEF b
  <2> QED
    BY <1>0, <1>3, <2>1, <2>2 DEF Room
<1> HIDE DEF b
<1>5. env' = [env EXCEPT !.buf = b, !.p = env.process]
  BY DEF b
<1>6. /\ env' \in EnvType /\ env'.buf = b /\ env'.p = env.process /\ env'.process = env.process
      /\ env'.step = env.step /\ env'.body = env.body /\ env'.size = env.size
      /\ env'.dangling = env.dangling /\ env'.chunked = env.chunked
  BY <1>3, <1>4, <1>5 DEF EnvType
<1>7. EnvOK(env')
  BY <1>3, <1>4, <1>6 DEF EnvOK
<1> QED
  BY <1>2, <1>7

-----------------------------------------------------------------------------
(* Numbers in pieces *)

\* Numbers that begin alike go on alike.
LEMMA ReadsAlike ==
    ASSUME NEW b, NEW x, NEW y, NEW n \in Nat, NEW m \in Nat, NEW f, NEW g,
           Reads(f, b, x, n), Reads(g, b, y, m),
           n <= m, \A i \in 1 .. n : x[i] = y[i]
    PROVE  \A i \in 0 .. n : f[i] = g[i]
<1> DEFINE Bad == {i \in 0 .. n : f[i] # g[i]}
<1>1. SUFFICES ASSUME Bad # {} PROVE FALSE
  OBVIOUS
<1>2. PICK i \in Bad : \A j \in Bad : i <= j
  <2> HIDE DEF Bad
  <2>1. Bad \in SUBSET Nat
    BY DEF Bad
  <2> QED
    BY <1>1, <2>1, LeastOK
<1>3. i \in 0 .. n /\ f[i] # g[i]
  OBVIOUS
<1>4. i # 0
  BY <1>3 DEF Reads
<1>5. i - 1 \in 0 .. n /\ f[i - 1] = g[i - 1]
  BY <1>2, <1>3, <1>4
<1>6. f[i] = Digit(f[i - 1], x[i])
  <2>1. \A j \in 0 .. n : f[j] = IF j = 0 THEN b ELSE Digit(f[j - 1], x[j])
    BY DEF Reads
  <2> QED
    BY <1>3, <1>4, <2>1
<1>7. g[i] = Digit(g[i - 1], y[i])
  <2>1. \A j \in 0 .. m : g[j] = IF j = 0 THEN b ELSE Digit(g[j - 1], y[j])
    BY DEF Reads
  <2> QED
    BY <1>3, <1>4, <2>1
<1>8. x[i] = y[i]
  BY <1>3, <1>4
<1> QED
  BY <1>3, <1>5, <1>6, <1>7, <1>8

\* The numbers that Number goes through.
LEMMA NumberReads ==
    ASSUME NEW b, NEW text
    PROVE  \E f : Number(b, text) = f[Len(text)]
                  /\ (Len(text) \in Nat => Reads(f, b, text, Len(text)))
<1> DEFINE f == CHOOSE f : Reads(f, b, text, Len(text))
<1>1. Number(b, text) = f[Len(text)]
  BY DEF Number, Digits, Reads
<1>2. Len(text) \in Nat => Reads(f, b, text, Len(text))
  BY ReadsExists, Zenon
<1> QED
  BY <1>1, <1>2, Zenon

\* A piece of a text.
LEMMA PieceOK ==
    ASSUME NEW S, NEW text \in Seq(S), NEW i \in Nat, NEW n \in Nat, i + n <= Len(text)
    PROVE  /\ Piece(text, i, n) \in Seq(S) /\ Len(Piece(text, i, n)) = n
           /\ \A k \in 1 .. n : Piece(text, i, n)[k] = text[i + k]
<1>1. \A k \in i + 1 .. i + n : text[k] \in S
  OBVIOUS
<1>2. i + 1 \in Int /\ i + n \in Int
  OBVIOUS
<1>3. SubSeq(text, i + 1, i + n) \in Seq(S)
  BY <1>1, <1>2, SubSeqProperties
<1>4. Len(SubSeq(text, i + 1, i + n)) = n
  BY <1>1, <1>2, SubSeqProperties
<1>5. \A k \in 1 .. n : SubSeq(text, i + 1, i + n)[k] = text[i + k]
  <2>1. TAKE k \in 1 .. n
  <2>2. SubSeq(text, i + 1, i + n)[k] = text[i + 1 + k - 1]
    BY <1>1, <1>2, <1>4, SubSeqProperties
  <2>3. i + 1 + k - 1 = i + k
    OBVIOUS
  <2> QED
    BY <2>2, <2>3
<1> QED
  BY <1>3, <1>4, <1>5 DEF Piece

Total(n, m) == n + m

\* Numbers that go on where others ended.
LEMMA ReadsOn ==
    ASSUME NEW n \in Nat, NEW m \in Nat, NEW l \in Nat, l = Total(n, m), NEW b, NEW c, NEW x, NEW y, NEW z,
           \A k \in 1 .. n : x[k] = z[k], \A k \in 1 .. m : y[k] = z[n + k],
           NEW f, NEW g, NEW h, Reads(f, b, x, n), Reads(g, c, y, m), Reads(h, b, z, l), c = f[n]
    PROVE  g[m] = h[l]
<1>1. n <= l /\ n \in 0 .. n
  BY DEF Total
<1>2. \A k \in 0 .. n : f[k] = h[k]
  BY <1>1, ReadsAlike
<1>3. h[n] = c
  BY <1>1, <1>2
<1> DEFINE Bad == {k \in 0 .. m : g[k] # h[n + k]}
<1>4. Bad = {}
  <2>1. SUFFICES ASSUME Bad # {} PROVE FALSE
    OBVIOUS
  <2>2. PICK k \in Bad : \A j \in Bad : k <= j
    <3> HIDE DEF Bad
    <3>1. Bad \in SUBSET Nat
      BY DEF Bad
    <3> QED
      BY <2>1, <3>1, LeastOK
  <2>3. k \in 0 .. m /\ g[k] # h[n + k]
    OBVIOUS
  <2>4. \A j \in 0 .. m : g[j] = IF j = 0 THEN c ELSE Digit(g[j - 1], y[j])
    BY DEF Reads
  <2>5. \A j \in 0 .. l : h[j] = IF j = 0 THEN b ELSE Digit(h[j - 1], z[j])
    BY DEF Reads
  <2>6. k # 0
    BY <1>3, <2>3, <2>4
  <2>7. g[k - 1] = h[n + k - 1]
    <3>1. k - 1 \in 0 .. m /\ ~(k <= k - 1) /\ n + (k - 1) = n + k - 1
      BY <2>3, <2>6
    <3> QED
      BY <2>2, <3>1
  <2>8. g[k] = Digit(g[k - 1], y[k])
    BY <2>3, <2>4, <2>6
  <2>9. h[n + k] = Digit(h[n + k - 1], z[n + k])
    <3>1. n + k \in 0 .. l /\ n + k # 0
      BY <2>3, <2>6 DEF Total
    <3> QED
      BY <2>5, <3>1
  <2>10. y[k] = z[n + k]
    BY <2>3, <2>6
  <2> QED
    BY <2>3, <2>7, <2>8, <2>9, <2>10
<1>5. m \in 0 .. m
  OBVIOUS
<1> QED
  BY <1>4, <1>5 DEF Total

\* A number that is read in two parts is that of the whole.
LEMMA NumberParts ==
    ASSUME NEW n \in Nat, NEW m \in Nat, NEW l \in Nat, l = Total(n, m), NEW b, NEW x, NEW y, NEW z,
           Len(x) = n, Len(y) = m, Len(z) = l,
           \A k \in 1 .. n : x[k] = z[k], \A k \in 1 .. m : y[k] = z[n + k]
    PROVE  Number(Number(b, x), y) = Number(b, z)
<1>1. PICK f : Number(b, x) = f[n] /\ Reads(f, b, x, n)
  BY NumberReads
<1>2. PICK g : Number(Number(b, x), y) = g[m] /\ Reads(g, Number(b, x), y, m)
  BY NumberReads
<1>3. PICK h : Number(b, z) = h[l] /\ Reads(h, b, z, l)
  BY NumberReads
<1>4. g[m] = h[l]
  BY <1>1, <1>2, <1>3, ReadsOn
<1> QED
  BY <1>2, <1>3, <1>4

\* So for pieces of a text.
LEMMA NumberMore ==
    ASSUME NEW b \in Nat, NEW text \in Seq(Characters), NEW i \in Nat, NEW n \in Nat, NEW m \in Nat,
           i + n + m <= Len(text)
    PROVE  Number(Number(b, Piece(text, i, n)), Piece(text, i + n, m)) = Number(b, Piece(text, i, n + m))
<1>1. Len(Piece(text, i, n)) = n /\ \A k \in 1 .. n : Piece(text, i, n)[k] = text[i + k]
  <2>1. i + n <= Len(text) /\ Len(text) \in Nat
    OBVIOUS
  <2> QED
    BY <2>1, PieceOK
<1>2. Len(Piece(text, i + n, m)) = m /\ \A k \in 1 .. m : Piece(text, i + n, m)[k] = text[i + n + k]
  <2>1. i + n \in Nat
    OBVIOUS
  <2> QED
    BY <2>1, PieceOK
<1>3. /\ Len(Piece(text, i, n + m)) = n + m
      /\ \A k \in 1 .. n + m : Piece(text, i, n + m)[k] = text[i + k]
  <2>1. n + m \in Nat /\ i + (n + m) <= Len(text)
    OBVIOUS
  <2> QED
    BY <2>1, PieceOK
<1>4. \A k \in 1 .. n : Piece(text, i, n)[k] = Piece(text, i, n + m)[k]
  <2>1. \A k \in 1 .. n : k \in 1 .. n + m
    OBVIOUS
  <2> QED
    BY <1>1, <1>3, <2>1
<1>5. \A k \in 1 .. m : Piece(text, i + n, m)[k] = Piece(text, i, n + m)[n + k]
  <2>1. TAKE k \in 1 .. m
  <2>2. n + k \in 1 .. n + m /\ i + (n + k) = i + n + k
    OBVIOUS
  <2> QED
    BY <1>2, <1>3, <2>2
<1> DEFINE l == n + m
<1>6. l \in Nat /\ l = Total(n, m)
  BY DEF Total
<1> HIDE DEF l
<1>7. /\ Len(Piece(text, i, l)) = l
      /\ \A k \in 1 .. n : Piece(text, i, n)[k] = Piece(text, i, l)[k]
      /\ \A k \in 1 .. m : Piece(text, i + n, m)[k] = Piece(text, i, l)[n + k]
  BY <1>3, <1>4, <1>5 DEF l
<1>8. Number(Number(b, Piece(text, i, n)), Piece(text, i + n, m)) = Number(b, Piece(text, i, l))
  <2> DEFINE x == Piece(text, i, n)
             y == Piece(text, i + n, m)
             z == Piece(text, i, l)
  <2>1. /\ Len(x) = n /\ Len(y) = m /\ Len(z) = l
        /\ \A k \in 1 .. n : x[k] = z[k]
        /\ \A k \in 1 .. m : y[k] = z[n + k]
    BY <1>1, <1>2, <1>7
  <2> HIDE DEF x, y, z
  <2>2. Number(Number(b, x), y) = Number(b, z)
    BY <1>6, <2>1, NumberParts, SMTT(30)
  <2> QED
    BY <2>2 DEF x, y, z
<1> QED
  BY <1>8 DEF l

-----------------------------------------------------------------------------
(* The answer that is read *)

\* The characters that the parser has or will be given, and where it goes on.
Stream == env.buf \o wire
Place == IF http = "parse" THEN env.p ELSE env.process

\* There is no version followed by a blank in it.
Quiet(s) == \A k \in 1 .. Len(s) - 1 : s[k] = "H" => s[k + 1] # "sp"

\* There are blanks up to b.
Blank(s, b) == \A k \in 1 .. Len(s) : k <= b => s[k] = "sp"

\* Behind b, and behind m, the stream has the answer, or as much as arrives.
Carries(a, s, b, m) ==
    /\ Len(s) <= b + Len(a.text)
    /\ \A k \in 1 .. Len(s) : k > b /\ k > m => s[k] = a.text[k - b]

\* The response buffer has the first of these characters.
Has(s) ==
    /\ s \in Seq(Characters) /\ Fill <= Len(s)
    /\ \A k \in 1 .. Fill : env.buf[k] = s[k]

\* The stream goes on with what is on the wire.
LEMMA StreamOK ==
    ASSUME EnvOK(env), wire \in Seq(Characters)
    PROVE  /\ Has(Stream) /\ Len(Stream) = Fill + Len(wire) /\ Len(wire) \in Nat
           /\ \A k \in 1 .. Len(wire) : Stream[Fill + k] = wire[k]
<1>1. env.buf \in Seq(Characters) /\ Fill = Len(env.buf) /\ Fill \in Nat /\ Len(wire) \in Nat
  BY EnvTypes
<1>2. /\ Stream \in Seq(Characters) /\ Len(Stream) = Fill + Len(wire)
      /\ \A k \in 1 .. Fill + Len(wire) :
            Stream[k] = IF k <= Fill THEN env.buf[k] ELSE wire[k - Fill]
  BY <1>1, ConcatProperties DEF Stream
<1>3. \A k \in 1 .. Fill : Stream[k] = env.buf[k]
  <2>1. \A k \in 1 .. Fill : k \in 1 .. Fill + Len(wire) /\ k <= Fill
    BY <1>1
  <2> QED
    BY <1>2, <2>1
<1>4. \A k \in 1 .. Len(wire) : Stream[Fill + k] = wire[k]
  <2>1. TAKE k \in 1 .. Len(wire)
  <2> DEFINE j == Fill + k
  <2>2. j \in 1 .. Fill + Len(wire) /\ ~(j <= Fill) /\ j - Fill = k
    BY <1>1
  <2> HIDE DEF j
  <2>3. Stream[j] = wire[j - Fill]
    BY <1>2, <2>2
  <2> QED
    BY <2>2, <2>3 DEF j
<1>5. Fill <= Len(Stream)
  BY <1>1, <1>2
<1> HIDE DEF Stream
<1> QED
  BY <1>1, <1>2, <1>3, <1>4, <1>5 DEF Has

\* The text of an answer.
LEMMA AnswerText ==
    ASSUME NEW a \in Answers
    PROVE  a.text \in Seq(Characters) /\ Len(a.text) \in Nat /\ a.chunked \in BOOLEAN
<1>1. a.text \in Seq({a.text[i] : i \in DOMAIN a.text}) /\ a.chunked \in BOOLEAN
  BY HttpAssumption DEF IsText
<1>2. {a.text[i] : i \in DOMAIN a.text} \subseteq Characters
  BY DEF Characters
<1> HIDE DEF Characters
<1> QED
  BY <1>1, <1>2

\* The first of the hits, or n.
Least(n, hits) == IF hits = {} THEN n ELSE CHOOSE i \in hits : \A j \in hits : i <= j

\* Scan stops at the first hit.
LEMMA LeastHit ==
    ASSUME NEW p \in Nat, NEW n \in Nat, NEW hits \in SUBSET (p .. n - 1)
    PROVE  /\ Least(n, hits) = n \/ Least(n, hits) \in hits
           /\ \A i \in hits : Least(n, hits) <= i
<1> DEFINE q == Least(n, hits)
<1>1. CASE hits = {}
  BY <1>1 DEF Least
<1>2. CASE hits # {}
  <2>1. hits \in SUBSET Nat
    OBVIOUS
  <2>2. \E i \in hits : \A j \in hits : i <= j
    BY <1>2, <2>1, LeastOK
  <2>3. q \in hits /\ \A j \in hits : q <= j
    BY <1>2, <2>2 DEF Least
  <2> QED
    BY <2>3
<1> QED
  BY <1>1, <1>2

\* Find stops at the first of the characters.
LEMMA FindsAt ==
    ASSUME EnvOK(env), NEW p \in Nat, p <= Fill, NEW chars, NEW x \in Nat, p <= x,
           \A k \in p .. x - 1 : k < Fill => At(k) \notin chars,
           x < Fill => At(x) \in chars
    PROVE  /\ Find(p, chars) \in Nat
           /\ \/ Find(p, chars) = x /\ x < Fill
              \/ Find(p, chars) = Fill /\ Fill <= x
<1> DEFINE hits == {i \in p .. Fill - 1 : At(i) \in chars}
           q == Find(p, chars)
<1>1. Fill \in Nat /\ q \in p .. Fill
  BY EnvTypes, FindOK
<1>2. hits \in SUBSET (p .. Fill - 1)
  OBVIOUS
<1>3. q = Least(Fill, hits)
  BY DEF Find, Scan, Least
<1> HIDE DEF hits, q
<1>4. (q = Fill \/ q \in hits) /\ \A i \in hits : q <= i
  BY <1>1, <1>2, <1>3, LeastHit
<1>5. ~(q < x /\ q \in hits)
  BY <1>1 DEF hits
<1>6. x < Fill => q <= x
  <2>1. x < Fill => x \in hits
    BY <1>1 DEF hits
  <2> QED
    BY <1>4, <2>1
<1>7. q \in hits => q < Fill
  BY <1>1 DEF hits
<1> QED
  BY <1>1, <1>4, <1>5, <1>6, <1>7 DEF q

\* Skip stops at the first character that is no blank.
LEMMA SkipsAt ==
    ASSUME EnvOK(env), NEW p \in Nat, p <= Fill, NEW x \in Nat, p <= x,
           \A k \in p .. x - 1 : k < Fill => At(k) = "sp",
           x < Fill => At(x) # "sp"
    PROVE  /\ Skip(p) \in Nat
           /\ \/ Skip(p) = x /\ x < Fill
              \/ Skip(p) = Fill /\ Fill <= x
<1> DEFINE hits == {i \in p .. Fill - 1 : At(i) # "sp"}
           q == Skip(p)
<1>1. Fill \in Nat /\ q \in p .. Fill
  BY EnvTypes, SkipOK
<1>2. hits \in SUBSET (p .. Fill - 1)
  OBVIOUS
<1>3. q = Least(Fill, hits)
  BY DEF Skip, Scan, Least
<1> HIDE DEF hits, q
<1>4. (q = Fill \/ q \in hits) /\ \A i \in hits : q <= i
  BY <1>1, <1>2, <1>3, LeastHit
<1>5. ~(q < x /\ q \in hits)
  BY <1>1 DEF hits
<1>6. x < Fill => q <= x
  <2>1. x < Fill => x \in hits
    BY <1>1 DEF hits
  <2> QED
    BY <1>4, <2>1
<1>7. q \in hits => q < Fill
  BY <1>1 DEF hits
<1> QED
  BY <1>1, <1>4, <1>5, <1>6, <1>7 DEF q

\* What there is of the answer in the buffer.
LEMMA InAnswer ==
    ASSUME EnvOK(env), NEW s, Has(s), NEW a \in Answers, NEW b \in Nat, NEW m \in Nat,
           Carries(a, s, b, m)
    PROVE  /\ Fill <= b + Len(a.text)
           /\ \A k \in Nat : k < Fill /\ k >= b /\ k >= m => At(k) = a.text[k - b + 1]
<1>1. Fill \in Nat /\ Len(s) \in Nat /\ Len(a.text) \in Nat /\ Fill <= Len(s)
      /\ Len(s) <= b + Len(a.text)
  BY EnvTypes, AnswerText DEF Has, Carries
<1>2. ASSUME NEW k \in Nat, k < Fill, k >= b, k >= m PROVE At(k) = a.text[k - b + 1]
  <2>1. k + 1 \in 1 .. Fill /\ k + 1 \in 1 .. Len(s) /\ k + 1 > b /\ k + 1 > m /\ k + 1 - b = k - b + 1
    BY <1>1, <1>2
  <2>2. env.buf[k + 1] = s[k + 1] /\ s[k + 1] = a.text[k + 1 - b]
    BY <2>1 DEF Has, Carries
  <2> QED
    BY <2>1, <2>2 DEF At
<1> QED
  BY <1>1, <1>2

\* The same of a place in the stream that carries nothing before the answer.
LEMMA AtStream ==
    ASSUME EnvOK(env), wire \in Seq(Characters), NEW a \in Answers, NEW b \in Nat,
           Carries(a, Stream, b, 0), NEW k \in Nat, k < Fill, k >= b
    PROVE  At(k) = a.text[k - b + 1]
<1>1. Has(Stream)
  BY StreamOK
<1>2. k >= 0
  OBVIOUS
<1> QED
  BY <1>1, <1>2, InAnswer

\* Find stops where the answer has the first of the characters.
LEMMA FindsThere ==
    ASSUME EnvOK(env), NEW s, Has(s), NEW a \in Answers, NEW b \in Nat, NEW m \in Nat,
           Carries(a, s, b, m), NEW p \in Nat, p <= Fill, b <= p, m <= p,
           NEW x \in Nat, p <= b + x, NEW chars, Free(a.text, p - b, x, chars), a.text[x + 1] \in chars
    PROVE  /\ Find(p, chars) \in Nat
           /\ \/ Find(p, chars) = b + x /\ b + x < Fill /\ At(b + x) = a.text[x + 1]
              \/ Find(p, chars) = Fill /\ Fill <= b + x
<1>1. Fill \in Nat /\ \A k \in Nat : k < Fill /\ k >= b /\ k >= m => At(k) = a.text[k - b + 1]
  BY EnvTypes, InAnswer
<1>2. ASSUME NEW k \in p .. (b + x) - 1, k < Fill PROVE At(k) \notin chars
  <2>1. k - b + 1 \in p - b + 1 .. x /\ k \in Nat /\ k >= b /\ k >= m
    BY <1>2
  <2> QED
    BY <1>1, <1>2, <2>1 DEF Free
<1>3. b + x < Fill => At(b + x) = a.text[x + 1]
  <2>1. b + x \in Nat /\ b + x >= b /\ b + x >= m /\ b + x - b + 1 = x + 1
    OBVIOUS
  <2> QED
    BY <1>1, <2>1
<1> DEFINE y == b + x
<1>4. y \in Nat /\ p <= y /\ (\A k \in p .. y - 1 : k < Fill => At(k) \notin chars)
      /\ (y < Fill => At(y) \in chars)
  BY <1>2, <1>3
<1> HIDE DEF y
<1>5. /\ Find(p, chars) \in Nat
      /\ \/ Find(p, chars) = y /\ y < Fill
         \/ Find(p, chars) = Fill /\ Fill <= y
  BY <1>4, FindsAt
<1> QED
  BY <1>3, <1>5 DEF y

\* Skip stops where the answer has the first character that is no blank.
LEMMA SkipsThere ==
    ASSUME EnvOK(env), NEW s, Has(s), NEW a \in Answers, NEW b \in Nat, NEW m \in Nat,
           Carries(a, s, b, m), NEW p \in Nat, p <= Fill, b <= p, m <= p,
           NEW x \in Nat, p <= b + x, \A k \in p - b + 1 .. x : a.text[k] = "sp", a.text[x + 1] # "sp"
    PROVE  /\ Skip(p) \in Nat
           /\ \/ Skip(p) = b + x /\ b + x < Fill /\ At(b + x) = a.text[x + 1]
              \/ Skip(p) = Fill /\ Fill <= b + x
<1>1. Fill \in Nat /\ \A k \in Nat : k < Fill /\ k >= b /\ k >= m => At(k) = a.text[k - b + 1]
  BY EnvTypes, InAnswer
<1>2. ASSUME NEW k \in p .. (b + x) - 1, k < Fill PROVE At(k) = "sp"
  <2>1. k - b + 1 \in p - b + 1 .. x /\ k \in Nat /\ k >= b /\ k >= m
    BY <1>2
  <2> QED
    BY <1>1, <1>2, <2>1
<1>3. b + x < Fill => At(b + x) = a.text[x + 1]
  <2>1. b + x \in Nat /\ b + x >= b /\ b + x >= m /\ b + x - b + 1 = x + 1
    OBVIOUS
  <2> QED
    BY <1>1, <2>1
<1> DEFINE y == b + x
<1>4. y \in Nat /\ p <= y /\ (\A k \in p .. y - 1 : k < Fill => At(k) = "sp")
      /\ (y < Fill => At(y) # "sp")
  BY <1>2, <1>3
<1> HIDE DEF y
<1>5. /\ Skip(p) \in Nat
      /\ \/ Skip(p) = y /\ y < Fill
         \/ Skip(p) = Fill /\ Fill <= y
  BY <1>4, SkipsAt
<1> QED
  BY <1>3, <1>5 DEF y

\* A word of the answer in the buffer.
LEMMA TextIs ==
    ASSUME EnvOK(env), NEW s, Has(s), NEW a \in Answers, NEW b \in Nat, NEW m \in Nat,
           Carries(a, s, b, m), NEW i \in Nat, NEW n \in Nat, b + i + n <= Fill, m <= b + i
    PROVE  Text(b + i, n) = Piece(a.text, i, n) /\ i + n <= Len(a.text)
<1>1. Fill \in Nat /\ Fill = Len(env.buf) /\ env.buf \in Seq(Characters)
      /\ Fill <= b + Len(a.text)
      /\ \A k \in Nat : k < Fill /\ k >= b /\ k >= m => At(k) = a.text[k - b + 1]
  BY EnvTypes, InAnswer
<1>2. a.text \in Seq(Characters) /\ Len(a.text) \in Nat
  BY AnswerText
<1>3. i + n <= Len(a.text)
  BY <1>1, <1>2
<1>4. /\ Piece(a.text, i, n) \in Seq(Characters) /\ Len(Piece(a.text, i, n)) = n
      /\ \A k \in 1 .. n : Piece(a.text, i, n)[k] = a.text[i + k]
  BY <1>2, <1>3, PieceOK, ZenonT(30)
<1>5. /\ Piece(env.buf, b + i, n) \in Seq(Characters) /\ Len(Piece(env.buf, b + i, n)) = n
      /\ \A k \in 1 .. n : Piece(env.buf, b + i, n)[k] = env.buf[b + i + k]
  <2> DEFINE j == b + i
             t == env.buf
  <2>1. j \in Nat /\ j + n <= Len(t) /\ t \in Seq(Characters)
    BY <1>1
  <2> HIDE DEF j, t
  <2>2. /\ Piece(t, j, n) \in Seq(Characters) /\ Len(Piece(t, j, n)) = n
        /\ \A k \in 1 .. n : Piece(t, j, n)[k] = t[j + k]
    BY <2>1, PieceOK
  <2> QED
    BY <2>2 DEF j, t
<1>6. \A k \in 1 .. n : env.buf[b + i + k] = a.text[i + k]
  <2>1. TAKE k \in 1 .. n
  <2> DEFINE j == b + i + k - 1
  <2>2. j \in Nat /\ j < Fill /\ j >= b /\ j >= m /\ j + 1 = b + i + k /\ j - b + 1 = i + k
    BY <1>1
  <2>3. At(j) = a.text[j - b + 1]
    BY <1>1, <2>2
  <2> QED
    BY <2>2, <2>3 DEF At
<1>7. Piece(env.buf, b + i, n) = Piece(a.text, i, n)
  BY <1>4, <1>5, <1>6, SeqEqual
<1> QED
  BY <1>3, <1>7 DEF Piece, Text

\* Where Find and Skip stop in the stream.
LEMMA FindIs ==
    ASSUME EnvOK(env), NEW s, Has(s), NEW p \in Nat, p <= Fill, NEW chars
    PROVE  /\ Find(p, chars) \in Nat /\ p <= Find(p, chars) /\ Find(p, chars) <= Fill
           /\ Free(s, p, Find(p, chars), chars)
           /\ Find(p, chars) < Fill =>
                s[Find(p, chars) + 1] \in chars /\ At(Find(p, chars)) = s[Find(p, chars) + 1]
<1> DEFINE hits == {i \in p .. Fill - 1 : At(i) \in chars}
           q == Find(p, chars)
<1>1. Fill \in Nat /\ q \in p .. Fill /\ \A k \in 1 .. Fill : env.buf[k] = s[k]
  BY EnvTypes, FindOK DEF Has
<1>2. hits \in SUBSET (p .. Fill - 1)
  OBVIOUS
<1>3. q = Least(Fill, hits)
  BY DEF Find, Scan, Least
<1> HIDE DEF hits, q
<1>4. (q = Fill \/ q \in hits) /\ \A i \in hits : q <= i
  BY <1>1, <1>2, <1>3, LeastHit
<1>5. \A i \in 0 .. Fill - 1 : At(i) = s[i + 1]
  <2>1. \A i \in 0 .. Fill - 1 : i + 1 \in 1 .. Fill
    BY <1>1
  <2> QED
    BY <1>1, <2>1 DEF At
<1>6. ASSUME NEW k \in p + 1 .. q PROVE s[k] \notin chars
  <2>1. k - 1 \in p .. Fill - 1 /\ k - 1 \in 0 .. Fill - 1 /\ k - 1 + 1 = k /\ ~(q <= k - 1)
    BY <1>1, <1>6
  <2>2. k - 1 \notin hits
    BY <1>4, <2>1
  <2> QED
    BY <1>5, <2>1, <2>2 DEF hits
<1>7. q < Fill => s[q + 1] \in chars /\ At(q) = s[q + 1]
  <2>1. q < Fill => q \in hits /\ q \in 0 .. Fill - 1
    BY <1>1, <1>4
  <2> QED
    BY <1>5, <2>1 DEF hits
<1> QED
  BY <1>1, <1>6, <1>7 DEF q, Free

\* Where Skip stops in the stream.
LEMMA SkipIs ==
    ASSUME EnvOK(env), NEW s, Has(s), NEW p \in Nat, p <= Fill
    PROVE  /\ Skip(p) \in Nat /\ p <= Skip(p) /\ Skip(p) <= Fill
           /\ \A k \in p + 1 .. Skip(p) : s[k] = "sp"
           /\ Skip(p) < Fill => s[Skip(p) + 1] # "sp" /\ At(Skip(p)) = s[Skip(p) + 1]
<1> DEFINE hits == {i \in p .. Fill - 1 : At(i) # "sp"}
           q == Skip(p)
<1>1. Fill \in Nat /\ q \in p .. Fill /\ \A k \in 1 .. Fill : env.buf[k] = s[k]
  BY EnvTypes, SkipOK DEF Has
<1>2. hits \in SUBSET (p .. Fill - 1)
  OBVIOUS
<1>3. q = Least(Fill, hits)
  BY DEF Skip, Scan, Least
<1> HIDE DEF hits, q
<1>4. (q = Fill \/ q \in hits) /\ \A i \in hits : q <= i
  BY <1>1, <1>2, <1>3, LeastHit
<1>5. \A i \in 0 .. Fill - 1 : At(i) = s[i + 1]
  <2>1. \A i \in 0 .. Fill - 1 : i + 1 \in 1 .. Fill
    BY <1>1
  <2> QED
    BY <1>1, <2>1 DEF At
<1>6. ASSUME NEW k \in p + 1 .. q PROVE s[k] = "sp"
  <2>1. k - 1 \in p .. Fill - 1 /\ k - 1 \in 0 .. Fill - 1 /\ k - 1 + 1 = k /\ ~(q <= k - 1)
    BY <1>1, <1>6
  <2>2. k - 1 \notin hits
    BY <1>4, <2>1
  <2> QED
    BY <1>5, <2>1, <2>2 DEF hits
<1>7. q < Fill => s[q + 1] # "sp" /\ At(q) = s[q + 1]
  <2>1. q < Fill => q \in hits /\ q \in 0 .. Fill - 1
    BY <1>1, <1>4
  <2> QED
    BY <1>5, <2>1 DEF hits
<1> QED
  BY <1>1, <1>6, <1>7 DEF q

\* All but the step and the places to go on is the same.
Same(e, f) ==
    /\ f.buf = e.buf /\ f.at = e.at /\ f.name = e.name /\ f.nameLen = e.nameLen /\ f.status = e.status
    /\ f.length = e.length /\ f.chunked = e.chunked /\ f.body = e.body /\ f.chunkLen = e.chunkLen
    /\ f.chunk = e.chunk /\ f.chunkEnd = e.chunkEnd /\ f.reforming = e.reforming /\ f.astray = e.astray

\* What Goto changes.
LEMMA GotoFields ==
    ASSUME NEW e, EnvOK(e), NEW step, NEW p, Goto(e, step, p)
    PROVE  /\ http' = "parse" /\ Place' = p /\ Same(e, env')
           /\ env'.step = step /\ env'.process = e.process
<1>1. env' = [e EXCEPT !.step = step, !.p = p] /\ http' = "parse"
  BY DEF Goto
<1>2. env'.p = p
  BY <1>1 DEF EnvOK, EnvType
<1>3. Same(e, env') /\ env'.step = step /\ env'.process = e.process
  BY <1>1 DEF EnvOK, EnvType, Same
<1> QED
  BY <1>1, <1>2, <1>3 DEF Place

\* What NeedMore changes.
LEMMA MoreFields ==
    ASSUME NEW e, EnvOK(e), NEW p, NeedMore(e, p)
    PROVE  /\ http' = "recv" /\ Place' = p /\ Same(e, env')
           /\ env'.step = e.step /\ env'.process = p
<1>1. env' = [e EXCEPT !.process = p] /\ http' = "recv"
  BY DEF NeedMore
<1>2. Same(e, env') /\ env'.step = e.step /\ env'.process = p
  BY <1>1 DEF EnvOK, EnvType, Same
<1> QED
  BY <1>1, <1>2 DEF Place

\* The label that the parser is at says which step it takes.
LEMMA LabelIs ==
    ASSUME ParseHttpBuffer
    PROVE  /\ http = "parse"
           /\ \/ env.step \in {"VERSION0", "VERSION"} /\ ParseVersion
              \/ env.step \in {"STATUSCODE0", "STATUSCODE"} /\ ParseStatus
              \/ env.step \in {"REASONPHRASE0", "REASONPHRASE"} /\ ParseReason
              \/ env.step = "HEADER_NAME0" /\ ParseHeaderName0
              \/ env.step = "HEADER_NAME" /\ ParseHeaderName
              \/ env.step \in {"HEADER_VALUE0", "HEADER_VALUE"} /\ ParseHeaderValue
              \/ env.step = "BODY" /\ ParseBody
              \/ env.step = "CHUNKED_SIZE" /\ ParseChunkSize
              \/ env.step = "CHUNKED_DATA" /\ ParseChunkData
<1> DEFINE In(steps) == http = "parse" /\ env.step \in steps
<1>1. \A step, next : WordBegins(step, next) => In({step})
  BY Zenon DEF WordBegins, Parsing
<1>2. ParseVersion => In({"VERSION0", "VERSION"})
  BY <1>1 DEF ParseVersion, WordEnds, Parsing
<1>3. ParseStatus => In({"STATUSCODE0", "STATUSCODE"})
  BY <1>1 DEF ParseStatus, WordEnds, Parsing
<1>4. ParseReason => In({"REASONPHRASE0", "REASONPHRASE"})
  BY <1>1 DEF ParseReason, Parsing
<1>5. ParseHeaderName0 => In({"HEADER_NAME0"})
  BY DEF ParseHeaderName0, Parsing
<1>6. ParseHeaderName => In({"HEADER_NAME"})
  BY DEF ParseHeaderName, Parsing
<1>7. ParseHeaderValue => In({"HEADER_VALUE0", "HEADER_VALUE"})
  BY <1>1 DEF ParseHeaderValue, Parsing
<1>8. ParseBody => In({"BODY"})
  BY DEF ParseBody, Parsing
<1>9. ParseChunkSize => In({"CHUNKED_SIZE"})
  BY DEF ParseChunkSize, Parsing
<1>10. ParseChunkData => In({"CHUNKED_DATA"})
  BY DEF ParseChunkData, Parsing
<1>11. \/ ParseVersion \/ ParseStatus \/ ParseReason
       \/ ParseHeaderName0 \/ ParseHeaderName \/ ParseHeaderValue
       \/ ParseBody \/ ParseChunkSize \/ ParseChunkData
  BY Zenon DEF ParseHttpBuffer
<1>12. http = "parse"
  BY <1>2, <1>3, <1>4, <1>5, <1>6, <1>7, <1>8, <1>9, <1>10, <1>11
<1> QED
  BY <1>2, <1>3, <1>4, <1>5, <1>6, <1>7, <1>8, <1>9, <1>10, <1>11, <1>12, Zenon

-----------------------------------------------------------------------------
(* Before the answer *)

\* No header, and nothing of a body, was read.
Untouched(e) ==
    e.length = 0 /\ e.chunked = FALSE /\ e.chunkLen = 0 /\ e.astray = FALSE /\ e.reforming = FALSE

\* The parser has not come to the answer, which begins at b of the stream s.
Before(e, pos, s, b) ==
    /\ e.step \in {"VERSION0", "VERSION"} /\ Untouched(e) /\ e.process <= pos
    /\ \A k \in 1 .. Len(s) - 1 : k < b /\ s[k] = "H" => s[k + 1] # "sp"
    /\ e.step = "VERSION0" => Blank(s, pos)
    /\ e.step = "VERSION" => e.at < pos /\ Blank(s, e.at) /\ Free(s, e.at, pos, {"sp", "lf"})

\* An answer, or nothing more, begins at b.
Starts(s, b) ==
    b < Len(s) => s[b + 1] = "H" /\ (b + 1 < Len(s) => s[b + 2] = "sp")

\* The parser is behind the version.
Found(s, b) ==
    /\ http' = "parse" /\ Place' = b + 2 /\ b + 2 <= Fill
    /\ Same(env, env') /\ env'.step = "STATUSCODE0" /\ env'.process <= b + 2
    /\ Blank(s, b) /\ Untouched(env)

\* The parser waits, or goes on, before the answer.
StillBefore(s, b) ==
    /\ http' \in {"parse", "recv"} /\ env'.buf = env.buf
    /\ http' = "recv" => env'.process = Fill
    /\ Before(env', Place', s, b)

\* VERSION0, before the answer.
LEMMA Version0Step ==
    ASSUME EnvOK(env), NEW s, Has(s), NEW b \in Nat, Starts(s, b), Before(env, env.p, s, b),
           WordBegins("VERSION0", "VERSION")
    PROVE  StillBefore(s, b) \/ (Invalid /\ ~Blank(s, b))
<1> DEFINE p == Skip(env.p)
<1>1. env.p \in Nat /\ env.p <= Fill /\ Fill \in Nat /\ Fill = Len(env.buf) /\ env.process \in Nat
  BY EnvTypes
<1>2. /\ p \in Nat /\ env.p <= p /\ p <= Fill
      /\ \A k \in env.p + 1 .. p : s[k] = "sp"
      /\ p < Fill => s[p + 1] # "sp" /\ At(p) = s[p + 1]
  BY <1>1, SkipIs
<1>3. Len(s) \in Nat /\ Fill <= Len(s)
  BY DEF Has
<1>4. env.step = "VERSION0" /\ Blank(s, env.p)
  BY DEF WordBegins, Parsing, Before
<1>5. Blank(s, p)
  BY <1>1, <1>2, <1>4 DEF Blank
<1>6. \/ p = Fill /\ NeedMore(env, p)
      \/ p < Fill /\ At(p) = "lf" /\ Invalid
      \/ p < Fill /\ At(p) # "lf" /\ Goto([env EXCEPT !.at = p], "VERSION", p + 1)
  BY DEF WordBegins
<1> HIDE DEF p
<1>7. CASE p = Fill /\ NeedMore(env, p)
  <2>1. /\ http' = "recv" /\ Place' = p /\ Same(env, env')
        /\ env'.step = env.step /\ env'.process = p
    BY <1>7, MoreFields
  <2> QED
    BY <1>2, <1>4, <1>5, <1>7, <2>1 DEF StillBefore, Before, Same, Untouched
<1>8. CASE p < Fill /\ At(p) = "lf" /\ Invalid
  <2>1. s[p + 1] = "lf"
    BY <1>2, <1>8
  <2>2. p # b
    BY <1>1, <1>2, <1>3, <1>8, <2>1 DEF Starts
  <2>3. ~(b < p)
    <3>1. SUFFICES ASSUME b < p PROVE FALSE
      OBVIOUS
    <3>2. b < Len(s) /\ b + 1 \in 1 .. Len(s) /\ b + 1 <= p
      BY <1>1, <1>2, <1>3, <3>1
    <3> QED
      BY <1>5, <3>2 DEF Blank, Starts
  <2>4. p + 1 \in 1 .. Len(s) /\ p + 1 <= b
    BY <1>1, <1>2, <1>3, <1>8, <2>2, <2>3
  <2> QED
    BY <1>8, <2>1, <2>4 DEF Blank
<1>9. CASE p < Fill /\ At(p) # "lf" /\ Goto([env EXCEPT !.at = p], "VERSION", p + 1)
  <2> DEFINE e == [env EXCEPT !.at = p]
  <2>1. EnvOK(e) /\ e.at = p /\ e.buf = env.buf /\ e.process = env.process /\ Untouched(env) = Untouched(e)
    BY <1>2 DEF EnvOK, EnvType, Untouched
  <2> HIDE DEF e
  <2>2. Goto(e, "VERSION", p + 1)
    BY <1>9 DEF e
  <2>3. /\ http' = "parse" /\ Place' = p + 1 /\ Same(e, env')
        /\ env'.step = "VERSION" /\ env'.process = e.process
    BY <2>1, <2>2, GotoFields
  <2>4. Untouched(env') /\ env'.at = p /\ env'.buf = env.buf /\ env'.process = env.process
    BY <2>1, <2>3 DEF Same, Untouched, Before
  <2>5. Free(s, p, p + 1, {"sp", "lf"})
    <3>1. \A k \in p + 1 .. p + 1 : k = p + 1
      BY <1>2
    <3> QED
      BY <1>2, <1>9, <3>1 DEF Free
  <2>6. env'.process <= p + 1 /\ p < p + 1
    BY <1>1, <1>2, <2>4 DEF Before
  <2> QED
    BY <1>5, <2>3, <2>4, <2>5, <2>6 DEF StillBefore, Before
<1> QED
  BY <1>6, <1>7, <1>8, <1>9

\* VERSION: only the version of the answer is taken for one.
LEMMA VersionStep ==
    ASSUME EnvOK(env), NEW s, Has(s), NEW b \in Nat, Starts(s, b), Before(env, env.p, s, b),
           WordEnds("VERSION", "STATUSCODE0", LAMBDA word : word = <<"H">>, LAMBDA word : env)
    PROVE  StillBefore(s, b) \/ Found(s, b) \/ (Invalid /\ ~Blank(s, b))
<1> DEFINE p == Find(env.p, {"sp", "lf"})
           word == Text(env.at, p - env.at)
<1>1. env.p \in Nat /\ env.p <= Fill /\ Fill \in Nat /\ Fill = Len(env.buf) /\ env.process \in Nat
      /\ env.at \in Nat /\ env.buf \in Seq(Characters)
  BY EnvTypes
<1>2. /\ p \in Nat /\ env.p <= p /\ p <= Fill
      /\ Free(s, env.p, p, {"sp", "lf"})
      /\ p < Fill => s[p + 1] \in {"sp", "lf"} /\ At(p) = s[p + 1]
  BY <1>1, FindIs
<1>3. Len(s) \in Nat /\ Fill <= Len(s) /\ \A k \in 1 .. Fill : env.buf[k] = s[k]
  BY DEF Has
<1>4. env.step = "VERSION" /\ env.at < env.p /\ Blank(s, env.at) /\ Free(s, env.at, env.p, {"sp", "lf"})
      /\ Untouched(env) /\ env.process <= env.p
  BY DEF WordEnds, Parsing, Before
<1>5. Free(s, env.at, p, {"sp", "lf"})
  BY <1>1, <1>2, <1>4 DEF Free
<1>6. \/ p = Fill /\ NeedMore(env, p)
      \/ p < Fill /\ (At(p) = "lf" \/ word # <<"H">>) /\ Invalid
      \/ p < Fill /\ At(p) = "sp" /\ word = <<"H">> /\ Goto(env, "STATUSCODE0", p + 1)
  BY DEF WordEnds
<1>7. word \in Seq(Characters) /\ Len(word) = p - env.at
      /\ \A k \in 1 .. p - env.at : word[k] = s[env.at + k]
  <2> HIDE DEF p
  <2> DEFINE n == p - env.at
             t == env.buf
             i == env.at
  <2>1. n \in Nat /\ i \in Nat /\ i + n <= Len(t) /\ t \in Seq(Characters)
    BY <1>1, <1>2, <1>4
  <2>2. Text(i, n) = Piece(t, i, n)
    BY DEF Text, Piece
  <2> HIDE DEF n, t, i
  <2>3. /\ Piece(t, i, n) \in Seq(Characters) /\ Len(Piece(t, i, n)) = n
        /\ \A k \in 1 .. n : Piece(t, i, n)[k] = t[i + k]
    BY <2>1, PieceOK
  <2>4. \A k \in 1 .. n : t[i + k] = s[i + k]
    BY <1>1, <1>2, <1>3, <1>4, SMTT(30) DEF n, t, i
  <2>5. word = Piece(t, i, n)
    BY <2>2 DEF n, i
  <2> HIDE DEF word
  <2>6. Len(word) = n /\ \A k \in 1 .. n : word[k] = s[i + k]
    BY <2>3, <2>4, <2>5
  <2> QED
    BY <2>3, <2>5, <2>6 DEF n, i
<1> HIDE DEF p, word
<1>8. CASE p = Fill /\ NeedMore(env, p)
  <2>1. /\ http' = "recv" /\ Place' = p /\ Same(env, env')
        /\ env'.step = env.step /\ env'.process = p
    BY <1>8, MoreFields
  <2>2. env.at < p
    BY <1>1, <1>2, <1>4
  <2> QED
    BY <1>2, <1>4, <1>5, <1>8, <2>1, <2>2 DEF StillBefore, Before, Same, Untouched
<1>9. CASE p < Fill /\ (At(p) = "lf" \/ word # <<"H">>) /\ Invalid
  <2>1. SUFFICES ASSUME Blank(s, b) PROVE FALSE
    BY <1>9
  <2>2. env.at + 1 \in 1 .. Len(s) /\ env.at + 1 \in env.at + 1 .. p
    BY <1>1, <1>2, <1>3, <1>4, <1>9
  <2>3. s[env.at + 1] \notin {"sp", "lf"}
    BY <1>5, <2>2 DEF Free
  <2>4. ~(env.at < b)
    BY <1>1, <2>1, <2>2, <2>3 DEF Blank
  <2>5. ~(b < env.at)
    <3>1. SUFFICES ASSUME b < env.at PROVE FALSE
      OBVIOUS
    <3>2. b + 1 \in 1 .. Len(s) /\ b + 1 <= env.at /\ b < Len(s)
      BY <1>1, <2>2, <3>1
    <3> QED
      BY <1>4, <3>2 DEF Blank, Starts
  <2>6. env.at = b
    BY <1>1, <2>4, <2>5
  <2>7. b < Len(s) /\ b + 1 < Len(s)
    BY <1>1, <1>2, <1>3, <1>4, <1>9, <2>6
  <2>8. s[b + 1] = "H" /\ s[b + 2] = "sp"
    BY <2>7 DEF Starts
  <2>9. p = b + 1
    <3>1. ~(b + 2 \in b + 1 .. p)
      BY <1>5, <2>6, <2>8 DEF Free
    <3> QED
      BY <1>1, <1>2, <1>4, <2>6, <3>1
  <2>10. At(p) = "sp"
    <3>1. p + 1 = b + 2
      BY <2>9
    <3> QED
      BY <1>2, <1>9, <2>8, <3>1
  <2>11. word = <<"H">>
    <3>1. Len(word) = 1 /\ word[1] = "H"
      <4>1. p - env.at = 1 /\ env.at + 1 = b + 1
        BY <2>6, <2>9
      <4> QED
        BY <1>7, <2>8, <4>1
    <3> QED
      BY <1>7, <3>1
  <2> QED
    BY <1>9, <2>10, <2>11
<1>10. CASE p < Fill /\ At(p) = "sp" /\ word = <<"H">> /\ Goto(env, "STATUSCODE0", p + 1)
  <2>1. p = env.at + 1 /\ s[env.at + 1] = "H"
    <3>1. Len(word) = 1 /\ word[1] = "H"
      BY <1>10
    <3>2. p - env.at = 1
      BY <1>7, <3>1
    <3>3. 1 \in 1 .. p - env.at
      BY <3>2
    <3> QED
      BY <1>1, <1>2, <1>7, <3>1, <3>2, <3>3
  <2>2. s[env.at + 2] = "sp"
    <3>1. p + 1 = env.at + 2
      BY <1>1, <2>1
    <3> QED
      BY <1>2, <1>10, <3>1
  <2>3. env.at + 1 \in 1 .. Len(s) - 1 /\ env.at + 1 + 1 = env.at + 2
    BY <1>1, <1>2, <1>3, <1>10, <2>1
  <2>4. ~(env.at + 1 < b)
    BY <2>1, <2>2, <2>3 DEF Before
  <2>5. ~(b < env.at)
    <3>1. SUFFICES ASSUME b < env.at PROVE FALSE
      OBVIOUS
    <3>2. b + 1 \in 1 .. Len(s) /\ b + 1 <= env.at /\ b < Len(s)
      BY <1>1, <2>3, <3>1, SMTT(30)
    <3> QED
      BY <1>4, <3>2 DEF Blank, Starts
  <2>6. env.at + 1 # b
    <3>1. SUFFICES ASSUME env.at + 1 = b PROVE FALSE
      OBVIOUS
    <3>2. b < Len(s) /\ b + 1 = env.at + 2
      BY <2>3, <3>1
    <3> QED
      BY <2>2, <3>2 DEF Starts
  <2>7. env.at = b
    BY <1>1, <2>4, <2>5, <2>6
  <2>8. /\ http' = "parse" /\ Place' = p + 1 /\ Same(env, env')
        /\ env'.step = "STATUSCODE0" /\ env'.process = env.process
    BY <1>10, GotoFields
  <2>9. p + 1 = b + 2 /\ b + 2 <= Fill /\ env.process <= b + 2
    BY <1>1, <1>2, <1>4, <1>10, <2>1, <2>7
  <2> QED
    BY <1>4, <2>7, <2>8, <2>9 DEF Found
<1> QED
  BY <1>6, <1>8, <1>9, <1>10

\* Before the answer the parser fails only if something else was left there.
LEMMA BeforeStep ==
    ASSUME EnvOK(env), NEW s, Has(s), NEW b \in Nat, Starts(s, b), Before(env, env.p, s, b),
           ParseHttpBuffer
    PROVE  StillBefore(s, b) \/ Found(s, b) \/ (Invalid /\ ~Blank(s, b))
<1>1. ParseVersion
  BY LabelIs DEF Before
<1>2. CASE WordBegins("VERSION0", "VERSION")
  BY <1>2, Version0Step
<1>3. CASE WordEnds("VERSION", "STATUSCODE0", LAMBDA word : word = <<"H">>, LAMBDA word : env)
  BY <1>3, VersionStep
<1> QED
  BY <1>1, <1>2, <1>3 DEF ParseVersion

-----------------------------------------------------------------------------
(* The status line *)

\* The parser is in the status line of the answer, behind the version.
InStatusLine(a, e, pos, b) ==
    LET n == Len(a.status) IN
    /\ Untouched(e) /\ e.process <= pos
    /\ \/ e.step = "STATUSCODE0" /\ pos = b + 2
       \/ e.step = "STATUSCODE" /\ e.at = b + 2 /\ pos \in b + 3 .. b + 2 + n
       \/ e.step = "REASONPHRASE0" /\ e.status = a.status /\ pos = b + 3 + n
       \/ /\ e.step = "REASONPHRASE" /\ e.status = a.status /\ pos > b + 3 + n
          /\ Free(a.text, n + 3, pos - b, {"lf"})

\* Of the headers before the line at i those that frame the body were taken over.
Seen(a, e, i) ==
    /\ e.length \in {0, Size(a)}
    /\ (\E j \in 1 .. i - 1 : LineAt(a, j) /\ SaysLength(a, j, Size(a))) => e.length = Size(a)
    /\ e.chunked => a.chunked
    /\ (\E j \in 1 .. i - 1 : LineAt(a, j) /\ SaysChunked(a, j)) => e.chunked

\* The parser is in the header that begins at i.
InHeader(a, e, pos, b, i) ==
    /\ LineAt(a, i) /\ Seen(a, e, i) /\ e.name = b + i
    /\ \E colon, value, end \in 1 .. a.head :
        /\ Header(a, i, colon, value, end)
        /\ \/ e.step = "HEADER_NAME" /\ pos \in b + i + 1 .. b + colon
           \/ e.step = "HEADER_VALUE0" /\ e.nameLen = colon - i /\ pos \in b + colon + 1 .. b + value
           \/ /\ e.step = "HEADER_VALUE" /\ e.nameLen = colon - i /\ e.at = b + value
              /\ pos \in b + value + 1 .. b + end

\* The parser is among the headers, before a line or in one.
InHeaders(a, e, pos, b) ==
    /\ e.astray = FALSE /\ e.reforming = FALSE /\ e.chunkLen = 0 /\ e.status = a.status
    /\ e.process <= pos
    /\ \/ e.step = "HEADER_NAME0" /\ pos > b /\ LineAt(a, pos - b) /\ Seen(a, e, pos - b)
       \/ \E i \in 1 .. a.head : InHeader(a, e, pos, b, i)

\* The places of the parts of an answer.
LEMMA AnswerShape ==
    ASSUME NEW a \in Answers
    PROVE  /\ a.head \in Nat /\ 1 <= a.head /\ a.head <= Len(a.text)
           /\ Len(a.status) \in Nat /\ Len(a.body) \in Nat /\ StatusLine(a) /\ OneVersion(a) /\ Framed(a)
           /\ \A i \in 1 .. a.head : LineAt(a, i) => LineOK(a, i)
           /\ a.chunked => Chunks(a)
           /\ a.chunks \in Seq([size : Nat, data : Nat, length : Nat, at : Nat])
<1>1. /\ IsText(a.status) /\ IsText(a.body) /\ WellFormed(a)
      /\ a.chunks \in Seq([size : Nat, data : Nat, length : Nat, at : Nat])
  BY AnswerAssumption
<1>2. Len(a.status) \in Nat /\ Len(a.body) \in Nat
  BY <1>1 DEF IsText
<1>3. a.head \in 1 .. Len(a.text) /\ Len(a.text) \in Nat
  BY <1>1, AnswerText DEF WellFormed
<1> QED
  BY <1>1, <1>2, <1>3 DEF WellFormed

\* The status line of an answer.
LEMMA StatusShape ==
    ASSUME NEW a \in Answers
    PROVE  /\ a.text[1] = "H" /\ a.text[2] = "sp" /\ Len(a.status) \in Nat /\ Len(a.status) > 0
           /\ Piece(a.text, 2, Len(a.status)) = a.status
           /\ Free(a.text, 2, Len(a.status) + 2, {"sp", "lf"})
           /\ a.text[Len(a.status) + 3] = "sp" /\ a.text[Len(a.status) + 4] \notin {"sp", "lf"}
           /\ \E end \in Len(a.status) + 4 .. a.head - 2 :
                 Free(a.text, Len(a.status) + 3, end, {"lf"}) /\ a.text[end + 1] = "lf"
BY AnswerShape DEF StatusLine

\* There is no line of the headers in the status line.
LEMMA FirstLineAt ==
    ASSUME NEW a \in Answers, NEW end \in Nat, end >= Len(a.status) + 4,
           Free(a.text, Len(a.status) + 3, end, {"lf"}),
           NEW j \in 1 .. end
    PROVE  a.text[j] # "lf"
<1> DEFINE n == Len(a.status)
<1>1. n \in Nat
  BY StatusShape
<1>2. CASE j = 1 \/ j = 2
  BY <1>2, StatusShape
<1>3. CASE j \in 3 .. n + 2
  BY <1>3, StatusShape DEF Free
<1>4. CASE j = n + 3
  BY <1>4, StatusShape
<1>5. CASE j \in n + 4 .. end
  BY <1>1, <1>5 DEF Free
<1> HIDE DEF n
<1> QED
  BY <1>1, <1>2, <1>3, <1>4, <1>5

\* The step of the parser in the status line.
StatusOutcome(a, b) ==
    /\ http' \in {"parse", "recv"} /\ env'.buf = env.buf /\ env'.astray = FALSE
    /\ http' = "recv" => env'.process > 0
    /\ InStatusLine(a, env', Place', b) \/ InHeaders(a, env', Place', b)

\* The step waits for more at p.
LEMMA StatusWaits ==
    ASSUME EnvOK(env), NEW a, NEW b \in Nat, NEW p \in Nat, p > 0, NeedMore(env, p),
           Untouched(env), InStatusLine(a, [env EXCEPT !.process = p], p, b)
    PROVE  StatusOutcome(a, b)
<1> DEFINE e == [env EXCEPT !.process = p]
<1>1. env' = e /\ http' = "recv"
  BY DEF NeedMore
<1>2. e.process = p /\ e.buf = env.buf /\ e.astray = FALSE
  BY DEF EnvOK, EnvType, Untouched
<1>3. Place' = p
  BY MoreFields
<1> HIDE DEF e
<1>4. InStatusLine(a, env', Place', b)
  BY <1>1, <1>3 DEF e
<1> QED
  BY <1>1, <1>2, <1>4 DEF StatusOutcome

\* STATUSCODE0
LEMMA Status0Step ==
    ASSUME EnvOK(env), NEW s, Has(s), NEW a \in Answers, NEW b \in Nat, Carries(a, s, b, 0),
           InStatusLine(a, env, env.p, b), env.step = "STATUSCODE0",
           WordBegins("STATUSCODE0", "STATUSCODE")
    PROVE  StatusOutcome(a, b)
<1> DEFINE p == Skip(env.p)
<1>1. env.p = b + 2 /\ Untouched(env) /\ env.process <= b + 2
  BY DEF InStatusLine
<1>2. env.p \in Nat /\ env.p <= Fill /\ Fill \in Nat /\ Fill = Len(env.buf) /\ env.process \in Nat
  BY EnvTypes
<1>3. a.text[3] \notin {"sp", "lf"} /\ Len(a.status) \in Nat /\ Len(a.status) > 0
  <2>1. Len(a.status) \in Nat /\ 3 \in 2 + 1 .. Len(a.status) + 2
    BY StatusShape
  <2> QED
    BY <2>1, StatusShape DEF Free
<1>4. /\ p \in Nat
      /\ \/ p = b + 2 /\ b + 2 < Fill /\ At(b + 2) = a.text[3]
         \/ p = Fill /\ Fill <= b + 2
  <2> DEFINE q == env.p
             x == 2
  <2>1. q \in Nat /\ q <= Fill /\ b <= q /\ 0 <= q /\ q <= b + x /\ x \in Nat /\ a.text[x + 1] # "sp" /\ 0 \in Nat
        /\ \A k \in q - b + 1 .. x : a.text[k] = "sp"
    BY <1>1, <1>2, <1>3
  <2>2. x + 1 = 3
    OBVIOUS
  <2> HIDE DEF q, x
  <2>3. /\ Skip(q) \in Nat
        /\ \/ Skip(q) = b + x /\ b + x < Fill /\ At(b + x) = a.text[x + 1]
           \/ Skip(q) = Fill /\ Fill <= b + x
    BY <2>1, SkipsThere
  <2> QED
    BY <2>2, <2>3 DEF q, x
<1>5. \/ p = Fill /\ NeedMore(env, p)
      \/ p < Fill /\ At(p) = "lf" /\ Invalid
      \/ p < Fill /\ At(p) # "lf" /\ Goto([env EXCEPT !.at = p], "STATUSCODE", p + 1)
  BY DEF WordBegins
<1> HIDE DEF p
<1>6. CASE p = Fill /\ NeedMore(env, p)
  <2>1. p = b + 2
    BY <1>1, <1>2, <1>4, <1>6
  <2>2. InStatusLine(a, [env EXCEPT !.process = p], p, b)
    BY <1>1, <2>1 DEF InStatusLine, Untouched, EnvOK, EnvType
  <2>3. p > 0
    BY <2>1
  <2> QED
    BY <1>1, <1>4, <1>6, <2>2, <2>3, StatusWaits
<1>7. ~(p < Fill /\ At(p) = "lf" /\ Invalid)
  BY <1>2, <1>3, <1>4
<1>8. CASE p < Fill /\ At(p) # "lf" /\ Goto([env EXCEPT !.at = p], "STATUSCODE", p + 1)
  <2> DEFINE e == [env EXCEPT !.at = p]
  <2>1. EnvOK(e) /\ e.at = p /\ e.buf = env.buf /\ e.process = env.process /\ Untouched(e)
    BY <1>1, <1>4 DEF EnvOK, EnvType, Untouched
  <2> HIDE DEF e
  <2>2. Goto(e, "STATUSCODE", p + 1)
    BY <1>8 DEF e
  <2>3. /\ http' = "parse" /\ Place' = p + 1 /\ Same(e, env')
        /\ env'.step = "STATUSCODE" /\ env'.process = e.process
    BY <2>1, <2>2, GotoFields
  <2>4. Untouched(env') /\ env'.at = p /\ env'.buf = env.buf /\ env'.process = env.process
    BY <2>1, <2>3 DEF Same, Untouched
  <2>5. p = b + 2 /\ p + 1 \in b + 3 .. b + 2 + Len(a.status) /\ env.process <= p + 1
    BY <1>1, <1>2, <1>3, <1>4, <1>8
  <2>6. InStatusLine(a, env', Place', b)
    BY <2>3, <2>4, <2>5 DEF InStatusLine
  <2> QED
    BY <2>3, <2>4, <2>6 DEF StatusOutcome, Untouched
<1> QED
  BY <1>5, <1>6, <1>7, <1>8

\* STATUSCODE
LEMMA StatusCodeStep ==
    ASSUME EnvOK(env), NEW s, Has(s), NEW a \in Answers, NEW b \in Nat, Carries(a, s, b, 0),
           InStatusLine(a, env, env.p, b), env.step = "STATUSCODE",
           WordEnds("STATUSCODE", "REASONPHRASE0", LAMBDA word : TRUE,
                    LAMBDA word : [env EXCEPT !.status = word])
    PROVE  StatusOutcome(a, b)
<1> DEFINE p == Find(env.p, {"sp", "lf"})
           n == Len(a.status)
           word == Text(env.at, p - env.at)
<1>1. env.at = b + 2 /\ env.p \in b + 3 .. b + 2 + n /\ Untouched(env) /\ env.process <= env.p
  BY DEF InStatusLine
<1>2. env.p \in Nat /\ env.p <= Fill /\ Fill \in Nat /\ Fill = Len(env.buf) /\ env.process \in Nat
  BY EnvTypes
<1>3. n \in Nat /\ n > 0 /\ Free(a.text, 2, n + 2, {"sp", "lf"}) /\ a.text[n + 3] = "sp"
      /\ Piece(a.text, 2, n) = a.status
  BY StatusShape
<1>4. /\ p \in Nat
      /\ \/ p = b + (n + 2) /\ b + (n + 2) < Fill /\ At(b + (n + 2)) = a.text[n + 3]
         \/ p = Fill /\ Fill <= b + (n + 2)
  <2> HIDE DEF n
  <2> DEFINE q == env.p
             x == n + 2
             chars == {"sp", "lf"}
  <2>1. q \in Nat /\ q <= Fill /\ b <= q /\ 0 <= q /\ q <= b + x /\ x \in Nat /\ a.text[x + 1] \in chars
        /\ 0 \in Nat
    BY <1>1, <1>2, <1>3, SMTT(30)
  <2>2. Free(a.text, q - b, x, chars)
    <3>1. q - b >= 2
      BY <1>1, <1>3
    <3> QED
      BY <1>2, <1>3, <2>1, <3>1 DEF Free
  <2>3. x + 1 = n + 3
    BY <1>3
  <2> HIDE DEF q, x, chars
  <2>4. /\ Find(q, chars) \in Nat
        /\ \/ Find(q, chars) = b + x /\ b + x < Fill /\ At(b + x) = a.text[x + 1]
           \/ Find(q, chars) = Fill /\ Fill <= b + x
    BY <2>1, <2>2, FindsThere
  <2> QED
    BY <2>3, <2>4 DEF q, x, chars
<1>5. \/ p = Fill /\ NeedMore(env, p)
      \/ p < Fill /\ At(p) = "lf" /\ Invalid
      \/ p < Fill /\ Goto([env EXCEPT !.status = word], "REASONPHRASE0", p + 1)
  BY DEF WordEnds
<1> HIDE DEF p, n, word
<1>6. CASE p = Fill /\ NeedMore(env, p)
  <2>1. /\ http' = "recv" /\ Place' = p /\ Same(env, env')
        /\ env'.step = env.step /\ env'.process = p
    BY <1>6, MoreFields
  <2>2. p \in b + 3 .. b + 2 + n /\ p > 0
    BY <1>1, <1>2, <1>3, <1>4, <1>6, SMTT(30)
  <2>3. InStatusLine(a, env', Place', b)
    BY <1>1, <2>1, <2>2 DEF InStatusLine, Untouched, Same, n
  <2> QED
    BY <1>1, <2>1, <2>2, <2>3 DEF StatusOutcome, Same, Untouched
<1>7. ~(p < Fill /\ At(p) = "lf" /\ Invalid)
  BY <1>2, <1>3, <1>4
<1>8. CASE p < Fill /\ Goto([env EXCEPT !.status = word], "REASONPHRASE0", p + 1)
  <2> DEFINE e == [env EXCEPT !.status = word]
  <2>1. p = b + (n + 2) /\ b + 2 + n <= Fill
    BY <1>2, <1>3, <1>4, <1>8
  <2>2. word = a.status
    <3>1. p - env.at = n
      BY <1>1, <1>3, <2>1
    <3>2. 2 \in Nat /\ 0 \in Nat /\ 0 <= b + 2
      OBVIOUS
    <3>3. Text(b + 2, n) = Piece(a.text, 2, n)
      BY <1>3, <2>1, <3>2, TextIs, SMTT(30)
    <3> QED
      BY <1>1, <1>3, <3>1, <3>3 DEF word
  <2>3. word \in Seq(Characters)
    BY <1>1, <1>2, <1>4, <1>8, TextType, EnvTypes DEF word
  <2>4. EnvOK(e) /\ e.status = word /\ e.buf = env.buf /\ e.process = env.process /\ Untouched(e)
    BY <1>1, <2>3 DEF EnvOK, EnvType, Untouched
  <2> HIDE DEF e
  <2>5. Goto(e, "REASONPHRASE0", p + 1)
    BY <1>8 DEF e
  <2>6. /\ http' = "parse" /\ Place' = p + 1 /\ Same(e, env')
        /\ env'.step = "REASONPHRASE0" /\ env'.process = e.process
    BY <2>4, <2>5, GotoFields
  <2>7. Untouched(env') /\ env'.status = a.status /\ env'.buf = env.buf /\ env'.process = env.process
    BY <2>2, <2>4, <2>6 DEF Same, Untouched
  <2>8. p + 1 = b + 3 + n /\ env.process <= p + 1
    <3>1. p + 1 = b + 3 + n /\ env.p <= p
      BY <1>1, <1>3, <2>1
    <3> QED
      BY <1>1, <1>2, <1>4, <3>1
  <2>9. InStatusLine(a, env', Place', b)
    BY <2>6, <2>7, <2>8 DEF InStatusLine, n
  <2> QED
    BY <2>6, <2>7, <2>9 DEF StatusOutcome, Untouched
<1> QED
  BY <1>5, <1>6, <1>7, <1>8

\* REASONPHRASE0
LEMMA Reason0Step ==
    ASSUME EnvOK(env), NEW s, Has(s), NEW a \in Answers, NEW b \in Nat, Carries(a, s, b, 0),
           InStatusLine(a, env, env.p, b), env.step = "REASONPHRASE0",
           WordBegins("REASONPHRASE0", "REASONPHRASE")
    PROVE  StatusOutcome(a, b)
<1> DEFINE p == Skip(env.p)
           n == Len(a.status)
<1>1. env.p = b + 3 + n /\ env.status = a.status /\ Untouched(env) /\ env.process <= env.p
  BY DEF InStatusLine
<1>2. env.p \in Nat /\ env.p <= Fill /\ Fill \in Nat /\ Fill = Len(env.buf) /\ env.process \in Nat
  BY EnvTypes
<1>3. n \in Nat /\ a.text[n + 4] \notin {"sp", "lf"}
  BY StatusShape
<1>4. /\ p \in Nat
      /\ \/ p = b + (n + 3) /\ b + (n + 3) < Fill /\ At(b + (n + 3)) = a.text[n + 4]
         \/ p = Fill /\ Fill <= b + (n + 3)
  <2> HIDE DEF n
  <2> DEFINE q == env.p
             x == n + 3
  <2>1. q \in Nat /\ q <= Fill /\ b <= q /\ 0 <= q /\ q <= b + x /\ x \in Nat /\ a.text[x + 1] # "sp"
        /\ 0 \in Nat /\ \A k \in q - b + 1 .. x : a.text[k] = "sp"
    BY <1>1, <1>2, <1>3
  <2>2. x + 1 = n + 4
    BY <1>3
  <2> HIDE DEF q, x
  <2>3. /\ Skip(q) \in Nat
        /\ \/ Skip(q) = b + x /\ b + x < Fill /\ At(b + x) = a.text[x + 1]
           \/ Skip(q) = Fill /\ Fill <= b + x
    BY <2>1, SkipsThere
  <2> QED
    BY <2>2, <2>3 DEF q, x
<1>5. \/ p = Fill /\ NeedMore(env, p)
      \/ p < Fill /\ At(p) = "lf" /\ Invalid
      \/ p < Fill /\ At(p) # "lf" /\ Goto([env EXCEPT !.at = p], "REASONPHRASE", p + 1)
  BY DEF WordBegins
<1> HIDE DEF p, n
<1>6. CASE p = Fill /\ NeedMore(env, p)
  <2>1. /\ http' = "recv" /\ Place' = p /\ Same(env, env')
        /\ env'.step = env.step /\ env'.process = p
    BY <1>6, MoreFields
  <2>2. p = b + 3 + n /\ p > 0
    BY <1>1, <1>2, <1>3, <1>4, <1>6
  <2>3. InStatusLine(a, env', Place', b)
    BY <1>1, <2>1, <2>2 DEF InStatusLine, Untouched, Same, n
  <2> QED
    BY <1>1, <2>1, <2>2, <2>3 DEF StatusOutcome, Same, Untouched
<1>7. ~(p < Fill /\ At(p) = "lf" /\ Invalid)
  BY <1>2, <1>3, <1>4
<1>8. CASE p < Fill /\ At(p) # "lf" /\ Goto([env EXCEPT !.at = p], "REASONPHRASE", p + 1)
  <2> DEFINE e == [env EXCEPT !.at = p]
  <2>1. EnvOK(e) /\ e.status = env.status /\ e.buf = env.buf /\ e.process = env.process /\ Untouched(e)
    BY <1>1, <1>4 DEF EnvOK, EnvType, Untouched
  <2> HIDE DEF e
  <2>2. Goto(e, "REASONPHRASE", p + 1)
    BY <1>8 DEF e
  <2>3. /\ http' = "parse" /\ Place' = p + 1 /\ Same(e, env')
        /\ env'.step = "REASONPHRASE" /\ env'.process = e.process
    BY <2>1, <2>2, GotoFields
  <2>4. Untouched(env') /\ env'.status = a.status /\ env'.buf = env.buf /\ env'.process = env.process
    BY <1>1, <2>1, <2>3 DEF Same, Untouched
  <2>5. p = b + (n + 3)
    BY <1>2, <1>4, <1>8
  <2>6. p + 1 > b + 3 + n /\ env.process <= p + 1
    BY <1>1, <1>2, <1>3, <2>5
  <2>7. Free(a.text, n + 3, p + 1 - b, {"lf"})
    <3>1. \A k \in n + 3 + 1 .. p + 1 - b : k = n + 4
      BY <1>3, <2>5
    <3> QED
      BY <1>3, <3>1 DEF Free
  <2>8. InStatusLine(a, env', p + 1, b)
    <3> DEFINE r == p + 1
    <3>1. Free(a.text, n + 3, r - b, {"lf"}) /\ env'.process <= r /\ r > b + 3 + n
      BY <1>4, <2>4, <2>6, <2>7
    <3> HIDE DEF r
    <3>2. InStatusLine(a, env', r, b)
      BY <2>3, <2>4, <3>1 DEF InStatusLine, n
    <3> QED
      BY <3>2 DEF r
  <2>9. InStatusLine(a, env', Place', b)
    BY <2>3, <2>8
  <2> QED
    BY <2>3, <2>4, <2>9 DEF StatusOutcome, Untouched
<1> QED
  BY <1>5, <1>6, <1>7, <1>8

\* REASONPHRASE
LEMMA ReasonStep ==
    ASSUME EnvOK(env), NEW s, Has(s), NEW a \in Answers, NEW b \in Nat, Carries(a, s, b, 0),
           InStatusLine(a, env, env.p, b), env.step = "REASONPHRASE",
           LET p == Find(env.p, {"lf"})
           IN  IF p = Fill THEN NeedMore(env, p) ELSE Goto(env, "HEADER_NAME0", p + 1)
    PROVE  StatusOutcome(a, b)
<1> DEFINE p == Find(env.p, {"lf"})
           n == Len(a.status)
<1>1. /\ env.p > b + 3 + n /\ Free(a.text, n + 3, env.p - b, {"lf"})
      /\ env.status = a.status /\ Untouched(env) /\ env.process <= env.p
  BY DEF InStatusLine
<1>2. env.p \in Nat /\ env.p <= Fill /\ Fill \in Nat /\ Fill = Len(env.buf) /\ env.process \in Nat
  BY EnvTypes
<1>3. n \in Nat /\ a.head \in Nat
  BY StatusShape, AnswerShape
<1>4. PICK end \in n + 4 .. a.head - 2 : Free(a.text, n + 3, end, {"lf"}) /\ a.text[end + 1] = "lf"
  BY StatusShape
<1>5. (p = Fill /\ NeedMore(env, p)) \/ (p # Fill /\ Goto(env, "HEADER_NAME0", p + 1))
  OBVIOUS
<1> HIDE DEF n
<1>6. env.p <= b + end
  <2>1. ~(end + 1 \in n + 3 + 1 .. env.p - b)
    BY <1>1, <1>4 DEF Free
  <2> QED
    BY <1>1, <1>2, <1>3, <1>4, <2>1
<1>7. /\ p \in Nat
      /\ \/ p = b + end /\ b + end < Fill
         \/ p = Fill /\ Fill <= b + end
  <2> DEFINE q == env.p
             chars == {"lf"}
  <2>1. q \in Nat /\ q <= Fill /\ b <= q /\ 0 <= q /\ q <= b + end /\ end \in Nat /\ a.text[end + 1] \in chars
        /\ 0 \in Nat
    BY <1>1, <1>2, <1>3, <1>4, <1>6
  <2>2. Free(a.text, q - b, end, chars)
    <3>1. q - b >= n + 3
      BY <1>1, <1>2, <1>3, SMTT(30)
    <3> QED
      BY <1>2, <1>3, <1>4, <2>1, <3>1 DEF Free
  <2> HIDE DEF q, chars
  <2>3. /\ Find(q, chars) \in Nat
        /\ \/ Find(q, chars) = b + end /\ b + end < Fill /\ At(b + end) = a.text[end + 1]
           \/ Find(q, chars) = Fill /\ Fill <= b + end
    BY <2>1, <2>2, FindsThere
  <2> QED
    BY <2>3 DEF q, chars
<1> HIDE DEF p
<1>8. CASE p = Fill /\ NeedMore(env, p)
  <2>1. /\ http' = "recv" /\ Place' = p /\ Same(env, env')
        /\ env'.step = env.step /\ env'.process = p
    BY <1>8, MoreFields
  <2>2. p > b + 3 + n /\ p > 0 /\ p <= b + end
    BY <1>1, <1>2, <1>3, <1>4, <1>7, <1>8
  <2>3. Free(a.text, n + 3, p - b, {"lf"})
    BY <1>3, <1>4, <1>7, <2>2 DEF Free
  <2>4. InStatusLine(a, env', p, b)
    <3>1. /\ env'.step = "REASONPHRASE" /\ env'.status = a.status /\ p > b + 3 + Len(a.status)
          /\ Free(a.text, Len(a.status) + 3, p - b, {"lf"})
      BY <1>1, <2>1, <2>2, <2>3 DEF Same, n
    <3>2. Untouched(env') /\ env'.process <= p
      BY <1>1, <1>7, <2>1 DEF Same, Untouched
    <3> QED
      BY <3>1, <3>2, Zenon DEF InStatusLine
  <2>5. InStatusLine(a, env', Place', b)
    BY <2>1, <2>4
  <2> QED
    BY <1>1, <2>1, <2>2, <2>5 DEF StatusOutcome, Same, Untouched
<1>9. CASE p # Fill /\ Goto(env, "HEADER_NAME0", p + 1)
  <2>1. /\ http' = "parse" /\ Place' = p + 1 /\ Same(env, env')
        /\ env'.step = "HEADER_NAME0" /\ env'.process = env.process
    BY <1>9, GotoFields
  <2>2. /\ env'.astray = FALSE /\ env'.reforming = FALSE /\ env'.chunkLen = 0 /\ env'.status = a.status
        /\ env'.length = 0 /\ env'.chunked = FALSE /\ env'.buf = env.buf
    BY <1>1, <2>1 DEF Same, Untouched
  <2>3. p + 1 - b = end + 1 /\ env.process <= p + 1 /\ p + 1 > b
    <3>1. p = b + end /\ end \in Nat
      BY <1>3, <1>4, <1>7, <1>9
    <3>2. env.process <= env.p /\ env.p <= b + end
      BY <1>1, <1>6
    <3> QED
      BY <1>2, <3>1, <3>2
  <2>4. LineAt(a, end + 1)
    BY <1>3, <1>4 DEF LineAt
  <2>5. ASSUME NEW j \in 1 .. end + 1 - 1 PROVE ~LineAt(a, j)
    <3>1. j \in 1 .. end /\ end \in Nat /\ end >= Len(a.status) + 4
      BY <1>3, <1>4, <2>5 DEF n
    <3>2. Free(a.text, Len(a.status) + 3, end, {"lf"})
      BY <1>4 DEF n
    <3>3. a.text[j] # "lf"
      BY <3>1, <3>2, FirstLineAt
    <3> QED
      BY <3>3 DEF LineAt
  <2>6. Seen(a, env', end + 1)
    BY <2>2, <2>5 DEF Seen
  <2>7. InHeaders(a, env', p + 1, b)
    <3>1. LineAt(a, p + 1 - b) /\ Seen(a, env', p + 1 - b)
      BY <2>3, <2>4, <2>6
    <3>2. env'.process <= p + 1 /\ env'.step = "HEADER_NAME0" /\ p + 1 > b
      BY <2>1, <2>3
    <3> DEFINE r == p + 1
    <3>3. LineAt(a, r - b) /\ Seen(a, env', r - b) /\ env'.process <= r /\ r > b
      BY <1>7, <3>1, <3>2
    <3> HIDE DEF r
    <3>4. InHeaders(a, env', r, b)
      BY <2>2, <3>2, <3>3 DEF InHeaders
    <3> QED
      BY <3>4 DEF r
  <2>8. InHeaders(a, env', Place', b)
    BY <2>1, <2>7
  <2> QED
    BY <2>1, <2>2, <2>8 DEF StatusOutcome
<1> QED
  BY <1>5, <1>8, <1>9

\* In the status line of the answer the parser finds what is there.
LEMMA StatusLineStep ==
    ASSUME EnvOK(env), NEW s, Has(s), NEW a \in Answers, NEW b \in Nat, Carries(a, s, b, 0),
           InStatusLine(a, env, env.p, b), ParseHttpBuffer
    PROVE  StatusOutcome(a, b)
<1>1. env.step \in {"STATUSCODE0", "STATUSCODE", "REASONPHRASE0", "REASONPHRASE"}
  BY DEF InStatusLine
<1>2. \/ env.step \in {"STATUSCODE0", "STATUSCODE"} /\ ParseStatus
      \/ env.step \in {"REASONPHRASE0", "REASONPHRASE"} /\ ParseReason
  BY <1>1, LabelIs
<1>3. CASE WordBegins("STATUSCODE0", "STATUSCODE")
  <2>1. env.step = "STATUSCODE0"
    BY <1>3 DEF WordBegins, Parsing
  <2> QED
    BY <1>3, <2>1, Status0Step
<1>4. CASE WordEnds("STATUSCODE", "REASONPHRASE0", LAMBDA word : TRUE,
                    LAMBDA word : [env EXCEPT !.status = word])
  <2>1. env.step = "STATUSCODE"
    BY <1>4 DEF WordEnds, Parsing
  <2> QED
    BY <1>4, <2>1, StatusCodeStep
<1>5. CASE WordBegins("REASONPHRASE0", "REASONPHRASE")
  <2>1. env.step = "REASONPHRASE0"
    BY <1>5 DEF WordBegins, Parsing
  <2> QED
    BY <1>5, <2>1, Reason0Step
<1>6. CASE /\ Parsing("REASONPHRASE")
           /\ LET p == Find(env.p, {"lf"})
              IN  IF p = Fill THEN NeedMore(env, p) ELSE Goto(env, "HEADER_NAME0", p + 1)
  <2>1. env.step = "REASONPHRASE"
    BY <1>6 DEF Parsing
  <2> QED
    BY <1>6, <2>1, ReasonStep
<1> QED
  BY <1>2, <1>3, <1>4, <1>5, <1>6 DEF ParseStatus, ParseReason

-----------------------------------------------------------------------------
(* The headers *)

\* A line has one colon, one value and one end.
LEMMA HeaderUnique ==
    ASSUME NEW a, NEW i \in Nat, NEW colon \in Nat, NEW value \in Nat, NEW end \in Nat,
           NEW c \in Nat, NEW v \in Nat, NEW e \in Nat,
           Header(a, i, colon, value, end), Header(a, i, c, v, e)
    PROVE  c = colon /\ v = value /\ e = end
<1>1. /\ i < colon /\ colon < value /\ value < end
      /\ Free(a.text, i, colon, {"sp", "cr", "col", "lf"}) /\ a.text[colon + 1] = "col"
      /\ \A k \in colon + 2 .. value : a.text[k] = "sp"
      /\ a.text[value + 1] \notin {"sp", "lf"}
      /\ Free(a.text, value, end, {"lf"}) /\ a.text[end + 1] = "lf"
  BY DEF Header
<1>2. /\ i < c /\ c < v /\ v < e
      /\ Free(a.text, i, c, {"sp", "cr", "col", "lf"}) /\ a.text[c + 1] = "col"
      /\ \A k \in c + 2 .. v : a.text[k] = "sp"
      /\ a.text[v + 1] \notin {"sp", "lf"}
      /\ Free(a.text, v, e, {"lf"}) /\ a.text[e + 1] = "lf"
  BY DEF Header
<1>3. c = colon
  <2>1. ~(c < colon)
    <3>1. c < colon => c + 1 \in i + 1 .. colon
      BY <1>2
    <3> QED
      BY <1>1, <1>2, <3>1 DEF Free
  <2>2. ~(colon < c)
    <3>1. colon < c => colon + 1 \in i + 1 .. c
      BY <1>1
    <3> QED
      BY <1>1, <1>2, <3>1 DEF Free
  <2> QED
    BY <2>1, <2>2
<1>4. v = value
  <2>1. ~(v < value)
    <3>1. v < value => v + 1 \in colon + 2 .. value
      BY <1>2, <1>3
    <3> QED
      BY <1>1, <1>2, <3>1
  <2>2. ~(value < v)
    <3>1. value < v => value + 1 \in c + 2 .. v
      BY <1>1, <1>3
    <3> QED
      BY <1>1, <1>2, <3>1
  <2> QED
    BY <2>1, <2>2
<1>5. e = end
  <2>1. ~(e < end)
    <3>1. e < end => e + 1 \in value + 1 .. end
      BY <1>2, <1>4
    <3> QED
      BY <1>1, <1>2, <3>1 DEF Free
  <2>2. ~(end < e)
    <3>1. end < e => end + 1 \in v + 1 .. e
      BY <1>1, <1>4
    <3> QED
      BY <1>1, <1>2, <3>1 DEF Free
  <2> QED
    BY <2>1, <2>2
<1> QED
  BY <1>3, <1>4, <1>5

\* There is no other line within a header.
LEMMA HeaderLine ==
    ASSUME NEW a, NEW i \in Nat, NEW colon \in Nat, NEW value \in Nat, NEW end \in Nat,
           Header(a, i, colon, value, end)
    PROVE  /\ a.text[i + 1] \notin {"sp", "cr", "col", "lf"}
           /\ \A j \in i + 1 .. end : a.text[j] # "lf"
<1>1. /\ i < colon /\ colon < value /\ value < end
      /\ Free(a.text, i, colon, {"sp", "cr", "col", "lf"}) /\ a.text[colon + 1] = "col"
      /\ \A k \in colon + 2 .. value : a.text[k] = "sp"
      /\ Free(a.text, value, end, {"lf"})
  BY DEF Header
<1>2. a.text[i + 1] \notin {"sp", "cr", "col", "lf"}
  <2>1. i + 1 \in i + 1 .. colon
    BY <1>1
  <2> QED
    BY <1>1, <2>1 DEF Free
<1>3. ASSUME NEW j \in i + 1 .. end PROVE a.text[j] # "lf"
  <2>1. CASE j \in i + 1 .. colon
    BY <1>1, <2>1 DEF Free
  <2>2. CASE j = colon + 1
    BY <1>1, <2>2
  <2>3. CASE j \in colon + 2 .. value
    BY <1>1, <2>3
  <2>4. CASE j \in value + 1 .. end
    BY <1>1, <2>4 DEF Free
  <2> QED
    BY <1>1, <1>3, <2>1, <2>2, <2>3, <2>4
<1> QED
  BY <1>2, <1>3

\* The name and the value of the header at i.
NameAt(a, i, colon) == Piece(a.text, i, colon - i)
ValueAt(a, value, end) == Piece(a.text, value, end - value)

\* What a header says of the body is right, and is said there only.
LEMMA HeaderSays ==
    ASSUME NEW a \in Answers, NEW i \in 1 .. a.head, LineAt(a, i),
           NEW colon \in 1 .. a.head, NEW value \in 1 .. a.head, NEW end \in 1 .. a.head,
           Header(a, i, colon, value, end)
    PROVE  /\ NameAt(a, i, colon) = <<"C", "L">> => Number(0, ValueAt(a, value, end)) = Size(a)
           /\ NameAt(a, i, colon) = <<"T", "E">> /\ Trimmed(ValueAt(a, value, end)) = <<"c", "k">> => a.chunked
           /\ SaysLength(a, i, Size(a)) => NameAt(a, i, colon) = <<"C", "L">>
           /\ SaysChunked(a, i) => NameAt(a, i, colon) = <<"T", "E">>
                                   /\ Trimmed(ValueAt(a, value, end)) = <<"c", "k">>
<1>1. a.head \in Nat /\ LineOK(a, i)
  BY AnswerShape
<1>2. i \in Nat /\ colon \in Nat /\ value \in Nat /\ end \in Nat
  BY <1>1
<1>3. ~EmptyLine(a, i)
  BY <1>2, HeaderLine DEF EmptyLine
<1>4. PICK c \in 1 .. a.head, v \in 1 .. a.head, e \in 1 .. a.head :
          /\ Header(a, i, c, v, e)
          /\ Piece(a.text, i, c - i) = <<"C", "L">> => SaysLength(a, i, Size(a))
          /\ SaysChunked(a, i) => a.chunked
  BY <1>1, <1>3, Zenon DEF LineOK
<1>5. \A c1, v1, e1 \in 1 .. a.head : Header(a, i, c1, v1, e1) => c1 = colon /\ v1 = value /\ e1 = end
  <2>1. TAKE c1, v1, e1 \in 1 .. a.head
  <2>2. c1 \in Nat /\ v1 \in Nat /\ e1 \in Nat
    BY <1>1
  <2> QED
    BY <1>2, <2>2, HeaderUnique
<1>6. SaysLength(a, i, Size(a)) => NameAt(a, i, colon) = <<"C", "L">>
                                  /\ Number(0, ValueAt(a, value, end)) = Size(a)
  BY <1>5 DEF SaysLength, NameAt, ValueAt
<1>7. SaysChunked(a, i) <=> NameAt(a, i, colon) = <<"T", "E">>
                            /\ Trimmed(ValueAt(a, value, end)) = <<"c", "k">>
  <2>1. SaysChunked(a, i) => NameAt(a, i, colon) = <<"T", "E">>
                            /\ Trimmed(ValueAt(a, value, end)) = <<"c", "k">>
    BY <1>5 DEF SaysChunked, NameAt, ValueAt
  <2>2. NameAt(a, i, colon) = <<"T", "E">> /\ Trimmed(ValueAt(a, value, end)) = <<"c", "k">>
        => SaysChunked(a, i)
    BY Zenon DEF SaysChunked, NameAt, ValueAt
  <2> QED
    BY <2>1, <2>2
<1>8. NameAt(a, i, colon) = <<"C", "L">> => SaysLength(a, i, Size(a))
  <2>1. c = colon
    BY <1>4, <1>5
  <2> QED
    BY <1>4, <2>1 DEF NameAt
<1> QED
  BY <1>4, <1>6, <1>7, <1>8

\* At the empty line all headers are seen.
LEMMA AllSeen ==
    ASSUME NEW a \in Answers, NEW i \in 1 .. a.head, LineAt(a, i), EmptyLine(a, i), NEW e, Seen(a, e, i),
           e.chunked \in BOOLEAN
    PROVE  e.length = Size(a) /\ e.chunked = a.chunked
<1>1. a.head \in Nat /\ Framed(a) /\ a.chunked \in BOOLEAN /\ Len(a.body) \in Nat
  BY AnswerShape, AnswerText
<1>2. ASSUME NEW j \in 1 .. a.head, LineAt(a, j), NEW colon \in 1 .. a.head, NEW value \in 1 .. a.head,
             NEW end \in 1 .. a.head, Header(a, j, colon, value, end)
      PROVE  j \in 1 .. i - 1
  <2>1. a.text[j + 1] \notin {"sp", "cr", "col", "lf"}
    <3>1. j \in Nat /\ colon \in Nat /\ value \in Nat /\ end \in Nat
      BY <1>1
    <3> QED
      BY <1>2, <3>1, HeaderLine
  <2>2. j # i
    BY <2>1 DEF EmptyLine
  <2>3. ~(j > i)
    BY <1>1, <1>2, <2>2 DEF EmptyLine, LineAt
  <2> QED
    BY <1>1, <2>2, <2>3
<1>3. ASSUME NEW j \in 1 .. a.head, LineAt(a, j), SaysLength(a, j, Size(a)) PROVE e.length = Size(a)
  <2>1. j \in 1 .. i - 1
    BY <1>2, <1>3 DEF SaysLength
  <2> QED
    BY <1>3, <2>1 DEF Seen
<1>4. ASSUME NEW j \in 1 .. a.head, LineAt(a, j), SaysChunked(a, j) PROVE e.chunked
  <2>1. j \in 1 .. i - 1
    BY <1>2, <1>4 DEF SaysChunked
  <2> QED
    BY <1>4, <2>1 DEF Seen
<1>5. e.length \in {0, Size(a)} /\ (e.chunked => a.chunked)
  BY DEF Seen
<1>6. CASE a.chunked
  BY <1>4, <1>5, <1>6, <1>1 DEF Framed, Size
<1>7. CASE ~a.chunked
  <2>1. e.chunked = a.chunked
    BY <1>1, <1>5, <1>7
  <2>2. CASE a.body = <<>>
    <3>1. Size(a) = 0
      BY <1>7, <2>2 DEF Size
    <3> QED
      BY <1>5, <2>1, <3>1
  <2>3. CASE a.body # <<>>
    <3>1. \E j \in 1 .. a.head : LineAt(a, j) /\ SaysLength(a, j, Size(a))
      BY <1>1, <1>7, <2>3, Zenon DEF Framed
    <3>2. e.length = Size(a)
      BY <1>3, <3>1
    <3> QED
      BY <2>1, <3>2
  <2> QED
    BY <2>2, <2>3
<1> QED
  BY <1>6, <1>7

-----------------------------------------------------------------------------
(* The body *)

\* The chunks before the k-th are together, and the parser is at that one.
InChunk(a, e, pos, s, b, k) ==
    LET c == a.chunks[k] IN
    /\ e.length = c.at /\ e.chunkEnd = e.body + c.at /\ e.chunkEnd <= b + c.size
    /\ \A j \in 1 .. c.at : s[e.body + j] = a.body[j]
    /\ \/ /\ e.step = "CHUNKED_SIZE" /\ pos \in b + c.size .. b + c.data - 1
          /\ e.chunkLen = Number(0, Piece(a.text, c.size, pos - b - c.size))
          /\ Carries(a, s, b, pos)
       \/ /\ e.step = "CHUNKED_DATA" /\ e.chunk = b + c.data /\ e.chunk <= pos
          /\ k < Len(a.chunks)
          /\ e.chunkLen = c.length /\ Carries(a, s, b, e.chunk)

\* The parser is in the body.
InBody(a, e, pos, s, b) ==
    /\ e.astray = FALSE /\ e.reforming = FALSE /\ e.status = a.status /\ e.body = b + a.head
    /\ \/ /\ e.step = "BODY" /\ ~a.chunked /\ e.chunked = FALSE
          /\ e.length = Len(a.body) /\ Carries(a, s, b, 0)
       \/ a.chunked /\ \E k \in 1 .. Len(a.chunks) : InChunk(a, e, pos, s, b, k)

\* What is kept for the next answer.
Kept == ResetHttpEnv(env).buf \o wire

\* The status and the body are those of the answer.
Right(a) ==
    env'.status = a.status /\ SubSeq(env'.buf, env'.body + 1, env'.body + env'.length) = a.body

\* The parser is done with an answer.
Ended(a) ==
    /\ http' = "done" /\ Quiet(Kept') /\ (env'.astray => env.astray)
    /\ ~env'.astray => Right(a)
    /\ Blank(Kept', Len(Kept')) \/ env'.astray \/ a.chunked

\* What is kept is the rest of the stream, but for its first character.
LEMMA DoneKept ==
    ASSUME EnvOK(env), wire \in Seq(Characters), wire' = wire, NEW e, EnvOK(e), e.buf = env.buf,
           NEW p \in Nat, p <= Fill, NEW keeps \in BOOLEAN, Done(e, p, keeps),
           \A k \in 1 .. Len(Stream) - 1 : k > p /\ Stream[k] = "H" => Stream[k + 1] # "sp"
    PROVE  Quiet(Kept') /\ (p = Len(Stream) => Len(Kept') = 0)
<1> DEFINE t == IF p < Fill THEN [e.buf EXCEPT ![p + 1] = "nul"] ELSE e.buf
           r == keeps /\ p < Fill
           S == Stream
<1>1. env' = [e EXCEPT !.step = "DONE", !.process = p, !.reforming = r, !.buf = t]
  BY DEF Done
<1>2. /\ env.buf \in Seq(Characters) /\ Fill = Len(env.buf) /\ Fill \in Nat
      /\ Has(S) /\ Len(S) = Fill + Len(wire) /\ Len(wire) \in Nat
      /\ \A k \in 1 .. Len(wire) : S[Fill + k] = wire[k]
  BY EnvTypes, StreamOK
<1>3. /\ t \in Seq(Characters) /\ Len(t) = Fill
      /\ \A k \in 1 .. Fill : k # p + 1 => t[k] = S[k]
      /\ p < Fill => t[p + 1] = "nul"
  <2>1. "nul" \in Characters
    BY DEF Characters
  <2>2. \A k \in 1 .. Fill : env.buf[k] = S[k]
    BY <1>2 DEF Has
  <2> HIDE DEF S
  <2> QED
    BY <1>2, <2>1, <2>2
<1> HIDE DEF t, r, S
<1>4. env'.process = p /\ env'.reforming = r /\ env'.buf = t
  BY <1>1 DEF EnvOK, EnvType
<1>5. CASE keeps /\ p < Fill
  <2>1. ResetHttpEnv(env').buf = SubSeq(t, p + 1, Fill)
    BY <1>3, <1>4, <1>5 DEF ResetHttpEnv, FreshEnv, r
  <2> DEFINE u == SubSeq(t, p + 1, Fill)
  <2>2. /\ u \in Seq(Characters) /\ Len(u) = Fill - p
        /\ \A k \in 1 .. Fill - p : u[k] = t[p + k]
    <3>1. \A k \in p + 1 .. Fill : t[k] \in Characters
      BY <1>2, <1>3
    <3>2. p + 1 \in Int /\ Fill \in Int /\ p + 1 <= Fill
      BY <1>2, <1>5
    <3>3. /\ u \in Seq(Characters)
          /\ Len(u) = (IF p + 1 <= Fill THEN Fill - (p + 1) + 1 ELSE 0)
          /\ \A k \in 1 .. Fill - (p + 1) + 1 : u[k] = t[p + 1 + k - 1]
      BY <3>1, <3>2, SubSeqProperties
    <3>4. Fill - (p + 1) + 1 = Fill - p /\ \A k \in 1 .. Fill - p : p + 1 + k - 1 = p + k
      BY <1>2
    <3> QED
      BY <3>2, <3>3, <3>4
  <2> HIDE DEF u
  <2> DEFINE w == u \o wire
  <2>3. Kept' = w
    BY <2>1 DEF Kept, u
  <2>4. /\ w \in Seq(Characters) /\ Len(w) = Fill - p + Len(wire)
        /\ \A k \in 1 .. Fill - p + Len(wire) : w[k] = IF k <= Fill - p THEN u[k] ELSE wire[k - (Fill - p)]
    <3>1. /\ w \in Seq(Characters) /\ Len(w) = Len(u) + Len(wire)
          /\ \A k \in 1 .. Len(u) + Len(wire) : w[k] = IF k <= Len(u) THEN u[k] ELSE wire[k - Len(u)]
      <4>1. u \in Seq(Characters)
        BY <2>2
      <4> QED
        BY <4>1, ConcatProperties
    <3> HIDE DEF w
    <3> QED
      BY <2>2, <3>1
  <2> HIDE DEF w
  <2>5. Len(w) = Len(S) - p /\ Len(w) \in Nat
    BY <1>2, <1>5, <2>4
  <2>6. ASSUME NEW k \in 2 .. Len(w) PROVE w[k] = S[p + k]
    <3>1. CASE k <= Fill - p
      <4>1. k \in 1 .. Fill - p + Len(wire) /\ k \in 1 .. Fill - p /\ p + k \in 1 .. Fill /\ p + k # p + 1
        BY <1>2, <1>5, <2>4, <2>6, <3>1
      <4>2. w[k] = t[p + k]
        BY <2>2, <2>4, <3>1, <4>1
      <4> QED
        BY <1>3, <4>1, <4>2
    <3>2. CASE ~(k <= Fill - p)
      <4> DEFINE j == k - (Fill - p)
      <4>1. k \in 1 .. Fill - p + Len(wire) /\ j \in 1 .. Len(wire) /\ Fill + j = p + k
        BY <1>2, <1>5, <2>4, <2>6, <3>2
      <4>2. w[k] = wire[j]
        BY <2>4, <3>2, <4>1
      <4> HIDE DEF j
      <4>3. wire[j] = S[Fill + j]
        BY <1>2, <4>1
      <4> QED
        BY <4>1, <4>2, <4>3
    <3> QED
      BY <3>1, <3>2
  <2>7. w[1] = "nul"
    <3>1. 1 \in 1 .. Fill - p /\ 1 \in 1 .. Fill - p + Len(wire) /\ 1 <= Fill - p
      BY <1>2, <1>5
    <3>2. w[1] = t[p + 1]
      BY <2>2, <2>4, <3>1
    <3> QED
      BY <1>3, <1>5, <3>2
  <2>8. ASSUME NEW k \in 1 .. Len(w) - 1, w[k] = "H" PROVE w[k + 1] # "sp"
    <3>1. k \in 2 .. Len(w) /\ k + 1 \in 2 .. Len(w)
      BY <2>5, <2>7, <2>8
    <3>2. w[k] = S[p + k] /\ w[k + 1] = S[p + (k + 1)]
      BY <2>6, <3>1
    <3> DEFINE j == p + k
    <3>3. j \in 1 .. Len(S) - 1 /\ j > p /\ p + (k + 1) = j + 1
      BY <1>2, <2>5, <3>1
    <3> HIDE DEF j
    <3>4. S[j] = "H"
      BY <2>8, <3>2 DEF j
    <3>5. S[j + 1] # "sp"
      BY <3>3, <3>4 DEF S
    <3> QED
      BY <3>2, <3>3, <3>5
  <2>9. p # Len(S)
    BY <1>2, <1>5
  <2> QED
    BY <2>3, <2>8, <2>9 DEF Quiet, S
<1>6. CASE ~(keeps /\ p < Fill)
  <2>1. ResetHttpEnv(env').buf = <<>>
    BY <1>4, <1>6 DEF ResetHttpEnv, FreshEnv, r
  <2>2. Kept' = wire
    <3>1. Kept' = <<>> \o wire
      BY <2>1 DEF Kept
    <3> QED
      BY <3>1, ConcatEmptySeq
  <2>3. ASSUME NEW k \in 1 .. Len(wire) - 1, wire[k] = "H" PROVE wire[k + 1] # "sp"
    <3> DEFINE j == Fill + k
    <3>1. k \in 1 .. Len(wire) /\ k + 1 \in 1 .. Len(wire) /\ j \in 1 .. Len(S) - 1 /\ j > p
      BY <1>2, <2>3
    <3>2. S[Fill + k] = wire[k] /\ S[Fill + (k + 1)] = wire[k + 1]
      BY <1>2, <3>1
    <3>3. Fill + (k + 1) = j + 1
      <4>1. Fill \in Int /\ k \in Int
        BY <1>2, <3>1
      <4> QED
        BY <4>1
    <3> HIDE DEF j
    <3>4. S[j] = "H"
      BY <2>3, <3>2 DEF j
    <3>5. S[j + 1] # "sp"
      BY <3>1, <3>4 DEF S
    <3> QED
      BY <3>2, <3>3, <3>5
  <2>4. p = Len(S) => Len(wire) = 0
    BY <1>2
  <2> QED
    BY <2>2, <2>3, <2>4 DEF Quiet, S
<1> QED
  BY <1>5, <1>6

-----------------------------------------------------------------------------
(* The steps among the headers *)

\* The parser went on in the headers, or to the body.
WentOn(a, b) ==
    /\ http' \in {"parse", "recv"} /\ env'.buf = env.buf /\ env'.astray = FALSE
    /\ http' = "recv" => env'.process > 0
    /\ InHeaders(a, env', Place', b) \/ InBody(a, env', Place', Stream, b)

\* It went back to a place before the empty line.
WentBack(b) ==
    /\ http' = "recv" /\ env'.buf = env.buf /\ SplitsEnd(env.buf)
    /\ env'.astray = TRUE /\ env'.reforming = FALSE /\ env'.step = "HEADER_NAME0"
    /\ b < Fill

\* What a step among the headers comes to.
HeaderOutcome(a, b) == WentOn(a, b) \/ WentBack(b) \/ Ended(a)

\* What SplitsEnd looks for.
LEMMA SplitsEndIs ==
    ASSUME NEW u \in Seq(Characters)
    PROVE  SplitsEnd(u) <=> Len(u) > 1 /\ u[Len(u) - 1] = "lf" /\ u[Len(u)] = "cr"
<1> DEFINE n == Len(u)
           m == n - 1
           t == SubSeq(u, m, n)
<1>1. n \in Nat
  OBVIOUS
<1>2. CASE n > 1
  <2>1. m \in Int /\ n \in Int /\ m <= n /\ n - m + 1 = 2 /\ \A k \in m .. n : u[k] \in Characters
    BY <1>1, <1>2
  <2>2. m + 1 - 1 = m /\ m + 2 - 1 = n
    BY <1>1
  <2> HIDE DEF m, n
  <2>3. /\ t \in Seq(Characters) /\ Len(t) = (IF m <= n THEN n - m + 1 ELSE 0)
        /\ \A k \in 1 .. n - m + 1 : t[k] = u[m + k - 1]
    BY <2>1, SubSeqProperties
  <2>4. Len(t) = 2 /\ \A k \in 1 .. 2 : t[k] = u[m + k - 1]
    BY <2>1, <2>3
  <2> HIDE DEF t
  <2>5. t[1] = u[m] /\ t[2] = u[n]
    BY <2>2, <2>4
  <2>6. t = <<"lf", "cr">> <=> u[m] = "lf" /\ u[n] = "cr"
    BY <2>3, <2>4, <2>5
  <2> QED
    BY <1>2, <2>6 DEF SplitsEnd, t, m, n
<1>3. CASE ~(n > 1)
  BY <1>3 DEF SplitsEnd
<1> QED
  BY <1>2, <1>3

\* What is left when the parser is done.
LEMMA DoneFields ==
    ASSUME EnvOK(env), NEW e, EnvOK(e), e.buf = env.buf,
           NEW p \in Nat, p <= Fill, NEW keeps \in BOOLEAN, Done(e, p, keeps)
    PROVE  /\ http' = "done" /\ env'.astray = e.astray /\ env'.status = e.status
           /\ env'.body = e.body /\ env'.length = e.length
           /\ env'.buf \in Seq(Characters) /\ Len(env'.buf) = Fill
           /\ \A k \in 1 .. Fill : k # p + 1 => env'.buf[k] = env.buf[k]
<1> DEFINE t == IF p < Fill THEN [e.buf EXCEPT ![p + 1] = "nul"] ELSE e.buf
           r == keeps /\ p < Fill
<1>1. env' = [e EXCEPT !.step = "DONE", !.process = p, !.reforming = r, !.buf = t] /\ http' = "done"
  BY DEF Done
<1>2. /\ t \in Seq(Characters) /\ Len(t) = Fill
      /\ \A k \in 1 .. Fill : k # p + 1 => t[k] = env.buf[k]
  <2>1. "nul" \in Characters
    BY DEF Characters
  <2>2. env.buf \in Seq(Characters) /\ Fill = Len(env.buf) /\ Fill \in Nat
    BY EnvTypes
  <2> QED
    BY <2>1, <2>2
<1> HIDE DEF t, r
<1>3. /\ env'.buf = t /\ env'.astray = e.astray /\ env'.status = e.status
      /\ env'.body = e.body /\ env'.length = e.length
  BY <1>1 DEF EnvOK, EnvType
<1> QED
  BY <1>1, <1>2, <1>3

\* The body is that of the answer when its characters are.
LEMMA BodyIs ==
    ASSUME NEW t \in Seq(Characters), NEW a \in Answers, NEW i \in Nat,
           i + Len(a.body) <= Len(t), \A j \in 1 .. Len(a.body) : t[i + j] = a.body[j]
    PROVE  SubSeq(t, i + 1, i + Len(a.body)) = a.body
<1> DEFINE n == Len(a.body)
<1>0. n \in Nat /\ i + n <= Len(t) /\ \A j \in 1 .. n : t[i + j] = a.body[j]
  BY AnswerShape
<1> HIDE DEF n
<1>1. /\ Piece(t, i, n) \in Seq(Characters) /\ Len(Piece(t, i, n)) = n
      /\ \A k \in 1 .. n : Piece(t, i, n)[k] = t[i + k]
  BY <1>0, PieceOK
<1> DEFINE C == {a.body[j] : j \in DOMAIN a.body}
           U == Characters \cup C
           x == Piece(t, i, n)
           y == a.body
<1>2. y \in Seq(C)
  BY AnswerAssumption DEF IsText
<1> HIDE DEF C, y, x
<1>3. y \in Seq(U) /\ x \in Seq(U)
  BY <1>1, <1>2 DEF x
<1>4. Len(x) = Len(y) /\ \A k \in 1 .. Len(x) : x[k] = y[k]
  BY <1>0, <1>1 DEF x, y, n
<1> HIDE DEF U
<1>5. x = y
  BY <1>3, <1>4, SeqEqual
<1> QED
  BY <1>5 DEF x, y, n, Piece

\* What there is to know of a chunk.
LEMMA ChunkShape ==
    ASSUME NEW a \in Answers, a.chunked, NEW k \in 1 .. Len(a.chunks)
    PROVE  /\ a.chunks[k].size \in Nat /\ a.chunks[k].data \in Nat
           /\ a.chunks[k].length \in Nat /\ a.chunks[k].at \in Nat
           /\ Len(a.chunks) \in Nat /\ a.chunks # <<>> /\ ChunkOK(a, k)
           /\ a.chunks[1].size = a.head /\ a.chunks[1].at = 0
<1> DEFINE S == [size : Nat, data : Nat, length : Nat, at : Nat]
           x == a.chunks
<1>1. x \in Seq(S) /\ Chunks(a)
  BY AnswerShape
<1>2. k \in DOMAIN x
  <2> HIDE DEF S
  <2> QED
    BY <1>1
<1>3. x[k] \in S
  <2> HIDE DEF S
  <2> QED
    BY <1>1, <1>2
<1>4. Len(x) \in Nat
  <2> HIDE DEF S
  <2> QED
    BY <1>1
<1>5. ChunkOK(a, k) /\ a.chunks # <<>> /\ a.chunks[1].size = a.head /\ a.chunks[1].at = 0
  BY <1>1, <1>2, Zenon DEF Chunks
<1>6. x[k].size \in Nat /\ x[k].data \in Nat /\ x[k].length \in Nat /\ x[k].at \in Nat
  <2> HIDE DEF x
  <2> QED
    BY <1>3
<1> QED
  BY <1>4, <1>5, <1>6

\* Behind the headers the parser goes to the body, or is done.
LEMMA HeadersEndStep ==
    ASSUME EnvOK(env), wire \in Seq(Characters), wire' = wire, NEW a \in Answers, NEW b \in Nat,
           Carries(a, Stream, b, 0),
           env.astray = FALSE, env.reforming = FALSE, env.chunkLen = 0, env.status = a.status,
           env.length = Size(a), env.chunked = a.chunked,
           NEW p \in Nat, p = b + a.head, p <= Fill, HeadersEnd(p)
    PROVE  WentOn(a, b) \/ Ended(a)
<1>1. /\ env.length \in Nat /\ a.chunked \in BOOLEAN /\ a.head \in Nat /\ Len(a.body) \in Nat
      /\ Fill \in Nat /\ Fill = Len(env.buf)
  BY EnvTypes, AnswerText, AnswerShape
<1>2. Has(Stream) /\ Len(Stream) = Fill + Len(wire) /\ Len(wire) \in Nat
  BY StreamOK
<1> DEFINE f == [env EXCEPT !.body = p]
           g == [env EXCEPT !.body = p, !.chunkEnd = p]
<1>6. \/ env.length > 0 /\ Goto(f, "BODY", p)
      \/ env.length = 0 /\ env.chunked /\ Goto(g, "CHUNKED_SIZE", p)
      \/ env.length = 0 /\ ~env.chunked /\ Done(env, p, FALSE)
  <2>1. env.length > 0 \/ (env.length = 0 /\ ~(env.length > 0))
    BY <1>1
  <2> QED
    BY <2>1, Zenon DEF HeadersEnd
<1>3. CASE env.length > 0 /\ Goto(f, "BODY", p)
  <2> DEFINE e == [env EXCEPT !.body = p]
  <2>1. ~a.chunked /\ env.length = Len(a.body)
    BY <1>1, <1>3 DEF Size
  <2>2. EnvOK(e) /\ e.body = p /\ e.buf = env.buf /\ e.astray = FALSE /\ e.reforming = FALSE
        /\ e.status = a.status /\ e.length = env.length /\ e.chunked = FALSE
    BY <1>1, <2>1 DEF EnvOK, EnvType
  <2>3. Goto(e, "BODY", p)
    BY <1>3
  <2> HIDE DEF e
  <2>4. /\ http' = "parse" /\ Place' = p /\ Same(e, env')
        /\ env'.step = "BODY" /\ env'.process = e.process
    BY <2>2, <2>3, GotoFields
  <2>5. InBody(a, env', Place', Stream, b)
    BY <2>1, <2>2, <2>4 DEF InBody, Same
  <2> QED
    BY <2>2, <2>4, <2>5 DEF WentOn, Same
<1>4. CASE env.length = 0 /\ env.chunked /\ Goto(g, "CHUNKED_SIZE", p)
  <2> DEFINE e == [env EXCEPT !.body = p, !.chunkEnd = p]
  <2>1. a.chunked
    BY <1>4
  <2>2. EnvOK(e) /\ e.body = p /\ e.chunkEnd = p /\ e.buf = env.buf /\ e.astray = FALSE /\ e.reforming = FALSE
        /\ e.status = a.status /\ e.length = 0 /\ e.chunkLen = 0
    BY <1>1, <1>4 DEF EnvOK, EnvType
  <2>3. Goto(e, "CHUNKED_SIZE", p)
    BY <1>4
  <2> HIDE DEF e
  <2>4. /\ http' = "parse" /\ Place' = p /\ Same(e, env')
        /\ env'.step = "CHUNKED_SIZE" /\ env'.process = e.process
    BY <2>2, <2>3, GotoFields
  <2> DEFINE c == a.chunks[1]
  <2>5. /\ 1 \in 1 .. Len(a.chunks) /\ c.size \in Nat /\ c.data \in Nat
        /\ c.size = a.head /\ c.at = 0 /\ c.size < c.data
    <3> DEFINE S == [size : Nat, data : Nat, length : Nat, at : Nat]
    <3>1. a.chunks # <<>> /\ a.chunks \in Seq(S)
      BY <2>1, AnswerShape DEF Chunks
    <3>2. 1 \in 1 .. Len(a.chunks)
      <4> HIDE DEF S
      <4> QED
        BY <3>1
    <3> QED
      BY <2>1, <3>2, ChunkShape DEF ChunkOK
  <2> HIDE DEF c
  <2>6. Number(0, Piece(a.text, c.size, 0)) = 0
    <3>1. a.text \in Seq(Characters) /\ a.head <= Len(a.text)
      BY AnswerText, AnswerShape
    <3>2. Len(Piece(a.text, c.size, 0)) = 0
      BY <1>1, <2>5, <3>1, PieceOK
    <3> DEFINE x == Piece(a.text, c.size, 0)
    <3> HIDE DEF x
    <3>3. PICK h : Number(0, x) = h[Len(x)] /\ (Len(x) \in Nat => Reads(h, 0, x, Len(x)))
      BY NumberReads
    <3>4. Len(x) = 0 /\ 0 \in 0 .. 0
      BY <3>2 DEF x
    <3>5. h[0] = 0
      BY <3>3, <3>4 DEF Reads
    <3> QED
      BY <3>3, <3>4, <3>5 DEF x
  <2>7. InChunk(a, env', p, Stream, b, 1)
    <3>1. env'.length = c.at /\ env'.chunkEnd = env'.body + c.at /\ env'.chunkEnd <= b + c.size
      BY <1>1, <2>2, <2>4, <2>5 DEF Same
    <3>2. \A j \in 1 .. c.at : Stream[env'.body + j] = a.body[j]
      BY <2>5
    <3>3. p \in b + c.size .. b + c.data - 1 /\ p - b - c.size = 0
      BY <1>1, <2>5
    <3>4. Carries(a, Stream, b, p)
      BY <1>1 DEF Carries
    <3>5. env'.chunkLen = Number(0, Piece(a.text, c.size, p - b - c.size))
      BY <2>2, <2>4, <2>6, <3>3 DEF Same
    <3> QED
      BY <2>4, <3>1, <3>2, <3>3, <3>4, <3>5 DEF InChunk, c
  <2>8. InBody(a, env', Place', Stream, b)
    BY <2>1, <2>2, <2>4, <2>5, <2>7 DEF InBody, Same
  <2> QED
    BY <2>2, <2>4, <2>8 DEF WentOn, Same
<1>5. CASE env.length = 0 /\ ~env.chunked /\ Done(env, p, FALSE)
  <2>1. Done(env, p, FALSE)
    BY <1>5
  <2>2. /\ http' = "done" /\ env'.astray = env.astray /\ env'.status = env.status
        /\ env'.body = env.body /\ env'.length = env.length
        /\ env'.buf \in Seq(Characters) /\ Len(env'.buf) = Fill
    BY <2>1, DoneFields
  <2>3. Len(a.body) = 0 /\ Len(a.text) = a.head + Len(a.body)
    BY <1>5, AnswerShape DEF Size, Framed
  <2>4. p = Len(Stream)
    BY <1>1, <1>2, <2>3 DEF Carries
  <2>5. Quiet(Kept') /\ Len(Kept') = 0
    <3>1. \A k \in 1 .. Len(Stream) - 1 : k > p /\ Stream[k] = "H" => Stream[k + 1] # "sp"
      BY <1>1, <1>2, <2>4
    <3> QED
      BY <2>1, <2>4, <3>1, DoneKept
  <2>6. Right(a)
    <3>1. SubSeq(env'.buf, env'.body + 1, env'.body + env'.length) = <<>>
      <4>1. env'.length = 0 /\ env'.body \in Nat
        BY <1>5, <2>2, EnvTypes
      <4> DEFINE i == env'.body + 1
                 j == env'.body + env'.length
      <4>2. i \in Int /\ j \in Int /\ ~(i <= j) /\ i > j
        BY <4>1
      <4> HIDE DEF i, j
      <4>3. SubSeq(env'.buf, i, j) = <<>>
        BY <2>2, <4>2, SubSeqEmpty
      <4> QED
        BY <4>3 DEF i, j
    <3>2. a.body = <<>>
      <4>1. a.body \in Seq({a.body[k] : k \in DOMAIN a.body})
        BY AnswerAssumption DEF IsText
      <4> QED
        BY <2>3, <4>1, EmptySeq
    <3> QED
      BY <2>2, <3>1, <3>2 DEF Right
  <2>7. Blank(Kept', Len(Kept'))
    BY <2>5 DEF Blank
  <2> QED
    BY <2>2, <2>5, <2>6, <2>7 DEF Ended
<1> QED
  BY <1>3, <1>4, <1>5, <1>6

\* A step that waits at p, in a header.
LEMMA HeaderWaits ==
    ASSUME EnvOK(env), NEW a \in Answers, NEW b \in Nat, NEW e, EnvOK(e), e.buf = env.buf,
           e.astray = FALSE, NEW p \in Nat, p > 0, NeedMore(e, p),
           \A f : Same(e, f) /\ f.step = e.step /\ f.process = p => InHeaders(a, f, p, b)
    PROVE  HeaderOutcome(a, b)
<1>1. /\ http' = "recv" /\ Place' = p /\ Same(e, env')
      /\ env'.step = e.step /\ env'.process = p
  BY MoreFields
<1>2. InHeaders(a, env', p, b)
  BY <1>1
<1>3. InHeaders(a, env', Place', b)
  BY <1>1, <1>2
<1> QED
  BY <1>1, <1>3 DEF HeaderOutcome, WentOn, Same

\* A step that goes on at p, in a header.
LEMMA HeaderGoes ==
    ASSUME EnvOK(env), NEW a \in Answers, NEW b \in Nat, NEW e, EnvOK(e), e.buf = env.buf,
           e.astray = FALSE, NEW p \in Nat, NEW step, Goto(e, step, p),
           \A f : Same(e, f) /\ f.step = step /\ f.process = e.process => InHeaders(a, f, p, b)
    PROVE  HeaderOutcome(a, b)
<1>1. /\ http' = "parse" /\ Place' = p /\ Same(e, env')
      /\ env'.step = step /\ env'.process = e.process
  BY GotoFields
<1>2. InHeaders(a, env', p, b)
  BY <1>1
<1>3. InHeaders(a, env', Place', b)
  BY <1>1, <1>2
<1> QED
  BY <1>1, <1>3 DEF HeaderOutcome, WentOn, Same

\* HEADER_NAME0: another header, the empty line, or its CR alone.
LEMMA HeaderName0Step ==
    ASSUME EnvOK(env), wire \in Seq(Characters), wire' = wire, NEW a \in Answers, NEW b \in Nat,
           Carries(a, Stream, b, 0), InHeaders(a, env, env.p, b), env.step = "HEADER_NAME0",
           ParseHeaderName0
    PROVE  HeaderOutcome(a, b)
<1> DEFINE p == Skip(env.p)
           i == env.p - b
<1>1. /\ env.p \in Nat /\ env.p <= Fill /\ Fill \in Nat /\ Fill = Len(env.buf) /\ env.process \in Nat
      /\ env.buf \in Seq(Characters) /\ env.length \in Nat
  BY EnvTypes
<1>2. /\ env.astray = FALSE /\ env.reforming = FALSE /\ env.chunkLen = 0 /\ env.status = a.status
      /\ env.process <= env.p /\ env.p > b /\ LineAt(a, i) /\ Seen(a, env, i)
  BY DEF InHeaders, InHeader
<1>3. /\ a.head \in Nat /\ i \in Nat /\ i >= 1 /\ i \in 1 .. a.head /\ i <= a.head - 1 /\ env.p = b + i
      /\ a.text[i] = "lf"
  BY <1>1, <1>2, AnswerShape, SMTT(30) DEF LineAt
<1>4. LineOK(a, i)
  BY <1>2, <1>3, AnswerShape
<1>5. Has(Stream) /\ Len(Stream) = Fill + Len(wire) /\ Len(wire) \in Nat
  BY StreamOK
<1> HIDE DEF i
<1>6. a.text[i + 1] # "sp"
  <2>1. CASE EmptyLine(a, i)
    BY <2>1 DEF EmptyLine
  <2>2. ASSUME NEW c \in 1 .. a.head, NEW v \in 1 .. a.head, NEW e \in 1 .. a.head, Header(a, i, c, v, e)
        PROVE  a.text[i + 1] # "sp"
    <3>1. c \in Nat /\ v \in Nat /\ e \in Nat
      BY <1>3
    <3> QED
      BY <1>3, <2>2, <3>1, HeaderLine
  <2> QED
    BY <1>4, <2>1, <2>2 DEF LineOK
<1>7. /\ p \in Nat
      /\ \/ p = b + i /\ b + i < Fill /\ At(b + i) = a.text[i + 1]
         \/ p = Fill /\ Fill <= b + i
  <2> DEFINE q == env.p
  <2>1. /\ q \in Nat /\ q <= Fill /\ b <= q /\ 0 <= q /\ q <= b + i /\ 0 \in Nat
        /\ \A k \in q - b + 1 .. i : a.text[k] = "sp"
    BY <1>1, <1>3
  <2> HIDE DEF q
  <2>2. /\ Skip(q) \in Nat
        /\ \/ Skip(q) = b + i /\ b + i < Fill /\ At(b + i) = a.text[i + 1]
           \/ Skip(q) = Fill /\ Fill <= b + i
    BY <1>3, <1>5, <1>6, <2>1, SkipsThere
  <2> QED
    BY <2>2 DEF q
<1> DEFINE back == [env EXCEPT !.astray = @ \/ env.process < p]
           named == [env EXCEPT !.name = p]
<1>8. \/ p = Fill /\ NeedMore(env, p)
      \/ p < Fill /\ At(p) = "cr" /\ p + 1 = Fill /\ NeedMore(back, env.process)
      \/ p + 1 < Fill /\ At(p) = "cr" /\ At(p + 1) = "lf" /\ HeadersEnd(p + 2)
      \/ p + 1 < Fill /\ At(p) = "cr" /\ At(p + 1) # "lf"
      \/ p < Fill /\ At(p) = "lf" /\ HeadersEnd(p + 1)
      \/ p < Fill /\ At(p) # "cr" /\ At(p) # "lf" /\ Goto(named, "HEADER_NAME", p + 1)
  <2>1. p = Fill \/ (p < Fill /\ p + 1 = Fill) \/ (p < Fill /\ p + 1 < Fill)
    BY <1>1, <1>7
  <2> HIDE DEF p
  <2> DEFINE A == NeedMore(env, p)
             B == NeedMore(back, env.process)
             C == HeadersEnd(p + 2)
             D == HeadersEnd(p + 1)
             E == Goto(named, "HEADER_NAME", p + 1)
  <2>2. (CASE p = Fill -> A
          [] p < Fill /\ At(p) = "cr" /\ p + 1 = Fill -> B
          [] p + 1 < Fill /\ At(p) = "cr" /\ At(p + 1) = "lf" -> C
          [] p + 1 < Fill /\ At(p) = "cr" /\ At(p + 1) # "lf" -> D
          [] p < Fill /\ At(p) = "lf" -> D
          [] OTHER -> E)
    BY DEF ParseHeaderName0, p
  <2> HIDE DEF A, B, C, D, E
  <2>3. \/ p = Fill /\ A
        \/ p < Fill /\ At(p) = "cr" /\ p + 1 = Fill /\ B
        \/ p + 1 < Fill /\ At(p) = "cr" /\ At(p + 1) = "lf" /\ C
        \/ p + 1 < Fill /\ At(p) = "cr" /\ At(p + 1) # "lf"
        \/ p < Fill /\ At(p) = "lf" /\ D
        \/ p < Fill /\ At(p) # "cr" /\ At(p) # "lf" /\ E
    BY <1>1, <1>7, <2>1, <2>2
  <2> QED
    BY <2>3 DEF A, B, C, D, E
<1> HIDE DEF p, back, named
<1>9. CASE p = Fill /\ NeedMore(env, p)
  <2>1. p = b + i /\ p > 0
    BY <1>1, <1>3, <1>7, <1>9
  <2>2. ASSUME NEW f, Same(env, f), f.step = env.step, f.process = p
        PROVE  InHeaders(a, f, p, b)
    <3>1. p > b /\ p - b = i
      BY <1>1, <1>2, <1>3, <2>1
    <3>2. LineAt(a, p - b) /\ Seen(a, f, p - b)
      BY <1>2, <2>2, <3>1 DEF Seen, Same, i
    <3> QED
      BY <1>2, <1>7, <2>2, <3>1, <3>2 DEF InHeaders, Same
  <2> QED
    BY <1>2, <1>7, <1>9, <2>1, <2>2, HeaderWaits
<1>10. ASSUME p < Fill
       PROVE  p = b + i /\ p \in Nat /\ p = env.p /\ At(p) = a.text[i + 1]
  BY <1>1, <1>3, <1>7, <1>10, SMTT(30)
<1>11. CASE p < Fill /\ At(p) # "cr" /\ At(p) # "lf" /\ Goto(named, "HEADER_NAME", p + 1)
  <2>1. ~EmptyLine(a, i)
    BY <1>10, <1>11 DEF EmptyLine
  <2>2. PICK c \in 1 .. a.head, v \in 1 .. a.head, e \in 1 .. a.head : Header(a, i, c, v, e)
    BY <1>4, <2>1, Zenon DEF LineOK
  <2>3. EnvOK(named) /\ named.buf = env.buf /\ named.astray = FALSE /\ named.name = p /\ named.process = env.process
        /\ named.reforming = FALSE /\ named.chunkLen = 0 /\ named.status = a.status
        /\ named.length = env.length /\ named.chunked = env.chunked
    BY <1>2, <1>7 DEF EnvOK, EnvType, named
  <2> DEFINE r == p + 1
  <2>4. r \in Nat /\ r \in b + i + 1 .. b + c /\ env.process <= r /\ p = b + i
    <3>1. i < c /\ c \in Nat
      BY <1>3, <2>2 DEF Header
    <3> QED
      BY <1>1, <1>2, <1>3, <1>10, <1>11, <3>1, SMTT(30)
  <2>5. Goto(named, "HEADER_NAME", r)
    BY <1>11
  <2> HIDE DEF r
  <2>6. ASSUME NEW f, Same(named, f), f.step = "HEADER_NAME", f.process = named.process
        PROVE  InHeaders(a, f, r, b)
    <3>1. Seen(a, f, i) /\ LineAt(a, i) /\ f.name = b + i
      BY <1>2, <2>3, <2>4, <2>6 DEF Seen, Same, i
    <3>2. InHeader(a, f, r, b, i)
      BY <2>2, <2>4, <2>6, <3>1 DEF InHeader
    <3> QED
      BY <1>3, <2>3, <2>4, <2>6, <3>2 DEF InHeaders, Same
  <2> QED
    BY <2>3, <2>4, <2>5, <2>6, HeaderGoes
<1>12. ASSUME p < Fill, At(p) = "cr" \/ At(p) = "lf"
       PROVE  /\ env.length = Size(a) /\ env.chunked = a.chunked
              /\ \/ At(p) = "lf" /\ a.head = i + 1
                 \/ At(p) = "cr" /\ a.text[i + 2] = "lf" /\ a.head = i + 2
  <2>1. EmptyLine(a, i)
    <3>1. ASSUME NEW c \in 1 .. a.head, NEW v \in 1 .. a.head, NEW e \in 1 .. a.head, Header(a, i, c, v, e)
          PROVE  FALSE
      <4>1. c \in Nat /\ v \in Nat /\ e \in Nat
        BY <1>3
      <4> QED
        BY <1>3, <1>10, <1>12, <3>1, <4>1, HeaderLine
    <3> QED
      BY <1>4, <3>1 DEF LineOK
  <2>2. env.chunked \in BOOLEAN
    BY DEF EnvOK, EnvType
  <2>3. env.length = Size(a) /\ env.chunked = a.chunked
    BY <1>2, <1>3, <2>1, <2>2, AllSeen DEF i
  <2> QED
    BY <1>10, <1>12, <2>1, <2>3 DEF EmptyLine
<1>13. CASE p < Fill /\ At(p) = "lf" /\ HeadersEnd(p + 1)
  <2> DEFINE r == p + 1
  <2>1. r \in Nat /\ r = b + a.head /\ r <= Fill
    <3>1. a.head = i + 1
      BY <1>12, <1>13
    <3>2. p = b + i /\ p < Fill
      BY <1>10, <1>13
    <3> QED
      BY <1>1, <1>3, <1>7, <3>1, <3>2
  <2>2. HeadersEnd(r)
    BY <1>13
  <2> HIDE DEF r
  <2>3. WentOn(a, b) \/ Ended(a)
    BY <1>2, <1>12, <1>13, <2>1, <2>2, HeadersEndStep
  <2> QED
    BY <2>3 DEF HeaderOutcome
<1>14. ASSUME p + 1 < Fill, At(p) = "cr"
       PROVE  At(p + 1) = "lf" /\ p + 2 = b + a.head /\ p + 2 <= Fill /\ p < Fill
  <2>1. p < Fill
    BY <1>1, <1>7, <1>14
  <2>2. a.text[i + 2] = "lf" /\ a.head = i + 2 /\ p = b + i
    BY <1>10, <1>12, <1>14, <2>1
  <2> DEFINE k == p + 1
  <2>3. k \in Nat /\ k < Fill /\ k >= b /\ k >= 0 /\ k - b + 1 = i + 2 /\ 0 \in Nat
    BY <1>3, <1>7, <1>14, <2>2
  <2> HIDE DEF k
  <2>4. At(k) = a.text[k - b + 1]
    BY <1>5, <2>3, InAnswer
  <2>5. At(p + 1) = "lf"
    <3>1. a.text[k - b + 1] = "lf"
      BY <2>2, <2>3
    <3>2. At(k) = "lf"
      BY <2>4, <3>1
    <3> QED
      BY <3>2 DEF k
  <2>6. p + 2 = b + a.head /\ p + 2 <= Fill
    BY <1>1, <1>3, <1>7, <1>14, <2>2
  <2> QED
    BY <2>1, <2>5, <2>6
<1>15. CASE p + 1 < Fill /\ At(p) = "cr" /\ At(p + 1) = "lf" /\ HeadersEnd(p + 2)
  <2> DEFINE r == p + 2
  <2>1. r \in Nat /\ r = b + a.head /\ r <= Fill
    BY <1>7, <1>14, <1>15
  <2>2. HeadersEnd(r)
    BY <1>15
  <2> HIDE DEF r
  <2>3. WentOn(a, b) \/ Ended(a)
    BY <1>2, <1>12, <1>14, <1>15, <2>1, <2>2, HeadersEndStep
  <2> QED
    BY <2>3 DEF HeaderOutcome
<1>16. CASE p < Fill /\ At(p) = "cr" /\ p + 1 = Fill /\ NeedMore(back, env.process)
  <2>1. p = b + i /\ p = env.p
    BY <1>10, <1>16
  <2>2. CASE env.process < p
    <3>1. /\ EnvOK(back) /\ back.astray = TRUE /\ back.reforming = FALSE /\ back.buf = env.buf
          /\ back.step = "HEADER_NAME0"
      BY <1>2, <2>2 DEF EnvOK, EnvType, back
    <3>2. /\ http' = "recv" /\ Same(back, env') /\ env'.step = back.step
      BY <1>16, <3>1, MoreFields
    <3>3. SplitsEnd(env.buf)
      <4>1. Len(env.buf) > 1 /\ env.buf[Len(env.buf)] = "cr"
        BY <1>1, <1>3, <1>16, <2>1 DEF At
      <4>2. env.buf[Len(env.buf) - 1] = "lf"
        <5> DEFINE k == p - 1
        <5>3. p \in Nat /\ p + 1 = Fill /\ p = b + i /\ i > 0 /\ i \in Nat /\ Fill = Len(env.buf) /\ Fill \in Nat
          BY <1>1, <1>3, <1>7, <1>16, <2>1
        <5>1. k \in Nat /\ k < Fill /\ k >= b /\ k >= 0 /\ k - b + 1 = i /\ 0 \in Nat /\ k + 1 = Len(env.buf) - 1
          BY <5>3
        <5> HIDE DEF k
        <5>2. At(k) = a.text[k - b + 1]
          <6>1. k \in Nat /\ k < Fill /\ k >= b
            BY <5>1
          <6> QED
            BY <6>1, AtStream
        <5> QED
          BY <1>3, <5>1, <5>2 DEF At
      <4> QED
        BY <1>1, <4>1, <4>2, SplitsEndIs
    <3>4. b < Fill
      BY <1>1, <1>3, <1>16, <2>1
    <3> QED
      BY <3>1, <3>2, <3>3, <3>4 DEF HeaderOutcome, WentBack, Same
  <2>3. CASE ~(env.process < p)
    <3>1. env.process = p /\ p > 0 /\ p > b
      BY <1>1, <1>2, <1>3, <1>7, <2>1, <2>3
    <3>2. /\ EnvOK(back) /\ Same(env, back) /\ back.buf = env.buf /\ back.astray = FALSE
          /\ back.step = env.step
      BY <1>2, <2>3 DEF EnvOK, EnvType, back, Same
    <3>3. NeedMore(back, p)
      BY <1>16, <3>1
    <3>4. ASSUME NEW f, Same(back, f), f.step = back.step, f.process = p
          PROVE  InHeaders(a, f, p, b)
      <4>1. p - b = i
        BY <1>3, <2>1
      <4>2. LineAt(a, p - b) /\ Seen(a, f, p - b)
        BY <1>2, <3>2, <3>4, <4>1 DEF Seen, Same, i
      <4> QED
        BY <1>2, <1>7, <3>1, <3>2, <3>4, <4>2 DEF InHeaders, Same
    <3> QED
      BY <1>7, <3>1, <3>2, <3>3, <3>4, HeaderWaits
  <2> QED
    BY <2>2, <2>3
<1>17. ~(p + 1 < Fill /\ At(p) = "cr" /\ At(p + 1) # "lf")
  BY <1>14
<1> QED
  BY <1>8, <1>9, <1>11, <1>13, <1>15, <1>16, <1>17

\* HEADER_NAME
LEMMA HeaderNameStep ==
    ASSUME EnvOK(env), wire \in Seq(Characters), wire' = wire, NEW a \in Answers, NEW b \in Nat,
           Carries(a, Stream, b, 0), InHeaders(a, env, env.p, b), env.step = "HEADER_NAME",
           ParseHeaderName
    PROVE  HeaderOutcome(a, b)
<1> DEFINE p == Find(env.p, {"sp", "col", "lf"})
           q == Find(p, {"col", "lf"})
<1>1. /\ env.p \in Nat /\ env.p <= Fill /\ Fill \in Nat /\ Fill = Len(env.buf) /\ env.process \in Nat
  BY EnvTypes
<1>2. /\ env.astray = FALSE /\ env.reforming = FALSE /\ env.chunkLen = 0 /\ env.status = a.status
      /\ env.process <= env.p
  BY DEF InHeaders
<1>3. PICK i \in 1 .. a.head, colon \in 1 .. a.head, value \in 1 .. a.head, end \in 1 .. a.head :
          /\ LineAt(a, i) /\ Seen(a, env, i) /\ env.name = b + i
          /\ Header(a, i, colon, value, end) /\ env.p \in b + i + 1 .. b + colon
  BY DEF InHeaders, InHeader
<1>4. a.head \in Nat /\ i \in Nat /\ colon \in Nat /\ value \in Nat /\ end \in Nat
  BY <1>3, AnswerShape
<1>5. i < colon /\ colon < value /\ Free(a.text, i, colon, {"sp", "cr", "col", "lf"}) /\ a.text[colon + 1] = "col"
  BY <1>3 DEF Header
<1>6. Has(Stream)
  BY StreamOK
<1>7. /\ p \in Nat
      /\ \/ p = b + colon /\ b + colon < Fill /\ At(b + colon) = a.text[colon + 1]
         \/ p = Fill /\ Fill <= b + colon
  <2> DEFINE o == env.p
             chars == {"sp", "col", "lf"}
  <2>1. o \in Nat /\ o <= Fill /\ b <= o /\ 0 <= o /\ o <= b + colon /\ 0 \in Nat /\ a.text[colon + 1] \in chars
    BY <1>1, <1>3, <1>4, <1>5
  <2>2. Free(a.text, o - b, colon, chars)
    <3>1. o - b >= i + 1
      BY <1>1, <1>3, <1>4
    <3> QED
      BY <1>1, <1>4, <1>5, <3>1, SMTT(30) DEF Free
  <2> HIDE DEF o, chars
  <2>3. /\ Find(o, chars) \in Nat
        /\ \/ Find(o, chars) = b + colon /\ b + colon < Fill /\ At(b + colon) = a.text[colon + 1]
           \/ Find(o, chars) = Fill /\ Fill <= b + colon
    BY <1>4, <1>6, <2>1, <2>2, FindsThere
  <2> QED
    BY <2>3 DEF o, chars
<1>8. p < Fill => q = p /\ p = b + colon /\ At(q) = "col"
  <2>1. SUFFICES ASSUME p < Fill PROVE q = p /\ p = b + colon /\ At(q) = "col"
    OBVIOUS
  <2>2. p = b + colon /\ At(p) = "col"
    BY <1>1, <1>5, <1>7, <2>1
  <2> HIDE DEF p
  <2> DEFINE chars == {"col", "lf"}
  <2>3. p \in Nat /\ p <= Fill /\ p <= p /\ (\A k \in p .. p - 1 : k < Fill => At(k) \notin chars) /\ At(p) \in chars
    BY <1>1, <1>7, <2>1, <2>2, SMTT(30)
  <2> HIDE DEF chars
  <2>4. Find(p, chars) = p \/ (Find(p, chars) = Fill /\ Fill <= p)
    BY <2>3, FindsAt
  <2>5. q = p
    BY <1>1, <1>7, <2>1, <2>4 DEF chars
  <2> QED
    BY <2>2, <2>5
<1> DEFINE named == [env EXCEPT !.nameLen = p - env.name]
<1>9. \/ p = Fill /\ NeedMore(env, p)
      \/ p < Fill /\ Goto(named, "HEADER_VALUE0", q + 1)
  <2>1. p = Fill \/ (p < Fill /\ p # Fill /\ q < Fill /\ q # Fill /\ At(q) # "lf")
    BY <1>1, <1>7, <1>8
  <2> HIDE DEF p, q
  <2> DEFINE A == NeedMore(env, p)
             B == NeedMore(named, q)
             C == Goto(named, "HEADER_VALUE0", q + 1)
  <2>2. (CASE p = Fill -> A
           [] p < Fill /\ q = Fill -> B
           [] q < Fill /\ At(q) = "lf" -> Invalid
           [] OTHER -> C)
    BY DEF ParseHeaderName, p, q
  <2> HIDE DEF A, B, C
  <2>3. CASE p = Fill
    <3>1. ~(p < Fill) /\ ~(q < Fill)
      <4>1. q = p
        <5> DEFINE chars == {"col", "lf"}
        <5>1. Find(p, chars) \in p .. Fill
          BY <1>1, <1>7, FindOK
        <5> QED
          BY <1>1, <1>7, <2>3, <5>1 DEF q
      <4> QED
        BY <1>1, <2>3, <4>1
    <3> QED
      BY <2>2, <2>3, <3>1 DEF A
  <2>4. CASE p < Fill /\ p # Fill /\ q < Fill /\ q # Fill /\ At(q) # "lf"
    <3>1. ~(p = Fill) /\ ~(p < Fill /\ q = Fill) /\ ~(q < Fill /\ At(q) = "lf")
      BY <2>4
    <3> QED
      BY <2>2, <2>4, <3>1 DEF C
  <2> QED
    BY <2>1, <2>3, <2>4
<1> HIDE DEF p, q, named
<1>10. CASE p = Fill /\ NeedMore(env, p)
  <2>1. p \in b + i + 1 .. b + colon /\ p > 0 /\ env.process <= p
    BY <1>1, <1>2, <1>3, <1>4, <1>7, <1>10
  <2>2. ASSUME NEW f, Same(env, f), f.step = env.step, f.process = p
        PROVE  InHeaders(a, f, p, b)
    <3>1. Seen(a, f, i) /\ f.name = b + i
      BY <1>3, <2>2 DEF Seen, Same
    <3>2. InHeader(a, f, p, b, i)
      BY <1>3, <2>1, <2>2, <3>1 DEF InHeader
    <3> QED
      BY <1>2, <1>3, <1>7, <2>2, <3>2 DEF InHeaders, Same
  <2> QED
    BY <1>2, <1>7, <1>10, <2>1, <2>2, HeaderWaits
<1>11. CASE p < Fill /\ Goto(named, "HEADER_VALUE0", q + 1)
  <2>1. p = b + colon /\ q = p /\ p - env.name = colon - i /\ p - env.name \in Int
    BY <1>3, <1>4, <1>8, <1>11
  <2>2. /\ EnvOK(named) /\ named.buf = env.buf /\ named.astray = FALSE /\ named.nameLen = colon - i
        /\ named.name = env.name /\ named.process = env.process
        /\ named.reforming = FALSE /\ named.chunkLen = 0 /\ named.status = a.status
        /\ named.length = env.length /\ named.chunked = env.chunked
    BY <1>2, <2>1 DEF EnvOK, EnvType, named
  <2> DEFINE r == p + 1
  <2>3. r \in Nat /\ r \in b + colon + 1 .. b + value /\ env.process <= r
    BY <1>1, <1>2, <1>3, <1>4, <1>5, <1>7, <2>1
  <2>4. Goto(named, "HEADER_VALUE0", r)
    BY <1>11, <2>1
  <2> HIDE DEF r
  <2>5. ASSUME NEW f, Same(named, f), f.step = "HEADER_VALUE0", f.process = named.process
        PROVE  InHeaders(a, f, r, b)
    <3>1. Seen(a, f, i) /\ f.name = b + i /\ f.nameLen = colon - i
      BY <1>3, <2>2, <2>5 DEF Seen, Same
    <3>2. InHeader(a, f, r, b, i)
      BY <1>3, <2>3, <2>5, <3>1 DEF InHeader
    <3> QED
      BY <1>2, <1>3, <2>2, <2>3, <2>5, <3>2 DEF InHeaders, Same
  <2> QED
    BY <2>2, <2>3, <2>4, <2>5, HeaderGoes
<1> QED
  BY <1>9, <1>10, <1>11

\* HEADER_VALUE0
LEMMA HeaderValue0Step ==
    ASSUME EnvOK(env), wire \in Seq(Characters), wire' = wire, NEW a \in Answers, NEW b \in Nat,
           Carries(a, Stream, b, 0), InHeaders(a, env, env.p, b), env.step = "HEADER_VALUE0",
           WordBegins("HEADER_VALUE0", "HEADER_VALUE")
    PROVE  HeaderOutcome(a, b)
<1> DEFINE p == Skip(env.p)
<1>1. /\ env.p \in Nat /\ env.p <= Fill /\ Fill \in Nat /\ Fill = Len(env.buf) /\ env.process \in Nat
  BY EnvTypes
<1>2. /\ env.astray = FALSE /\ env.reforming = FALSE /\ env.chunkLen = 0 /\ env.status = a.status
      /\ env.process <= env.p
  BY DEF InHeaders
<1>3. PICK i \in 1 .. a.head, colon \in 1 .. a.head, value \in 1 .. a.head, end \in 1 .. a.head :
          /\ LineAt(a, i) /\ Seen(a, env, i) /\ env.name = b + i
          /\ Header(a, i, colon, value, end)
          /\ env.nameLen = colon - i /\ env.p \in b + colon + 1 .. b + value
  BY DEF InHeaders, InHeader
<1>4. a.head \in Nat /\ i \in Nat /\ colon \in Nat /\ value \in Nat /\ end \in Nat
  BY <1>3, AnswerShape
<1>5. /\ value < end /\ (\A k \in colon + 2 .. value : a.text[k] = "sp")
      /\ a.text[value + 1] \notin {"sp", "lf"}
  BY <1>3 DEF Header
<1>6. Has(Stream)
  BY StreamOK
<1>7. /\ p \in Nat
      /\ \/ p = b + value /\ b + value < Fill /\ At(b + value) = a.text[value + 1]
         \/ p = Fill /\ Fill <= b + value
  <2> DEFINE o == env.p
  <2>1. /\ o \in Nat /\ o <= Fill /\ b <= o /\ 0 <= o /\ o <= b + value /\ 0 \in Nat /\ a.text[value + 1] # "sp"
        /\ o - b + 1 >= colon + 2
    BY <1>1, <1>3, <1>4, <1>5, SMTT(30)
  <2>2. \A k \in o - b + 1 .. value : a.text[k] = "sp"
    BY <1>4, <1>5, <2>1
  <2> HIDE DEF o
  <2>3. /\ Skip(o) \in Nat
        /\ \/ Skip(o) = b + value /\ b + value < Fill /\ At(b + value) = a.text[value + 1]
           \/ Skip(o) = Fill /\ Fill <= b + value
    BY <1>4, <1>6, <2>1, <2>2, SkipsThere
  <2> QED
    BY <2>3 DEF o
<1> DEFINE begun == [env EXCEPT !.at = p]
<1>8. \/ p = Fill /\ NeedMore(env, p)
      \/ p < Fill /\ At(p) = "lf" /\ Invalid
      \/ p < Fill /\ At(p) # "lf" /\ Goto(begun, "HEADER_VALUE", p + 1)
  BY DEF WordBegins
<1> HIDE DEF p, begun
<1>9. CASE p = Fill /\ NeedMore(env, p)
  <2>1. p \in b + colon + 1 .. b + value /\ p > 0 /\ env.process <= p
    BY <1>1, <1>2, <1>3, <1>4, <1>7, <1>9, SMTT(30)
  <2>2. ASSUME NEW f, Same(env, f), f.step = env.step, f.process = p
        PROVE  InHeaders(a, f, p, b)
    <3>1. Seen(a, f, i) /\ f.name = b + i /\ f.nameLen = colon - i
      BY <1>3, <2>2 DEF Seen, Same
    <3>2. InHeader(a, f, p, b, i)
      BY <1>3, <2>1, <2>2, <3>1 DEF InHeader
    <3> QED
      BY <1>2, <1>3, <1>7, <2>1, <2>2, <3>2 DEF InHeaders, Same
  <2> QED
    BY <1>2, <1>7, <1>9, <2>1, <2>2, HeaderWaits
<1>10. ~(p < Fill /\ At(p) = "lf" /\ Invalid)
  BY <1>1, <1>5, <1>7
<1>11. CASE p < Fill /\ At(p) # "lf" /\ Goto(begun, "HEADER_VALUE", p + 1)
  <2>1. p = b + value
    BY <1>1, <1>7, <1>11
  <2>2. /\ EnvOK(begun) /\ begun.buf = env.buf /\ begun.astray = FALSE /\ begun.at = p
        /\ begun.nameLen = env.nameLen /\ begun.name = env.name /\ begun.process = env.process
        /\ begun.reforming = FALSE /\ begun.chunkLen = 0 /\ begun.status = a.status
        /\ begun.length = env.length /\ begun.chunked = env.chunked
    BY <1>2, <1>7 DEF EnvOK, EnvType, begun
  <2> DEFINE r == p + 1
  <2>3. r \in Nat /\ r \in b + value + 1 .. b + end /\ env.process <= r
    BY <1>1, <1>2, <1>3, <1>4, <1>5, <1>7, <2>1, SMTT(30)
  <2>4. Goto(begun, "HEADER_VALUE", r)
    BY <1>11
  <2> HIDE DEF r
  <2>5. ASSUME NEW f, Same(begun, f), f.step = "HEADER_VALUE", f.process = begun.process
        PROVE  InHeaders(a, f, r, b)
    <3>1. Seen(a, f, i) /\ f.name = b + i /\ f.nameLen = colon - i /\ f.at = b + value
      BY <1>3, <2>1, <2>2, <2>5 DEF Seen, Same
    <3>2. InHeader(a, f, r, b, i)
      BY <1>3, <2>3, <2>5, <3>1 DEF InHeader
    <3> QED
      BY <1>2, <1>3, <2>2, <2>3, <2>5, <3>2 DEF InHeaders, Same
  <2> QED
    BY <2>2, <2>3, <2>4, <2>5, HeaderGoes
<1> QED
  BY <1>8, <1>9, <1>10, <1>11

\* What is taken over of a header.
LEMMA ValueSeen ==
    ASSUME EnvOK(env), NEW a \in Answers, NEW i \in 1 .. a.head, LineAt(a, i), Seen(a, env, i),
           NEW colon \in 1 .. a.head, NEW value \in 1 .. a.head, NEW end \in 1 .. a.head,
           Header(a, i, colon, value, end), NEW e,
           \/ /\ NameAt(a, i, colon) = <<"C", "L">> /\ e.length = Number(0, ValueAt(a, value, end))
              /\ e.chunked = env.chunked
           \/ /\ NameAt(a, i, colon) # <<"C", "L">> /\ NameAt(a, i, colon) = <<"T", "E">>
              /\ Trimmed(ValueAt(a, value, end)) = <<"c", "k">>
              /\ e.length = env.length /\ e.chunked = TRUE
           \/ /\ NameAt(a, i, colon) # <<"C", "L">>
              /\ ~(NameAt(a, i, colon) = <<"T", "E">> /\ Trimmed(ValueAt(a, value, end)) = <<"c", "k">>)
              /\ e.length = env.length /\ e.chunked = env.chunked
    PROVE  LineAt(a, end + 1) /\ Seen(a, e, end + 1)
<1>1. a.head \in Nat /\ i \in Nat /\ colon \in Nat /\ value \in Nat /\ end \in Nat
  BY AnswerShape
<1>2. LineAt(a, end + 1)
  BY <1>1 DEF LineAt, Header
<1>3. /\ NameAt(a, i, colon) = <<"C", "L">> => Number(0, ValueAt(a, value, end)) = Size(a)
      /\ NameAt(a, i, colon) = <<"T", "E">> /\ Trimmed(ValueAt(a, value, end)) = <<"c", "k">> => a.chunked
      /\ SaysLength(a, i, Size(a)) => NameAt(a, i, colon) = <<"C", "L">>
      /\ SaysChunked(a, i) => NameAt(a, i, colon) = <<"T", "E">>
                              /\ Trimmed(ValueAt(a, value, end)) = <<"c", "k">>
  BY HeaderSays
<1>4. \A j \in i + 1 .. end : a.text[j] # "lf"
  BY <1>1, HeaderLine
<1>5. ASSUME NEW j \in 1 .. end + 1 - 1, LineAt(a, j)
      PROVE  j = i \/ j \in 1 .. i - 1
  BY <1>1, <1>4, <1>5 DEF LineAt
<1>6. <<"C", "L">> # <<"T", "E">>
  OBVIOUS
<1>7. e.length \in {0, Size(a)} /\ (e.chunked => a.chunked)
      /\ (env.length = Size(a) => e.length = Size(a)) /\ (env.chunked => e.chunked)
  <2>1. env.length \in {0, Size(a)} /\ (env.chunked => a.chunked)
    BY DEF Seen
  <2>2. CASE NameAt(a, i, colon) = <<"C", "L">>
    BY <1>3, <2>1, <2>2
  <2>3. CASE NameAt(a, i, colon) # <<"C", "L">>
    BY <1>3, <2>1, <2>3
  <2> QED
    BY <2>2, <2>3
<1>8. ASSUME NEW j \in 1 .. end + 1 - 1, LineAt(a, j), SaysLength(a, j, Size(a))
      PROVE  e.length = Size(a)
  <2>1. CASE j = i
    BY <1>3, <1>8, <2>1
  <2>2. CASE j \in 1 .. i - 1
    BY <1>7, <1>8, <2>2 DEF Seen
  <2> QED
    BY <1>5, <1>8, <2>1, <2>2
<1>9. ASSUME NEW j \in 1 .. end + 1 - 1, LineAt(a, j), SaysChunked(a, j)
      PROVE  e.chunked
  <2>1. CASE j = i
    BY <1>3, <1>6, <1>9, <2>1
  <2>2. CASE j \in 1 .. i - 1
    BY <1>7, <1>9, <2>2 DEF Seen
  <2> QED
    BY <1>5, <1>9, <2>1, <2>2
<1> QED
  BY <1>2, <1>7, <1>8, <1>9 DEF Seen

\* HEADER_VALUE
LEMMA HeaderValueStep ==
    ASSUME EnvOK(env), wire \in Seq(Characters), wire' = wire, NEW a \in Answers, NEW b \in Nat,
           Carries(a, Stream, b, 0), InHeaders(a, env, env.p, b), env.step = "HEADER_VALUE",
           ParseHeaderValue
    PROVE  HeaderOutcome(a, b)
<1> DEFINE p == Find(env.p, {"lf"})
           name == Text(env.name, env.nameLen)
           text == Text(env.at, p - env.at)
           sized == [env EXCEPT !.length = Number(0, text)]
           chunked == [env EXCEPT !.chunked = TRUE]
           next == CASE name = <<"C", "L">> -> sized
                     [] name = <<"T", "E">> /\ Trimmed(text) = <<"c", "k">> -> chunked
                     [] OTHER -> env
<1>1. /\ env.p \in Nat /\ env.p <= Fill /\ Fill \in Nat /\ Fill = Len(env.buf) /\ env.process \in Nat
  BY EnvTypes
<1>2. /\ env.astray = FALSE /\ env.reforming = FALSE /\ env.chunkLen = 0 /\ env.status = a.status
      /\ env.process <= env.p
  BY DEF InHeaders
<1>3. PICK i \in 1 .. a.head, colon \in 1 .. a.head, value \in 1 .. a.head, end \in 1 .. a.head :
          /\ LineAt(a, i) /\ Seen(a, env, i) /\ env.name = b + i
          /\ Header(a, i, colon, value, end)
          /\ env.nameLen = colon - i /\ env.at = b + value /\ env.p \in b + value + 1 .. b + end
  BY DEF InHeaders, InHeader
<1>4. a.head \in Nat /\ i \in Nat /\ colon \in Nat /\ value \in Nat /\ end \in Nat
  BY <1>3, AnswerShape
<1>5. /\ i < colon /\ colon < value /\ value < end /\ end < a.head - 1
      /\ Free(a.text, value, end, {"lf"}) /\ a.text[end + 1] = "lf"
  BY <1>3 DEF Header
<1>6. Has(Stream)
  BY StreamOK
<1>7. /\ p \in Nat
      /\ \/ p = b + end /\ b + end < Fill
         \/ p = Fill /\ Fill <= b + end
  <2> DEFINE o == env.p
             chars == {"lf"}
  <2>1. o \in Nat /\ o <= Fill /\ b <= o /\ 0 <= o /\ o <= b + end /\ 0 \in Nat /\ a.text[end + 1] \in chars
    BY <1>1, <1>3, <1>4, <1>5, SMTT(60)
  <2>2. Free(a.text, o - b, end, chars)
    <3>1. o - b >= value
      BY <1>1, <1>3, <1>4
    <3> QED
      BY <1>1, <1>4, <1>5, <3>1, SMTT(30) DEF Free
  <2> HIDE DEF o, chars
  <2>3. /\ Find(o, chars) \in Nat
        /\ \/ Find(o, chars) = b + end /\ b + end < Fill /\ At(b + end) = a.text[end + 1]
           \/ Find(o, chars) = Fill /\ Fill <= b + end
    BY <1>4, <1>6, <2>1, <2>2, FindsThere
  <2> QED
    BY <2>3 DEF o, chars
<1>8. \/ p = Fill /\ NeedMore(env, p)
      \/ p # Fill /\ Goto(next, "HEADER_NAME0", p + 1)
  <2>1. ~WordBegins("HEADER_VALUE0", "HEADER_VALUE")
    BY DEF WordBegins, Parsing
  <2> QED
    BY <2>1 DEF ParseHeaderValue
<1> HIDE DEF p, name, text, sized, chunked
<1>9. CASE p = Fill /\ NeedMore(env, p)
  <2>1. p \in b + value + 1 .. b + end /\ p > 0 /\ env.process <= p
    BY <1>1, <1>2, <1>3, <1>4, <1>7, <1>9, SMTT(30)
  <2>2. ASSUME NEW f, Same(env, f), f.step = env.step, f.process = p
        PROVE  InHeaders(a, f, p, b)
    <3>1. Seen(a, f, i) /\ f.name = b + i /\ f.nameLen = colon - i /\ f.at = b + value
      BY <1>3, <2>2 DEF Seen, Same
    <3>2. InHeader(a, f, p, b, i)
      BY <1>3, <2>1, <2>2, <3>1 DEF InHeader
    <3> QED
      BY <1>2, <1>3, <1>7, <2>1, <2>2, <3>2 DEF InHeaders, Same
  <2> QED
    BY <1>2, <1>7, <1>9, <2>1, <2>2, HeaderWaits
<1>10. CASE p # Fill /\ Goto(next, "HEADER_NAME0", p + 1)
  <2>1. p = b + end /\ p < Fill
    BY <1>7, <1>10
  <2>2. name = NameAt(a, i, colon)
    <3> DEFINE n == colon - i
    <3>1. n \in Nat /\ b + i + n <= Fill /\ 0 <= b + i /\ 0 \in Nat
      BY <1>1, <1>4, <1>5, <2>1
    <3> HIDE DEF n
    <3>2. Text(b + i, n) = Piece(a.text, i, n)
      BY <1>4, <1>6, <3>1, TextIs
    <3> QED
      BY <1>3, <3>2 DEF name, NameAt, n
  <2>3. text = ValueAt(a, value, end)
    <3> DEFINE n == end - value
    <3>1. n \in Nat /\ b + value + n <= Fill /\ 0 <= b + value /\ 0 \in Nat /\ p - env.at = n
      BY <1>1, <1>3, <1>4, <1>5, <2>1, SMTT(30)
    <3> HIDE DEF n
    <3>2. Text(b + value, n) = Piece(a.text, value, n)
      BY <1>4, <1>6, <3>1, TextIs
    <3> QED
      BY <1>3, <3>1, <3>2 DEF text, ValueAt, n
  <2>4. \/ name = <<"C", "L">> /\ next = sized
        \/ name # <<"C", "L">> /\ name = <<"T", "E">> /\ Trimmed(text) = <<"c", "k">> /\ next = chunked
        \/ name # <<"C", "L">> /\ ~(name = <<"T", "E">> /\ Trimmed(text) = <<"c", "k">>) /\ next = env
    <3>1. <<"C", "L">> # <<"T", "E">>
      OBVIOUS
    <3> QED
      BY <3>1
  <2>5. Size(a) \in Nat /\ (name = <<"C", "L">> => Number(0, text) = Size(a))
    <3>1. Size(a) \in Nat
      BY AnswerShape DEF Size
    <3> QED
      BY <1>3, <2>2, <2>3, <3>1, HeaderSays
  <2> HIDE DEF next
  <2>6. /\ EnvOK(next) /\ next.buf = env.buf /\ next.astray = FALSE /\ next.process = env.process
        /\ next.reforming = FALSE /\ next.chunkLen = 0 /\ next.status = a.status
        /\ \/ name = <<"C", "L">> /\ next.length = Number(0, text) /\ next.chunked = env.chunked
           \/ /\ name # <<"C", "L">> /\ name = <<"T", "E">> /\ Trimmed(text) = <<"c", "k">>
              /\ next.length = env.length /\ next.chunked = TRUE
           \/ /\ name # <<"C", "L">> /\ ~(name = <<"T", "E">> /\ Trimmed(text) = <<"c", "k">>)
              /\ next.length = env.length /\ next.chunked = env.chunked
    <3>1. CASE name = <<"C", "L">> /\ next = sized
      <4>1. Number(0, text) \in Nat
        BY <2>5, <3>1
      <4>2. /\ EnvOK(sized) /\ sized.buf = env.buf /\ sized.astray = FALSE /\ sized.process = env.process
            /\ sized.reforming = FALSE /\ sized.chunkLen = 0 /\ sized.status = a.status
            /\ sized.length = Number(0, text) /\ sized.chunked = env.chunked
        BY <1>2, <4>1 DEF EnvOK, EnvType, sized
      <4> QED
        BY <3>1, <4>2
    <3>2. CASE /\ name # <<"C", "L">> /\ name = <<"T", "E">> /\ Trimmed(text) = <<"c", "k">>
               /\ next = chunked
      <4>1. /\ EnvOK(chunked) /\ chunked.buf = env.buf /\ chunked.astray = FALSE /\ chunked.process = env.process
            /\ chunked.reforming = FALSE /\ chunked.chunkLen = 0 /\ chunked.status = a.status
            /\ chunked.length = env.length /\ chunked.chunked = TRUE
        BY <1>2 DEF EnvOK, EnvType, chunked
      <4> QED
        BY <3>2, <4>1
    <3>3. CASE /\ name # <<"C", "L">> /\ ~(name = <<"T", "E">> /\ Trimmed(text) = <<"c", "k">>)
               /\ next = env
      BY <1>2, <3>3
    <3> QED
      BY <2>4, <3>1, <3>2, <3>3
  <2>7. LineAt(a, end + 1) /\ Seen(a, next, end + 1)
    <3>1. \/ /\ NameAt(a, i, colon) = <<"C", "L">> /\ next.length = Number(0, ValueAt(a, value, end))
             /\ next.chunked = env.chunked
          \/ /\ NameAt(a, i, colon) # <<"C", "L">> /\ NameAt(a, i, colon) = <<"T", "E">>
             /\ Trimmed(ValueAt(a, value, end)) = <<"c", "k">>
             /\ next.length = env.length /\ next.chunked = TRUE
          \/ /\ NameAt(a, i, colon) # <<"C", "L">>
             /\ ~(NameAt(a, i, colon) = <<"T", "E">> /\ Trimmed(ValueAt(a, value, end)) = <<"c", "k">>)
             /\ next.length = env.length /\ next.chunked = env.chunked
      BY <2>2, <2>3, <2>6
    <3> QED
      BY <1>3, <3>1, ValueSeen
  <2> DEFINE r == p + 1
  <2>8. r \in Nat /\ r > b /\ r - b = end + 1 /\ env.process <= r
    <3>1. env.process <= env.p /\ env.p <= b + end /\ end \in Nat /\ env.p \in Nat /\ env.process \in Nat
      BY <1>1, <1>2, <1>3, <1>4
    <3> QED
      BY <2>1, <3>1
  <2>9. Goto(next, "HEADER_NAME0", r)
    BY <1>10
  <2> HIDE DEF r
  <2>10. ASSUME NEW f, Same(next, f), f.step = "HEADER_NAME0", f.process = next.process
         PROVE  InHeaders(a, f, r, b)
    <3>1. LineAt(a, r - b) /\ Seen(a, f, r - b)
      BY <2>7, <2>8, <2>10 DEF Seen, Same
    <3> QED
      BY <2>6, <2>8, <2>10, <3>1 DEF InHeaders, Same
  <2> QED
    BY <2>6, <2>8, <2>9, <2>10, HeaderGoes
<1> QED
  BY <1>8, <1>9, <1>10

\* In the headers of the answer the parser finds what is there.
LEMMA HeadersStep ==
    ASSUME EnvOK(env), wire \in Seq(Characters), wire' = wire, NEW a \in Answers, NEW b \in Nat,
           Carries(a, Stream, b, 0), InHeaders(a, env, env.p, b), ParseHttpBuffer
    PROVE  HeaderOutcome(a, b)
<1>1. env.step \in {"HEADER_NAME0", "HEADER_NAME", "HEADER_VALUE0", "HEADER_VALUE"}
  BY DEF InHeaders, InHeader
<1>2. \/ env.step = "HEADER_NAME0" /\ ParseHeaderName0
      \/ env.step = "HEADER_NAME" /\ ParseHeaderName
      \/ env.step \in {"HEADER_VALUE0", "HEADER_VALUE"} /\ ParseHeaderValue
  BY <1>1, LabelIs
<1>3. CASE env.step = "HEADER_VALUE0" /\ ParseHeaderValue
  <2>1. WordBegins("HEADER_VALUE0", "HEADER_VALUE")
    BY <1>3 DEF ParseHeaderValue, Parsing
  <2> QED
    BY <1>3, <2>1, HeaderValue0Step
<1> QED
  BY <1>2, <1>3, HeaderName0Step, HeaderNameStep, HeaderValueStep

-----------------------------------------------------------------------------
(* The steps in the body *)

\* The version is not to be found again behind b and m.
NoMore(s, b, m) ==
    \A k \in 1 .. Len(s) - 1 : k > b + 1 /\ k > m /\ s[k] = "H" => s[k + 1] # "sp"

\* The parser went astray: all that is left is that it does not come before the answer.
Astray(e, pos, s, b) ==
    /\ e.astray = TRUE /\ e.reforming = FALSE
    /\ \/ /\ e.step \in {"HEADER_NAME0", "HEADER_NAME", "HEADER_VALUE0", "HEADER_VALUE"}
          /\ Blank(s, b) /\ b < Len(e.buf) /\ s[b + 1] = "H" /\ NoMore(s, b, 0)
          /\ e.step # "HEADER_NAME0" => pos > b
       \/ e.step = "BODY" /\ e.body > b /\ NoMore(s, b, 0)
       \/ e.step = "CHUNKED_SIZE" /\ pos > b /\ e.chunkEnd <= pos /\ NoMore(s, b, pos)
       \/ e.step = "CHUNKED_DATA" /\ e.chunk > b /\ e.chunkEnd <= e.chunk /\ NoMore(s, b, e.chunk)

\* It goes on like that, fails or is done.
StrayOn(b) ==
    /\ http' \in {"parse", "recv"} /\ Len(env'.buf) = Fill /\ env'.astray = TRUE
    /\ Astray(env', Place', Stream', b)
    /\ SplitsEnd(env'.buf) => SplitsEnd(env.buf)

\* The parser went on in the body, went astray there with pointers into the block
\* that was freed, or is done.
BodyOutcome(a, b) ==
    \/ /\ http' \in {"parse", "recv"} /\ Len(env'.buf) = Fill /\ env'.astray = FALSE
       /\ http' = "recv" => env'.process > 0
       /\ InBody(a, env', Place', Stream', b)
       /\ Blank(Stream, b) => Blank(Stream', b)
       /\ SplitsEnd(env'.buf) => SplitsEnd(env.buf)
    \/ a.chunked /\ StrayOn(b) /\ (Blank(Stream, b) => Blank(Stream', b))
    \/ Ended(a)

\* The part of the answer behind b is in the stream.
LEMMA CarriesAt ==
    ASSUME NEW a \in Answers, NEW s \in Seq(Characters), NEW b \in Nat, NEW m \in Nat,
           Carries(a, s, b, m), NEW i \in Nat, i > 0, b + i > m, b + i <= Len(s)
    PROVE  s[b + i] = a.text[i] /\ i <= Len(a.text)
<1>1. Len(s) \in Nat /\ Len(s) <= b + Len(a.text) /\ Len(a.text) \in Nat
  BY AnswerText DEF Carries
<1>2. b + i \in 1 .. Len(s) /\ b + i > b /\ b + i - b = i
  BY <1>1
<1> QED
  BY <1>1, <1>2 DEF Carries

\* BODY
LEMMA BodyStep ==
    ASSUME EnvOK(env), wire \in Seq(Characters), wire' = wire, NEW a \in Answers, NEW b \in Nat,
           InBody(a, env, env.p, Stream, b), env.step = "BODY", ParseBody
    PROVE  BodyOutcome(a, b)
<1>1. /\ env.p \in Nat /\ env.p <= Fill /\ Fill \in Nat /\ Fill = Len(env.buf) /\ env.body <= Fill
  BY EnvTypes
<1>2. /\ env.astray = FALSE /\ env.reforming = FALSE /\ env.status = a.status /\ env.body = b + a.head
      /\ ~a.chunked /\ env.length = Len(a.body) /\ Carries(a, Stream, b, 0)
  BY DEF InBody, InChunk
<1>3. /\ a.head \in Nat /\ 1 <= a.head /\ Len(a.body) \in Nat
      /\ Len(a.text) = a.head + Len(a.body) /\ Piece(a.text, a.head, Len(a.body)) = a.body
  BY <1>2, AnswerShape DEF Framed
<1>4. /\ Stream \in Seq(Characters) /\ Len(Stream) = Fill + Len(wire) /\ Len(wire) \in Nat
      /\ \A k \in 1 .. Fill : env.buf[k] = Stream[k]
  BY StreamOK DEF Has
<1>5. CASE ~BodyIsThere
  <2>1. NeedMore(env, Fill)
    BY <1>5 DEF ParseBody
  <2>2. /\ http' = "recv" /\ Place' = Fill /\ Same(env, env')
        /\ env'.step = env.step /\ env'.process = Fill
    BY <2>1, MoreFields
  <2>3. Stream' = Stream /\ Len(env'.buf) = Fill /\ env'.process > 0
    BY <1>1, <1>2, <1>3, <2>2 DEF Stream, Same
  <2>4. InBody(a, env', Place', Stream', b)
    BY <1>2, <2>2, <2>3 DEF InBody, Same
  <2> QED
    BY <1>2, <2>2, <2>3, <2>4 DEF BodyOutcome, Same
<1>6. CASE BodyIsThere
  <2> DEFINE p == env.body + env.length
  <2>1. Done(env, p, TRUE)
    BY <1>6 DEF ParseBody
  <2>2. p \in Nat /\ p = Fill /\ p = Len(Stream) /\ Len(wire) = 0
    <3>1. Len(Stream) <= b + Len(a.text)
      BY <1>2 DEF Carries
    <3>2. Fill - env.body >= env.length
      BY <1>6 DEF BodyIsThere
    <3>3. p = b + a.head + Len(a.body)
      BY <1>2
    <3> HIDE DEF p
    <3>4. p \in Nat /\ Len(Stream) <= p
      BY <1>3, <1>4, <3>1, <3>3, SMTT(30)
    <3>5. p <= Fill
      <4>1. env.body \in Nat /\ env.length \in Nat
        BY EnvTypes
      <4> QED
        BY <1>1, <3>2, <4>1 DEF p
    <3> QED
      BY <1>1, <1>4, <3>4, <3>5
  <2>3. Quiet(Kept') /\ Len(Kept') = 0
    <3>1. \A k \in 1 .. Len(Stream) - 1 : k > p /\ Stream[k] = "H" => Stream[k + 1] # "sp"
      BY <1>1, <1>4, <2>2
    <3> HIDE DEF p
    <3>2. p <= Fill
      BY <1>1, <2>2
    <3> QED
      BY <2>1, <2>2, <3>1, <3>2, DoneKept
  <2>4. /\ http' = "done" /\ env'.astray = env.astray /\ env'.status = env.status
        /\ env'.body = env.body /\ env'.length = env.length
        /\ env'.buf \in Seq(Characters) /\ Len(env'.buf) = Fill
        /\ \A k \in 1 .. Fill : k # p + 1 => env'.buf[k] = env.buf[k]
    <3> HIDE DEF p
    <3>1. p <= Fill
      BY <1>1, <2>2
    <3> QED
      BY <2>1, <2>2, <3>1, DoneFields
  <2>5. Right(a)
    <3> DEFINE i == b + a.head
               t == env'.buf
    <3>1. ASSUME NEW j \in 1 .. Len(a.body) PROVE t[i + j] = a.body[j]
      <4>1. i + j \in 1 .. Fill /\ i + j # p + 1
        BY <1>1, <1>2, <1>3, <2>2, SMTT(30)
      <4>2. t[i + j] = Stream[i + j]
        BY <1>4, <2>4, <4>1
      <4> DEFINE k == a.head + j
      <4>3. k \in Nat /\ k > 0 /\ b + k > 0 /\ b + k <= Len(Stream) /\ 0 \in Nat /\ b + k = i + j
        <5>1. b + k = i + j /\ j \in Nat /\ j > 0
          BY <1>3
        <5>2. i + j <= Len(Stream)
          BY <1>1, <1>4, <4>1
        <5>3. k \in Nat /\ k > 0
          BY <1>3, <5>1
        <5> HIDE DEF k, i
        <5> QED
          BY <5>1, <5>2, <5>3
      <4> HIDE DEF k
      <4>4. Stream[b + k] = a.text[k]
        BY <1>2, <1>4, <4>3, CarriesAt
      <4>5. a.body[j] = a.text[k]
        <5>1. a.text \in Seq(Characters) /\ a.head + Len(a.body) <= Len(a.text)
          BY <1>3, AnswerText
        <5> DEFINE n == Len(a.body)
                   h == a.head
                   x == a.text
        <5>2. n \in Nat /\ h \in Nat /\ h + n <= Len(x) /\ x \in Seq(Characters)
          BY <1>3, <5>1
        <5> HIDE DEF n, h, x
        <5>3. \A m \in 1 .. n : Piece(x, h, n)[m] = x[h + m]
          BY <5>2, PieceOK
        <5> QED
          BY <1>3, <5>3 DEF k, n, h, x
      <4> HIDE DEF i, t
      <4> QED
        BY <4>2, <4>3, <4>4, <4>5
    <3>2. i \in Nat /\ i + Len(a.body) <= Len(t) /\ t \in Seq(Characters)
      BY <1>1, <1>2, <1>3, <2>2, <2>4
    <3> HIDE DEF i, t
    <3>3. SubSeq(t, i + 1, i + Len(a.body)) = a.body
      BY <3>1, <3>2, BodyIs
    <3> QED
      BY <1>2, <2>4, <3>3 DEF Right, i, t
  <2>6. Blank(Kept', Len(Kept'))
    BY <2>3 DEF Blank
  <2> QED
    BY <2>3, <2>4, <2>5, <2>6 DEF BodyOutcome, Ended
<1> QED
  BY <1>5, <1>6

\* The size of a chunk, or a part of it, is read: n.
Sized(n) ==
    /\ env'.chunkLen = n /\ env'.buf = env.buf /\ env'.astray = env.astray
    /\ env'.reforming = env.reforming /\ env'.status = env.status /\ env'.length = env.length
    /\ env'.body = env.body /\ env'.chunkEnd = env.chunkEnd

\* The size ends the answer.
SizedLast(p) ==
    \E e : /\ EnvOK(e) /\ Done(e, p, TRUE) /\ e.buf = env.buf /\ e.astray = env.astray
           /\ e.status = env.status /\ e.length = env.length /\ e.body = env.body

\* What a step at the size of a chunk does.
LEMMA ChunkSizeIs ==
    ASSUME EnvOK(env), ParseChunkSize, NEW p, p = Find(env.p, {"lf"}),
           NEW n, n = Number(env.chunkLen, Text(env.p, p - env.p))
    PROVE  /\ p \in Nat /\ env.p <= p /\ p <= Fill /\ n \in Nat
           /\ \/ /\ p = Fill /\ http' = "recv" /\ Place' = p /\ env'.process = p
                 /\ env'.step = "CHUNKED_SIZE" /\ Sized(n)
              \/ p < Fill /\ n = 0 /\ SizedLast(p + 1)
              \/ /\ p < Fill /\ n # 0 /\ http' = "parse" /\ Place' = p + 1
                 /\ env'.step = "CHUNKED_DATA" /\ env'.chunk = p + 1 /\ Sized(n)
<1> DEFINE e == [env EXCEPT !.chunkLen = n]
           f == [e EXCEPT !.chunk = p + 1,
                          !.dangling = IF "p" \in @ THEN @ ELSE @ \ {"chunk"}]
<1>1. p \in Nat /\ env.p <= p /\ p <= Fill /\ Fill = Len(env.buf) /\ Fill \in Nat /\ env.p \in Nat
  BY EnvTypes, FindOK
<1>2. n \in Nat
  BY <1>1, EnvTypes, TextType, NumberType
<1>3. /\ EnvOK(e) /\ e.buf = env.buf /\ e.astray = env.astray /\ e.status = env.status
      /\ e.length = env.length /\ e.body = env.body /\ e.chunkLen = n /\ e.chunkEnd = env.chunkEnd
      /\ e.reforming = env.reforming /\ e.step = env.step
  BY <1>2 DEF EnvOK, EnvType
<1>4. env.step = "CHUNKED_SIZE"
  BY DEF ParseChunkSize, Parsing
<1>5. \/ p = Fill /\ NeedMore(e, p)
      \/ p < Fill /\ n = 0 /\ Done(e, p + 1, TRUE)
      \/ p < Fill /\ n # 0 /\ Goto(f, "CHUNKED_DATA", p + 1)
  <2> HIDE DEF e, f
  <2>1. CASE p = Fill
    <3>1. ~(p < Fill)
      BY <1>1, <2>1
    <3>2. NeedMore(e, p)
      BY <2>1, <3>1 DEF ParseChunkSize, e
    <3> QED
      BY <2>1, <3>2
  <2>2. CASE p # Fill /\ n = 0
    <3>1. p < Fill
      BY <1>1, <2>2
    <3>2. Done(e, p + 1, TRUE)
      BY <1>3, <2>2, <3>1 DEF ParseChunkSize, e
    <3> QED
      BY <2>2, <3>1, <3>2
  <2>3. CASE p # Fill /\ n # 0
    <3>1. Goto(f, "CHUNKED_DATA", p + 1)
      BY <1>3, <2>3 DEF ParseChunkSize, e, f
    <3>2. p < Fill
      BY <1>1, <2>3
    <3> QED
      BY <2>3, <3>1, <3>2
  <2> QED
    BY <2>1, <2>2, <2>3
<1> HIDE DEF e
<1>6. CASE p = Fill /\ NeedMore(e, p)
  <2>1. /\ http' = "recv" /\ Place' = p /\ Same(e, env')
        /\ env'.step = e.step /\ env'.process = p
    BY <1>3, <1>6, MoreFields
  <2> QED
    BY <1>1, <1>2, <1>3, <1>4, <1>6, <2>1 DEF Sized, Same
<1>7. CASE p < Fill /\ n = 0 /\ Done(e, p + 1, TRUE)
  BY <1>1, <1>2, <1>3, <1>7 DEF SizedLast
<1>8. CASE p < Fill /\ n # 0 /\ Goto(f, "CHUNKED_DATA", p + 1)
  <2> DEFINE r == p + 1
  <2>1. r \in Nat
    BY <1>1
  <2> HIDE DEF r
  <2>2. /\ EnvOK(f) /\ f.buf = e.buf /\ f.astray = e.astray /\ f.status = e.status
        /\ f.length = e.length /\ f.body = e.body /\ f.chunkLen = e.chunkLen /\ f.chunkEnd = e.chunkEnd
        /\ f.reforming = e.reforming /\ f.chunk = r
    <3> DEFINE D == IF "p" \in e.dangling THEN e.dangling ELSE e.dangling \ {"chunk"}
    <3>1. f = [e EXCEPT !.chunk = r, !.dangling = D]
      BY DEF r
    <3>2. D \subseteq e.dangling
      OBVIOUS
    <3> HIDE DEF D, f
    <3>3. /\ f.buf = e.buf /\ f.astray = e.astray /\ f.status = e.status
          /\ f.length = e.length /\ f.body = e.body /\ f.chunkLen = e.chunkLen /\ f.chunkEnd = e.chunkEnd
          /\ f.reforming = e.reforming /\ f.chunk = r
      BY <1>3, <3>1 DEF EnvOK, EnvType
    <3> QED
      BY <1>3, <2>1, <3>1, <3>2, <3>3 DEF EnvOK, EnvType
  <2> HIDE DEF f
  <2>3. /\ http' = "parse" /\ Place' = r /\ Same(f, env') /\ env'.step = "CHUNKED_DATA"
    BY <1>8, <2>2, GotoFields DEF r
  <2>4. env'.chunk = r /\ Sized(n)
    BY <1>3, <2>2, <2>3 DEF Sized, Same
  <2> QED
    BY <1>1, <1>2, <1>8, <2>3, <2>4 DEF r
<1> QED
  BY <1>5, <1>6, <1>7, <1>8

\* The line end behind a chunk.
Gap(p) ==
    IF p + 1 < Fill /\ At(p) = "cr" /\ At(p + 1) = "lf" THEN 2
    ELSE IF p < Fill /\ At(p) = "lf" THEN 1 ELSE 0

\* A chunk is moved.
Moved ==
    /\ env.chunk + env.chunkLen + 2 <= Fill
    /\ env'.buf = MoveChunk /\ MoveChunk \in Seq(Characters) /\ Len(env'.buf) = Fill
    /\ env'.chunkEnd = env.chunkEnd + env.chunkLen /\ env'.length = env.length + env.chunkLen
    /\ env'.chunkLen = 0 /\ env'.astray = (env.astray \/ env.dangling # {})
    /\ env'.reforming = env.reforming /\ env'.status = env.status /\ env'.body = env.body

\* Where the chunk was is taken from the block that was freed: the parser waits for
\* more, or goes on anywhere behind the chunk's beginning.
UsesFreed ==
    /\ env.dangling # {} /\ env'.astray = TRUE /\ env'.buf = env.buf
    /\ env'.reforming = env.reforming /\ env'.chunk = env.chunk /\ env'.chunkEnd = env.chunkEnd
    /\ \/ http' = "recv" /\ env'.step = env.step
       \/ http' = "parse" /\ env'.step = "CHUNKED_SIZE" /\ Place' \in env.chunk .. Fill

\* What a step at the data of a chunk does.
LEMMA ChunkDataIs ==
    ASSUME EnvOK(env), ParseChunkData
    PROVE  \/ /\ http' = "parse" /\ env'.step = "CHUNKED_SIZE" /\ Moved
              /\ Place' = env.chunk + env.chunkLen + Gap(env.chunk + env.chunkLen)
           \/ /\ http' = "recv" /\ Place' = Fill /\ env'.process = Fill /\ env'.step = env.step
              /\ Same(env, env')
           \/ UsesFreed
<1> DEFINE p == env.chunk + env.chunkLen
           e == [env EXCEPT !.buf = MoveChunk, !.chunkEnd = @ + env.chunkLen,
                            !.length = @ + env.chunkLen, !.chunkLen = 0,
                            !.astray = @ \/ env.dangling # {}]
<1>0. ParseChunk \/ ParseFreedChunk
  BY DEF ParseChunkData
<1>1. CASE ParseChunk /\ ChunkIsThere
  <2>1. Goto(e, "CHUNKED_SIZE", p + Gap(p))
    BY <1>1 DEF ParseChunk, Gap
  <2>2. p \in Nat /\ p + 2 <= Fill
    BY <1>1, EnvTypes, SMTT(30) DEF ChunkIsThere
  <2> DEFINE t == MoveChunk
             m == [i \in 1 .. Fill |->
                     IF i \in env.chunkEnd + 1 .. env.chunkEnd + env.chunkLen
                     THEN env.buf[i - env.chunkEnd + env.chunk] ELSE env.buf[i]]
  <2>3. t \in Seq(Characters) /\ Len(t) = Fill
    <3>1. \A i \in 1 .. Fill :
            (IF i \in env.chunkEnd + 1 .. env.chunkEnd + env.chunkLen
             THEN env.buf[i - env.chunkEnd + env.chunk] ELSE env.buf[i]) \in Characters
      <4>1. TAKE i \in 1 .. Fill
      <4>2. CASE i \in env.chunkEnd + 1 .. env.chunkEnd + env.chunkLen
        <5>1. i - env.chunkEnd + env.chunk \in 1 .. Fill
          <6>1. env.chunkEnd \in Nat /\ env.chunk \in Nat /\ env.chunkLen \in Nat /\ Fill \in Nat
            BY EnvTypes
          <6>2. \A end, chunk, len, n \in Nat : \A k \in end + 1 .. end + len :
                    chunk + len + 2 <= n => k - end + chunk \in 1 .. n
            OBVIOUS
          <6>3. env.chunk + env.chunkLen + 2 <= Fill
            BY <2>2
          <6> HIDE DEF p, e
          <6> QED
            BY <4>2, <6>1, <6>2, <6>3
        <5> QED
          BY <4>2, <5>1, EnvTypes, SMTT(30)
      <4>3. CASE i \notin env.chunkEnd + 1 .. env.chunkEnd + env.chunkLen
        BY <4>3, EnvTypes
      <4> QED
        BY <4>2, <4>3
    <3>2. Fill \in Nat /\ env.buf \in Seq(Characters) /\ Len(env.buf) = Fill
      BY EnvTypes
    <3>3. m \in Seq(Characters) /\ Len(m) = Fill
      BY <3>1, <3>2
    <3>4. t = env.buf \/ t = m
      BY DEF MoveChunk
    <3> HIDE DEF m, t
    <3> QED
      BY <3>2, <3>3, <3>4
  <2> HIDE DEF t, m
  <2> DEFINE n == env.chunkEnd + env.chunkLen
             l == env.length + env.chunkLen
             y == env.astray \/ env.dangling # {}
  <2>4. n \in Nat /\ l \in Nat /\ y \in BOOLEAN
    BY EnvTypes, SMTT(30)
  <2>5. e = [env EXCEPT !.buf = t, !.chunkEnd = n, !.length = l, !.chunkLen = 0, !.astray = y]
    BY DEF t
  <2> HIDE DEF e, n, l, y
  <2>6. /\ e \in EnvType /\ e.buf = t /\ e.process = env.process /\ e.p = env.p /\ e.step = env.step
        /\ e.body = env.body /\ e.chunkEnd = n /\ e.length = l /\ e.chunkLen = 0
        /\ e.astray = y /\ e.reforming = env.reforming /\ e.status = env.status
        /\ e.size = env.size /\ e.dangling = env.dangling /\ e.chunked = env.chunked
        /\ e.chunk = env.chunk /\ e.at = env.at /\ e.name = env.name /\ e.nameLen = env.nameLen
    BY <2>3, <2>4, <2>5 DEF EnvOK, EnvType
  <2>7. EnvOK(e) /\ Len(e.buf) = Fill
    BY <2>3, <2>6, EnvTypes DEF EnvOK
  <2> HIDE DEF p
  <2>8. /\ http' = "parse" /\ Place' = p + Gap(p) /\ Same(e, env')
        /\ env'.step = "CHUNKED_SIZE"
    BY <2>1, <2>7, GotoFields
  <2>9. Moved
    BY <2>2, <2>3, <2>6, <2>8 DEF Moved, Same, n, l, t, p, y
  <2> QED
    BY <2>8, <2>9 DEF p
<1>2. CASE ParseChunk /\ ~ChunkIsThere
  <2>1. NeedMore(env, Fill)
    BY <1>2 DEF ParseChunk
  <2> QED
    BY <2>1, MoreFields
<1>3. CASE ParseFreedChunk
  <2> DEFINE g == [env EXCEPT !.astray = TRUE]
  <2>1. g.buf = env.buf /\ g.astray = TRUE /\ g.reforming = env.reforming /\ g.chunk = env.chunk
        /\ g.chunkEnd = env.chunkEnd /\ g.step = env.step /\ EnvOK(g)
    BY DEF EnvOK, EnvType
  <2>2. env.dangling # {}
    BY <1>3 DEF ParseFreedChunk
  <2>3. CASE NeedMore(g, Fill)
    <3> HIDE DEF g
    <3> QED
      BY <2>1, <2>2, <2>3, MoreFields DEF UsesFreed, Same
  <2>4. CASE \E r \in env.chunk .. Fill :
                Goto([g EXCEPT !.dangling = @ \cup {"p"}, !.length = @ + env.chunkLen,
                               !.chunkLen = 0],
                     "CHUNKED_SIZE", r)
    <3>1. PICK r \in env.chunk .. Fill :
                Goto([g EXCEPT !.dangling = @ \cup {"p"}, !.length = @ + env.chunkLen,
                               !.chunkLen = 0],
                     "CHUNKED_SIZE", r)
      BY <2>4
    <3>2. /\ http' = "parse"
          /\ env' = [g EXCEPT !.dangling = @ \cup {"p"}, !.length = @ + env.chunkLen,
                              !.chunkLen = 0, !.step = "CHUNKED_SIZE", !.p = r]
      BY <3>1 DEF Goto
    <3> HIDE DEF g
    <3>3. g \in EnvType
      BY <2>1 DEF EnvOK
    <3>4. env'.p = r /\ env'.step = "CHUNKED_SIZE" /\ env'.buf = g.buf /\ env'.astray = g.astray
          /\ env'.reforming = g.reforming /\ env'.chunk = g.chunk /\ env'.chunkEnd = g.chunkEnd
      BY <3>2, <3>3 DEF EnvType
    <3> QED
      BY <2>1, <2>2, <3>1, <3>2, <3>4 DEF UsesFreed, Place
  <2> QED
    BY <1>3, <2>3, <2>4 DEF ParseFreedChunk
<1> QED
  BY <1>0, <1>1, <1>2, <1>3

\* The stream when a chunk is moved to a place before it.
LEMMA MovedStream ==
    ASSUME EnvOK(env), wire \in Seq(Characters), wire' = wire, Moved, env.chunkEnd <= env.chunk
    PROVE  /\ Stream' \in Seq(Characters) /\ Len(Stream') = Len(Stream)
           /\ \A k \in 1 .. Len(Stream) :
                k <= env.chunkEnd \/ k > env.chunkEnd + env.chunkLen => Stream'[k] = Stream[k]
           /\ env.dangling = {} =>
                \A i \in 1 .. env.chunkLen : Stream'[env.chunkEnd + i] = Stream[env.chunk + i]
           /\ SplitsEnd(env'.buf) => SplitsEnd(env.buf)
<1> DEFINE t == env'.buf
           c == env.chunk
           l == env.chunkLen
           d == env.chunkEnd
           u == Stream'
           s == Stream
<1>1. /\ Fill \in Nat /\ Fill = Len(env.buf) /\ env.buf \in Seq(Characters)
      /\ c \in Nat /\ l \in Nat /\ d \in Nat
  BY EnvTypes
<1>2. /\ s \in Seq(Characters) /\ Len(s) = Fill + Len(wire) /\ Len(wire) \in Nat
      /\ \A k \in 1 .. Fill : env.buf[k] = s[k]
      /\ \A k \in 1 .. Len(wire) : s[Fill + k] = wire[k]
  BY StreamOK DEF Has
<1>3. /\ t \in Seq(Characters) /\ Len(t) = Fill /\ c + l + 2 <= Fill /\ d <= c
      /\ \A k \in 1 .. Fill : ~(k \in d + 1 .. d + l) => t[k] = env.buf[k]
      /\ env.dangling = {} => \A k \in 1 .. Fill : k \in d + 1 .. d + l => t[k] = env.buf[k - d + c]
  <2>1. t \in Seq(Characters) /\ Len(t) = Fill /\ c + l + 2 <= Fill /\ t = MoveChunk
    BY DEF Moved
  <2>2. CASE "chunkEnd" \in env.dangling
    BY <2>1, <2>2 DEF MoveChunk
  <2>3. CASE "chunkEnd" \notin env.dangling
    BY <2>1, <2>3 DEF MoveChunk
  <2> QED
    BY <2>1, <2>2, <2>3
<1>4. u = t \o wire
  BY DEF Stream
<1> HIDE DEF t, c, l, d, u, s
<1>5. /\ u \in Seq(Characters) /\ Len(u) = Len(t) + Len(wire)
      /\ \A k \in 1 .. Len(t) + Len(wire) : u[k] = IF k <= Len(t) THEN t[k] ELSE wire[k - Len(t)]
  BY <1>3, <1>4, ConcatProperties
<1>6. \A k \in 1 .. Fill : u[k] = t[k]
  <2>1. \A k \in 1 .. Fill : k \in 1 .. Len(t) + Len(wire) /\ k <= Len(t)
    BY <1>1, <1>2, <1>3
  <2> QED
    BY <1>5, <2>1
<1>7. ASSUME NEW k \in 1 .. Len(s), k <= d \/ k > d + l PROVE u[k] = s[k]
  <2>1. CASE k <= Fill
    <3>1. k \in 1 .. Fill /\ ~(k \in d + 1 .. d + l)
      BY <1>1, <1>7, <2>1
    <3> QED
      BY <1>2, <1>3, <1>6, <3>1
  <2>2. CASE ~(k <= Fill)
    <3> DEFINE j == k - Fill
    <3>1. j \in 1 .. Len(wire) /\ Fill + j = k /\ k \in 1 .. Len(t) + Len(wire) /\ ~(k <= Len(t)) /\ k - Len(t) = j
      BY <1>1, <1>2, <1>3, <2>2
    <3> HIDE DEF j
    <3>2. u[k] = wire[j] /\ s[k] = wire[j]
      BY <1>2, <1>5, <3>1
    <3> QED
      BY <3>2
  <2> QED
    BY <2>1, <2>2
<1>8. ASSUME env.dangling = {}, NEW i \in 1 .. l PROVE u[d + i] = s[c + i]
  <2> DEFINE k == d + i
  <2>1. k \in 1 .. Fill /\ k \in d + 1 .. d + l /\ k - d + c = c + i /\ c + i \in 1 .. Fill
    BY <1>1, <1>3
  <2> HIDE DEF k
  <2>2. u[k] = env.buf[c + i]
    BY <1>3, <1>6, <1>8, <2>1
  <2>3. u[k] = s[c + i]
    BY <1>2, <2>1, <2>2
  <2> QED
    BY <2>3 DEF k
<1>9. SplitsEnd(t) => SplitsEnd(env.buf)
  <2>1. Fill - 1 \in 1 .. Fill /\ Fill \in 1 .. Fill /\ ~(Fill - 1 \in d + 1 .. d + l) /\ ~(Fill \in d + 1 .. d + l)
    BY <1>1, <1>3
  <2>2. t[Fill - 1] = env.buf[Fill - 1] /\ t[Fill] = env.buf[Fill]
    BY <1>3, <2>1
  <2> QED
    BY <1>1, <1>3, <2>2, SplitsEndIs
<1>10. Len(u) = Len(s)
  BY <1>2, <1>3, <1>5
<1> QED
  BY <1>5, <1>7, <1>8, <1>9, <1>10 DEF t, c, l, d, u, s

\* An answer has its version at its beginning only.
LEMMA CarriesNoMore ==
    ASSUME NEW a \in Answers, NEW s \in Seq(Characters), NEW b \in Nat, NEW m \in Nat,
           Carries(a, s, b, m)
    PROVE  NoMore(s, b, m)
<1>1. Len(s) \in Nat /\ Len(a.text) \in Nat /\ Len(s) <= b + Len(a.text)
  BY AnswerText DEF Carries
<1>2. ASSUME NEW k \in 1 .. Len(s) - 1, k > b + 1, k > m, s[k] = "H" PROVE s[k + 1] # "sp"
  <2> DEFINE i == k - b
             j == i + 1
  <2>1. /\ i \in 2 .. Len(a.text) - 1 /\ b + i = k /\ b + j = k + 1
        /\ i \in Nat /\ i > 0 /\ b + i > m /\ b + i <= Len(s)
        /\ j \in Nat /\ j > 0 /\ b + j > m /\ b + j <= Len(s) /\ j = i + 1
    BY <1>1, <1>2
  <2>5. i \in Nat /\ i > 0 /\ b + i > m /\ b + i <= Len(s)
    BY <2>1
  <2>6. j \in Nat /\ j > 0 /\ b + j > m /\ b + j <= Len(s)
    BY <2>1
  <2> HIDE DEF i, j
  <2>2. s[b + i] = a.text[i]
    BY <2>5, CarriesAt
  <2>4. s[b + j] = a.text[j]
    BY <2>6, CarriesAt
  <2>3. a.text[i] = "H" => a.text[j] # "sp"
    <3>1. OneVersion(a)
      BY AnswerShape
    <3> QED
      BY <2>1, <3>1 DEF OneVersion, j
  <2> QED
    BY <1>2, <2>1, <2>2, <2>3, <2>4
<1> QED
  BY <1>2 DEF NoMore

\* The data of a chunk when the parser has gone astray, or does so now.
LEMMA DataStrays ==
    ASSUME EnvOK(env), wire \in Seq(Characters), wire' = wire, NEW b \in Nat,
           env.astray = TRUE \/ env.dangling # {}, env.reforming = FALSE,
           env.step = "CHUNKED_DATA", env.chunk > b, env.chunkEnd <= env.chunk,
           NoMore(Stream, b, env.chunk), ParseChunkData
    PROVE  \/ /\ StrayOn(b)
              /\ b <= env.chunkEnd => (Blank(Stream, b) => Blank(Stream', b))
           \/ /\ http' = "recv" /\ Place' = Fill /\ env'.process = Fill /\ env'.step = env.step
              /\ Same(env, env')
<1> DEFINE P == env.chunk + env.chunkLen
<1>1. Fill = Len(env.buf) /\ Fill \in Nat /\ env.chunk \in Nat /\ env.chunkEnd \in Nat
      /\ env.chunkLen \in Nat /\ Len(Stream) \in Nat /\ Fill <= Len(Stream)
  BY EnvTypes, StreamOK DEF Has
<1>2. CASE http' = "parse" /\ env'.step = "CHUNKED_SIZE" /\ Moved /\ Place' = P + Gap(P)
  <2>1. Gap(P) \in Nat
    BY DEF Gap
  <2> DEFINE q == env.chunk
             w == env.chunkEnd
             l == env.chunkLen
             u == Stream'
             s == Stream
             r == Place'
             g == Gap(P)
  <2>2. q \in Nat /\ w \in Nat /\ l \in Nat /\ g \in Nat /\ b < q /\ w <= q /\ Len(s) \in Nat
    BY <1>1, <2>1
  <2>3. /\ Len(u) = Len(s)
        /\ \A j \in 1 .. Len(s) : j <= w \/ j > w + l => u[j] = s[j]
        /\ SplitsEnd(env'.buf) => SplitsEnd(env.buf)
    BY <1>2, MovedStream
  <2>4. r = q + l + g
    BY <1>2
  <2>5. env'.chunkEnd = w + l /\ env'.astray = TRUE /\ env'.reforming = FALSE /\ Len(env'.buf) = Fill
    BY <1>2 DEF Moved
  <2>6. NoMore(s, b, q)
    OBVIOUS
  <2> HIDE DEF q, w, l, u, s, r, g, P
  <2>7. r > b /\ w + l <= r /\ q <= r /\ r \in Nat
    BY <2>2, <2>4
  <2>8. ASSUME NEW k \in 1 .. Len(u) - 1, k > b + 1, k > r, u[k] = "H" PROVE u[k + 1] # "sp"
    <3> DEFINE n == k + 1
    <3>1. k \in 1 .. Len(s) - 1 /\ k \in 1 .. Len(s) /\ n \in 1 .. Len(s) /\ k > w + l /\ n > w + l /\ k > q
      BY <2>2, <2>3, <2>7, <2>8
    <3> HIDE DEF n
    <3>2. u[k] = s[k] /\ u[n] = s[n]
      BY <2>3, <3>1
    <3>3. s[k + 1] # "sp"
      BY <2>6, <2>8, <3>1, <3>2 DEF NoMore
    <3> QED
      BY <3>2, <3>3 DEF n
  <2>9. NoMore(u, b, r)
    BY <2>8 DEF NoMore
  <2>10. Astray(env', Place', Stream', b)
    BY <1>2, <2>5, <2>7, <2>9 DEF Astray, r, u
  <2>11. ASSUME b <= w, Blank(s, b) PROVE Blank(u, b)
    <3>1. \A j \in 1 .. Len(s) : j <= b => j <= w
      BY <2>2, <2>11
    <3> QED
      BY <2>3, <2>11, <3>1 DEF Blank
  <2> QED
    BY <1>2, <2>3, <2>5, <2>10, <2>11 DEF StrayOn, w, s, u
<1>3. CASE UsesFreed
  <2>1. Stream' = Stream /\ Len(env'.buf) = Fill
    BY <1>1, <1>3 DEF Stream, UsesFreed
  <2>2. CASE http' = "recv" /\ env'.step = env.step
    <3>1. Astray(env', Place', Stream', b)
      BY <1>3, <2>1, <2>2 DEF Astray, UsesFreed
    <3> QED
      BY <1>3, <2>1, <2>2, <3>1 DEF StrayOn, UsesFreed
  <2>3. CASE http' = "parse" /\ env'.step = "CHUNKED_SIZE" /\ Place' \in env.chunk .. Fill
    <3> DEFINE r == Place'
    <3>1. r \in Nat /\ r > b /\ env.chunkEnd <= r /\ env.chunk <= r
      BY <1>1, <2>3
    <3> HIDE DEF r
    <3>2. NoMore(Stream, b, r)
      BY <1>1, <3>1 DEF NoMore
    <3>3. Astray(env', Place', Stream', b)
      BY <1>3, <2>1, <2>3, <3>1, <3>2 DEF Astray, UsesFreed, r
    <3> QED
      BY <1>3, <2>1, <2>3, <3>3 DEF StrayOn, UsesFreed
  <2> QED
    BY <1>3, <2>2, <2>3, <2>1 DEF UsesFreed
<1> HIDE DEF P
<1>4. \/ http' = "parse" /\ env'.step = "CHUNKED_SIZE" /\ Moved /\ Place' = P + Gap(P)
      \/ /\ http' = "recv" /\ Place' = Fill /\ env'.process = Fill /\ env'.step = env.step
         /\ Same(env, env')
      \/ UsesFreed
  BY ChunkDataIs DEF P
<1> QED
  BY <1>2, <1>3, <1>4

\* No digits make no number.
LEMMA EmptyNumber ==
    ASSUME NEW x, Len(x) = 0
    PROVE  Number(0, x) = 0
<1>1. PICK f : Number(0, x) = f[Len(x)] /\ (Len(x) \in Nat => Reads(f, 0, x, Len(x)))
  BY NumberReads
<1>2. f[0] = 0
  <2>1. 0 \in 0 .. 0
    OBVIOUS
  <2> QED
    BY <1>1, <2>1 DEF Reads
<1> QED
  BY <1>1, <1>2

\* CHUNKED_SIZE
LEMMA ChunkSizeStep ==
    ASSUME EnvOK(env), wire \in Seq(Characters), wire' = wire, NEW a \in Answers, NEW b \in Nat,
           InBody(a, env, env.p, Stream, b), env.step = "CHUNKED_SIZE", ParseChunkSize
    PROVE  BodyOutcome(a, b)
<1>1. /\ env.p \in Nat /\ env.p <= Fill /\ Fill \in Nat /\ Fill = Len(env.buf) /\ env.body \in Nat
      /\ env.length \in Nat /\ env.chunkEnd \in Nat /\ env.chunkLen \in Nat
  BY EnvTypes
<1>2. /\ env.astray = FALSE /\ env.reforming = FALSE /\ env.status = a.status /\ env.body = b + a.head
      /\ a.chunked
  BY DEF InBody
<1>3. PICK k \in 1 .. Len(a.chunks) : InChunk(a, env, env.p, Stream, b, k)
  BY DEF InBody
<1> DEFINE c == a.chunks[k]
<1>4. /\ c.size \in Nat /\ c.data \in Nat /\ c.length \in Nat /\ c.at \in Nat /\ Len(a.chunks) \in Nat
      /\ ChunkOK(a, k) /\ a.head \in Nat /\ 1 <= a.head
  BY <1>2, ChunkShape, AnswerShape
<1>5. /\ env.length = c.at /\ env.chunkEnd = env.body + c.at /\ env.chunkEnd <= b + c.size
      /\ \A j \in 1 .. c.at : Stream[env.body + j] = a.body[j]
      /\ env.p \in b + c.size .. b + c.data - 1
      /\ env.chunkLen = Number(0, Piece(a.text, c.size, env.p - b - c.size))
      /\ Carries(a, Stream, b, env.p)
  BY <1>3 DEF InChunk
<1>6. /\ c.size < c.data /\ c.data <= Len(a.text)
      /\ Free(a.text, c.size, c.data - 1, {"lf"}) /\ a.text[c.data] = "lf"
      /\ Number(0, Piece(a.text, c.size, c.data - 1 - c.size)) = c.length
      /\ IF k = Len(a.chunks) THEN c.length = 0 /\ c.at = Len(a.body) ELSE c.length > 0
  BY <1>4 DEF ChunkOK
<1>7. Has(Stream) /\ Stream \in Seq(Characters) /\ Len(Stream) \in Nat /\ a.text \in Seq(Characters)
      /\ Len(a.text) \in Nat /\ \A i \in 1 .. Fill : env.buf[i] = Stream[i]
  BY StreamOK, AnswerText DEF Has
<1> DEFINE p == Find(env.p, {"lf"})
           x == c.data - 1
           q == env.p
           s == Stream
           z == c.size
<1> DEFINE d == c.data
           f == Fill
           o == env.body
           h == a.head
<1> HIDE DEF c
<1>0. /\ z \in Nat /\ d \in Nat /\ z < d /\ q \in Nat /\ b + z <= q /\ q <= b + d - 1 /\ q <= f /\ f \in Nat
      /\ b + 1 <= b + z /\ o \in Nat /\ c.at \in Nat /\ o + c.at <= b + z /\ x \in Nat /\ x + 1 = d
  <2>1. o \in Nat /\ c.at \in Nat /\ h \in Nat /\ 1 <= h /\ o = b + h /\ z \in Nat /\ o + c.at <= b + z
    BY <1>1, <1>2, <1>4, <1>5
  <2>2. z \in Nat /\ d \in Nat /\ z < d /\ q \in Nat /\ q \in b + z .. b + d - 1 /\ q <= f /\ f \in Nat
    BY <1>1, <1>4, <1>5, <1>6
  <2> DEFINE v == c.at
  <2>3. o \in Nat /\ v \in Nat /\ h \in Nat /\ 1 <= h /\ o = b + h /\ o + v <= b + z
    BY <2>1
  <2> HIDE DEF z, d, q, f, o, h, v
  <2>4. z \in Nat /\ d \in Nat /\ z < d /\ q \in Nat /\ b + z <= q /\ q <= b + d - 1 /\ q <= f /\ f \in Nat
    BY <2>2
  <2>5. b + 1 <= b + z /\ o \in Nat /\ v \in Nat /\ o + v <= b + z
    BY <2>2, <2>3
  <2>6. d - 1 \in Nat /\ d - 1 + 1 = d
    BY <2>2
  <2> QED
    BY <2>4, <2>5, <2>6 DEF v, d
<1>8. /\ p \in Nat
      /\ \/ p = b + x /\ b + x < Fill
         \/ p = Fill /\ Fill <= b + x
  <2>1. x \in Nat /\ q \in Nat /\ q <= Fill /\ b <= q /\ q <= b + x /\ Carries(a, s, b, q) /\ Has(s)
        /\ q <= q
    <3>1. Carries(a, s, b, q) /\ Has(s)
      BY <1>5, <1>7
    <3> HIDE DEF z, d, q, f, o, h, s, x
    <3>2. x \in Nat /\ q \in Nat /\ q <= f /\ b <= q /\ q <= b + x /\ q <= q
      BY <1>0
    <3> QED
      BY <3>1, <3>2 DEF f
  <2>2. Free(a.text, q - b, x, {"lf"}) /\ a.text[x + 1] \in {"lf"}
    <3> HIDE DEF z, d, q, f, o, h, x
    <3>1. \A j \in q - b + 1 .. x : j \in z + 1 .. x
      BY <1>0
    <3>2. Free(a.text, z, x, {"lf"}) /\ a.text[d] = "lf"
      BY <1>6 DEF z, x, d
    <3> QED
      BY <1>0, <3>1, <3>2 DEF Free
  <2> DEFINE chars == {"lf"}
  <2>3. Free(a.text, q - b, x, chars) /\ a.text[x + 1] \in chars
    BY <2>2
  <2> HIDE DEF chars, q, s, x
  <2>4. /\ Find(q, chars) \in Nat
        /\ \/ Find(q, chars) = b + x /\ b + x < Fill /\ At(b + x) = a.text[x + 1]
           \/ Find(q, chars) = Fill /\ Fill <= b + x
    BY <2>1, <2>3, FindsThere
  <2> QED
    BY <2>4 DEF chars, q
<1>9. p \in Nat /\ q <= p /\ p <= f
  <2> HIDE DEF p, z, d, q, f, o, h, x
  <2>1. p \in Nat /\ ((p = b + x /\ b + x < f) \/ (p = f /\ f <= b + x))
    BY <1>8 DEF f
  <2> QED
    BY <1>0, <2>1
<1> DEFINE n == Number(env.chunkLen, Text(env.p, p - env.p))
<1>10. n = Number(0, Piece(a.text, z, p - b - z))
  <2> HIDE DEF p
  <2> DEFINE i == q - b
             m == p - q
             l == i - z
  <2>1. i \in Nat /\ m \in Nat /\ l \in Nat /\ z \in Nat /\ q \in Nat /\ b + i + m <= f /\ q <= b + i
        /\ b + i = q /\ z + l = i /\ l + m = p - b - z /\ z + l + m = i + m
    <3> HIDE DEF z, d, q, f, o, h, x
    <3>1. i \in Nat /\ m \in Nat /\ l \in Nat
      BY <1>0, <1>9
    <3>2. b + i = q /\ z + l = i /\ z + l + m = i + m
      BY <1>0, <1>9
    <3>3. l + m = p - b - z /\ b + i + m <= f /\ q <= b + i
      BY <1>0, <1>9
    <3> QED
      BY <1>0, <3>1, <3>2, <3>3
  <2>2. q - b - c.size = l
    OBVIOUS
  <2> HIDE DEF i, m, l, q, s, z
  <2>3. Text(b + i, m) = Piece(a.text, i, m) /\ i + m <= Len(a.text)
    <3>1. Carries(a, s, b, q) /\ Has(s)
      BY <1>5, <1>7 DEF s, q
    <3>2. b + i + m <= Fill
      BY <2>1 DEF f
    <3> HIDE DEF f
    <3> QED
      BY <2>1, <3>1, <3>2, TextIs
  <2>4. Number(Number(0, Piece(a.text, z, l)), Piece(a.text, z + l, m)) = Number(0, Piece(a.text, z, l + m))
    <3> DEFINE y == a.text
    <3>1. y \in Seq(Characters) /\ z + l + m <= Len(y)
      BY <1>7, <2>1, <2>3
    <3> HIDE DEF y
    <3>2. Number(Number(0, Piece(y, z, l)), Piece(y, z + l, m)) = Number(0, Piece(y, z, l + m))
      <4>1. z \in Nat /\ l \in Nat /\ m \in Nat /\ 0 \in Nat
        BY <2>1
      <4> QED
        BY <3>1, <4>1, NumberMore
    <3> QED
      BY <3>2 DEF y
  <2>5. env.chunkLen = Number(0, Piece(a.text, z, l))
    BY <1>5, <2>2 DEF z, q
  <2>6. Text(env.p, p - env.p) = Piece(a.text, z + l, m)
    BY <2>1, <2>3 DEF q, m
  <2> QED
    BY <2>1, <2>4, <2>5, <2>6
<1>11. \/ /\ p = Fill /\ http' = "recv" /\ Place' = p /\ env'.process = p
          /\ env'.step = "CHUNKED_SIZE" /\ Sized(n)
       \/ p < Fill /\ n = 0 /\ SizedLast(p + 1)
       \/ /\ p < Fill /\ n # 0 /\ http' = "parse" /\ Place' = p + 1
          /\ env'.step = "CHUNKED_DATA" /\ env'.chunk = p + 1 /\ Sized(n)
  BY ChunkSizeIs
<1>12. p < Fill => p = b + x /\ n = c.length
  <2>1. p < Fill => p = b + x
    BY <1>1, <1>8
  <2>2. p = b + x => p - b - z = c.data - 1 - c.size
    BY <1>4
  <2> QED
    BY <1>6, <1>10, <2>1, <2>2
<1> HIDE DEF p, n, q, s, x, z, d, f, o, h
<1>16. p < f => p + 1 = b + d
  <2>1. p < f => p = b + x
    BY <1>8, <1>12 DEF f
  <2> QED
    BY <1>0, <1>9, <2>1
<1>13. CASE /\ p = Fill /\ http' = "recv" /\ Place' = p /\ env'.process = p
            /\ env'.step = "CHUNKED_SIZE" /\ Sized(n)
  <2>1. Stream' = Stream /\ Len(env'.buf) = Fill
    BY <1>1, <1>13 DEF Stream, Sized
  <2>2. p \in b + z .. b + d - 1
    <3>1. p = f /\ f <= b + x
      BY <1>0, <1>8, <1>13 DEF f
    <3> QED
      BY <1>0, <1>9, <3>1
  <2>3. Carries(a, Stream, b, p)
    <3>1. Carries(a, Stream, b, q) /\ Len(Stream) \in Nat
      BY <1>5, <1>7 DEF q
    <3> QED
      BY <1>0, <1>9, <3>1 DEF Carries
  <2>4. env'.process > 0
    <3>1. p > 0
      BY <1>0, <1>9
    <3> QED
      BY <1>13, <3>1
  <2>5. InChunk(a, env', Place', Stream, b, k)
    BY <1>5, <1>10, <1>13, <2>2, <2>3 DEF InChunk, Sized, c, z, d
  <2>6. InBody(a, env', Place', Stream', b)
    BY <1>2, <1>13, <2>1, <2>5 DEF InBody, Sized
  <2> QED
    BY <1>2, <1>13, <2>1, <2>4, <2>6 DEF BodyOutcome, Sized
<1>14. CASE p < Fill /\ n = 0 /\ SizedLast(p + 1)
  <2> DEFINE r == p + 1
  <2>1. r \in Nat /\ r <= Fill /\ r = b + d
    <3>1. p < f
      BY <1>14 DEF f
    <3>2. r \in Nat /\ r <= f /\ r = b + d
      BY <1>0, <1>9, <1>16, <3>1
    <3> QED
      BY <3>2 DEF f
  <2> HIDE DEF r
  <2>2. PICK e : /\ EnvOK(e) /\ Done(e, r, TRUE) /\ e.buf = env.buf /\ e.astray = env.astray
                 /\ e.status = env.status /\ e.length = env.length /\ e.body = env.body
    BY <1>14 DEF SizedLast, r
  <2>3. /\ http' = "done" /\ env'.astray = env.astray /\ env'.status = env.status
        /\ env'.body = env.body /\ env'.length = env.length
        /\ env'.buf \in Seq(Characters) /\ Len(env'.buf) = Fill
        /\ \A i \in 1 .. Fill : i # r + 1 => env'.buf[i] = env.buf[i]
    BY <2>1, <2>2, DoneFields
  <2>4. Quiet(Kept')
    <3>1. NoMore(Stream, b, env.p)
      BY <1>1, <1>5, <1>7, CarriesNoMore
    <3>2. \A i \in 1 .. Len(Stream) - 1 : i > r /\ Stream[i] = "H" => Stream[i + 1] # "sp"
      <4>1. b + 1 <= r /\ env.p <= r
        <5>1. b + 1 <= r /\ q <= r
          BY <1>0, <2>1
        <5> QED
          BY <5>1 DEF q
      <4>2. \A i \in 1 .. Len(Stream) - 1 : i > r => i > b + 1 /\ i > env.p
        BY <1>1, <1>7, <2>1, <4>1
      <4> QED
        BY <3>1, <4>2 DEF NoMore
    <3> QED
      BY <2>1, <2>2, <3>2, DoneKept
  <2>5. k = Len(a.chunks) /\ c.at = Len(a.body)
    BY <1>4, <1>6, <1>12, <1>14
  <2>6. Right(a)
    <3> DEFINE i == env.body
               t == env'.buf
               w == Len(a.body)
    <3>1. i \in Nat /\ w \in Nat /\ i + w < r
      <4>1. o + c.at <= b + z /\ b + z < r /\ w = c.at
        BY <1>0, <2>1, <2>5
      <4> HIDE DEF w
      <4>2. o \in Nat /\ w \in Nat /\ o + w < r
        BY <1>0, <2>1, <4>1
      <4> QED
        BY <4>2 DEF o
    <3>2. ASSUME NEW j \in 1 .. Len(a.body) PROVE t[i + j] = a.body[j]
      <4>1. i + j \in 1 .. Fill /\ i + j # r + 1
        <5> HIDE DEF i, w
        <5>1. j \in 1 .. w /\ r <= f /\ f \in Nat
          BY <1>1, <2>1 DEF w, f
        <5>2. i + j \in 1 .. f /\ i + j # r + 1
          BY <2>1, <3>1, <5>1
        <5> QED
          BY <5>2 DEF f
      <4>2. t[i + j] = Stream[i + j]
        BY <1>7, <2>3, <4>1
      <4>3. Stream[i + j] = a.body[j]
        BY <1>5, <2>5
      <4> QED
        BY <4>2, <4>3
    <3>3. i + w <= Len(t) /\ t \in Seq(Characters)
      <4> HIDE DEF i, w
      <4>1. Len(t) = f /\ f \in Nat /\ r <= f
        BY <1>1, <2>1, <2>3 DEF f
      <4> QED
        BY <2>1, <2>3, <3>1, <4>1
    <3> HIDE DEF i, t
    <3>4. SubSeq(t, i + 1, i + Len(a.body)) = a.body
      BY <3>1, <3>2, <3>3, BodyIs
    <3> QED
      BY <1>2, <1>5, <2>3, <2>5, <3>4 DEF Right, i, t
  <2> QED
    BY <1>2, <2>3, <2>4, <2>6 DEF BodyOutcome, Ended
<1>15. CASE /\ p < Fill /\ n # 0 /\ http' = "parse" /\ Place' = p + 1
            /\ env'.step = "CHUNKED_DATA" /\ env'.chunk = p + 1 /\ Sized(n)
  <2>1. Stream' = Stream /\ Len(env'.buf) = Fill
    BY <1>1, <1>15 DEF Stream, Sized
  <2> DEFINE r == p + 1
  <2>2. r \in Nat /\ r = b + d /\ q <= r
    <3>1. p < f
      BY <1>15 DEF f
    <3> QED
      BY <1>0, <1>9, <1>16, <3>1
  <2> HIDE DEF r
  <2>3. Carries(a, Stream, b, r)
    <3>1. Carries(a, Stream, b, q) /\ Len(Stream) \in Nat
      BY <1>5, <1>7 DEF q
    <3> QED
      BY <1>0, <2>2, <3>1 DEF Carries
  <2>4. k < Len(a.chunks)
    BY <1>4, <1>6, <1>12, <1>15
  <2>5. Place' = r /\ env'.chunk = r
    BY <1>15 DEF r
  <2>6. InChunk(a, env', Place', Stream, b, k)
    BY <1>5, <1>12, <1>15, <2>2, <2>3, <2>4, <2>5 DEF InChunk, Sized, c, d
  <2>7. InBody(a, env', Place', Stream', b)
    BY <1>2, <2>1, <2>6, <1>15 DEF InBody, Sized
  <2> QED
    BY <1>2, <1>15, <2>1, <2>7 DEF BodyOutcome, Sized
<1> QED
  BY <1>11, <1>13, <1>14, <1>15

\* What is in a chunk is in the body.
LEMMA ChunkBody ==
    ASSUME NEW a \in Answers, a.chunked, NEW k \in 1 .. Len(a.chunks), k < Len(a.chunks),
           NEW i \in 1 .. a.chunks[k].length
    PROVE  /\ a.chunks[k].data + i <= Len(a.text)
           /\ a.text[a.chunks[k].data + i] = a.body[a.chunks[k].at + i]
<1> DEFINE d == a.chunks[k].data
           l == a.chunks[k].length
           v == a.chunks[k].at
           C == {a.body[j] : j \in DOMAIN a.body}
           x == a.text
           y == a.body
<1>1. d \in Nat /\ l \in Nat /\ v \in Nat /\ Len(a.chunks) \in Nat /\ ChunkOK(a, k)
  BY ChunkShape
<1>2. v + l <= Len(y) /\ Piece(x, d, l) = Piece(y, v, l) /\ d <= Len(x)
  BY <1>1 DEF ChunkOK
<1>3. x[d + l + 1] \in {"cr", "lf"}
  <2>1. x[d + l + 1] = "cr" \/ x[d + l + 1] = "lf"
    BY <1>1 DEF ChunkOK
  <2> QED
    BY <2>1
<1>4. y \in Seq(C) /\ x \in Seq(Characters) /\ Len(x) \in Nat
  BY AnswerAssumption, AnswerText DEF IsText
<1> HIDE DEF d, l, v, C, x, y
<1>5. \A j \in 1 .. l : Piece(y, v, l)[j] = y[v + j]
  BY <1>1, <1>2, <1>4, PieceOK
<1>6. d + l <= Len(x)
  <2>1. a.chunks[k + 1].size = d + l + 1 \/ a.chunks[k + 1].size = d + l + 2
    BY <1>1 DEF ChunkOK, d, l
  <2>2. /\ k + 1 \in 1 .. Len(a.chunks)
        /\ a.chunks[k + 1].size \in Nat /\ a.chunks[k + 1].data \in Nat /\ ChunkOK(a, k + 1)
    <3>1. k + 1 \in 1 .. Len(a.chunks)
      BY <1>1
    <3> DEFINE n == k + 1
    <3>2. n \in 1 .. Len(a.chunks)
      BY <3>1
    <3> HIDE DEF n
    <3>3. a.chunks[n].size \in Nat /\ a.chunks[n].data \in Nat /\ ChunkOK(a, n)
      BY <3>2, ChunkShape
    <3> QED
      BY <3>1, <3>3 DEF n
  <2>3. a.chunks[k + 1].size < a.chunks[k + 1].data /\ a.chunks[k + 1].data <= Len(x)
    BY <2>2 DEF ChunkOK, x
  <2> DEFINE z == a.chunks[k + 1].size
             w == a.chunks[k + 1].data
  <2>4. z \in Nat /\ w \in Nat /\ z < w /\ w <= Len(x) /\ (z = d + l + 1 \/ z = d + l + 2)
    BY <2>1, <2>2, <2>3
  <2> HIDE DEF z, w
  <2> QED
    BY <1>1, <1>4, <2>4
<1>7. \A j \in 1 .. l : Piece(x, d, l)[j] = x[d + j]
  BY <1>1, <1>4, <1>6, PieceOK
<1>8. i \in 1 .. l
  BY DEF l
<1>9. d + i <= Len(x) /\ x[d + i] = y[v + i]
  BY <1>1, <1>2, <1>4, <1>5, <1>6, <1>7, <1>8
<1> QED
  BY <1>9 DEF d, l, v, x, y

\* CHUNKED_DATA: the chunk is put behind those before it.
LEMMA ChunkDataStep ==
    ASSUME EnvOK(env), wire \in Seq(Characters), wire' = wire, NEW a \in Answers, NEW b \in Nat,
           InBody(a, env, env.p, Stream, b), env.step = "CHUNKED_DATA", ParseChunkData
    PROVE  BodyOutcome(a, b)
<1>1. /\ env.p \in Nat /\ env.p <= Fill /\ Fill \in Nat /\ Fill = Len(env.buf) /\ env.body \in Nat
      /\ env.length \in Nat /\ env.chunkEnd \in Nat /\ env.chunkLen \in Nat
  BY EnvTypes
<1>2. /\ env.astray = FALSE /\ env.reforming = FALSE /\ env.status = a.status /\ env.body = b + a.head
      /\ a.chunked
  BY DEF InBody
<1>3. PICK k \in 1 .. Len(a.chunks) : InChunk(a, env, env.p, Stream, b, k)
  BY DEF InBody
<1> DEFINE c == a.chunks[k]
<1>4. /\ c.size \in Nat /\ c.data \in Nat /\ c.length \in Nat /\ c.at \in Nat /\ Len(a.chunks) \in Nat
      /\ ChunkOK(a, k) /\ a.head \in Nat /\ 1 <= a.head
  BY <1>2, ChunkShape, AnswerShape
<1>5. /\ env.length = c.at /\ env.chunkEnd = env.body + c.at /\ env.chunkEnd <= b + c.size
      /\ \A j \in 1 .. c.at : Stream[env.body + j] = a.body[j]
      /\ env.chunk = b + c.data /\ env.chunk <= env.p /\ k < Len(a.chunks)
      /\ env.chunkLen = c.length /\ Carries(a, Stream, b, env.chunk)
  BY <1>3 DEF InChunk
<1> DEFINE N == a.chunks[k + 1]
           z == c.size
           d == c.data
           l == c.length
           v == c.at
           f == Fill
           o == env.body
           h == a.head
           s == Stream
           q == env.chunk
           w == env.chunkEnd
           P == q + l
<1>6. /\ c.size < c.data /\ c.data <= Len(a.text) /\ c.length > 0 /\ N.at = c.at + c.length
      /\ \/ /\ a.text[d + l + 1] = "cr" /\ a.text[d + l + 2] = "lf"
            /\ N.size = d + l + 2
         \/ a.text[d + l + 1] = "lf" /\ N.size = d + l + 1
  <2>1. k # Len(a.chunks)
    BY <1>4, <1>5
  <2> QED
    BY <1>4, <2>1 DEF ChunkOK
<1>7. Has(Stream) /\ Stream \in Seq(Characters) /\ Len(Stream) \in Nat /\ a.text \in Seq(Characters)
      /\ Len(a.text) \in Nat /\ Fill <= Len(Stream)
  BY StreamOK, AnswerText DEF Has
<1>8. k + 1 \in 1 .. Len(a.chunks) /\ N.size \in Nat /\ N.data \in Nat /\ N.size < N.data
  <2> DEFINE n == k + 1
  <2>1. n \in 1 .. Len(a.chunks)
    BY <1>4, <1>5
  <2> HIDE DEF n
  <2>2. a.chunks[n].size \in Nat /\ a.chunks[n].data \in Nat /\ ChunkOK(a, n)
    BY <1>2, <2>1, ChunkShape
  <2>3. a.chunks[n].size < a.chunks[n].data
    BY <2>2 DEF ChunkOK
  <2> QED
    BY <2>1, <2>2, <2>3 DEF n
<1> HIDE DEF c
<1>0. /\ z \in Nat /\ d \in Nat /\ z < d /\ q \in Nat /\ q = b + d /\ q <= f /\ f \in Nat
      /\ b < o /\ o \in Nat /\ v \in Nat /\ w = o + v /\ w \in Nat /\ w < q /\ l \in Nat /\ l > 0
      /\ P \in Nat /\ P = b + (d + l)
  <2>1. o \in Nat /\ v \in Nat /\ h \in Nat /\ 1 <= h /\ o = b + h /\ z \in Nat /\ w = o + v /\ w <= b + z
    BY <1>1, <1>2, <1>4, <1>5
  <2>2. z \in Nat /\ d \in Nat /\ z < d /\ q = b + d /\ q <= env.p /\ env.p \in Nat /\ env.p <= f
        /\ f \in Nat /\ l \in Nat /\ l > 0
    BY <1>1, <1>4, <1>5, <1>6
  <2> HIDE DEF z, d, l, v, f, o, h, q, w
  <2>3. q \in Nat /\ q <= f /\ w \in Nat /\ w < q /\ b < o
    BY <2>1, <2>2
  <2>4. P \in Nat /\ P = b + (d + l)
    BY <2>2
  <2> HIDE DEF P
  <2> QED
    BY <2>1, <2>2, <2>3, <2>4
<1>9. \/ /\ http' = "parse" /\ env'.step = "CHUNKED_SIZE" /\ Moved
         /\ Place' = P + Gap(P)
      \/ /\ http' = "recv" /\ Place' = Fill /\ env'.process = Fill /\ env'.step = env.step
         /\ Same(env, env')
      \/ env.dangling # {}
  <2>1. env.chunk + env.chunkLen = P
    BY <1>5 DEF c
  <2> HIDE DEF P
  <2> QED
    BY <2>1, ChunkDataIs DEF UsesFreed
<1> HIDE DEF N, z, d, l, v, f, o, h, s, q, w, P
<1>10. CASE /\ http' = "recv" /\ Place' = Fill /\ env'.process = Fill /\ env'.step = env.step
            /\ Same(env, env')
  <2>1. Stream' = Stream /\ Len(env'.buf) = Fill
    BY <1>1, <1>10 DEF Stream, Same
  <2>2. env'.process > 0 /\ env.chunk <= Fill
    <3>1. f > 0 /\ q <= f
      BY <1>0
    <3> QED
      BY <1>10, <3>1 DEF f, q
  <2>3. InChunk(a, env', Place', Stream, b, k)
    BY <1>5, <1>10, <2>2 DEF InChunk, Same, c
  <2>4. InBody(a, env', Place', Stream', b)
    BY <1>2, <1>10, <2>1, <2>3 DEF InBody, Same
  <2> QED
    BY <1>2, <1>10, <2>1, <2>2, <2>4 DEF BodyOutcome, Same
<1>12. CASE env.dangling # {}
  <2>1. q = env.chunk /\ w = env.chunkEnd /\ env.chunk \in Nat
    BY <1>0 DEF q, w
  <2>2. env.chunk > b /\ env.chunkEnd <= env.chunk /\ b <= env.chunkEnd
    <3>1. q > b /\ w <= q /\ b <= w
      BY <1>0
    <3> QED
      BY <2>1, <3>1
  <2>3. NoMore(Stream, b, env.chunk)
    BY <1>5, <1>7, <2>1, CarriesNoMore
  <2>4. \/ StrayOn(b) /\ (Blank(Stream, b) => Blank(Stream', b))
        \/ /\ http' = "recv" /\ Place' = Fill /\ env'.process = Fill /\ env'.step = env.step
           /\ Same(env, env')
    BY <1>2, <1>12, <2>2, <2>3, DataStrays
  <2> QED
    BY <1>2, <1>10, <2>4 DEF BodyOutcome
<1>11. CASE /\ http' = "parse" /\ env'.step = "CHUNKED_SIZE" /\ Moved
            /\ Place' = P + Gap(P) /\ env.dangling = {}
  <2> DEFINE g == N.size
             u == Stream'
             r == Place'
  <2>1. P + 2 <= f /\ P \in Nat /\ P + 1 < Fill /\ P < Fill
    <3>1. env.chunk + env.chunkLen + 2 <= Fill
      BY <1>11 DEF Moved
    <3>2. q + l + 2 <= f
      BY <1>5, <3>1 DEF q, l, f, c
    <3>3. P + 2 <= f
      BY <1>0, <3>2 DEF P
    <3>4. P + 1 < f /\ P < f
      BY <1>0, <3>3
    <3> QED
      BY <1>0, <3>3, <3>4 DEF f
  <2>2. At(P) = a.text[d + l + 1] /\ At(P + 1) = a.text[d + l + 2]
    <3>1. \A j \in Nat : j < Fill /\ j >= b /\ j >= q => At(j) = a.text[j - b + 1]
      <4>1. Carries(a, s, b, q) /\ Has(s)
        BY <1>5, <1>7 DEF s, q
      <4> QED
        BY <1>0, <4>1, InAnswer
    <3> DEFINE r1 == P + 1
               n1 == P - b + 1
               n2 == r1 - b + 1
    <3>2. /\ P >= b /\ P >= q /\ r1 \in Nat /\ r1 >= b /\ r1 >= q
          /\ n1 = d + l + 1 /\ n2 = d + l + 2
      <4>1. P >= b /\ P >= q
        BY <1>0 DEF P
      <4> QED
        BY <1>0, <4>1
    <3>3. r1 < Fill
      BY <2>1
    <3>4. At(P) = a.text[n1]
      BY <2>1, <3>1, <3>2
    <3> HIDE DEF r1
    <3>5. At(r1) = a.text[n2]
      BY <3>1, <3>2, <3>3
    <3> HIDE DEF n1, n2
    <3>6. At(P) = a.text[d + l + 1]
      BY <3>2, <3>4
    <3>7. At(r1) = a.text[d + l + 2]
      BY <3>2, <3>5
    <3> QED
      BY <3>6, <3>7 DEF r1
  <2>3. r = b + g /\ g \in Nat /\ P <= r /\ r \in Nat
    <3>1. CASE a.text[d + l + 1] = "cr" /\ a.text[d + l + 2] = "lf" /\ N.size = d + l + 2
      <4>1. Gap(P) = 2
        BY <2>1, <2>2, <3>1 DEF Gap
      <4>2. r = P + 2 /\ g = d + l + 2
        BY <1>11, <3>1, <4>1
      <4> HIDE DEF g, r
      <4> QED
        BY <1>0, <4>2
    <3>2. CASE a.text[d + l + 1] = "lf" /\ N.size = d + l + 1
      <4>1. Gap(P) = 1
        BY <2>1, <2>2, <3>2 DEF Gap
      <4>2. r = P + 1 /\ g = d + l + 1
        BY <1>11, <3>2, <4>1
      <4> HIDE DEF g, r
      <4> QED
        BY <1>0, <4>2
    <3> QED
      BY <1>6, <3>1, <3>2 DEF N, d, l, c
  <2>4. /\ u \in Seq(Characters) /\ Len(u) = Len(s)
        /\ \A j \in 1 .. Len(s) : j <= w \/ j > w + l => u[j] = s[j]
        /\ \A i \in 1 .. l : u[w + i] = s[q + i]
        /\ SplitsEnd(env'.buf) => SplitsEnd(env.buf)
    <3>1. env.chunkEnd <= env.chunk /\ l = env.chunkLen
      <4>1. w <= q
        BY <1>0
      <4> QED
        BY <1>5, <4>1 DEF w, q, l, c
    <3> QED
      BY <1>11, <3>1, MovedStream DEF w, q, s
  <2>5. /\ env'.length = v + l /\ env'.chunkEnd = w + l /\ env'.chunkLen = 0 /\ env'.astray = FALSE
        /\ env'.reforming = FALSE /\ env'.status = a.status /\ env'.body = env.body
        /\ Len(env'.buf) = Fill
    BY <1>2, <1>5, <1>11 DEF Moved, v, w, l, c
  <2> HIDE DEF g, u, r
  <2>6. /\ env'.length = N.at /\ env'.chunkEnd = env'.body + N.at /\ env'.chunkEnd <= b + N.size
    <3>1. N.at = v + l
      BY <1>6 DEF v, l, N, c
    <3>2. w + l = o + (v + l) /\ w + l <= b + g
      BY <1>0, <2>3 DEF P
    <3> QED
      BY <2>5, <3>1, <3>2 DEF o, g
  <2>7. ASSUME NEW j \in 1 .. v + l PROVE u[o + j] = a.body[j]
    <3>1. CASE j <= v
      <4>1. j \in 1 .. v /\ o + j \in 1 .. Len(s) /\ o + j <= w
        <5>1. f <= Len(s) /\ Len(s) \in Nat
          BY <1>7 DEF f, s
        <5> QED
          BY <1>0, <3>1, <5>1
      <4>2. s[o + j] = a.body[j]
        BY <1>5, <4>1 DEF s, o, v, c
      <4> DEFINE m == o + j
      <4> HIDE DEF m
      <4>3. m \in 1 .. Len(s) /\ m <= w
        BY <4>1 DEF m
      <4>4. u[m] = s[m]
        BY <2>4, <4>3
      <4> QED
        BY <4>2, <4>4 DEF m
    <3>2. CASE ~(j <= v)
      <4> DEFINE i == j - v
      <4>1. i \in 1 .. l /\ o + j = w + i /\ i \in Nat /\ v + i = j
        BY <1>0, <3>2
      <4> HIDE DEF i
      <4>2. u[w + i] = s[q + i]
        BY <2>4, <4>1
      <4>3. a.text[d + i] = a.body[v + i]
        <5>1. i \in 1 .. a.chunks[k].length
          BY <4>1 DEF l, c
        <5> QED
          BY <1>2, <1>5, <5>1, ChunkBody DEF d, v, c
      <4> DEFINE n == d + i
      <4>4. n \in Nat /\ n > 0 /\ b + n > q /\ b + n <= Len(s) /\ b + n = q + i
        <5>1. f <= Len(s) /\ Len(s) \in Nat
          BY <1>7 DEF f, s
        <5>2. q + l <= f
          BY <1>0, <2>1 DEF P
        <5> QED
          BY <1>0, <4>1, <5>1, <5>2
      <4> HIDE DEF n
      <4>5. s[b + n] = a.text[n]
        <5>1. Carries(a, s, b, q) /\ s \in Seq(Characters)
          BY <1>5, <1>7 DEF s, q
        <5> QED
          BY <1>0, <4>4, <5>1, CarriesAt
      <4>6. s[q + i] = a.text[n] /\ a.text[n] = a.body[j]
        BY <4>1, <4>3, <4>4, <4>5 DEF n
      <4> QED
        BY <4>1, <4>2, <4>6
    <3> QED
      BY <3>1, <3>2
  <2>8. Carries(a, u, b, r)
    <3>1. Len(s) <= b + Len(a.text) /\ Len(s) \in Nat
          /\ \A j \in 1 .. Len(s) : j > b /\ j > q => s[j] = a.text[j - b]
      BY <1>5, <1>7 DEF Carries, s, q
    <3>2. ASSUME NEW j \in 1 .. Len(s), j > b, j > r PROVE u[j] = a.text[j - b]
      <4>1. j > q /\ j > w + l
        BY <1>0, <2>3, <3>2 DEF P
      <4>2. u[j] = s[j]
        BY <2>4, <4>1
      <4> QED
        BY <3>1, <3>2, <4>1, <4>2
    <3> QED
      BY <2>4, <3>1, <3>2 DEF Carries
  <2>9. env'.chunkLen = Number(0, Piece(a.text, g, r - b - g))
    <3>1. r - b - g = 0
      BY <2>3
    <3>2. g <= Len(a.text)
      <4> DEFINE n == k + 1
      <4>1. n \in 1 .. Len(a.chunks)
        BY <1>8
      <4> HIDE DEF n
      <4>2. ChunkOK(a, n)
        BY <1>2, <4>1, ChunkShape
      <4>3. a.chunks[n].data <= Len(a.text)
        BY <4>2 DEF ChunkOK
      <4>4. N.data <= Len(a.text)
        BY <4>3 DEF n, N
      <4> DEFINE y == N.data
      <4>5. g < y /\ y <= Len(a.text) /\ y \in Nat
        BY <1>8, <4>4 DEF g
      <4> HIDE DEF y
      <4> QED
        BY <1>7, <2>3, <4>5
    <3>3. Len(Piece(a.text, g, 0)) = 0
      BY <1>7, <2>3, <3>2, PieceOK
    <3>4. Number(0, Piece(a.text, g, 0)) = 0
      BY <3>3, EmptyNumber
    <3> QED
      BY <2>5, <3>1, <3>4
  <2>10. InChunk(a, env', r, u, b, k + 1)
    <3>1. \A j \in 1 .. N.at : u[env'.body + j] = a.body[j]
      <4>1. N.at = v + l
        BY <1>6 DEF v, l, N, c
      <4> QED
        BY <2>5, <2>7, <4>1 DEF o
    <3>2. r \in b + N.size .. b + N.data - 1
      <4> DEFINE y == N.data
      <4>1. g \in Nat /\ y \in Nat /\ g < y
        BY <1>8 DEF g
      <4> HIDE DEF y
      <4>2. r \in b + g .. b + y - 1
        BY <2>3, <4>1
      <4> QED
        BY <4>2 DEF g, y
    <3> QED
      BY <1>11, <2>6, <2>8, <2>9, <3>1, <3>2 DEF InChunk, N, g
  <2>11. InBody(a, env', Place', Stream', b)
    BY <1>2, <1>8, <2>5, <2>10 DEF InBody, u, r
  <2>12. Blank(Stream, b) => Blank(Stream', b)
    <3>1. \A j \in 1 .. Len(s) : j <= b => j <= w
      BY <1>0
    <3> QED
      BY <2>4, <3>1 DEF Blank, s, u
  <2> QED
    BY <1>11, <2>4, <2>5, <2>11, <2>12 DEF BodyOutcome
<1> QED
  BY <1>9, <1>10, <1>11, <1>12

\* In the body of the answer the parser finds what is there.
LEMMA InBodyStep ==
    ASSUME EnvOK(env), wire \in Seq(Characters), wire' = wire, NEW a \in Answers, NEW b \in Nat,
           InBody(a, env, env.p, Stream, b), ParseHttpBuffer
    PROVE  BodyOutcome(a, b)
<1>1. env.step \in {"BODY", "CHUNKED_SIZE", "CHUNKED_DATA"}
  BY DEF InBody, InChunk
<1>2. \/ env.step = "BODY" /\ ParseBody
      \/ env.step = "CHUNKED_SIZE" /\ ParseChunkSize
      \/ env.step = "CHUNKED_DATA" /\ ParseChunkData
  BY <1>1, LabelIs
<1> QED
  BY <1>2, BodyStep, ChunkSizeStep, ChunkDataStep

-----------------------------------------------------------------------------
(* A parser that went astray *)

\* It is done; what is kept is no answer.
StrayDone == http' = "done" /\ Quiet(Kept') /\ env'.astray = TRUE

\* What a step comes to.
StrayOutcome(b) == Invalid \/ StrayOn(b) \/ StrayDone

\* It is among the headers, or what it takes for headers.
Strays(b) ==
    /\ env.astray = TRUE /\ env.reforming = FALSE
    /\ Blank(Stream, b) /\ b < Fill /\ Stream[b + 1] = "H" /\ NoMore(Stream, b, 0)

\* It goes on among the headers.
LEMMA StrayGoes ==
    ASSUME EnvOK(env), wire' = wire, NEW b \in Nat, Strays(b), NEW e, EnvOK(e),
           e.buf = env.buf, e.astray = TRUE, e.reforming = FALSE,
           NEW step \in {"HEADER_NAME0", "HEADER_NAME", "HEADER_VALUE0", "HEADER_VALUE"}, NEW p,
           step # "HEADER_NAME0" => p > b,
           Goto(e, step, p) \/ (NeedMore(e, p) /\ e.step = step)
    PROVE  StrayOn(b)
<1>1. /\ http' \in {"parse", "recv"} /\ Place' = p /\ Same(e, env') /\ env'.step = step
  BY GotoFields, MoreFields
<1>2. env'.buf = env.buf /\ Stream' = Stream /\ Len(env'.buf) = Fill
  BY <1>1 DEF Same, Stream, Fill
<1>3. Astray(env', Place', Stream', b)
  BY <1>1, <1>2 DEF Astray, Same, Strays
<1> QED
  BY <1>1, <1>2, <1>3 DEF StrayOn, Same

\* What is behind the answer is kept.
LEMMA StrayEnds ==
    ASSUME EnvOK(env), wire \in Seq(Characters), wire' = wire, NEW e, EnvOK(e), e.buf = env.buf,
           e.astray = TRUE, NEW b \in Nat, NEW m \in Nat, NoMore(Stream, b, m),
           NEW p \in Nat, p <= Fill, b < p, m <= p, NEW keeps \in BOOLEAN, Done(e, p, keeps)
    PROVE  StrayDone
<1>1. Len(Stream) \in Nat
  BY StreamOK DEF Has
<1>2. \A i \in 1 .. Len(Stream) - 1 : i > p /\ Stream[i] = "H" => Stream[i + 1] # "sp"
  <2>1. \A i \in 1 .. Len(Stream) - 1 : i > p => i > b + 1 /\ i > m
    BY <1>1
  <2> QED
    BY <2>1 DEF NoMore
<1>3. Quiet(Kept')
  BY <1>2, DoneKept
<1>4. http' = "done" /\ env'.astray = e.astray
  BY DoneFields
<1> QED
  BY <1>3, <1>4 DEF StrayDone

\* An empty line, or what is taken for one.
LEMMA StrayHeadersEnd ==
    ASSUME EnvOK(env), wire \in Seq(Characters), wire' = wire, NEW b \in Nat, Strays(b),
           NEW p \in Nat, p <= Fill, b < p, HeadersEnd(p)
    PROVE  StrayOutcome(b)
<1> DEFINE f == [env EXCEPT !.body = p]
           g == [env EXCEPT !.body = p, !.chunkEnd = p]
<1>1. env.length \in Nat /\ Fill \in Nat /\ Fill = Len(env.buf) /\ Len(Stream) \in Nat
  BY EnvTypes, StreamOK DEF Has
<1>2. \/ Goto(f, "BODY", p) \/ Goto(g, "CHUNKED_SIZE", p) \/ Done(env, p, FALSE)
  BY Zenon DEF HeadersEnd
<1>4. /\ EnvOK(f) /\ f.body = p /\ f.buf = env.buf /\ f.astray = env.astray /\ f.reforming = env.reforming
  BY <1>1 DEF EnvOK, EnvType
<1>5. /\ EnvOK(g) /\ g.chunkEnd = p /\ g.buf = env.buf /\ g.astray = env.astray /\ g.reforming = env.reforming
  BY <1>1 DEF EnvOK, EnvType
<1> HIDE DEF f, g
<1>6. CASE Goto(f, "BODY", p)
  <2>1. /\ http' = "parse" /\ Place' = p /\ Same(f, env') /\ env'.step = "BODY"
    BY <1>4, <1>6, GotoFields
  <2>2. Stream' = Stream /\ env'.buf = env.buf
    BY <1>4, <2>1 DEF Same, Stream
  <2> QED
    BY <1>1, <1>4, <2>1, <2>2 DEF StrayOutcome, StrayOn, Astray, Same, Strays
<1>7. CASE Goto(g, "CHUNKED_SIZE", p)
  <2>1. /\ http' = "parse" /\ Place' = p /\ Same(g, env') /\ env'.step = "CHUNKED_SIZE"
    BY <1>5, <1>7, GotoFields
  <2>2. Stream' = Stream /\ env'.buf = env.buf
    BY <1>5, <2>1 DEF Same, Stream
  <2>3. NoMore(Stream, b, p)
    <3>1. \A k \in 1 .. Len(Stream) - 1 : k > p => k > 0
      BY <1>1
    <3> QED
      BY <3>1 DEF NoMore, Strays
  <2> QED
    BY <1>1, <1>5, <2>1, <2>2, <2>3 DEF StrayOutcome, StrayOn, Astray, Same, Strays
<1>8. CASE Done(env, p, FALSE)
  <2>1. 0 \in Nat /\ 0 <= p /\ FALSE \in BOOLEAN
    OBVIOUS
  <2>2. StrayDone
    BY <1>8, <2>1, StrayEnds DEF Strays
  <2> QED
    BY <2>2 DEF StrayOutcome
<1> QED
  BY <1>2, <1>6, <1>7, <1>8

\* The steps, one by one.
LEMMA StrayName0 ==
    ASSUME EnvOK(env), wire \in Seq(Characters), wire' = wire, NEW b \in Nat, Strays(b),
           env.step = "HEADER_NAME0", ParseHeaderName0
    PROVE  StrayOutcome(b)
<1> DEFINE p == Skip(env.p)
           astray == [env EXCEPT !.astray = @ \/ env.process < p]
           named == [env EXCEPT !.name = p]
<1>1. Fill = Len(env.buf) /\ Fill \in Nat /\ env.p \in Nat /\ env.p <= Fill /\ env.process \in Nat
      /\ env.process <= Fill
  BY EnvTypes
<1>2. /\ p \in Nat /\ env.p <= p /\ p <= Fill
      /\ p < Fill => Stream[p + 1] # "sp" /\ At(p) = Stream[p + 1]
  BY <1>1, StreamOK, SkipIs
<1>3. \/ p = Fill /\ NeedMore(env, p)
      \/ NeedMore(astray, env.process)
      \/ p + 1 < Fill /\ At(p) = "cr" /\ HeadersEnd(p + 2)
      \/ p + 1 < Fill /\ At(p) = "cr" /\ HeadersEnd(p + 1)
      \/ p < Fill /\ At(p) = "lf" /\ HeadersEnd(p + 1)
      \/ p < Fill /\ Goto(named, "HEADER_NAME", p + 1)
  <2>1. (p + 1 < Fill => p < Fill) /\ (p = Fill \/ p < Fill)
    BY <1>1, <1>2
  <2> HIDE DEF p
  <2> DEFINE q == Skip(env.p)
  <2>2. p = q
    BY DEF p
  <2> QED
    BY <1>1, <2>1, <2>2 DEF ParseHeaderName0
<1> HIDE DEF p
<1>4. p < Fill => b <= p
  <2>1. SUFFICES ASSUME p < Fill, p < b PROVE FALSE
    BY <1>2
  <2>2. p + 1 \in 1 .. Len(Stream) /\ p + 1 <= b
    <3>1. Fill <= Len(Stream) /\ Len(Stream) \in Nat
      BY StreamOK DEF Has
    <3> QED
      BY <1>1, <1>2, <2>1, <3>1
  <2> QED
    BY <1>2, <2>1, <2>2 DEF Strays, Blank
<1>5. p < Fill /\ At(p) \in {"cr", "lf"} => b < p
  <2>1. p < Fill /\ At(p) \in {"cr", "lf"} => p # b
    BY <1>2 DEF Strays
  <2> QED
    BY <1>2, <1>4, <2>1
<1>6. CASE p = Fill /\ NeedMore(env, p)
  <2>1. StrayOn(b)
    BY <1>6, StrayGoes DEF Strays
  <2> QED
    BY <2>1 DEF StrayOutcome
<1>7. CASE NeedMore(astray, env.process)
  <2>1. (env.astray \/ env.process < p) \in BOOLEAN
    OBVIOUS
  <2>2. (env.astray \/ env.process < p) = TRUE
    BY <2>1 DEF Strays
  <2>3. astray = [env EXCEPT !.astray = TRUE]
    BY <2>2
  <2> HIDE DEF astray
  <2>4. EnvOK(astray) /\ astray.buf = env.buf /\ astray.astray = TRUE /\ astray.reforming = FALSE
        /\ astray.step = "HEADER_NAME0"
    BY <2>3 DEF EnvOK, EnvType, Strays
  <2>5. StrayOn(b)
    BY <1>7, <2>4, StrayGoes
  <2> QED
    BY <2>5 DEF StrayOutcome
<1>8. CASE p + 1 < Fill /\ At(p) = "cr" /\ HeadersEnd(p + 2)
  <2> DEFINE r == p + 2
  <2>1. p < Fill
    BY <1>1, <1>2, <1>8
  <2>2. b < p
    BY <1>5, <1>8, <2>1
  <2>3. r \in Nat /\ r <= Fill /\ b < r
    BY <1>1, <1>2, <1>8, <2>2
  <2> HIDE DEF r
  <2>4. HeadersEnd(r)
    BY <1>8 DEF r
  <2> QED
    BY <2>3, <2>4, StrayHeadersEnd
<1>9. CASE p < Fill /\ At(p) \in {"cr", "lf"} /\ HeadersEnd(p + 1)
  <2> DEFINE r == p + 1
  <2>1. r \in Nat /\ r <= Fill /\ b < r
    BY <1>1, <1>2, <1>5, <1>9
  <2> HIDE DEF r
  <2>2. HeadersEnd(r)
    BY <1>9 DEF r
  <2> QED
    BY <2>1, <2>2, StrayHeadersEnd
<1>10. CASE p < Fill /\ Goto(named, "HEADER_NAME", p + 1)
  <2> DEFINE r == p + 1
  <2>1. r > b
    BY <1>2, <1>4, <1>10
  <2>2. EnvOK(named) /\ named.buf = env.buf /\ named.astray = TRUE /\ named.reforming = FALSE
    BY <1>2 DEF EnvOK, EnvType, Strays
  <2> HIDE DEF r, named
  <2>3. Goto(named, "HEADER_NAME", r)
    BY <1>10 DEF r
  <2>4. StrayOn(b)
    BY <2>1, <2>2, <2>3, StrayGoes
  <2> QED
    BY <2>4 DEF StrayOutcome
<1>11. p + 1 < Fill => p < Fill
  BY <1>1, <1>2
<1> QED
  BY <1>3, <1>6, <1>7, <1>8, <1>9, <1>10, <1>11

LEMMA StrayName ==
    ASSUME EnvOK(env), wire \in Seq(Characters), wire' = wire, NEW b \in Nat, Strays(b),
           env.step = "HEADER_NAME", b < env.p, ParseHeaderName
    PROVE  StrayOutcome(b)
<1> DEFINE p == Find(env.p, {"sp", "col", "lf"})
           q == Find(p, {"col", "lf"})
           named == [env EXCEPT !.nameLen = p - env.name]
<1>1. Fill = Len(env.buf) /\ Fill \in Nat /\ env.p \in Nat /\ env.p <= Fill /\ env.name \in Nat
  BY EnvTypes
<1>2. p \in Nat /\ env.p <= p /\ p <= Fill
  BY <1>1, StreamOK, FindIs
<1>3. q \in Nat /\ p <= q /\ q <= Fill
  <2> HIDE DEF p
  <2> QED
    BY <1>2, StreamOK, FindIs
<1>4. EnvOK(named) /\ named.buf = env.buf /\ named.astray = TRUE /\ named.reforming = FALSE
      /\ named.step = env.step
  <2> HIDE DEF p
  <2>1. p - env.name \in Int
    BY <1>1, <1>2
  <2> QED
    BY <2>1 DEF EnvOK, EnvType, Strays
<1> HIDE DEF p, q, named
<1>5. \/ NeedMore(env, p) \/ NeedMore(named, q) \/ Invalid
      \/ Goto(named, "HEADER_VALUE0", q + 1)
  <2>1. p = Fill \/ p < Fill
    BY <1>1, <1>2
  <2>2. q = Fill \/ q < Fill
    BY <1>1, <1>3
  <2> QED
    BY <2>1, <2>2 DEF ParseHeaderName, p, q, named
<1>6. p > b /\ q > b /\ q + 1 > b
  BY <1>1, <1>2, <1>3
<1>7. CASE NeedMore(env, p)
  BY <1>6, <1>7, StrayGoes DEF StrayOutcome, Strays
<1>8. CASE NeedMore(named, q)
  BY <1>4, <1>6, <1>8, StrayGoes DEF StrayOutcome
<1>9. CASE Goto(named, "HEADER_VALUE0", q + 1)
  <2> DEFINE r == q + 1
  <2>1. r > b /\ Goto(named, "HEADER_VALUE0", r)
    BY <1>6, <1>9
  <2> HIDE DEF r
  <2> QED
    BY <1>4, <2>1, StrayGoes DEF StrayOutcome
<1> QED
  BY <1>5, <1>7, <1>8, <1>9 DEF StrayOutcome

LEMMA StrayValue0 ==
    ASSUME EnvOK(env), wire \in Seq(Characters), wire' = wire, NEW b \in Nat, Strays(b),
           env.step = "HEADER_VALUE0", b < env.p, WordBegins("HEADER_VALUE0", "HEADER_VALUE")
    PROVE  StrayOutcome(b)
<1> DEFINE p == Skip(env.p)
           begun == [env EXCEPT !.at = p]
<1>1. Fill = Len(env.buf) /\ Fill \in Nat /\ env.p \in Nat /\ env.p <= Fill
  BY EnvTypes
<1>2. p \in Nat /\ env.p <= p /\ p <= Fill
  BY <1>1, StreamOK, SkipIs
<1>3. NeedMore(env, p) \/ Invalid \/ Goto(begun, "HEADER_VALUE", p + 1)
  BY DEF WordBegins
<1> HIDE DEF p
<1>4. EnvOK(begun) /\ begun.buf = env.buf /\ begun.astray = TRUE /\ begun.reforming = FALSE
  BY <1>2 DEF EnvOK, EnvType, Strays
<1> HIDE DEF begun
<1>5. CASE NeedMore(env, p)
  <2>1. p > b
    BY <1>1, <1>2
  <2> QED
    BY <1>5, <2>1, StrayGoes DEF StrayOutcome, Strays
<1>6. CASE Goto(begun, "HEADER_VALUE", p + 1)
  <2> DEFINE r == p + 1
  <2>1. r > b /\ Goto(begun, "HEADER_VALUE", r)
    BY <1>1, <1>2, <1>6
  <2> HIDE DEF r
  <2> QED
    BY <1>4, <2>1, StrayGoes DEF StrayOutcome
<1> QED
  BY <1>3, <1>5, <1>6 DEF StrayOutcome

LEMMA StrayValue ==
    ASSUME EnvOK(env), wire \in Seq(Characters), wire' = wire, NEW b \in Nat, Strays(b),
           env.step = "HEADER_VALUE", b < env.p, ParseHeaderValue
    PROVE  StrayOutcome(b)
<1> DEFINE p == Find(env.p, {"lf"})
           number == Number(0, Text(env.at, p - env.at))
           sized == [env EXCEPT !.length = number]
           chunked == [env EXCEPT !.chunked = TRUE]
<1>1. Fill = Len(env.buf) /\ Fill \in Nat /\ env.p \in Nat /\ env.p <= Fill
  BY EnvTypes
<1>2. p \in Nat /\ env.p <= p /\ p <= Fill
  BY <1>1, StreamOK, FindIs
<1>3. ~WordBegins("HEADER_VALUE0", "HEADER_VALUE")
  BY DEF WordBegins, Parsing
<1>4. \/ NeedMore(env, p)
      \/ \E next \in {sized, chunked, env} : Goto(next, "HEADER_NAME0", p + 1)
  BY <1>3 DEF ParseHeaderValue
<1> HIDE DEF p
<1>5. number \in Nat
  BY <1>2, EnvTypes, TextType, NumberType
<1> HIDE DEF number
<1>6. \A next \in {sized, chunked, env} :
        EnvOK(next) /\ next.buf = env.buf /\ next.astray = TRUE /\ next.reforming = FALSE
  <2>1. EnvOK(sized) /\ sized.buf = env.buf /\ sized.astray = TRUE /\ sized.reforming = FALSE
    BY <1>5 DEF EnvOK, EnvType, Strays
  <2>2. EnvOK(chunked) /\ chunked.buf = env.buf /\ chunked.astray = TRUE /\ chunked.reforming = FALSE
    BY DEF EnvOK, EnvType, Strays
  <2> QED
    BY <2>1, <2>2 DEF Strays
<1> HIDE DEF sized, chunked
<1>7. CASE NeedMore(env, p)
  <2>1. p > b
    BY <1>1, <1>2
  <2> QED
    BY <1>7, <2>1, StrayGoes DEF StrayOutcome, Strays
<1>8. CASE \E next \in {sized, chunked, env} : Goto(next, "HEADER_NAME0", p + 1)
  <2>1. PICK next \in {sized, chunked, env} : Goto(next, "HEADER_NAME0", p + 1)
    BY <1>8
  <2> DEFINE r == p + 1
  <2>2. Goto(next, "HEADER_NAME0", r)
    BY <2>1
  <2> HIDE DEF r
  <2> QED
    BY <1>6, <2>2, StrayGoes DEF StrayOutcome
<1> QED
  BY <1>4, <1>7, <1>8

LEMMA StrayBody ==
    ASSUME EnvOK(env), wire \in Seq(Characters), wire' = wire, NEW b \in Nat,
           env.astray = TRUE, env.reforming = FALSE, env.step = "BODY", env.body > b,
           NoMore(Stream, b, 0), ParseBody
    PROVE  StrayOutcome(b)
<1>1. Fill = Len(env.buf) /\ Fill \in Nat /\ env.body \in Nat /\ env.length \in Nat
  BY EnvTypes
<1>2. CASE BodyIsThere
  <2> DEFINE p == env.body + env.length
  <2>1. p \in Nat /\ p <= Fill /\ b < p /\ 0 \in Nat /\ 0 <= p /\ TRUE \in BOOLEAN
    BY <1>1, <1>2 DEF BodyIsThere
  <2>2. Done(env, p, TRUE)
    BY <1>2 DEF ParseBody
  <2> HIDE DEF p
  <2>3. StrayDone
    BY <2>1, <2>2, StrayEnds
  <2> QED
    BY <2>3 DEF StrayOutcome
<1>3. CASE ~BodyIsThere
  <2>1. NeedMore(env, Fill)
    BY <1>3 DEF ParseBody
  <2>2. /\ http' = "recv" /\ Place' = Fill /\ Same(env, env') /\ env'.step = env.step
    BY <2>1, MoreFields
  <2>3. Stream' = Stream
    BY <2>2 DEF Stream, Same
  <2> QED
    BY <1>1, <2>2, <2>3 DEF StrayOutcome, StrayOn, Astray, Same
<1> QED
  BY <1>2, <1>3

LEMMA StraySize ==
    ASSUME EnvOK(env), wire \in Seq(Characters), wire' = wire, NEW b \in Nat,
           env.astray = TRUE, env.reforming = FALSE, env.step = "CHUNKED_SIZE", env.p > b,
           env.chunkEnd <= env.p, NoMore(Stream, b, env.p), ParseChunkSize
    PROVE  StrayOutcome(b)
<1>1. Fill = Len(env.buf) /\ Fill \in Nat /\ env.p \in Nat /\ env.chunkEnd \in Nat /\ Len(Stream) \in Nat
  BY EnvTypes, StreamOK DEF Has
<1> DEFINE p == Find(env.p, {"lf"})
           n == Number(env.chunkLen, Text(env.p, p - env.p))
<1>2. /\ p \in Nat /\ env.p <= p /\ p <= Fill /\ n \in Nat
      /\ \/ /\ p = Fill /\ http' = "recv" /\ Place' = p /\ env'.process = p
            /\ env'.step = "CHUNKED_SIZE" /\ Sized(n)
         \/ p < Fill /\ n = 0 /\ SizedLast(p + 1)
         \/ /\ p < Fill /\ n # 0 /\ http' = "parse" /\ Place' = p + 1
            /\ env'.step = "CHUNKED_DATA" /\ env'.chunk = p + 1 /\ Sized(n)
  BY ChunkSizeIs
<1> HIDE DEF p, n
<1>3. CASE http' = "recv" /\ Place' = p /\ env'.step = "CHUNKED_SIZE" /\ Sized(n)
  <2>1. Stream' = Stream /\ env'.buf = env.buf
    BY <1>3 DEF Stream, Sized
  <2>2. p > b /\ env.chunkEnd <= p
    BY <1>1, <1>2
  <2>3. NoMore(Stream, b, p)
    BY <1>1, <1>2 DEF NoMore
  <2> QED
    BY <1>1, <1>3, <2>1, <2>2, <2>3 DEF StrayOutcome, StrayOn, Astray, Sized
<1>4. CASE p < Fill /\ SizedLast(p + 1)
  <2> DEFINE r == p + 1
  <2>1. r \in Nat /\ r <= Fill /\ b < r /\ env.p <= r
    BY <1>1, <1>2, <1>4
  <2> HIDE DEF r
  <2>2. PICK e : EnvOK(e) /\ Done(e, r, TRUE) /\ e.buf = env.buf /\ e.astray = env.astray
    BY <1>4 DEF SizedLast, r
  <2>3. StrayDone
    BY <1>1, <2>1, <2>2, StrayEnds
  <2> QED
    BY <2>3 DEF StrayOutcome
<1>5. CASE http' = "parse" /\ Place' = p + 1 /\ env'.step = "CHUNKED_DATA" /\ env'.chunk = p + 1 /\ Sized(n)
  <2> DEFINE r == p + 1
  <2>1. r \in Nat /\ b < r /\ env.p <= r /\ env.chunkEnd <= r
    BY <1>1, <1>2
  <2> HIDE DEF r
  <2>2. Stream' = Stream /\ env'.buf = env.buf /\ env'.chunk = r
    BY <1>5 DEF Stream, Sized, r
  <2>3. NoMore(Stream, b, r)
    BY <1>1, <2>1 DEF NoMore
  <2> QED
    BY <1>1, <1>5, <2>1, <2>2, <2>3 DEF StrayOutcome, StrayOn, Astray, Sized
<1> QED
  BY <1>2, <1>3, <1>4, <1>5

LEMMA StrayData ==
    ASSUME EnvOK(env), wire \in Seq(Characters), wire' = wire, NEW b \in Nat,
           env.astray = TRUE, env.reforming = FALSE, env.step = "CHUNKED_DATA", env.chunk > b,
           env.chunkEnd <= env.chunk, NoMore(Stream, b, env.chunk), ParseChunkData
    PROVE  StrayOutcome(b)
<1>1. Fill = Len(env.buf) /\ Fill \in Nat
  BY EnvTypes
<1>2. CASE http' = "recv" /\ env'.step = env.step /\ Same(env, env')
  <2>1. Stream' = Stream
    BY <1>2 DEF Stream, Same
  <2> QED
    BY <1>1, <1>2, <2>1 DEF StrayOutcome, StrayOn, Astray, Same
<1> QED
  BY <1>2, DataStrays DEF StrayOutcome

\* Wherever the parser went, it does not come before the answer.
LEMMA StrayStep ==
    ASSUME EnvOK(env), wire \in Seq(Characters), wire' = wire, NEW b \in Nat,
           Astray(env, env.p, Stream, b), ParseHttpBuffer
    PROVE  StrayOutcome(b)
<1>1. /\ env.astray = TRUE /\ env.reforming = FALSE /\ Fill = Len(env.buf)
      /\ env.step \in {"HEADER_NAME0", "HEADER_NAME", "HEADER_VALUE0", "HEADER_VALUE",
                       "BODY", "CHUNKED_SIZE", "CHUNKED_DATA"}
  BY EnvTypes DEF Astray
<1>2. \/ env.step = "HEADER_NAME0" /\ ParseHeaderName0
      \/ env.step = "HEADER_NAME" /\ ParseHeaderName
      \/ env.step \in {"HEADER_VALUE0", "HEADER_VALUE"} /\ ParseHeaderValue
      \/ env.step = "BODY" /\ ParseBody
      \/ env.step = "CHUNKED_SIZE" /\ ParseChunkSize
      \/ env.step = "CHUNKED_DATA" /\ ParseChunkData
  BY <1>1, LabelIs
<1>3. env.step \in {"HEADER_NAME0", "HEADER_NAME", "HEADER_VALUE0", "HEADER_VALUE"} =>
        Strays(b) /\ (env.step # "HEADER_NAME0" => env.p > b)
  BY <1>1 DEF Astray, Strays
<1>4. CASE env.step = "HEADER_NAME0" /\ ParseHeaderName0
  BY <1>3, <1>4, StrayName0
<1>5. CASE env.step = "HEADER_NAME" /\ ParseHeaderName
  <2>1. b < env.p
    BY <1>3, <1>5
  <2> QED
    BY <1>3, <1>5, <2>1, StrayName
<1>6. CASE env.step \in {"HEADER_VALUE0", "HEADER_VALUE"} /\ ParseHeaderValue
  <2>1. b < env.p
    BY <1>3, <1>6
  <2>2. env.step = "HEADER_VALUE0" => WordBegins("HEADER_VALUE0", "HEADER_VALUE")
    BY <1>6 DEF ParseHeaderValue, Parsing
  <2> QED
    BY <1>3, <1>6, <2>1, <2>2, StrayValue0, StrayValue
<1>7. CASE env.step = "BODY" /\ ParseBody
  BY <1>1, <1>7, StrayBody DEF Astray
<1>8. CASE env.step = "CHUNKED_SIZE" /\ ParseChunkSize
  BY <1>1, <1>8, StraySize DEF Astray
<1>9. CASE env.step = "CHUNKED_DATA" /\ ParseChunkData
  BY <1>1, <1>9, StrayData DEF Astray
<1> QED
  BY <1>2, <1>4, <1>5, <1>6, <1>7, <1>8, <1>9

-----------------------------------------------------------------------------
(* How far the parser has come *)

\* How far the parser has come with the answer, which begins at b.
Reading(a, e, pos, s, b) ==
    \/ Before(e, pos, s, b) /\ Carries(a, s, b, 0)
    \/ Blank(s, b) /\ InStatusLine(a, e, pos, b) /\ Carries(a, s, b, 0)
    \/ Blank(s, b) /\ InHeaders(a, e, pos, b) /\ Carries(a, s, b, 0)
    \/ Blank(s, b) /\ InBody(a, e, pos, s, b)
    \/ Astray(e, pos, s, b)

\* It reads on ...
ReadsOnward(a, b) ==
    /\ http' \in {"parse", "recv"} /\ Len(env'.buf) = Fill /\ env'.reforming = FALSE
    /\ Reading(a, env', Place', Stream', b)
    /\ Blank(Stream, b) => Blank(Stream', b) \/ env.astray = TRUE
    /\ env'.astray = TRUE => env.astray = TRUE \/ SplitsEnd(env.buf) \/ a.chunked
    /\ SplitsEnd(env'.buf) => SplitsEnd(env.buf)
    /\ http' = "recv" /\ Unread' => env'.astray = TRUE

\* ... or gives up, or is done.
ReadingOutcome(a, b) ==
    \/ Invalid /\ (env.astray = TRUE \/ ~Blank(Stream, b))
    \/ ReadsOnward(a, b)
    \/ Ended(a)

\* An answer starts with the version.
LEMMA CarriesStarts ==
    ASSUME NEW a \in Answers, NEW s \in Seq(Characters), NEW b \in Nat, Carries(a, s, b, 0)
    PROVE  Starts(s, b)
<1>1. Len(s) \in Nat /\ a.text[1] = "H" /\ a.text[2] = "sp"
  BY StatusShape
<1>2. b < Len(s) => s[b + 1] = "H"
  <2>1. SUFFICES ASSUME b < Len(s) PROVE s[b + 1] = "H"
    OBVIOUS
  <2>2. 1 \in Nat /\ 1 > 0 /\ 0 \in Nat /\ b + 1 > 0 /\ b + 1 <= Len(s)
    BY <1>1, <2>1
  <2> DEFINE i == 1
  <2>3. i \in Nat /\ i > 0 /\ b + i > 0 /\ b + i <= Len(s) /\ 0 \in Nat
    BY <2>2
  <2> HIDE DEF i
  <2>4. s[b + i] = a.text[i]
    BY <2>3, CarriesAt
  <2> QED
    BY <1>1, <2>4 DEF i
<1>3. b + 1 < Len(s) => s[b + 2] = "sp"
  <2>1. SUFFICES ASSUME b + 1 < Len(s) PROVE s[b + 2] = "sp"
    OBVIOUS
  <2> DEFINE i == 2
  <2>3. i \in Nat /\ i > 0 /\ b + i > 0 /\ b + i <= Len(s) /\ 0 \in Nat
    BY <1>1, <2>1
  <2> HIDE DEF i
  <2>4. s[b + i] = a.text[i]
    BY <2>3, CarriesAt
  <2> QED
    BY <1>1, <2>4 DEF i
<1> QED
  BY <1>2, <1>3 DEF Starts

\* A buffer that was parsed to its end is not unread.
LEMMA AllParsed ==
    ASSUME env'.buf \in Seq(Characters), env'.process = Len(env'.buf)
    PROVE  ~Unread'
<1> DEFINE t == env'.buf
<1> HIDE DEF t
<1>1. t \in Seq(Characters) /\ (env'.process = 0 => Len(t) = 0)
  BY DEF t
<1>2. Len(t) = 0 => t = <<>>
  BY <1>1, EmptySeq
<1> QED
  BY <1>1, <1>2 DEF Unread, t

\* Before the answer.
LEMMA ReadBefore ==
    ASSUME EnvOK(env), wire \in Seq(Characters), wire' = wire, NEW a \in Answers, NEW b \in Nat,
           Before(env, env.p, Stream, b), Carries(a, Stream, b, 0), ParseHttpBuffer
    PROVE  ReadingOutcome(a, b)
<1>1. Has(Stream) /\ Stream \in Seq(Characters) /\ Fill = Len(env.buf) /\ env.buf \in Seq(Characters)
  BY StreamOK, EnvTypes DEF Has
<1>2. StillBefore(Stream, b) \/ Found(Stream, b) \/ (Invalid /\ ~Blank(Stream, b))
  BY <1>1, CarriesStarts, BeforeStep
<1>3. CASE StillBefore(Stream, b)
  <2>1. Stream' = Stream /\ env'.buf = env.buf /\ env'.astray = FALSE /\ env'.reforming = FALSE
    BY <1>3 DEF StillBefore, Stream, Before, Untouched
  <2>2. http' = "recv" => ~Unread'
    <3>1. http' = "recv" => env'.process = Len(env'.buf)
      BY <1>1, <1>3, <2>1 DEF StillBefore
    <3> QED
      BY <1>1, <2>1, <3>1, AllParsed
  <2> QED
    BY <1>1, <1>3, <2>1, <2>2 DEF ReadingOutcome, ReadsOnward, Reading, StillBefore
<1>4. CASE Found(Stream, b)
  <2>1. Stream' = Stream /\ env'.buf = env.buf /\ Untouched(env')
    BY <1>4 DEF Found, Stream, Same, Untouched
  <2>2. InStatusLine(a, env', Place', b)
    BY <1>4, <2>1 DEF InStatusLine, Found
  <2> QED
    BY <1>1, <1>4, <2>1, <2>2 DEF ReadingOutcome, ReadsOnward, Reading, Found, Untouched
<1> QED
  BY <1>2, <1>3, <1>4 DEF ReadingOutcome

\* In the status line.
LEMMA ReadStatus ==
    ASSUME EnvOK(env), wire \in Seq(Characters), wire' = wire, NEW a \in Answers, NEW b \in Nat,
           Blank(Stream, b), InStatusLine(a, env, env.p, b), Carries(a, Stream, b, 0), ParseHttpBuffer
    PROVE  ReadingOutcome(a, b)
<1>1. Has(Stream) /\ Fill = Len(env.buf)
  BY StreamOK, EnvTypes
<1>2. StatusOutcome(a, b)
  BY <1>1, StatusLineStep
<1>3. Stream' = Stream
  BY <1>2 DEF StatusOutcome, Stream
<1>4. env'.reforming = FALSE
  BY <1>2 DEF StatusOutcome, InStatusLine, InHeaders, Untouched
<1>5. http' = "recv" => ~Unread'
  BY <1>2 DEF StatusOutcome, Unread
<1> QED
  BY <1>1, <1>2, <1>3, <1>4, <1>5 DEF ReadingOutcome, ReadsOnward, Reading, StatusOutcome

\* Among the headers.
LEMMA ReadHeaders ==
    ASSUME EnvOK(env), wire \in Seq(Characters), wire' = wire, NEW a \in Answers, NEW b \in Nat,
           Blank(Stream, b), InHeaders(a, env, env.p, b), Carries(a, Stream, b, 0), ParseHttpBuffer
    PROVE  ReadingOutcome(a, b)
<1>1. Has(Stream) /\ Stream \in Seq(Characters) /\ Fill = Len(env.buf) /\ Fill \in Nat
      /\ Len(Stream) \in Nat /\ Fill <= Len(Stream)
  BY StreamOK, EnvTypes DEF Has
<1>2. WentOn(a, b) \/ WentBack(b) \/ Ended(a)
  BY HeadersStep DEF HeaderOutcome
<1>3. CASE WentOn(a, b)
  <2>1. Stream' = Stream
    BY <1>3 DEF WentOn, Stream
  <2>2. env'.reforming = FALSE
    BY <1>3 DEF WentOn, InBody, InHeaders
  <2>3. http' = "recv" => ~Unread'
    BY <1>3 DEF WentOn, Unread
  <2> QED
    BY <1>1, <1>3, <2>1, <2>2, <2>3 DEF ReadingOutcome, ReadsOnward, Reading, WentOn
<1>4. CASE WentBack(b)
  <2>1. Stream' = Stream /\ Len(env'.buf) = Fill
    BY <1>1, <1>4 DEF WentBack, Stream
  <2>2. Stream[b + 1] = "H"
    <3>1. b < Len(Stream)
      BY <1>1, <1>4 DEF WentBack
    <3> QED
      BY <1>1, <3>1, CarriesStarts DEF Starts
  <2>3. NoMore(Stream, b, 0)
    <3>1. 0 \in Nat
      OBVIOUS
    <3> QED
      BY <1>1, <3>1, CarriesNoMore
  <2>4. Astray(env', Place', Stream', b)
    BY <1>1, <1>4, <2>1, <2>2, <2>3 DEF Astray, WentBack
  <2> QED
    BY <1>1, <1>4, <2>1, <2>4 DEF ReadingOutcome, ReadsOnward, Reading, WentBack
<1> QED
  BY <1>2, <1>3, <1>4 DEF ReadingOutcome

\* In the body.
LEMMA ReadBody ==
    ASSUME EnvOK(env), wire \in Seq(Characters), wire' = wire, NEW a \in Answers, NEW b \in Nat,
           Blank(Stream, b), InBody(a, env, env.p, Stream, b), ParseHttpBuffer
    PROVE  ReadingOutcome(a, b)
<1>1. BodyOutcome(a, b)
  BY InBodyStep
<1>2. CASE Ended(a)
  BY <1>2 DEF ReadingOutcome
<1>3. CASE /\ http' \in {"parse", "recv"} /\ Len(env'.buf) = Fill /\ env'.astray = FALSE
           /\ http' = "recv" => env'.process > 0
           /\ InBody(a, env', Place', Stream', b)
           /\ Blank(Stream, b) => Blank(Stream', b)
           /\ SplitsEnd(env'.buf) => SplitsEnd(env.buf)
  <2>1. env'.reforming = FALSE
    BY <1>3 DEF InBody
  <2>2. http' = "recv" => ~Unread'
    BY <1>3 DEF Unread
  <2> QED
    BY <1>3, <2>1, <2>2 DEF ReadingOutcome, ReadsOnward, Reading
<1>4. CASE a.chunked /\ StrayOn(b) /\ (Blank(Stream, b) => Blank(Stream', b))
  <2>1. env'.reforming = FALSE
    BY <1>4 DEF StrayOn, Astray
  <2> QED
    BY <1>4, <2>1 DEF ReadingOutcome, ReadsOnward, Reading, StrayOn
<1> QED
  BY <1>1, <1>2, <1>3, <1>4 DEF BodyOutcome

\* A step of the parser while it reads an answer.
LEMMA ReadingStep ==
    ASSUME EnvOK(env), wire \in Seq(Characters), NEW a \in Answers, NEW b \in Nat,
           Reading(a, env, env.p, Stream, b), ParseHttpBuffer
    PROVE  ReadingOutcome(a, b)
<1>1. wire' = wire
  BY DEF ParseHttpBuffer
<1>2. CASE Astray(env, env.p, Stream, b)
  <2>1. env.astray = TRUE
    BY <1>2 DEF Astray
  <2>2. StrayOutcome(b)
    BY <1>1, <1>2, StrayStep
  <2>3. CASE StrayOn(b)
    <3>1. env'.reforming = FALSE
      BY <2>3 DEF StrayOn, Astray
    <3> QED
      BY <2>1, <2>3, <3>1 DEF ReadingOutcome, ReadsOnward, Reading, StrayOn
  <2>4. CASE StrayDone
    BY <2>1, <2>4 DEF ReadingOutcome, Ended, StrayDone
  <2> QED
    BY <2>1, <2>2, <2>3, <2>4 DEF ReadingOutcome, StrayOutcome
<1> QED
  BY <1>1, <1>2, ReadBefore, ReadStatus, ReadHeaders, ReadBody DEF Reading

\* A step of the parser while there is no answer.
LEMMA WaitingStep ==
    ASSUME EnvOK(env), wire \in Seq(Characters), Before(env, env.p, Stream, Len(Stream)), ParseHttpBuffer
    PROVE  \/ Invalid /\ ~Blank(Stream, Len(Stream))
           \/ /\ http' \in {"parse", "recv"} /\ env'.buf = env.buf /\ env'.reforming = FALSE
              /\ Stream' = Stream /\ Before(env', Place', Stream', Len(Stream'))
<1> DEFINE b == Len(Stream)
<1>1. wire' = wire
  BY DEF ParseHttpBuffer
<1>2. Has(Stream) /\ b \in Nat /\ Fill <= b /\ Fill \in Nat
  BY StreamOK, EnvTypes DEF Has
<1>3. Starts(Stream, b)
  BY <1>2 DEF Starts
<1>4. StillBefore(Stream, b) \/ Found(Stream, b) \/ (Invalid /\ ~Blank(Stream, b))
  BY <1>2, <1>3, BeforeStep
<1>5. ~Found(Stream, b)
  BY <1>2 DEF Found
<1>6. StillBefore(Stream, b) => Stream' = Stream
  BY <1>1 DEF StillBefore, Stream
<1>7. StillBefore(Stream, b) => env'.reforming = FALSE
  BY DEF StillBefore, Before, Untouched
<1> QED
  BY <1>4, <1>5, <1>6, <1>7 DEF StillBefore

-----------------------------------------------------------------------------
(* What comes, and what is lost *)

\* All but the buffer and the parser's pointer.
Alike(e, f) ==
    /\ f.process = e.process /\ f.step = e.step /\ f.at = e.at /\ f.name = e.name
    /\ f.nameLen = e.nameLen /\ f.status = e.status /\ f.length = e.length /\ f.chunked = e.chunked
    /\ f.body = e.body /\ f.chunkLen = e.chunkLen /\ f.chunk = e.chunk /\ f.chunkEnd = e.chunkEnd
    /\ f.reforming = e.reforming /\ f.astray = e.astray

\* What the parser knows stays true when the buffer grows.
LEMMA BeforeAlike ==
    ASSUME NEW e, NEW f, Alike(e, f), NEW pos, NEW s, NEW b, Before(e, pos, s, b)
    PROVE  Before(f, pos, s, b)
BY DEF Before, Untouched, Alike

\* So does how far it has come with the answer.
LEMMA ReadingAlike ==
    ASSUME NEW e, NEW f, Alike(e, f), Len(e.buf) \in Nat, Len(f.buf) \in Nat, Len(e.buf) <= Len(f.buf),
           NEW a, NEW pos, NEW s, NEW b \in Nat, Reading(a, e, pos, s, b)
    PROVE  Reading(a, f, pos, s, b)
<1>1. CASE Before(e, pos, s, b) /\ Carries(a, s, b, 0)
  BY <1>1, BeforeAlike DEF Reading
<1>2. CASE Blank(s, b) /\ InStatusLine(a, e, pos, b) /\ Carries(a, s, b, 0)
  <2>1. InStatusLine(a, f, pos, b)
    BY <1>2 DEF InStatusLine, Untouched, Alike
  <2> QED
    BY <1>2, <2>1 DEF Reading
<1>3. CASE Blank(s, b) /\ InHeaders(a, e, pos, b) /\ Carries(a, s, b, 0)
  <2>1. InHeaders(a, f, pos, b)
    BY <1>3 DEF InHeaders, InHeader, Seen, Alike
  <2> QED
    BY <1>3, <2>1 DEF Reading
<1>4. CASE Blank(s, b) /\ InBody(a, e, pos, s, b)
  <2>1. \A k : InChunk(a, e, pos, s, b, k) => InChunk(a, f, pos, s, b, k)
    BY DEF InChunk, Alike
  <2>2. InBody(a, f, pos, s, b)
    BY <1>4, <2>1 DEF InBody, Alike
  <2> QED
    BY <1>4, <2>2 DEF Reading
<1>5. CASE Astray(e, pos, s, b)
  <2>1. Astray(f, pos, s, b)
    BY <1>5 DEF Astray, Alike
  <2> QED
    BY <2>1 DEF Reading
<1> QED
  BY <1>1, <1>2, <1>3, <1>4, <1>5 DEF Reading

\* Only the chunks of an answer have pointers that dangle.
LEMMA ReadingDangling ==
    ASSUME NEW a, NEW e, EnvOK(e), e.dangling # {}, NEW pos, NEW s, NEW b, Reading(a, e, pos, s, b)
    PROVE  e.astray = TRUE \/ a.chunked
<1>1. e.chunked = TRUE
  BY DEF EnvOK
<1>2. ~Untouched(e)
  BY <1>1 DEF Untouched
<1> QED
  BY <1>1, <1>2 DEF Reading, Before, InStatusLine, InHeaders, InHeader, Seen, InBody, Astray

\* A buffer that grows has the same text, and the parser is at the same place of it.
LEMMA GrowAlike ==
    ASSUME EnvOK(env), Grow
    PROVE  /\ Alike(env, env') /\ env'.buf = env.buf /\ env'.p = env.p
           /\ Stream' = Stream /\ Place' = Place /\ Fill' = Fill /\ (Unread' = Unread)
<1>1. PICK d, n : env' = [env EXCEPT !.size = n, !.dangling = d]
  BY DEF Grow
<1>2. Alike(env, env') /\ env'.buf = env.buf /\ env'.p = env.p /\ env'.process = env.process
  BY <1>1 DEF Alike, EnvOK, EnvType
<1>3. UNCHANGED wire /\ http = "recv" /\ http' = "recv"
  BY DEF Grow
<1> QED
  BY <1>2, <1>3 DEF Stream, Place, Fill, Unread

\* The beginning of what was to come, as far as it is read.
Begins(t, s, n) ==
    /\ s \in Seq(Characters) /\ t \in Seq(Characters) /\ Len(t) <= Len(s) /\ n <= Len(t)
    /\ \A k \in 1 .. Len(t) : t[k] = s[k]

\* What holds of the whole holds of the beginning.
LEMMA BlankBegins ==
    ASSUME NEW s, NEW t, NEW n \in Nat, Begins(t, s, n), NEW b, Blank(s, b)
    PROVE  Blank(t, b)
<1>1. Len(s) \in Nat /\ Len(t) \in Nat /\ Len(t) <= Len(s)
  BY DEF Begins
<1> QED
  BY <1>1 DEF Begins, Blank

LEMMA CarriesBegins ==
    ASSUME NEW s, NEW t, NEW n \in Nat, Begins(t, s, n), NEW a \in Answers, NEW b \in Nat, NEW m,
           Carries(a, s, b, m)
    PROVE  Carries(a, t, b, m)
<1>1. Len(s) \in Nat /\ Len(t) \in Nat /\ Len(t) <= Len(s) /\ Len(a.text) \in Nat
  BY AnswerText DEF Begins
<1> QED
  BY <1>1 DEF Begins, Carries

LEMMA NoMoreBegins ==
    ASSUME NEW s, NEW t, NEW n \in Nat, Begins(t, s, n), NEW b \in Nat, NEW m, NoMore(s, b, m)
    PROVE  NoMore(t, b, m)
<1>1. Len(s) \in Nat /\ Len(t) \in Nat /\ Len(t) <= Len(s)
  BY DEF Begins
<1>2. \A k \in 1 .. Len(t) - 1 : k \in 1 .. Len(s) - 1 /\ t[k] = s[k] /\ t[k + 1] = s[k + 1]
  BY <1>1 DEF Begins
<1> QED
  BY <1>2 DEF NoMore

LEMMA BeforeBegins ==
    ASSUME NEW s, NEW t, NEW e, EnvOK(e), Begins(t, s, Len(e.buf)), NEW pos \in Nat, pos <= Len(e.buf),
           NEW b \in Nat, NEW c \in Nat, c <= b, Before(e, pos, s, b)
    PROVE  Before(e, pos, t, c)
<1>1. Len(s) \in Nat /\ Len(t) \in Nat /\ Len(t) <= Len(s) /\ Len(e.buf) \in Nat /\ Len(e.buf) <= Len(t)
      /\ e.at \in Nat
  BY DEF Begins, EnvOK, EnvType
<1>2. \A k \in 1 .. Len(t) - 1 : k \in 1 .. Len(s) - 1 /\ t[k] = s[k] /\ t[k + 1] = s[k + 1]
  BY <1>1 DEF Begins
<1>3. \A k \in 1 .. Len(t) - 1 : k < c /\ t[k] = "H" => t[k + 1] # "sp"
  <2>1. \A k \in 1 .. Len(t) - 1 : k < c => k < b
    OBVIOUS
  <2> QED
    BY <1>2, <2>1 DEF Before
<1>4. e.step = "VERSION0" => Blank(t, pos)
  BY <1>1, BlankBegins DEF Before
<1>5. e.step = "VERSION" => Blank(t, e.at) /\ Free(t, e.at, pos, {"sp", "lf"})
  <2>1. SUFFICES ASSUME e.step = "VERSION" PROVE Blank(t, e.at) /\ Free(t, e.at, pos, {"sp", "lf"})
    OBVIOUS
  <2>2. Blank(t, e.at)
    BY <1>1, <2>1, BlankBegins DEF Before
  <2>3. \A k \in e.at + 1 .. pos : k \in 1 .. Len(t)
    BY <1>1
  <2>4. Free(s, e.at, pos, {"sp", "lf"})
    BY <2>1 DEF Before
  <2>5. Free(t, e.at, pos, {"sp", "lf"})
    BY <2>3, <2>4 DEF Free, Begins
  <2> QED
    BY <2>2, <2>5
<1> QED
  BY <1>3, <1>4, <1>5 DEF Before

LEMMA InBodyBegins ==
    ASSUME NEW s, NEW t, NEW e, EnvOK(e), Begins(t, s, Len(e.buf)), NEW pos \in Nat, pos <= Len(e.buf),
           NEW a \in Answers, NEW b \in Nat, InBody(a, e, pos, s, b)
    PROVE  InBody(a, e, pos, t, b)
<1>1. Len(s) \in Nat /\ Len(t) \in Nat /\ Len(t) <= Len(s) /\ Len(e.buf) \in Nat /\ Len(e.buf) <= Len(t)
      /\ e.body \in Nat /\ e.chunk \in Nat /\ e.chunkEnd \in Nat
  BY DEF Begins, EnvOK, EnvType
<1>2. CASE e.step = "BODY" /\ ~a.chunked /\ e.length = Len(a.body) /\ Carries(a, s, b, 0)
  <2>1. Carries(a, t, b, 0)
    BY <1>1, <1>2, CarriesBegins
  <2> QED
    BY <1>2, <2>1 DEF InBody
<1>3. CASE a.chunked /\ \E k \in 1 .. Len(a.chunks) : InChunk(a, e, pos, s, b, k)
  <2>1. PICK k \in 1 .. Len(a.chunks) : InChunk(a, e, pos, s, b, k)
    BY <1>3
  <2> DEFINE c == a.chunks[k]
  <2>2. c.size \in Nat /\ c.data \in Nat /\ c.at \in Nat /\ c.size < c.data
    BY <1>3, ChunkShape DEF ChunkOK
  <2>3. /\ e.length = c.at /\ e.chunkEnd = e.body + c.at /\ e.chunkEnd <= b + c.size
        /\ \A j \in 1 .. c.at : s[e.body + j] = a.body[j]
        /\ \/ /\ e.step = "CHUNKED_SIZE" /\ pos \in b + c.size .. b + c.data - 1
              /\ e.chunkLen = Number(0, Piece(a.text, c.size, pos - b - c.size))
              /\ Carries(a, s, b, pos)
           \/ /\ e.step = "CHUNKED_DATA" /\ e.chunk = b + c.data /\ e.chunk <= pos
              /\ k < Len(a.chunks)
              /\ e.chunkLen = c.length /\ Carries(a, s, b, e.chunk)
    BY <2>1 DEF InChunk
  <2> HIDE DEF c
  <2>4. b + c.size <= pos
    BY <1>1, <2>2, <2>3, SMTT(30)
  <2> DEFINE l == Len(t)
             end == e.body + c.at
  <2>9. /\ l \in Nat /\ end \in Nat /\ end <= b + c.size /\ b + c.size <= pos /\ pos <= Len(e.buf)
        /\ Len(e.buf) <= l /\ e.body \in Nat /\ c.at \in Nat /\ Len(e.buf) \in Nat /\ b + c.size \in Nat
    <3>1. e.chunkEnd = e.body + c.at /\ e.chunkEnd <= b + c.size
      BY <2>3
    <3>2. e.body + c.at \in Nat /\ b + c.size \in Nat
      BY <1>1, <2>2, SMTT(30)
    <3> QED
      BY <1>1, <2>2, <2>4, <3>1, <3>2
  <2>10. end <= l
    <3> HIDE DEF l, end
    <3> QED
      BY <2>9
  <2>11. \A j \in 1 .. c.at : e.body + j \in 1 .. l
    <3> HIDE DEF l
    <3> QED
      BY <2>9, <2>10, SMTT(30)
  <2>5. \A j \in 1 .. c.at : e.body + j \in 1 .. Len(t)
    BY <2>11
  <2>6. \A j \in 1 .. c.at : t[e.body + j] = a.body[j]
    BY <2>3, <2>5 DEF Begins
  <2>7. \A m : Carries(a, s, b, m) => Carries(a, t, b, m)
    BY <1>1, CarriesBegins
  <2>8. InChunk(a, e, pos, t, b, k)
    BY <2>3, <2>6, <2>7 DEF InChunk, c
  <2> QED
    BY <1>3, <2>8 DEF InBody
<1> QED
  BY <1>2, <1>3 DEF InBody

LEMMA ReadingBegins ==
    ASSUME NEW s, NEW t, NEW e, EnvOK(e), Begins(t, s, Len(e.buf)), NEW pos \in Nat, pos <= Len(e.buf),
           NEW a \in Answers, NEW b \in Nat, Reading(a, e, pos, s, b)
    PROVE  Reading(a, e, pos, t, b)
<1>1. Len(e.buf) \in Nat /\ Len(t) \in Nat /\ Len(e.buf) <= Len(t)
  BY SMTT(30) DEF Begins, EnvOK, EnvType
<1>2. Blank(s, b) => Blank(t, b)
  BY <1>1, BlankBegins
<1>3. Carries(a, s, b, 0) => Carries(a, t, b, 0)
  BY <1>1, CarriesBegins
<1>4. InBody(a, e, pos, s, b) => InBody(a, e, pos, t, b)
  BY InBodyBegins
<1>5. Before(e, pos, s, b) => Before(e, pos, t, b)
  BY BeforeBegins
<1>6. Astray(e, pos, s, b) => Astray(e, pos, t, b)
  <2>1. \A m : NoMore(s, b, m) => NoMore(t, b, m)
    BY <1>1, NoMoreBegins
  <2>2. b < Len(e.buf) => t[b + 1] = s[b + 1]
    <3>1. b < Len(e.buf) => b + 1 \in 1 .. Len(t)
      BY <1>1
    <3> QED
      BY <3>1 DEF Begins
  <2> QED
    BY <1>2, <2>1, <2>2 DEF Astray
<1> QED
  BY <1>2, <1>3, <1>4, <1>5, <1>6 DEF Reading

\* The answer comes behind what is there.
LEMMA AnswerComes ==
    ASSUME NEW e, EnvOK(e), NEW s \in Seq(Characters), Len(e.buf) <= Len(s), NEW a \in Answers,
           NEW pos \in Nat, pos <= Len(e.buf), Before(e, pos, s, Len(s)),
           NEW t, t = s \o a.text
    PROVE  /\ Reading(a, e, pos, t, Len(s)) /\ (Blank(s, Len(s)) => Blank(t, Len(s)))
           /\ t \in Seq(Characters)
<1> DEFINE b == Len(s)
           n == Len(a.text)
<1>1. b \in Nat /\ n \in Nat /\ a.text \in Seq(Characters) /\ e.at \in Nat /\ Len(e.buf) \in Nat
  BY AnswerText, SMTT(30) DEF EnvOK, EnvType
<1>2. t \in Seq(Characters) /\ Len(t) = b + n
      /\ (\A k \in 1 .. b : t[k] = s[k]) /\ (\A k \in 1 .. n : t[b + k] = a.text[k])
  BY <1>1
<1>3. Carries(a, t, b, 0)
  <2>1. \A k \in 1 .. Len(t) : k > b => k - b \in 1 .. n /\ b + (k - b) = k
    BY <1>1, <1>2
  <2>2. \A k \in 1 .. Len(t) : k > b => t[k] = a.text[k - b]
    BY <1>2, <2>1
  <2> QED
    BY <1>2, <2>2 DEF Carries
<1>4. ASSUME NEW m, Blank(s, m), m <= b, m \in Nat PROVE Blank(t, m)
  <2>1. \A k \in 1 .. Len(t) : k <= m => k \in 1 .. b
    BY <1>1, <1>2, <1>4
  <2> QED
    BY <1>2, <1>4, <2>1 DEF Blank
<1>5. Before(e, pos, t, b)
  <2>1. \A k \in 1 .. Len(t) - 1 : k < b => k \in 1 .. b - 1 /\ k \in 1 .. b /\ k + 1 \in 1 .. b
    BY <1>1, <1>2
  <2>2. \A k \in 1 .. Len(t) - 1 : k < b /\ t[k] = "H" => t[k + 1] # "sp"
    BY <1>2, <2>1 DEF Before
  <2>3. e.step = "VERSION0" => Blank(t, pos)
    <3>1. pos <= b
      BY <1>1
    <3> QED
      BY <1>4, <3>1 DEF Before
  <2>4. e.step = "VERSION" => Blank(t, e.at) /\ Free(t, e.at, pos, {"sp", "lf"})
    <3>1. SUFFICES ASSUME e.step = "VERSION" PROVE Blank(t, e.at) /\ Free(t, e.at, pos, {"sp", "lf"})
      OBVIOUS
    <3>2. e.at < pos /\ Blank(s, e.at) /\ Free(s, e.at, pos, {"sp", "lf"})
      BY <3>1 DEF Before
    <3>3. e.at <= b
      BY <1>1, <3>2
    <3>4. \A k \in e.at + 1 .. pos : k \in 1 .. b
      BY <1>1
    <3> QED
      BY <1>1, <1>2, <1>4, <3>2, <3>3, <3>4 DEF Free
  <2> QED
    BY <2>2, <2>3, <2>4 DEF Before
<1> QED
  BY <1>1, <1>2, <1>3, <1>4, <1>5 DEF Reading

\* Texts that are put together.
LEMMA Together ==
    ASSUME NEW u \in Seq(Characters), NEW v \in Seq(Characters), NEW x \in Seq(Characters)
    PROVE  (u \o v) \o x = u \o (v \o x)
BY ConcatAssociative

LEMMA Joined ==
    ASSUME NEW u \in Seq(Characters), NEW v \in Seq(Characters)
    PROVE  /\ u \o v \in Seq(Characters) /\ Len(u \o v) = Len(u) + Len(v)
           /\ \A k \in 1 .. Len(v) : (u \o v)[Len(u) + k] = v[k]
OBVIOUS

\* A text is cut in two and put together behind another.
LEMMA CutText ==
    ASSUME NEW u \in Seq(Characters), NEW w \in Seq(Characters), NEW n \in 1 .. Len(w)
    PROVE  /\ (u \o SubSeq(w, 1, n)) \o SubSeq(w, n + 1, Len(w)) = u \o w
           /\ Len(u \o SubSeq(w, 1, n)) = Len(u) + n
<1> DEFINE l == Len(w)
           v == SubSeq(w, 1, n)
           x == SubSeq(w, n + 1, l)
<1>1. l \in Nat /\ n \in Nat /\ 1 <= n /\ n <= l /\ n + 1 \in Int /\ 1 \in Int /\ Len(u) \in Nat
  <2>1. l \in Nat
    OBVIOUS
  <2> QED
    BY <2>1
<1>2. \A i \in 1 .. l : w[i] \in Characters
  BY <1>1
<1>3. \A i \in n + 1 .. l : i \in 1 .. l
  BY <1>1
<1>4. \A i \in 1 .. n : i \in 1 .. l
  BY <1>1
<1> HIDE DEF l
<1>5. v \in Seq(Characters) /\ Len(v) = n /\ \A i \in 1 .. n : v[i] = w[i]
  <2>1. SubSeq(w, 1, n) \in Seq(Characters) /\ Len(SubSeq(w, 1, n)) = (IF 1 <= n THEN n - 1 + 1 ELSE 0)
        /\ \A i \in 1 .. n - 1 + 1 : SubSeq(w, 1, n)[i] = w[1 + i - 1]
    BY <1>1, <1>2, <1>4, SubSeqProperties
  <2>2. n - 1 + 1 = n /\ \A i \in 1 .. n : 1 + i - 1 = i
    BY <1>1
  <2> QED
    BY <1>1, <2>1, <2>2
<1>6. x \in Seq(Characters) /\ Len(x) = l - n /\ \A i \in 1 .. l - n : x[i] = w[n + i]
  <2> DEFINE m == n + 1
  <2>0. m \in Int /\ l \in Int /\ x = SubSeq(w, m, l)
    BY <1>1 DEF l
  <2>1. SubSeq(w, m, l) \in Seq(Characters) /\ Len(SubSeq(w, m, l)) = (IF m <= l THEN l - m + 1 ELSE 0)
        /\ \A i \in 1 .. l - m + 1 : SubSeq(w, m, l)[i] = w[m + i - 1]
    BY <1>2, <1>3, <2>0, SubSeqProperties
  <2>2. l - m + 1 = l - n /\ (\A i \in 1 .. l - n : m + i - 1 = n + i) /\ (~(m <= l) => l - n = 0)
    BY <1>1
  <2> QED
    BY <2>0, <2>1, <2>2
<1> HIDE DEF v, x
<1>7. (u \o v) \o x = u \o (v \o x)
  <2>1. u \in Seq(Characters) /\ v \in Seq(Characters) /\ x \in Seq(Characters)
    BY <1>5, <1>6
  <2> QED
    BY <2>1, Together
<1>8. v \o x = w
  <2>1. v \o x \in Seq(Characters) /\ Len(v \o x) = n + (l - n) /\ n + (l - n) = l
    <3>1. v \in Seq(Characters) /\ x \in Seq(Characters) /\ Len(v) = n /\ Len(x) = l - n
      BY <1>5, <1>6
    <3>2. v \o x \in Seq(Characters) /\ Len(v \o x) = Len(v) + Len(x)
      BY <3>1, Joined
    <3> QED
      BY <1>1, <3>1, <3>2
  <2>2. \A i \in 1 .. l : (v \o x)[i] = w[i]
    <3>1. TAKE i \in 1 .. l
    <3>2. CASE i <= n
      <4>1. i \in 1 .. Len(v) /\ i \in 1 .. n
        BY <1>1, <1>5, <3>2
      <4>2. (v \o x)[i] = v[i]
        BY <1>5, <1>6, <4>1
      <4> QED
        BY <1>5, <4>1, <4>2
    <3>3. CASE i > n
      <4> DEFINE k == i - n
      <4>1. k \in 1 .. l - n /\ i = n + k
        BY <1>1, <3>3
      <4> HIDE DEF k
      <4>3. v \in Seq(Characters) /\ x \in Seq(Characters) /\ Len(v) = n /\ k \in 1 .. Len(x)
        BY <1>5, <1>6, <4>1
      <4>2. (v \o x)[n + k] = x[k]
        BY <4>3, Joined
      <4> QED
        BY <1>6, <4>1, <4>2
    <3>4. i <= n \/ i > n
      BY <1>1
    <3> QED
      BY <3>2, <3>3, <3>4
  <2> QED
    BY <2>1, <2>2, SeqEqual DEF l
<1>9. Len(u \o v) = Len(u) + n
  BY <1>5
<1> QED
  BY <1>7, <1>8, <1>9 DEF v, x, l

\* A fragment moves from the wire to the buffer.
LEMMA Arrives ==
    ASSUME EnvOK(env), wire \in Seq(Characters), NEW n \in 1 .. Len(wire), http = "recv", http' = "parse",
           env' = [env EXCEPT !.buf = @ \o SubSeq(wire, 1, n), !.p = env.process],
           wire' = SubSeq(wire, n + 1, Len(wire))
    PROVE  /\ Stream' = Stream /\ Place' = Place /\ Alike(env, env') /\ Fill <= Fill'
<1>1. env.buf \in Seq(Characters) /\ Len(env.buf) \in Nat
  BY DEF EnvOK, EnvType
<1>2. /\ env'.buf = env.buf \o SubSeq(wire, 1, n) /\ Alike(env, env')
      /\ env'.p = env.process /\ env'.process = env.process
  BY DEF EnvOK, EnvType, Alike
<1>3. (env.buf \o SubSeq(wire, 1, n)) \o wire' = env.buf \o wire
      /\ Len(env.buf \o SubSeq(wire, 1, n)) = Len(env.buf) + n
  <2> DEFINE w == wire
             v == SubSeq(w, 1, n)
             x == SubSeq(w, n + 1, Len(w))
             u == env.buf
  <2>1. w \in Seq(Characters) /\ n \in 1 .. Len(w) /\ u \in Seq(Characters)
    BY <1>1
  <2> HIDE DEF u, w
  <2>2. (u \o v) \o x = u \o w /\ Len(u \o v) = Len(u) + n
    BY <2>1, CutText
  <2> QED
    BY <2>2 DEF u, w
<1>4. n \in Nat
  OBVIOUS
<1>5. Fill <= Fill'
  BY <1>1, <1>2, <1>3, <1>4 DEF Fill
<1> QED
  BY <1>2, <1>3, <1>5 DEF Place, Stream
=============================================================================
