------------------------ MODULE ClientConnectionProofs ------------------------
(***************************************************************************)
(* Theorems about ClientConnection, for any number of hosts, requests and  *)
(* pieces of data: what paqet receives, what it must have said before      *)
(* anything passes, and what the client receives.  Relayed is the          *)
(* inductive invariant: the types, what of a client's request is read and  *)
(* parsed, and how far the handshake is.  OrderKept, inductive with it,    *)
(* says which part of the stream to paqet is written; AnswersFit and       *)
(* StreamKept, inductive with it too, say what paqet's unread answers are  *)
(* and that with what the client has they make up the stream to it.        *)
(***************************************************************************)
EXTENDS ClientConnection, SequenceTheorems, TLAPS

-----------------------------------------------------------------------------
(* Sequences.                                                              *)

LEMMA Concat ==
    ASSUME NEW S, NEW s \in Seq(S), NEW t \in Seq(S)
    PROVE  s \o t \in Seq(S) /\ Len(s \o t) = Len(s) + Len(t)
  BY ConcatProperties

(* Concatenation is associative, each concatenation by its name.           *)
LEMMA Move ==
    ASSUME NEW S, NEW a \in Seq(S), NEW b \in Seq(S), NEW c \in Seq(S), 
      NEW d, d = b \o c, NEW r, r = a \o b
    PROVE  r \o c = a \o d
<1>1. r \in Seq(S) /\ Len(r) = Len(a) + Len(b) /\ \A i \in 1 .. Len(a) + Len(b) : r[i] =
                     IF i <= Len(a) THEN a[i] ELSE b[i - Len(a)]
  BY ConcatProperties
<1>2. d \in Seq(S) /\ Len(d) = Len(b) + Len(c) /\ \A i \in 1 .. Len(b) + Len(c) : d[i] =
                     IF i <= Len(b) THEN b[i] ELSE c[i - Len(b)]
  BY ConcatProperties
<1>3. Len(a) \in Nat /\ Len(b) \in Nat /\ Len(c) \in Nat
  BY LenProperties
<1> DEFINE x == r \o c
           y == a \o d
<1>4. x \in Seq(S) /\ Len(x) = Len(r) + Len(c) /\ \A i \in 1 .. Len(r) + Len(c) : x[i] =
                     IF i <= Len(r) THEN r[i] ELSE c[i - Len(r)]
  BY <1>1, ConcatProperties
<1>5. y \in Seq(S) /\ Len(y) = Len(a) + Len(d) /\ \A i \in 1 .. Len(a) + Len(d) : y[i] =
                     IF i <= Len(a) THEN a[i] ELSE d[i - Len(a)]
  BY <1>2, ConcatProperties
<1> HIDE DEF x, y
<1>6. Len(x) = Len(a) + Len(b) + Len(c) /\ Len(y) = Len(x)
  BY <1>1, <1>2, <1>3, <1>4, <1>5
<1>7. ASSUME NEW i \in 1..Len(x)
      PROVE  x[i] = y[i]
  <2>1. i \in Nat /\ i >= 1 /\ i <= Len(a) + Len(b) + Len(c)
    BY <1>3, <1>6
  <2>2. x[i] = IF i <= Len(r) THEN r[i] ELSE c[i - Len(r)]
    BY <1>4, <1>6
  <2>3. y[i] = IF i <= Len(a) THEN a[i] ELSE d[i - Len(a)]
    BY <1>5, <1>6
  <2>4. CASE i <= Len(a)
    <3>1. x[i] = r[i] /\ r[i] = a[i]
      BY <1>1, <1>3, <2>1, <2>4, <2>2
    <3>2. QED
      BY <2>3, <2>4, <3>1
  <2>5. CASE i > Len(a) /\ i <= Len(a) + Len(b)
    <3>1. x[i] = b[i - Len(a)]
      BY <1>1, <1>3, <1>4, <2>1, <2>5
    <3>2. y[i] = d[i - Len(a)]
      BY <1>3, <2>1, <2>5, <2>3
    <3>3. d[i - Len(a)] = b[i - Len(a)]
      BY <1>2, <1>3, <2>1, <2>5
    <3>4. QED
      BY <3>1, <3>2, <3>3
  <2>6. CASE i > Len(a) + Len(b)
    <3>1. x[i] = c[i - (Len(a) + Len(b))]
      BY <1>1, <1>3, <1>4, <2>1, <2>6
    <3>2. y[i] = d[i - Len(a)]
      BY <1>2, <1>3, <1>5, <2>1, <2>6
    <3>3. d[i - Len(a)] = c[i - Len(a) - Len(b)]
      BY <1>2, <1>3, <2>1, <2>6
    <3>4. QED
      BY <1>3, <2>1, <3>1, <3>2, <3>3
  <2>7. QED
    BY <1>3, <2>1, <2>4, <2>5, <2>6
<1>8. x = y 
  BY <1>4, <1>5, <1>6, <1>7, SeqEqual
<1>9. QED BY <1>8 DEF x, y

LEMMA Appended ==
    ASSUME NEW S, NEW s \in Seq(S), NEW e \in S
    PROVE  /\ Append(s, e) \in Seq(S) /\ Append(s, e) = s \o <<e>>
           /\ <<e>> \in Seq(S)
           /\ Len(Append(s, e)) = Len(s) + 1
  BY AppendProperties, AppendIsConcat

(* Reading the first n tokens of what is in flight.                        *)
LEMMA Split ==
    ASSUME NEW S, NEW s \in Seq(S), NEW n \in 1..Len(s)
    PROVE  /\ SubSeq(s, 1, n) \in Seq(S) /\ SubSeq(s, n + 1, Len(s)) \in Seq(S)
           /\ SubSeq(s, 1, n) \o SubSeq(s, n + 1, Len(s)) = s
           /\ Len(SubSeq(s, 1, n)) = n /\ Len(SubSeq(s, n + 1, Len(s))) = Len(s) - n
<1>1. Len(s) \in Nat /\ n \in 1..Len(s) + 1 - 1 /\ n \in Int /\ n <= Len(s)
  BY LenProperties
<1>2. \A i \in 1..Len(s) : s[i] \in S
  BY ElementOfSeq
<1>3. SubSeq(s, 1, n) \in Seq(S) /\ Len(SubSeq(s, 1, n)) = n
  BY <1>1, <1>2, SubSeqProperties
<1>4. /\ SubSeq(s, n + 1, Len(s)) \in Seq(S)
      /\ Len(SubSeq(s, n + 1, Len(s))) = Len(s) - n
  BY <1>1, <1>2, SubSeqProperties
<1>5. SubSeq(s, 1, n) \o SubSeq(s, n + 1, Len(s)) = SubSeq(s, 1, Len(s))
  BY <1>1, ConcatAdjacentSubSeq
<1>6. QED
  BY <1>3, <1>4, <1>5, SubSeqFull

LEMMA Taken ==
    ASSUME NEW S, NEW s \in Seq(S), s # <<>>
    PROVE  Head(s) \in S /\ Tail(s) \in Seq(S) /\ <<Head(s)>> \o Tail(s) = s
<1>1. Head(s) \in S /\ Tail(s) \in Seq(S) /\ Len(Tail(s)) = Len(s) - 1
      /\ \A i \in 1 .. Len(Tail(s)) : Tail(s)[i] = s[i + 1]
  BY HeadTailProperties
<1>2. <<Head(s)>> \in Seq(S) /\ Len(<<Head(s)>>) = 1
  BY <1>1
<1>3. QED
  BY <1>1, <1>2, ConcatProperties, SeqEqual

(* Cutting a sequence anywhere, or beyond its end.                         *)
LEMMA Rest ==
    ASSUME NEW S, NEW s \in Seq(S), NEW k \in Nat \ {0}
    PROVE  SubSeq(s, k, Len(s)) \in Seq(S)
<1>1. \A i \in k..Len(s) : s[i] \in S
  BY ElementOfSeq, LenProperties
<1>2. QED
  BY <1>1, SubSeqProperties, LenProperties

LEMMA Wider ==
    /\ Seq(ClientTokens) \subseteq Seq(SocksTokens)
    /\ Seq(PaqetTokens) \subseteq Seq(AnswerTokens)
  BY SeqMonotonic DEF SocksTokens, AnswerTokens

LEMMA Parts ==
    /\ \A s, t \in Seq(ClientTokens) : s \o t \in Seq(ClientTokens)
    /\ \A s, t \in Seq(PaqetTokens) : s \o t \in Seq(PaqetTokens)
    /\ \A s, t \in Seq(SocksTokens) : s \o t \in Seq(SocksTokens)
    /\ \A s, t \in Seq(AnswerTokens) : s \o t \in Seq(AnswerTokens)
    /\ \A t \in Seq(ClientTokens), s \in Seq(SocksTokens) : s \o t \in Seq(SocksTokens)
    /\ \A t \in Seq(PaqetTokens), s \in Seq(AnswerTokens) : s \o t \in Seq(AnswerTokens)
  BY Concat, Wider

-----------------------------------------------------------------------------
(* What has been sent, read and parsed belongs together.                   *)

(* The order of what a client sends: a request line, the end of the        *)
(* headers, the rest.  Until the tunnel is up it is in m_requestBuffer or  *)
(* in flight.                                                              *)
RequestRead ==
    /\ Len(sent) >= 1 => sent[1] \in Heads
    /\ Len(sent) >= 2 => sent[2] = End
    /\ Len(sent) > 2 /\ sent[1].kind # "GET" => Contains(atClient, Token("ok", None))
    /\ ~tunnel => sent = request \o fromClient

(* What was parsed is what was sent.                                       *)
RequestParsed ==
    /\ head # None =>
          /\ Len(sent) >= 2 /\ head = sent[1]
          /\ ~tunnel => Len(request) >= 2 /\ body = SubSeq(request, 3, Len(request))
    /\ socks # "unconnected" => head # None /\ head.arg # None

LEMMA TokenTypes ==
    /\ None \notin Heads
    /\ Heads \subseteq ClientTokens /\ End \in ClientTokens /\ End \notin Heads
    /\ \A h \in Hosts : Token("GET", h) \in Heads /\ Token("connect", h) \in SocksTokens
    /\ \A x \in Heads : x.arg \in Hosts \cup {None} /\ x.kind \in {"GET", "CONNECT"}
    /\ Token("greeting", None) \in SocksTokens
    /\ \A c \in {400, 502} : Error(c) \in AnswerTokens
    /\ Token("ok", None) \in AnswerTokens
    /\ \A m \in {"none", "other"} : Token("method", m) \in PaqetTokens
    /\ \A r \in {"granted", "denied", "strange"} : Token("reply", r) \in PaqetTokens
    /\ Token("version", None) \in PaqetTokens /\ Token("address", None) \in PaqetTokens
    /\ \A n \in 1..MaxData : Data(n) \in PaqetTokens
<1>1. \A m, x : Token(m, x).kind = m /\ Token(m, x).arg = x
  BY DEF Token
<1>2. \A t \in Heads : t.arg \in Hosts \cup {None} /\ t.kind \in {"GET", "CONNECT"}
  BY <1>1 DEF Heads
<1>3. End \notin Heads
  BY <1>1, <1>2 DEF End
<1>4. \A h \in Hosts : Token("GET", h) \in Heads /\ Token("connect", h) \in SocksTokens
  BY DEF Heads, SocksTokens
<1>5. QED
  BY <1>2, <1>3, <1>4, NoneAssumption DEF ClientTokens, SocksTokens, PaqetTokens, AnswerTokens

LEMMA EndToken == End \in ClientTokens /\ End \notin Heads
  BY TokenTypes

LEMMA ClientSpeaks ==
    ASSUME TypeOK, RequestRead, NEW t \in MaySend
    PROVE  /\ t \in ClientTokens
           /\ sent = <<>> => t \in Heads
           /\ Len(sent) = 1 => t = End
           /\ Len(sent) >= 2 /\ sent[1].kind # "GET" => Contains(atClient, Token("ok", None))
<1> DEFINE last == IF sent = <<>> THEN None ELSE Last(sent)
           more == (IF sent[1].kind = "GET" \/ Contains(atClient, Token("ok", None))
                    THEN {NextData(sent)} \cap ClientTokens ELSE {})
                   \cup (IF /\ sent[1].kind = "GET"
                            /\ Count(sent, {"GET", "CONNECT"}) < MaxRequests
                            /\ Count(atClient, {"data"}) > 0
                         THEN {Token("GET", h) : h \in Hosts} ELSE {})
<1>1. MaySend = CASE sent = <<>> -> Heads [] last \in Heads -> {End} [] OTHER -> more
  BY DEF MaySend
<1>2. sent \in Seq(ClientTokens) /\ Len(sent) \in Nat /\ (sent = <<>> <=> Len(sent) = 0)
  BY LenProperties, EmptySeq DEF TypeOK
<1>3. more \subseteq ClientTokens
  BY TokenTypes
<1>4. t \in more => sent[1].kind = "GET" \/ Contains(atClient, Token("ok", None))
  OBVIOUS
<1> HIDE DEF more
<1>5. CASE sent = <<>>
  BY <1>1, <1>2, <1>5, TokenTypes
<1>6. CASE sent # <<>> /\ last \in Heads
  <2>1. t = End
    BY <1>1, <1>6
  <2>2. sent[Len(sent)] \in Heads
    BY <1>6 DEF Last
  <2>3. Len(sent) # 2
    <3>1. SUFFICES ASSUME Len(sent) = 2
                   PROVE  FALSE
      OBVIOUS
    <3>2. sent[2] = End
      BY <3>1 DEF RequestRead
    <3>3. QED
      BY <2>2, <3>1, <3>2, EndToken
  <2>4. Len(sent) > 2 /\ sent[1].kind # "GET" => Contains(atClient, Token("ok", None))
    BY DEF RequestRead
  <2>5. t \in ClientTokens
    BY <2>1, EndToken
  <2>6. Len(sent) >= 2 => Len(sent) > 2
    BY <1>2, <2>3
  <2> HIDE DEF last
  <2>7. QED
    BY ONLY <1>6, <2>1, <2>4, <2>5, <2>6
<1>7. CASE sent # <<>> /\ last \notin Heads
  <2>1. t \in more
    BY <1>1, <1>7
  <2>2. Len(sent) # 1
    BY <1>7 DEF RequestRead, Last
  <2>3. QED
    BY <1>3, <1>4, <1>7, <2>1, <2>2
<1>8. QED
  BY <1>5, <1>6, <1>7

-----------------------------------------------------------------------------
(* Types.                                                                  *)

LEMMA InitTypes == Init => TypeOK
<1>1. \A S : <<>> \in Seq(S)
  BY EmptySeq
<1>2. 0 \in 0..MaxData
  BY BoundsAssumption
<1>3. QED
  BY <1>1, <1>2 DEF Init, TypeOK

LEMMA SendErrorTypes ==
    ASSUME TypeOK, NEW c \in {400, 502}, SendError(c)
    PROVE  toClient' \in Seq(AnswerTokens) /\ client' \in {"open", "closing", "closed"}
  BY SMTT(30), TokenTypes, Appended DEF SendError, Write, TypeOK

LEMMA PeerTypes ==
    ASSUME TypeOK, RequestRead,
           ClientSends \/ ClientLeaves \/ PaqetAnswers \/ PaqetLeaves
           \/ FlushClient \/ FlushSocks
    PROVE  TypeOK'
<1>1. CASE ClientSends
  <2>1. PICK t \in MaySend : sent' = Append(sent, t) /\ fromClient' = Append(fromClient, t)
    BY <1>1 DEF ClientSends
  <2>2. sent' \in Seq(ClientTokens) /\ fromClient' \in Seq(ClientTokens)
    BY <2>1, ClientSpeaks, Appended DEF TypeOK
  <2>3. QED
    BY <1>1, <2>2 DEF ClientSends, TypeOK, handshakeVars
<1>2. CASE ClientLeaves
  BY <1>2 DEF ClientLeaves, TypeOK, handshakeVars
<1>3. CASE PaqetAnswers
  <2>1. /\ stage' \in {"greeting", "connect", "relay", "refused"}
        /\ answered' \in 0..MaxData
        /\ fromPaqet' \in Seq(PaqetTokens)
    <3>1. CASE \E m \in {"none", "other"} :
                  /\ fromPaqet' = fromPaqet \o <<Token("version", None), Token("method", m)>>
                  /\ stage' = IF m = "none" THEN "connect" ELSE "refused"
                  /\ UNCHANGED answered
      <4>1. \A m \in {"none", "other"} :
                <<Token("version", None), Token("method", m)>> \in Seq(PaqetTokens)
        BY TokenTypes
      <4>2. QED
        BY <3>1, <4>1, Parts DEF TypeOK
    <3>2. CASE \E r \in {"granted", "denied", "strange"} :
                  /\ fromPaqet' = fromPaqet \o <<Token("reply", r), Token("address", None)>>
                  /\ stage' = IF r = "granted" THEN "relay" ELSE "refused"
                  /\ UNCHANGED answered
      <4>1. \A r \in {"granted", "denied", "strange"} :
                <<Token("reply", r), Token("address", None)>> \in Seq(PaqetTokens)
        BY TokenTypes
      <4>2. QED
        BY <3>2, <4>1, Parts DEF TypeOK
    <3>3. CASE /\ stage = "relay" /\ answered < MaxData
               /\ answered' = answered + 1
               /\ fromPaqet' = Append(fromPaqet, Data(answered'))
               /\ UNCHANGED stage
      <4>1. answered' \in 1..MaxData
        BY <3>3, BoundsAssumption DEF TypeOK
      <4>2. fromPaqet' \in Seq(PaqetTokens)
        BY <3>3, <4>1, TokenTypes, Appended DEF TypeOK
      <4>3. QED
        BY <3>3, <4>1, <4>2 DEF TypeOK
    <3>4. QED
      BY <1>3, <3>1, <3>2, <3>3 DEF PaqetAnswers
  <2>2. QED
    BY <1>3, <2>1 DEF PaqetAnswers, TypeOK, handshakeVars
<1>4. CASE PaqetLeaves
  BY <1>4 DEF PaqetLeaves, TypeOK, handshakeVars
<1>5. CASE FlushClient
  <2>1. atClient' \in Seq(AnswerTokens) /\ toClient' \in Seq(AnswerTokens)
    BY <1>5, Taken, Appended DEF FlushClient, TypeOK
  <2>2. QED
    BY <1>5, <2>1 DEF FlushClient, TypeOK, handshakeVars, peerVars
<1>6. CASE FlushSocks
  <2>1. atPaqet' \in Seq(SocksTokens) /\ toSocks' \in Seq(SocksTokens)
    BY <1>6, Taken, Appended DEF FlushSocks, TypeOK
  <2>2. QED
    BY <1>6, <2>1 DEF FlushSocks, TypeOK, handshakeVars, peerVars
<1>7. QED
  BY <1>1, <1>2, <1>3, <1>4, <1>5, <1>6

(* What ParseRequest finds: the request line and, behind the first end of  *)
(* headers, the body.                                                      *)
LEMMA RequestShape ==
    ASSUME TypeOK, RequestRead, ~tunnel, NEW n \in 1..Len(fromClient),
           NEW r, r = request \o SubSeq(fromClient, 1, n)
    PROVE  /\ r \in Seq(ClientTokens) /\ Len(r) >= 1
           /\ sent = r \o SubSeq(fromClient, n + 1, Len(fromClient))
           /\ Len(sent) >= Len(r) /\ r[1] = sent[1] /\ r[1] \in Heads
           /\ Contains(r, End) => Len(r) >= 2 /\ HeadersEnd(r) = 2
<1> DEFINE read == SubSeq(fromClient, 1, n)
           rest == SubSeq(fromClient, n + 1, Len(fromClient))
<1>1. /\ request \in Seq(ClientTokens) /\ fromClient \in Seq(ClientTokens)
      /\ sent \in Seq(ClientTokens) /\ sent = request \o fromClient
  BY DEF TypeOK, RequestRead
<1>2. /\ read \in Seq(ClientTokens) /\ rest \in Seq(ClientTokens)
      /\ read \o rest = fromClient /\ Len(read) = n
  BY <1>1, Split
<1> HIDE DEF read, rest
<1>3. r \in Seq(ClientTokens) /\ Len(r) = Len(request) + n
  BY <1>1, <1>2, Concat DEF read
<1>4. sent = r \o rest
  <2>1. r = request \o read
    BY DEF read
  <2>2. fromClient = read \o rest
    BY <1>2
  <2>3. /\ request \in Seq(ClientTokens) /\ read \in Seq(ClientTokens)
        /\ rest \in Seq(ClientTokens)
    BY <1>1, <1>2
  <2>4. r \o rest = request \o fromClient
    BY ONLY <2>1, <2>2, <2>3, Move
  <2>5. QED
    BY <1>1, <2>4
<1>5. Len(request) \in Nat /\ Len(r) \in Nat /\ Len(rest) \in Nat /\ n \in Nat /\ n >= 1
  BY <1>1, <1>2, <1>3, LenProperties
<1>6. /\ Len(sent) = Len(r) + Len(rest)
      /\ \A i \in 1..Len(r) : sent[i] = r[i]
  BY <1>2, <1>3, <1>4, <1>5, ConcatProperties
<1>7. Len(r) >= 1 /\ r[1] = sent[1] /\ r[1] \in Heads
  BY <1>3, <1>5, <1>6 DEF RequestRead
<1>8. Len(r) >= 2 => r[2] = End
  BY <1>5, <1>6 DEF RequestRead
<1>9. DOMAIN r = 1..Len(r)
  BY <1>3, LenProperties
<1>10. ASSUME Contains(r, End)
       PROVE  Len(r) >= 2 /\ HeadersEnd(r) = 2
  <2>1. Len(r) >= 2
    BY <1>5, <1>7, <1>10, EndToken DEF Contains
  <2>2. r[1] # End /\ r[2] = End
    BY <1>7, <1>8, <2>1, EndToken
  <2>3. \A i \in DOMAIN r : (r[i] = End /\ \A j \in 1..(i - 1) : r[j] # End) <=> i = 2
    BY SMTT(30), <1>5, <1>9, <2>1, <2>2
  <2>4. 2 \in DOMAIN r
    BY <1>5, <1>9, <2>1
  <2>5. /\ HeadersEnd(r) \in DOMAIN r /\ r[HeadersEnd(r)] = End
        /\ \A j \in 1..(HeadersEnd(r) - 1) : r[j] # End
    BY <2>3, <2>4 DEF HeadersEnd
  <2>6. QED
    BY <2>1, <2>3, <2>5
<1>11. Len(sent) >= Len(r)
  BY <1>5, <1>6
<1>12. QED
  BY <1>3, <1>4, <1>7, <1>10, <1>11 DEF rest


(* What was parsed is the request line, and the body behind the headers.   *)
LEMMA Parsed ==
    ASSUME TypeOK, RequestRead, ~tunnel, NEW n \in 1..Len(fromClient),
           NEW r, r = request \o SubSeq(fromClient, 1, n), request' = r,
           Contains(r, End), ParseRequest
    PROVE  /\ head' = sent[1] /\ head' \in Heads
           /\ Len(r) >= 2 /\ Len(sent) >= Len(r)
           /\ body' = SubSeq(r, 3, Len(r)) /\ body' \in Seq(ClientTokens)
<1>1. /\ r \in Seq(ClientTokens) /\ r[1] = sent[1] /\ r[1] \in Heads
      /\ Len(sent) >= Len(r) /\ Len(r) >= 2 /\ HeadersEnd(r) = 2
  BY RequestShape
<1>2. head' = r[1] /\ body' = SubSeq(r, HeadersEnd(r) + 1, Len(r))
  BY Zenon DEF ParseRequest
<1>3. body' = SubSeq(r, 3, Len(r))
  BY <1>1, <1>2
<1>4. body' \in Seq(ClientTokens)
  BY <1>1, <1>3, Rest
<1>5. QED
  BY <1>1, <1>2, <1>3, <1>4

LEMMA ClientReadTypes ==
    ASSUME TypeOK, RequestRead, NEW n \in 1..Len(fromClient), ClientReadyRead(n)
    PROVE  TypeOK'
<1> DEFINE read == SubSeq(fromClient, 1, n)
<1>1. /\ read \in Seq(ClientTokens)
      /\ SubSeq(fromClient, n + 1, Len(fromClient)) \in Seq(ClientTokens)
  BY Split DEF TypeOK
<1>2. /\ request' \in Seq(ClientTokens) /\ body' \in Seq(ClientTokens)
      /\ toSocks' \in Seq(SocksTokens) /\ toClient' \in Seq(AnswerTokens)
      /\ client' \in {"open", "closing", "closed"}
      /\ socks' \in {"unconnected", "connecting", "connected", "closing"}
      /\ st' \in {"WaitingForRequest", "ConnectingToSocks", "SocksGreeting",
                  "SocksConnectRequest", "Tunneling"}
      /\ head' \in Heads \cup {None}
  <2>1. CASE tunnel
    <3>1. toSocks \o read \in Seq(SocksTokens)
      BY <1>1, Parts DEF TypeOK
    <3>2. QED
      BY <2>1, <3>1 DEF ClientReadyRead, TypeOK
  <2>2. CASE ~tunnel /\ ~Contains(request', End)
    <3>1. request' \in Seq(ClientTokens)
      BY <1>1, <2>2, Parts DEF ClientReadyRead, TypeOK
    <3>2. QED
      BY <2>2, <3>1 DEF ClientReadyRead, TypeOK
  <2>3. CASE ~tunnel /\ Contains(request', End)
    <3>1. /\ request' = request \o read /\ ParseRequest /\ toSocks' = toSocks
      BY <2>3 DEF ClientReadyRead
    <3>2. request' \in Seq(ClientTokens)
      BY <1>1, <3>1, Parts DEF TypeOK
    <3>3. head' \in Heads /\ body' \in Seq(ClientTokens)
      BY ONLY TypeOK, RequestRead, <2>3, <3>1, n \in 1..Len(fromClient), Parsed DEF read
    <3>4. /\ toClient' \in Seq(AnswerTokens)
          /\ client' \in {"open", "closing", "closed"}
          /\ socks' \in {socks, "connecting"}
          /\ st' \in {st, "ConnectingToSocks"}
      BY SMTT(30), <3>1, SendErrorTypes DEF ParseRequest, ConnectToSocks, TypeOK
    <3>5. QED
      BY <3>1, <3>2, <3>3, <3>4 DEF TypeOK
  <2>4. QED
    BY <2>1, <2>2, <2>3
<1>3. QED
  BY <1>1, <1>2 DEF ClientReadyRead, TypeOK, peerVars

LEMMA ForwardedType ==
    ASSUME TypeOK, head # None
    PROVE  Forwarded \in Seq(SocksTokens)
<1>1. <<head, End>> \in Seq(ClientTokens)
  BY TokenTypes DEF TypeOK
<1>2. <<head, End>> \o body \in Seq(ClientTokens)
  BY <1>1, Parts DEF TypeOK
<1>3. <<>> \in Seq(SocksTokens)
  BY EmptySeq
<1>4. QED
  BY <1>2, <1>3, Wider DEF Forwarded

LEMMA EstablishTypes ==
    ASSUME TypeOK, head # None, NEW rest \in Seq(PaqetTokens), Establish(rest)
    PROVE  /\ toSocks' \in Seq(SocksTokens) /\ toClient' \in Seq(AnswerTokens)
           /\ buffer' \in Seq(PaqetTokens)
<1> DEFINE ok == IF head.kind = "CONNECT" THEN <<Token("ok", None)>> ELSE <<>>
           more == IF client = "open" THEN rest ELSE <<>>
<1>1. ok \in Seq(AnswerTokens)
  BY TokenTypes, EmptySeq
<1>2. more \in Seq(PaqetTokens) /\ more \in Seq(AnswerTokens)
  BY Wider, EmptySeq
<1>3. toClient' = (toClient \o ok) \o more
  BY DEF Establish
<1> HIDE DEF ok, more
<1>4. toClient' \in Seq(AnswerTokens)
  BY <1>1, <1>2, <1>3, Parts DEF TypeOK
<1>5. toSocks' \in Seq(SocksTokens)
  BY ForwardedType, Parts DEF Establish, TypeOK
<1>6. buffer' \in Seq(PaqetTokens)
  BY EmptySeq DEF Establish
<1>7. QED
  BY <1>4, <1>5, <1>6

LEMMA SocksReadTypes ==
    ASSUME TypeOK, RequestParsed, NEW n \in 1..Len(fromPaqet), SocksReadyRead(n)
    PROVE  TypeOK'
<1> DEFINE in == buffer \o SubSeq(fromPaqet, 1, n)
<1>1. /\ SubSeq(fromPaqet, 1, n) \in Seq(PaqetTokens)
      /\ fromPaqet' \in Seq(PaqetTokens)
  BY Split DEF SocksReadyRead, TypeOK
<1>2. in \in Seq(PaqetTokens) /\ SubSeq(in, 3, Len(in)) \in Seq(PaqetTokens)
  <2>1. in \in Seq(PaqetTokens)
    BY <1>1, Parts DEF TypeOK
  <2>2. QED
    BY <2>1, Rest
<1>3. head \in Heads /\ head # None /\ head.arg # None
  BY TokenTypes DEF SocksReadyRead, RequestParsed, TypeOK
<1>4. /\ tunnel' \in BOOLEAN
      /\ toSocks' \in Seq(SocksTokens) /\ toClient' \in Seq(AnswerTokens)
      /\ buffer' \in Seq(PaqetTokens)
      /\ client' \in {"open", "closing", "closed"}
      /\ st' \in {"WaitingForRequest", "ConnectingToSocks", "SocksGreeting",
                  "SocksConnectRequest", "Tunneling"}
  <2>1. CASE st = "SocksGreeting"
    <3>1. HandleGreeting(in) /\ UNCHANGED tunnel
      BY <2>1 DEF SocksReadyRead
    <3> HIDE DEF in
    <3>2. CASE Len(in) < 2 /\ buffer' = in /\ UNCHANGED <<st, toSocks, toClient, client>>
      BY <1>2, <3>1, <3>2 DEF TypeOK
    <3>3. CASE /\ buffer' = SubSeq(in, 3, Len(in))
               /\ toSocks' = Append(toSocks, Token("connect", head.arg))
               /\ st' = "SocksConnectRequest"
               /\ UNCHANGED <<toClient, client>>
      <4>1. Token("connect", head.arg) \in SocksTokens
        BY <1>3, TokenTypes
      <4>2. toSocks' \in Seq(SocksTokens)
        BY <3>3, <4>1, Appended DEF TypeOK
      <4>3. QED
        BY <1>2, <3>1, <3>3, <4>2 DEF TypeOK
    <3>4. CASE buffer' = SubSeq(in, 3, Len(in)) /\ SendError(502) /\ UNCHANGED <<st, toSocks>>
      BY <1>2, <3>1, <3>4, SendErrorTypes DEF TypeOK
    <3>5. QED
      BY <3>1, <3>2, <3>3, <3>4 DEF HandleGreeting
  <2>2. CASE st = "SocksConnectRequest"
    <3>1. HandleReply(in)
      BY <2>2 DEF SocksReadyRead
    <3> HIDE DEF in
    <3>2. CASE SendError(502) /\ buffer' \in {in, SubSeq(in, 3, Len(in))}
               /\ UNCHANGED <<st, tunnel, toSocks>>
      <4>1. buffer' \in Seq(PaqetTokens)
        BY <1>2, <3>2
      <4>2. toClient' \in Seq(AnswerTokens) /\ client' \in {"open", "closing", "closed"}
        BY <3>2, SendErrorTypes
      <4>3. QED
        BY <3>2, <4>1, <4>2 DEF TypeOK
    <3>3. CASE buffer' = in /\ UNCHANGED <<st, tunnel, toSocks, toClient, client>>
      BY <1>2, <3>3 DEF TypeOK
    <3>4. CASE Establish(SubSeq(in, 3, Len(in))) /\ UNCHANGED client
      <4>1. /\ toSocks' \in Seq(SocksTokens) /\ toClient' \in Seq(AnswerTokens)
            /\ buffer' \in Seq(PaqetTokens)
        BY <1>2, <1>3, <3>4, EstablishTypes
      <4>2. QED
        BY <3>4, <4>1 DEF Establish, TypeOK
    <3>5. QED
      BY <3>1, <3>2, <3>3, <3>4 DEF HandleReply
  <2>3. CASE st = "Tunneling"
    <3>1. /\ toClient' = IF client = "open" THEN toClient \o in ELSE toClient
          /\ buffer' = <<>> /\ UNCHANGED <<st, tunnel, toSocks, client>>
      BY <2>3 DEF SocksReadyRead
    <3> HIDE DEF in
    <3>2. QED
      BY <1>2, <3>1, Parts, EmptySeq DEF TypeOK
  <2>4. CASE st \notin {"SocksGreeting", "SocksConnectRequest", "Tunneling"}
    <3>1. buffer' = in /\ UNCHANGED <<st, tunnel, toSocks, toClient, client>>
      BY <2>4 DEF SocksReadyRead
    <3>2. QED
      BY <1>2, <3>1 DEF TypeOK
  <2>5. QED
    BY <2>1, <2>2, <2>3, <2>4
<1>5. QED
  BY <1>1, <1>4 DEF SocksReadyRead, TypeOK, peerVars

LEMMA OtherTypes ==
    ASSUME TypeOK,
           SocksConnected \/ SocksRefused \/ ClientDisconnected \/ SocksDisconnected
           \/ ProxyStops \/ Delete \/ Over
    PROVE  TypeOK'
<1>1. CASE SocksConnected
  <2>1. toSocks' \in Seq(SocksTokens)
    BY <1>1, TokenTypes, Appended DEF SocksConnected, TypeOK
  <2>2. QED
    BY <1>1, <2>1 DEF SocksConnected, TypeOK, peerVars
<1>2. CASE SocksRefused
  <2>1. toClient' \in Seq(AnswerTokens) /\ client' \in {"open", "closing", "closed"}
    BY <1>2, SendErrorTypes DEF SocksRefused
  <2>2. QED
    BY <1>2, <2>1 DEF SocksRefused, TypeOK, handshakeVars
<1>3. CASE ClientDisconnected
  BY <1>3 DEF ClientDisconnected, Finished, TypeOK, peerVars, handshakeVars
<1>4. CASE SocksDisconnected
  <2>1. toClient' \in Seq(AnswerTokens) /\ client' \in {"open", "closing", "closed"}
    BY <1>4, SendErrorTypes DEF SocksDisconnected
  <2>2. QED
    BY <1>4, <2>1 DEF SocksDisconnected, Finished, TypeOK, peerVars, handshakeVars
<1>5. CASE ProxyStops
  BY <1>5 DEF ProxyStops, TypeOK, peerVars, handshakeVars
<1>6. CASE Delete
  BY <1>6, EmptySeq DEF Delete, TypeOK, peerVars, handshakeVars
<1>7. CASE Over
  BY <1>7 DEF Over, TypeOK, vars, peerVars, handshakeVars
<1>8. QED
  BY <1>1, <1>2, <1>3, <1>4, <1>5, <1>6, <1>7

-----------------------------------------------------------------------------
(* The request.                                                            *)

LEMMA ContainsAppend ==
    ASSUME NEW S, NEW s \in Seq(S), NEW x \in S, NEW e
    PROVE  Contains(Append(s, x), e) <=> Contains(s, e) \/ x = e
<1>1. Len(s) \in Nat
  BY LenProperties
<1>2. /\ Len(Append(s, x)) = Len(s) + 1 /\ Append(s, x)[Len(s) + 1] = x
      /\ \A i \in 1..Len(s) : Append(s, x)[i] = s[i]
  BY AppendProperties
<1>3. QED
  BY <1>1, <1>2 DEF Contains

LEMMA SentGrows ==
    ASSUME TypeOK, RequestRead, ClientSends
    PROVE  RequestRead' /\ (RequestParsed => RequestParsed')
<1>1. PICK t \in MaySend : sent' = Append(sent, t) /\ fromClient' = Append(fromClient, t)
  BY DEF ClientSends
<1>2. /\ t \in ClientTokens /\ (sent = <<>> => t \in Heads) /\ (Len(sent) = 1 => t = End)
      /\ (Len(sent) >= 2 /\ sent[1].kind # "GET" => Contains(atClient, Token("ok", None)))
  BY ClientSpeaks
<1>3. /\ sent \in Seq(ClientTokens) /\ fromClient \in Seq(ClientTokens)
      /\ request \in Seq(ClientTokens)
  BY DEF TypeOK
<1>4. Len(sent) \in Nat /\ (sent = <<>> <=> Len(sent) = 0)
  BY <1>3, LenProperties, EmptySeq
<1>5. /\ Len(sent') = Len(sent) + 1 /\ sent'[Len(sent) + 1] = t
      /\ \A i \in 1..Len(sent) : sent'[i] = sent[i]
  BY <1>1, <1>2, <1>3, AppendProperties
<1>6. /\ UNCHANGED <<atClient, tunnel, request, head, body, socks>>
  BY DEF ClientSends, handshakeVars
<1>7. ~tunnel => sent' = request \o fromClient'
  <2>1. SUFFICES ASSUME ~tunnel
                 PROVE  sent' = request \o fromClient'
    OBVIOUS
  <2>2. sent = request \o fromClient
    BY <2>1 DEF RequestRead
  <2>3. fromClient' = fromClient \o <<t>> /\ sent' = sent \o <<t>> /\ <<t>> \in Seq(ClientTokens)
    BY <1>1, <1>2, <1>3, Appended
  <2>4. sent \o <<t>> = request \o fromClient'
    BY ONLY <1>3, <2>2, <2>3, Move
  <2>5. QED
    BY <2>3, <2>4
<1>8. RequestRead'
  <2>1. Len(sent') >= 1 => sent'[1] \in Heads
    BY <1>2, <1>4, <1>5 DEF RequestRead
  <2>2. Len(sent') >= 2 => sent'[2] = End
    <3>1. CASE Len(sent) = 1
      BY <1>2, <1>5, <3>1
    <3>2. CASE Len(sent) >= 2
      BY <1>4, <1>5, <3>2 DEF RequestRead
    <3>3. CASE Len(sent) = 0
      BY ONLY <1>5, <3>3
    <3>4. \A k \in Nat : k = 0 \/ k = 1 \/ k >= 2
      OBVIOUS
    <3>5. Len(sent) \in Nat
      BY <1>4
    <3>6. QED
      BY <3>1, <3>2, <3>3, <3>4, <3>5
  <2>3. Len(sent') > 2 /\ sent'[1].kind # "GET" => Contains(atClient', Token("ok", None))
    BY <1>2, <1>4, <1>5, <1>6
  <2>4. QED
    BY <1>6, <1>7, <2>1, <2>2, <2>3 DEF RequestRead
<1>9. ASSUME RequestParsed
      PROVE  RequestParsed'
  BY <1>4, <1>5, <1>6, <1>9 DEF RequestParsed
<1>10. QED
  BY <1>8, <1>9

LEMMA RequestIsRead ==
    ASSUME TypeOK, RequestRead, RequestParsed, NEW n \in 1..Len(fromClient),
           ClientReadyRead(n)
    PROVE  RequestRead' /\ RequestParsed'
<1> DEFINE r == request \o SubSeq(fromClient, 1, n)
<1>1. UNCHANGED <<sent, atClient, tunnel>>
  BY DEF ClientReadyRead, peerVars
<1>2. CASE tunnel
  BY <1>1, <1>2 DEF ClientReadyRead, RequestRead, RequestParsed
<1>3. CASE ~tunnel
  <2>1. /\ request' = r /\ fromClient' = SubSeq(fromClient, n + 1, Len(fromClient))
    BY <1>3 DEF ClientReadyRead
  <2>2. /\ r \in Seq(ClientTokens) /\ Len(r) >= 1
        /\ sent = r \o SubSeq(fromClient, n + 1, Len(fromClient))
        /\ Len(sent) >= Len(r) /\ r[1] = sent[1] /\ r[1] \in Heads
        /\ (Contains(r, End) => Len(r) >= 2 /\ HeadersEnd(r) = 2)
    BY ONLY TypeOK, RequestRead, <1>3, n \in 1..Len(fromClient), RequestShape DEF r
  <2>3. /\ Contains(r, End) => ParseRequest
        /\ ~Contains(r, End) => UNCHANGED <<head, body, st, socks, toClient, client>>
    BY <1>3, <2>1 DEF ClientReadyRead
  <2> HIDE DEF r
  <2>4. sent' = request' \o fromClient'
    BY <1>1, <2>1, <2>2
  <2>5. RequestRead'
    BY <1>1, <2>4 DEF RequestRead
  <2>6. CASE ~Contains(r, End)
    <3>1. head = None
      <4>1. SUFFICES ASSUME head # None
                     PROVE  FALSE
        OBVIOUS
      <4>2. Len(request) >= 2 /\ sent[2] = End
        BY <1>3, <4>1 DEF RequestParsed, RequestRead
      <4>3. Len(r) = Len(request) + n /\ Len(request) \in Nat /\ n \in Nat
        BY Split, Concat, LenProperties DEF r, TypeOK
      <4>4. r[2] = sent[2]
        BY <2>2, <4>2, <4>3, Split, ConcatProperties DEF TypeOK
      <4>5. QED
        BY <2>6, <4>2, <4>3, <4>4 DEF Contains
    <3>2. QED
      BY <1>1, <2>3, <2>5, <2>6, <3>1 DEF RequestParsed
  <2>7. CASE Contains(r, End)
    <3>1. /\ head' = sent[1] /\ head' \in Heads
          /\ Len(r) >= 2 /\ Len(sent) >= Len(r) /\ body' = SubSeq(r, 3, Len(r))
      BY ONLY TypeOK, RequestRead, <1>3, n \in 1..Len(fromClient), <2>1, <2>3, <2>7, Parsed
         DEF r
    <3>2. head' # None
      BY <3>1, TokenTypes
    <3>3. Len(r) \in Nat /\ Len(sent) \in Nat
      BY <2>2, LenProperties DEF TypeOK
    <3>4. socks' # "unconnected" => head'.arg # None
      <4>1. CASE head'.arg = None
        <5>1. socks' = socks
          BY <2>3, <2>7, <4>1 DEF ParseRequest
        <5>2. socks # "unconnected" => head' = head
          BY <3>1 DEF RequestParsed
        <5>3. QED
          BY <5>1, <5>2 DEF RequestParsed
      <4>2. QED
        BY <4>1
    <3>5. QED
      BY <1>1, <2>1, <2>5, <3>1, <3>2, <3>3, <3>4 DEF RequestParsed
  <2>8. QED
    BY <2>5, <2>6, <2>7
<1>4. QED
  BY <1>2, <1>3

LEMMA RequestStep ==
    ASSUME TypeOK, RequestRead, RequestParsed, [Next]_vars
    PROVE  RequestRead' /\ RequestParsed'
<1>1. CASE ClientSends
  BY <1>1, SentGrows
<1>2. ASSUME NEW n \in 1..Len(fromClient), ClientReadyRead(n)
      PROVE  RequestRead' /\ RequestParsed'
  BY <1>2, RequestIsRead
<1>3. ASSUME NEW n \in 1..Len(fromPaqet), SocksReadyRead(n)
      PROVE  RequestRead' /\ RequestParsed'
  <2>1. /\ UNCHANGED <<sent, fromClient, atClient, request, head, body, socks>>
    BY <1>3 DEF SocksReadyRead, peerVars
  <2>2. tunnel' = tunnel \/ tunnel' = TRUE
    BY <1>3, Zenon DEF SocksReadyRead, HandleGreeting, HandleReply, Establish
  <2>3. QED
    BY <2>1, <2>2 DEF RequestRead, RequestParsed
<1>4. CASE FlushClient
  <2>1. UNCHANGED <<sent, fromClient, tunnel, request, head, body, socks>>
    BY <1>4 DEF FlushClient, peerVars, handshakeVars
  <2>2. Contains(atClient, Token("ok", None)) => Contains(atClient', Token("ok", None))
    BY <1>4, Taken, ContainsAppend DEF FlushClient, TypeOK
  <2>3. QED
    BY <2>1, <2>2 DEF RequestRead, RequestParsed
<1>5. CASE SocksConnected \/ SocksRefused \/ ClientDisconnected \/ SocksDisconnected
           \/ ProxyStops \/ Delete \/ Over \/ FlushSocks \/ PaqetAnswers \/ PaqetLeaves
           \/ ClientLeaves \/ UNCHANGED vars
  <2>1. UNCHANGED <<sent, fromClient, atClient, tunnel, request, head, body>>
    BY <1>5 DEF SocksConnected, SocksRefused, ClientDisconnected, SocksDisconnected,
       ProxyStops, Delete, Over, FlushSocks, PaqetAnswers, PaqetLeaves, ClientLeaves,
       vars, peerVars, handshakeVars
  <2>2. socks' # "unconnected" => socks # "unconnected"
    BY <1>5 DEF SocksConnected, SocksRefused, ClientDisconnected, SocksDisconnected,
       ProxyStops, Delete, Over, FlushSocks, PaqetAnswers, PaqetLeaves, ClientLeaves, vars
  <2>3. QED
    BY <2>1, <2>2 DEF RequestRead, RequestParsed
<1>6. QED
  BY <1>1, <1>2, <1>3, <1>4, <1>5 DEF Next, Reads

-----------------------------------------------------------------------------
(* The handshake.                                                          *)

Ok == Token("ok", None)
Written == Len(atPaqet) + Len(toSocks)

(* A token paqet only sends when it has granted the connection.            *)
Granting(t) == t.kind = "data" \/ (t.kind = "reply" /\ t.arg = "granted")
GrantedOnly(s) == \A i \in DOMAIN s : Granting(s[i]) => stage = "relay"

(* Before the tunnel is up nothing but the two messages of the handshake   *)
(* has been written for paqet, one per state, and no CONNECT is answered.  *)
HandshakeKept ==
    /\ tunnel <=> st = "Tunneling"
    /\ tunnel => stage = "relay"
    /\ ~tunnel => ~Contains(atClient, Ok) /\ ~Contains(toClient, Ok)
    /\ ~tunnel => Written <= 2
    /\ st = "SocksGreeting" => Written <= 1
    /\ socks = "connecting" \/ (client = "open" /\ socks = "unconnected")
          => stage = "greeting" /\ Written = 0
    /\ GrantedOnly(fromPaqet)
    /\ GrantedOnly(buffer)

LEMMA WrittenIsNat ==
    ASSUME TypeOK
    PROVE  /\ Written \in Nat /\ Len(atPaqet) \in Nat /\ Len(toSocks) \in Nat
           /\ DOMAIN fromPaqet = 1..Len(fromPaqet) /\ DOMAIN buffer = 1..Len(buffer)
  BY LenProperties DEF TypeOK, Written

LEMMA ErrorIsNoSuccess ==
    ASSUME TypeOK, NEW c \in {400, 502}, SendError(c)
    PROVE  client' # "open" /\ (Contains(toClient', Ok) => Contains(toClient, Ok))
<1>1. Error(c) # Ok /\ Error(c) \in AnswerTokens
  BY TokenTypes DEF Error, Ok, Token
<1>2. toClient' = toClient \/ toClient' = Append(toClient, Error(c))
  BY DEF SendError, Write
<1>3. toClient \in Seq(AnswerTokens)
  BY DEF TypeOK
<1>4. Contains(Append(toClient, Error(c)), Ok) <=> Contains(toClient, Ok) \/ Error(c) = Ok
  BY <1>1, <1>3, ContainsAppend
<1>5. Contains(toClient', Ok) => Contains(toClient, Ok)
  BY <1>1, <1>2, <1>4
<1>6. QED
  BY <1>5 DEF SendError

(* What is read is part of what was in flight, or was there before.        *)
LEMMA ReadGrants ==
    ASSUME TypeOK, HandshakeKept, NEW n \in 1..Len(fromPaqet),
           NEW in, in = buffer \o SubSeq(fromPaqet, 1, n)
    PROVE  /\ in \in Seq(PaqetTokens) /\ Len(in) >= 1
           /\ GrantedOnly(in) /\ GrantedOnly(SubSeq(in, 3, Len(in)))
           /\ GrantedOnly(SubSeq(fromPaqet, n + 1, Len(fromPaqet)))
<1>1. /\ buffer \in Seq(PaqetTokens) /\ fromPaqet \in Seq(PaqetTokens)
      /\ Len(buffer) \in Nat /\ Len(fromPaqet) \in Nat /\ n \in Nat /\ n >= 1
      /\ n <= Len(fromPaqet)
  BY LenProperties DEF TypeOK
<1> DEFINE read == SubSeq(fromPaqet, 1, n)
           rest == SubSeq(fromPaqet, n + 1, Len(fromPaqet))
<1>2. /\ read \in Seq(PaqetTokens) /\ Len(read) = n
      /\ \A i \in 1..n : read[i] = fromPaqet[i]
  BY <1>1, ElementOfSeq, SubSeqProperties
<1>3. /\ rest \in Seq(PaqetTokens) /\ Len(rest) = Len(fromPaqet) - n
      /\ \A i \in 1..(Len(fromPaqet) - n) : rest[i] = fromPaqet[n + i]
  BY <1>1, ElementOfSeq, SubSeqProperties
<1>4. /\ in \in Seq(PaqetTokens) /\ Len(in) = Len(buffer) + n
      /\ \A i \in 1..Len(buffer) : in[i] = buffer[i]
      /\ \A i \in (Len(buffer) + 1)..(Len(buffer) + n) : in[i] = read[i - Len(buffer)]
  BY <1>1, <1>2, ConcatProperties
<1> HIDE DEF read, rest
<1>5. /\ DOMAIN in = 1..Len(in) /\ DOMAIN rest = 1..Len(rest)
      /\ DOMAIN fromPaqet = 1..Len(fromPaqet) /\ DOMAIN buffer = 1..Len(buffer)
  BY <1>1, <1>3, <1>4, LenProperties
<1>6. ASSUME NEW i \in DOMAIN in
      PROVE  Granting(in[i]) => stage = "relay"
  <2>1. i \in Nat /\ i >= 1 /\ i <= Len(buffer) + n
    BY <1>1, <1>4, <1>5
  <2>2. CASE i <= Len(buffer)
    <3>1. in[i] = buffer[i] /\ i \in DOMAIN buffer
      BY <1>1, <1>4, <1>5, <2>1, <2>2
    <3>2. QED
      BY <3>1 DEF HandshakeKept, GrantedOnly
  <2>3. CASE i > Len(buffer)
    <3>1. in[i] = read[i - Len(buffer)] /\ i - Len(buffer) \in 1..n
      BY <1>1, <1>4, <2>1, <2>3
    <3>2. in[i] = fromPaqet[i - Len(buffer)] /\ i - Len(buffer) \in DOMAIN fromPaqet
      BY <1>1, <1>2, <1>5, <3>1
    <3>3. QED
      BY <3>2 DEF HandshakeKept, GrantedOnly
  <2>4. QED
    BY <1>1, <2>1, <2>2, <2>3
<1>7. GrantedOnly(in)
  BY <1>6 DEF GrantedOnly
<1>8. GrantedOnly(rest)
  <2>1. ASSUME NEW i \in DOMAIN rest
        PROVE  rest[i] = fromPaqet[n + i] /\ n + i \in DOMAIN fromPaqet
    BY <1>1, <1>3, <1>5
  <2>2. QED
    BY <2>1 DEF HandshakeKept, GrantedOnly
<1>9. GrantedOnly(SubSeq(in, 3, Len(in)))
  <2> DEFINE left == SubSeq(in, 3, Len(in))
  <2>1. /\ left \in Seq(PaqetTokens) /\ Len(in) \in Nat
        /\ Len(left) = IF 3 <= Len(in) THEN Len(in) - 2 ELSE 0
        /\ \A i \in 1..(Len(in) - 2) : left[i] = in[3 + i - 1]
    BY SMTT(30), <1>1, <1>4, ElementOfSeq, SubSeqProperties
  <2>2. DOMAIN left = 1..Len(left)
    BY <2>1, LenProperties
  <2> HIDE DEF left
  <2>3. ASSUME NEW i \in DOMAIN left
        PROVE  left[i] = in[i + 2] /\ i + 2 \in DOMAIN in
    <3>1. i \in Nat /\ i >= 1 /\ i <= Len(left)
      BY <2>1, <2>2
    <3>2. i \in 1..(Len(in) - 2)
      BY <2>1, <3>1
    <3>3. 3 + i - 1 = i + 2 /\ i + 2 \in 1..Len(in)
      BY <2>1, <3>2
    <3>4. QED
      BY <1>5, <2>1, <3>2, <3>3
  <2>4. QED
    BY <2>3, <1>7 DEF GrantedOnly, left
<1>10. QED
  BY <1>1, <1>4, <1>7, <1>8, <1>9 DEF rest

LEMMA GrantedReply ==
    ASSUME NEW t \in PaqetTokens, t.arg = "granted"
    PROVE  Granting(t)
<1>1. \A m, x : Token(m, x).kind = m /\ Token(m, x).arg = x
  BY DEF Token
<1>2. t # Token("version", None) /\ t # Token("address", None)
  BY <1>1, NoneAssumption
<1>3. \A m \in {"none", "other"} : t # Token("method", m)
  BY <1>1
<1>4. QED
  BY <1>1, <1>2, <1>3 DEF PaqetTokens, Granting, Data

(* One more token for paqet is one more written.                           *)
LEMMA WriteOne ==
    ASSUME TypeOK, NEW t \in SocksTokens, atPaqet' = atPaqet, toSocks' = Append(toSocks, t)
    PROVE  Written' = Written + 1
<1>1. Len(toSocks') = Len(toSocks) + 1
  BY AppendProperties DEF TypeOK
<1>2. QED
  BY <1>1, WrittenIsNat DEF Written

LEMMA SocksReadKeeps ==
    ASSUME TypeOK, RequestParsed, HandshakeKept,
           NEW n \in 1..Len(fromPaqet), SocksReadyRead(n)
    PROVE  HandshakeKept'
<1> DEFINE in == buffer \o SubSeq(fromPaqet, 1, n)
<1>1. /\ socks = "connected" /\ UNCHANGED <<stage, atClient, atPaqet, socks>>
      /\ fromPaqet' = SubSeq(fromPaqet, n + 1, Len(fromPaqet))
  BY DEF SocksReadyRead, peerVars
<1>2. /\ in \in Seq(PaqetTokens) /\ Len(in) >= 1
      /\ GrantedOnly(in) /\ GrantedOnly(SubSeq(in, 3, Len(in)))
      /\ GrantedOnly(SubSeq(fromPaqet, n + 1, Len(fromPaqet)))
  BY ONLY TypeOK, HandshakeKept, n \in 1..Len(fromPaqet), ReadGrants DEF in
<1>3. GrantedOnly(<<>>)
  BY DEF GrantedOnly
<1>4. GrantedOnly(fromPaqet)'
  BY <1>1, <1>2 DEF GrantedOnly
<1>5. ASSUME UNCHANGED tunnel, UNCHANGED st, UNCHANGED toSocks,
             ~tunnel => (Contains(toClient', Ok) => Contains(toClient, Ok)), 
             client' = client \/ client' # "open",
             buffer' \in {in, SubSeq(in, 3, Len(in)), <<>>}
      PROVE  HandshakeKept'
  <2>1. GrantedOnly(buffer)'
    BY <1>1, <1>2, <1>3, <1>5 DEF GrantedOnly
  <2>2. Written' = Written
    BY <1>1, <1>5 DEF Written
  <2>3. QED
    BY <1>1, <1>4, <1>5, <2>1, <2>2 DEF HandshakeKept
<1>6. CASE st = "SocksGreeting"
  <2>1. HandleGreeting(in) /\ UNCHANGED tunnel
    BY <1>6 DEF SocksReadyRead
  <2>2. ~tunnel /\ Written <= 1
    BY <1>6 DEF HandshakeKept
  <2> HIDE DEF in
  <2>3. CASE Len(in) < 2 /\ buffer' = in /\ UNCHANGED <<st, toSocks, toClient, client>>
    BY <1>5, <2>1, <2>3
  <2>4. CASE /\ buffer' = SubSeq(in, 3, Len(in))
             /\ toSocks' = Append(toSocks, Token("connect", head.arg))
             /\ st' = "SocksConnectRequest"
             /\ UNCHANGED <<toClient, client>>
    <3>1. Token("connect", head.arg) \in SocksTokens
      BY <1>1, TokenTypes DEF RequestParsed, TypeOK
    <3>2. Written' = Written + 1
      BY <1>1, <2>4, <3>1, WriteOne
    <3>3. Written' <= 2
      BY <2>2, <3>2, WrittenIsNat
    <3>4. GrantedOnly(buffer)'
      BY <1>1, <1>2, <2>4 DEF GrantedOnly
    <3>5. QED
      BY <1>1, <1>4, <2>1, <2>2, <2>4, <3>3, <3>4 DEF HandshakeKept
  <2>5. CASE buffer' = SubSeq(in, 3, Len(in)) /\ SendError(502) /\ UNCHANGED <<st, toSocks>>
    BY <1>5, <2>1, <2>5, ErrorIsNoSuccess
  <2>6. QED
    BY <2>1, <2>3, <2>4, <2>5 DEF HandleGreeting
<1>7. CASE st = "SocksConnectRequest"
  <2>1. HandleReply(in)
    BY <1>7 DEF SocksReadyRead
  <2> HIDE DEF in
  <2>2. CASE SendError(502) /\ buffer' \in {in, SubSeq(in, 3, Len(in))}
             /\ UNCHANGED <<st, tunnel, toSocks>>
    BY <1>5, <2>2, ErrorIsNoSuccess
  <2>3. CASE buffer' = in /\ UNCHANGED <<st, tunnel, toSocks, toClient, client>>
    BY <1>5, <2>3
  <2>4. CASE in[1].arg = "granted" /\ Establish(SubSeq(in, 3, Len(in))) /\ UNCHANGED client
    <3>1. in[1] \in PaqetTokens /\ 1 \in DOMAIN in
      BY <1>2, ElementOfSeq, LenProperties
    <3>2. stage = "relay"
      BY <1>2, <2>4, <3>1, GrantedReply DEF GrantedOnly
    <3>3. GrantedOnly(buffer)'
      BY <1>1, <1>2, <1>3, <2>4 DEF GrantedOnly, Establish
    <3>4. QED
      BY <1>1, <1>4, <2>4, <3>2, <3>3 DEF HandshakeKept, Establish
  <2>5. QED
    BY <2>1, <2>2, <2>3, <2>4 DEF HandleReply
<1>8. CASE st = "Tunneling"
  <2>1. buffer' = <<>> /\ UNCHANGED <<st, tunnel, toSocks, client>> /\ tunnel
    BY <1>8 DEF SocksReadyRead, HandshakeKept
  <2>2. QED
    BY <1>5, <2>1
<1>9. CASE st \notin {"SocksGreeting", "SocksConnectRequest", "Tunneling"}
  <2>1. buffer' = in /\ UNCHANGED <<st, tunnel, toSocks, toClient, client>>
    BY <1>9 DEF SocksReadyRead
  <2>2. QED
    BY <1>5, <2>1
<1>10. QED
  BY <1>6, <1>7, <1>8, <1>9

LEMMA ClientReadKeeps ==
    ASSUME TypeOK, HandshakeKept, NEW n \in 1..Len(fromClient), ClientReadyRead(n)
    PROVE  HandshakeKept'
<1>1. /\ client = "open"
      /\ UNCHANGED <<stage, atClient, atPaqet, fromPaqet, buffer, tunnel>>
  BY DEF ClientReadyRead, peerVars
<1>2. GrantedOnly(fromPaqet)' /\ GrantedOnly(buffer)'
  BY <1>1 DEF HandshakeKept, GrantedOnly
<1>3. CASE tunnel
  <2>1. UNCHANGED <<st, socks, client>>
    BY <1>3 DEF ClientReadyRead
  <2>2. QED
    BY <1>1, <1>2, <1>3, <2>1 DEF HandshakeKept
<1>4. CASE ~tunnel
  <2>1. toSocks' = toSocks /\ Written' = Written
    BY <1>1, <1>4 DEF ClientReadyRead, Written
  <2>2. ParseRequest \/ UNCHANGED <<st, socks, toClient, client>>
    BY <1>4 DEF ClientReadyRead
  <2>3. st' \in {st, "ConnectingToSocks"}
    BY <2>2 DEF ParseRequest
  <2>4. /\ Contains(toClient', Ok) => Contains(toClient, Ok)
        /\ client' = "open" => socks' = socks \/ (socks = "unconnected" /\ socks' = "connecting")
        /\ socks' = "connecting" => socks \in {"connecting", "unconnected"}
    BY <2>2, ErrorIsNoSuccess DEF ParseRequest, ConnectToSocks
  <2>5. QED
    BY <1>1, <1>2, <1>4, <2>1, <2>3, <2>4 DEF HandshakeKept
<1>5. QED
  BY <1>3, <1>4

LEMMA PaqetKeeps ==
    ASSUME TypeOK, HandshakeKept, PaqetAnswers
    PROVE  HandshakeKept'
<1>1. /\ socks = "connected"
      /\ UNCHANGED <<toClient, toSocks, atClient, atPaqet, client, socks, st, tunnel, buffer>>
  BY DEF PaqetAnswers, handshakeVars
<1>2. Written' = Written
  BY <1>1 DEF Written
<1>3. (stage = "relay" => stage' = "relay") /\ GrantedOnly(fromPaqet)'
  <2>1. CASE stage = "relay"
    BY <2>1 DEF PaqetAnswers, GrantedOnly
  <2>2. ASSUME stage # "relay", NEW a \in PaqetTokens, NEW b \in PaqetTokens,
               fromPaqet' = fromPaqet \o <<a, b>>, ~Granting(b),
               Granting(a) => stage' = "relay"
        PROVE  GrantedOnly(fromPaqet)'
    <3>1. /\ Len(fromPaqet) \in Nat /\ fromPaqet \in Seq(PaqetTokens)
          /\ <<a, b>> \in Seq(PaqetTokens) /\ Len(<<a, b>>) = 2
      BY LenProperties DEF TypeOK
    <3>2. /\ fromPaqet' \in Seq(PaqetTokens) /\ Len(fromPaqet') = Len(fromPaqet) + 2
          /\ \A i \in 1..Len(fromPaqet) : fromPaqet'[i] = fromPaqet[i]
          /\ fromPaqet'[Len(fromPaqet) + 1] = a /\ fromPaqet'[Len(fromPaqet) + 2] = b
      BY <2>2, <3>1, ConcatProperties
    <3>3. DOMAIN fromPaqet' = 1..(Len(fromPaqet) + 2) /\ DOMAIN fromPaqet = 1..Len(fromPaqet)
      BY <3>1, <3>2, LenProperties
    <3>4. ASSUME NEW i \in DOMAIN fromPaqet', Granting(fromPaqet'[i])
          PROVE  stage' = "relay"
      <4>1. i \in 1..Len(fromPaqet) \/ i = Len(fromPaqet) + 1 \/ i = Len(fromPaqet) + 2
        BY <3>1, <3>3
      <4>2. i \notin 1..Len(fromPaqet)
        BY <2>2, <3>2, <3>3, <3>4 DEF HandshakeKept, GrantedOnly
      <4>3. QED
        BY <2>2, <3>2, <3>4, <4>1, <4>2
    <3>5. QED
      BY <3>4 DEF GrantedOnly
  <2>3. \A m, x : Token(m, x).kind = m /\ Token(m, x).arg = x
    BY DEF Token
  <2>4. CASE \E m \in {"none", "other"} :
                /\ fromPaqet' = fromPaqet \o <<Token("version", None), Token("method", m)>>
                /\ stage = "greeting"
    <3>1. PICK m \in {"none", "other"} :
                  fromPaqet' = fromPaqet \o <<Token("version", None), Token("method", m)>>
      BY <2>4
    <3>2. Token("version", None) \in PaqetTokens /\ Token("method", m) \in PaqetTokens
      BY TokenTypes
    <3>3. ~Granting(Token("version", None)) /\ ~Granting(Token("method", m))
      BY <2>3 DEF Granting
    <3>4. QED
      BY <2>2, <2>4, <3>1, <3>2, <3>3
  <2>5. CASE \E r \in {"granted", "denied", "strange"} :
                /\ fromPaqet' = fromPaqet \o <<Token("reply", r), Token("address", None)>>
                /\ stage' = IF r = "granted" THEN "relay" ELSE "refused"
                /\ stage = "connect"
    <3>1. PICK r \in {"granted", "denied", "strange"} :
                  /\ fromPaqet' = fromPaqet \o <<Token("reply", r), Token("address", None)>>
                  /\ stage' = IF r = "granted" THEN "relay" ELSE "refused"
      BY <2>5
    <3>2. Token("reply", r) \in PaqetTokens /\ Token("address", None) \in PaqetTokens
      BY TokenTypes
    <3>3. ~Granting(Token("address", None)) /\ (Granting(Token("reply", r)) => r = "granted")
      BY <2>3 DEF Granting
    <3>4. QED
      BY <2>2, <2>5, <3>1, <3>2, <3>3
  <2>6. QED
    BY <2>1, <2>4, <2>5 DEF PaqetAnswers
<1>4. GrantedOnly(buffer)'
  BY <1>1, <1>3 DEF HandshakeKept, GrantedOnly
<1>5. QED
  BY <1>1, <1>2, <1>3, <1>4 DEF HandshakeKept

LEMMA OthersKeep ==
    ASSUME TypeOK, HandshakeKept,
           \/ ClientSends \/ ClientLeaves \/ PaqetLeaves \/ FlushClient \/ FlushSocks
           \/ SocksConnected \/ SocksRefused \/ ClientDisconnected \/ SocksDisconnected
           \/ ProxyStops \/ Delete \/ Over \/ UNCHANGED vars
    PROVE  HandshakeKept'
<1>1. CASE ClientSends \/ ClientLeaves \/ PaqetLeaves \/ ProxyStops \/ Over \/ UNCHANGED vars
  <2>1. UNCHANGED <<stage, fromPaqet, toClient, toSocks, atClient, atPaqet, client, socks,
                    st, tunnel, buffer>>
    BY <1>1 DEF ClientSends, ClientLeaves, PaqetLeaves, ProxyStops, Over, vars,
       peerVars, handshakeVars
  <2>2. QED
    BY <2>1 DEF HandshakeKept, GrantedOnly, Written
<1>2. CASE FlushClient
  <2>1. UNCHANGED <<stage, fromPaqet, toSocks, atPaqet, client, socks, st, tunnel, buffer>>
    BY <1>2 DEF FlushClient, peerVars, handshakeVars
  <2>2. ~tunnel => ~Contains(atClient', Ok) /\ ~Contains(toClient', Ok)
    <3>1. SUFFICES ASSUME ~tunnel
                   PROVE  ~Contains(atClient', Ok) /\ ~Contains(toClient', Ok)
      OBVIOUS
    <3>2. ~Contains(atClient, Ok) /\ ~Contains(toClient, Ok)
      BY <3>1 DEF HandshakeKept
    <3>3. /\ atClient \in Seq(AnswerTokens) /\ toClient \in Seq(AnswerTokens)
          /\ toClient # <<>> /\ atClient' = Append(atClient, Head(toClient))
          /\ toClient' = Tail(toClient)
      BY <1>2 DEF FlushClient, TypeOK
    <3>4. /\ Head(toClient) = toClient[1] /\ Head(toClient) \in AnswerTokens
          /\ Len(toClient) \in Nat /\ Len(toClient) >= 1
          /\ Len(toClient') = Len(toClient) - 1
          /\ \A i \in 1..Len(toClient') : toClient'[i] = toClient[i + 1]
      BY <3>3, HeadTailProperties, LenProperties, EmptySeq
    <3>5. Head(toClient) # Ok
      BY <3>2, <3>4 DEF Contains
    <3>6. ~Contains(atClient', Ok)
      BY <3>2, <3>3, <3>4, <3>5, ContainsAppend
    <3>7. QED
      BY <3>2, <3>4, <3>6 DEF Contains
  <2>3. QED
    BY <2>1, <2>2 DEF HandshakeKept, GrantedOnly, Written
<1>3. CASE FlushSocks
  <2>1. UNCHANGED <<stage, fromPaqet, toClient, atClient, client, socks, st, tunnel, buffer>>
    BY <1>3 DEF FlushSocks, peerVars, handshakeVars
  <2>2. Len(atPaqet') = Len(atPaqet) + 1 /\ Len(toSocks') = Len(toSocks) - 1
    <3>1. /\ atPaqet \in Seq(SocksTokens) /\ toSocks \in Seq(SocksTokens) /\ toSocks # <<>>
          /\ atPaqet' = Append(atPaqet, Head(toSocks)) /\ toSocks' = Tail(toSocks)
      BY <1>3 DEF FlushSocks, TypeOK
    <3>2. QED
      BY <3>1, HeadTailProperties, AppendProperties
  <2>3. Written' = Written
    BY <2>2, WrittenIsNat DEF Written
  <2>4. QED
    BY <2>1, <2>3 DEF HandshakeKept, GrantedOnly
<1>4. CASE SocksConnected
  <2>1. /\ socks = "connecting" /\ socks' = "connected" /\ st' = "SocksGreeting"
        /\ toSocks' = Append(toSocks, Token("greeting", None))
        /\ UNCHANGED <<stage, fromPaqet, toClient, atClient, atPaqet, client, tunnel, buffer>>
    BY <1>4 DEF SocksConnected, peerVars
  <2>2. Written = 0 /\ ~tunnel
    BY <2>1 DEF HandshakeKept
  <2>3. Written' = 1
    BY <2>1, <2>2, TokenTypes, WriteOne
  <2>4. QED
    BY <2>1, <2>2, <2>3 DEF HandshakeKept, GrantedOnly
<1>5. CASE SocksRefused
  <2>1. /\ socks = "connecting" /\ socks' = "unconnected" /\ SendError(502)
        /\ UNCHANGED <<fromPaqet, toSocks, atClient, atPaqet, st, tunnel, buffer>>
    BY <1>5 DEF SocksRefused, handshakeVars
  <2>2. stage = "greeting" /\ ~tunnel
    BY <2>1 DEF HandshakeKept
  <2>3. client' # "open" /\ (Contains(toClient', Ok) => Contains(toClient, Ok))
    BY <2>1, ErrorIsNoSuccess
  <2>4. QED
    BY <2>1, <2>2, <2>3 DEF HandshakeKept, GrantedOnly, Written
<1>6. CASE ClientDisconnected
  <2>1. /\ client' = "closed" /\ socks' \in {"closing", "unconnected"}
        /\ UNCHANGED <<stage, fromPaqet, toClient, toSocks, atClient, atPaqet, st, tunnel, buffer>>
    BY <1>6 DEF ClientDisconnected, peerVars, handshakeVars
  <2>2. QED
    BY <2>1 DEF HandshakeKept, GrantedOnly, Written
<1>7. CASE SocksDisconnected
  <2>1. /\ socks' = "unconnected" /\ SendError(502)
        /\ UNCHANGED <<stage, fromPaqet, toSocks, atClient, atPaqet, st, tunnel, buffer>>
    BY <1>7 DEF SocksDisconnected, peerVars, handshakeVars
  <2>2. client' # "open" /\ (Contains(toClient', Ok) => Contains(toClient, Ok))
    BY <2>1, ErrorIsNoSuccess
  <2>3. QED
    BY <2>1, <2>2 DEF HandshakeKept, GrantedOnly, Written
<1>8. CASE Delete
  <2>1. /\ client' = "closed" /\ socks' = "unconnected" /\ toClient' = <<>> /\ toSocks' = <<>>
        /\ UNCHANGED <<stage, fromPaqet, atClient, atPaqet, st, tunnel, buffer>>
    BY <1>8 DEF Delete, peerVars, handshakeVars
  <2>2. Written' <= Written
    BY <2>1, WrittenIsNat, EmptySeq DEF Written
  <2>3. ~Contains(toClient', Ok)
    BY <2>1 DEF Contains
  <2>4. Written' \in Nat
    BY <2>1, WrittenIsNat, EmptySeq DEF Written
  <2>5. QED
    BY <2>1, <2>2, <2>3, <2>4, WrittenIsNat DEF HandshakeKept, GrantedOnly
<1>9. QED
  BY <1>1, <1>2, <1>3, <1>4, <1>5, <1>6, <1>7, <1>8

-----------------------------------------------------------------------------
(* The inductive invariant.                                                *)

Relayed == TypeOK /\ RequestRead /\ RequestParsed /\ HandshakeKept

LEMMA InitRelayed == Init => Relayed
<1> SUFFICES ASSUME Init
             PROVE  Relayed
  OBVIOUS
<1>1. TypeOK
  BY InitTypes
<1>2. RequestRead
  <2>1. Len(<<>>) = 0 /\ <<>> \o <<>> = <<>>
    BY EmptySeq, ConcatEmptySeq
  <2>2. QED
    BY <2>1 DEF Init, RequestRead
<1>3. RequestParsed
  BY DEF Init, RequestParsed
<1>4. HandshakeKept
  BY DEF Init, HandshakeKept, GrantedOnly, Written, Contains
<1>5. QED
  BY <1>1, <1>2, <1>3, <1>4 DEF Relayed

LEMMA TypesKept ==
    ASSUME Relayed, [Next]_vars
    PROVE  TypeOK'
<1>1. CASE UNCHANGED vars
  BY <1>1 DEF Relayed, TypeOK, vars, peerVars, handshakeVars
<1>2. ASSUME NEW n \in 1..Len(fromClient), ClientReadyRead(n)
      PROVE  TypeOK'
  BY <1>2, ClientReadTypes DEF Relayed
<1>3. ASSUME NEW n \in 1..Len(fromPaqet), SocksReadyRead(n)
      PROVE  TypeOK'
  BY <1>3, SocksReadTypes DEF Relayed
<1>4. QED
  BY <1>1, <1>2, <1>3, PeerTypes, OtherTypes DEF Relayed, Next, Reads

LEMMA RelayedKept == Relayed /\ [Next]_vars => Relayed'
<1> SUFFICES ASSUME Relayed, [Next]_vars
             PROVE  Relayed'
  OBVIOUS
<1>1. TypeOK'
  BY TypesKept
<1>2. RequestRead' /\ RequestParsed'
  BY RequestStep DEF Relayed
<1>3. HandshakeKept'
  <2>1. ASSUME NEW n \in 1..Len(fromClient), ClientReadyRead(n)
        PROVE  HandshakeKept'
    BY <2>1, ClientReadKeeps DEF Relayed
  <2>2. ASSUME NEW n \in 1..Len(fromPaqet), SocksReadyRead(n)
        PROVE  HandshakeKept'
    BY <2>2, SocksReadKeeps DEF Relayed
  <2>3. QED
    BY <2>1, <2>2, PaqetKeeps, OthersKeep DEF Relayed, Next, Reads
<1>4. QED
  BY <1>1, <1>2, <1>3 DEF Relayed

(* Every variable of the relay always has its type.                        *)
THEOREM TypeCorrect == Spec => []TypeOK
<1>1. Relayed => TypeOK
  BY DEF Relayed
<1>2. QED
  BY <1>1, InitRelayed, RelayedKept, PTL DEF Spec

(* Nothing of the client's passes the handshake, and no CONNECT is         *)
(* answered with success, before paqet has granted the connection, however *)
(* the requests and paqet's answers are cut into pieces.                   *)
THEOREM GrantComesFirst == Spec => []GrantedFirst
<1>1. Relayed => GrantedFirst
  <2>1. SUFFICES ASSUME Relayed, ~tunnel
                 PROVE  Len(atPaqet \o toSocks) <= 2 /\ ~Contains(atClient, Token("ok", None))
    BY WrittenIsNat, Concat DEF GrantedFirst, Relayed, HandshakeKept, TypeOK, Written
  <2>2. Len(atPaqet \o toSocks) = Written
    BY <2>1, Concat DEF Relayed, TypeOK, Written
  <2>3. QED
    BY <2>1, <2>2 DEF Relayed, HandshakeKept, Ok
<1>2. QED
  BY <1>1, InitRelayed, RelayedKept, PTL DEF Spec

-----------------------------------------------------------------------------
(* The order of what paqet receives.                                       *)

Stream == atPaqet \o toSocks
Greeting == Token("greeting", None)
HandshakeOf(s) == <<Greeting, Token("connect", s[1].arg)>>
PayloadOf(s) == IF s[1].kind = "GET" THEN s ELSE SubSeq(s, 3, Len(s))
ExpectedOf(s) ==
    IF Len(s) < 2 \/ s[1].arg = None THEN <<>> ELSE HandshakeOf(s) \o PayloadOf(s)
Starts(s, t) == \E rest \in Seq(SocksTokens) : t = s \o rest

(* What has been written is what is expected so far; while the tunnel is   *)
(* up and paqet connected, the rest is still in flight from the client.    *)
OrderKept ==
    /\ Starts(Stream, Expected)
    /\ st = "SocksGreeting" /\ ~gone => Stream = <<Greeting>>
    /\ st = "SocksConnectRequest" /\ ~gone => Stream = HandshakeOf(sent)
    /\ tunnel /\ socks = "connected" => Stream \o fromClient = Expected
    /\ tunnel \/ st \in {"SocksGreeting", "SocksConnectRequest"}
          => head # None /\ head.arg # None

LEMMA StartsIsPrefix ==
    ASSUME NEW s \in Seq(SocksTokens), NEW t, Starts(s, t)
    PROVE  IsPrefix(s, t)
<1>1. PICK rest \in Seq(SocksTokens) : t = s \o rest
  BY DEF Starts
<1>2. /\ t \in Seq(SocksTokens) /\ Len(t) = Len(s) + Len(rest)
      /\ Len(s) \in Nat /\ Len(rest) \in Nat
      /\ \A i \in 1..Len(s) : t[i] = s[i]
  BY <1>1, ConcatProperties, LenProperties
<1>3. SubSeq(s, 1, Len(s)) = s
  BY SubSeqFull
<1>4. /\ SubSeq(t, 1, Len(s)) \in Seq(SocksTokens) /\ Len(SubSeq(t, 1, Len(s))) = Len(s)
      /\ \A i \in 1..Len(s) : SubSeq(t, 1, Len(s))[i] = t[i]
  BY <1>2, ElementOfSeq, SubSeqProperties
<1>5. SubSeq(t, 1, Len(s)) = s
  BY <1>2, <1>4, SeqEqual
<1>6. QED
  BY <1>2, <1>3, <1>5 DEF IsPrefix

LEMMA ExpectedIs == Expected = ExpectedOf(sent) /\ Expected' = ExpectedOf(sent')
  BY Zenon DEF Expected, ExpectedOf, HandshakeOf, PayloadOf, Greeting

LEMMA ExpectedShape ==
    ASSUME NEW s \in Seq(ClientTokens), Len(s) >= 1 => s[1] \in Heads
    PROVE  /\ ExpectedOf(s) \in Seq(SocksTokens)
           /\ Len(s) < 2 \/ s[1].arg = None => ExpectedOf(s) = <<>>
           /\ Len(s) >= 2 /\ s[1].arg # None =>
                 /\ ExpectedOf(s) = HandshakeOf(s) \o PayloadOf(s)
                 /\ HandshakeOf(s) \in Seq(SocksTokens) /\ PayloadOf(s) \in Seq(ClientTokens)
                 /\ HandshakeOf(s) = <<Greeting>> \o <<Token("connect", s[1].arg)>>
                 /\ <<Greeting>> \in Seq(SocksTokens)
                 /\ <<Token("connect", s[1].arg)>> \in Seq(SocksTokens)
<1>1. Len(s) \in Nat
  BY LenProperties
<1>2. CASE Len(s) < 2 \/ s[1].arg = None
  BY <1>1, <1>2, EmptySeq DEF ExpectedOf
<1>3. CASE Len(s) >= 2 /\ s[1].arg # None
  <2>1. s[1].arg \in Hosts
    BY <1>1, <1>3, TokenTypes
  <2>2. Token("connect", s[1].arg) \in SocksTokens /\ Greeting \in SocksTokens
    BY <2>1, TokenTypes DEF Greeting
  <2>3. PayloadOf(s) \in Seq(ClientTokens)
    BY <1>1, Rest DEF PayloadOf
  <2>4. /\ HandshakeOf(s) \in Seq(SocksTokens)
        /\ <<Greeting>> \in Seq(SocksTokens)
        /\ <<Token("connect", s[1].arg)>> \in Seq(SocksTokens)
    BY <2>2 DEF HandshakeOf
  <2>5. ExpectedOf(s) = HandshakeOf(s) \o PayloadOf(s)
    BY <1>1, <1>3 DEF ExpectedOf
  <2>6. HandshakeOf(s) = <<Greeting>> \o <<Token("connect", s[1].arg)>>
    BY <2>2 DEF HandshakeOf
  <2>7. ExpectedOf(s) \in Seq(SocksTokens)
    BY <2>3, <2>4, <2>5, Parts
  <2>8. QED
    BY <1>1, <1>3, <2>3, <2>4, <2>5, <2>6, <2>7
<1>4. QED
  BY <1>1, <1>2, <1>3

(* Concatenations of what is written for paqet.                            *)
LEMMA Assoc ==
    ASSUME NEW a \in Seq(SocksTokens), NEW b \in Seq(SocksTokens), NEW c \in Seq(SocksTokens)
    PROVE  (a \o b) \o c = a \o (b \o c) /\ (a \o b) \in Seq(SocksTokens)
  BY Move, Concat

LEMMA StartsGrows ==
    ASSUME NEW s \in Seq(SocksTokens), NEW t \in Seq(SocksTokens),
           NEW e \in Seq(SocksTokens), Starts(s, t)
    PROVE  Starts(s, t \o e)
<1>1. PICK rest \in Seq(SocksTokens) : t = s \o rest
  BY DEF Starts
<1>2. t \o e = s \o (rest \o e) /\ rest \o e \in Seq(SocksTokens)
  BY ONLY <1>1, s \in Seq(SocksTokens), e \in Seq(SocksTokens), rest \in Seq(SocksTokens), Assoc
<1>3. QED
  BY <1>2 DEF Starts

LEMMA StartsShrinks ==
    ASSUME NEW s \in Seq(SocksTokens), NEW t, NEW e \in Seq(SocksTokens), Starts(s \o e, t)
    PROVE  Starts(s, t)
<1>1. PICK rest \in Seq(SocksTokens) : t = (s \o e) \o rest
  BY DEF Starts
<1>2. t = s \o (e \o rest) /\ e \o rest \in Seq(SocksTokens)
  BY <1>1, Assoc
<1>3. QED
  BY <1>2 DEF Starts

LEMMA StartsEmpty ==
    ASSUME NEW t \in Seq(SocksTokens)
    PROVE  Starts(<<>>, t) /\ Starts(t, t)
  BY EmptySeq, ConcatEmptySeq DEF Starts

LEMMA CutTwo ==
    ASSUME NEW S, NEW s \in Seq(S), Len(s) >= 2
    PROVE  /\ SubSeq(s, 3, Len(s)) \in Seq(S) /\ Len(SubSeq(s, 3, Len(s))) = Len(s) - 2
           /\ \A i \in 1..(Len(s) - 2) : SubSeq(s, 3, Len(s))[i] = s[i + 2]
<1>1. Len(s) \in Nat /\ \A i \in 3..Len(s) : s[i] \in S
  BY ElementOfSeq, LenProperties
<1>2. /\ SubSeq(s, 3, Len(s)) \in Seq(S)
      /\ Len(SubSeq(s, 3, Len(s))) = IF 3 <= Len(s) THEN Len(s) - 3 + 1 ELSE 0
      /\ \A i \in 1..(Len(s) - 3 + 1) : SubSeq(s, 3, Len(s))[i] = s[3 + i - 1]
  BY <1>1, SubSeqProperties
<1> DEFINE t == SubSeq(s, 3, Len(s))
<1> HIDE DEF t
<1>3. Len(t) = Len(s) - 2
  <2>1. Len(t) = IF 3 <= Len(s) THEN Len(s) - 3 + 1 ELSE 0
    BY <1>2 DEF t
  <2>2. \A k \in Nat : k >= 2 => (IF 3 <= k THEN k - 3 + 1 ELSE 0) = k - 2
    OBVIOUS
  <2>3. Len(s) \in Nat
    BY <1>1
  <2>4. QED
    BY <2>1, <2>2, <2>3, Zenon
<1>4. ASSUME NEW i \in 1..(Len(s) - 2)
      PROVE  t[i] = s[i + 2]
  <2>1. i \in 1..(Len(s) - 3 + 1) /\ 3 + i - 1 = i + 2
    BY <1>1
  <2>2. t[i] = s[3 + i - 1]
    BY <1>2, <2>1 DEF t
  <2>3. QED
    BY <2>1, <2>2
<1>5. QED
  BY <1>2, <1>3, <1>4 DEF t

(* What the client sends next is expected next.                            *)
LEMMA ExpectedGrows ==
    ASSUME NEW s \in Seq(ClientTokens), NEW t \in ClientTokens,
           Len(s) >= 1 => s[1] \in Heads, s = <<>> => t \in Heads,
           NEW n, n = Append(s, t)
    PROVE  /\ \E e \in Seq(SocksTokens) : ExpectedOf(n) = ExpectedOf(s) \o e
           /\ Len(s) >= 1 => HandshakeOf(n) = HandshakeOf(s)
           /\ Len(s) >= 2 /\ s[1].arg # None => ExpectedOf(n) = ExpectedOf(s) \o <<t>>
<1>1. Len(s) \in Nat
  BY LenProperties
<1>2. /\ Len(n) = Len(s) + 1 /\ n[Len(s) + 1] = t
      /\ \A i \in 1..Len(s) : n[i] = s[i]
      /\ n = s \o <<t>> /\ <<t>> \in Seq(ClientTokens) /\ n \in Seq(ClientTokens)
  BY <1>1, AppendProperties, AppendIsConcat
<1>3. <<t>> \in Seq(SocksTokens)
  BY <1>2, Wider
<1>4. Len(s) >= 1 => n[1] = s[1]
  BY <1>1, <1>2
<1>5. Len(s) >= 1 => HandshakeOf(n) = HandshakeOf(s)
  BY <1>4 DEF HandshakeOf
<1>6. Len(n) >= 1 => n[1] \in Heads
  <2>1. CASE Len(s) = 0
    <3>1. s = <<>>
      BY <2>1, EmptySeq
    <3>2. QED
      BY <1>2, <2>1, <3>1
  <2>2. CASE Len(s) >= 1
    BY <1>4, <2>2
  <2>3. QED
    BY <1>1, <2>1, <2>2
<1>7. ExpectedOf(n) \in Seq(SocksTokens) /\ ExpectedOf(s) \in Seq(SocksTokens)
  BY <1>2, <1>6, ExpectedShape
<1>8. CASE Len(s) < 2 \/ s[1].arg = None
  <2>1. ExpectedOf(s) = <<>>
    BY <1>8, ExpectedShape
  <2>2. ExpectedOf(n) = ExpectedOf(s) \o ExpectedOf(n)
    BY <1>7, <2>1, ConcatEmptySeq
  <2>3. QED
    BY SMTT(30), <1>1, <1>5, <1>7, <1>8, <2>2
<1>9. CASE Len(s) >= 2 /\ s[1].arg # None
  <2>1. /\ ExpectedOf(s) = HandshakeOf(s) \o PayloadOf(s)
        /\ HandshakeOf(s) \in Seq(SocksTokens) /\ PayloadOf(s) \in Seq(ClientTokens)
    BY <1>9, ExpectedShape
  <2>2. ExpectedOf(n) = HandshakeOf(s) \o PayloadOf(n)
    <3>1. Len(n) >= 2 /\ n[1].arg # None
      BY <1>1, <1>2, <1>4, <1>9
    <3>2. ExpectedOf(n) = HandshakeOf(n) \o PayloadOf(n)
      BY <1>2, <1>6, <3>1, ExpectedShape
    <3>3. QED
      BY SMTT(30), <1>1, <1>5, <1>9, <3>2
  <2>3. PayloadOf(n) = PayloadOf(s) \o <<t>>
    <3>1. CASE s[1].kind = "GET"
      BY <1>1, <1>2, <1>4, <1>9, <3>1 DEF PayloadOf
    <3>2. CASE s[1].kind # "GET"
      <4>1. PayloadOf(s) = SubSeq(s, 3, Len(s)) /\ PayloadOf(n) = SubSeq(n, 3, Len(s) + 1)
        BY <1>1, <1>2, <1>4, <1>9, <3>2 DEF PayloadOf
      <4> DEFINE a == SubSeq(s, 3, Len(s))
                 b == SubSeq(n, 3, Len(s) + 1)
      <4>2. /\ a \in Seq(ClientTokens) /\ Len(a) = Len(s) - 2
            /\ \A i \in 1..(Len(s) - 2) : a[i] = s[i + 2]
        BY <1>9, CutTwo
      <4>3. /\ b \in Seq(ClientTokens) /\ Len(b) = Len(s) - 1
            /\ \A i \in 1..(Len(s) - 1) : b[i] = n[i + 2]
        <5>1. Len(n) >= 2 /\ Len(n) = Len(s) + 1 /\ Len(n) - 2 = Len(s) - 1
          BY <1>1, <1>2, <1>9
        <5>2. QED
          BY <1>2, <5>1, CutTwo
      <4> HIDE DEF a, b
      <4>4. /\ Append(a, t) \in Seq(ClientTokens) /\ Len(Append(a, t)) = Len(s) - 1
            /\ Append(a, t)[Len(s) - 1] = t
            /\ \A i \in 1..(Len(s) - 2) : Append(a, t)[i] = a[i]
        BY <1>1, <4>2, AppendProperties
      <4>5. ASSUME NEW i \in 1..(Len(s) - 1)
            PROVE  b[i] = Append(a, t)[i]
        <5>1. b[i] = n[i + 2]
          BY <4>3
        <5>2. i = Len(s) - 1 \/ i \in 1..(Len(s) - 2)
          BY ONLY <1>1, i \in 1..(Len(s) - 1)
        <5>3. CASE i = Len(s) - 1
          <6>1. i + 2 = Len(s) + 1
            BY <1>1, <5>3
          <6>2. QED
            BY <1>2, <4>4, <5>1, <5>3, <6>1
        <5>4. CASE i \in 1..(Len(s) - 2)
          <6>1. i + 2 \in 1..Len(s)
            BY <1>1, <5>4
          <6>2. QED
            BY <1>2, <4>2, <4>4, <5>1, <5>4, <6>1
        <5>5. QED
          BY ONLY <5>2, <5>3, <5>4
      <4>6. b = Append(a, t)
        BY <4>3, <4>4, <4>5, SeqEqual
      <4>7. Append(a, t) = a \o <<t>>
        BY <4>2, AppendIsConcat
      <4>8. QED
        BY <4>1, <4>6, <4>7 DEF a, b
    <3>3. QED
      BY <3>1, <3>2
  <2>4. PayloadOf(s) \in Seq(SocksTokens)
    BY <2>1, Wider
  <2>5. ExpectedOf(n) = ExpectedOf(s) \o <<t>>
    BY ONLY <1>3, <2>1, <2>2, <2>3, <2>4, Assoc
  <2>6. QED
    BY <1>1, <1>3, <1>5, <1>9, <2>5
<1>10. Len(s) < 2 \/ Len(s) >= 2
  BY ONLY <1>1
<1>11. QED
  BY ONLY <1>8, <1>9, <1>10, Zenon


LEMMA Typed ==
    ASSUME Relayed
    PROVE  /\ sent \in Seq(ClientTokens) /\ (Len(sent) >= 1 => sent[1] \in Heads)
           /\ Expected \in Seq(SocksTokens) /\ Stream \in Seq(SocksTokens)
           /\ atPaqet \in Seq(SocksTokens) /\ toSocks \in Seq(SocksTokens)
           /\ fromClient \in Seq(ClientTokens) /\ fromClient \in Seq(SocksTokens)
           /\ request \in Seq(ClientTokens) /\ request \in Seq(SocksTokens)
<1>1. sent \in Seq(ClientTokens) /\ (Len(sent) >= 1 => sent[1] \in Heads)
  BY DEF Relayed, TypeOK, RequestRead
<1>2. Expected \in Seq(SocksTokens)
  BY <1>1, ExpectedIs, ExpectedShape
<1>3. QED
  BY <1>1, <1>2, Parts, Wider DEF Relayed, TypeOK, Stream

(* Once the request is parsed, the handshake comes first in what is        *)
(* expected.                                                               *)
LEMMA HandshakeFirst ==
    ASSUME Relayed, head # None, head.arg # None
    PROVE  /\ head = sent[1] /\ Len(sent) >= 2 /\ sent[1].arg # None
           /\ Expected = HandshakeOf(sent) \o PayloadOf(sent)
           /\ HandshakeOf(sent) \in Seq(SocksTokens) /\ PayloadOf(sent) \in Seq(SocksTokens)
           /\ HandshakeOf(sent) = <<Greeting>> \o <<Token("connect", head.arg)>>
           /\ <<Greeting>> \in Seq(SocksTokens)
           /\ <<Token("connect", head.arg)>> \in Seq(SocksTokens)
<1>1. head = sent[1] /\ Len(sent) >= 2
  BY DEF Relayed, RequestParsed
<1>2. QED
  BY <1>1, Typed, ExpectedIs, ExpectedShape, Wider

LEMMA SendOrder ==
    ASSUME Relayed, OrderKept, ClientSends
    PROVE  OrderKept'
<1>1. PICK t \in MaySend : sent' = Append(sent, t) /\ fromClient' = Append(fromClient, t)
  BY DEF ClientSends
<1>2. t \in ClientTokens /\ (sent = <<>> => t \in Heads)
  BY ClientSpeaks DEF Relayed
<1>3. UNCHANGED <<atPaqet, toSocks, st, gone, tunnel, socks, head>>
  BY DEF ClientSends, handshakeVars
<1>4. Stream' = Stream
  BY <1>3 DEF Stream
<1>5. /\ \E e \in Seq(SocksTokens) : ExpectedOf(sent') = ExpectedOf(sent) \o e
      /\ Len(sent) >= 1 => HandshakeOf(sent') = HandshakeOf(sent)
      /\ Len(sent) >= 2 /\ sent[1].arg # None
            => ExpectedOf(sent') = ExpectedOf(sent) \o <<t>>
  <2>1. sent \in Seq(ClientTokens) /\ (Len(sent) >= 1 => sent[1] \in Heads)
    BY Typed
  <2>2. sent' = Append(sent, t)
    BY <1>1
  <2>3. QED
    BY ONLY <1>2, <2>1, <2>2, ExpectedGrows
<1>6. Starts(Stream, Expected')
  <2>1. PICK e \in Seq(SocksTokens) : Expected' = Expected \o e
    BY <1>5, ExpectedIs
  <2>2. Starts(Stream, Expected)
    BY DEF OrderKept
  <2>3. Starts(Stream, Expected \o e)
    BY <2>2, Typed, StartsGrows
  <2>4. QED
    BY <2>1, <2>3
<1>7. st = "SocksConnectRequest" => HandshakeOf(sent') = HandshakeOf(sent)
  BY <1>5, Typed, LenProperties, HandshakeFirst DEF OrderKept
<1>8. ASSUME tunnel, socks = "connected"
      PROVE  Stream \o fromClient' = Expected'
  <2>1. Stream \o fromClient = Expected
    BY <1>8 DEF OrderKept
  <2>2. Expected' = Expected \o <<t>>
    BY <1>5, <1>8, HandshakeFirst, ExpectedIs DEF OrderKept
  <2>3. fromClient' = fromClient \o <<t>> /\ <<t>> \in Seq(ClientTokens)
    BY <1>1, <1>2, Typed, Appended
  <2>4. <<t>> \in Seq(SocksTokens) /\ Stream \in Seq(SocksTokens)
        /\ fromClient \in Seq(SocksTokens)
    BY <2>3, Wider, Typed
  <2>5. QED
    BY ONLY <2>1, <2>2, <2>3, <2>4, Assoc
<1>9. QED
  BY <1>3, <1>4, <1>6, <1>7, <1>8 DEF OrderKept

LEMMA FlushOrder ==
    ASSUME Relayed, OrderKept, FlushSocks
    PROVE  OrderKept'
<1>1. /\ atPaqet' = Append(atPaqet, Head(toSocks)) /\ toSocks' = Tail(toSocks)
      /\ toSocks # <<>>
      /\ UNCHANGED <<sent, fromClient, st, gone, tunnel, socks, head>>
  BY DEF FlushSocks, peerVars, handshakeVars
<1>2. /\ Head(toSocks) \in SocksTokens /\ Tail(toSocks) \in Seq(SocksTokens)
      /\ <<Head(toSocks)>> \o Tail(toSocks) = toSocks
  BY <1>1, Typed, Taken
<1>3. atPaqet' = atPaqet \o <<Head(toSocks)>> /\ <<Head(toSocks)>> \in Seq(SocksTokens)
  BY <1>1, <1>2, Typed, Appended
<1>4. atPaqet' \o toSocks' = atPaqet \o toSocks
  <2> DEFINE first == <<Head(toSocks)>>
             others == Tail(toSocks)
  <2>1. /\ first \in Seq(SocksTokens) /\ others \in Seq(SocksTokens)
        /\ atPaqet \in Seq(SocksTokens)
    BY <1>2, <1>3, Typed
  <2>2. toSocks = first \o others /\ atPaqet' = atPaqet \o first /\ toSocks' = others
    BY <1>1, <1>2, <1>3
  <2> HIDE DEF first, others
  <2>3. atPaqet' \o others = atPaqet \o toSocks
    BY ONLY <2>1, <2>2, Move
  <2>4. QED
    BY <2>2, <2>3
<1>5. Stream' = Stream /\ Expected' = Expected
  BY <1>1, <1>4, ExpectedIs DEF Stream
<1>6. QED
  BY <1>1, <1>5 DEF OrderKept

(* A destroyed socket cuts the end off.                                    *)
LEMMA DeleteOrder ==
    ASSUME Relayed, OrderKept, Delete
    PROVE  OrderKept'
<1>1. /\ gone' = TRUE /\ toSocks' = <<>> /\ socks' = "unconnected"
      /\ UNCHANGED <<sent, fromClient, atPaqet, st, tunnel, head>>
  BY DEF Delete, peerVars, handshakeVars
<1>2. Stream' = atPaqet /\ Expected' = Expected
  BY <1>1, Typed, ConcatEmptySeq, ExpectedIs DEF Stream
<1>3. Starts(atPaqet, Expected)
  BY Typed, StartsShrinks DEF OrderKept, Stream
<1>4. QED
  BY <1>1, <1>2, <1>3 DEF OrderKept

LEMMA ConnectedOrder ==
    ASSUME Relayed, OrderKept, SocksConnected
    PROVE  OrderKept'
<1>1. /\ socks = "connecting" /\ st' = "SocksGreeting"
      /\ toSocks' = Append(toSocks, Greeting)
      /\ UNCHANGED <<sent, fromClient, atPaqet, tunnel, head, gone>>
  BY DEF SocksConnected, peerVars, Greeting
<1>2. Len(atPaqet) = 0 /\ Len(toSocks) = 0 /\ ~tunnel
  BY <1>1, WrittenIsNat DEF Relayed, HandshakeKept, Written
<1>3. atPaqet = <<>> /\ toSocks = <<>>
  BY <1>2, Typed, EmptySeq
<1>4. Stream' = <<Greeting>>
  BY <1>1, <1>3 DEF Stream
<1>5. head # None /\ head.arg # None
  BY <1>1 DEF Relayed, RequestParsed
<1>6. Starts(<<Greeting>>, Expected)
  <2>1. /\ Expected = HandshakeOf(sent) \o PayloadOf(sent)
        /\ HandshakeOf(sent) \in Seq(SocksTokens) /\ PayloadOf(sent) \in Seq(SocksTokens)
        /\ HandshakeOf(sent) = <<Greeting>> \o <<Token("connect", head.arg)>>
        /\ <<Greeting>> \in Seq(SocksTokens)
        /\ <<Token("connect", head.arg)>> \in Seq(SocksTokens)
    BY <1>5, HandshakeFirst
  <2>2. Starts(HandshakeOf(sent), Expected)
    BY <2>1 DEF Starts
  <2>3. Starts(<<Greeting>> \o <<Token("connect", head.arg)>>, Expected)
    BY <2>1, <2>2, Zenon
  <2>4. QED
    BY <2>1, <2>3, StartsShrinks
<1>7. Expected' = Expected
  BY <1>1, ExpectedIs
<1>8. QED
  BY <1>1, <1>2, <1>4, <1>5, <1>6, <1>7 DEF OrderKept


LEMMA ClientReadOrder ==
    ASSUME Relayed, OrderKept, NEW n \in 1..Len(fromClient), ClientReadyRead(n)
    PROVE  OrderKept'
<1> DEFINE read == SubSeq(fromClient, 1, n)
           rest == SubSeq(fromClient, n + 1, Len(fromClient))
<1>1. /\ UNCHANGED <<sent, atPaqet, tunnel, gone>> /\ fromClient' = rest
      /\ Expected' = Expected
  BY ExpectedIs DEF ClientReadyRead, peerVars
<1>2. /\ read \in Seq(ClientTokens) /\ rest \in Seq(ClientTokens)
      /\ read \o rest = fromClient
  BY Typed, Split
<1>3. read \in Seq(SocksTokens) /\ rest \in Seq(SocksTokens)
  BY <1>2, Wider
<1>4. CASE tunnel /\ socks = "connected"
  <2>1. toSocks' = toSocks \o read /\ UNCHANGED <<st, socks, head>>
    BY <1>4 DEF ClientReadyRead
  <2> HIDE DEF read, rest
  <2>2. /\ Stream \in Seq(SocksTokens) /\ toSocks \in Seq(SocksTokens)
        /\ atPaqet \in Seq(SocksTokens) /\ Stream = atPaqet \o toSocks
    BY Typed DEF Stream
  <2>3. toSocks' = toSocks \o read /\ Stream' = atPaqet \o toSocks'
    BY <1>1, <2>1 DEF Stream
  <2>4. Stream \o read = atPaqet \o toSocks'
    BY ONLY <1>3, <2>2, <2>3, Move
  <2>5. Stream' = Stream \o read /\ Stream \in Seq(SocksTokens)
    BY <2>2, <2>3, <2>4
  <2>6. fromClient = read \o rest
    BY <1>2
  <2>7. Stream' \o rest = Stream \o fromClient
    BY ONLY SMTT(30), <1>3, <2>5, <2>6, Move
  <2>8. Expected = Stream' \o rest
    BY <1>4, <2>7 DEF OrderKept
  <2>9. Starts(Stream', Expected)
    BY <1>3, <2>8 DEF Starts
  <2>10. st = "Tunneling"
    BY <1>4 DEF Relayed, HandshakeKept
  <2>11. QED
    BY <1>1, <2>1, <2>8, <2>9, <2>10 DEF OrderKept
<1>5. CASE tunnel /\ socks # "connected"
  <2>1. UNCHANGED <<toSocks, st, socks, head>>
    BY <1>5 DEF ClientReadyRead
  <2>2. Stream' = Stream
    BY <1>1, <2>1 DEF Stream
  <2>3. QED
    BY <1>1, <1>5, <2>1, <2>2 DEF OrderKept
<1>6. CASE ~tunnel
  <2>1. toSocks' = toSocks /\ Stream' = Stream
    BY <1>1, <1>6 DEF ClientReadyRead, Stream
  <2>2. ParseRequest \/ UNCHANGED <<st, head>>
    BY <1>6 DEF ClientReadyRead
  <2>3. st' \in {st, "ConnectingToSocks"}
    BY <2>2 DEF ParseRequest
  <2>4. head # None => head' = head
    <3>1. RequestParsed' /\ RequestParsed
      BY RequestIsRead DEF Relayed
    <3>2. head' # None => head' = sent[1]
      BY <1>1, <3>1 DEF RequestParsed
    <3>3. head # None => head = sent[1]
      BY <3>1 DEF RequestParsed
    <3>4. head' = None => head' = head
      <4>1. CASE UNCHANGED <<st, head>>
        BY <4>1
      <4>2. CASE ~(UNCHANGED <<st, head>>)
        <5>1. Contains(request', End) /\ ParseRequest /\ request' = request \o read
          BY <1>6, <4>2 DEF ClientReadyRead
        <5>2. head' \in Heads
          BY ONLY Relayed, <1>6, n \in 1..Len(fromClient), <5>1, Parsed DEF read, Relayed
        <5>3. QED
          BY <5>2, TokenTypes
      <4>3. QED
        BY <4>1, <4>2
    <3>5. QED
      BY <3>2, <3>3, <3>4
  <2>5. QED
    BY <1>1, <1>6, <2>1, <2>3, <2>4 DEF OrderKept
<1>7. QED
  BY <1>4, <1>5, <1>6

(* Establishing the tunnel writes what has been read of the request.       *)
LEMMA ForwardedOrder ==
    ASSUME Relayed, OrderKept, ~gone, st = "SocksConnectRequest",
           toSocks' = toSocks \o Forwarded, atPaqet' = atPaqet
    PROVE  Expected = Stream' \o fromClient
<1>1. ~tunnel /\ Stream = HandshakeOf(sent) /\ head # None /\ head.arg # None
  BY DEF Relayed, HandshakeKept, OrderKept
<1>2. /\ head = sent[1] /\ Len(sent) >= 2 /\ sent[2] = End
      /\ Len(request) >= 2 /\ body = SubSeq(request, 3, Len(request))
      /\ sent = request \o fromClient
  BY <1>1 DEF Relayed, RequestRead, RequestParsed
<1>3. Len(request) \in Nat /\ Len(fromClient) \in Nat
  BY Typed, LenProperties
<1>4. /\ Len(sent) = Len(request) + Len(fromClient)
      /\ request[1] = head /\ request[2] = End
  <2>1. /\ Len(request \o fromClient) = Len(request) + Len(fromClient)
        /\ \A i \in 1..Len(request) : (request \o fromClient)[i] = request[i]
    BY <1>3, Typed, ConcatProperties
  <2>2. 1 \in 1..Len(request) /\ 2 \in 1..Len(request)
    BY <1>2, <1>3
  <2>3. QED
    BY <1>2, <2>1, <2>2
<1>5. /\ Expected = HandshakeOf(sent) \o PayloadOf(sent)
      /\ HandshakeOf(sent) \in Seq(SocksTokens)
  BY <1>1, HandshakeFirst
<1>6. CASE head.kind = "GET"
  <2>1. <<head, End>> \o body = request
    <3>1. /\ body \in Seq(ClientTokens) /\ Len(body) = Len(request) - 2
          /\ \A i \in 1..(Len(request) - 2) : body[i] = request[i + 2]
      BY <1>2, Typed, CutTwo
    <3>2. head \in ClientTokens /\ End \in ClientTokens
      BY <1>2, Typed, TokenTypes
    <3>3. <<head, End>> \in Seq(ClientTokens) /\ Len(<<head, End>>) = 2
      BY <3>2
    <3> DEFINE all == <<head, End>> \o body
    <3>4. /\ all \in Seq(ClientTokens) /\ Len(all) = 2 + Len(body)
          /\ \A i \in 1..(2 + Len(body)) :
                all[i] = IF i <= 2 THEN <<head, End>>[i] ELSE body[i - 2]
      BY <3>1, <3>3, ConcatProperties
    <3> HIDE DEF all
    <3>5. Len(all) = Len(request)
      BY <1>3, <3>1, <3>4
    <3>6. ASSUME NEW i \in 1..Len(all)
          PROVE  all[i] = request[i]
      <4>1. all[i] = IF i <= 2 THEN <<head, End>>[i] ELSE body[i - 2]
        BY <1>3, <3>1, <3>4
      <4>2. i = 1 \/ i = 2 \/ i > 2
        BY <1>3, <3>5
      <4>3. CASE i = 1
        BY <1>4, <4>1, <4>3
      <4>4. CASE i = 2
        BY <1>4, <4>1, <4>4
      <4>5. CASE i > 2
        <5>1. i - 2 \in 1..(Len(request) - 2) /\ i - 2 + 2 = i /\ ~(i <= 2)
          BY <1>3, <3>5, <4>5
        <5>2. QED
          BY <3>1, <4>1, <5>1
      <4>6. QED
        BY <4>2, <4>3, <4>4, <4>5
    <3>7. QED
      BY <3>4, <3>5, <3>6, Typed, SeqEqual DEF all
  <2>2. toSocks' = toSocks \o request
    BY <1>6, <2>1 DEF Forwarded
  <2>3. Stream' = atPaqet \o toSocks'
    BY DEF Stream
  <2>4. /\ Stream = atPaqet \o toSocks
        /\ atPaqet \in Seq(SocksTokens) /\ toSocks \in Seq(SocksTokens)
        /\ request \in Seq(SocksTokens) /\ fromClient \in Seq(SocksTokens)
        /\ Stream \in Seq(SocksTokens)
    BY Typed DEF Stream
  <2>5. Stream \o request = atPaqet \o toSocks'
    BY ONLY <2>2, <2>4, Move
  <2>6. Stream' = Stream \o request
    BY <2>3, <2>5
  <2>7. sent = request \o fromClient
    BY <1>2
  <2>8. Stream' \o fromClient = Stream \o sent
    BY ONLY SMTT(30), <2>4, <2>6, <2>7, Move
  <2>9. PayloadOf(sent) = sent
    BY <1>2, <1>6 DEF PayloadOf
  <2>10. QED
    BY <1>1, <1>5, <2>8, <2>9
<1>7. CASE head.kind # "GET"
  <2>1. ~Contains(atClient, Token("ok", None))
    BY <1>1 DEF Relayed, HandshakeKept, Ok
  <2>2. ~(Len(sent) > 2)
    BY <1>2, <1>7, <2>1 DEF Relayed, RequestRead
  <2>3. Len(fromClient) = 0 /\ Len(sent) = 2
    BY <1>2, <1>3, <1>4, <2>2
  <2>4. fromClient = <<>>
    BY <2>3, Typed, EmptySeq
  <2>5. PayloadOf(sent) = <<>>
    <3>1. PayloadOf(sent) = SubSeq(sent, 3, 2)
      BY <1>2, <1>7, <2>3 DEF PayloadOf
    <3>2. SubSeq(sent, 3, 2) = <<>>
      BY SubSeqEmpty
    <3>3. QED
      BY <3>1, <3>2
  <2>6. toSocks' = toSocks
    BY <1>7, Typed, ConcatEmptySeq DEF Forwarded
  <2>7. Stream' = Stream
    BY <2>6 DEF Stream
  <2>8. QED
    BY <1>1, <1>5, <2>4, <2>5, <2>7
<1>8. QED
  BY <1>6, <1>7


LEMMA SocksReadOrder ==
    ASSUME Relayed, OrderKept, NEW n \in 1..Len(fromPaqet), SocksReadyRead(n)
    PROVE  OrderKept'
<1> DEFINE in == buffer \o SubSeq(fromPaqet, 1, n)
<1>1. /\ ~gone /\ socks = "connected"
      /\ UNCHANGED <<sent, fromClient, atPaqet, socks, head, gone>>
      /\ Expected' = Expected
  BY ExpectedIs DEF SocksReadyRead, peerVars
<1>2. ASSUME UNCHANGED <<tunnel, st, toSocks>>
      PROVE  OrderKept'
  <2>1. Stream' = Stream
    BY <1>1, <1>2 DEF Stream
  <2>2. QED
    BY <1>1, <1>2, <2>1 DEF OrderKept
<1>3. CASE st = "SocksGreeting"
  <2>1. HandleGreeting(in) /\ UNCHANGED tunnel
    BY <1>3 DEF SocksReadyRead
  <2> HIDE DEF in
  <2>2. CASE UNCHANGED <<st, toSocks>>
    BY <1>2, <2>1, <2>2
  <2>3. CASE toSocks' = Append(toSocks, Token("connect", head.arg))
             /\ st' = "SocksConnectRequest"
    <3>1. ~tunnel /\ head # None /\ head.arg # None /\ Stream = <<Greeting>>
      BY <1>1, <1>3 DEF Relayed, HandshakeKept, OrderKept
    <3> DEFINE c == <<Token("connect", head.arg)>>
               h == HandshakeOf(sent)
               p == PayloadOf(sent)
    <3>2. /\ Expected = h \o p /\ h \in Seq(SocksTokens) /\ p \in Seq(SocksTokens)
          /\ h = <<Greeting>> \o c /\ c \in Seq(SocksTokens)
      BY <3>1, HandshakeFirst
    <3>3. toSocks' = toSocks \o c
      <4>1. Token("connect", head.arg) \in SocksTokens
        BY <1>1, TokenTypes DEF Relayed, RequestParsed, TypeOK
      <4>2. QED
        BY <2>3, <4>1, Typed, Appended
    <3> HIDE DEF c, h, p
    <3>4. /\ Stream \in Seq(SocksTokens) /\ toSocks \in Seq(SocksTokens)
          /\ atPaqet \in Seq(SocksTokens) /\ Stream = atPaqet \o toSocks
      BY Typed DEF Stream
    <3>5. Stream \o c = atPaqet \o toSocks'
      BY ONLY SMTT(30), <3>2, <3>3, <3>4, Move
    <3>6. Stream' = h
      BY <1>1, <3>1, <3>2, <3>5 DEF Stream
    <3>7. Starts(h, Expected)
      BY <3>2 DEF Starts
    <3>8. QED
      BY <1>1, <2>1, <2>3, <3>1, <3>6, <3>7 DEF OrderKept, h
  <2>4. QED
    BY <2>1, <2>2, <2>3 DEF HandleGreeting
<1>4. CASE st = "SocksConnectRequest"
  <2>1. HandleReply(in)
    BY <1>4 DEF SocksReadyRead
  <2> HIDE DEF in
  <2>2. CASE UNCHANGED <<st, tunnel, toSocks>>
    BY <1>2, <2>2
  <2>3. CASE tunnel' = TRUE /\ st' = "Tunneling" /\ toSocks' = toSocks \o Forwarded
    <3>1. Expected = Stream' \o fromClient
      BY <1>1, <1>4, <2>3, ForwardedOrder
    <3>2. Starts(Stream', Expected)
      BY <3>1, Typed DEF Starts
    <3>3. head # None /\ head.arg # None
      BY <1>4 DEF OrderKept
    <3>4. QED
      BY <1>1, <2>3, <3>1, <3>2, <3>3 DEF OrderKept
  <2>4. QED
    BY <2>1, <2>2, <2>3 DEF HandleReply, Establish
<1>5. CASE st \notin {"SocksGreeting", "SocksConnectRequest"}
  <2>1. UNCHANGED <<tunnel, st, toSocks>>
    BY <1>5 DEF SocksReadyRead
  <2>2. QED
    BY <1>2, <2>1
<1>6. QED
  BY <1>3, <1>4, <1>5

LEMMA OtherOrder ==
    ASSUME Relayed, OrderKept,
           \/ ClientLeaves \/ PaqetAnswers \/ PaqetLeaves \/ FlushClient \/ SocksRefused
           \/ ClientDisconnected \/ SocksDisconnected \/ ProxyStops \/ Over
           \/ UNCHANGED vars
    PROVE  OrderKept'
<1>1. UNCHANGED <<sent, fromClient, toSocks, atPaqet, st, gone, tunnel, head>>
  BY DEF ClientLeaves, PaqetAnswers, PaqetLeaves, FlushClient, SocksRefused,
     ClientDisconnected, SocksDisconnected, ProxyStops, Over, vars, peerVars, handshakeVars
<1>2. socks' = "connected" => socks = "connected"
  BY DEF ClientLeaves, PaqetAnswers, PaqetLeaves, FlushClient, SocksRefused,
     ClientDisconnected, SocksDisconnected, ProxyStops, Over, vars
<1>3. Stream' = Stream /\ Expected' = Expected
  BY <1>1, ExpectedIs DEF Stream
<1>4. QED
  BY <1>1, <1>2, <1>3 DEF OrderKept

LEMMA InitOrder == Init => OrderKept
<1> SUFFICES ASSUME Init
             PROVE  OrderKept
  OBVIOUS
<1>1. Relayed
  BY InitRelayed
<1>2. Stream = <<>>
  BY EmptySeq, ConcatEmptySeq DEF Init, Stream
<1>3. Starts(<<>>, Expected)
  BY <1>1, Typed, StartsEmpty
<1>4. QED
  BY <1>2, <1>3 DEF Init, OrderKept

LEMMA OrderStep == Relayed /\ OrderKept /\ [Next]_vars => OrderKept'
<1> SUFFICES ASSUME Relayed, OrderKept, [Next]_vars
             PROVE  OrderKept'
  OBVIOUS
<1>1. ASSUME NEW n \in 1..Len(fromClient), ClientReadyRead(n)
      PROVE  OrderKept'
  BY <1>1, ClientReadOrder
<1>2. ASSUME NEW n \in 1..Len(fromPaqet), SocksReadyRead(n)
      PROVE  OrderKept'
  BY <1>2, SocksReadOrder
<1>3. QED
  BY <1>1, <1>2, SendOrder, FlushOrder, DeleteOrder, ConnectedOrder, OtherOrder
     DEF Next, Reads

(* However what the client sends is cut into pieces, and whenever paqet's  *)
(* answers arrive, paqet receives the handshake, the request with its body *)
(* and the data in the order sent, without gaps and nothing twice.         *)
THEOREM UpstreamOrder == Spec => []UpstreamInOrder
<1>1. Relayed /\ OrderKept => UpstreamInOrder
  BY Typed, StartsIsPrefix DEF OrderKept, UpstreamInOrder, Stream
<1>2. QED
  BY <1>1, InitRelayed, RelayedKept, InitOrder, OrderStep, PTL DEF Spec

-----------------------------------------------------------------------------
(* The stream to the client.                                               *)

Answers == atClient \o toClient
Left == buffer \o fromPaqet
IsError(t) == t.kind = "error"
AllErrors(s) == \A i \in DOMAIN s : IsError(s[i])

(* The first part of s begins full, the rest are errors.                   *)
ErrorsLast(s, full) ==
    \E k \in 0..Len(s) :
       /\ k <= Len(full) /\ \A i \in 1..k : s[i] = full[i]
       /\ \A i \in (k + 1)..Len(s) : IsError(s[i])

(* What paqet has said and has not been handled is what the state of the   *)
(* handshake waits for; a CONNECT whose client has got an error gets no    *)
(* success any more, because paqet's side has failed.                      *)
AnswersFit ==
    /\ stage = "greeting" => Left = <<>>
    /\ stage # "relay" => answered = 0
    /\ st = "SocksGreeting" => stage # "relay"
    /\ st = "SocksConnectRequest" => stage # "greeting"
    /\ st = "SocksGreeting" /\ stage = "connect" =>
          Left = <<Token("version", None), Token("method", "none")>>
    /\ st = "SocksConnectRequest" /\ stage = "connect" => Left = <<>>
    /\ st = "SocksConnectRequest" /\ stage = "relay" =>
          Left = <<Token("reply", "granted"), Token("address", None)>> \o DataUpTo(answered)
    /\ client = "closed" => socks \in {"unconnected", "closing"}
    /\ ~tunnel /\ client # "open" /\ head # None /\ head.kind = "CONNECT" =>
          socks \in {"unconnected", "closing"} \/ stage = "refused"

(* The client has got errors before the tunnel is up, and none while it is *)
(* connected.  Then it has all the target has said except what is in       *)
(* flight, until the connection ends.                                      *)
StreamKept ==
    /\ ~tunnel => AllErrors(Answers)
    /\ ~tunnel /\ client = "open" => Answers = <<>>
    /\ tunnel /\ client = "open" =>
          buffer = <<>> /\ Answers \o fromPaqet = Opening \o DataUpTo(answered)
    /\ tunnel => ErrorsLast(Answers, Opening \o DataUpTo(MaxData))

LEMMA AnswerTypes ==
    ASSUME TypeOK
    PROVE  /\ Answers \in Seq(AnswerTokens) /\ Opening \in Seq(AnswerTokens)
           /\ Left \in Seq(PaqetTokens) /\ Left \in Seq(AnswerTokens)
           /\ fromPaqet \in Seq(AnswerTokens) /\ buffer \in Seq(AnswerTokens)
           /\ atClient \in Seq(AnswerTokens) /\ toClient \in Seq(AnswerTokens)
<1>1. Opening \in Seq(AnswerTokens)
  <2>1. <<Token("ok", None)>> \in Seq(AnswerTokens) /\ <<>> \in Seq(AnswerTokens)
    BY TokenTypes, EmptySeq
  <2> QED BY <2>1 DEF Opening
<1>2. /\ atClient \in Seq(AnswerTokens) /\ toClient \in Seq(AnswerTokens)
      /\ fromPaqet \in Seq(PaqetTokens) /\ buffer \in Seq(PaqetTokens)
  BY DEF TypeOK
<1>3. Answers \in Seq(AnswerTokens)
  BY <1>2, Parts DEF Answers
<1>4. Left \in Seq(PaqetTokens)
  BY <1>2, Parts DEF Left
<1> QED BY <1>1, <1>2, <1>3, <1>4, Wider

LEMMA DataTypes ==
    ASSUME NEW n \in 0..MaxData
    PROVE  /\ DataUpTo(n) \in Seq(PaqetTokens) /\ DataUpTo(n) \in Seq(AnswerTokens)
           /\ Len(DataUpTo(n)) = n /\ \A i \in 1..n : DataUpTo(n)[i] = Data(i)
<1>1. n \in Nat /\ MaxData \in Nat /\ \A i \in 1..n : i \in 1..MaxData
  BY BoundsAssumption
<1>2. DataUpTo(n) \in [1..n -> PaqetTokens]
  BY <1>1, TokenTypes DEF DataUpTo
<1>3. DataUpTo(n) \in Seq(PaqetTokens)
  BY <1>1, <1>2, SeqDef
<1>4. Len(DataUpTo(n)) = n
  <2>1. DOMAIN DataUpTo(n) = 1..n
    BY DEF DataUpTo
  <2> QED BY <1>1, <1>3, <2>1, LenProperties
<1> QED BY <1>3, <1>4, Wider DEF DataUpTo

LEMMA DataGrows ==
    ASSUME NEW n \in 0..MaxData, n < MaxData
    PROVE  /\ DataUpTo(n + 1) = DataUpTo(n) \o <<Data(n + 1)>>
           /\ <<Data(n + 1)>> \in Seq(PaqetTokens)
<1>1. n \in Nat /\ n + 1 \in 0..MaxData /\ n + 1 \in 1..MaxData
  BY BoundsAssumption
<1>2. Data(n + 1) \in PaqetTokens
  BY <1>1, TokenTypes
<1> DEFINE a == Append(DataUpTo(n), Data(n + 1))
<1>3. /\ DataUpTo(n) \in Seq(PaqetTokens) /\ Len(DataUpTo(n)) = n
      /\ \A i \in 1..n : DataUpTo(n)[i] = Data(i)
  BY DataTypes
<1>4. /\ a \in Seq(PaqetTokens) /\ Len(a) = n + 1 /\ a[n + 1] = Data(n + 1)
      /\ \A i \in 1..n : a[i] = DataUpTo(n)[i]
  BY <1>2, <1>3, AppendProperties
<1>5. /\ DataUpTo(n + 1) \in Seq(PaqetTokens) /\ Len(DataUpTo(n + 1)) = n + 1
      /\ \A i \in 1..(n + 1) : DataUpTo(n + 1)[i] = Data(i)
  BY <1>1, DataTypes
<1> HIDE DEF a
<1>6. \A i \in 1..(n + 1) : a[i] = DataUpTo(n + 1)[i]
  BY <1>1, <1>3, <1>4, <1>5
<1>7. a = DataUpTo(n + 1)
  BY <1>4, <1>5, <1>6, SeqEqual
<1>8. a = DataUpTo(n) \o <<Data(n + 1)>>
  BY <1>2, <1>3, Appended DEF a
<1> QED BY <1>2, <1>7, <1>8

-----------------------------------------------------------------------------
(* ErrorsLast.                                                             *)

LEMMA OnlyErrors ==
    ASSUME NEW s \in Seq(AnswerTokens), AllErrors(s), NEW full \in Seq(AnswerTokens)
    PROVE  ErrorsLast(s, full)
<1>1. Len(s) \in Nat /\ Len(full) \in Nat /\ DOMAIN s = 1..Len(s)
  BY LenProperties
<1>2. 0 \in 0..Len(s) /\ 0 <= Len(full) /\ 1..0 = {} /\ (0 + 1)..Len(s) = DOMAIN s
  BY <1>1
<1> QED BY <1>2 DEF AllErrors, ErrorsLast

(* A further error at the end.                                             *)
LEMMA MoreErrors ==
    ASSUME NEW s \in Seq(AnswerTokens), NEW full \in Seq(AnswerTokens),
           NEW e \in AnswerTokens, IsError(e)
    PROVE  /\ ErrorsLast(s, full) => ErrorsLast(Append(s, e), full)
           /\ AllErrors(s) => AllErrors(Append(s, e))
<1> DEFINE t == Append(s, e)
<1>1. /\ Len(s) \in Nat /\ DOMAIN s = 1..Len(s) /\ DOMAIN t = 1..(Len(s) + 1)
      /\ Len(t) = Len(s) + 1 /\ t[Len(s) + 1] = e /\ \A i \in 1..Len(s) : t[i] = s[i]
  BY LenProperties, AppendProperties
<1> HIDE DEF t
<1>2. ASSUME ErrorsLast(s, full)
      PROVE  ErrorsLast(t, full)
  <2>1. PICK k \in 0..Len(s) :
           /\ k <= Len(full) /\ \A i \in 1..k : s[i] = full[i]
           /\ \A i \in (k + 1)..Len(s) : IsError(s[i])
    BY <1>2 DEF ErrorsLast
  <2>2. k \in 0..Len(t) /\ \A i \in 1..k : i \in 1..Len(s)
    BY <1>1
  <2>3. \A i \in 1..k : t[i] = full[i]
    BY <1>1, <2>1, <2>2
  <2>4. \A i \in (k + 1)..Len(t) : i = Len(s) + 1 \/ (i \in (k + 1)..Len(s) /\ i \in 1..Len(s))
    BY <1>1
  <2>5. \A i \in (k + 1)..Len(t) : IsError(t[i])
    BY <1>1, <2>1, <2>4
  <2> QED BY <2>1, <2>2, <2>3, <2>5 DEF ErrorsLast
<1>3. ASSUME AllErrors(s)
      PROVE  AllErrors(t)
  <2>1. \A i \in DOMAIN t : i = Len(s) + 1 \/ i \in 1..Len(s)
    BY <1>1
  <2> QED BY <1>1, <1>3, <2>1 DEF AllErrors
<1> QED BY <1>2, <1>3 DEF t

(* What is not flushed is lost.                                            *)
LEMMA CutErrors ==
    ASSUME NEW s \in Seq(AnswerTokens), NEW t \in Seq(AnswerTokens),
           NEW full \in Seq(AnswerTokens)
    PROVE  /\ ErrorsLast(s \o t, full) => ErrorsLast(s, full)
           /\ AllErrors(s \o t) => AllErrors(s)
<1> DEFINE r == s \o t
<1>1. /\ Len(s) \in Nat /\ Len(t) \in Nat /\ DOMAIN s = 1..Len(s) /\ DOMAIN r = 1..Len(r)
      /\ Len(r) = Len(s) + Len(t) /\ \A i \in 1..Len(s) : r[i] = s[i]
  BY LenProperties, ConcatProperties
<1> HIDE DEF r
<1>2. ASSUME ErrorsLast(r, full)
      PROVE  ErrorsLast(s, full)
  <2>1. PICK k \in 0..Len(r) :
           /\ k <= Len(full) /\ \A i \in 1..k : r[i] = full[i]
           /\ \A i \in (k + 1)..Len(r) : IsError(r[i])
    BY <1>2 DEF ErrorsLast
  <2>2. CASE k <= Len(s)
    <3>1. /\ k \in 0..Len(s) /\ \A i \in 1..k : i \in 1..Len(s)
          /\ \A i \in (k + 1)..Len(s) : i \in (k + 1)..Len(r) /\ i \in 1..Len(s)
      BY <1>1, <2>2
    <3>2. (\A i \in 1..k : s[i] = full[i]) /\ \A i \in (k + 1)..Len(s) : IsError(s[i])
      BY <1>1, <2>1, <3>1
    <3> QED BY <2>1, <3>1, <3>2 DEF ErrorsLast
  <2>3. CASE k > Len(s)
    <3> DEFINE l == Len(s)
    <3>1. /\ l \in 0..Len(s) /\ l <= Len(full) /\ (l + 1)..Len(s) = {}
          /\ \A i \in 1..l : i \in 1..k
      BY <1>1, <2>1, <2>3, LenProperties
    <3>2. \A i \in 1..l : s[i] = full[i]
      BY <1>1, <2>1, <3>1
    <3> HIDE DEF l
    <3> QED BY <3>1, <3>2 DEF ErrorsLast
  <2> QED BY <1>1, <2>2, <2>3
<1>3. ASSUME AllErrors(r)
      PROVE  AllErrors(s)
  <2>1. \A i \in DOMAIN s : i \in DOMAIN r
    BY <1>1
  <2> QED BY <1>1, <1>3, <2>1 DEF AllErrors
<1> QED BY <1>2, <1>3 DEF r

(* The opening and the first n pieces of data.                             *)
LEMMA SaidSoFar ==
    ASSUME TypeOK, NEW n \in 0..MaxData
    PROVE  /\ Opening \o DataUpTo(n) \in Seq(AnswerTokens)
           /\ Len(Opening \o DataUpTo(n)) = Len(Opening) + n
           /\ \A i \in 1..(Len(Opening) + n) :
                 (Opening \o DataUpTo(n))[i] =
                    IF i <= Len(Opening) THEN Opening[i] ELSE Data(i - Len(Opening))
<1>1. n \in Nat /\ Opening \in Seq(AnswerTokens) /\ Len(Opening) \in Nat
  BY AnswerTypes, LenProperties
<1>2. PICK d : /\ d = DataUpTo(n) /\ d \in Seq(AnswerTokens) /\ Len(d) = n
               /\ \A i \in 1..n : d[i] = Data(i)
  BY DataTypes
<1>3. /\ Opening \o d \in Seq(AnswerTokens) /\ Len(Opening \o d) = Len(Opening) + n
      /\ \A i \in 1..(Len(Opening) + n) :
            (Opening \o d)[i] = IF i <= Len(Opening) THEN Opening[i] ELSE d[i - Len(Opening)]
  <2> DEFINE o == Opening
  <2>1. o \in Seq(AnswerTokens) /\ d \in Seq(AnswerTokens) /\ Len(d) = n
    BY <1>1, <1>2
  <2> HIDE DEF o
  <2>2. /\ o \o d \in Seq(AnswerTokens) /\ Len(o \o d) = Len(o) + Len(d)
        /\ \A i \in 1..(Len(o) + Len(d)) :
              (o \o d)[i] = IF i <= Len(o) THEN o[i] ELSE d[i - Len(o)]
    BY ONLY <2>1, ConcatProperties
  <2> QED BY <2>1, <2>2 DEF o
<1>4. \A i \in 1..(Len(Opening) + n) : i <= Len(Opening) \/ i - Len(Opening) \in 1..n
  BY <1>1
<1> QED BY <1>2, <1>3, <1>4

(* They begin the whole stream.                                            *)
LEMMA WholeStream ==
    ASSUME TypeOK, NEW n \in 0..MaxData, NEW s \in Seq(AnswerTokens),
           NEW p \in Seq(AnswerTokens), s \o p = Opening \o DataUpTo(n)
    PROVE  ErrorsLast(s, Opening \o DataUpTo(MaxData))
<1> DEFINE part == Opening \o DataUpTo(n)
           full == Opening \o DataUpTo(MaxData)
<1>1. /\ MaxData \in Nat /\ n \in Nat /\ n <= MaxData /\ MaxData \in 0..MaxData
      /\ Len(Opening) \in Nat
  BY BoundsAssumption, AnswerTypes, LenProperties
<1>2. /\ Len(part) = Len(Opening) + n
      /\ \A i \in 1..(Len(Opening) + n) :
            part[i] = IF i <= Len(Opening) THEN Opening[i] ELSE Data(i - Len(Opening))
  BY SaidSoFar
<1>3. /\ Len(full) = Len(Opening) + MaxData
      /\ \A i \in 1..(Len(Opening) + MaxData) :
            full[i] = IF i <= Len(Opening) THEN Opening[i] ELSE Data(i - Len(Opening))
  BY <1>1, SaidSoFar
<1>4. /\ Len(s) \in Nat /\ Len(p) \in Nat /\ Len(s \o p) = Len(s) + Len(p)
      /\ \A i \in 1..Len(s) : (s \o p)[i] = s[i]
  BY LenProperties, ConcatProperties
<1>5. s \o p = part
  OBVIOUS
<1> HIDE DEF part, full
<1>6. Len(s) <= Len(full) /\ \A i \in 1..Len(s) :
         i \in 1..(Len(Opening) + n) /\ i \in 1..(Len(Opening) + MaxData)
  BY <1>1, <1>2, <1>3, <1>4, <1>5
<1>7. \A i \in 1..Len(s) : s[i] = full[i]
  BY <1>2, <1>3, <1>4, <1>5, <1>6
<1>8. Len(s) \in 0..Len(s) /\ (Len(s) + 1)..Len(s) = {}
  BY <1>4
<1>9. ErrorsLast(s, full)
  BY <1>6, <1>7, <1>8 DEF ErrorsLast
<1> QED BY <1>9 DEF full

-----------------------------------------------------------------------------
(* Steps that say nothing to the client, or an error.                      *)

LEMMA QuietStream ==
    ASSUME TypeOK, StreamKept, UNCHANGED <<tunnel, head, answered>>, Answers' = Answers,
           client' = client \/ client' # "open", ~tunnel \/ UNCHANGED <<buffer, fromPaqet>>
    PROVE  StreamKept'
<1>1. Opening' = Opening
  BY DEF Opening
<1>2. DataUpTo(answered)' = DataUpTo(answered) /\ DataUpTo(MaxData)' = DataUpTo(MaxData)
  BY DEF DataUpTo
<1> QED BY <1>1, <1>2 DEF StreamKept

LEMMA QuietAnswers ==
    ASSUME AnswersFit, UNCHANGED <<stage, answered, st, client, socks, tunnel, head>>,
           Left' = Left
    PROVE  AnswersFit'
<1>1. DataUpTo(answered)' = DataUpTo(answered)
  BY DEF DataUpTo
<1> QED BY <1>1 DEF AnswersFit

LEMMA ErrorAnswers ==
    ASSUME TypeOK, NEW c \in {400, 502}, SendError(c), atClient' = atClient
    PROVE  /\ client' # "open" /\ (client' = "closed" => client = "closed")
           /\ Answers' = Answers \/ Answers' = Append(Answers, Error(c))
<1>1. /\ client' # "open" /\ (client' = "closed" => client = "closed")
      /\ toClient' = toClient \/ toClient' = Append(toClient, Error(c))
  BY DEF SendError, Write
<1>2. Error(c) \in AnswerTokens
  BY TokenTypes
<1>3. CASE toClient' = toClient
  BY <1>1, <1>3 DEF Answers
<1>4. CASE toClient' = Append(toClient, Error(c))
  <2> DEFINE e == <<Error(c)>>
  <2>1. /\ e \in Seq(AnswerTokens) /\ toClient' = toClient \o e
        /\ Append(Answers, Error(c)) = Answers \o e
    BY <1>2, <1>4, AnswerTypes, Appended
  <2> HIDE DEF e
  <2>2. /\ atClient \in Seq(AnswerTokens) /\ toClient \in Seq(AnswerTokens)
        /\ Answers = atClient \o toClient /\ Answers' = atClient \o toClient'
    BY AnswerTypes DEF Answers
  <2>3. Answers \o e = atClient \o toClient'
    BY ONLY SMTT(30), <2>1, <2>2, Move
  <2> QED BY <1>1, <2>1, <2>2, <2>3
<1> QED BY <1>1, <1>3, <1>4

LEMMA ErrorStep ==
    ASSUME TypeOK, StreamKept, NEW c \in {400, 502}, client' # "open", tunnel' = tunnel,
           tunnel => head' = head,
           Answers' = Answers \/ Answers' = Append(Answers, Error(c))
    PROVE  StreamKept'
<1>1. Error(c) \in AnswerTokens /\ IsError(Error(c))
  BY TokenTypes DEF Error, Token, IsError
<1>2. Answers \in Seq(AnswerTokens) /\ Opening \o DataUpTo(MaxData) \in Seq(AnswerTokens)
  <2>1. MaxData \in 0..MaxData
    BY BoundsAssumption
  <2> QED BY <2>1, AnswerTypes, SaidSoFar
<1>3. AllErrors(Answers) => AllErrors(Answers')
  BY <1>1, <1>2, MoreErrors
<1>4. ErrorsLast(Answers, Opening \o DataUpTo(MaxData))
        => ErrorsLast(Answers', Opening \o DataUpTo(MaxData))
  BY <1>1, <1>2, MoreErrors
<1>5. tunnel => Opening' = Opening
  BY DEF Opening
<1>6. AllErrors(Answers)' <=> AllErrors(Answers')
  BY DEF AllErrors
<1>7. ErrorsLast(Answers, Opening \o DataUpTo(MaxData))'
        <=> ErrorsLast(Answers', Opening' \o DataUpTo(MaxData))
  BY DEF ErrorsLast, DataUpTo
<1> QED BY <1>3, <1>4, <1>5, <1>6, <1>7 DEF StreamKept

-----------------------------------------------------------------------------
(* What is in flight for the client.                                       *)

LEMMA AssocPaqet ==
    ASSUME NEW a \in Seq(PaqetTokens), NEW b \in Seq(PaqetTokens), NEW c \in Seq(PaqetTokens)
    PROVE  (a \o b) \o c = a \o (b \o c)
  BY Move

LEMMA AssocAnswers ==
    ASSUME NEW a \in Seq(AnswerTokens), NEW b \in Seq(AnswerTokens), NEW c \in Seq(AnswerTokens)
    PROVE  (a \o b) \o c = a \o (b \o c)
  BY Move

(* Sequences that begin with two known tokens.                             *)

LEMMA AfterTwo ==
    \A S, s, r, d, p, a, b :
        /\ s \in Seq(S) /\ r \in Seq(S) /\ d \in Seq(S) /\ a \in S /\ b \in S
        /\ p = <<a, b>> /\ s \o r = p \o d
        => /\ Len(s) >= 1 => s[1] = a
           /\ Len(s) >= 2 => s[2] = b /\ SubSeq(s, 3, Len(s)) \o r = d
<1> TAKE S, s, r, d, p, a, b
<1> HAVE /\ s \in Seq(S) /\ r \in Seq(S) /\ d \in Seq(S) /\ a \in S /\ b \in S
         /\ p = <<a, b>> /\ s \o r = p \o d
<1>0. s \o r = <<a, b>> \o d
  OBVIOUS
<1> DEFINE t == SubSeq(s, 3, Len(s))
           whole == s \o r
<1>1. /\ Len(s) \in Nat /\ Len(r) \in Nat /\ Len(d) \in Nat
      /\ <<a, b>> \in Seq(S) /\ Len(<<a, b>>) = 2
  BY LenProperties
<1>2. /\ Len(whole) = Len(s) + Len(r)
      /\ \A i \in 1..(Len(s) + Len(r)) : whole[i] = IF i <= Len(s) THEN s[i] ELSE r[i - Len(s)]
  BY ConcatProperties
<1>3. /\ Len(whole) = 2 + Len(d)
      /\ \A i \in 1..(2 + Len(d)) : whole[i] = IF i <= 2 THEN <<a, b>>[i] ELSE d[i - 2]
  BY <1>1, ConcatProperties
<1> HIDE DEF whole
<1>4. whole[1] = a /\ whole[2] = b
  BY <1>1, <1>3
<1>5. /\ Len(s) >= 1 => s[1] = a
      /\ Len(s) >= 2 => s[2] = b
  BY <1>1, <1>2, <1>4
<1>6. ASSUME Len(s) >= 2
      PROVE  t \o r = d
  <2>1. /\ t \in Seq(S) /\ Len(t) = Len(s) - 2 /\ \A i \in 1..(Len(s) - 2) : t[i] = s[i + 2]
    BY <1>6, CutTwo
  <2> DEFINE u == t \o r
  <2>2. /\ u \in Seq(S) /\ Len(u) = Len(t) + Len(r)
        /\ \A i \in 1..(Len(t) + Len(r)) : u[i] = IF i <= Len(t) THEN t[i] ELSE r[i - Len(t)]
    BY <2>1, ConcatProperties
  <2> HIDE DEF u, t
  <2>3. Len(u) = Len(d)
    BY <1>1, <1>2, <1>3, <1>6, <2>1, <2>2
  <2>4. ASSUME NEW i \in 1..Len(u)
        PROVE  u[i] = d[i]
    <3>1. /\ i \in Nat /\ i + 2 \in 1..(2 + Len(d)) /\ ~(i + 2 <= 2) /\ i + 2 - 2 = i
          /\ i + 2 \in 1..(Len(s) + Len(r)) /\ i \in 1..(Len(t) + Len(r))
      BY <1>1, <1>2, <1>3, <2>2, <2>3
    <3>2. whole[i + 2] = d[i]
      BY <1>3, <3>1
    <3>3. CASE i <= Len(t)
      <4>1. i \in 1..(Len(s) - 2) /\ i + 2 <= Len(s)
        BY <1>1, <2>1, <3>1, <3>3
      <4> QED BY <1>2, <2>1, <2>2, <3>1, <3>2, <3>3, <4>1
    <3>4. CASE ~(i <= Len(t))
      <4>1. i - Len(t) = i + 2 - Len(s) /\ ~(i + 2 <= Len(s))
        BY <1>1, <2>1, <3>1, <3>4
      <4>2. u[i] = r[i - Len(t)]
        BY <2>2, <3>1, <3>4
      <4>3. whole[i + 2] = r[i + 2 - Len(s)]
        BY <1>2, <3>1, <4>1
      <4> QED BY <3>2, <4>1, <4>2, <4>3
    <3> QED BY <3>3, <3>4
  <2>5. u = d
    BY <2>2, <2>3, <2>4, SeqEqual
  <2> QED BY <2>5 DEF u
<1> QED BY <1>5, <1>6 DEF t

(* What is read was the beginning of what was left.                        *)
LEMMA ReadLeft ==
    ASSUME TypeOK, NEW n \in 1..Len(fromPaqet),
           NEW in, in = buffer \o SubSeq(fromPaqet, 1, n),
           fromPaqet' = SubSeq(fromPaqet, n + 1, Len(fromPaqet))
    PROVE  /\ in \in Seq(PaqetTokens) /\ Len(in) \in Nat /\ Len(in) >= 1
           /\ fromPaqet' \in Seq(PaqetTokens)
           /\ in \o fromPaqet' = Left /\ Left # <<>>
           /\ SubSeq(in, 3, Len(in)) \in Seq(PaqetTokens)
<1> DEFINE read == SubSeq(fromPaqet, 1, n)
           rest == SubSeq(fromPaqet, n + 1, Len(fromPaqet))
<1>1. /\ buffer \in Seq(PaqetTokens) /\ fromPaqet \in Seq(PaqetTokens)
      /\ Left = buffer \o fromPaqet
  BY DEF TypeOK, Left
<1>2. /\ read \in Seq(PaqetTokens) /\ rest \in Seq(PaqetTokens) /\ read \o rest = fromPaqet
      /\ Len(read) = n /\ n \in Nat /\ n >= 1
  BY <1>1, Split
<1> HIDE DEF read, rest
<1>3. in = buffer \o read
  BY DEF read
<1> DEFINE b == buffer
<1>b. b \in Seq(PaqetTokens) /\ in = b \o read /\ b = buffer
  BY <1>1, <1>3
<1> HIDE DEF b
<1>4. in \in Seq(PaqetTokens) /\ Len(in) = Len(buffer) + n /\ Len(buffer) \in Nat
  <2>1. b \o read \in Seq(PaqetTokens) /\ Len(b \o read) = Len(b) + Len(read)
    BY ONLY <1>2, <1>b, Concat
  <2>2. Len(b) \in Nat
    BY ONLY <1>b, LenProperties
  <2> QED BY <1>2, <1>b, <2>1, <2>2
<1>5. in \o rest = buffer \o fromPaqet
  <2>1. (b \o read) \o rest = b \o (read \o rest)
    BY ONLY <1>2, <1>b, AssocPaqet
  <2> QED BY <1>2, <1>b, <2>1
<1>6. Len(in \o rest) = Len(in) + Len(rest) /\ Len(rest) \in Nat
  BY <1>2, <1>4, Concat, LenProperties
<1>7. Left # <<>>
  BY <1>1, <1>2, <1>4, <1>5, <1>6, EmptySeq
<1>8. SubSeq(in, 3, Len(in)) \in Seq(PaqetTokens)
  BY <1>4, Rest
<1>9. fromPaqet' = rest
  BY DEF rest
<1>10. in \o fromPaqet' = Left
  BY <1>1, <1>5, <1>9, Zenon
<1>11. Len(in) \in Nat /\ Len(in) >= 1
  BY <1>2, <1>4
<1> QED BY <1>2, <1>4, <1>7, <1>8, <1>9, <1>10, <1>11, Zenon

-----------------------------------------------------------------------------
(* The steps.                                                              *)

StreamInv == Relayed /\ AnswersFit /\ StreamKept

(* Before paqet is connected it has said nothing, and no tunnel is up.     *)
LEMMA NothingSaid ==
    ASSUME StreamInv, socks = "connecting"
    PROVE  stage = "greeting" /\ Left = <<>> /\ answered = 0 /\ ~tunnel
  BY DEF StreamInv, Relayed, HandshakeKept, AnswersFit

LEMMA PeersStream ==
    ASSUME StreamInv,
           \/ ClientSends \/ ClientLeaves \/ PaqetLeaves \/ FlushClient \/ FlushSocks
           \/ ProxyStops \/ Over \/ UNCHANGED vars
    PROVE  AnswersFit' /\ StreamKept'
<1>1. UNCHANGED <<stage, answered, st, client, socks, tunnel, head, buffer, fromPaqet>>
  BY DEF ClientSends, ClientLeaves, PaqetLeaves, FlushClient, FlushSocks, ProxyStops, Over,
         vars, peerVars, handshakeVars
<1>2. Answers' = Answers
  <2>1. CASE FlushClient
    <3> DEFINE t == <<Head(toClient)>>
               r == Tail(toClient)
    <3>1. /\ toClient \in Seq(AnswerTokens) /\ atClient \in Seq(AnswerTokens)
          /\ toClient # <<>> /\ toClient' = r /\ atClient' = Append(atClient, Head(toClient))
      BY <2>1 DEF FlushClient, StreamInv, Relayed, TypeOK
    <3>2. Head(toClient) \in AnswerTokens /\ r \in Seq(AnswerTokens) /\ t \o r = toClient
      BY <3>1, Taken
    <3>3. t \in Seq(AnswerTokens) /\ atClient' = atClient \o t
      BY <3>1, <3>2, Appended
    <3> HIDE DEF t, r
    <3>4. (atClient \o t) \o r = atClient \o (t \o r)
      BY <3>1, <3>2, <3>3, AssocAnswers
    <3> QED BY <3>1, <3>2, <3>3, <3>4 DEF Answers
  <2>2. CASE UNCHANGED <<atClient, toClient>>
    BY <2>2 DEF Answers
  <2> QED BY <2>1, <2>2 DEF ClientSends, ClientLeaves, PaqetLeaves, FlushSocks, ProxyStops,
             Over, vars, peerVars, handshakeVars
<1>3. Left' = Left
  BY <1>1 DEF Left
<1> QED BY <1>1, <1>2, <1>3, QuietStream, QuietAnswers DEF StreamInv, Relayed

LEMMA SocksConnectedStream ==
    ASSUME StreamInv, SocksConnected
    PROVE  AnswersFit' /\ StreamKept'
<1>1. /\ UNCHANGED <<stage, answered, client, tunnel, head, buffer, fromPaqet, atClient, toClient>>
      /\ st' = "SocksGreeting" /\ socks = "connecting"
  BY DEF SocksConnected, peerVars
<1>2. stage = "greeting" /\ Left = <<>> /\ answered = 0
  BY <1>1, NothingSaid
<1>3. Left' = Left /\ Answers' = Answers
  BY <1>1 DEF Left, Answers
<1>4. StreamKept'
  BY <1>1, <1>3, QuietStream DEF StreamInv, Relayed
<1>5. AnswersFit'
  BY <1>1, <1>2, <1>3 DEF StreamInv, AnswersFit
<1> QED BY <1>4, <1>5

LEMMA SocksEndsStream ==
    ASSUME StreamInv, SocksRefused \/ SocksDisconnected
    PROVE  AnswersFit' /\ StreamKept'
<1>1. /\ UNCHANGED <<answered, st, tunnel, head, buffer, fromPaqet, atClient>>
      /\ socks' = "unconnected" /\ SendError(502)
  BY DEF SocksRefused, SocksDisconnected, peerVars, handshakeVars
<1>2. /\ client' # "open"
      /\ Answers' = Answers \/ Answers' = Append(Answers, Error(502))
  BY <1>1, ErrorAnswers DEF StreamInv, Relayed
<1>3. StreamKept'
  BY <1>1, <1>2, ErrorStep DEF StreamInv, Relayed
<1>4. Left' = Left /\ DataUpTo(answered)' = DataUpTo(answered)
  BY <1>1 DEF Left, DataUpTo
<1>5. CASE SocksRefused
  <2>1. stage' = "refused" /\ answered = 0
    BY <1>5, NothingSaid DEF SocksRefused
  <2> QED BY <1>1, <1>2, <1>3, <2>1 DEF AnswersFit
<1>6. CASE SocksDisconnected
  <2>1. stage' = stage
    BY <1>6 DEF SocksDisconnected, peerVars
  <2> QED BY <1>1, <1>2, <1>3, <1>4, <2>1 DEF StreamInv, AnswersFit
<1> QED BY <1>3, <1>5, <1>6

LEMMA EndStream ==
    ASSUME StreamInv, ClientDisconnected \/ Delete
    PROVE  AnswersFit' /\ StreamKept'
<1>1. /\ UNCHANGED <<stage, answered, st, tunnel, head, buffer, fromPaqet, atClient>>
      /\ client' = "closed" /\ socks' \in {"unconnected", "closing"}
      /\ toClient' = toClient \/ toClient' = <<>>
  BY DEF ClientDisconnected, Delete, peerVars, handshakeVars
<1>2. Left' = Left /\ DataUpTo(answered)' = DataUpTo(answered)
  BY <1>1 DEF Left, DataUpTo
<1>3. AnswersFit'
  BY <1>1, <1>2 DEF StreamInv, AnswersFit
<1>4. CASE toClient' = toClient
  <2>1. Answers' = Answers
    BY <1>1, <1>4 DEF Answers
  <2> QED BY <1>1, <1>3, <2>1, QuietStream DEF StreamInv, Relayed
<1>5. CASE toClient' = <<>>
  <2> DEFINE full == Opening \o DataUpTo(MaxData)
  <2>1. /\ TypeOK /\ atClient \in Seq(AnswerTokens) /\ toClient \in Seq(AnswerTokens)
        /\ full \in Seq(AnswerTokens)
    <3>1. TypeOK /\ MaxData \in 0..MaxData
      BY BoundsAssumption DEF StreamInv, Relayed
    <3> QED BY <3>1, AnswerTypes, SaidSoFar
  <2>2. Answers' = atClient
    BY <1>1, <1>5, <2>1, ConcatEmptySeq DEF Answers
  <2>3. full' = full
    BY <1>1 DEF Opening, DataUpTo
  <2> HIDE DEF full
  <2>4. ErrorsLast(Answers, full) => ErrorsLast(atClient, full)
    BY <2>1, CutErrors DEF Answers
  <2>5. AllErrors(Answers) => AllErrors(atClient)
    BY <2>1, CutErrors DEF Answers
  <2>6. AllErrors(Answers)' <=> AllErrors(Answers')
    BY DEF AllErrors
  <2>7. ErrorsLast(Answers, full)' <=> ErrorsLast(Answers', full')
    BY DEF ErrorsLast
  <2>8. (~tunnel => AllErrors(Answers)) /\ (tunnel => ErrorsLast(Answers, full))
    BY DEF StreamInv, StreamKept, full
  <2>9. (~tunnel => AllErrors(Answers))' /\ (tunnel => ErrorsLast(Answers, full))'
    BY <1>1, <2>2, <2>3, <2>4, <2>5, <2>6, <2>7, <2>8
  <2>10. StreamKept'
    BY <1>1, <2>9 DEF StreamKept, full
  <2> QED BY <1>3, <2>10
<1> QED BY <1>1, <1>4, <1>5

(* What the client sends: an error is only written for a request that      *)
(* names no host, or when paqet's socket is in use.                        *)
LEMMA ClientReadStream ==
    ASSUME StreamInv, NEW n \in 1..Len(fromClient), ClientReadyRead(n)
    PROVE  AnswersFit' /\ StreamKept'
<1> DEFINE read == SubSeq(fromClient, 1, n)
           r == request \o read
<1>1. /\ client = "open"
      /\ UNCHANGED <<stage, answered, tunnel, buffer, fromPaqet, atClient>>
      /\ TypeOK /\ RequestRead /\ RequestParsed /\ HandshakeKept /\ AnswersFit /\ StreamKept
  BY DEF ClientReadyRead, peerVars, StreamInv, Relayed
<1>2. Left' = Left /\ DataUpTo(answered)' = DataUpTo(answered)
  BY <1>1 DEF Left, DataUpTo
<1>3. CASE UNCHANGED <<head, st, socks, toClient, client>>
  <2>1. Answers' = Answers
    BY <1>1, <1>3 DEF Answers
  <2> QED BY <1>1, <1>2, <1>3, <2>1, QuietStream, QuietAnswers
<1>4. CASE ~tunnel /\ request' = r /\ Contains(request', End) /\ ParseRequest
  <2>1. head' = sent[1] /\ head' \in Heads
    BY ONLY <1>1, <1>4, n \in 1..Len(fromClient), Parsed DEF r, read
  <2>2. head # None => head = head'
    BY <1>1, <2>1 DEF RequestParsed
  <2> HIDE DEF r
  <2>3. CASE head'.arg = None
    <3>1. SendError(400) /\ UNCHANGED <<st, socks>>
      BY <1>4, <2>3, Zenon DEF ParseRequest
    <3>2. /\ client' # "open" /\ client' # "closed"
          /\ Answers' = Answers \/ Answers' = Append(Answers, Error(400))
      BY <1>1, <3>1, ErrorAnswers
    <3>3. StreamKept'
      BY <1>1, <1>4, <3>2, ErrorStep
    <3>4. socks = "unconnected"
      BY <1>1, <2>2, <2>3 DEF RequestParsed
    <3>5. AnswersFit'
      BY <1>1, <1>2, <3>1, <3>2, <3>4 DEF AnswersFit
    <3> QED BY <3>3, <3>5
  <2>4. CASE head'.arg # None /\ socks = "unconnected"
    <3>1. /\ st' = "ConnectingToSocks" /\ socks' = "connecting"
          /\ UNCHANGED <<toClient, client>>
      BY <1>4, <2>4, Zenon DEF ParseRequest, ConnectToSocks
    <3>2. Answers' = Answers
      BY <1>1, <3>1 DEF Answers
    <3>3. StreamKept'
      BY <1>1, <1>4, <3>1, <3>2, EmptySeq DEF StreamKept, AllErrors
    <3>4. AnswersFit'
      BY <1>1, <1>2, <3>1 DEF AnswersFit
    <3> QED BY <3>3, <3>4
  <2>5. CASE head'.arg # None /\ socks # "unconnected"
    <3>1. st' = "ConnectingToSocks" /\ SendError(502) /\ UNCHANGED socks
      BY <1>4, <2>5, Zenon DEF ParseRequest, ConnectToSocks
    <3>2. /\ client' # "open" /\ client' # "closed"
          /\ Answers' = Answers \/ Answers' = Append(Answers, Error(502))
      BY <1>1, <3>1, ErrorAnswers
    <3>3. StreamKept'
      BY <1>1, <1>4, <3>2, ErrorStep
    <3>4. head'.kind # "CONNECT"
      <4>1. Len(request) >= 2 /\ sent = request \o fromClient
        BY <1>1, <1>4, <2>5 DEF RequestParsed, RequestRead
      <4>2. Len(sent) > 2
        <5>1. /\ Len(sent) = Len(request) + Len(fromClient)
              /\ Len(request) \in Nat /\ Len(fromClient) \in Nat
          BY <1>1, <4>1, Concat, LenProperties DEF TypeOK
        <5> QED BY <4>1, <5>1
      <4>3. ~Contains(atClient, Token("ok", None))
        BY <1>1, <1>4 DEF HandshakeKept, Ok
      <4>4. sent[1].kind = "GET"
        BY <1>1, <4>2, <4>3 DEF RequestRead
      <4> QED BY <2>1, <4>4
    <3>5. AnswersFit'
      BY <1>1, <1>2, <3>1, <3>2, <3>4 DEF AnswersFit
    <3> QED BY <3>3, <3>5
  <2> QED BY <2>3, <2>4, <2>5
<1> QED BY <1>3, <1>4 DEF ClientReadyRead

LEMMA PaqetStream ==
    ASSUME StreamInv, PaqetAnswers
    PROVE  AnswersFit' /\ StreamKept'
<1>1. /\ socks = "connected"
      /\ UNCHANGED <<st, tunnel, head, client, socks, buffer, toClient, atClient>>
      /\ TypeOK /\ HandshakeKept /\ AnswersFit /\ StreamKept
  BY DEF PaqetAnswers, handshakeVars, StreamInv, Relayed
<1>2. /\ Answers' = Answers /\ Opening' = Opening
      /\ buffer \in Seq(PaqetTokens) /\ fromPaqet \in Seq(PaqetTokens)
      /\ Left \in Seq(PaqetTokens)
  BY <1>1, AnswerTypes DEF Answers, Opening, TypeOK
<1>3. ASSUME NEW x \in Seq(PaqetTokens), fromPaqet' = fromPaqet \o x
      PROVE  Left' = Left \o x
  <2>1. (buffer \o fromPaqet) \o x = buffer \o (fromPaqet \o x)
    BY <1>2, AssocPaqet
  <2> QED BY <1>1, <1>3, <2>1 DEF Left
<1>4. ASSUME stage # "relay"
      PROVE  StreamKept'
  <2>1. ~tunnel
    BY <1>1, <1>4 DEF HandshakeKept
  <2> QED BY <1>1, <1>2, <2>1 DEF StreamKept, AllErrors
<1>5. ASSUME NEW m \in {"none", "other"}, stage = "greeting",
             fromPaqet' = fromPaqet \o <<Token("version", None), Token("method", m)>>,
             stage' = IF m = "none" THEN "connect" ELSE "refused", answered' = answered
      PROVE  AnswersFit'
  <2> DEFINE x == <<Token("version", None), Token("method", m)>>
  <2>1. x \in Seq(PaqetTokens)
    BY TokenTypes
  <2> HIDE DEF x
  <2>2. Left' = x
    <3>1. Left = <<>> /\ Left' = Left \o x
      BY <1>1, <1>3, <1>5, <2>1 DEF AnswersFit, x
    <3> QED BY <2>1, <3>1, ConcatEmptySeq
  <2>3. stage' = "connect" => Left' = <<Token("version", None), Token("method", "none")>>
    BY <1>5, <2>2 DEF x
  <2>4. stage' \in {"connect", "refused"} /\ st # "SocksConnectRequest" /\ answered = 0
    BY <1>1, <1>5 DEF AnswersFit
  <2>5. ~tunnel /\ client # "open" /\ head # None /\ head.kind = "CONNECT" => FALSE
    BY <1>1, <1>5 DEF AnswersFit
  <2> QED BY <1>1, <1>5, <2>3, <2>4, <2>5 DEF AnswersFit
<1>6. ASSUME NEW a \in {"granted", "denied", "strange"}, stage = "connect", Len(atPaqet) > 1,
             fromPaqet' = fromPaqet \o <<Token("reply", a), Token("address", None)>>,
             stage' = IF a = "granted" THEN "relay" ELSE "refused", answered' = answered
      PROVE  AnswersFit'
  <2> DEFINE x == <<Token("reply", a), Token("address", None)>>
  <2>1. x \in Seq(PaqetTokens)
    BY TokenTypes
  <2> HIDE DEF x
  <2>2. st = "SocksConnectRequest" => Left' = x
    <3>1. st = "SocksConnectRequest" => Left = <<>> /\ Left' = Left \o x
      BY <1>1, <1>3, <1>6, <2>1 DEF AnswersFit, x
    <3> QED BY <2>1, <3>1, ConcatEmptySeq
  <2>3. answered = 0 /\ DataUpTo(answered)' = <<>> /\ x \o <<>> = x
    <3>1. answered = 0 /\ answered' = 0
      BY <1>1, <1>6 DEF AnswersFit
    <3>2. DataUpTo(0) = <<>>
      BY DataTypes, BoundsAssumption, EmptySeq
    <3>3. DataUpTo(answered)' = DataUpTo(answered')
      BY DEF DataUpTo
    <3> QED BY <2>1, <3>1, <3>2, <3>3, ConcatEmptySeq
  <2>4. st = "SocksConnectRequest" /\ stage' = "relay" =>
           Left' = <<Token("reply", "granted"), Token("address", None)>> \o DataUpTo(answered)'
    BY <1>6, <2>2, <2>3 DEF x
  <2>5. st # "SocksGreeting"
    <3>1. ~(Written <= 1)
      BY <1>1, <1>6, WrittenIsNat DEF Written
    <3> QED BY <1>1, <3>1 DEF HandshakeKept
  <2>6. ~tunnel /\ client # "open" /\ head # None /\ head.kind = "CONNECT" => FALSE
    BY <1>1, <1>6 DEF AnswersFit
  <2>7. client' = "closed" => socks' \in {"unconnected", "closing"}
    BY <1>1 DEF AnswersFit
  <2>8. stage' \in {"relay", "refused"} /\ answered' = 0
    BY <1>6, <2>3
  <2> QED BY <1>1, <2>4, <2>5, <2>6, <2>7, <2>8 DEF AnswersFit
<1>7. ASSUME stage = "relay", answered < MaxData, answered' = answered + 1,
             fromPaqet' = Append(fromPaqet, Data(answered')), stage' = stage
      PROVE  AnswersFit' /\ StreamKept'
  <2> DEFINE x == <<Data(answered + 1)>>
             d == DataUpTo(answered)
             two == <<Token("reply", "granted"), Token("address", None)>>
  <2>1. answered \in 0..MaxData /\ answered + 1 \in 0..MaxData
    BY <1>1, <1>7, BoundsAssumption DEF TypeOK
  <2>2. /\ DataUpTo(answered + 1) = d \o x /\ d \in Seq(PaqetTokens) /\ x \in Seq(PaqetTokens)
        /\ two \in Seq(PaqetTokens)
    BY <1>7, <2>1, DataGrows, DataTypes, TokenTypes
  <2>3. DataUpTo(answered)' = DataUpTo(answered + 1)
    BY <1>7 DEF DataUpTo
  <2>4. fromPaqet' = fromPaqet \o x
    <3>1. Data(answered + 1) \in PaqetTokens /\ fromPaqet' = Append(fromPaqet, Data(answered + 1))
      BY <1>7, <2>1, TokenTypes, BoundsAssumption
    <3> QED BY <1>2, <3>1, Appended
  <2> HIDE DEF x, d
  <2>5. Left' = Left \o x
    BY <1>3, <2>2, <2>4
  <2>6. (two \o d) \o x = two \o (d \o x)
    <3> HIDE DEF two
    <3> QED BY <2>2, AssocPaqet
  <2>7. st = "SocksConnectRequest" => Left' = two \o DataUpTo(answered)'
    <3>1. st = "SocksConnectRequest" => Left = two \o d
      BY <1>1, <1>7 DEF AnswersFit, d
    <3> HIDE DEF two
    <3> QED BY <2>2, <2>3, <2>5, <2>6, <3>1
  <2>8. AnswersFit'
    BY <1>1, <1>7, <2>7 DEF AnswersFit
  <2>9. ASSUME tunnel, client = "open"
        PROVE  Answers \o fromPaqet' = Opening \o DataUpTo(answered)'
    <3>1. /\ Answers \in Seq(AnswerTokens) /\ Opening \in Seq(AnswerTokens)
          /\ fromPaqet \in Seq(AnswerTokens) /\ x \in Seq(AnswerTokens) /\ d \in Seq(AnswerTokens)
      BY <1>1, <2>2, AnswerTypes, Wider
    <3>2. Answers \o fromPaqet = Opening \o d
      BY <1>1, <2>9 DEF StreamKept, d
    <3> DEFINE w == Answers
               f == fromPaqet
               o == Opening
    <3>3. /\ w \in Seq(AnswerTokens) /\ f \in Seq(AnswerTokens) /\ o \in Seq(AnswerTokens)
          /\ x \in Seq(AnswerTokens) /\ d \in Seq(AnswerTokens)
      BY <3>1
    <3> HIDE DEF w, f, o, x, d
    <3>4. (w \o f) \o x = w \o (f \o x)
      <4>1. w \in Seq(AnswerTokens) /\ f \in Seq(AnswerTokens) /\ x \in Seq(AnswerTokens)
        BY <3>3
      <4> QED BY ONLY <4>1, AssocAnswers
    <3>5. (o \o d) \o x = o \o (d \o x)
      <4>1. o \in Seq(AnswerTokens) /\ d \in Seq(AnswerTokens) /\ x \in Seq(AnswerTokens)
        BY <3>3
      <4> QED BY ONLY <4>1, AssocAnswers
    <3> QED BY <2>2, <2>3, <2>4, <3>2, <3>4, <3>5 DEF w, f, o
  <2>10. tunnel => ErrorsLast(Answers, Opening \o DataUpTo(MaxData))'
    <3>1. DataUpTo(MaxData)' = DataUpTo(MaxData)
      BY DEF DataUpTo
    <3> QED BY <1>1, <1>2, <3>1 DEF StreamKept, ErrorsLast
  <2>11. StreamKept'
    BY <1>1, <1>2, <2>9, <2>10 DEF StreamKept, AllErrors
  <2> QED BY <2>8, <2>11
<1>8. \/ stage = "greeting" /\ \E m \in {"none", "other"} :
            /\ fromPaqet' = fromPaqet \o <<Token("version", None), Token("method", m)>>
            /\ stage' = IF m = "none" THEN "connect" ELSE "refused"
            /\ answered' = answered
      \/ stage = "connect" /\ Len(atPaqet) > 1 /\ \E a \in {"granted", "denied", "strange"} :
            /\ fromPaqet' = fromPaqet \o <<Token("reply", a), Token("address", None)>>
            /\ stage' = IF a = "granted" THEN "relay" ELSE "refused"
            /\ answered' = answered
      \/ /\ stage = "relay" /\ answered < MaxData /\ answered' = answered + 1
         /\ fromPaqet' = Append(fromPaqet, Data(answered')) /\ stage' = stage
  BY DEF PaqetAnswers
<1> QED BY <1>4, <1>5, <1>6, <1>7, <1>8

(* Establishing the tunnel: what the target has said already follows the   *)
(* answer to the CONNECT.                                                  *)
LEMMA EstablishStream ==
    ASSUME StreamInv, NEW in \in Seq(PaqetTokens), NEW rest \in Seq(PaqetTokens),
           SubSeq(in, 3, Len(in)) = rest, rest \o fromPaqet' = DataUpTo(answered),
           fromPaqet' \in Seq(PaqetTokens), stage = "relay", socks = "connected", ~tunnel,
           Establish(rest), UNCHANGED <<client, head, answered, atClient, stage, socks>>
    PROVE  AnswersFit' /\ StreamKept'
<1>1. /\ TypeOK /\ RequestParsed /\ AnswersFit /\ StreamKept /\ head # None
      /\ answered \in 0..MaxData
  BY DEF StreamInv, Relayed, RequestParsed, TypeOK
<1>2. /\ tunnel' = TRUE /\ st' = "Tunneling"
      /\ toClient' = toClient \o Opening \o (IF client = "open" THEN rest ELSE <<>>)
      /\ buffer' = IF client = "open" THEN <<>> ELSE rest
  BY <1>1 DEF Establish, Opening
<1>3. /\ Opening' = Opening /\ DataUpTo(answered)' = DataUpTo(answered)
      /\ DataUpTo(MaxData)' = DataUpTo(MaxData)
  BY DEF Opening, DataUpTo
<1>4. /\ Opening \in Seq(AnswerTokens) /\ rest \in Seq(AnswerTokens)
      /\ fromPaqet' \in Seq(AnswerTokens) /\ Answers \in Seq(AnswerTokens)
      /\ atClient \in Seq(AnswerTokens) /\ toClient \in Seq(AnswerTokens)
      /\ Opening \o DataUpTo(MaxData) \in Seq(AnswerTokens)
      /\ Opening \o rest \in Seq(AnswerTokens)
  <2>1. MaxData \in 0..MaxData
    BY BoundsAssumption
  <2> QED BY <1>1, <2>1, AnswerTypes, SaidSoFar, Wider, Concat
<1>5. AnswersFit'
  BY <1>1, <1>2 DEF AnswersFit
<1>6. CASE client = "open"
  <2>1. Answers = <<>>
    BY <1>1, <1>6 DEF StreamKept
  <2>2. atClient = <<>> /\ toClient = <<>>
    <3>1. Len(atClient \o toClient) = Len(atClient) + Len(toClient) /\ Len(atClient) \in Nat
          /\ Len(toClient) \in Nat /\ Len(atClient \o toClient) = 0
      BY <1>4, <2>1, Concat, LenProperties, EmptySeq DEF Answers
    <3> QED BY <1>4, <3>1, EmptySeq
  <2>3. Answers' = Opening \o rest
    <3>1. toClient' = <<>> \o Opening \o rest
      BY <1>2, <1>6, <2>2
    <3>2. <<>> \o Opening = Opening /\ <<>> \o (Opening \o rest) = Opening \o rest
      BY <1>4, ConcatEmptySeq
    <3> QED BY <2>2, <3>1, <3>2 DEF Answers
  <2>4. (Opening \o rest) \o fromPaqet' = Opening \o DataUpTo(answered)
    <3>1. (Opening \o rest) \o fromPaqet' = Opening \o (rest \o fromPaqet')
      <4>1. /\ Opening \in Seq(AnswerTokens) /\ rest \in Seq(AnswerTokens)
            /\ fromPaqet' \in Seq(AnswerTokens)
        BY <1>4
      <4> QED BY ONLY <4>1, AssocAnswers
    <3> QED BY <3>1
  <2>5. ErrorsLast(Opening \o rest, Opening \o DataUpTo(MaxData))
    BY <1>1, <1>4, <2>4, WholeStream
  <2>6. ErrorsLast(Answers, Opening \o DataUpTo(MaxData))'
    BY <1>3, <2>3, <2>5 DEF ErrorsLast
  <2>7. StreamKept'
    BY <1>2, <1>3, <1>6, <2>3, <2>4, <2>6 DEF StreamKept
  <2> QED BY <1>5, <2>7
<1>7. CASE client # "open"
  <2>1. head.kind # "CONNECT"
    BY <1>1, <1>7 DEF AnswersFit
  <2>2. Opening = <<>>
    BY <2>1 DEF Opening
  <2>3. toClient' = toClient
    <3>1. toClient' = toClient \o <<>> \o <<>>
      BY <1>2, <1>7, <2>2
    <3> QED BY <1>4, <3>1, ConcatEmptySeq
  <2>4. Answers' = Answers /\ AllErrors(Answers)
    BY <1>1, <2>3 DEF Answers, StreamKept
  <2>5. ErrorsLast(Answers, Opening \o DataUpTo(MaxData))
    BY <1>4, <2>4, OnlyErrors
  <2>6. ErrorsLast(Answers, Opening \o DataUpTo(MaxData))'
    BY <1>3, <2>4, <2>5 DEF ErrorsLast
  <2>7. StreamKept'
    BY <1>2, <1>7, <2>6 DEF StreamKept
  <2> QED BY <1>5, <2>7
<1> QED BY <1>6, <1>7

LEMMA SocksReadStream ==
    ASSUME StreamInv, NEW n \in 1..Len(fromPaqet), SocksReadyRead(n)
    PROVE  AnswersFit' /\ StreamKept'
<1> DEFINE in == buffer \o SubSeq(fromPaqet, 1, n)
<1>1. /\ socks = "connected" /\ TypeOK /\ HandshakeKept /\ AnswersFit /\ StreamKept
      /\ UNCHANGED <<stage, answered, atClient, socks, head>>
      /\ fromPaqet' = SubSeq(fromPaqet, n + 1, Len(fromPaqet))
  BY DEF SocksReadyRead, peerVars, StreamInv, Relayed
<1>2. /\ in \in Seq(PaqetTokens) /\ Len(in) \in Nat /\ Len(in) >= 1
      /\ fromPaqet' \in Seq(PaqetTokens) /\ in \o fromPaqet' = Left /\ Left # <<>>
      /\ SubSeq(in, 3, Len(in)) \in Seq(PaqetTokens)
  BY ONLY <1>1, n \in 1..Len(fromPaqet), ReadLeft DEF in
<1>3. GrantedOnly(in)
  BY ONLY <1>1, n \in 1..Len(fromPaqet), ReadGrants DEF in
<1>4. /\ DataUpTo(answered)' = DataUpTo(answered) /\ Opening' = Opening
      /\ DataUpTo(MaxData)' = DataUpTo(MaxData)
  BY <1>1 DEF DataUpTo, Opening
<1>5. stage # "greeting" /\ client # "closed"
  BY <1>1, <1>2 DEF AnswersFit
<1>6. ASSUME ~tunnel, buffer' = in, UNCHANGED <<st, tunnel, toClient, client>>
      PROVE  AnswersFit' /\ StreamKept'
  <2>1. Answers' = Answers /\ Left' = Left
    BY <1>1, <1>2, <1>6 DEF Answers, Left
  <2> QED BY <1>1, <1>6, <2>1, QuietStream, QuietAnswers
<1>7. ASSUME ~tunnel, stage = "refused", SendError(502), UNCHANGED <<st, tunnel>>
      PROVE  AnswersFit' /\ StreamKept'
  <2>1. /\ client' # "open" /\ client' # "closed"
        /\ Answers' = Answers \/ Answers' = Append(Answers, Error(502))
    BY <1>1, <1>5, <1>7, ErrorAnswers
  <2>2. StreamKept'
    BY <1>1, <1>7, <2>1, ErrorStep
  <2>3. AnswersFit'
    BY <1>1, <1>7, <2>1 DEF AnswersFit
  <2> QED BY <2>2, <2>3
<1>8. CASE st = "SocksGreeting"
  <2> DEFINE v == Token("version", None)
             m == Token("method", "none")
  <2>1. HandleGreeting(in) /\ UNCHANGED tunnel /\ ~tunnel
    BY <1>1, <1>8 DEF SocksReadyRead, HandshakeKept
  <2>2. stage \in {"connect", "refused"}
    BY <1>1, <1>5, <1>8 DEF AnswersFit, TypeOK
  <2>3. v \in PaqetTokens /\ m \in PaqetTokens /\ <<>> \in Seq(PaqetTokens)
        /\ <<v, m>> \in Seq(PaqetTokens)
    BY TokenTypes, EmptySeq
  <2>4. stage = "connect" => in \o fromPaqet' = <<v, m>>
    BY <1>1, <1>2, <1>8 DEF AnswersFit
  <2> HIDE DEF in, v, m
  <2>5. stage = "connect" => in \o fromPaqet' = <<v, m>> \o <<>>
    BY <2>3, <2>4, ConcatEmptySeq
  <2>6. stage = "connect" /\ Len(in) >= 2 =>
           in[2] = m /\ SubSeq(in, 3, Len(in)) \o fromPaqet' = <<>>
    <3>1. /\ in \in Seq(PaqetTokens) /\ fromPaqet' \in Seq(PaqetTokens)
          /\ v \in PaqetTokens /\ m \in PaqetTokens /\ <<>> \in Seq(PaqetTokens)
      BY <1>2, <2>3
    <3>2. in \o fromPaqet' = <<v, m>> \o <<>> =>
             /\ Len(in) >= 1 => in[1] = v
             /\ Len(in) >= 2 => in[2] = m /\ SubSeq(in, 3, Len(in)) \o fromPaqet' = <<>>
      BY ONLY <3>1, AfterTwo, Zenon
    <3> QED BY <2>5, <3>2
  <2>7. CASE Len(in) < 2 /\ buffer' = in /\ UNCHANGED <<st, toClient, client>>
    BY <1>6, <2>1, <2>7
  <2>8. CASE /\ Len(in) >= 2 /\ in[2] = m /\ buffer' = SubSeq(in, 3, Len(in))
             /\ st' = "SocksConnectRequest" /\ UNCHANGED <<toClient, client>>
    <3>1. stage = "connect" => Left' = <<>>
      BY <2>6, <2>8 DEF Left
    <3>2. AnswersFit'
      BY <1>1, <1>5, <2>1, <2>2, <2>8, <3>1 DEF AnswersFit
    <3>3. Answers' = Answers
      BY <1>1, <2>8 DEF Answers
    <3>4. StreamKept'
      BY <1>1, <2>1, <2>8, <3>3, QuietStream
    <3> QED BY <3>2, <3>4
  <2>9. CASE Len(in) >= 2 /\ in[2] # m /\ SendError(502) /\ UNCHANGED st
    <3>1. stage = "refused"
      BY <2>2, <2>6, <2>9
    <3> QED BY <1>7, <2>1, <2>9, <3>1
  <2> QED BY <2>1, <2>7, <2>8, <2>9 DEF HandleGreeting, m
<1>9. CASE st = "SocksConnectRequest"
  <2> DEFINE g == Token("reply", "granted")
             a == Token("address", None)
             d == DataUpTo(answered)
  <2>1. HandleReply(in) /\ ~tunnel
    BY <1>1, <1>9 DEF SocksReadyRead, HandshakeKept
  <2>2. stage \in {"relay", "refused"}
    BY <1>1, <1>2, <1>5, <1>9 DEF AnswersFit, TypeOK
  <2>3. g \in PaqetTokens /\ a \in PaqetTokens /\ d \in Seq(PaqetTokens)
    BY <1>1, TokenTypes, DataTypes DEF TypeOK
  <2>4. stage = "relay" => in \o fromPaqet' = <<g, a>> \o d
    BY <1>1, <1>2, <1>9 DEF AnswersFit
  <2>5. g.arg = "granted"
    BY DEF Token
  <2> HIDE DEF in, g, a, d
  <2>6. in \o fromPaqet' = <<g, a>> \o d =>
           /\ Len(in) >= 1 => in[1] = g
           /\ Len(in) >= 2 => in[2] = a /\ SubSeq(in, 3, Len(in)) \o fromPaqet' = d
    <3>1. /\ in \in Seq(PaqetTokens) /\ fromPaqet' \in Seq(PaqetTokens)
          /\ g \in PaqetTokens /\ a \in PaqetTokens /\ d \in Seq(PaqetTokens)
      BY <1>2, <2>3
    <3> QED BY ONLY <3>1, AfterTwo, Zenon
  <2>7. stage = "relay" =>
           in[1] = g /\ (Len(in) >= 2 => SubSeq(in, 3, Len(in)) \o fromPaqet' = d)
    BY <1>2, <2>4, <2>6
  <2>8. in[1] \in PaqetTokens /\ 1 \in DOMAIN in
    BY <1>2, ElementOfSeq, LenProperties
  <2>9. CASE in[1].arg \in {"strange", "denied"} /\ SendError(502) /\ UNCHANGED <<st, tunnel>>
    <3>1. stage = "refused"
      BY <2>2, <2>5, <2>7, <2>9
    <3> QED BY <1>7, <2>1, <2>9, <3>1
  <2>10. CASE buffer' = in /\ UNCHANGED <<st, tunnel, toClient, client>>
    BY <1>6, <2>1, <2>10
  <2>11. CASE /\ in[1].arg = "granted" /\ Len(in) >= 2
              /\ Establish(SubSeq(in, 3, Len(in))) /\ UNCHANGED client
    <3>1. stage = "relay"
      BY <1>3, <2>8, <2>11, GrantedReply DEF GrantedOnly
    <3>2. SubSeq(in, 3, Len(in)) \o fromPaqet' = DataUpTo(answered)
      BY <2>7, <2>11, <3>1 DEF d
    <3> QED BY <1>1, <1>2, <2>1, <2>11, <3>1, <3>2, EstablishStream
  <2> QED BY <2>1, <2>9, <2>10, <2>11 DEF HandleReply
<1>10. CASE st = "Tunneling"
  <2>1. /\ toClient' = IF client = "open" THEN toClient \o in ELSE toClient
        /\ buffer' = <<>> /\ UNCHANGED <<st, tunnel, client>> /\ tunnel /\ stage = "relay"
    BY <1>1, <1>10 DEF SocksReadyRead, HandshakeKept
  <2> HIDE DEF in
  <2>2. AnswersFit'
    BY <1>1, <1>10, <2>1 DEF AnswersFit
  <2>3. CASE client # "open"
    <3>1. Answers' = Answers
      BY <1>1, <2>1, <2>3 DEF Answers
    <3>2. StreamKept'
      BY <1>1, <1>4, <2>1, <2>3, <3>1 DEF StreamKept, ErrorsLast
    <3> QED BY <2>2, <3>2
  <2>4. CASE client = "open"
    <3>1. /\ Answers \in Seq(AnswerTokens) /\ in \in Seq(AnswerTokens)
          /\ fromPaqet' \in Seq(AnswerTokens) /\ answered \in 0..MaxData
          /\ atClient \in Seq(AnswerTokens) /\ toClient \in Seq(AnswerTokens)
          /\ Answers \o in \in Seq(AnswerTokens)
      BY <1>1, <1>2, AnswerTypes, Wider, Concat DEF TypeOK
    <3>2. Answers' = Answers \o in
      <4> DEFINE had == atClient
                 given == toClient
      <4>1. had \in Seq(AnswerTokens) /\ given \in Seq(AnswerTokens) /\ in \in Seq(AnswerTokens)
        BY <3>1
      <4> HIDE DEF had, given
      <4>2. (had \o given) \o in = had \o (given \o in)
        BY ONLY <4>1, AssocAnswers
      <4> QED BY <1>1, <2>1, <2>4, <4>2 DEF Answers, had, given
    <3>3. Left = fromPaqet /\ Answers \o fromPaqet = Opening \o DataUpTo(answered)
      <4>1. buffer = <<>> /\ fromPaqet \in Seq(PaqetTokens)
        BY <1>1, <2>1, <2>4 DEF StreamKept, TypeOK
      <4> QED BY <1>1, <2>1, <2>4, <4>1, ConcatEmptySeq DEF StreamKept, Left
    <3>4. (Answers \o in) \o fromPaqet' = Opening \o DataUpTo(answered)
      <4> DEFINE w == Answers
                 f == fromPaqet'
      <4>1. w \in Seq(AnswerTokens) /\ in \in Seq(AnswerTokens) /\ f \in Seq(AnswerTokens)
        BY <3>1
      <4> HIDE DEF w, f, in
      <4>2. (w \o in) \o f = w \o (in \o f)
        BY ONLY <4>1, AssocAnswers
      <4> QED BY <1>2, <3>3, <4>2 DEF w, f
    <3>5. ErrorsLast(Answers \o in, Opening \o DataUpTo(MaxData))
      BY <1>1, <3>1, <3>4, WholeStream
    <3>6. ErrorsLast(Answers, Opening \o DataUpTo(MaxData))'
      BY <1>4, <3>2, <3>5 DEF ErrorsLast
    <3>7. StreamKept'
      BY <1>4, <2>1, <3>2, <3>4, <3>6 DEF StreamKept
    <3> QED BY <2>2, <3>7
  <2> QED BY <2>3, <2>4
<1>11. CASE st \notin {"SocksGreeting", "SocksConnectRequest", "Tunneling"}
  <2>1. buffer' = in /\ UNCHANGED <<st, tunnel, toClient, client>> /\ ~tunnel
    BY <1>1, <1>11 DEF SocksReadyRead, HandshakeKept
  <2> QED BY <1>6, <2>1
<1> QED BY <1>8, <1>9, <1>10, <1>11

LEMMA InitStream == Init => AnswersFit /\ StreamKept
<1> SUFFICES ASSUME Init
             PROVE  AnswersFit /\ StreamKept
  OBVIOUS
<1>1. Left = <<>> /\ Answers = <<>>
  BY EmptySeq, ConcatEmptySeq DEF Init, Left, Answers
<1>2. AllErrors(Answers)
  BY <1>1 DEF AllErrors
<1> QED BY <1>1, <1>2 DEF Init, AnswersFit, StreamKept

LEMMA StreamStep == StreamInv /\ [Next]_vars => StreamInv'
<1> SUFFICES ASSUME StreamInv, [Next]_vars
             PROVE  StreamInv'
  OBVIOUS
<1>1. Relayed'
  BY RelayedKept DEF StreamInv
<1>2. ASSUME NEW n \in 1..Len(fromClient), ClientReadyRead(n)
      PROVE  AnswersFit' /\ StreamKept'
  BY <1>2, ClientReadStream
<1>3. ASSUME NEW n \in 1..Len(fromPaqet), SocksReadyRead(n)
      PROVE  AnswersFit' /\ StreamKept'
  BY <1>3, SocksReadStream
<1>4. AnswersFit' /\ StreamKept'
  BY <1>2, <1>3, PeersStream, PaqetStream, SocksConnectedStream, SocksEndsStream, EndStream
     DEF Next, Reads
<1> QED BY <1>1, <1>4 DEF StreamInv

LEMMA ErrorsLastIsProperty ==
    ASSUME TypeOK, ErrorsLast(Answers, Opening \o DataUpTo(MaxData))
    PROVE  ClientStreamInOrder
<1> DEFINE full == Opening \o DataUpTo(MaxData)
<1>1. full \in Seq(AnswerTokens) /\ Answers \in Seq(AnswerTokens)
  <2>1. MaxData \in 0..MaxData
    BY BoundsAssumption
  <2> QED BY <2>1, AnswerTypes, SaidSoFar
<1> HIDE DEF full
<1>2. Len(full) \in Nat /\ Len(Answers) \in Nat
  BY <1>1, LenProperties
<1>3. PICK k \in 0..Len(Answers) :
         /\ k <= Len(full) /\ \A i \in 1..k : Answers[i] = full[i]
         /\ \A i \in (k + 1)..Len(Answers) : IsError(Answers[i])
  BY DEF ErrorsLast, full
<1> DEFINE s == SubSeq(Answers, 1, k)
           t == SubSeq(full, 1, k)
<1>4. k \in Nat /\ k <= Len(Answers) /\ k <= Len(full)
  BY <1>2, <1>3
<1>5. s \in Seq(AnswerTokens) /\ Len(s) = k /\ \A i \in 1..k : s[i] = Answers[i]
  BY <1>1, <1>2, <1>4, ElementOfSeq, SubSeqProperties
<1>6. t \in Seq(AnswerTokens) /\ Len(t) = k /\ \A i \in 1..k : t[i] = full[i]
  BY <1>1, <1>2, <1>4, ElementOfSeq, SubSeqProperties
<1>7. s = t
  <2> HIDE DEF s, t
  <2> QED BY <1>3, <1>5, <1>6, SeqEqual
<1>8. SubSeq(s, 1, k) = s
  BY <1>5, SubSeqFull
<1>9. IsPrefix(s, full)
  <2> HIDE DEF s
  <2> QED BY <1>4, <1>5, <1>7, <1>8 DEF IsPrefix
<1> QED BY <1>3, <1>9 DEF ClientStreamInOrder, Answers, IsError, full

(* However paqet's answers arrive and the client's reads, flushes and      *)
(* disconnects fall between them, the client receives the answer to its    *)
(* CONNECT, the target's data in order without gaps or repetitions, and    *)
(* errors only behind them.                                                *)
THEOREM ClientOrder == Spec => []ClientStreamInOrder
<1>1. StreamInv => ClientStreamInOrder
  <2> SUFFICES ASSUME StreamInv
               PROVE  ClientStreamInOrder
    OBVIOUS
  <2>1. TypeOK /\ MaxData \in 0..MaxData
    BY BoundsAssumption DEF StreamInv, Relayed
  <2>2. Answers \in Seq(AnswerTokens) /\ Opening \o DataUpTo(MaxData) \in Seq(AnswerTokens)
    BY <2>1, AnswerTypes, SaidSoFar
  <2>3. ErrorsLast(Answers, Opening \o DataUpTo(MaxData))
    BY <2>2, OnlyErrors DEF StreamInv, StreamKept
  <2> QED BY <2>1, <2>3, ErrorsLastIsProperty
<1>2. Init => StreamInv
  BY InitRelayed, InitStream DEF StreamInv
<1> QED BY <1>1, <1>2, StreamStep, PTL DEF Spec
===============================================================================
