--------------------------- MODULE ClientConnection ---------------------------
(***************************************************************************)
(* HttpToSocksProxy::ClientConnection: one client of the local HTTP proxy. *)
(* It collects a request, opens a connection to paqet's SOCKS5 port, does  *)
(* the handshake, forwards the request or answers the CONNECT, and relays  *)
(* from then on.  All of it runs in the event loop of the worker thread.   *)
(*                                                                         *)
(* Streams are sequences of tokens, each a piece a peer writes and the     *)
(* code tells apart; a read takes any number of the tokens in flight.      *)
(* What write() was given stays in a buffer of the socket until the event  *)
(* loop flushes it, and is lost if the socket is destroyed first.          *)
(***************************************************************************)
EXTENDS Integers, SequencesExt

CONSTANTS
    Hosts,        \* target hosts
    MaxData,      \* bound: pieces of data per direction
    MaxRequests,  \* bound: requests a client sends over one connection
    None          \* no host: a request that names none

ASSUME HostsAssumption == None \notin Hosts
ASSUME BoundsAssumption == MaxData \in Nat /\ MaxRequests \in Nat \ {0}

VARIABLES
    sent, clientLeft,           \* the client: all it has sent; it has closed
    stage, answered, paqetLeft, \* paqet: SOCKS stage, data pieces sent back, closed
    fromClient, fromPaqet,      \* in flight to the proxy
    toClient, toSocks,          \* written, not flushed
    atClient, atPaqet,          \* all the peers have received
    client, socks,              \* QAbstractSocket::state() of m_client and m_socks
    st, tunnel,                 \* m_state, m_tunnelEstablished
    request, head,              \* m_requestBuffer; m_method and m_targetHost
    body,                       \* m_requestBody
    buffer,                     \* m_socksBuffer
    ending, gone                \* deleteLater() was called, and by whom; deleted

peerVars == <<sent, clientLeft, stage, answered, paqetLeft>>
handshakeVars == <<st, tunnel, request, head, body, buffer>>
vars == <<peerVars, fromClient, fromPaqet, toClient, toSocks, atClient, atPaqet,
          client, socks, handshakeVars, ending, gone>>

Token(k, x) == [kind |-> k, arg |-> x]
Data(n) == Token("data", n)
End == Token("end", None)
Heads == {Token(m, h) : m \in {"CONNECT", "GET"}, h \in Hosts \cup {None}}

ASSUME NoneAssumption == None \notin Heads /\ None # "granted"

ClientTokens == Heads \cup {End} \cup {Data(n) : n \in 1..MaxData}
PaqetTokens ==
    {Token("method", m) : m \in {"none", "other"}}
        \cup {Token("reply", r) : r \in {"granted", "denied", "strange"}}
        \cup {Token("version", None), Token("address", None)}
        \cup {Data(n) : n \in 1..MaxData}
SocksTokens ==
    {Token("greeting", None)} \cup {Token("connect", h) : h \in Hosts} \cup ClientTokens
Error(code) == Token("error", code)
AnswerTokens == {Error(400), Error(502), Token("ok", None)} \cup PaqetTokens

TypeOK ==
    /\ sent \in Seq(ClientTokens) /\ fromClient \in Seq(ClientTokens)
    /\ request \in Seq(ClientTokens) /\ body \in Seq(ClientTokens)
    /\ fromPaqet \in Seq(PaqetTokens) /\ buffer \in Seq(PaqetTokens)
    /\ toSocks \in Seq(SocksTokens) /\ atPaqet \in Seq(SocksTokens)
    /\ toClient \in Seq(AnswerTokens) /\ atClient \in Seq(AnswerTokens)
    /\ clientLeft \in BOOLEAN /\ paqetLeft \in BOOLEAN
    /\ stage \in {"greeting", "connect", "relay", "refused"}
    /\ answered \in 0..MaxData
    /\ client \in {"open", "closing", "closed"}
    /\ socks \in {"unconnected", "connecting", "connected", "closing"}
    /\ st \in {"WaitingForRequest", "ConnectingToSocks", "SocksGreeting",
               "SocksConnectRequest", "Tunneling"}
    /\ tunnel \in BOOLEAN
    /\ head \in Heads \cup {None}
    /\ ending \in {"no", "finished", "stopped"}
    /\ gone \in BOOLEAN

Init ==
    /\ sent = <<>> /\ clientLeft = FALSE
    /\ stage = "greeting" /\ answered = 0 /\ paqetLeft = FALSE
    /\ fromClient = <<>> /\ fromPaqet = <<>>
    /\ toClient = <<>> /\ toSocks = <<>>
    /\ atClient = <<>> /\ atPaqet = <<>>
    /\ client = "open" /\ socks = "unconnected"
    /\ st = "WaitingForRequest" /\ tunnel = FALSE
    /\ request = <<>> /\ head = None /\ body = <<>> /\ buffer = <<>>
    /\ ending = "no" /\ gone = FALSE

-----------------------------------------------------------------------------
(* The peers.                                                              *)

Count(s, kinds) == Cardinality({i \in DOMAIN s : s[i].kind \in kinds})
NextData(s) == Data(Count(s, {"data"}) + 1)

(* What a client may send next: a request line, the end of the headers,    *)
(* a body or, once its CONNECT was answered, what it wants relayed; a      *)
(* further request when it has got an answer.                              *)
MaySend ==
    LET heads == Count(sent, {"GET", "CONNECT"})
        last == IF sent = <<>> THEN None ELSE Last(sent)
    IN  CASE sent = <<>> -> Heads
          [] last \in Heads -> {End}
          [] OTHER ->
               (IF sent[1].kind = "GET" \/ Contains(atClient, Token("ok", None))
                THEN {NextData(sent)} \cap ClientTokens ELSE {})
               \cup (IF /\ sent[1].kind = "GET" /\ heads < MaxRequests
                        /\ Count(atClient, {"data"}) > 0
                     THEN {Token("GET", h) : h \in Hosts} ELSE {})

ClientSends ==
    /\ ~clientLeft /\ client = "open"
    /\ \E t \in MaySend :
          sent' = Append(sent, t) /\ fromClient' = Append(fromClient, t)
    /\ UNCHANGED <<clientLeft, stage, answered, paqetLeft, fromPaqet, toClient, toSocks,
                   atClient, atPaqet, client, socks, handshakeVars, ending, gone>>

ClientLeaves ==
    /\ ~clientLeft
    /\ clientLeft' = TRUE
    /\ UNCHANGED <<sent, stage, answered, paqetLeft, fromClient, fromPaqet, toClient,
                   toSocks, atClient, atPaqet, client, socks, handshakeVars, ending, gone>>

(* paqet answers the greeting and the request, then sends what the target  *)
(* sends.                                                                  *)
PaqetAnswers ==
    /\ socks = "connected" /\ ~paqetLeft
    /\ \/ /\ stage = "greeting" /\ Len(atPaqet) > 0
          /\ \E m \in {"none", "other"} :
                /\ fromPaqet' = fromPaqet \o <<Token("version", None), Token("method", m)>>
                /\ stage' = IF m = "none" THEN "connect" ELSE "refused"
          /\ UNCHANGED answered
       \/ /\ stage = "connect" /\ Len(atPaqet) > 1
          /\ \E r \in {"granted", "denied", "strange"} :
                /\ fromPaqet' = fromPaqet \o <<Token("reply", r), Token("address", None)>>
                /\ stage' = IF r = "granted" THEN "relay" ELSE "refused"
          /\ UNCHANGED answered
       \/ /\ stage = "relay" /\ answered < MaxData
          /\ answered' = answered + 1
          /\ fromPaqet' = Append(fromPaqet, Data(answered'))
          /\ UNCHANGED stage
    /\ UNCHANGED <<sent, clientLeft, paqetLeft, fromClient, toClient, toSocks, atClient,
                   atPaqet, client, socks, handshakeVars, ending, gone>>

PaqetLeaves ==
    /\ socks = "connected" /\ ~paqetLeft
    /\ paqetLeft' = TRUE
    /\ UNCHANGED <<sent, clientLeft, stage, answered, fromClient, fromPaqet, toClient,
                   toSocks, atClient, atPaqet, client, socks, handshakeVars, ending, gone>>

-----------------------------------------------------------------------------
(* The socket buffers.                                                     *)

FlushClient ==
    /\ ~gone /\ client # "closed" /\ toClient # <<>> /\ ~clientLeft
    /\ atClient' = Append(atClient, Head(toClient))
    /\ toClient' = Tail(toClient)
    /\ UNCHANGED <<peerVars, fromClient, fromPaqet, toSocks, atPaqet, client, socks,
                   handshakeVars, ending, gone>>

FlushSocks ==
    /\ ~gone /\ socks \in {"connected", "closing"} /\ toSocks # <<>> /\ ~paqetLeft
    /\ atPaqet' = Append(atPaqet, Head(toSocks))
    /\ toSocks' = Tail(toSocks)
    /\ UNCHANGED <<peerVars, fromClient, fromPaqet, toClient, atClient, client, socks,
                   handshakeVars, ending, gone>>

-----------------------------------------------------------------------------
(* Reading the client.                                                     *)

Write(t) == toClient' = IF client = "closed" THEN toClient ELSE Append(toClient, t)

(* The answer is flushed before the client socket closes; disconnecting it *)
(* also ends the reading of it.                                            *)
SendError(code) ==
    /\ Write(Error(code))
    /\ client' = IF client = "closed" THEN "closed" ELSE "closing"

HeadersEnd(r) == CHOOSE i \in DOMAIN r : r[i] = End /\ \A j \in 1..(i - 1) : r[j] # End

(* connectToHost() on a socket in use reports an error instead.            *)
ConnectToSocks ==
    IF socks = "unconnected"
    THEN socks' = "connecting" /\ UNCHANGED <<toClient, client>>
    ELSE SendError(502) /\ UNCHANGED socks

(* The whole buffer is parsed again whenever more of the request arrives.  *)
ParseRequest ==
    LET end == HeadersEnd(request')
    IN  /\ head' = request'[1]
        /\ body' = SubSeq(request', end + 1, Len(request'))
        /\ IF head'.arg = None
           THEN SendError(400) /\ UNCHANGED <<st, socks>>
           ELSE st' = "ConnectingToSocks" /\ ConnectToSocks

(* onClientReadyRead()                                                     *)
ClientReadyRead(n) ==
    /\ ~gone /\ client = "open" /\ n \in 1..Len(fromClient)
    /\ fromClient' = SubSeq(fromClient, n + 1, Len(fromClient))
    /\ LET read == SubSeq(fromClient, 1, n)
       IN  \/ /\ tunnel
              /\ toSocks' = IF socks = "connected" THEN toSocks \o read ELSE toSocks
              /\ UNCHANGED <<request, head, body, st, socks, toClient, client>>
           \/ /\ ~tunnel
              /\ request' = request \o read
              /\ IF Contains(request', End)
                 THEN ParseRequest
                 ELSE UNCHANGED <<head, body, st, socks, toClient, client>>
              /\ UNCHANGED toSocks
    /\ UNCHANGED <<peerVars, fromPaqet, atClient, atPaqet, tunnel, buffer, ending, gone>>

-----------------------------------------------------------------------------
(* The SOCKS socket.                                                       *)

(* onSocksConnected()                                                      *)
SocksConnected ==
    /\ ~gone /\ socks = "connecting"
    /\ socks' = "connected"
    /\ toSocks' = Append(toSocks, Token("greeting", None))
    /\ st' = "SocksGreeting"
    /\ UNCHANGED <<peerVars, fromClient, fromPaqet, toClient, atClient, atPaqet, client,
                   tunnel, request, head, body, buffer, ending, gone>>

(* Mutant: an error is only logged.                                        *)
SocksRefusedSilently ==
    /\ ~gone /\ socks = "connecting"
    /\ socks' = "unconnected"
    /\ stage' = "refused"
    /\ UNCHANGED <<sent, clientLeft, answered, paqetLeft, fromClient, fromPaqet, toSocks,
                   atClient, atPaqet, handshakeVars, ending, gone, toClient, client>>

(* onSocksError() for a port nobody listens on.                            *)
SocksRefused ==
    /\ ~gone /\ socks = "connecting"
    /\ socks' = "unconnected"
    /\ stage' = "refused"
    /\ SendError(502)
    /\ UNCHANGED <<sent, clientLeft, answered, paqetLeft, fromClient, fromPaqet, toSocks,
                   atClient, atPaqet, handshakeVars, ending, gone>>

(* handleSocksGreeting(), in is the buffer with what was just read.        *)
HandleGreeting(in) ==
    \/ Len(in) < 2 /\ buffer' = in /\ UNCHANGED <<st, toSocks, toClient, client>>
    \/ /\ Len(in) >= 2
       /\ buffer' = SubSeq(in, 3, Len(in))
       /\ IF in[2] = Token("method", "none")
          THEN /\ toSocks' = Append(toSocks, Token("connect", head.arg))
               /\ st' = "SocksConnectRequest"
               /\ UNCHANGED <<toClient, client>>
          ELSE SendError(502) /\ UNCHANGED <<st, toSocks>>

(* Mutant: the body is forgotten.                                          *)
ForwardedWithoutBody == IF head.kind = "GET" THEN <<head, End>> ELSE <<>>

(* What is sent to the target first: nothing for CONNECT.                  *)
Forwarded == IF head.kind = "GET" THEN <<head, End>> \o body ELSE <<>>

(* Mutant: the rest is written twice, because it is not cleared.           *)
EstablishAndKeep(rest) ==
    /\ tunnel' = TRUE
    /\ st' = "Tunneling"
    /\ toSocks' = toSocks \o Forwarded
    /\ toClient' = toClient
                     \o (IF head.kind = "CONNECT" THEN <<Token("ok", None)>> ELSE <<>>)
                     \o (IF client = "open" THEN rest ELSE <<>>)
    /\ buffer' = rest

(* The tunnel is up; what the target has said already is passed on.        *)
Establish(rest) ==
    /\ tunnel' = TRUE
    /\ st' = "Tunneling"
    /\ toSocks' = toSocks \o Forwarded
    /\ toClient' = toClient
                     \o (IF head.kind = "CONNECT" THEN <<Token("ok", None)>> ELSE <<>>)
                     \o (IF client = "open" THEN rest ELSE <<>>)
    /\ buffer' = IF client = "open" THEN <<>> ELSE rest

(* Mutant: the reply code is not looked at.                                *)
HandleReplyAnyCode(in) ==
    /\ Len(in) >= 2
    /\ Establish(SubSeq(in, 3, Len(in)))
    /\ UNCHANGED client

(* handleSocksConnectResponse()                                            *)
HandleReply(in) ==
    \/ /\ in[1].arg = "strange"
       /\ SendError(502)
       /\ buffer' = in
       /\ UNCHANGED <<st, tunnel, toSocks>>
    \/ /\ in[1].arg # "strange" /\ Len(in) < 2
       /\ buffer' = in
       /\ UNCHANGED <<st, tunnel, toSocks, toClient, client>>
    \/ /\ in[1].arg = "denied" /\ Len(in) >= 2
       /\ SendError(502)
       /\ buffer' = SubSeq(in, 3, Len(in))
       /\ UNCHANGED <<st, tunnel, toSocks>>
    \/ /\ in[1].arg = "granted" /\ Len(in) >= 2
       /\ Establish(SubSeq(in, 3, Len(in)))
       /\ UNCHANGED client

(* onSocksReadyRead()                                                      *)
SocksReadyRead(n) ==
    /\ ~gone /\ socks = "connected" /\ n \in 1..Len(fromPaqet)
    /\ fromPaqet' = SubSeq(fromPaqet, n + 1, Len(fromPaqet))
    /\ LET in == buffer \o SubSeq(fromPaqet, 1, n)
       IN  CASE st = "SocksGreeting" -> HandleGreeting(in) /\ UNCHANGED tunnel
             [] st = "SocksConnectRequest" -> HandleReply(in)
             [] st = "Tunneling" ->
                  /\ toClient' = IF client = "open" THEN toClient \o in ELSE toClient
                  /\ buffer' = <<>>
                  /\ UNCHANGED <<st, tunnel, toSocks, client>>
             [] OTHER -> buffer' = in /\ UNCHANGED <<st, tunnel, toSocks, toClient, client>>
    /\ UNCHANGED <<peerVars, fromClient, atClient, atPaqet, socks, request, head, body,
                   ending, gone>>

-----------------------------------------------------------------------------
(* The end.                                                                *)

Finished == ending' = IF ending = "no" THEN "finished" ELSE ending

(* Mutant: only the socket is closed.                                      *)
ClientDisconnectedOnly ==
    /\ ~gone
    /\ \/ client = "open" /\ clientLeft /\ fromClient = <<>>
       \/ client = "closing" /\ (clientLeft \/ toClient = <<>>)
    /\ client' = "closed"
    /\ socks' = IF socks \in {"connected", "closing"} /\ toSocks # <<>>
                THEN "closing" ELSE "unconnected"
    /\ UNCHANGED <<peerVars, fromClient, fromPaqet, toClient, toSocks, atClient, atPaqet,
                   handshakeVars, gone, ending>>

(* onClientDisconnected(): the client left, or its socket is flushed and   *)
(* closed.  close() lets a socket with unflushed data wait.                *)
ClientDisconnected ==
    /\ ~gone
    /\ \/ client = "open" /\ clientLeft /\ fromClient = <<>>
       \/ client = "closing" /\ (clientLeft \/ toClient = <<>>)
    /\ client' = "closed"
    /\ socks' = IF socks \in {"connected", "closing"} /\ toSocks # <<>>
                THEN "closing" ELSE "unconnected"
    /\ Finished
    /\ UNCHANGED <<peerVars, fromClient, fromPaqet, toClient, toSocks, atClient, atPaqet,
                   handshakeVars, gone>>

(* paqet closes: RemoteHostClosedError comes first, onSocksError(), then   *)
(* onSocksDisconnected().                                                  *)
SocksDisconnected ==
    /\ ~gone /\ socks = "connected" /\ paqetLeft /\ fromPaqet = <<>>
    /\ SendError(502)
    /\ socks' = "unconnected"
    /\ Finished
    /\ UNCHANGED <<peerVars, fromClient, fromPaqet, toSocks, atClient, atPaqet,
                   handshakeVars, gone>>

(* stopListen(), startListen(): every connection is deleted.               *)
ProxyStops ==
    /\ ~gone
    /\ ending' = "stopped"
    /\ UNCHANGED <<peerVars, fromClient, fromPaqet, toClient, toSocks, atClient, atPaqet,
                   client, socks, handshakeVars, gone>>

(* The deferred delete: a destroyed socket drops what it has not flushed.  *)
Delete ==
    /\ ~gone /\ ending # "no"
    /\ gone' = TRUE
    /\ toClient' = <<>> /\ toSocks' = <<>>
    /\ client' = "closed" /\ socks' = "unconnected"
    /\ UNCHANGED <<peerVars, fromClient, fromPaqet, atClient, atPaqet, handshakeVars, ending>>

(* A deleted object does nothing more: the next client gets its own.       *)
Over == gone /\ UNCHANGED vars

-----------------------------------------------------------------------------
Reads ==
    \/ \E n \in 1..Len(fromClient) : ClientReadyRead(n)
    \/ \E n \in 1..Len(fromPaqet) : SocksReadyRead(n)

Next ==
    \/ ClientSends \/ ClientLeaves
    \/ PaqetAnswers \/ PaqetLeaves
    \/ FlushClient \/ FlushSocks
    \/ Reads
    \/ SocksConnected \/ SocksRefused
    \/ ClientDisconnected \/ SocksDisconnected
    \/ ProxyStops \/ Delete \/ Over

Spec == Init /\ [][Next]_vars

(* The event loop handles what has happened, writable sockets are flushed, *)
(* and paqet answers or closes.                                            *)
Fairness ==
    /\ WF_vars(\E n \in 1..Len(fromClient) : ClientReadyRead(n))
    /\ WF_vars(\E n \in 1..Len(fromPaqet) : SocksReadyRead(n))
    /\ WF_vars(FlushClient) /\ WF_vars(FlushSocks)
    /\ WF_vars(SocksConnected \/ SocksRefused)
    /\ WF_vars(PaqetAnswers)
    /\ WF_vars(ClientDisconnected) /\ WF_vars(SocksDisconnected)
    /\ WF_vars(Delete)

FairSpec == Spec /\ Fairness

-----------------------------------------------------------------------------
(* Properties.                                                             *)

(* What paqet is to receive for what the client has sent.                  *)
Expected ==
    IF Len(sent) < 2 \/ sent[1].arg = None
    THEN <<>>
    ELSE <<Token("greeting", None), Token("connect", sent[1].arg)>>
           \o (IF sent[1].kind = "GET" THEN sent ELSE SubSeq(sent, 3, Len(sent)))

(* However the request of a client is cut into pieces and whenever the answers arrive, *)
(* paqet receives the handshake, the request with its body and the data,   *)
(* in the order sent, nothing twice and no gaps.                           *)
UpstreamInOrder == IsPrefix(atPaqet \o toSocks, Expected)

Opening == IF head # None /\ head.kind = "CONNECT" THEN <<Token("ok", None)>> ELSE <<>>
DataUpTo(n) == [i \in 1..n |-> Data(i)]

(* What the client receives is the answer to its CONNECT, if it sent one,  *)
(* and the target's data in order without gaps; errors only come last.     *)
ClientStreamInOrder ==
    LET all == atClient \o toClient
    IN  \E k \in 0..Len(all) :
           /\ IsPrefix(SubSeq(all, 1, k), Opening \o DataUpTo(MaxData))
           /\ \A i \in (k + 1)..Len(all) : all[i].kind = "error"

(* Nothing of the client's goes to paqet behind the handshake, and no      *)
(* CONNECT is answered with success, unless paqet granted the connection.  *)
GrantedFirst ==
    tunnel \/ Len(atPaqet \o toSocks) > 2 \/ Contains(atClient, Token("ok", None))
        => stage = "relay"

(* A complete request is answered, by the target, with success or with an  *)
(* error, or the connection ends.                                          *)
EveryClientAnswered == Contains(sent, End) ~> (atClient # <<>> \/ gone)

(* When either side has closed, the connection object goes, too.           *)
EveryConnectionEnds == (clientLeft \/ paqetLeft) ~> gone

(* What the documentation, the comments and the page say, and the code     *)
(* does not do: TLC finds a counterexample to each of these.               *)

(* The proxy only reports an error for a request without a host or when    *)
(* paqet refused, could not be reached or closed.                          *)
OnlyFailuresAreErrors ==
    Count(atClient, {"error"}) > 0 => head.arg = None \/ stage = "refused" \/ paqetLeft

(* A request is sent to the host it names.                                 *)
RequestsReachTheirHost ==
    \A i \in 3..Len(atPaqet) : atPaqet[i].kind = "GET" => atPaqet[i].arg = atPaqet[2].arg

(* In tunnel mode the proxy adds nothing of its own to the stream.         *)
TunnelOnlyForwards == tunnel => Count(atClient, {"error"}) = 0

(* A connection that ends because the target has closed has passed on all  *)
(* the target had sent.                                                    *)
AllDeliveredBeforeEnd ==
    [][gone' /\ ~gone /\ ending = "finished" /\ ~clientLeft => Count(toClient, {"data"}) = 0]_vars
=============================================================================
