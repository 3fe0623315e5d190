---------------------------- MODULE RamdiskProofs ----------------------------
(***************************************************************************)
(* The replies a client of the ramdisk's server takes are the answers to   *)
(* its requests, for any number of clients, any scripts, any number of     *)
(* passcodes and wherever connections break. On an open connection one     *)
(* request at most is under way. RpcInv says where it is: on its way to    *)
(* the server, being received, worked on, searched for, or answered; and   *)
(* that what comes back is whole messages, all but the last of them about  *)
(* the progress. Nothing is promised once a length has come in two parts:  *)
(* the client, or the server, takes what follows for something else.       *)
(***************************************************************************)
EXTENDS Ramdisk, TLAPS

Messages == {"infos", "keybag", "no result", "passcode", "record", "No handler defined for Request",
             "Progress", "invalid XML plist dictionary", "kthxbye"}

Units(messages) == [msg : messages, part : 1 .. 4]
Connection == [state : {"none", "open", "shut", "closed", "reset", "gone"},
               toServer : Seq(Units(Requests)), toClient : Seq(Units(Messages))]
Client == [pc : {"ready", "wait", "body", "lost", "gone"}, script : Seq(Requests), sent : Nat,
           got : Seq(Messages \cup {"None"}), short : BOOLEAN, cut : BOOLEAN]
Server == [pc : {"accept", "length", "body", "invalid", "dispatch", "search", "rebooted", "bye"},
           client : Clients, got : Nat, request : Requests \cup {""}, code : Nat]

TypeOK ==
    /\ conn \in [Clients -> Connection]
    /\ client \in [Clients -> Client]
    /\ server \in Server
    /\ backlog \in Seq(Clients)
    /\ passcode \in Nat \cup {-1} /\ mounted \in BOOLEAN
    /\ server.pc \in {"body", "dispatch", "search"} => server.request \in Requests

\* The server has begun a request of this client.
Busy(c) == server.client = c /\ server.pc \notin {"accept", "length"}

-----------------------------------------------------------------------------
\* What is left of a stream when units have been taken from its front.
LEMMA RestUnits ==
    ASSUME NEW S, NEW s \in Seq(S), NEW n \in Nat, n <= Len(s)
    PROVE  /\ SubSeq(s, n + 1, Len(s)) \in Seq(S)
           /\ Len(SubSeq(s, n + 1, Len(s))) = Len(s) - n
           /\ \A i \in 1 .. Len(s) - n : SubSeq(s, n + 1, Len(s))[i] = s[i + n]
<1>1. Len(s) \in Nat /\ \A i \in 1 .. Len(s) : s[i] \in S
  OBVIOUS
<1>2. CASE n = Len(s)
  <2>1. SubSeq(s, n + 1, Len(s)) = <<>>
    BY <1>1, <1>2
  <2> QED
    BY <1>1, <1>2, <2>1
<1>3. CASE n < Len(s)
  <2>1. n + 1 \in 1 .. Len(s)
    BY <1>1, <1>3
  <2> QED
    BY <1>1, <1>3, <2>1
<1> QED
  BY <1>1, <1>2, <1>3

\* The front of a stream.
LEMMA FrontUnits ==
    ASSUME NEW S, NEW s \in Seq(S), NEW k \in 0 .. Len(s)
    PROVE  SubSeq(s, 1, k) \in Seq(S)
<1>1. Len(s) \in Nat /\ \A i \in 1 .. Len(s) : s[i] \in S
  OBVIOUS
<1>2. CASE k = 0
  BY <1>2
<1>3. CASE k # 0
  BY <1>1, <1>3
<1> QED
  BY <1>2, <1>3

\* A message is four units.
LEMMA MessageUnits ==
    ASSUME NEW messages, NEW m \in messages
    PROVE  /\ Message(m) \in Seq(Units(messages)) /\ Len(Message(m)) = 4
           /\ \A i \in 1 .. 4 : Message(m)[i].msg = m /\ Message(m)[i].part = i
BY DEF Message, Units

\* What is sent to a client leaves a connection.
LEMMA SentConnection ==
    ASSUME NEW c \in Connection, NEW m \in Messages
    PROVE  Sent(c, m) \in Connection
<1>1. c.toClient \in Seq(Units(Messages)) /\ Message(m) \in Seq(Units(Messages))
  BY MessageUnits DEF Connection
<1>2. c.toClient \o Message(m) \in Seq(Units(Messages))
  BY <1>1
<1>3. CASE c.state = "open"
  <2>1. Sent(c, m) = [c EXCEPT !.toClient = c.toClient \o Message(m)]
    BY <1>3 DEF Sent
  <2> QED
    BY <1>2, <2>1 DEF Connection
<1>4. CASE c.state = "closed"
  <2>1. Sent(c, m) = [c EXCEPT !.state = "reset", !.toServer = <<>>]
    BY <1>4 DEF Sent
  <2>2. <<>> \in Seq(Units(Requests))
    OBVIOUS
  <2> QED
    BY <2>1, <2>2 DEF Connection
<1>5. CASE c.state \notin {"open", "closed"}
  <2>1. Sent(c, m) = c
    BY <1>5 DEF Sent
  <2> QED
    BY <2>1
<1> QED
  BY <1>3, <1>4, <1>5

\* The answers of the handlers, none of which is a progress message.
LEMMA Answers ==
    ASSUME NEW request \in Requests \ {"Reboot"}, NEW at \in BOOLEAN
    PROVE  Answer(request, at) \in Messages /\ Answer(request, at) # "Progress"
BY DEF Answer, Requests, Messages

-----------------------------------------------------------------------------
\* Before anything is sent.
LEMMA TypeInit == Init => TypeOK
<1>1. ASSUME Init PROVE TypeOK
  <2>1. NoServer \in Server /\ NoServer.pc = "accept"
    BY RamdiskAssumption DEF NoServer, Server
  <2>2. NoConn \in Connection
    <3>1. <<>> \in Seq(Units(Requests)) /\ <<>> \in Seq(Units(Messages))
      OBVIOUS
    <3> QED
      BY <3>1 DEF NoConn, Connection
  <2>3. NoClient \in Client
    <3>1. <<>> \in Seq(Requests) /\ <<>> \in Seq(Messages \cup {"None"})
      OBVIOUS
    <3> QED
      BY <3>1 DEF NoClient, Client
  <2>4. <<>> \in Seq(Clients)
    OBVIOUS
  <2>5. passcode \in Nat \cup {-1} /\ mounted \in BOOLEAN
    <3>1. passcode \in {-1, Codes - 1, Codes} /\ mounted = FALSE
      BY <1>1 DEF Init
    <3>2. passcode \in Nat \cup {-1}
      BY <3>1, RamdiskAssumption
    <3>3. mounted \in BOOLEAN
      BY ONLY <3>1
    <3> QED
      BY <3>2, <3>3
  <2> QED
    BY <1>1, <2>1, <2>2, <2>3, <2>5, <2>4 DEF Init, TypeOK
<1> QED
  BY <1>1

\* A reply of the server.
LEMMA TypeReply ==
    ASSUME TypeOK, NEW m \in Messages, Reply(m), UNCHANGED <<backlog, client, passcode>>, mounted' \in BOOLEAN
    PROVE  TypeOK'
<1>1. conn[server.client] \in Connection /\ server.client \in Clients
  BY DEF TypeOK, Server
<1>2. conn' \in [Clients -> Connection]
  BY <1>1, SentConnection DEF Reply, TypeOK
<1>3. server' \in Server /\ server'.pc = "length"
  BY DEF Reply, TypeOK, Server
<1> QED
  BY <1>2, <1>3 DEF TypeOK

\* Each step of the server.
LEMMA TypeServer == ASSUME TypeOK, ServerStep PROVE TypeOK'
<1> DEFINE s == server.client
<1>1. s \in Clients /\ conn[s] \in Connection /\ server \in Server
  BY DEF TypeOK, Server
<1>2. CASE Accept
  <2>1. Head(backlog) \in Clients /\ Tail(backlog) \in Seq(Clients)
    BY <1>2 DEF Accept, TypeOK
  <2>2. server' \in Server /\ server'.pc = "length"
    BY <1>2, <2>1 DEF Accept, NoServer, Server
  <2> QED
    BY <1>2, <2>1, <2>2 DEF Accept, TypeOK, booting
<1>3. CASE RecvLength
  <2>1. CASE With.toServer # <<>>
    <3>1. PICK n \in 1 .. 2 :
                /\ n = 2 => Len(With.toServer) >= 2
                /\ server' = IF n = 2 THEN [server EXCEPT !.pc = "body", !.got = 0, !.request = With.toServer[1].msg]
                                      ELSE [server EXCEPT !.pc = "bye"]
                /\ conn' = [conn EXCEPT ![server.client].toServer = SubSeq(@, n + 1, Len(@))]
                /\ client' = IF n = 2 THEN client ELSE [client EXCEPT ![server.client].short = TRUE]
      BY <1>3, <2>1 DEF RecvLength
    <3>2. conn[s].toServer \in Seq(Units(Requests)) /\ conn[s].toServer # <<>>
      BY <1>1, <2>1 DEF Connection, With
    <3>3. /\ n <= Len(conn[s].toServer) /\ conn[s].toServer[1] \in Units(Requests)
          /\ conn[s].toServer[1].msg \in Requests
      <4>1. 1 <= Len(conn[s].toServer) /\ conn[s].toServer[1] \in Units(Requests)
        BY <3>2
      <4> QED
        BY <3>1, <4>1 DEF With, Units
    <3>4. SubSeq(conn[s].toServer, n + 1, Len(conn[s].toServer)) \in Seq(Units(Requests))
      BY <3>2, <3>3, RestUnits
    <3>5. conn' \in [Clients -> Connection]
      BY <1>1, <3>1, <3>4 DEF TypeOK, Connection
    <3>6. client' \in [Clients -> Client]
      BY <1>1, <3>1 DEF TypeOK, Client
    <3>7. server' \in Server /\ ((server'.pc = "body" /\ server'.request \in Requests) \/ server'.pc = "bye")
      BY <1>1, <3>1, <3>3 DEF Server, With
    <3> QED
      BY <1>3, <3>5, <3>6, <3>7 DEF RecvLength, TypeOK, booting
  <2>2. CASE ~(With.toServer # <<>>)
    <3>1. server' \in Server /\ server'.pc = "bye"
      BY <1>1, <1>3, <2>2 DEF RecvLength, Server
    <3> QED
      BY <1>3, <2>2, <3>1 DEF RecvLength, TypeOK, booting
  <2> QED
    BY <2>1, <2>2
<1>4. CASE RecvBody
  <2>1. UNCHANGED <<booting, backlog, client>>
    BY <1>4 DEF RecvBody
  <2>2. ASSUME NEW n \in 1 .. Least(2 - server.got, Len(With.toServer)),
               conn' = [conn EXCEPT ![server.client].toServer = SubSeq(@, n + 1, Len(@))],
               server' = [server EXCEPT !.got = @ + n, !.pc = IF server.got + n = 2 THEN "dispatch" ELSE "body"]
        PROVE  TypeOK'
    <3>1. conn[s].toServer \in Seq(Units(Requests)) /\ server.got \in Nat
      BY <1>1 DEF Connection, Server
    <3>2. conn[s].toServer \in Seq(Units(Requests)) /\ server.got \in Nat /\ Len(conn[s].toServer) \in Nat
      BY <3>1
    <3>3. n \in Nat /\ n <= Len(conn[s].toServer)
      BY <2>2, <3>2 DEF Least, With
    <3>4. SubSeq(conn[s].toServer, n + 1, Len(conn[s].toServer)) \in Seq(Units(Requests))
      BY <3>2, <3>3, RestUnits
    <3>5. conn' \in [Clients -> Connection]
      BY <1>1, <2>2, <3>4 DEF TypeOK, Connection
    <3>6. server' \in Server /\ server'.request = server.request
      <4>1. PICK pc \in {"dispatch", "body"} : server' =
               [pc |-> pc, client |-> s, got |-> server.got + n, request |-> server.request, code |-> server.code]
        BY <1>1, <2>2 DEF Server
      <4>2. server.got + n \in Nat
        BY <3>2, <3>3
      <4>3. s \in Clients /\ server.request \in Requests \cup {""} /\ server.code \in Nat
        BY <1>1 DEF Server
      <4> HIDE DEF s
      <4> QED
        BY <4>1, <4>2, <4>3 DEF Server
    <3> QED
      BY <1>4, <2>1, <3>5, <3>6 DEF RecvBody, TypeOK, booting
  <2>3. ASSUME server' = [server EXCEPT !.pc = "invalid"], UNCHANGED conn PROVE TypeOK'
    <3>1. server' \in Server /\ server'.pc = "invalid"
      BY <1>1, <2>3 DEF Server
    <3> QED
      BY <2>1, <2>3, <3>1 DEF TypeOK, booting
  <2> QED
    BY <1>4, <2>2, <2>3 DEF RecvBody
<1>5. CASE Invalid
  <2>1. "invalid XML plist dictionary" \in Messages
    BY DEF Messages
  <2> QED
    BY <1>5, <2>1, TypeReply DEF Invalid, booting, TypeOK
<1>6. CASE Dispatch
  <2>1. Reply(Answer(server.request, mounted')) /\ UNCHANGED <<backlog, client, passcode>>
    BY <1>6 DEF Dispatch
  <2>2. server.request \in Requests \ {"Reboot"} /\ mounted' \in BOOLEAN
    BY <1>6 DEF Dispatch, TypeOK, MayMount
  <2>3. Answer(server.request, mounted') \in Messages
    BY <2>2, Answers
  <2> QED
    BY <2>1, <2>2, <2>3, TypeReply
<1>7. CASE SearchStart
  <2>1. CASE passcode = -1
    <3>1. "passcode" \in Messages
      BY DEF Messages
    <3> QED
      BY <1>7, <2>1, <3>1, TypeReply DEF SearchStart, booting, TypeOK
  <2>2. CASE passcode # -1
    <3>1. server' \in Server /\ server'.request = server.request
      <4>1. server' = [pc |-> "search", client |-> s, got |-> server.got, request |-> server.request, code |-> 0]
        BY <1>1, <1>7, <2>2 DEF SearchStart, Server
      <4> QED
        BY <1>1, <4>1 DEF Server
    <3> QED
      BY <1>7, <2>2, <3>1 DEF SearchStart, TypeOK, booting
  <2> QED
    BY <2>1, <2>2
<1>8. CASE Search
  <2>1. CASE Progress /\ SendFails(With)
    <3>1. "no result" \in Messages
      BY DEF Messages
    <3> QED
      BY <1>8, <2>1, <3>1, TypeReply DEF Search, booting, TypeOK
  <2>2. CASE ~(Progress /\ SendFails(With))
    <3>1. Sent(conn[s], "Progress") \in Connection
      BY <1>1, SentConnection DEF Messages
    <3> DEFINE first == IF Progress THEN Sent(conn[s], "Progress") ELSE conn[s]
    <3>2. first \in Connection
      BY <1>1, <3>1
    <3>3. Sent(first, "passcode") \in Connection /\ Sent(first, "no result") \in Connection
      BY <3>2, SentConnection DEF Messages
    <3>4. \E new \in {first, Sent(first, "passcode"), Sent(first, "no result")} :
             conn' = [conn EXCEPT ![s] = new]
      BY <1>8, <2>2 DEF Search, TypeOK
    <3>5. conn' \in [Clients -> Connection]
      BY <1>1, <3>2, <3>3, <3>4 DEF TypeOK
    <3>6. server' \in Server /\ server'.request = server.request
      <4>1. server' \in {[server EXCEPT !.pc = "length"], [server EXCEPT !.code = server.code + 1]}
        BY <1>1, <1>8, <2>2 DEF Search, Server
      <4>2. server.code \in Nat
        BY <1>1 DEF Server
      <4>3. server.code + 1 \in Nat
        BY <4>2
      <4> QED
        BY <1>1, <4>1, <4>3 DEF Server
    <3> QED
      BY <1>8, <3>5, <3>6 DEF Search, TypeOK, booting
  <2> QED
    BY <2>1, <2>2
<1>9. CASE Reboot
  <2>1. server' \in Server /\ server'.pc = "rebooted"
    BY <1>1, <1>9 DEF Reboot, Server
  <2> QED
    BY <1>9, <2>1 DEF Reboot, TypeOK, booting
<1>10. CASE Bye
  <2>1. Sent(conn[s], "kthxbye") \in Connection
    BY <1>1, SentConnection DEF Messages
  <2>2. conn' = [conn EXCEPT ![s] =
           [Sent(conn[s], "kthxbye") EXCEPT !.state = IF With.state = "open" THEN "shut" ELSE "gone"]]
    BY <1>10 DEF Bye, TypeOK
  <2>3. conn' \in [Clients -> Connection]
    BY <1>1, <2>1, <2>2 DEF TypeOK, Connection
  <2>4. NoServer \in Server /\ NoServer.pc = "accept"
    BY RamdiskAssumption DEF NoServer, Server
  <2> QED
    BY <1>10, <2>3, <2>4 DEF Bye, TypeOK, booting
<1> QED
  BY <1>2, <1>3, <1>4, <1>5, <1>6, <1>7, <1>8, <1>9, <1>10 DEF ServerStep

\* A step of a client changes its own record and connection at most.
LEMMA TypeOwn ==
    ASSUME TypeOK, NEW c \in Clients, NEW new \in Connection, NEW now \in Client,
           conn' = [conn EXCEPT ![c] = new], client' = [client EXCEPT ![c] = now],
           UNCHANGED <<passcode, mounted, server>>, backlog' \in Seq(Clients)
    PROVE  TypeOK'
<1>1. conn' \in [Clients -> Connection] /\ client' \in [Clients -> Client]
  BY DEF TypeOK
<1> QED
  BY <1>1 DEF TypeOK

\* Taking units from what has come.
LEMMA TypeTook ==
    ASSUME TypeOK, NEW c \in Clients, NEW n \in Nat, n <= Len(conn[c].toClient), Took(c, n)
    PROVE  \E new \in Connection : conn' = [conn EXCEPT ![c] = new]
<1> DEFINE rest == SubSeq(conn[c].toClient, n + 1, Len(conn[c].toClient))
           new == [conn[c] EXCEPT !.toClient = rest]
<1>1. conn[c] \in Connection /\ conn[c].toClient \in Seq(Units(Messages))
  BY DEF TypeOK, Connection
<1>2. rest \in Seq(Units(Messages))
  BY <1>1, RestUnits
<1> HIDE DEF rest
<1>3. new \in Connection
  BY <1>1, <1>2 DEF Connection
<1>4. conn' = [conn EXCEPT ![c] = new]
  BY <1>1 DEF Took, TypeOK, rest
<1> QED
  BY <1>3, <1>4

\* Taking a reply.
LEMMA TypeGot ==
    ASSUME TypeOK, NEW c \in Clients, NEW m \in Messages \cup {"None"}
    PROVE  \E now \in Client : Got(c, m) = [client EXCEPT ![c] = now] /\ now.pc = "ready"
<1>1. client[c] \in Client
  BY DEF TypeOK
<1>2. Append(client[c].got, m) \in Seq(Messages \cup {"None"})
  <2>1. client[c].got \in Seq(Messages \cup {"None"})
    BY <1>1 DEF Client
  <2> QED
    BY <2>1
<1> DEFINE now == [client[c] EXCEPT !.pc = "ready", !.got = Append(client[c].got, m)]
<1>3. now \in Client /\ now.pc = "ready"
  BY <1>1, <1>2 DEF Client
<1>4. Got(c, m) = [client EXCEPT ![c] = now]
  BY DEF Got, TypeOK
<1> QED
  BY <1>3, <1>4

\* Each step of a client.
LEMMA TypeClient ==
    ASSUME TypeOK, NEW c \in Clients,
           Connect(c) \/ ClientStep(c) \/ Break(c) \/ Reset(c) \/ Leave(c) \/ SendReq(c)
    PROVE  TypeOK'
<1>1. conn[c] \in Connection /\ client[c] \in Client /\ backlog \in Seq(Clients)
  BY DEF TypeOK
<1>2. CASE Connect(c)
  <2>1. PICK script \in Scripts : client' = [client EXCEPT ![c].script = script]
    BY <1>2 DEF Connect
  <2>2. script \in Seq(Requests)
    BY RamdiskAssumption
  <2>3. client' = [client EXCEPT ![c] = [client[c] EXCEPT !.script = script]]
    BY <2>1 DEF TypeOK
  <2>4. [client[c] EXCEPT !.script = script] \in Client
    BY <1>1, <2>2 DEF Client
  <2>5. conn' = [conn EXCEPT ![c] = [conn[c] EXCEPT !.state = "open"]]
    BY <1>2 DEF Connect, TypeOK
  <2>6. [conn[c] EXCEPT !.state = "open"] \in Connection
    BY <1>1 DEF Connection
  <2>7. backlog' \in Seq(Clients)
    BY <1>1, <1>2 DEF Connect
  <2> QED
    BY <1>2, <2>3, <2>4, <2>5, <2>6, <2>7, TypeOwn DEF Connect, booting
<1>3. CASE SendReq(c)
  <2> DEFINE request == client[c].script[client[c].sent + 1]
             now == [client[c] EXCEPT !.pc = "wait", !.sent = client[c].sent + 1]
             new == [conn[c] EXCEPT !.toServer = conn[c].toServer \o Message(request)]
  <2>1. client' = [client EXCEPT ![c] = now]
    BY <1>3 DEF SendReq, TypeOK
  <2>2. client[c].sent \in Nat /\ client[c].script \in Seq(Requests)
    BY <1>1 DEF Client
  <2>3. client[c].sent + 1 \in Nat /\ client[c].sent + 1 \in 1 .. Len(client[c].script)
    <3>1. Len(client[c].script) \in Nat
      BY <2>2
    <3>2. client[c].sent < Len(client[c].script)
      BY <1>3 DEF SendReq
    <3>3. \A m, n \in Nat : m < n => m + 1 \in Nat /\ m + 1 \in 1 .. n
      OBVIOUS
    <3> QED
      BY <2>2, <3>1, <3>2, <3>3
  <2>4. now \in Client
    BY <1>1, <2>3 DEF Client
  <2>5. request \in Requests
    BY <2>2, <2>3
  <2>6. conn[c].toServer \o Message(request) \in Seq(Units(Requests))
    <3>1. Message(request) \in Seq(Units(Requests)) /\ conn[c].toServer \in Seq(Units(Requests))
      BY <1>1, <2>5, MessageUnits DEF Connection
    <3> QED
      BY <3>1
  <2> HIDE DEF request, now
  <2>7. new \in Connection
    BY <1>1, <2>6 DEF Connection
  <2>8. conn' = [conn EXCEPT ![c] = new] \/ conn' = [conn EXCEPT ![c] = conn[c]]
    BY <1>3 DEF SendReq, TypeOK, request
  <2>9. backlog' \in Seq(Clients) /\ UNCHANGED <<passcode, mounted, server>>
    BY <1>1, <1>3 DEF SendReq, booting
  <2> QED
    BY <1>1, <2>1, <2>4, <2>7, <2>8, <2>9, TypeOwn
<1>4. CASE RecvMsgLength(c)
  <2>1. backlog' \in Seq(Clients) /\ UNCHANGED <<passcode, mounted, server>>
    BY <1>1, <1>4 DEF RecvMsgLength, booting
  <2>2. conn[c].toClient \in Seq(Units(Messages)) /\ conn[c].toClient # <<>>
    BY <1>1, <1>4 DEF RecvMsgLength, Connection
  <2>3. Len(conn[c].toClient) \in Nat /\ 1 <= Len(conn[c].toClient)
    BY <2>2
  <2>4. CASE Len(conn[c].toClient) >= 2 /\ Took(c, 2)
             /\ client' = [client EXCEPT ![c].pc = IF conn[c].toClient[1].part = 1 THEN "body" ELSE "lost"]
    <3>1. PICK pc \in {"body", "lost"} : client' = [client EXCEPT ![c] = [client[c] EXCEPT !.pc = pc]]
      BY <2>4 DEF TypeOK
    <3>2. [client[c] EXCEPT !.pc = pc] \in Client
      BY <1>1 DEF Client
    <3>3. PICK new \in Connection : conn' = [conn EXCEPT ![c] = new]
      BY <2>4, TypeTook
    <3> QED
      BY <2>1, <3>1, <3>2, <3>3, TypeOwn
  <2>5. CASE Took(c, 1) /\ client' = [Got(c, "None") EXCEPT ![c].short = TRUE]
    <3>1. PICK now \in Client : Got(c, "None") = [client EXCEPT ![c] = now]
      BY TypeGot
    <3>2. client' = [client EXCEPT ![c] = [now EXCEPT !.short = TRUE]]
      BY <2>5, <3>1 DEF TypeOK
    <3>3. [now EXCEPT !.short = TRUE] \in Client
      BY DEF Client
    <3>4. PICK new \in Connection : conn' = [conn EXCEPT ![c] = new]
      BY <2>3, <2>5, TypeTook
    <3> QED
      BY <2>1, <3>2, <3>3, <3>4, TypeOwn
  <2> QED
    BY <1>4, <2>4, <2>5 DEF RecvMsgLength
<1>5. CASE RecvMsgBody(c)
  <2>1. backlog' \in Seq(Clients) /\ UNCHANGED <<passcode, mounted, server>> /\ Took(c, 2)
    BY <1>1, <1>5 DEF RecvMsgBody, booting
  <2>2. conn[c].toClient \in Seq(Units(Messages)) /\ 2 <= Len(conn[c].toClient)
    BY <1>1, <1>5 DEF RecvMsgBody, Connection
  <2>3. conn[c].toClient[1] \in Units(Messages)
    BY <2>2
  <2>4. PICK new \in Connection : conn' = [conn EXCEPT ![c] = new]
    BY <2>1, <2>2, TypeTook
  <2>5. CASE client' = [client EXCEPT ![c].pc = "wait"]
    <3>1. client' = [client EXCEPT ![c] = [client[c] EXCEPT !.pc = "wait"]]
      BY <2>5 DEF TypeOK
    <3>2. [client[c] EXCEPT !.pc = "wait"] \in Client
      BY <1>1 DEF Client
    <3> QED
      BY <2>1, <2>4, <3>1, <3>2, TypeOwn
  <2>6. CASE client' = Got(c, conn[c].toClient[1].msg)
    <3>1. conn[c].toClient[1].msg \in Messages \cup {"None"}
      BY <2>3 DEF Units
    <3>2. PICK now \in Client : client' = [client EXCEPT ![c] = now]
      BY <2>6, <3>1, TypeGot
    <3> QED
      BY <2>1, <2>4, <3>2, TypeOwn
  <2> QED
    BY <1>5, <2>5, <2>6 DEF RecvMsgBody
<1>6. CASE EndOfStream(c)
  <2>1. PICK now \in Client : client' = [client EXCEPT ![c] = now]
    BY <1>6, TypeGot DEF EndOfStream
  <2>2. conn' = [conn EXCEPT ![c] = conn[c]]
    BY <1>6 DEF EndOfStream, TypeOK
  <2>3. backlog' \in Seq(Clients) /\ UNCHANGED <<passcode, mounted, server>>
    BY <1>1, <1>6 DEF EndOfStream, booting
  <2> QED
    BY <1>1, <2>1, <2>2, <2>3, TypeOwn
<1>7. CASE \E k \in 0 .. Len(conn[c].toServer) : Closed(c, k)
  <2>1. PICK k \in 0 .. Len(conn[c].toServer) : Closed(c, k)
    BY <1>7
  <2> DEFINE front == SubSeq(conn[c].toServer, 1, k)
             new == [conn[c] EXCEPT !.state = "closed", !.toClient = <<>>, !.toServer = front]
             cut == k < Len(conn[c].toServer)
             now == [client[c] EXCEPT !.pc = "gone", !.cut = cut]
  <2>2. front \in Seq(Units(Requests)) /\ <<>> \in Seq(Units(Messages))
    <3>1. conn[c].toServer \in Seq(Units(Requests))
      BY <1>1 DEF Connection
    <3>2. front \in Seq(Units(Requests))
      BY <3>1, FrontUnits
    <3>3. <<>> \in Seq(Units(Messages))
      OBVIOUS
    <3> QED
      BY <3>2, <3>3
  <2>3. conn' = [conn EXCEPT ![c] = new]
    BY <2>1 DEF Closed, TypeOK
  <2>4. client' = [client EXCEPT ![c] = now]
    BY <2>1 DEF Closed, TypeOK
  <2>5. cut \in BOOLEAN
    OBVIOUS
  <2> HIDE DEF front, cut
  <2>6. new \in Connection
    BY <1>1, <2>2 DEF Connection
  <2>7. now \in Client
    BY <1>1, <2>5 DEF Client
  <2>8. backlog' \in Seq(Clients) /\ UNCHANGED <<passcode, mounted, server>>
    BY <1>1, <2>1 DEF Closed, booting
  <2> QED
    BY <2>3, <2>4, <2>6, <2>7, <2>8, TypeOwn
<1>8. CASE Reset(c)
  <2> DEFINE new == [conn[c] EXCEPT !.state = "reset", !.toClient = <<>>, !.toServer = <<>>]
             now == [client[c] EXCEPT !.pc = "gone"]
  <2>1. <<>> \in Seq(Units(Requests)) /\ <<>> \in Seq(Units(Messages))
    OBVIOUS
  <2>2. conn' = [conn EXCEPT ![c] = new] /\ client' = [client EXCEPT ![c] = now]
    BY <1>8 DEF Reset, TypeOK
  <2>3. new \in Connection /\ now \in Client
    BY <1>1, <2>1 DEF Connection, Client
  <2>4. backlog' \in Seq(Clients) /\ UNCHANGED <<passcode, mounted, server>>
    BY <1>1, <1>8 DEF Reset, booting
  <2> QED
    BY <2>2, <2>3, <2>4, TypeOwn
<1>9. CASE Break(c) \/ Leave(c)
  <2>1. Len(conn[c].toServer) \in Nat
    <3>1. conn[c].toServer \in Seq(Units(Requests))
      BY <1>1 DEF Connection
    <3> QED
      BY <3>1
  <2>2. Len(conn[c].toServer) \in 0 .. Len(conn[c].toServer)
    BY <2>1
  <2> QED
    BY <1>7, <1>9, <2>2 DEF Break, Leave
<1> QED
  BY <1>2, <1>3, <1>4, <1>5, <1>6, <1>8, <1>9 DEF ClientStep

\* Every step.
LEMMA TypeNext == ASSUME TypeOK, [Next]_vars PROVE TypeOK'
<1>1. CASE Boot
  BY <1>1 DEF Boot, TypeOK
<1>2. CASE UNCHANGED vars
  BY <1>2 DEF vars, TypeOK
<1> QED
  BY <1>1, <1>2, TypeServer, TypeClient DEF Next

-----------------------------------------------------------------------------
\* A stream of whole messages, of which the client has taken so many units of
\* the first: all but the last are progress messages.
Framed(s, taken) ==
    /\ (Len(s) + taken) % 4 = 0
    /\ \A i \in DOMAIN s : s[i].part = ((i + taken - 1) % 4) + 1
    /\ \A i \in DOMAIN s : i <= Len(s) - 4 => s[i].msg = "Progress"
AllProgress(s) == \A i \in DOMAIN s : s[i].msg = "Progress"
EndsWith(s, m) == s # <<>> /\ \A i \in DOMAIN s : i > Len(s) - 4 => s[i].msg = m

Taken(c) == IF client[c].pc = "body" THEN 2 ELSE 0

\* This is what the client may be told to its k-th request.
ReplyOK(c, k, m) ==
    \E at \in BOOLEAN :
        /\ m = Answer(client[c].script[k], at)
        /\ (\E j \in 1 .. k - 1 : client[c].got[j] = "keybag") => at

GotOK(c) ==
    \A k \in DOMAIN client[c].got :
        ReplyOK(c, k, client[c].got[k]) /\ (client[c].got[k] = "keybag" => mounted)

\* The stages of a request: it is under way, the server receives it, works on
\* it, searches for the passcode, has replied.
Request(c) == client[c].script[client[c].sent]
Asked(c) ==
    /\ client[c].pc = "wait" /\ ~Busy(c) /\ conn[c].toClient = <<>>
    /\ Len(conn[c].toServer) = 4 /\ conn[c].toServer[1].msg = Request(c)
Heard(c) ==
    /\ client[c].pc = "wait" /\ server.client = c /\ server.pc = "body" /\ server.request = Request(c)
    /\ conn[c].toClient = <<>> /\ server.got \in {0, 1} /\ Len(conn[c].toServer) = 2 - server.got
Worked(c) ==
    /\ client[c].pc = "wait" /\ server.client = c /\ server.pc \in {"dispatch", "rebooted"}
    /\ server.request = Request(c) /\ conn[c].toServer = <<>> /\ conn[c].toClient = <<>>
Searched(c) ==
    /\ server.client = c /\ server.pc = "search" /\ server.request = Request(c)
    /\ conn[c].toServer = <<>> /\ AllProgress(conn[c].toClient)
Replied(c) ==
    /\ ~Busy(c) /\ conn[c].toServer = <<>>
    /\ \E m \in Messages : /\ EndsWith(conn[c].toClient, m) /\ ReplyOK(c, client[c].sent, m)
                           /\ m # "Progress" /\ (m = "keybag" => mounted)

Quiet(c) ==
    /\ client[c].pc = "ready" /\ client[c].sent = Len(client[c].got)
    /\ conn[c].toServer = <<>> /\ conn[c].toClient = <<>> /\ ~Busy(c)
Waits(c) ==
    /\ client[c].pc \in {"wait", "body"} /\ client[c].sent = Len(client[c].got) + 1
    /\ client[c].sent <= Len(client[c].script) /\ Framed(conn[c].toClient, Taken(c))
    /\ Asked(c) \/ Heard(c) \/ Worked(c) \/ Searched(c) \/ Replied(c)

ClientOK(c) ==
    ~client[c].short =>
        /\ GotOK(c)
        /\ conn[c].state # "shut"
        /\ conn[c].state = "none" =>
              /\ client[c].pc = "ready" /\ client[c].sent = 0 /\ client[c].got = <<>>
              /\ conn[c].toServer = <<>> /\ conn[c].toClient = <<>>
        /\ conn[c].state \in {"closed", "reset", "gone"} => client[c].pc = "gone"
        /\ conn[c].state = "open" => Quiet(c) \/ Waits(c)

\* Whom the server serves, and what it knows of the passcode when it searches.
ServingOK ==
    LET state == conn[server.client].state
    IN  /\ server.pc # "accept" => state # "none"
        /\ server.pc = "invalid" => state = "reset"
        /\ server.pc = "bye" => client[server.client].short \/ state \in {"closed", "reset"}
        /\ server.pc = "search" => /\ server.request = "BruteforceSystemKeyBag"
                                   /\ server.code < Codes /\ server.code <= passcode
BacklogOK == \A i \in DOMAIN backlog : conn[backlog[i]].state # "none"

RpcInv == TypeOK /\ ServingOK /\ BacklogOK /\ \A c \in Clients : ClientOK(c)

-----------------------------------------------------------------------------
Rest(s) == SubSeq(s, 2 + 1, Len(s))

\* Taking half a message off the front.
LEMMA FramedTook ==
    ASSUME NEW S, NEW s \in Seq(S), NEW d \in {0, 2}, Framed(s, d), Len(s) >= 2
    PROVE  /\ Framed(Rest(s), 2 - d)
           /\ AllProgress(s) => AllProgress(Rest(s))
           /\ \A m : EndsWith(s, m) /\ Rest(s) # <<>> => EndsWith(Rest(s), m)
           /\ d = 0 => s[1].part = 1 /\ Rest(s) # <<>>
           /\ d = 2 /\ Rest(s) # <<>> => s[1].msg = "Progress"
           /\ d = 2 /\ Rest(s) = <<>> => \A m : EndsWith(s, m) => s[1].msg = m
<1> SUFFICES ASSUME NEW t, t = SubSeq(s, 2 + 1, Len(s)), NEW e, e = 2 - d
             PROVE  /\ Framed(t, e)
                    /\ AllProgress(s) => AllProgress(t)
                    /\ \A m : EndsWith(s, m) /\ t # <<>> => EndsWith(t, m)
                    /\ d = 0 => s[1].part = 1 /\ t # <<>>
                    /\ d = 2 /\ t # <<>> => s[1].msg = "Progress"
                    /\ d = 2 /\ t = <<>> => \A m : EndsWith(s, m) => s[1].msg = m
  BY Zenon DEF Rest
<1>1. /\ t \in Seq(S) /\ Len(s) \in Nat /\ Len(t) = Len(s) - 2
      /\ \A i \in 1 .. Len(s) - 2 : t[i] = s[i + 2]
      /\ DOMAIN t = 1 .. Len(s) - 2 /\ DOMAIN s = 1 .. Len(s)
  <2>1. 2 \in Nat /\ 2 <= Len(s) /\ Len(s) \in Nat
    OBVIOUS
  <2>2. t \in Seq(S) /\ Len(t) = Len(s) - 2 /\ \A i \in 1 .. Len(s) - 2 : t[i] = s[i + 2]
    BY <2>1, RestUnits
  <2> QED
    BY <2>1, <2>2
<1>2. e \in {0, 2} /\ e = 2 - d
  OBVIOUS
<1>3. (Len(s) + d) % 4 = 0
  BY DEF Framed
<1>4. (Len(t) + e) % 4 = 0
  <2>1. CASE d = 0
    <3>1. (Len(s) + 0) % 4 = 0 /\ e = 2
      BY <1>3, <2>1
    <3>2. \A n \in Nat : n >= 2 /\ (n + 0) % 4 = 0 => ((n - 2) + 2) % 4 = 0
      OBVIOUS
    <3>3. ((Len(s) - 2) + 2) % 4 = 0
      BY <1>1, <3>1, <3>2
    <3> QED
      BY <1>1, <3>1, <3>3
  <2>2. CASE d = 2
    <3>1. (Len(s) + 2) % 4 = 0
      BY <1>3, <2>2
    <3>2. \A n \in Nat : n >= 2 /\ (n + 2) % 4 = 0 => ((n - 2) + 0) % 4 = 0
      OBVIOUS
    <3>3. ((Len(s) - 2) + 0) % 4 = 0
      BY <1>1, <3>1, <3>2
    <3>4. e = 0
      BY <2>2
    <3> QED
      BY <1>1, <3>3, <3>4
  <2> QED
    BY <2>1, <2>2
<1>5. \A i \in DOMAIN t : t[i].part = ((i + e - 1) % 4) + 1
  <2>1. \A i \in DOMAIN t : i + 2 \in DOMAIN s /\ t[i] = s[i + 2] /\ i \in Nat
    BY <1>1
  <2>2. \A i \in DOMAIN t : t[i].part = (((i + 2) + d - 1) % 4) + 1
    BY <2>1 DEF Framed
  <2>3. \A i \in Nat : i >= 1 => ((i + 2) + 2 - 1) % 4 = (i + 0 - 1) % 4
    OBVIOUS
  <2>4. \A i \in Nat : (i + 2) + 0 - 1 = i + 2 - 1
    OBVIOUS
  <2>5. CASE d = 0
    BY <2>1, <2>2, <2>4, <2>5
  <2>6. CASE d = 2
    <3>1. \A i \in DOMAIN t : i \in Nat /\ i >= 1
      BY <1>1
    <3> QED
      BY <2>2, <2>3, <2>6, <3>1
  <2> QED
    BY <2>5, <2>6
<1>6. \A i \in DOMAIN t : i <= Len(t) - 4 => t[i].msg = "Progress"
  <2>1. \A i \in DOMAIN t : i + 2 \in DOMAIN s /\ t[i] = s[i + 2]
    BY <1>1
  <2>2. \A i \in DOMAIN t : i <= Len(t) - 4 => i + 2 <= Len(s) - 4
    BY <1>1
  <2> QED
    BY <2>1, <2>2 DEF Framed
<1>7. AllProgress(s) => AllProgress(t)
  BY <1>1 DEF AllProgress
<1>8. ASSUME NEW m, EndsWith(s, m), t # <<>> PROVE EndsWith(t, m)
  <2>1. \A i \in DOMAIN t : i + 2 \in DOMAIN s /\ t[i] = s[i + 2] /\ (i > Len(t) - 4 => i + 2 > Len(s) - 4)
    BY <1>1
  <2> QED
    BY <1>8, <2>1 DEF EndsWith
<1>9. d = 0 => s[1].part = 1 /\ t # <<>>
  <2>1. SUFFICES ASSUME d = 0 PROVE s[1].part = 1 /\ t # <<>>
    OBVIOUS
  <2>2. (Len(s) + 0) % 4 = 0
    BY <1>3, <2>1
  <2>3. \A n \in Nat : n >= 2 /\ (n + 0) % 4 = 0 => n >= 4
    OBVIOUS
  <2>4. Len(s) >= 4 /\ 1 \in DOMAIN s
    BY <1>1, <2>2, <2>3
  <2>5. s[1].part = ((1 + 0 - 1) % 4) + 1
    BY <2>1, <2>4 DEF Framed
  <2>6. ((1 + 0 - 1) % 4) + 1 = 1
    OBVIOUS
  <2>7. Len(t) # 0
    BY <1>1, <2>4
  <2>8. t # <<>>
    BY <2>7
  <2>9. s[1].part = 1
    BY <2>5, <2>6
  <2> QED
    BY <2>8, <2>9
<1>10. ASSUME d = 2, t # <<>> PROVE s[1].msg = "Progress"
  <2>1. Len(s) > 2
    BY <1>1, <1>10
  <2>2. Len(s) >= 6
    <3>1. \A n \in Nat : n > 2 /\ (n + 2) % 4 = 0 => n >= 6
      OBVIOUS
    <3> QED
      BY <1>1, <1>3, <1>10, <2>1, <3>1
  <2> QED
    BY <1>1, <2>2 DEF Framed
<1>11. ASSUME d = 2, t = <<>>, NEW m, EndsWith(s, m) PROVE s[1].msg = m
  <2>1. Len(t) = 0
    BY <1>1, <1>11
  <2>2. Len(s) = 2
    BY <1>1, <2>1
  <2>3. 1 \in DOMAIN s /\ 1 > Len(s) - 4
    BY <1>1, <2>2
  <2> QED
    BY <1>11, <2>3 DEF EndsWith
<1>12. Framed(t, e)
  BY <1>4, <1>5, <1>6 DEF Framed
<1> QED
  BY <1>7, <1>8, <1>9, <1>10, <1>11, <1>12

\* Behind the first half of a message there is more.
LEMMA TookLength ==
    ASSUME NEW S, NEW s \in Seq(S), Framed(s, 0), Len(s) >= 2
    PROVE  /\ Framed(Rest(s), 2) /\ s[1].part = 1 /\ Rest(s) # <<>>
           /\ AllProgress(s) => AllProgress(Rest(s))
           /\ \A m : EndsWith(s, m) => EndsWith(Rest(s), m)
<1>1. PICK d \in {0, 2} : d = 0
  OBVIOUS
<1>2. Framed(s, d) /\ 2 - d = 2
  BY <1>1
<1> QED
  BY <1>1, <1>2, FramedTook

\* After the second there is the next progress message, or nothing.
LEMMA TookBody ==
    ASSUME NEW S, NEW s \in Seq(S), Framed(s, 2), Len(s) >= 2
    PROVE  /\ Framed(Rest(s), 0)
           /\ AllProgress(s) => AllProgress(Rest(s))
           /\ \A m : EndsWith(s, m) /\ Rest(s) # <<>> => EndsWith(Rest(s), m)
           /\ Rest(s) # <<>> => s[1].msg = "Progress"
           /\ Rest(s) = <<>> => \A m : EndsWith(s, m) => s[1].msg = m
<1>1. PICK d \in {0, 2} : d = 2
  OBVIOUS
<1>2. Framed(s, d) /\ 2 - d = 0
  BY <1>1
<1> QED
  BY <1>1, <1>2, FramedTook

\* Putting a message behind progress messages.
LEMMA FramedSent ==
    ASSUME NEW S, NEW s \in Seq(S), NEW d \in {0, 2}, Framed(s, d), AllProgress(s),
           NEW m, NEW t, t = s \o Message(m)
    PROVE  Framed(t, d) /\ EndsWith(t, m) /\ (m = "Progress" => AllProgress(t))
<1>1. /\ Len(s) \in Nat /\ Len(t) = Len(s) + 4 /\ DOMAIN s = 1 .. Len(s) /\ DOMAIN t = 1 .. Len(s) + 4
      /\ \A i \in 1 .. Len(s) : t[i] = s[i]
      /\ \A i \in Len(s) + 1 .. Len(s) + 4 : t[i] = [msg |-> m, part |-> i - Len(s)]
  <2>1. Message(m) \in Seq(Units({m})) /\ Len(Message(m)) = 4
    BY MessageUnits
  <2>2. \A i \in 1 .. 4 : Message(m)[i] = [msg |-> m, part |-> i]
    BY DEF Message
  <2>3. /\ Len(s) \in Nat /\ DOMAIN s = 1 .. Len(s)
        /\ Len(t) = Len(s) + Len(Message(m)) /\ DOMAIN t = 1 .. Len(s) + Len(Message(m))
        /\ \A i \in 1 .. Len(s) : t[i] = s[i]
        /\ \A i \in Len(s) + 1 .. Len(s) + Len(Message(m)) : t[i] = Message(m)[i - Len(s)]
    <3> DEFINE u == Message(m)
    <3>1. u \in Seq(Units({m})) /\ t = s \o u
      BY <2>1
    <3> HIDE DEF u
    <3>2. /\ Len(s) \in Nat /\ DOMAIN s = 1 .. Len(s) /\ Len(u) \in Nat
          /\ Len(t) = Len(s) + Len(u) /\ DOMAIN t = 1 .. Len(s) + Len(u)
      BY <3>1
    <3>3. \A i \in 1 .. Len(s) : t[i] = s[i]
      BY <3>1
    <3>4. \A i \in Len(s) + 1 .. Len(s) + Len(u) : t[i] = u[i - Len(s)]
      BY <3>1
    <3> QED
      BY <3>2, <3>3, <3>4 DEF u
  <2>4. \A i \in Len(s) + 1 .. Len(s) + 4 : i - Len(s) \in 1 .. 4
    BY <2>3
  <2> QED
    BY <2>1, <2>2, <2>3, <2>4
<1>2. (Len(s) + d) % 4 = 0 /\ \A i \in DOMAIN s : s[i].part = ((i + d - 1) % 4) + 1
  BY DEF Framed
<1>3. (Len(t) + d) % 4 = 0
  <2>1. \A n, x \in Nat : (n + x) % 4 = 0 => ((n + 4) + x) % 4 = 0
    OBVIOUS
  <2> QED
    BY <1>1, <1>2, <2>1
<1>4. \A i \in DOMAIN t : i \in 1 .. Len(s) \/ i \in Len(s) + 1 .. Len(s) + 4
  BY <1>1
<1>5. \A i \in Len(s) + 1 .. Len(s) + 4 : i - Len(s) = ((i + d - 1) % 4) + 1
  <2>1. \A y \in Nat : \A k \in 0 .. 3 : y % 4 = 0 => (y + k) % 4 = k
    OBVIOUS
  <2>2. \A n, x \in Nat : \A i \in n + 1 .. n + 4 :
           i - n - 1 \in 0 .. 3 /\ n + x \in Nat /\ (n + x) + (i - n - 1) = i + x - 1 /\ (i - n - 1) + 1 = i - n
    OBVIOUS
  <2>3. \A i \in Len(s) + 1 .. Len(s) + 4 : (i + d - 1) % 4 = i - Len(s) - 1
    <3> TAKE i \in Len(s) + 1 .. Len(s) + 4
    <3>1. /\ i - Len(s) - 1 \in 0 .. 3 /\ Len(s) + d \in Nat
          /\ (Len(s) + d) + (i - Len(s) - 1) = i + d - 1
      BY <1>1, <2>2
    <3>2. ((Len(s) + d) + (i - Len(s) - 1)) % 4 = i - Len(s) - 1
      BY <1>2, <2>1, <3>1
    <3> QED
      BY <3>1, <3>2
  <2> QED
    BY <1>1, <2>2, <2>3
<1>6. \A i \in DOMAIN t : t[i].part = ((i + d - 1) % 4) + 1
  <2>1. \A i \in 1 .. Len(s) : t[i].part = ((i + d - 1) % 4) + 1
    BY <1>1, <1>2
  <2>2. \A i \in Len(s) + 1 .. Len(s) + 4 : t[i].part = ((i + d - 1) % 4) + 1
    <3>1. \A i \in Len(s) + 1 .. Len(s) + 4 : t[i].part = i - Len(s)
      <4> TAKE i \in Len(s) + 1 .. Len(s) + 4
      <4>1. t[i] = [msg |-> m, part |-> i - Len(s)]
        BY <1>1
      <4> QED
        BY <4>1
    <3> QED
      BY <1>5, <3>1
  <2> QED
    BY <1>4, <2>1, <2>2
<1>7. \A i \in DOMAIN t : i <= Len(t) - 4 => t[i].msg = "Progress"
  BY <1>1 DEF AllProgress
<1>8. \A i \in DOMAIN t : i > Len(t) - 4 => t[i].msg = m
  <2>1. SUFFICES ASSUME NEW i \in DOMAIN t, i > Len(t) - 4 PROVE t[i].msg = m
    OBVIOUS
  <2>2. i \in Len(s) + 1 .. Len(s) + 4
    BY <1>1, <2>1
  <2>3. t[i] = [msg |-> m, part |-> i - Len(s)]
    BY <1>1, <2>2
  <2> QED
    BY <2>3
<1>9. t # <<>>
  <2>1. Len(t) # 0
    BY <1>1
  <2> QED
    BY <2>1
<1>10. m = "Progress" => AllProgress(t)
  <2>1. \A i \in Len(s) + 1 .. Len(s) + 4 : t[i].msg = m
    <3> TAKE i \in Len(s) + 1 .. Len(s) + 4
    <3>1. t[i] = [msg |-> m, part |-> i - Len(s)]
      BY <1>1
    <3> QED
      BY <3>1
  <2> QED
    BY <1>1, <1>4, <2>1 DEF AllProgress
<1> QED
  BY <1>3, <1>6, <1>7, <1>8, <1>9, <1>10 DEF Framed, EndsWith

-----------------------------------------------------------------------------
\* What is answered depends on how the device was started and on its passcode.
LEMMA AnswerStays ==
    ASSUME UNCHANGED <<bootargs, passcode>>
    PROVE  \A request, at : Answer(request, at)' = Answer(request, at)
BY DEF Answer

\* Replies that were right stay so.
LEMMA GotStays ==
    ASSUME UNCHANGED <<bootargs, passcode>>, mounted => mounted', NEW c,
           client'[c].got = client[c].got, client'[c].script = client[c].script
    PROVE  /\ GotOK(c) => GotOK(c)'
           /\ \A k, m : ReplyOK(c, k, m)' <=> ReplyOK(c, k, m)
<1>1. \A k, m : ReplyOK(c, k, m)' <=> ReplyOK(c, k, m)
  BY AnswerStays DEF ReplyOK
<1> QED
  BY <1>1 DEF GotOK

\* A client that has no part in a step.
LEMMA OtherClient ==
    ASSUME UNCHANGED <<bootargs, passcode>>, mounted => mounted', NEW c, ClientOK(c),
           conn'[c] = conn[c], client'[c] = client[c],
           UNCHANGED server \/ (~Busy(c) /\ ~Busy(c)')
    PROVE  ClientOK(c)'
<1>1. (GotOK(c) => GotOK(c)') /\ \A k, m : ReplyOK(c, k, m)' <=> ReplyOK(c, k, m)
  BY GotStays
<1>2. ASSUME Replied(c) PROVE Replied(c)'
  <2>1. ~Busy(c)'
    BY <1>2 DEF Replied, Busy
  <2> QED
    BY <1>1, <1>2, <2>1 DEF Replied
<1>3. Quiet(c) => Quiet(c)'
  BY DEF Quiet, Busy
<1>4. Asked(c) => Asked(c)'
  BY DEF Asked, Busy, Request
<1>5. Heard(c) => Heard(c)'
  BY DEF Heard, Busy, Request
<1>6. Worked(c) => Worked(c)'
  BY DEF Worked, Busy, Request
<1>7. Searched(c) => Searched(c)'
  BY DEF Searched, Busy, Request
<1>8. Waits(c) => Waits(c)'
  BY <1>2, <1>4, <1>5, <1>6, <1>7 DEF Waits, Taken
<1> QED
  BY <1>1, <1>3, <1>8 DEF ClientOK

\* A client that has gone.
LEMMA GoneClient ==
    ASSUME UNCHANGED <<bootargs, passcode>>, mounted => mounted', NEW c, ClientOK(c),
           conn[c].state \in {"closed", "reset", "gone"}, conn'[c].state \in {"closed", "reset", "gone"},
           client'[c] = client[c]
    PROVE  ClientOK(c)'
BY GotStays DEF ClientOK

\* Each step of the server concerns one client.
LEMMA ServerFrame ==
    ASSUME RpcInv, NEW s \in Clients, s = server.client, NEW new, NEW now,
           conn' = [conn EXCEPT ![s] = new], client' = [client EXCEPT ![s] = now],
           UNCHANGED <<backlog, bootargs, passcode>>, mounted => mounted',
           server'.client = s \/ server'.pc \in {"accept", "length"},
           new.state # "none", TypeOK', ServingOK', ClientOK(s)'
    PROVE  RpcInv'
<1>1. /\ conn \in [Clients -> Connection] /\ client \in [Clients -> Client] /\ backlog \in Seq(Clients)
  BY DEF RpcInv, TypeOK
<1>2. conn'[s] = new /\ \A c \in Clients \ {s} : conn'[c] = conn[c] /\ client'[c] = client[c]
  BY <1>1
<1>3. \A c \in Clients : ClientOK(c)'
  <2>1. SUFFICES ASSUME NEW c \in Clients \ {s} PROVE ClientOK(c)'
    OBVIOUS
  <2>2. ~Busy(c) /\ ~Busy(c)'
    BY DEF Busy
  <2>3. ClientOK(c)
    BY DEF RpcInv
  <2> QED
    BY <1>2, <2>2, <2>3, OtherClient
<1>4. BacklogOK'
  <2>1. \A i \in DOMAIN backlog : backlog[i] \in Clients
    BY <1>1
  <2> QED
    BY <1>2, <2>1 DEF RpcInv, BacklogOK
<1> QED
  BY <1>3, <1>4 DEF RpcInv

\* The server turns to the next client that waits.
LEMMA AcceptOK == ASSUME RpcInv, Accept PROVE RpcInv'
<1>1. /\ server.pc = "accept" /\ backlog # <<>> /\ backlog' = Tail(backlog)
      /\ server' = [NoServer EXCEPT !.pc = "length", !.client = Head(backlog)]
      /\ UNCHANGED <<bootargs, passcode, mounted, conn, client>>
  BY DEF Accept, booting
<1>2. TypeOK' /\ backlog \in Seq(Clients)
  BY TypeServer DEF RpcInv, ServerStep, TypeOK
<1>3. server'.pc = "length" /\ server'.client = backlog[1]
  BY <1>1, <1>2 DEF NoServer
<1>4. 1 \in DOMAIN backlog /\ \A i \in DOMAIN backlog' : i + 1 \in DOMAIN backlog /\ backlog'[i] = backlog[i + 1]
  BY <1>1, <1>2
<1>5. ServingOK'
  BY <1>1, <1>3, <1>4 DEF RpcInv, BacklogOK, ServingOK
<1>6. BacklogOK'
  BY <1>1, <1>4 DEF RpcInv, BacklogOK
<1>7. ASSUME NEW c \in Clients PROVE ClientOK(c)'
  <2>1. ~Busy(c) /\ ~Busy(c)'
    BY <1>1, <1>3 DEF Busy
  <2>2. ClientOK(c)
    BY DEF RpcInv
  <2> QED
    BY <1>1, <2>1, <2>2, OtherClient
<1> QED
  BY <1>2, <1>5, <1>6, <1>7 DEF RpcInv

\* The length of a message comes in one piece, in two, or not at all.
LEMMA RecvLengthOK == ASSUME RpcInv, RecvLength PROVE RpcInv'
<1>1. PICK s \in Clients : s = server.client
  BY DEF RpcInv, TypeOK, Server
<1>2. /\ server \in Server /\ server.pc = "length" /\ conn \in [Clients -> Connection]
      /\ client \in [Clients -> Client] /\ conn[s] \in Connection
      /\ UNCHANGED <<backlog, bootargs, passcode, mounted>>
  BY DEF RecvLength, RpcInv, TypeOK, booting
<1>3. TypeOK' /\ ClientOK(s) /\ conn[s].state # "none"
  BY <1>1, <1>2, TypeServer DEF RpcInv, ServerStep, ServingOK
<1>4. CASE conn[s].toServer # <<>>
  <2>1. PICK n \in 1 .. 2 :
                /\ n = 2 => Len(With.toServer) >= 2
                /\ server' = IF n = 2 THEN [server EXCEPT !.pc = "body", !.got = 0, !.request = With.toServer[1].msg]
                                      ELSE [server EXCEPT !.pc = "bye"]
                /\ conn' = [conn EXCEPT ![server.client].toServer = SubSeq(@, n + 1, Len(@))]
                /\ client' = IF n = 2 THEN client ELSE [client EXCEPT ![server.client].short = TRUE]
    BY <1>1, <1>4 DEF RecvLength, With
  <2> DEFINE rest == SubSeq(conn[s].toServer, n + 1, Len(conn[s].toServer))
             new == [conn[s] EXCEPT !.toServer = rest]
  <2>2. conn' = [conn EXCEPT ![s] = new] /\ conn'[s] = new
    BY <1>1, <1>2, <2>1
  <2>3. new.state = conn[s].state /\ new.toClient = conn[s].toClient /\ new.toServer = rest
    BY <1>2 DEF Connection
  <2>4. CASE n # 2
    <3>1. client' = [client EXCEPT ![s] = [client[s] EXCEPT !.short = TRUE]]
      BY <1>1, <1>2, <2>1, <2>4
    <3>2. client'[s].short
      BY <1>2, <3>1 DEF Client
    <3>3. server'.pc = "bye" /\ server'.client = s
      BY <1>1, <1>2, <2>1, <2>4 DEF Server
    <3>4. ServingOK'
      BY <1>3, <2>2, <2>3, <3>2, <3>3 DEF ServingOK
    <3>5. ClientOK(s)'
      BY <3>2 DEF ClientOK
    <3> HIDE DEF new
    <3> QED
      BY <1>1, <1>2, <1>3, <2>2, <2>3, <3>1, <3>3, <3>4, <3>5, ServerFrame
  <2>5. CASE n = 2
    <3>1. client' = client /\ client' = [client EXCEPT ![s] = client[s]]
      BY <1>2, <2>1, <2>5
    <3>2. /\ server'.pc = "body" /\ server'.client = s /\ server'.got = 0
          /\ server'.request = conn[s].toServer[1].msg
      BY <1>1, <1>2, <2>1, <2>5 DEF Server, With
    <3>3. ServingOK'
      BY <1>3, <2>2, <2>3, <3>2 DEF ServingOK
    <3>4. Len(rest) = Len(conn[s].toServer) - 2
      <4>1. conn[s].toServer \in Seq(Units(Requests)) /\ 2 <= Len(conn[s].toServer)
        BY <1>1, <1>2, <2>1, <2>5 DEF Connection, With
      <4> QED
        BY <2>5, <4>1, RestUnits
    <3>5. ClientOK(s)'
      <4>1. SUFFICES ASSUME ~client[s].short PROVE ClientOK(s)'
        BY <3>1 DEF ClientOK
      <4>2. conn[s].state \in {"closed", "reset", "gone"} \/ conn[s].state = "open"
        BY <1>2, <1>3, <4>1 DEF ClientOK, Connection
      <4>3. CASE conn[s].state \in {"closed", "reset", "gone"}
        BY <1>2, <1>3, <2>2, <2>3, <3>1, <4>3, GoneClient
      <4>4. CASE conn[s].state = "open"
        <5>1. Asked(s) /\ Waits(s) /\ GotOK(s)
          BY <1>2, <1>3, <1>4, <4>1, <4>4 DEF ClientOK, Quiet, Waits, Heard, Worked, Searched, Replied
        <5> HIDE DEF rest, new
        <5>2. Heard(s)'
          BY <2>2, <2>3, <3>1, <3>2, <3>4, <5>1 DEF Asked, Heard, Request
        <5>3. Waits(s)'
          BY <2>2, <2>3, <3>1, <5>1, <5>2 DEF Waits, Taken
        <5>4. GotOK(s)'
          BY <1>2, <3>1, <5>1, GotStays
        <5> QED
          BY <2>2, <2>3, <4>4, <5>3, <5>4 DEF ClientOK
      <4> QED
        BY <4>2, <4>3, <4>4
    <3> HIDE DEF new
    <3> QED
      BY <1>1, <1>2, <1>3, <2>2, <2>3, <3>1, <3>2, <3>3, <3>5, ServerFrame
  <2> QED
    BY <2>4, <2>5
<1>5. CASE conn[s].toServer = <<>>
  <2>1. conn[s].state \in {"closed", "reset"} /\ server' = [server EXCEPT !.pc = "bye"] /\ UNCHANGED <<conn, client>>
    BY <1>1, <1>5 DEF RecvLength, With, Gone
  <2>2. server'.pc = "bye" /\ server'.client = s
    BY <1>1, <1>2, <2>1 DEF Server
  <2>3. ServingOK'
    BY <2>1, <2>2 DEF ServingOK
  <2>4. ClientOK(s)'
    BY <1>2, <1>3, <2>1, GoneClient
  <2>5. conn' = [conn EXCEPT ![s] = conn[s]] /\ client' = [client EXCEPT ![s] = client[s]]
    BY <1>2, <2>1
  <2> QED
    BY <1>1, <1>2, <1>3, <2>2, <2>3, <2>4, <2>5, ServerFrame
<1> QED
  BY <1>4, <1>5

\* The body of a message comes in pieces; an error makes the request invalid.
LEMMA RecvBodyOK == ASSUME RpcInv, RecvBody PROVE RpcInv'
<1>1. PICK s \in Clients : s = server.client
  BY DEF RpcInv, TypeOK, Server
<1>2. /\ server \in Server /\ server.pc = "body" /\ conn \in [Clients -> Connection]
      /\ client \in [Clients -> Client] /\ conn[s] \in Connection
      /\ UNCHANGED <<backlog, bootargs, passcode, mounted, client>>
  BY DEF RecvBody, RpcInv, TypeOK, booting
<1>3. TypeOK' /\ ClientOK(s) /\ conn[s].state # "none"
  BY <1>1, <1>2, TypeServer DEF RpcInv, ServerStep, ServingOK
<1>4. client' = [client EXCEPT ![s] = client[s]]
  BY <1>2
<1>5. ASSUME NEW n \in 1 .. Least(2 - server.got, Len(With.toServer)),
             conn' = [conn EXCEPT ![server.client].toServer = SubSeq(@, n + 1, Len(@))],
             server' = [server EXCEPT !.got = @ + n, !.pc = IF server.got + n = 2 THEN "dispatch" ELSE "body"]
      PROVE  RpcInv'
  <2> DEFINE rest == SubSeq(conn[s].toServer, n + 1, Len(conn[s].toServer))
             new == [conn[s] EXCEPT !.toServer = rest]
  <2>1. conn' = [conn EXCEPT ![s] = new] /\ conn'[s] = new
    BY <1>1, <1>2, <1>5
  <2>2. new.state = conn[s].state /\ new.toClient = conn[s].toClient /\ new.toServer = rest
    BY <1>2 DEF Connection
  <2>3. conn[s].toServer \in Seq(Units(Requests)) /\ server.got \in Nat
    BY <1>2 DEF Connection, Server
  <2>4. Len(conn[s].toServer) \in Nat
    BY <2>3
  <2>5. n \in Nat /\ n >= 1 /\ n <= Len(conn[s].toServer) /\ n <= 2 - server.got
    BY <1>1, <2>3, <2>4 DEF Least, With
  <2>6. rest \in Seq(Units(Requests)) /\ Len(rest) = Len(conn[s].toServer) - n
    BY <2>3, <2>5, RestUnits
  <2>7. /\ server'.client = s /\ server'.request = server.request /\ server'.got = server.got + n
        /\ server'.pc = IF server.got + n = 2 THEN "dispatch" ELSE "body"
    BY <1>1, <1>2, <1>5 DEF Server
  <2> HIDE DEF rest, new
  <2>8. ServingOK'
    BY <1>3, <2>1, <2>2, <2>7 DEF ServingOK
  <2>9. ClientOK(s)'
    <3>1. SUFFICES ASSUME ~client[s].short PROVE ClientOK(s)'
      BY <1>2 DEF ClientOK
    <3>2. conn[s].state \in {"closed", "reset", "gone"} \/ conn[s].state = "open"
      BY <1>2, <1>3, <3>1 DEF ClientOK, Connection
    <3>3. CASE conn[s].state \in {"closed", "reset", "gone"}
      BY <1>2, <1>3, <2>1, <2>2, <3>3, GoneClient
    <3>4. CASE conn[s].state = "open"
      <4>1. Heard(s) /\ Waits(s) /\ GotOK(s)
        BY <1>1, <1>2, <1>3, <3>1, <3>4 DEF ClientOK, Quiet, Waits, Asked, Worked, Searched, Replied, Busy
      <4>2. server.got \in {0, 1} /\ Len(rest) = (2 - server.got) - n /\ rest \in Seq(Units(Requests))
        BY <2>6, <4>1 DEF Heard
      <4>3. CASE server.got + n = 2
        <5>1. Len(rest) = 0
          BY <2>5, <4>2, <4>3
        <5>2. rest = <<>>
          BY <2>6, <5>1
        <5>3. Worked(s)'
          BY <1>2, <2>1, <2>2, <2>7, <4>1, <4>3, <5>2 DEF Heard, Worked, Request
        <5> QED
          BY <1>2, <2>1, <2>2, <3>4, <4>1, <5>3, GotStays DEF ClientOK, Waits, Taken
      <4>4. CASE server.got + n # 2
        <5>1. server.got + n \in {0, 1} /\ Len(rest) = 2 - (server.got + n)
          BY <2>5, <4>2, <4>4
        <5>2. Heard(s)'
          BY <1>2, <2>1, <2>2, <2>7, <4>1, <4>4, <5>1 DEF Heard, Request
        <5> QED
          BY <1>2, <2>1, <2>2, <3>4, <4>1, <5>2, GotStays DEF ClientOK, Waits, Taken
      <4> QED
        BY <4>3, <4>4
    <3> QED
      BY <3>2, <3>3, <3>4
  <2> QED
    BY <1>1, <1>2, <1>3, <1>4, <2>1, <2>2, <2>7, <2>8, <2>9, ServerFrame
<1>6. ASSUME With.toServer = <<>>, With.state = "reset", server' = [server EXCEPT !.pc = "invalid"], UNCHANGED conn
      PROVE  RpcInv'
  <2>1. server'.pc = "invalid" /\ server'.client = s /\ conn[s].state = "reset"
    BY <1>1, <1>2, <1>6 DEF Server, With
  <2>2. ServingOK'
    BY <1>6, <2>1 DEF ServingOK
  <2>3. ClientOK(s)'
    BY <1>2, <1>3, <1>6, <2>1, GoneClient
  <2>4. conn' = [conn EXCEPT ![s] = conn[s]]
    BY <1>2, <1>6
  <2> QED
    BY <1>1, <1>2, <1>3, <1>4, <2>1, <2>2, <2>3, <2>4, ServerFrame
<1> QED
  BY <1>5, <1>6 DEF RecvBody

\* A message on an open connection comes behind what is there; on another one
\* nothing comes.
LEMMA SentTo ==
    ASSUME NEW c \in Connection, NEW m
    PROVE  /\ c.state = "open" => /\ Sent(c, m).state = "open" /\ Sent(c, m).toServer = c.toServer
                                  /\ Sent(c, m).toClient = c.toClient \o Message(m)
           /\ c.state \in {"closed", "reset", "gone"} => Sent(c, m).state \in {"closed", "reset", "gone"}
           /\ c.state \in {"closed", "reset"} => Sent(c, m).state \in {"closed", "reset"}
           /\ c.state # "none" => Sent(c, m).state # "none"
           /\ Sent(c, m).state = c.state \/ (Sent(c, m).state = "reset" /\ c.state = "closed")
<1>1. CASE c.state = "open"
  <2>1. Sent(c, m) = [c EXCEPT !.toClient = c.toClient \o Message(m)]
    BY <1>1 DEF Sent
  <2> QED
    BY <1>1, <2>1 DEF Connection
<1>2. CASE c.state = "closed"
  <2>1. Sent(c, m) = [c EXCEPT !.state = "reset", !.toServer = <<>>]
    BY <1>2 DEF Sent
  <2> QED
    BY <1>2, <2>1 DEF Connection
<1>3. CASE c.state \notin {"open", "closed"}
  <2>1. Sent(c, m) = c
    BY <1>3 DEF Sent
  <2> QED
    BY <1>3, <2>1
<1> QED
  BY <1>1, <1>2, <1>3

\* The server replies, on a connection to which it has sent no more than
\* progress messages since the client asked.
LEMMA ReplyIsOK ==
    ASSUME RpcInv, NEW s \in Clients, s = server.client, server.pc \in {"invalid", "dispatch", "search"},
           NEW first \in Connection, NEW m \in Messages,
           conn' = [conn EXCEPT ![s] = Sent(first, m)], server' = [server EXCEPT !.pc = "length"],
           UNCHANGED <<backlog, client, bootargs, passcode>>, mounted => mounted', TypeOK',
           first.state = conn[s].state \/ (first.state = "reset" /\ conn[s].state = "closed"),
           ~client[s].short /\ conn[s].state = "open" =>
              /\ first.toServer = conn[s].toServer /\ Framed(first.toClient, Taken(s)) /\ AllProgress(first.toClient)
              /\ ReplyOK(s, client[s].sent, m) /\ (m = "keybag" => mounted') /\ m # "Progress"
    PROVE  RpcInv'
<1>1. /\ server \in Server /\ conn \in [Clients -> Connection] /\ client \in [Clients -> Client]
      /\ conn[s] \in Connection /\ ClientOK(s) /\ conn[s].state # "none"
  BY DEF RpcInv, TypeOK, ServingOK
<1>2. client' = [client EXCEPT ![s] = client[s]] /\ conn'[s] = Sent(first, m) /\ conn'[s].state # "none"
  BY <1>1, SentTo
<1>3. server'.pc = "length" /\ server'.client = s
  BY <1>1 DEF Server
<1>4. ServingOK'
  BY <1>2, <1>3 DEF ServingOK
<1>5. ClientOK(s)'
  <2>1. SUFFICES ASSUME ~client[s].short PROVE ClientOK(s)'
    BY DEF ClientOK
  <2>2. conn[s].state \in {"closed", "reset", "gone"} \/ conn[s].state = "open"
    BY <1>1, <2>1 DEF ClientOK, Connection
  <2>3. CASE conn[s].state \in {"closed", "reset", "gone"}
    BY <1>1, <1>2, <2>3, SentTo, GoneClient
  <2>4. CASE conn[s].state = "open"
    <3>1. (Worked(s) \/ Searched(s)) /\ Waits(s) /\ GotOK(s)
      <4>1. Busy(s)
        BY DEF Busy
      <4>2. ~Quiet(s) /\ ~Asked(s) /\ ~Heard(s) /\ ~Replied(s)
        BY <4>1 DEF Quiet, Asked, Heard, Replied
      <4> QED
        BY <1>1, <2>1, <2>4, <4>2 DEF ClientOK, Waits
    <3>2. first.state = "open" /\ conn[s].toServer = <<>>
      BY <2>4, <3>1 DEF Worked, Searched
    <3>3. /\ conn'[s].state = "open" /\ conn'[s].toServer = <<>>
          /\ conn'[s].toClient = first.toClient \o Message(m)
      BY <1>2, <2>1, <2>4, <3>2, SentTo
    <3>4. Taken(s) \in {0, 2} /\ Taken(s)' = Taken(s) /\ first.toClient \in Seq(Units(Messages))
      BY DEF Taken, Connection
    <3>5. Framed(conn'[s].toClient, Taken(s)) /\ EndsWith(conn'[s].toClient, m)
      BY <2>1, <2>4, <3>3, <3>4, FramedSent
    <3>6. GotOK(s)' /\ ReplyOK(s, client[s].sent, m)' /\ client'[s] = client[s]
      BY <2>1, <2>4, <3>1, GotStays
    <3>7. ~Busy(s)'
      BY <1>3 DEF Busy
    <3>8. Replied(s)'
      BY <2>1, <2>4, <3>3, <3>5, <3>6, <3>7 DEF Replied
    <3>9. Waits(s)'
      BY <3>1, <3>4, <3>5, <3>6, <3>8 DEF Waits
    <3> QED
      BY <3>3, <3>6, <3>9 DEF ClientOK
  <2> QED
    BY <2>2, <2>3, <2>4
<1> QED
  BY <1>1, <1>2, <1>3, <1>4, <1>5, ServerFrame

\* The client that the server works for waits for the answer to this request,
\* and the answer will be the right one.
LEMMA WorksForClient ==
    ASSUME RpcInv, NEW s \in Clients, s = server.client, server.pc \in {"dispatch", "search"},
           ~client[s].short, conn[s].state = "open"
    PROVE  /\ Waits(s) /\ (server.pc = "dispatch" => Worked(s)) /\ (server.pc = "search" => Searched(s))
           /\ Framed(conn[s].toClient, Taken(s)) /\ AllProgress(conn[s].toClient)
           /\ ReplyOK(s, client[s].sent, Answer(server.request, mounted))
           /\ ReplyOK(s, client[s].sent, Answer(server.request, TRUE))
<1>1. ClientOK(s) /\ client[s] \in Client
  BY DEF RpcInv, TypeOK
<1>2. Busy(s)
  BY DEF Busy
<1>3. ~Quiet(s) /\ ~Asked(s) /\ ~Heard(s) /\ ~Replied(s)
  BY <1>2 DEF Quiet, Asked, Heard, Replied
<1>4. Waits(s) /\ (Worked(s) \/ Searched(s)) /\ GotOK(s)
  BY <1>1, <1>3 DEF ClientOK, Waits
<1>5. (server.pc = "dispatch" => Worked(s)) /\ (server.pc = "search" => Searched(s))
  BY <1>4 DEF Worked, Searched
<1>6. AllProgress(conn[s].toClient)
  <2>1. CASE Worked(s)
    BY <2>1 DEF Worked, AllProgress
  <2>2. CASE Searched(s)
    BY <2>2 DEF Searched
  <2> QED
    BY <1>4, <2>1, <2>2
<1>7. server.request = Request(s)
  BY <1>4 DEF Worked, Searched
<1>8. \A j \in 1 .. client[s].sent - 1 : client[s].got[j] = "keybag" => mounted
  <2>1. client[s].got \in Seq(Messages \cup {"None"})
    BY <1>1 DEF Client
  <2>2. client[s].sent = Len(client[s].got) + 1
    BY <1>4 DEF Waits
  <2>3. \A j \in 1 .. client[s].sent - 1 : j \in DOMAIN client[s].got
    BY <2>1, <2>2
  <2> QED
    BY <1>4, <2>3 DEF GotOK
<1>9. ASSUME NEW m, NEW at \in BOOLEAN, m = Answer(server.request, at), mounted => at
      PROVE  ReplyOK(s, client[s].sent, m)
  <2>1. m = Answer(client[s].script[client[s].sent], at)
    BY <1>7, <1>9 DEF Request
  <2>2. (\E j \in 1 .. client[s].sent - 1 : client[s].got[j] = "keybag") => at
    BY <1>8, <1>9
  <2> QED
    BY <2>1, <2>2 DEF ReplyOK
<1>10. Framed(conn[s].toClient, Taken(s))
  BY <1>4 DEF Waits
<1>11. ReplyOK(s, client[s].sent, Answer(server.request, mounted))
  <2>1. mounted \in BOOLEAN
    BY DEF RpcInv, TypeOK
  <2> QED
    BY <1>9, <2>1, Zenon
<1>12. ReplyOK(s, client[s].sent, Answer(server.request, TRUE))
  <2>1. PICK at \in BOOLEAN : at = TRUE
    BY Zenon
  <2>2. ReplyOK(s, client[s].sent, Answer(server.request, at))
    BY <1>9, <2>1, Zenon
  <2> QED
    BY <2>1, <2>2, Zenon
<1> QED
  BY <1>4, <1>5, <1>6, <1>10, <1>11, <1>12

\* An invalid request is answered, to a client that has gone.
LEMMA InvalidOK == ASSUME RpcInv, Invalid PROVE RpcInv'
<1>1. PICK s \in Clients : s = server.client
  BY DEF RpcInv, TypeOK, Server
<1> DEFINE m == "invalid XML plist dictionary"
<1>2. /\ server.pc = "invalid" /\ server' = [server EXCEPT !.pc = "length"]
      /\ UNCHANGED <<backlog, bootargs, passcode, mounted, client>>
      /\ conn' = [conn EXCEPT ![s] = Sent(conn[s], m)] /\ conn[s] \in Connection
  BY <1>1 DEF Invalid, Reply, RpcInv, TypeOK, booting
<1>3. TypeOK'
  BY TypeServer DEF RpcInv, ServerStep
<1>4. conn[s].state = "reset" /\ m \in Messages
  BY <1>1, <1>2 DEF RpcInv, ServingOK, Messages
<1> HIDE DEF m
<1> QED
  BY <1>1, <1>2, <1>3, <1>4, ReplyIsOK

\* A handler is called, and its result is sent. After it has answered with the
\* keybag the data partition is mounted.
LEMMA DispatchOK == ASSUME RpcInv, Dispatch PROVE RpcInv'
<1>1. PICK s \in Clients : s = server.client
  BY DEF RpcInv, TypeOK, Server
<1> DEFINE m == Answer(server.request, mounted')
<1>2. /\ server.pc = "dispatch" /\ server' = [server EXCEPT !.pc = "length"]
      /\ UNCHANGED <<backlog, bootargs, passcode, client>> /\ conn[s] \in Connection
      /\ conn' = [conn EXCEPT ![s] = Sent(conn[s], m)]
  BY <1>1 DEF Dispatch, Reply, RpcInv, TypeOK
<1>3. mounted' \in {mounted, TRUE} /\ (mounted => mounted')
  <2>1. mounted \in BOOLEAN /\ mounted' \in {mounted, mounted \/ MayMount(server.request)}
    BY DEF Dispatch, RpcInv, TypeOK
  <2> QED
    BY <2>1 DEF MayMount
<1>4. TypeOK'
  BY TypeServer DEF RpcInv, ServerStep
<1>5. server.request \in Requests \ {"Reboot"} /\ mounted' \in BOOLEAN
  BY <1>2, <1>4 DEF Dispatch, RpcInv, TypeOK
<1>6. m \in Messages /\ m # "Progress"
  BY <1>5, Answers
<1>7. m = "keybag" => mounted'
  BY <1>5 DEF Answer, Requests
<1>8. ASSUME ~client[s].short, conn[s].state = "open"
      PROVE  /\ Framed(conn[s].toClient, Taken(s)) /\ AllProgress(conn[s].toClient)
             /\ ReplyOK(s, client[s].sent, m)
  <2>1. /\ Framed(conn[s].toClient, Taken(s)) /\ AllProgress(conn[s].toClient)
        /\ ReplyOK(s, client[s].sent, Answer(server.request, mounted))
        /\ ReplyOK(s, client[s].sent, Answer(server.request, TRUE))
    BY <1>1, <1>2, <1>8, WorksForClient
  <2>2. mounted' = mounted \/ mounted' = TRUE
    BY <1>3
  <2> QED
    BY <2>1, <2>2, Zenon
<1> HIDE DEF m
<1> QED
  BY <1>1, <1>2, <1>3, <1>4, <1>6, <1>7, <1>8, ReplyIsOK

\* The empty passcode is tried at once; otherwise the search begins.
LEMMA SearchStartOK == ASSUME RpcInv, SearchStart PROVE RpcInv'
<1>1. PICK s \in Clients : s = server.client
  BY DEF RpcInv, TypeOK, Server
<1>2. /\ server.pc = "dispatch" /\ server.request = "BruteforceSystemKeyBag"
      /\ server \in Server /\ UNCHANGED <<backlog, bootargs, passcode, mounted, client>> /\ conn[s] \in Connection
      /\ conn \in [Clients -> Connection] /\ client \in [Clients -> Client]
  BY DEF SearchStart, RpcInv, TypeOK, booting
<1>3. TypeOK' /\ ClientOK(s) /\ conn[s].state # "none"
  BY <1>1, <1>2, TypeServer DEF RpcInv, ServerStep, ServingOK
<1>4. CASE passcode = -1
  <2>1. /\ server' = [server EXCEPT !.pc = "length"]
        /\ conn' = [conn EXCEPT ![s] = Sent(conn[s], "passcode")]
    BY <1>1, <1>4 DEF SearchStart, Reply, RpcInv, TypeOK
  <2>2. -1 < Codes
    BY RamdiskAssumption
  <2>3. Answer(server.request, TRUE) = "passcode"
    BY <1>2, <1>4, <2>2 DEF Answer
  <2>4. ASSUME ~client[s].short, conn[s].state = "open"
        PROVE  /\ Framed(conn[s].toClient, Taken(s)) /\ AllProgress(conn[s].toClient)
               /\ ReplyOK(s, client[s].sent, "passcode")
    <3>1. ReplyOK(s, client[s].sent, Answer(server.request, TRUE))
      BY <1>1, <1>2, <2>4, WorksForClient
    <3>2. ReplyOK(s, client[s].sent, "passcode")
      BY <2>3, <3>1, Zenon
    <3> QED
      BY <1>1, <1>2, <2>4, <3>2, WorksForClient
  <2>5. "passcode" \in Messages /\ "passcode" # "keybag" /\ "passcode" # "Progress"
    BY DEF Messages
  <2> QED
    BY <1>1, <1>2, <1>3, <2>1, <2>4, <2>5, ReplyIsOK
<1>5. CASE passcode # -1
  <2>1. server' = [server EXCEPT !.pc = "search", !.code = 0] /\ conn' = conn
    BY <1>5 DEF SearchStart
  <2>2. server'.pc = "search" /\ server'.code = 0 /\ server'.client = s /\ server'.request = server.request
    BY <1>1, <1>2, <2>1 DEF Server
  <2>3. ServingOK'
    <3>1. 0 < Codes /\ 0 <= passcode
      BY <1>5, RamdiskAssumption DEF RpcInv, TypeOK
    <3> QED
      BY <1>1, <1>2, <1>3, <2>1, <2>2, <3>1 DEF ServingOK
  <2>4. ClientOK(s)'
    <3>1. SUFFICES ASSUME ~client[s].short PROVE ClientOK(s)'
      BY <1>2 DEF ClientOK
    <3>2. conn[s].state \in {"closed", "reset", "gone"} \/ conn[s].state = "open"
      BY <1>2, <1>3, <3>1 DEF ClientOK, Connection
    <3>3. CASE conn[s].state \in {"closed", "reset", "gone"}
      BY <1>2, <1>3, <2>1, <3>3, GoneClient
    <3>4. CASE conn[s].state = "open"
      <4>1. Waits(s) /\ Worked(s) /\ AllProgress(conn[s].toClient)
        BY <1>1, <1>2, <3>1, <3>4, WorksForClient
      <4>2. Searched(s)'
        BY <1>2, <2>1, <2>2, <4>1 DEF Worked, Searched, Request
      <4>3. GotOK(s)'
        BY <1>2, <1>3, <3>1, GotStays DEF ClientOK
      <4> QED
        BY <1>2, <2>1, <3>4, <4>1, <4>2, <4>3 DEF ClientOK, Waits, Taken
    <3> QED
      BY <3>2, <3>3, <3>4
  <2>5. conn' = [conn EXCEPT ![s] = conn[s]] /\ client' = [client EXCEPT ![s] = client[s]]
    BY <1>2, <2>1
  <2> QED
    BY <1>1, <1>2, <1>3, <2>2, <2>3, <2>4, <2>5, ServerFrame
<1> QED
  BY <1>4, <1>5

\* A passcode is tried: the search goes on, or it ends with the passcode, at the
\* last of all, or when its client has gone.
LEMMA SearchOK == ASSUME RpcInv, Search PROVE RpcInv'
<1>1. PICK s \in Clients : s = server.client
  BY DEF RpcInv, TypeOK, Server
<1> DEFINE first == IF Progress THEN Sent(conn[s], "Progress") ELSE conn[s]
<1>2. /\ server.pc = "search" /\ server.request = "BruteforceSystemKeyBag"
      /\ server \in Server /\ UNCHANGED <<backlog, bootargs, passcode, mounted, client>> /\ conn[s] \in Connection
      /\ conn \in [Clients -> Connection] /\ client \in [Clients -> Client]
  BY DEF Search, RpcInv, TypeOK, booting, ServingOK
<1>3. TypeOK' /\ ClientOK(s) /\ conn[s].state # "none"
  BY <1>1, <1>2, TypeServer DEF RpcInv, ServerStep, ServingOK
<1>4. /\ "passcode" \in Messages /\ "passcode" # "keybag" /\ "passcode" # "Progress"
      /\ "no result" \in Messages /\ "no result" # "keybag" /\ "no result" # "Progress"
      /\ "Progress" \in Messages
  BY DEF Messages
<1>5. /\ first \in Connection
      /\ first.state = conn[s].state \/ (first.state = "reset" /\ conn[s].state = "closed")
  <2>1. CASE Progress
    <3>1. first = Sent(conn[s], "Progress")
      BY <2>1
    <3>2. Sent(conn[s], "Progress") \in Connection
      BY <1>2, <1>4, SentConnection
    <3>3. \/ Sent(conn[s], "Progress").state = conn[s].state
          \/ Sent(conn[s], "Progress").state = "reset" /\ conn[s].state = "closed"
      BY <1>2, SentTo
    <3> HIDE DEF first
    <3> QED
      BY <3>1, <3>2, <3>3
  <2>2. CASE ~Progress
    BY <1>2, <2>2
  <2> QED
    BY <2>1, <2>2
<1>6. ASSUME ~client[s].short, conn[s].state = "open"
      PROVE  /\ first.state = "open" /\ first.toServer = conn[s].toServer
             /\ Framed(first.toClient, Taken(s)) /\ AllProgress(first.toClient)
  <2>1. Framed(conn[s].toClient, Taken(s)) /\ AllProgress(conn[s].toClient)
    BY <1>1, <1>2, <1>6, WorksForClient
  <2>2. CASE Progress
    <3>1. /\ first.state = "open" /\ first.toServer = conn[s].toServer
          /\ first.toClient = conn[s].toClient \o Message("Progress")
      BY <1>2, <1>6, <2>2, SentTo
    <3>2. Taken(s) \in {0, 2} /\ conn[s].toClient \in Seq(Units(Messages))
      BY <1>2 DEF Taken, Connection
    <3> HIDE DEF first
    <3> QED
      BY <2>1, <3>1, <3>2, FramedSent
  <2>3. CASE ~Progress
    BY <1>6, <2>1, <2>3
  <2> QED
    BY <2>2, <2>3
<1>7. server.code < Codes /\ server.code <= passcode /\ server.code \in Nat /\ passcode \in Int /\ Codes \in Nat
  <2>1. server.code < Codes /\ server.code <= passcode
    BY <1>2 DEF RpcInv, ServingOK
  <2>2. server.code \in Nat
    BY <1>2 DEF Server
  <2>3. passcode \in Int
    BY DEF RpcInv, TypeOK
  <2> QED
    BY <2>1, <2>2, <2>3, RamdiskAssumption
<1>8. CASE Progress /\ SendFails(conn[s])
  <2>1. /\ server' = [server EXCEPT !.pc = "length"]
        /\ conn' = [conn EXCEPT ![s] = Sent(conn[s], "no result")]
    BY <1>1, <1>2, <1>8 DEF Search, Reply, With
  <2>2. conn[s].state = "reset"
    BY <1>8 DEF SendFails
  <2> QED
    BY <1>1, <1>2, <1>3, <1>4, <2>1, <2>2, ReplyIsOK
<1>9. CASE ~(Progress /\ SendFails(conn[s])) /\ passcode = server.code
  <2>1. /\ server' = [server EXCEPT !.pc = "length"]
        /\ conn' = [conn EXCEPT ![s] = Sent(first, "passcode")]
    BY <1>1, <1>2, <1>9 DEF Search, With
  <2>2. Answer(server.request, TRUE) = "passcode"
    BY <1>2, <1>7, <1>9 DEF Answer
  <2>3. ASSUME ~client[s].short, conn[s].state = "open" PROVE ReplyOK(s, client[s].sent, "passcode")
    <3>1. ReplyOK(s, client[s].sent, Answer(server.request, TRUE))
      BY <1>1, <1>2, <2>3, WorksForClient
    <3> QED
      BY <2>2, <3>1, Zenon
  <2> HIDE DEF first
  <2> QED
    BY <1>1, <1>2, <1>3, <1>4, <1>5, <1>6, <2>1, <2>3, ReplyIsOK
<1>10. CASE ~(Progress /\ SendFails(conn[s])) /\ passcode # server.code /\ server.code + 1 = Codes
  <2>1. /\ server' = [server EXCEPT !.pc = "length"]
        /\ conn' = [conn EXCEPT ![s] = Sent(first, "no result")]
    BY <1>1, <1>2, <1>10 DEF Search, With
  <2>2. ~(passcode < Codes)
    BY <1>7, <1>10
  <2>3. Answer(server.request, TRUE) = "no result"
    BY <1>2, <2>2 DEF Answer
  <2>4. ASSUME ~client[s].short, conn[s].state = "open" PROVE ReplyOK(s, client[s].sent, "no result")
    <3>1. ReplyOK(s, client[s].sent, Answer(server.request, TRUE))
      BY <1>1, <1>2, <2>4, WorksForClient
    <3> QED
      BY <2>3, <3>1, Zenon
  <2> HIDE DEF first
  <2> QED
    BY <1>1, <1>2, <1>3, <1>4, <1>5, <1>6, <2>1, <2>4, ReplyIsOK
<1>11. CASE ~(Progress /\ SendFails(conn[s])) /\ passcode # server.code /\ server.code + 1 # Codes
  <2>1. server' = [server EXCEPT !.code = @ + 1] /\ conn' = [conn EXCEPT ![s] = first]
    BY <1>1, <1>2, <1>11 DEF Search, With
  <2> HIDE DEF first
  <2>2. conn'[s] = first /\ client' = [client EXCEPT ![s] = client[s]]
    BY <1>2, <2>1
  <2>3. /\ server'.pc = "search" /\ server'.client = s /\ server'.request = server.request
        /\ server'.code = server.code + 1
    BY <1>1, <1>2, <2>1 DEF Server
  <2>4. server.code + 1 < Codes /\ server.code + 1 <= passcode
    BY <1>7, <1>11
  <2>5. ServingOK'
    BY <1>2, <1>3, <1>5, <2>2, <2>3, <2>4 DEF ServingOK
  <2>6. ClientOK(s)'
    <3>1. SUFFICES ASSUME ~client[s].short PROVE ClientOK(s)'
      BY <1>2 DEF ClientOK
    <3>2. conn[s].state \in {"closed", "reset", "gone"} \/ conn[s].state = "open"
      BY <1>2, <1>3, <3>1 DEF ClientOK, Connection
    <3>3. CASE conn[s].state \in {"closed", "reset", "gone"}
      BY <1>2, <1>3, <1>5, <2>2, <3>3, GoneClient
    <3>4. CASE conn[s].state = "open"
      <4>1. Waits(s) /\ Searched(s)
        BY <1>1, <1>2, <3>1, <3>4, WorksForClient
      <4>2. Searched(s)'
        BY <1>2, <1>6, <2>2, <2>3, <3>1, <3>4, <4>1 DEF Searched, Request
      <4>3. GotOK(s)'
        BY <1>2, <1>3, <3>1, GotStays DEF ClientOK
      <4>4. Waits(s)'
        BY <1>2, <1>6, <2>2, <3>1, <3>4, <4>1, <4>2 DEF Waits, Taken
      <4> QED
        BY <1>6, <2>2, <3>1, <3>4, <4>3, <4>4 DEF ClientOK
    <3> QED
      BY <3>2, <3>3, <3>4
  <2>7. first.state # "none"
    BY <1>3, <1>5
  <2> QED
    BY <1>1, <1>2, <1>3, <2>1, <2>2, <2>3, <2>5, <2>6, <2>7, ServerFrame
<1> QED
  BY <1>8, <1>9, <1>10, <1>11

\* The device reboots, and nothing more is answered.
LEMMA RebootOK == ASSUME RpcInv, Reboot PROVE RpcInv'
<1>1. PICK s \in Clients : s = server.client
  BY DEF RpcInv, TypeOK, Server
<1>2. /\ server.pc = "dispatch" /\ server' = [server EXCEPT !.pc = "rebooted"] /\ server \in Server
      /\ UNCHANGED <<backlog, bootargs, passcode, mounted, client, conn>>
      /\ conn \in [Clients -> Connection] /\ client \in [Clients -> Client]
  BY DEF Reboot, RpcInv, TypeOK, booting
<1>3. TypeOK' /\ ClientOK(s) /\ conn[s].state # "none" /\ conn[s] \in Connection
  BY <1>1, <1>2, TypeServer DEF RpcInv, ServerStep, ServingOK
<1>4. server'.pc = "rebooted" /\ server'.client = s /\ server'.request = server.request
  BY <1>1, <1>2 DEF Server
<1>5. ServingOK'
  BY <1>2, <1>3, <1>4 DEF ServingOK
<1>6. ClientOK(s)'
  <2>1. SUFFICES ASSUME ~client[s].short PROVE ClientOK(s)'
    BY <1>2 DEF ClientOK
  <2>2. conn[s].state \in {"closed", "reset", "gone"} \/ conn[s].state = "open"
    BY <1>3, <2>1 DEF ClientOK, Connection
  <2>3. CASE conn[s].state \in {"closed", "reset", "gone"}
    BY <1>2, <1>3, <2>3, GoneClient
  <2>4. CASE conn[s].state = "open"
    <3>1. Waits(s) /\ Worked(s)
      BY <1>1, <1>2, <2>1, <2>4, WorksForClient
    <3>2. Worked(s)'
      BY <1>2, <1>4, <3>1 DEF Worked, Request
    <3>3. GotOK(s)'
      BY <1>2, <1>3, <2>1, GotStays DEF ClientOK
    <3> QED
      BY <1>2, <2>4, <3>1, <3>2, <3>3 DEF ClientOK, Waits, Taken
  <2> QED
    BY <2>2, <2>3, <2>4
<1>7. conn' = [conn EXCEPT ![s] = conn[s]] /\ client' = [client EXCEPT ![s] = client[s]]
  BY <1>2
<1> QED
  BY <1>1, <1>2, <1>3, <1>4, <1>5, <1>6, <1>7, ServerFrame

\* The server lets a client go: one that has gone, or one whose message came in
\* two pieces.
LEMMA ByeOK == ASSUME RpcInv, Bye PROVE RpcInv'
<1>1. PICK s \in Clients : s = server.client
  BY DEF RpcInv, TypeOK, Server
<1> DEFINE sent == Sent(conn[s], "kthxbye")
           new == [sent EXCEPT !.state = IF conn[s].state = "open" THEN "shut" ELSE "gone"]
<1>2. /\ server.pc = "bye" /\ server' = NoServer
      /\ UNCHANGED <<backlog, bootargs, passcode, mounted, client>> /\ conn[s] \in Connection
      /\ conn \in [Clients -> Connection] /\ client \in [Clients -> Client]
      /\ conn' = [conn EXCEPT ![s] = new]
  BY <1>1 DEF Bye, RpcInv, TypeOK, booting, With
<1>3. TypeOK' /\ ClientOK(s)
  BY <1>1, <1>2, TypeServer DEF RpcInv, ServerStep
<1>4. client[s].short \/ conn[s].state \in {"closed", "reset"}
  BY <1>1, <1>2 DEF RpcInv, ServingOK
<1>5. sent \in Connection
  BY <1>2, SentConnection DEF Messages
<1>6. conn'[s] = new /\ new.state = IF conn[s].state = "open" THEN "shut" ELSE "gone"
  BY <1>2, <1>5 DEF Connection
<1> HIDE DEF new
<1>7. server'.pc = "accept"
  BY <1>2 DEF NoServer
<1>8. ServingOK'
  BY <1>7 DEF ServingOK
<1>9. ClientOK(s)'
  <2>1. CASE client[s].short
    BY <1>2, <2>1 DEF ClientOK
  <2>2. CASE conn[s].state \in {"closed", "reset"}
    BY <1>2, <1>3, <1>6, <2>2, GoneClient
  <2> QED
    BY <1>4, <2>1, <2>2
<1>10. client' = [client EXCEPT ![s] = client[s]] /\ new.state # "none"
  BY <1>2, <1>6
<1> QED
  BY <1>1, <1>2, <1>3, <1>7, <1>8, <1>9, <1>10, ServerFrame

-----------------------------------------------------------------------------
\* Each step of a client concerns that client.
LEMMA ClientFrame ==
    ASSUME RpcInv, NEW c \in Clients, NEW new \in Connection, NEW now \in Client,
           conn' = [conn EXCEPT ![c] = new], client' = [client EXCEPT ![c] = now],
           UNCHANGED <<bootargs, passcode, mounted, server>>, client[c].short => now.short,
           \/ new.state = conn[c].state
           \/ conn[c].state = "none" /\ new.state = "open"
           \/ conn[c].state = "open" /\ new.state \in {"closed", "reset"},
           backlog' = backlog \/ (backlog' = Append(backlog, c) /\ new.state # "none"),
           TypeOK', ClientOK(c)'
    PROVE  RpcInv'
<1>1. /\ conn \in [Clients -> Connection] /\ client \in [Clients -> Client] /\ backlog \in Seq(Clients)
      /\ server.client \in Clients
  BY DEF RpcInv, TypeOK, Server
<1>2. /\ conn'[c] = new /\ client'[c] = now
      /\ \A d \in Clients \ {c} : conn'[d] = conn[d] /\ client'[d] = client[d]
  BY <1>1
<1>3. \A d \in Clients : ClientOK(d)'
  <2>1. SUFFICES ASSUME NEW d \in Clients \ {c} PROVE ClientOK(d)'
    OBVIOUS
  <2>2. ClientOK(d)
    BY DEF RpcInv
  <2> QED
    BY <1>2, <2>2, OtherClient
<1>4. \A d \in Clients : conn[d].state # "none" => conn'[d].state # "none"
  BY <1>2
<1>5. BacklogOK'
  <2>1. \A i \in DOMAIN backlog : backlog[i] \in Clients /\ conn'[backlog[i]].state # "none"
    BY <1>1, <1>4 DEF RpcInv, BacklogOK
  <2>2. CASE backlog' = backlog
    BY <2>1, <2>2 DEF BacklogOK
  <2>3. CASE backlog' = Append(backlog, c) /\ new.state # "none"
    <3>1. \A i \in DOMAIN backlog' : (i \in DOMAIN backlog /\ backlog'[i] = backlog[i]) \/ backlog'[i] = c
      BY <1>1, <2>3
    <3> QED
      BY <1>2, <2>1, <2>3, <3>1 DEF BacklogOK
  <2> QED
    BY <2>2, <2>3
<1>6. ServingOK'
  <2>1. CASE server.client # c
    <3>1. conn'[server.client] = conn[server.client] /\ client'[server.client] = client[server.client]
      BY <1>1, <1>2, <2>1
    <3> QED
      BY <3>1 DEF RpcInv, ServingOK
  <2>2. CASE server.client = c
    <3>1. conn'[c].state # "none" \/ conn[c].state = "none"
      BY <1>2
    <3> QED
      BY <1>2, <2>2 DEF RpcInv, ServingOK
  <2> QED
    BY <2>1, <2>2
<1> QED
  BY <1>3, <1>5, <1>6 DEF RpcInv

\* A client connects: nothing has been asked of the server.
LEMMA ConnectOK == ASSUME RpcInv, NEW c \in Clients, Connect(c) PROVE RpcInv'
<1>1. /\ TypeOK /\ conn \in [Clients -> Connection] /\ client \in [Clients -> Client]
      /\ conn[c] \in Connection /\ client[c] \in Client /\ ClientOK(c)
  BY DEF RpcInv, TypeOK
<1>2. TypeOK'
  BY <1>1, TypeClient
<1>3. PICK script \in Scripts : client' = [client EXCEPT ![c].script = script]
  BY DEF Connect
<1> DEFINE now == [client[c] EXCEPT !.script = script]
           new == [conn[c] EXCEPT !.state = "open"]
<1>4. /\ client' = [client EXCEPT ![c] = now] /\ conn' = [conn EXCEPT ![c] = new]
      /\ client'[c] = now /\ conn'[c] = new /\ new \in Connection /\ now \in Client
      /\ conn[c].state = "none" /\ backlog' = Append(backlog, c)
      /\ UNCHANGED <<bootargs, passcode, mounted, server>>
  BY <1>1, <1>2, <1>3 DEF Connect, booting, TypeOK
<1>5. /\ now.pc = client[c].pc /\ now.sent = client[c].sent /\ now.got = client[c].got /\ now.short = client[c].short
      /\ new.toServer = conn[c].toServer /\ new.toClient = conn[c].toClient /\ new.state = "open"
  BY <1>1 DEF Client, Connection
<1> HIDE DEF now, new
<1>6. ~Busy(c)'
  <2>1. ~Busy(c)
    BY <1>4 DEF RpcInv, ServingOK, Busy
  <2> QED
    BY <1>4, <2>1 DEF Busy
<1>7. ClientOK(c)'
  <2>1. SUFFICES ASSUME ~client[c].short PROVE ClientOK(c)'
    BY <1>4, <1>5 DEF ClientOK
  <2>2. /\ client[c].pc = "ready" /\ client[c].sent = 0 /\ client[c].got = <<>>
        /\ conn[c].toServer = <<>> /\ conn[c].toClient = <<>>
    BY <1>1, <1>4, <2>1 DEF ClientOK
  <2>3. GotOK(c)'
    BY <1>4, <1>5, <2>2 DEF GotOK
  <2>4. Quiet(c)'
    BY <1>4, <1>5, <1>6, <2>2 DEF Quiet
  <2> QED
    BY <1>4, <1>5, <2>3, <2>4 DEF ClientOK
<1> QED
  BY <1>1, <1>2, <1>4, <1>5, <1>7, ClientFrame

\* A client sends its next request.
LEMMA SendReqOK == ASSUME RpcInv, NEW c \in Clients, SendReq(c) PROVE RpcInv'
<1>1. /\ TypeOK /\ conn \in [Clients -> Connection] /\ client \in [Clients -> Client]
      /\ conn[c] \in Connection /\ client[c] \in Client /\ ClientOK(c)
  BY DEF RpcInv, TypeOK
<1>2. TypeOK'
  BY <1>1, TypeClient
<1> DEFINE request == client[c].script[client[c].sent + 1]
           now == [client[c] EXCEPT !.pc = "wait", !.sent = client[c].sent + 1]
           after == [conn[c] EXCEPT !.toServer = conn[c].toServer \o Message(request)]
<1>3. /\ client' = [client EXCEPT ![c] = now] /\ client'[c] = now /\ now \in Client
      /\ client[c].pc = "ready" /\ client[c].sent < Len(client[c].script)
      /\ UNCHANGED <<bootargs, passcode, mounted, server, backlog>>
  BY <1>1, <1>2 DEF SendReq, booting, TypeOK
<1>4. /\ now.pc = "wait" /\ now.sent = client[c].sent + 1 /\ now.got = client[c].got
      /\ now.short = client[c].short /\ now.script = client[c].script
  BY <1>1 DEF Client
<1>5. \/ conn' = [conn EXCEPT ![c] = after] /\ conn[c].state = "open"
      \/ conn' = [conn EXCEPT ![c] = conn[c]] /\ conn[c].state = "shut"
  BY <1>1 DEF SendReq
<1>6. after.state = conn[c].state /\ after.toClient = conn[c].toClient
      /\ after.toServer = conn[c].toServer \o Message(request)
  BY <1>1 DEF Connection
<1> HIDE DEF now, after, request
<1>7. PICK new \in Connection : /\ conn' = [conn EXCEPT ![c] = new] /\ conn'[c] = new
                                /\ new.state = conn[c].state
                                /\ new.state = "open" => new = after
  <2>1. conn' \in [Clients -> Connection]
    BY <1>2 DEF TypeOK
  <2>2. conn'[c] \in Connection
    BY <2>1
  <2> QED
    BY <1>1, <1>5, <1>6, <2>2
<1>8. ClientOK(c)'
  <2>1. SUFFICES ASSUME ~client[c].short PROVE ClientOK(c)'
    BY <1>3, <1>4 DEF ClientOK
  <2>2. conn[c].state = "open" /\ Quiet(c) /\ GotOK(c)
    BY <1>1, <1>3, <1>5, <2>1 DEF ClientOK, Waits
  <2>3. client[c].sent \in Nat /\ client[c].script \in Seq(Requests) /\ client[c].got \in Seq(Messages \cup {"None"})
    BY <1>1 DEF Client
  <2>4. Len(client[c].script) \in Nat /\ Len(client[c].got) \in Nat
    BY <2>3
  <2>5. now.sent = Len(client[c].got) + 1 /\ now.sent <= Len(client[c].script)
    BY <1>3, <1>4, <2>2, <2>3, <2>4 DEF Quiet
  <2>6. request \in Requests
    BY <1>3, <2>3, <2>4 DEF request
  <2>7. new.toServer = Message(request) /\ new.toClient = <<>>
    <3>1. Message(request) \in Seq(Units(Requests))
      BY <2>6, MessageUnits
    <3> DEFINE sent == Message(request)
    <3>2. <<>> \o sent = sent
      BY <3>1
    <3> QED
      BY <1>6, <1>7, <2>2, <3>2 DEF Quiet
  <2>8. Len(new.toServer) = 4 /\ new.toServer[1].msg = request
    <3>1. /\ Len(Message(request)) = 4
          /\ \A i \in 1 .. 4 : Message(request)[i].msg = request /\ Message(request)[i].part = i
      BY <2>6, MessageUnits
    <3>2. Message(request)[1].msg = request
      BY <3>1
    <3> QED
      BY <2>7, <3>1, <3>2
  <2>9. Asked(c)'
    <3>1. ~Busy(c)'
      BY <1>3, <2>2 DEF Quiet, Busy
    <3>2. Request(c)' = request
      BY <1>3, <1>4 DEF Request, request
    <3> QED
      BY <1>3, <1>4, <1>7, <2>7, <2>8, <3>1, <3>2 DEF Asked
  <2>10. Framed(conn'[c].toClient, Taken(c)')
    <3>1. Taken(c)' = 0
      BY <1>3, <1>4 DEF Taken
    <3>2. Len(conn'[c].toClient) = 0 /\ DOMAIN conn'[c].toClient = {}
      BY <1>7, <2>7
    <3>3. (0 + 0) % 4 = 0
      OBVIOUS
    <3> QED
      BY <3>1, <3>2, <3>3 DEF Framed
  <2>11. Waits(c)'
    BY <1>3, <1>4, <2>5, <2>9, <2>10 DEF Waits
  <2>12. GotOK(c)'
    BY <1>3, <1>4, <2>2, GotStays
  <2> QED
    BY <1>7, <2>2, <2>11, <2>12 DEF ClientOK
<1> QED
  BY <1>2, <1>3, <1>4, <1>7, <1>8, ClientFrame

\* What has come is taken from the front, nothing else of the connection.
LEMMA TookIs ==
    ASSUME TypeOK, NEW c \in Clients, NEW n \in Nat, n <= Len(conn[c].toClient), Took(c, n)
    PROVE  \E new \in Connection :
              /\ conn' = [conn EXCEPT ![c] = new] /\ conn'[c] = new
              /\ new.state = conn[c].state /\ new.toServer = conn[c].toServer
              /\ new.toClient = SubSeq(conn[c].toClient, n + 1, Len(conn[c].toClient))
<1>1. conn[c] \in Connection /\ conn \in [Clients -> Connection]
  BY DEF TypeOK
<1>2. PICK new \in Connection : conn' = [conn EXCEPT ![c] = new]
  BY TypeTook
<1>3. conn'[c] = new
  BY <1>1, <1>2
<1> DEFINE rest == SubSeq(conn[c].toClient, n + 1, Len(conn[c].toClient))
<1>4. conn'[c] = [conn[c] EXCEPT !.toClient = rest]
  BY <1>1 DEF Took
<1> HIDE DEF rest
<1>5. new.state = conn[c].state /\ new.toServer = conn[c].toServer /\ new.toClient = rest
  BY <1>1, <1>3, <1>4 DEF Connection
<1> QED
  BY <1>2, <1>3, <1>5 DEF rest

\* A reply that is right is taken.
LEMMA GotMore ==
    ASSUME UNCHANGED <<bootargs, passcode, mounted>>, NEW c \in Clients, client[c] \in Client, NEW m,
           NEW more, more = Append(client[c].got, m), client'[c].got = more, client'[c].script = client[c].script, GotOK(c),
           ReplyOK(c, Len(client[c].got) + 1, m), m = "keybag" => mounted
    PROVE  GotOK(c)' /\ Len(more) = Len(client[c].got) + 1
<1> DEFINE got == client[c].got
<1>1. got \in Seq(Messages \cup {"None"})
  BY DEF Client
<1>2. /\ Len(got) \in Nat /\ DOMAIN got = 1 .. Len(got) /\ Len(more) = Len(got) + 1
      /\ DOMAIN more = 1 .. Len(got) + 1 /\ more[Len(got) + 1] = m
      /\ \A j \in 1 .. Len(got) : more[j] = got[j]
  BY <1>1
<1>3. \A k \in 1 .. Len(got) + 1 : \A j \in 1 .. k - 1 : more[j] = got[j]
  BY <1>2
<1>4. ASSUME NEW k \in DOMAIN more PROVE ReplyOK(c, k, more[k])' /\ (more[k] = "keybag" => mounted)'
  <2>1. ReplyOK(c, k, more[k]) /\ (more[k] = "keybag" => mounted)
    <3>1. CASE k = Len(got) + 1
      BY <1>2, <3>1
    <3>2. CASE k # Len(got) + 1
      <4>1. k \in DOMAIN got /\ more[k] = got[k]
        BY <1>2, <3>2
      <4> QED
        BY <4>1 DEF GotOK
    <3> QED
      BY <3>1, <3>2
  <2>2. PICK at \in BOOLEAN :
          more[k] = Answer(client[c].script[k], at) /\ ((\E j \in 1 .. k - 1 : got[j] = "keybag") => at)
    BY <2>1 DEF ReplyOK
  <2>3. (\E j \in 1 .. k - 1 : more[j] = "keybag") => at
    BY <1>2, <1>3, <2>2
  <2>4. Answer(client[c].script[k], at)' = Answer(client[c].script[k], at)
    BY AnswerStays
  <2>5. ReplyOK(c, k, more[k])'
    BY <2>2, <2>3, <2>4 DEF ReplyOK
  <2> QED
    BY <2>1, <2>5
<1> QED
  BY <1>2, <1>4 DEF GotOK

\* Before a client's first half length: it reads while it waits on an open
\* connection, and there is something to read when the server searches or has
\* replied.
LEMMA Reads ==
    ASSUME RpcInv, NEW c \in Clients, ~client[c].short, client[c].pc \in {"wait", "body"}
    PROVE  /\ conn[c].state = "open" /\ Waits(c) /\ GotOK(c)
           /\ conn[c].toClient # <<>> => Searched(c) \/ Replied(c)
           /\ client[c].pc = "body" => Searched(c) \/ Replied(c)
<1>1. ClientOK(c) /\ conn[c] \in Connection
  BY DEF RpcInv, TypeOK
<1>2. conn[c].state = "open"
  BY <1>1 DEF ClientOK, Connection
<1>3. Waits(c) /\ GotOK(c)
  BY <1>1, <1>2 DEF ClientOK, Quiet
<1> QED
  BY <1>2, <1>3 DEF Waits, Asked, Heard, Worked

\* A client takes a length.
LEMMA RecvMsgLengthOK == ASSUME RpcInv, NEW c \in Clients, RecvMsgLength(c) PROVE RpcInv'
<1>1. /\ TypeOK /\ conn \in [Clients -> Connection] /\ client \in [Clients -> Client]
      /\ conn[c] \in Connection /\ client[c] \in Client /\ ClientOK(c)
  BY DEF RpcInv, TypeOK
<1>2. TypeOK'
  BY <1>1, TypeClient DEF ClientStep
<1>3. /\ client[c].pc = "wait" /\ conn[c].toClient # <<>>
      /\ UNCHANGED <<bootargs, passcode, mounted, server, backlog>>
  BY DEF RecvMsgLength, booting
<1>4. conn[c].toClient \in Seq(Units(Messages)) /\ Len(conn[c].toClient) \in Nat /\ 1 <= Len(conn[c].toClient)
  <2>1. conn[c].toClient \in Seq(Units(Messages))
    BY <1>1 DEF Connection
  <2> QED
    BY <1>3, <2>1
<1>5. CASE /\ Len(conn[c].toClient) >= 2 /\ Took(c, 2)
           /\ client' = [client EXCEPT ![c].pc = IF conn[c].toClient[1].part = 1 THEN "body" ELSE "lost"]
  <2> DEFINE pc == IF conn[c].toClient[1].part = 1 THEN "body" ELSE "lost"
             now == [client[c] EXCEPT !.pc = pc]
  <2>1. client' = [client EXCEPT ![c] = now]
    BY <1>1, <1>5
  <2>2. pc \in {"body", "lost"}
    OBVIOUS
  <2> HIDE DEF pc
  <2>3. /\ now \in Client /\ now.pc = pc /\ now.short = client[c].short /\ now.got = client[c].got
        /\ now.sent = client[c].sent /\ now.script = client[c].script
    BY <1>1, <2>2 DEF Client
  <2> HIDE DEF now
  <2>4. client'[c] = now
    BY <1>1, <2>1
  <2>5. PICK new \in Connection :
              /\ conn' = [conn EXCEPT ![c] = new] /\ conn'[c] = new
              /\ new.state = conn[c].state /\ new.toServer = conn[c].toServer
              /\ new.toClient = Rest(conn[c].toClient)
    BY <1>1, <1>4, <1>5, TookIs DEF Rest
  <2>6. ClientOK(c)'
    <3>1. SUFFICES ASSUME ~client[c].short PROVE ClientOK(c)'
      BY <2>3, <2>4 DEF ClientOK
    <3>2. conn[c].state = "open" /\ Waits(c) /\ GotOK(c) /\ (Searched(c) \/ Replied(c))
      BY <1>3, <3>1, Reads
    <3>3. Framed(conn[c].toClient, 0)
      BY <1>3, <3>2 DEF Waits, Taken
    <3>4. /\ Framed(new.toClient, 2)
          /\ AllProgress(conn[c].toClient) => AllProgress(new.toClient)
          /\ \A m : EndsWith(conn[c].toClient, m)  => EndsWith(new.toClient, m)
          /\ conn[c].toClient[1].part = 1 /\ new.toClient # <<>>
      BY <1>4, <1>5, <2>5, <3>3, TookLength
    <3>5. now.pc = "body"
      BY <2>3, <3>4 DEF pc
    <3>6. /\ GotOK(c)'
          /\ \A k, m : ReplyOK(c, k, m)' <=> ReplyOK(c, k, m)
      BY <1>3, <2>3, <2>4, <3>2, GotStays
    <3>7. Searched(c) => Searched(c)'
      BY <1>3, <2>3, <2>4, <2>5, <3>4 DEF Searched, Request
    <3>8. Replied(c) => Replied(c)'
      <4>1. SUFFICES ASSUME Replied(c) PROVE Replied(c)'
        OBVIOUS
      <4>2. ~Busy(c)'
        BY <1>3, <4>1 DEF Replied, Busy
      <4> QED
        BY <1>3, <2>3, <2>4, <2>5, <3>4, <3>6, <4>1, <4>2 DEF Replied
    <3>9. Waits(c)'
      BY <2>3, <2>4, <2>5, <3>2, <3>4, <3>5, <3>7, <3>8 DEF Waits, Taken
    <3> QED
      BY <2>5, <3>2, <3>6, <3>9 DEF ClientOK
  <2> QED
    BY <1>1, <1>2, <1>3, <2>1, <2>3, <2>5, <2>6, ClientFrame
<1>6. CASE Took(c, 1) /\ client' = [Got(c, "None") EXCEPT ![c].short = TRUE]
  <2>1. PICK now \in Client : Got(c, "None") = [client EXCEPT ![c] = now]
    BY <1>1, TypeGot
  <2> DEFINE short == [now EXCEPT !.short = TRUE]
  <2>2. client' = [client EXCEPT ![c] = short] /\ client'[c] = short /\ short.short /\ short \in Client
    BY <1>1, <1>6, <2>1 DEF Client
  <2>3. ClientOK(c)'
    BY <2>2 DEF ClientOK
  <2> HIDE DEF short
  <2>4. PICK new \in Connection : conn' = [conn EXCEPT ![c] = new] /\ new.state = conn[c].state
    BY <1>1, <1>4, <1>6, TookIs
  <2> QED
    BY <1>1, <1>2, <1>3, <2>2, <2>3, <2>4, ClientFrame
<1> QED
  BY <1>5, <1>6 DEF RecvMsgLength

\* A client takes a body: of a progress message, after which it goes on to wait,
\* or of the reply, behind which there is nothing.
LEMMA RecvMsgBodyOK == ASSUME RpcInv, NEW c \in Clients, RecvMsgBody(c) PROVE RpcInv'
<1>1. /\ TypeOK /\ conn \in [Clients -> Connection] /\ client \in [Clients -> Client]
      /\ conn[c] \in Connection /\ client[c] \in Client /\ ClientOK(c)
  BY DEF RpcInv, TypeOK
<1>2. TypeOK'
  BY <1>1, TypeClient DEF ClientStep
<1> DEFINE s == conn[c].toClient
           m == conn[c].toClient[1].msg
<1>3. /\ client[c].pc = "body" /\ Len(s) >= 2 /\ Took(c, 2)
      /\ UNCHANGED <<bootargs, passcode, mounted, server, backlog>>
  BY DEF RecvMsgBody, booting
<1>4. s \in Seq(Units(Messages)) /\ Len(s) \in Nat /\ m \in Messages
  <2>1. s \in Seq(Units(Messages))
    BY <1>1 DEF Connection
  <2>2. s[1] \in Units(Messages)
    BY <1>3, <2>1
  <2> QED
    BY <2>1, <2>2 DEF Units
<1>5. PICK new \in Connection :
              /\ conn' = [conn EXCEPT ![c] = new] /\ conn'[c] = new
              /\ new.state = conn[c].state /\ new.toServer = conn[c].toServer
              /\ new.toClient = Rest(s)
  BY <1>1, <1>3, <1>4, TookIs DEF Rest
<1>6. ASSUME ~client[c].short
      PROVE  /\ conn[c].state = "open" /\ Waits(c) /\ GotOK(c) /\ (Searched(c) \/ Replied(c))
             /\ Framed(new.toClient, 0)
             /\ AllProgress(s) => AllProgress(new.toClient)
             /\ \A last : EndsWith(s, last) /\ new.toClient # <<>> => EndsWith(new.toClient, last)
             /\ new.toClient # <<>> => m = "Progress"
             /\ new.toClient = <<>> => \A last : EndsWith(s, last) => m = last
  <2>1. conn[c].state = "open" /\ Waits(c) /\ GotOK(c) /\ (Searched(c) \/ Replied(c))
    BY <1>3, <1>6, Reads
  <2>2. Framed(s, 2)
    BY <1>3, <2>1 DEF Waits, Taken
  <2> HIDE DEF s
  <2>3. /\ Framed(new.toClient, 0)
        /\ AllProgress(s) => AllProgress(new.toClient)
        /\ \A last : EndsWith(s, last) /\ new.toClient # <<>> => EndsWith(new.toClient, last)
        /\ new.toClient # <<>> => s[1].msg = "Progress"
        /\ new.toClient = <<>> => \A last : EndsWith(s, last) => s[1].msg = last
    BY <1>3, <1>4, <1>5, <2>2, TookBody
  <2> QED
    BY <2>1, <2>3 DEF s
<1>7. CASE IsProgress(m)
  <2> DEFINE now == [client[c] EXCEPT !.pc = "wait"]
  <2>1. client' = [client EXCEPT ![c] = now] /\ client'[c] = now
    BY <1>1, <1>7 DEF RecvMsgBody
  <2>2. /\ now \in Client /\ now.pc = "wait" /\ now.short = client[c].short /\ now.got = client[c].got
        /\ now.sent = client[c].sent /\ now.script = client[c].script
    BY <1>1 DEF Client
  <2> HIDE DEF now, s, m
  <2>3. ClientOK(c)'
    <3>1. SUFFICES ASSUME ~client[c].short PROVE ClientOK(c)'
      BY <2>1, <2>2 DEF ClientOK
    <3>2. m = "Progress"
      BY <1>7 DEF IsProgress
    <3>3. /\ GotOK(c)'
          /\ \A k, r : ReplyOK(c, k, r)' <=> ReplyOK(c, k, r)
      BY <1>3, <1>6, <2>1, <2>2, <3>1, GotStays
    <3>4. Searched(c) => Searched(c)'
      BY <1>3, <1>5, <1>6, <2>1, <2>2, <3>1 DEF Searched, Request, s
    <3>5. Replied(c) => Replied(c)'
      <4>1. SUFFICES ASSUME Replied(c) PROVE Replied(c)'
        OBVIOUS
      <4>2. ~Busy(c)'
        BY <1>3, <4>1 DEF Replied, Busy
      <4>3. PICK last \in Messages : /\ EndsWith(s, last) /\ ReplyOK(c, client[c].sent, last)
                                     /\ last # "Progress" /\ (last = "keybag" => mounted)
        BY <4>1 DEF Replied, s
      <4>4. EndsWith(new.toClient, last)
        <5>1. new.toClient = <<>> => m = last
          BY <1>6, <3>1, <4>3
        <5>2. EndsWith(s, last) /\ new.toClient # <<>> => EndsWith(new.toClient, last)
          BY <1>6, <3>1
        <5> QED
          BY <3>2, <4>3, <5>1, <5>2
      <4>5. conn'[c].toServer = <<>> /\ client'[c].sent = client[c].sent /\ conn'[c].toClient = new.toClient
        BY <1>5, <2>1, <2>2, <4>1 DEF Replied
      <4> QED
        BY <1>3, <3>3, <4>2, <4>3, <4>4, <4>5 DEF Replied
    <3>6. Waits(c)'
      BY <1>5, <1>6, <2>1, <2>2, <3>1, <3>4, <3>5 DEF Waits, Taken
    <3> QED
      BY <1>5, <1>6, <3>1, <3>3, <3>6 DEF ClientOK
  <2> QED
    BY <1>1, <1>2, <1>3, <1>5, <2>1, <2>2, <2>3, ClientFrame
<1>8. CASE ~IsProgress(m)
  <2> DEFINE now == [client[c] EXCEPT !.pc = "ready", !.got = Append(client[c].got, m)]
  <2>1. client' = [client EXCEPT ![c] = now]
    BY <1>1, <1>8 DEF RecvMsgBody, Got
  <2>2. /\ now.pc = "ready" /\ now.short = client[c].short /\ now.got = Append(client[c].got, m)
        /\ now.sent = client[c].sent /\ now.script = client[c].script
    BY <1>1 DEF Client
  <2> HIDE DEF now, s, m
  <2>3. client'[c] = now /\ now \in Client
    BY <1>1, <1>2, <2>1 DEF TypeOK
  <2>4. ClientOK(c)'
    <3>1. SUFFICES ASSUME ~client[c].short PROVE ClientOK(c)'
      BY <2>2, <2>3 DEF ClientOK
    <3>2. m # "Progress" /\ new.toClient = <<>>
      BY <1>6, <1>8, <3>1 DEF IsProgress
    <3>3. ~Searched(c)
      <4>1. 1 \in DOMAIN s
        BY <1>3, <1>4
      <4> QED
        BY <3>2, <4>1 DEF Searched, AllProgress, s, m
    <3>4. PICK last \in Messages : /\ EndsWith(s, last) /\ ReplyOK(c, client[c].sent, last)
                                   /\ last # "Progress" /\ (last = "keybag" => mounted)
      BY <1>6, <3>1, <3>3 DEF Replied, s
    <3>5. m = last /\ ReplyOK(c, client[c].sent, m) /\ (m = "keybag" => mounted)
      BY <1>6, <3>1, <3>2, <3>4
    <3>6. client[c].sent = Len(client[c].got) + 1
      BY <1>6, <3>1 DEF Waits
    <3>7. GotOK(c)' /\ Len(now.got) = Len(client[c].got) + 1
      BY <1>1, <1>3, <1>6, <2>2, <2>3, <3>1, <3>5, <3>6, GotMore
    <3>8. ~Busy(c)' /\ conn[c].toServer = <<>>
      BY <1>3, <1>6, <3>1, <3>3 DEF Replied, Busy
    <3>9. Quiet(c)'
      BY <1>5, <2>2, <2>3, <3>2, <3>6, <3>7, <3>8 DEF Quiet
    <3> QED
      BY <1>5, <1>6, <3>1, <3>7, <3>9 DEF ClientOK
  <2> QED
    BY <1>1, <1>2, <1>3, <1>5, <2>1, <2>2, <2>3, <2>4, ClientFrame
<1> QED
  BY <1>7, <1>8

\* The end of the stream is seen only by a client whose length came in two
\* parts: to others, the server does not close.
LEMMA EndOfStreamOK == ASSUME RpcInv, NEW c \in Clients, EndOfStream(c) PROVE RpcInv'
<1>1. /\ TypeOK /\ conn \in [Clients -> Connection] /\ client \in [Clients -> Client]
      /\ conn[c] \in Connection /\ client[c] \in Client /\ ClientOK(c)
  BY DEF RpcInv, TypeOK
<1>2. TypeOK'
  BY <1>1, TypeClient DEF ClientStep
<1>3. client' = Got(c, "None") /\ conn[c].state = "shut" /\ UNCHANGED <<bootargs, passcode, mounted, server, backlog, conn>>
  BY DEF EndOfStream, booting
<1>4. client[c].short
  BY <1>1, <1>3 DEF ClientOK
<1> DEFINE now == [client[c] EXCEPT !.pc = "ready", !.got = Append(client[c].got, "None")]
<1>5. client' = [client EXCEPT ![c] = now] /\ now.short = client[c].short
  BY <1>1, <1>3 DEF Got, Client
<1> HIDE DEF now
<1>6. client'[c] = now /\ now \in Client
  BY <1>1, <1>2, <1>5 DEF TypeOK
<1>7. ClientOK(c)'
  BY <1>4, <1>5, <1>6 DEF ClientOK
<1>8. conn' = [conn EXCEPT ![c] = conn[c]]
  BY <1>1, <1>3
<1> QED
  BY <1>1, <1>2, <1>3, <1>5, <1>6, <1>7, <1>8, ClientFrame

\* A client goes, in one of three ways.
LEMMA GoesOK ==
    ASSUME RpcInv, NEW c \in Clients, Break(c) \/ Leave(c) \/ Reset(c) PROVE RpcInv'
<1>1. /\ TypeOK /\ conn \in [Clients -> Connection] /\ client \in [Clients -> Client]
      /\ conn[c] \in Connection /\ client[c] \in Client /\ ClientOK(c)
  BY DEF RpcInv, TypeOK
<1>2. TypeOK'
  BY <1>1, TypeClient
<1>3. /\ conn' = [conn EXCEPT ![c] = conn'[c]] /\ client' = [client EXCEPT ![c] = client'[c]]
      /\ conn[c].state = "open" /\ conn'[c].state \in {"closed", "reset"}
      /\ client'[c].pc = "gone" /\ client'[c].got = client[c].got /\ client'[c].script = client[c].script
      /\ client'[c].short = client[c].short
      /\ UNCHANGED <<bootargs, passcode, mounted, server, backlog>>
  <2>1. CASE \E k : Closed(c, k)
    <3>1. PICK k : Closed(c, k)
      BY <2>1
    <3>2. /\ conn' = [conn EXCEPT ![c].state = "closed", ![c].toClient = <<>>, ![c].toServer = SubSeq(@, 1, k)]
          /\ client' = [client EXCEPT ![c].pc = "gone", ![c].cut = k < Len(conn[c].toServer)]
          /\ conn[c].state = "open" /\ UNCHANGED <<bootargs, passcode, mounted, server, backlog>>
      BY <3>1 DEF Closed, booting
    <3> DEFINE front == SubSeq(conn[c].toServer, 1, k)
               cut == k < Len(conn[c].toServer)
               new == [conn[c] EXCEPT !.state = "closed", !.toClient = <<>>, !.toServer = front]
               now == [client[c] EXCEPT !.pc = "gone", !.cut = cut]
    <3>3. conn' = [conn EXCEPT ![c] = new] /\ client' = [client EXCEPT ![c] = now]
      BY <1>1, <3>2
    <3> HIDE DEF front, cut
    <3>4. /\ new.state = "closed" /\ now.pc = "gone" /\ now.got = client[c].got /\ now.script = client[c].script
          /\ now.short = client[c].short
      BY <1>1 DEF Connection, Client
    <3> HIDE DEF new, now
    <3>5. conn'[c] = new /\ client'[c] = now
      BY <1>1, <3>3
    <3> QED
      BY <3>2, <3>3, <3>4, <3>5
  <2>2. CASE Reset(c)
    <3> DEFINE new == [conn[c] EXCEPT !.state = "reset", !.toClient = <<>>, !.toServer = <<>>]
               now == [client[c] EXCEPT !.pc = "gone"]
    <3>1. /\ conn' = [conn EXCEPT ![c] = new] /\ client' = [client EXCEPT ![c] = now] /\ conn[c].state = "open"
          /\ UNCHANGED <<bootargs, passcode, mounted, server, backlog>>
      BY <1>1, <2>2 DEF Reset, booting
    <3>2. /\ new.state = "reset" /\ now.pc = "gone" /\ now.got = client[c].got /\ now.script = client[c].script
          /\ now.short = client[c].short
      BY <1>1 DEF Connection, Client
    <3> HIDE DEF new, now
    <3>3. conn'[c] = new /\ client'[c] = now
      BY <1>1, <3>1
    <3> QED
      BY <3>1, <3>2, <3>3
  <2> QED
    BY <2>1, <2>2 DEF Break, Leave
<1>4. conn'[c] \in Connection /\ client'[c] \in Client
  BY <1>2 DEF TypeOK
<1>5. ClientOK(c)'
  <2>1. GotOK(c) => GotOK(c)'
    BY <1>3, GotStays
  <2> QED
    BY <1>1, <1>3, <2>1 DEF ClientOK
<1>6. PICK new \in Connection, now \in Client : new = conn'[c] /\ now = client'[c]
  BY <1>4
<1> QED
  BY <1>1, <1>2, <1>3, <1>5, <1>6, ClientFrame

-----------------------------------------------------------------------------
\* The boot sequence concerns no client.
LEMMA BootOK == ASSUME RpcInv, Boot \/ UNCHANGED vars PROVE RpcInv'
<1>1. UNCHANGED <<bootargs, passcode, mounted, backlog, server, conn, client>>
  BY DEF Boot, vars
<1>2. TypeOK'
  BY <1>1 DEF RpcInv, TypeOK
<1>3. ASSUME NEW c \in Clients PROVE ClientOK(c)'
  BY <1>1, OtherClient DEF RpcInv
<1>4. ServingOK' /\ BacklogOK'
  BY <1>1 DEF RpcInv, ServingOK, BacklogOK
<1> QED
  BY <1>2, <1>3, <1>4 DEF RpcInv

\* Before a client connects.
LEMMA RpcInit == Init => RpcInv
<1>1. SUFFICES ASSUME Init PROVE RpcInv
  OBVIOUS
<1>2. TypeOK
  BY <1>1, TypeInit
<1>3. server = NoServer /\ server.pc = "accept" /\ backlog = <<>>
  BY <1>1 DEF Init, NoServer
<1>4. ServingOK /\ BacklogOK
  BY <1>3 DEF ServingOK, BacklogOK
<1>5. ASSUME NEW c \in Clients PROVE ClientOK(c)
  <2>1. conn[c] = NoConn /\ client[c] = NoClient
    BY <1>1 DEF Init
  <2>2. /\ conn[c].state = "none" /\ conn[c].toServer = <<>> /\ conn[c].toClient = <<>>
        /\ client[c].pc = "ready" /\ client[c].sent = 0 /\ client[c].got = <<>>
    BY <2>1 DEF NoConn, NoClient
  <2>3. GotOK(c)
    BY <2>2 DEF GotOK
  <2> QED
    BY <2>2, <2>3 DEF ClientOK
<1> QED
  BY <1>2, <1>4, <1>5 DEF RpcInv

\* Every step of the server, a client or the boot sequence keeps it.
LEMMA RpcNext == RpcInv /\ [Next]_vars => RpcInv'
<1>1. SUFFICES ASSUME RpcInv, [Next]_vars PROVE RpcInv'
  OBVIOUS
<1>2. CASE Boot \/ UNCHANGED vars
  BY <1>1, <1>2, BootOK
<1>3. CASE ServerStep
  BY <1>1, <1>3, AcceptOK, RecvLengthOK, RecvBodyOK, InvalidOK, DispatchOK, SearchStartOK, SearchOK, RebootOK, ByeOK
     DEF ServerStep
<1>4. ASSUME NEW c \in Clients, Connect(c) \/ ClientStep(c) \/ Break(c) \/ Reset(c) \/ Leave(c) \/ SendReq(c)
      PROVE  RpcInv'
  BY <1>1, <1>4, ConnectOK, RecvMsgLengthOK, RecvMsgBodyOK, EndOfStreamOK, GoesOK, SendReqOK DEF ClientStep
<1> QED
  BY <1>1, <1>2, <1>3, <1>4 DEF Next

\* A client that has been given no half length has the answers it waited for.
LEMMA RpcMatches == RpcInv => RepliesMatch
<1>1. SUFFICES ASSUME RpcInv, NEW c \in Clients, ~client[c].short, NEW k \in DOMAIN client[c].got
               PROVE  \E at \in BOOLEAN : /\ client[c].got[k] = Answer(client[c].script[k], at)
                                          /\ (\E j \in 1 .. k - 1 : client[c].got[j] = "keybag") => at
  BY DEF RepliesMatch
<1>2. ClientOK(c)
  BY <1>1 DEF RpcInv
<1> QED
  BY <1>1, <1>2 DEF ClientOK, GotOK, ReplyOK

\* Every state of the server and its clients is typed, and what is under way on
\* an open connection is one stage of one request: handle_client,
\* serve_plist_rpc and send_req.
THEOREM RpcAlways == Spec => []RpcInv
<1>1. Init /\ [][Next]_vars => []RpcInv
  BY RpcInit, RpcNext, PTL
<1> QED
  BY <1>1, PTL DEF Spec

\* The k-th reply a client takes from send_req is the answer of the handler of
\* its k-th request, whatever other clients do and wherever connections break.
THEOREM RepliesAlwaysMatch == Spec => []RepliesMatch
  BY RpcAlways, RpcMatches, PTL
=============================================================================
