------------------------------ MODULE Ramdisk -------------------------------
(***************************************************************************)
(* The tool that runs on the ramdisk (ramdisk_tools/restored_external.c,   *)
(* plist_server.c and the handlers of remote_functions.c) and the client   *)
(* that talks to it (python_scripts/util/ramdiskclient.py): a boot         *)
(* sequence, then a server of one client at a time. A message is a length  *)
(* of two units and a body of two; a stream may hand out any part of what  *)
(* has been sent, and a connection may break anywhere.                     *)
(***************************************************************************)
EXTENDS Integers, SequencesExt

CONSTANTS
    Clients,
    BootArgs,      \* of "none", "nand-readonly" and "nand-disable"
    Codes,         \* how many passcodes the search tries
    Every,         \* 10: it reports its progress every so many passcodes
    MaxTries,      \* 10: how often the data partition is waited for
    Scripts        \* what a client may send: sequences of requests

\* The requests with a handler, and one that has none.
Requests == {"DeviceInfo", "GetSystemKeyBag", "BruteforceSystemKeyBag", "GetEscrowRecord", "Reboot", "NoSuchRequest"}

ASSUME RamdiskAssumption ==
    /\ Codes \in Nat \ {0} /\ Every \in Nat \ {0}
    /\ MaxTries \in Nat
    /\ Clients # {} /\ Scripts \subseteq Seq(Requests)

VARIABLES
    bootargs,  \* what the kernel was started with
    passcode,  \* of the device: the number of it, -1 when it is empty, Codes when it is longer
    boot,      \* where main() is
    tries,     \* how often it has waited for the data partition
    mounted,   \* the data partition is mounted on /mnt2
    backlog,   \* connections that wait to be accepted
    server,    \* where the server is, and with whom
    conn,      \* the connection of each client
    client     \* each client: its requests, the replies it got

vars == <<bootargs, passcode, boot, tries, mounted, backlog, server, conn, client>>
booting == <<bootargs, passcode, boot, tries, mounted>>

Least(m, n) == IF m < n THEN m ELSE n

-----------------------------------------------------------------------------
(* main() of restored_external.c                                           *)
NandOff == bootargs # "none"

\* The partition is waited for and checked when it shows up in time, but not
\* with one of the two boot arguments.
WaitForPartition ==
    /\ boot = "wait"
    /\ IF NandOff \/ tries = MaxTries
       THEN boot' = "usb" /\ tries' = 0
       ELSE \/ boot' = "fsck" /\ tries' = 0
            \/ boot' = "wait" /\ tries' = tries + 1

Fsck == boot = "fsck" /\ boot' = "usb" /\ UNCHANGED tries

\* Until the controller and the interface are there; from then on a host can
\* see the device.
InitUsb == boot = "usb" /\ boot' = "spawn" /\ UNCHANGED tries

\* sshd and ioflashstoragekit are started beside the server.
Spawn == boot = "spawn" /\ boot' = "serve" /\ UNCHANGED tries

Boot ==
    /\ WaitForPartition \/ Fsck \/ InitUsb \/ Spawn
    /\ UNCHANGED <<bootargs, passcode, mounted, backlog, server, conn, client>>

-----------------------------------------------------------------------------
(* The connection: what is under way in both directions.                   *)
Message(m) == [i \in 1 .. 4 |-> [msg |-> m, part |-> i]]
NoConn == [state |-> "none", toServer |-> <<>>, toClient |-> <<>>]

\* What a write to the client does: the first one after the client has closed
\* is answered with a reset, all later ones fail.
Sent(c, m) ==
    CASE c.state = "open" -> [c EXCEPT !.toClient = @ \o Message(m)]
      [] c.state = "closed" -> [c EXCEPT !.state = "reset", !.toServer = <<>>]
      [] OTHER -> c
SendFails(c) == c.state = "reset"

-----------------------------------------------------------------------------
(* handle_client and serve_plist_rpc                                       *)
NoServer == [pc |-> "accept", client |-> CHOOSE c \in Clients : TRUE, got |-> 0, request |-> "", code |-> 0]
With == conn[server.client]

Accept ==
    /\ boot = "serve" /\ server.pc = "accept" /\ backlog # <<>>
    /\ server' = [NoServer EXCEPT !.pc = "length", !.client = Head(backlog)]
    /\ backlog' = Tail(backlog)
    /\ UNCHANGED <<booting, conn, client>>

\* The end of the stream, or an error.
GoneReset(state) == state = "reset"
Gone(state) == state \in {"closed", "reset"}

\* recv() of the length: four bytes in one call, or the client is let go.
RecvLength ==
    /\ server.pc = "length"
    /\ \/ /\ With.toServer # <<>>
          /\ \E n \in 1 .. 2 :
                /\ n = 2 => Len(With.toServer) >= 2
                /\ server' = IF n = 2 THEN [server EXCEPT !.pc = "body", !.got = 0, !.request = With.toServer[1].msg]
                                      ELSE [server EXCEPT !.pc = "bye"]
                /\ conn' = [conn EXCEPT ![server.client].toServer = SubSeq(@, n + 1, Len(@))]
                /\ client' = IF n = 2 THEN client ELSE [client EXCEPT ![server.client].short = TRUE]
       \/ /\ With.toServer = <<>> /\ Gone(With.state)
          /\ server' = [server EXCEPT !.pc = "bye"]
          /\ UNCHANGED <<conn, client>>
    /\ UNCHANGED <<booting, backlog>>

\* The loop that receives the body. An error ends it with what there is; the
\* end of the stream does not: recv() returns 0 and the loop goes round.
RecvBody ==
    /\ server.pc = "body"
    /\ \/ \E n \in 1 .. Least(2 - server.got, Len(With.toServer)) :
            /\ conn' = [conn EXCEPT ![server.client].toServer = SubSeq(@, n + 1, Len(@))]
            /\ server' = [server EXCEPT !.got = @ + n, !.pc = IF server.got + n = 2 THEN "dispatch" ELSE "body"]
       \/ /\ With.toServer = <<>> /\ With.state = "reset"
          /\ server' = [server EXCEPT !.pc = "invalid"]
          /\ UNCHANGED conn
    /\ UNCHANGED <<booting, backlog, client>>

Reply(m) ==
    /\ conn' = [conn EXCEPT ![server.client] = Sent(@, m)]
    /\ server' = [server EXCEPT !.pc = "length"]

Invalid == server.pc = "invalid" /\ Reply("invalid XML plist dictionary") /\ UNCHANGED <<booting, backlog, client>>

\* The handlers: what each answers on a device whose data partition is mounted
\* on /mnt2 (at) or not when it is read, unless it takes longer or never
\* returns. (AES, the passcode key and the files of the partition are like the
\* escrow record or the infos; a dictionary without a Request is answered like
\* an unknown one.)
Answer(request, at) ==
    CASE request = "DeviceInfo" -> "infos"
      [] request = "GetSystemKeyBag" -> IF at THEN "keybag" ELSE "no result"
      [] request = "BruteforceSystemKeyBag" -> IF passcode < Codes THEN "passcode" ELSE "no result"
      [] request = "GetEscrowRecord" -> IF at THEN "record" ELSE "no result"
      [] request = "NoSuchRequest" -> "No handler defined for Request"

\* load_system_keybag mounts the data partition, and it stays mounted. The
\* mount fails without the NAND, and may fail with it: the partition may be
\* missing or damaged. Its result is dropped; the keybag is read all the same.
MayMount(request) == request = "GetSystemKeyBag" /\ bootargs # "nand-disable"

Dispatch ==
    /\ server.pc = "dispatch" /\ server.request \notin {"BruteforceSystemKeyBag", "Reboot"}
    /\ mounted' \in {mounted, mounted \/ MayMount(server.request)}
    /\ Reply(Answer(server.request, mounted'))
    /\ UNCHANGED <<bootargs, passcode, boot, tries, backlog, client>>

Reboot ==
    /\ server.pc = "dispatch" /\ server.request = "Reboot"
    /\ server' = [server EXCEPT !.pc = "rebooted"]
    /\ UNCHANGED <<booting, backlog, conn, client>>

\* bruteforceWithAppleKeyStore: the empty passcode first (-1), then one by one,
\* with a message to the client every so often, until that message fails.
SearchStart ==
    /\ server.pc = "dispatch" /\ server.request = "BruteforceSystemKeyBag"
    /\ IF passcode = -1
       THEN Reply("passcode")
       ELSE server' = [server EXCEPT !.pc = "search", !.code = 0] /\ UNCHANGED conn
    /\ UNCHANGED <<booting, backlog, client>>

Progress == server.code % Every = 0

Search ==
    /\ server.pc = "search"
    /\ IF Progress /\ SendFails(With)
       THEN Reply("no result")
       ELSE IF passcode = server.code
       THEN /\ conn' = [conn EXCEPT ![server.client] =
                           Sent(IF Progress THEN Sent(@, "Progress") ELSE @, "passcode")]
            /\ server' = [server EXCEPT !.pc = "length"]
       ELSE /\ conn' = [conn EXCEPT ![server.client] =
                           LET c == IF Progress THEN Sent(@, "Progress") ELSE @
                           IN  IF server.code + 1 = Codes THEN Sent(c, "no result") ELSE c]
            /\ server' = IF server.code + 1 = Codes THEN [server EXCEPT !.pc = "length"]
                                                    ELSE [server EXCEPT !.code = @ + 1]
    /\ UNCHANGED <<booting, backlog, client>>

\* The last message, shutdown() and close().
Bye ==
    /\ server.pc = "bye"
    /\ conn' = [conn EXCEPT ![server.client] =
           [Sent(@, "kthxbye") EXCEPT !.state = IF With.state = "open" THEN "shut" ELSE "gone"]]
    /\ server' = NoServer
    /\ UNCHANGED <<booting, backlog, client>>

ServerStep == Accept \/ RecvLength \/ RecvBody \/ Invalid \/ Dispatch \/ SearchStart \/ Search \/ Reboot \/ Bye

-----------------------------------------------------------------------------
(* RamdiskToolClient                                                       *)
NoClient == [pc |-> "ready", script |-> <<>>, sent |-> 0, got |-> <<>>, short |-> FALSE, cut |-> FALSE]

Connect(c) ==
    /\ boot = "serve" /\ conn[c].state = "none"
    /\ \E script \in Scripts : client' = [client EXCEPT ![c].script = script]
    /\ conn' = [conn EXCEPT ![c].state = "open"]
    /\ backlog' = Append(backlog, c)
    /\ UNCHANGED <<booting, server>>

\* What is sent after the server has closed does not arrive.
SendReq(c) ==
    /\ client[c].pc = "ready" /\ client[c].sent < Len(client[c].script)
    /\ client' = [client EXCEPT ![c].pc = "wait", ![c].sent = @ + 1]
    /\ \/ /\ conn[c].state = "open"
          /\ conn' = [conn EXCEPT ![c].toServer = @ \o Message(client[c].script[client[c].sent + 1])]
       \/ conn[c].state = "shut" /\ UNCHANGED conn
    /\ UNCHANGED <<booting, backlog, server>>

Got(c, reply) == [client EXCEPT ![c].pc = "ready", ![c].got = Append(@, reply)]
Took(c, n) == conn' = [conn EXCEPT ![c].toClient = SubSeq(@, n + 1, Len(@))]

\* recv_msg: four bytes of a length in one call, or it returns None; so does
\* the end of the stream, and send_req takes it for the reply.
RecvMsgLength(c) ==
    /\ client[c].pc = "wait" /\ conn[c].toClient # <<>>
    /\ \/ /\ Len(conn[c].toClient) >= 2
          /\ Took(c, 2)
          /\ client' = [client EXCEPT ![c].pc = IF conn[c].toClient[1].part = 1 THEN "body" ELSE "lost"]
       \/ /\ Took(c, 1)
          /\ client' = [Got(c, "None") EXCEPT ![c].short = TRUE]
    /\ UNCHANGED <<booting, backlog, server>>

EndOfStream(c) ==
    /\ client[c].pc \in {"wait", "body"} /\ conn[c].toClient = <<>> /\ conn[c].state = "shut"
    /\ client' = Got(c, "None")
    /\ UNCHANGED <<booting, backlog, server, conn>>

\* Progress messages are not the reply: send_req goes on waiting.
IsProgressNever(m) == FALSE
IsProgress(m) == m = "Progress"

RecvMsgBody(c) ==
    /\ client[c].pc = "body" /\ Len(conn[c].toClient) >= 2
    /\ LET m == conn[c].toClient[1].msg
       IN  client' = IF IsProgress(m) THEN [client EXCEPT ![c].pc = "wait"] ELSE Got(c, m)
    /\ Took(c, 2)
    /\ UNCHANGED <<booting, backlog, server>>

\* The client closes, or the connection breaks: then a part of what it sent
\* does not arrive. Data that arrives for a closed client is answered with a
\* reset.
Closed(c, k) ==
    /\ conn[c].state = "open"
    /\ conn' = [conn EXCEPT ![c].state = "closed", ![c].toClient = <<>>, ![c].toServer = SubSeq(@, 1, k)]
    /\ client' = [client EXCEPT ![c].pc = "gone", ![c].cut = k < Len(conn[c].toServer)]
    /\ UNCHANGED <<booting, backlog, server>>

Break(c) == \E k \in 0 .. Len(conn[c].toServer) : Closed(c, k)

\* A client that closes before it has read everything resets the connection.
Reset(c) ==
    /\ conn[c].state = "open"
    /\ conn' = [conn EXCEPT ![c].state = "reset", ![c].toClient = <<>>, ![c].toServer = <<>>]
    /\ client' = [client EXCEPT ![c].pc = "gone"]
    /\ UNCHANGED <<booting, backlog, server>>

\* A script that waits for nothing may end, which closes its connection. It
\* need not: the shell of ios_examiner.py keeps it while it runs.
Leave(c) == client[c].pc = "ready" /\ Closed(c, Len(conn[c].toServer))

ClientStep(c) == RecvMsgLength(c) \/ RecvMsgBody(c) \/ EndOfStream(c)

-----------------------------------------------------------------------------
Init ==
    /\ bootargs \in BootArgs
    /\ passcode \in {-1, Codes - 1, Codes}
    /\ boot = "wait" /\ tries = 0 /\ mounted = FALSE
    /\ backlog = <<>> /\ server = NoServer
    /\ conn = [c \in Clients |-> NoConn]
    /\ client = [c \in Clients |-> NoClient]

Next ==
    \/ Boot \/ ServerStep
    \/ \E c \in Clients : Connect(c) \/ ClientStep(c) \/ Break(c) \/ Reset(c) \/ Leave(c) \/ SendReq(c)

\* The processes are scheduled: the server works, and a client reads what has
\* come. Nothing makes a client send its next request, or leave.
Spec ==
    /\ Init /\ [][Next]_vars
    /\ WF_vars(Boot) /\ WF_vars(ServerStep)
    /\ \A c \in Clients : WF_vars(ClientStep(c))

-----------------------------------------------------------------------------
\* The k-th reply a client takes is the answer to its k-th request, with any
\* number of progress messages in between and other clients before and after,
\* as long as no length came in two parts; and once it has been given the
\* keybag, what it asks of the data partition is there.
RepliesMatch ==
    \A c \in Clients : ~client[c].short =>
        \A k \in DOMAIN client[c].got : \E at \in BOOLEAN :
            /\ client[c].got[k] = Answer(client[c].script[k], at)
            /\ (\E j \in 1 .. k - 1 : client[c].got[j] = "keybag") => at

\* What may hold the server up for ever: the rest of a message that will not
\* come, because its client has gone inside it; a client that took the wrong
\* bytes for a length and waits for more than it will ever get; a reboot.
HeldUp ==
    \/ server.pc = "body" /\ With.state = "closed" /\ client[server.client].cut
    \/ server.pc = "length" /\ client[server.client].pc = "lost"
    \/ server.pc = "rebooted"

\* The server works for one client at a time: another one keeps its connection
\* open and asks for nothing.
Occupied(c) ==
    /\ server.pc = "length" /\ server.client # c
    /\ With.state = "open" /\ client[server.client].pc = "ready"

\* Unless the server is held up for ever, or some other client that it serves
\* stays for ever, every request is answered or its connection ends, although
\* others come first, search all passcodes, and leave in the middle.
RequestsAnswered ==
    \A c \in Clients :
        <>[]HeldUp \/ <>[]Occupied(c) \/ (client[c].pc = "wait" ~> client[c].pc # "wait")
=============================================================================
