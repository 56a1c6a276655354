------------------------------ MODULE FtpClient -------------------------------
(***************************************************************************)
(* The interactive clients of the FTP lab (ftp_client.cpp).  A client      *)
(* reads a command, sends a request and waits for the replies, naming in   *)
(* pc what it waits for; the messages it has yet to send are in out.       *)
(*                                                                         *)
(* What the user sees of a connection, info, and the descriptor, sock, are *)
(* two variables of the code, and they do not always agree.                *)
(***************************************************************************)
EXTENDS TcpStream

CONSTANTS
  Clients,
  Fresh,       \* a socket that was never connected
  Unreadable,  \* local files that exist and cannot be opened
  Commands,    \* the commands users type
  Killable,    \* clients their user may kill
  ListJoined   \* does a listing always arrive together with its header?

\* "reopen" is an open at a prompt that shows a connection.
AllCommands == {"open", "reopen", "ls", "cd", "get", "put", "sha256", "quit"}

ASSUME ClientAssumption ==
  /\ Commands \subseteq AllCommands
  /\ Fresh \notin Conns
  /\ Unreadable \subseteq Names /\ Killable \subseteq Clients
  /\ ListJoined \in BOOLEAN

VARIABLES
  client,   \* the processes
  disk      \* disk[c][f]: the local files

clientVars == <<client, disk>>

\* "upload": sending the file data of a put.  "getdata", "getbody",
\* "shadata", "shabody": waiting for FILE_DATA and for its payload.
ClientPcs == {"prompt", "open", "ls", "cd", "get", "getdata", "getbody", "put",
              "upload", "sha", "shadata", "shabody", "quit", "exited", "killed"}

ClientStates == [pc   : ClientPcs,
                 info : BOOLEAN,                  \* info # "none"
                 sock : Conns \cup {Fresh},
                 name : Names \cup {NoArg},       \* the file named in the command
                 out  : Seq(Messages)]

NewClient == [pc |-> "prompt", info |-> FALSE, sock |-> Fresh, name |-> NoArg,
              out |-> <<>>]

ClientInit == client = [c \in Clients |-> NewClient]

------------------------------------------------------------------------------
Sock(c)   == client[c].sock
Prompt(c) == client[c].pc = "prompt"
Gone(c)   == client[c].pc \in {"exited", "killed"}

Types(c, command) == Prompt(c) /\ command \in Commands

SetClient(c, state) == client' = [client EXCEPT ![c] = state]
OnConn(c, k)        == conn' = [conn EXCEPT ![Sock(c)] = k]

\* close(sock).
CloseSock(c) ==
  IF Sock(c) = Fresh THEN UNCHANGED conn
  ELSE OnConn(c, Closed(conn[Sock(c)], "client"))

\* Back at the prompt, with or without the socket.
Idle(c, info) == [NewClient EXCEPT !.info = info, !.sock = Sock(c)]
Drop(c, info) == [Idle(c, info) EXCEPT !.sock = Fresh]

\* The process ends.
End(c, pc) ==
  /\ CloseSock(c)
  /\ SetClient(c, [NewClient EXCEPT !.pc = pc])

------------------------------------------------------------------------------
(* Commands. *)

\* open without a connection: connect() succeeds while the server listens.
OpenConnection(c) ==
  LET s == CHOOSE t \in Conns : ~conn[t].used
  IN  /\ Types(c, "open") /\ Sock(c) = Fresh /\ serverUp
      /\ \E t \in Conns : ~conn[t].used
      /\ conn' = [conn EXCEPT ![s] = Established]
      /\ SetClient(c, [client[c] EXCEPT
           !.pc = "open", !.sock = s, !.out = <<Header("OPEN_CONN_REQUEST", 0, 0)>>])
      /\ UNCHANGED disk

\* open with one: connect() fails, the socket is closed, info stays.
OpenAgain(c) ==
  /\ Types(c, "reopen") /\ Sock(c) # Fresh
  /\ CloseSock(c)
  /\ SetClient(c, Drop(c, client[c].info))
  /\ UNCHANGED disk

\* check_server_status finds a pending error of the socket.
ServerIsDown(c) ==
  /\ Prompt(c) /\ client[c].info
  /\ Sock(c) # Fresh /\ PendingError(conn[Sock(c)], "client")
  /\ CloseSock(c)
  /\ SetClient(c, Drop(c, FALSE))
  /\ UNCHANGED disk

\* Every other command, when info shows a connection and no error is pending.
Command(c, command, pc, f, request) ==
  /\ Types(c, command) /\ client[c].info
  /\ Sock(c) # Fresh => ~PendingError(conn[Sock(c)], "client")
  /\ SetClient(c, [client[c] EXCEPT !.pc = pc, !.name = f, !.out = request])
  /\ UNCHANGED <<conn, disk>>

ListFiles(c) == Command(c, "ls", "ls", NoArg, <<Header("LIST_REQUEST", 0, 0)>>)
CloseConnection(c) == Command(c, "quit", "quit", NoArg, <<Header("QUIT_REQUEST", 0, 0)>>)

ChangeDirectory(c) == \E f \in Names : Command(c, "cd", "cd", f, NameRequest("CD_REQUEST", f))
DownloadFiles(c)   == \E f \in Names : Command(c, "get", "get", f, NameRequest("GET_REQUEST", f))
Sha256(c)          == \E f \in Names : Command(c, "sha256", "sha", f, NameRequest("SHA_REQUEST", f))
UploadFiles(c) ==
  \E f \in {g \in Names : disk[c][g] # NoFile} :
    Command(c, "put", "put", f, NameRequest("PUT_REQUEST", f))

\* quit at the prompt "none" ends the client.
CloseClient(c) ==
  /\ Prompt(c) /\ ~client[c].info
  /\ End(c, "exited")
  /\ UNCHANGED disk

\* The user ends the process.
Kill(c) ==
  /\ c \in Killable /\ ~Gone(c)
  /\ End(c, "killed")
  /\ UNCHANGED disk

------------------------------------------------------------------------------
(* Sending and receiving. *)

\* After a failed send or receive, k being the connection it leaves: the
\* commands of closing close the socket, open and quit set info to "none".
GiveUp(c, k, closing) ==
  LET pc   == client[c].pc
      info == client[c].info /\ pc \notin {"open", "quit"}
  IN  IF pc \in closing
      THEN OnConn(c, Closed(k, "client")) /\ SetClient(c, Drop(c, info))
      ELSE OnConn(c, k) /\ SetClient(c, Idle(c, info))

\* safe_send of a request, with its name if it has one, or of the next message
\* of an upload; after the last of these the client is back at the prompt.
ClientSend(c) ==
  /\ client[c].out # <<>>
  /\ LET k      == conn[Sock(c)]
         upload == client[c].pc = "upload"
         sent   == AfterSend(k, "client", IF upload THEN <<Head(client[c].out)>>
                                          ELSE client[c].out)
         rest   == IF upload THEN Tail(client[c].out) ELSE <<>>
     IN  CASE Sock(c) = Fresh \/ SendResult(k, "client") = "sigpipe" -> End(c, "killed")
           [] Sock(c) # Fresh /\ SendResult(k, "client") = "error" ->
                GiveUp(c, sent, {"open", "ls", "quit"})
           [] OTHER ->
                /\ OnConn(c, sent)
                /\ SetClient(c, IF upload /\ rest = <<>> THEN Idle(c, client[c].info)
                                ELSE [client[c] EXCEPT !.out = rest])
  /\ UNCHANGED disk

\* The client waits in a safe_recv.
Waits(c) == ~Gone(c) /\ ~Prompt(c) /\ client[c].out = <<>>

ReplyLost(c) ==
  /\ Waits(c)
  /\ Ended(conn[Sock(c)], "client")
  /\ GiveUp(c, AfterEnded(conn[Sock(c)], "client"), {"open"})
  /\ UNCHANGED disk

\* The receive at pc finds a message.
Replied(c, pc) ==
  /\ Waits(c) /\ client[c].pc = pc
  /\ HasData(conn[Sock(c)], "client")

Reply(c)     == First(conn[Sock(c)], "client")
TakeReply(c) == OnConn(c, AfterRecv(conn[Sock(c)], "client"))

Await(c, pc) == SetClient(c, [client[c] EXCEPT !.pc = pc])
Done(c)      == SetClient(c, Idle(c, client[c].info))

RecvOpenReply(c) ==
  LET k == AfterRecv(conn[Sock(c)], "client")
  IN  /\ Replied(c, "open")
      /\ \E st \in StatusIn(Reply(c)) :
           IF st = 1 THEN OnConn(c, k) /\ SetClient(c, Idle(c, TRUE))
           ELSE OnConn(c, Closed(k, "client")) /\ SetClient(c, Drop(c, FALSE))
      /\ UNCHANGED disk

\* Mutant of ListTaken: only the header is asked for.
ListTakenHeader(k) == {1}

\* How many messages of those in the stream one recv() of 2048 bytes takes.
ListTaken(k) ==
  {n \in 1 .. Len(k.q["client"]) :
     ListJoined => n = Len(k.q["client"]) /\ (n > 1 \/ ~k.open["server"])}

\* The recv() finds the zero bytes of the header, and is the last: what has
\* not arrived by then stays in the stream.
RecvListReply(c) ==
  LET k == conn[Sock(c)]
  IN  /\ Replied(c, "ls")
      /\ \E n \in ListTaken(k) :
           OnConn(c, [k EXCEPT !.q["client"] = SubSeq(@, n + 1, Len(@))])
      /\ Done(c)
      /\ UNCHANGED disk

RecvCdReply(c) ==
  /\ Replied(c, "cd") /\ TakeReply(c) /\ Done(c)
  /\ UNCHANGED disk

\* Mutant of RecvGetReply: FILE_DATA is waited for after a refusal too.
RecvGetReplyAnyStatus(c) ==
  /\ Replied(c, "get") /\ TakeReply(c)
  /\ Await(c, "getdata")
  /\ UNCHANGED disk

\* The types of these replies are not looked at.
RecvGetReply(c) ==
  /\ Replied(c, "get") /\ TakeReply(c)
  /\ \E st \in StatusIn(Reply(c)) : IF st = 0 THEN Done(c) ELSE Await(c, "getdata")
  /\ UNCHANGED disk

\* Mutant of Save: the file is opened with std::ios::app.
SaveAppended(c, content) ==
  /\ disk' = [disk EXCEPT ![c][client[c].name] =
       IF @ = NoFile THEN content ELSE @ \o content]
  /\ Done(c)

\* The local file is written.
Save(c, content) ==
  /\ disk' = [disk EXCEPT ![c][client[c].name] = content]
  /\ Done(c)

RecvGetData(c) ==
  /\ Replied(c, "getdata") /\ TakeReply(c)
  /\ \E n \in SizeIn(Reply(c)) :
       IF n = 0 THEN Save(c, <<>>) ELSE Await(c, "getbody") /\ UNCHANGED disk

\* Whole, for a text file: the remark at RecvFileContent holds here too.
RecvGetContent(c) ==
  /\ Replied(c, "getbody") /\ TakeReply(c)
  /\ Save(c, ContentIn(Reply(c)))

RecvShaReply(c) ==
  /\ Replied(c, "sha") /\ TakeReply(c)
  /\ \E st \in StatusIn(Reply(c)) : IF st = 0 THEN Done(c) ELSE Await(c, "shadata")
  /\ UNCHANGED disk

RecvShaData(c) ==
  /\ Replied(c, "shadata") /\ TakeReply(c) /\ Await(c, "shabody")
  /\ UNCHANGED disk

RecvShaValue(c) ==
  /\ Replied(c, "shabody") /\ TakeReply(c) /\ Done(c)
  /\ UNCHANGED disk

\* The client returns after any other reply, and when it cannot open the
\* file, without sending the data the server waits for.
RecvPutReply(c) ==
  /\ Replied(c, "put") /\ TakeReply(c)
  /\ IF Reply(c).type # "PUT_REPLY" \/ client[c].name \in Unreadable
     THEN Done(c)
     ELSE SetClient(c, [client[c] EXCEPT
            !.pc = "upload", !.out = FileData(disk[c][client[c].name])])
  /\ UNCHANGED disk

\* info is "none" after any quit; after a wrong reply the socket stays open.
RecvQuitReply(c) ==
  LET k == AfterRecv(conn[Sock(c)], "client")
  IN  /\ Replied(c, "quit")
      /\ IF Reply(c).type # "QUIT_REPLY"
         THEN OnConn(c, k) /\ SetClient(c, Idle(c, FALSE))
         ELSE OnConn(c, Closed(k, "client")) /\ SetClient(c, Drop(c, FALSE))
      /\ UNCHANGED disk

------------------------------------------------------------------------------
\* What the client does by itself, and what its user does.
ClientStep(c) ==
  \/ ClientSend(c) \/ ReplyLost(c)
  \/ RecvOpenReply(c) \/ RecvListReply(c) \/ RecvCdReply(c)
  \/ RecvGetReply(c) \/ RecvGetData(c) \/ RecvGetContent(c)
  \/ RecvShaReply(c) \/ RecvShaData(c) \/ RecvShaValue(c)
  \/ RecvPutReply(c) \/ RecvQuitReply(c)

UserStep(c) ==
  \/ OpenConnection(c) \/ OpenAgain(c) \/ ServerIsDown(c)
  \/ ListFiles(c) \/ ChangeDirectory(c) \/ DownloadFiles(c) \/ UploadFiles(c)
  \/ Sha256(c) \/ CloseConnection(c) \/ CloseClient(c) \/ Kill(c)
==============================================================================
