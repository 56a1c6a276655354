--------------------------------- MODULE Ftp ----------------------------------
(***************************************************************************)
(* The FTP lab: interactive clients, one server process with a thread per  *)
(* connection, the connections between them and the files of both sides.   *)
(***************************************************************************)
EXTENDS FtpServer, FtpClient

CONSTANTS
  InitialFiles,  \* the server's files to begin with
  InitialDisk,   \* and each client's
  Nothing        \* no transfer under way

ASSUME FilesAssumption ==
  /\ InitialFiles \in [Paths -> Contents \cup {NoFile}]
  /\ InitialDisk \in [Clients -> [Names -> Contents \cup {NoFile}]]

vars == <<conn, serverVars, clientVars>>

ASSUME NothingAssumption ==
  LET Files == [name : Names \cup {NoArg}, data : Contents]
      Places == [dir : Dirs, name : Names \cup {NoArg}, data : Contents]
  IN  Nothing \notin Files \cup Places

Init ==
  /\ StreamInit /\ ServerInit /\ ClientInit
  /\ files = InitialFiles
  /\ disk = InitialDisk

Server(s)  == SessionStep(s) /\ UNCHANGED clientVars
Reboot     == Restart /\ UNCHANGED clientVars
Process(c) == ClientStep(c) /\ UNCHANGED serverVars
User(c)    == UserStep(c) /\ UNCHANGED serverVars

\* All clients have ended, and so have all sessions.
Finished ==
  /\ \A c \in Clients : Gone(c)
  /\ \A s \in Conns : session[s].pc \in {"new", "done"}
  /\ UNCHANGED vars

Next ==
  \/ \E s \in Conns : Server(s)
  \/ Reboot
  \/ \E c \in Clients : Process(c) \/ User(c)
  \/ Finished

Spec == Init /\ [][Next]_vars

\* The system schedules every thread and every process; users type when
\* they like.
FairSpec ==
  /\ Spec
  /\ \A s \in Conns : WF_vars(Server(s))
  /\ \A c \in Clients : WF_vars(Process(c))

------------------------------------------------------------------------------
(* Vocabulary of the properties. *)

\* The client that holds connection s, if one still does.
Held(s)   == \E c \in Clients : Sock(c) = s
Holder(s) == client[CHOOSE c \in Clients : Sock(c) = s]

\* What is on its way on connection s.
Down(s) == conn[s].q["client"] \o session[s].out
Up(s)   == conn[s].q["server"] \o (IF Held(s) THEN Holder(s).out ELSE <<>>)

\* The file content a stream of messages carries.
Carries(stream) ==
  {stream[i].arg : i \in {j \in DOMAIN stream : stream[j].type = "data"}}
    \cup {<<>> : i \in {j \in DOMAIN stream : stream[j] = Header("FILE_DATA", 0, 0)}}

\* The content a download, or an upload, on connection s is carrying.
Downloading(s) == IF Held(s) THEN Carries(Down(s)) ELSE {}

Uploading(s) ==
  CASE session[s].pc \in {"filedata", "body"}  -> Carries(Up(s))
    [] session[s].pc \in {"truncate", "write"} -> {session[s].buf}
    [] OTHER                                   -> {}

Reading(s) ==
  IF Downloading(s) = {} THEN Nothing
  ELSE [name |-> Holder(s).name, data |-> CHOOSE x \in Downloading(s) : TRUE]

Writing(s) ==
  IF Uploading(s) = {} THEN Nothing
  ELSE [dir  |-> session[s].cwd, name |-> session[s].name,
        data |-> CHOOSE x \in Uploading(s) : TRUE]

readings == [s \in Conns |-> Reading(s)]
writings == [s \in Conns |-> Writing(s)]

------------------------------------------------------------------------------
(* Properties. *)

\* Type invariant.
TypeOK ==
  /\ conn \in [Conns -> Connections]
  /\ files \in [Paths -> Contents \cup {NoFile}]
  /\ session \in [Conns -> Sessions]
  /\ serverUp \in BOOLEAN
  /\ client \in [Clients -> ClientStates]
  /\ disk \in [Clients -> [Names -> Contents \cup {NoFile}]]

\* A client at its prompt and the server agree on where the conversation is:
\* nothing is left in the stream for a later command to mistake for its
\* reply, and the server waits for a request or is storing an upload.  This
\* takes every header and file to be received whole (text files, see SafeRecv),
\* and needs listings that arrive with their header (ListJoined): a later one
\* is left in the stream by ftp_client.cpp:103.
InStep ==
  \A c \in Clients :
    Prompt(c) /\ client[c].info /\ Sock(c) # Fresh =>
      LET k == conn[Sock(c)]
          t == session[Sock(c)]
      IN  k.open["server"] =>
            /\ k.q["client"] = <<>> /\ t.out = <<>>
            /\ \/ t.pc = "request" /\ k.q["server"] = <<>>
               \/ t.pc \in {"filedata", "body"} /\ Carries(k.q["server"]) # {}
               \/ t.pc \in {"truncate", "write"} /\ k.q["server"] = <<>>

\* The server process dies only when a client closed its end under a session
\* that goes on sending: one with a LIST, GET or SHA, or with a request left
\* on its stack by another.  A client that waits for its quit does no harm.
\* A file with a zero byte, cut by safe_recv, is left out (ftp_server.cpp:326).
ServerOutlivesQuits ==
  [][serverUp /\ ~serverUp' =>
       \E s \in Conns :
         /\ session[s].out # <<>>
         /\ conn[s].used /\ ~conn[s].open["client"]
         /\ session[s].req.type \notin {"CD_REQUEST", "PUT_REQUEST"}]_vars

\* Originals, and what concurrent uploads make of them.
Originals == ({InitialFiles[p] : p \in Paths}
              \cup {InitialDisk[c][f] : c \in Clients, f \in Names}) \ {NoFile}

IsMerge(content) ==
  /\ content = <<>> \/ \E o \in Originals : Len(o) = Len(content)
  /\ \A i \in DOMAIN content :
       \E o \in Originals : i \in DOMAIN o /\ content[i] = o[i]

\* Whatever sessions upload and download at the same time, every file on
\* either side is empty or has the length of a file, and each of its blocks
\* is the block of some file at that place: interleaving stores nothing else.
\* This is said of files without a zero byte (text files): the safe_recv of
\* ftp_server.cpp:326 and ftp_client.cpp:302 may cut others at their first zero
\* byte, and what is then stored behind it was never in any file.
FilesAreMerges ==
  /\ \A p \in Paths : files[p] # NoFile => IsMerge(files[p])
  /\ \A c \in Clients, f \in Names : disk[c][f] # NoFile => IsMerge(disk[c][f])

\* A client that is carrying out a command gets back to its prompt, or ends.
CommandReturns ==
  \A c \in Clients : ~Prompt(c) ~> Prompt(c) \/ Gone(c)

\* The thread of a connection whose client has closed it ends.
SessionEnds ==
  \A s \in Conns :
    conn[s].used /\ ~conn[s].open["client"] ~> session[s].pc = "done"

\* What each receive of the client is written to receive.
Awaited(pc) ==
  CASE pc = "open" -> "OPEN_CONN_REPLY"
    [] pc = "ls"   -> "LIST_REPLY"
    [] pc = "cd"   -> "CD_REPLY"
    [] pc = "get"  -> "GET_REPLY"
    [] pc = "put"  -> "PUT_REPLY"
    [] pc = "sha"  -> "SHA_REPLY"
    [] pc = "quit" -> "QUIT_REPLY"
    [] pc \in {"getdata", "shadata"} -> "FILE_DATA"
    [] pc = "getbody" -> "data"
    [] pc = "shabody" -> "digest"
    [] OTHER -> "none"

\* Most types are not looked at: that a client finds what it waits for, after
\* any history of commands and also what a server that is gone has left, is
\* the work of the whole conversation.  Like InStep it is said of text files
\* and of listings that arrive with their header (ListJoined); where one comes
\* later, GetReceivesGetReply shows what becomes of it.
RepliesMatch ==
  \A c \in Clients, pc \in ClientPcs : Replied(c, pc) => Reply(c).type = Awaited(pc)

\* What a client takes for the reply to a get is one (ftp_client.cpp:274).
GetReceivesGetReply ==
  [][\A c \in Clients : RecvGetReply(c) => Reply(c).type = "GET_REPLY"]_vars

\* The run implements the abstract service, for text files: a get stores the
\* start of a file of that name, a put what the client's file held.
FS == INSTANCE FileService WITH
        Transfers <- Conns,
        reading <- readings,
        writing <- writings

ImplementsFileService == FS!FSSpec
==============================================================================
