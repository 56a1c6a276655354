------------------------------ MODULE FtpServer -------------------------------
(***************************************************************************)
(* The server of the FTP lab (ftp_server.cpp): one thread per connection   *)
(* runs client_handler; the threads share the server's file system and the *)
(* fate of the process.                                                    *)
(*                                                                         *)
(* A thread waits in one safe_recv at a time, named by pc; what it then    *)
(* sends queues in out and goes out one safe_send per step.  Every use of  *)
(* the file system is a step of its own, so that sessions interleave where *)
(* the code lets them.                                                     *)
(***************************************************************************)
EXTENDS TcpStream

CONSTANTS
  Dirs,     \* the directories of the server
  Root,     \* the one it was started in
  Subdir    \* Subdir[d, f]: the directory f of d, where there is one

ASSUME ServerAssumption ==
  /\ Root \in Dirs
  /\ DOMAIN Subdir \subseteq Dirs \X Names
  /\ \A p \in DOMAIN Subdir : Subdir[p] \in Dirs

VARIABLES
  files,    \* files[d, f]: the server's files
  session   \* the thread of each connection

serverVars == <<files, session, serverUp>>

Paths == Dirs \X Names

\* "new": accepted by no thread yet.  The other values before "done" name
\* the safe_recv, or the use of the file system, the thread does next.
SessionPcs == {"new", "open", "request", "name", "size", "read", "sha",
               "filedata", "body", "truncate", "write", "quit", "done"}

Sessions == [pc   : SessionPcs,
             cwd  : Dirs,             \* current_dir
             req  : Messages,         \* request_buffer
             name : Names \cup {NoArg},
             size : Nat,              \* file_size
             buf  : Contents,         \* file_content
             out  : Seq(Messages)]

\* A request_buffer that was never written, if the stack was never used.
Uninit == Payload("text", NoArg)

NewSession == [pc |-> "new", cwd |-> Root, req |-> Uninit, name |-> NoArg,
               size |-> 0, buf |-> <<>>, out |-> <<>>]

ServerInit == session = [s \in Conns |-> NewSession]

------------------------------------------------------------------------------
At(s, pc) == serverUp /\ session[s].pc = pc /\ session[s].out = <<>>

\* A receive of the thread at pc finds a message.
Arrived(s, pc) == At(s, pc) /\ HasData(conn[s], "server")

Incoming(s) == First(conn[s], "server")
Taken(s)    == AfterRecv(conn[s], "server")

\* The thread goes on at pc after sending out, k being the connection.
Goto(s, k, pc, out) ==
  /\ conn' = [conn EXCEPT ![s] = k]
  /\ session' = [session EXCEPT ![s] = [@ EXCEPT !.pc = pc, !.out = out]]

\* An ended thread leaves nothing but its stack, and there request_buffer.
Exited(thread) == [NewSession EXCEPT !.pc = "done", !.req = thread.req]

\* close(client_sock) and pthread_exit.
HangUp(s, k) ==
  /\ conn' = [conn EXCEPT ![s] = Closed(k, "server")]
  /\ session' = [session EXCEPT ![s] = Exited(@)]

\* SIGPIPE kills the process: every thread ends, every socket is closed.
Killed ==
  /\ serverUp' = FALSE
  /\ conn' = [s \in Conns |-> IF conn[s].open["server"]
                              THEN Closed(conn[s], "server") ELSE conn[s]]
  /\ session' = [s \in Conns |-> Exited(session[s])]

\* The server is started again: a new process, that has no connection yet.
Restart ==
  /\ ~serverUp
  /\ serverUp' = TRUE
  /\ session' = [s \in Conns |-> IF conn[s].used THEN [NewSession EXCEPT !.pc = "done"]
                                ELSE NewSession]
  /\ UNCHANGED <<conn, files>>

\* main: a thread for a connection that was made.
Accept(s) ==
  /\ At(s, "new")
  /\ conn[s].used
  /\ session' = [session EXCEPT ![s].pc = "open"]
  /\ UNCHANGED <<conn, files, serverUp>>

\* safe_send of the next message of a reply.
ServerSend(s) ==
  /\ serverUp
  /\ session[s].out # <<>>
  /\ LET k == AfterSend(conn[s], "server", <<Head(session[s].out)>>)
     IN  CASE SendResult(conn[s], "server") = "ok" ->
                Goto(s, k, session[s].pc, Tail(session[s].out)) /\ UNCHANGED serverUp
           [] SendResult(conn[s], "server") = "error" ->
                HangUp(s, k) /\ UNCHANGED serverUp
           [] OTHER -> Killed
  /\ UNCHANGED files

\* Mutant of RecvFails: the result of the receive of a name is a size_t too.
RecvFailsUnsigned(s) ==
  /\ \E pc \in {"open", "name", "filedata", "body"} : At(s, pc)
  /\ Ended(conn[s], "server")
  /\ LET k == AfterEnded(conn[s], "server")
     IN  IF session[s].pc = "name"
         THEN Goto(s, k, "request", <<Header("CD_REPLY", 0, 0)>>)
         ELSE HangUp(s, k)
  /\ UNCHANGED <<files, serverUp>>

\* A receive fails, and the session with it; only RecvRequest is different.
RecvFails(s) ==
  /\ \E pc \in {"open", "name", "filedata", "body"} : At(s, pc)
  /\ Ended(conn[s], "server")
  /\ HangUp(s, AfterEnded(conn[s], "server"))
  /\ UNCHANGED <<files, serverUp>>

------------------------------------------------------------------------------
(* The requests. *)

RecvOpenRequest(s) ==
  /\ Arrived(s, "open")
  /\ IF Incoming(s).type = "OPEN_CONN_REQUEST" /\ Incoming(s).n = 0
     THEN Goto(s, Taken(s), "request", <<Header("OPEN_CONN_REPLY", 1, 0)>>)
     ELSE HangUp(s, Taken(s))
  /\ UNCHANGED <<files, serverUp>>

\* What request_buffer holds when safe_recv failed: the last request, and
\* before the first one what an ended thread may have left on the stack.
StaleRequests(s) ==
  IF session[s].req = Uninit
  THEN {Uninit} \cup {session[t].req : t \in {u \in Conns : session[u].pc = "done"}}
  ELSE {session[s].req}

\* The request m is carried out, k being the connection after the receive.
Dispatch(s, m, k) ==
  LET next == CASE m.type = "LIST_REQUEST" -> [pc |-> "request", out |-> ListReply]
                [] m.type = "QUIT_REQUEST" ->
                     [pc |-> "quit", out |-> <<Header("QUIT_REPLY", 0, 0)>>]
                [] OTHER -> [pc |-> "name", out |-> <<>>]
  IN  IF m.type \in Requests
      THEN /\ conn' = [conn EXCEPT ![s] = k]
           /\ session' = [session EXCEPT
                ![s] = [@ EXCEPT !.pc = next.pc, !.out = next.out, !.req = m, !.name = NoArg]]
      ELSE HangUp(s, k)

\* Mutant of RecvRequest: a failed receive is tried again.
RecvRequestRetried(s) ==
  /\ \/ /\ Arrived(s, "request")
        /\ Dispatch(s, Incoming(s), Taken(s))
     \/ /\ At(s, "request") /\ Ended(conn[s], "server")
        /\ Goto(s, AfterEnded(conn[s], "server"), "request", <<>>)
  /\ UNCHANGED <<files, serverUp>>

\* The test of a size_t against 0 (ftp_server.cpp:49) never succeeds: after
\* a failed receive the loop goes on with what is in request_buffer.
RecvRequest(s) ==
  /\ \/ /\ Arrived(s, "request")
        /\ Dispatch(s, Incoming(s), Taken(s))
     \/ /\ At(s, "request") /\ Ended(conn[s], "server")
        /\ \E m \in StaleRequests(s) : Dispatch(s, m, AfterEnded(conn[s], "server"))
  /\ UNCHANGED <<files, serverUp>>

IsDirectory(d, f) == <<d, f>> \in DOMAIN Subdir
IsFile(d, f)      == files[<<d, f>>] # NoFile

\* Mutant of Entered: current_dir becomes the name, not the joined path.
EnteredName(d, f) == f

Entered(d, f) == Subdir[<<d, f>>]

\* What the server does on the name f in a request of type t: the reply's
\* type and status, and where the thread goes on.
Answer(s, t, f) ==
  LET d == session[s].cwd
      R(type, found, pc) ==
        [reply |-> Header(type, IF found THEN 1 ELSE 0, 0),
         pc    |-> IF found THEN pc ELSE "request",
         cwd   |-> IF found /\ t = "CD_REQUEST" THEN Entered(d, f) ELSE d]
  IN  CASE t = "CD_REQUEST"  -> R("CD_REPLY", IsDirectory(d, f), "request")
        [] t = "GET_REQUEST" -> R("GET_REPLY", IsFile(d, f), "size")
        [] t = "SHA_REQUEST" -> R("SHA_REPLY", IsFile(d, f), "sha")
        [] t = "PUT_REQUEST" -> [reply |-> Header("PUT_REPLY", 0, 0),
                                 pc |-> "filedata", cwd |-> d]

RecvName(s) ==
  /\ Arrived(s, "name")
  /\ conn' = [conn EXCEPT ![s] = Taken(s)]
  /\ \E f \in NameIn(Incoming(s)) :
       LET a == Answer(s, session[s].req.type, f)
       IN  session' = [session EXCEPT
             ![s] = [@ EXCEPT !.pc = a.pc, !.name = f, !.cwd = a.cwd, !.out = <<a.reply>>]]
  /\ UNCHANGED <<files, serverUp>>

Path(s) == <<session[s].cwd, session[s].name>>

\* GET, after its reply: open the file and ask for its size ...
FileSize(s) ==
  /\ At(s, "size")
  /\ session' = [session EXCEPT ![s].pc = "read", ![s].size = Len(files[Path(s)])]
  /\ UNCHANGED <<conn, files, serverUp>>

\* Mutant of ReadShort: the stream is not tested after the read.
ReadShortIgnored(s) == FALSE

\* The file has less by now: another session has opened it for writing.
ReadShort(s) == Len(files[Path(s)]) < session[s].size

\* file_content after the read; what was not read is what the heap held.
FileContent(s) ==
  [i \in 1 .. session[s].size |->
     IF i <= Len(files[Path(s)]) THEN files[Path(s)][i] ELSE Junk]

\* ... and read that much of it.
ReadFile(s) ==
  /\ At(s, "read")
  /\ IF ReadShort(s)
     THEN HangUp(s, conn[s])
     ELSE /\ session' = [session EXCEPT
               ![s] = [@ EXCEPT !.pc = "request", !.size = 0,
                                !.out = FileData(FileContent(s))]]
          /\ UNCHANGED conn
  /\ UNCHANGED <<files, serverUp>>

\* SHA, after its reply: sha256sum reads the file.
Sha256sum(s) ==
  /\ At(s, "sha")
  /\ session' = [session EXCEPT
       ![s] = [@ EXCEPT !.pc = "request", !.out = ShaData(files[Path(s)])]]
  /\ UNCHANGED <<conn, files, serverUp>>

\* PUT, after its reply: whatever header comes next is taken for FILE_DATA.
RecvFileData(s) ==
  /\ Arrived(s, "filedata")
  /\ conn' = [conn EXCEPT ![s] = Taken(s)]
  /\ \E n \in SizeIn(Incoming(s)) :
       session' = [session EXCEPT
         ![s] = [@ EXCEPT !.pc = IF n = 0 THEN "truncate" ELSE "body", !.buf = <<>>]]
  /\ UNCHANGED <<files, serverUp>>

\* The content is taken whole, as safe_recv does of a text file.  One with a
\* zero byte it may cut there (CutOnlyAfterZero of SafeRecv): the rest stays
\* in the stream, and the file gets what the buffer happens to hold.
RecvFileContent(s) ==
  /\ Arrived(s, "body")
  /\ conn' = [conn EXCEPT ![s] = Taken(s)]
  /\ session' = [session EXCEPT
       ![s] = [@ EXCEPT !.pc = "truncate", !.buf = ContentIn(Incoming(s))]]
  /\ UNCHANGED <<files, serverUp>>

\* The ofstream empties the file when it opens it ...
OpenForWriting(s) ==
  /\ At(s, "truncate")
  /\ IF IsDirectory(session[s].cwd, session[s].name)
     THEN HangUp(s, conn[s]) /\ UNCHANGED files
     ELSE /\ files' = [files EXCEPT ![Path(s)] = <<>>]
          /\ session' = [session EXCEPT ![s].pc = "write"]
          /\ UNCHANGED conn
  /\ UNCHANGED serverUp

\* Mutant of Overwrite: what was written meanwhile is appended to.
OverwriteAppended(old, new) == old \o new

\* new written over the start of old.
Overwrite(old, new) == new \o SubSeq(old, Len(new) + 1, Len(old))

\* ... and writes from its start, whatever others have written meanwhile.
WriteFile(s) ==
  /\ At(s, "write")
  /\ files' = [files EXCEPT ![Path(s)] = Overwrite(@, session[s].buf)]
  /\ session' = [session EXCEPT ![s] = [@ EXCEPT !.pc = "request", !.buf = <<>>]]
  /\ UNCHANGED <<conn, serverUp>>

\* QUIT, after its reply.
Quit(s) ==
  /\ At(s, "quit")
  /\ HangUp(s, conn[s])
  /\ UNCHANGED <<files, serverUp>>

SessionStep(s) ==
  \/ Accept(s) \/ ServerSend(s) \/ RecvFails(s)
  \/ RecvOpenRequest(s) \/ RecvRequest(s) \/ RecvName(s)
  \/ FileSize(s) \/ ReadFile(s) \/ Sha256sum(s)
  \/ RecvFileData(s) \/ RecvFileContent(s) \/ OpenForWriting(s) \/ WriteFile(s)
  \/ Quit(s)
==============================================================================
