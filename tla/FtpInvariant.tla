----------------------------- MODULE FtpInvariant -----------------------------
(***************************************************************************)
(* The inductive invariant of the FTP model.                               *)
(*                                                                         *)
(* TypeInv says of each process by itself what its next step relies on.    *)
(* IInv adds what the two ends of a connection know of each other: Live,   *)
(* while both are open, ties the client's pc, the thread's pc and the two  *)
(* streams together; when one end has closed, the other still finds in its *)
(* queue the start of what it expects (DownOK, UpOK).  IInv holds where    *)
(* listings arrive with their header and local files can be read.          *)
(***************************************************************************)
EXTENDS Ftp

NamedRequests == {"CD_REQUEST", "GET_REQUEST", "PUT_REQUEST", "SHA_REQUEST"}

\* The clients that are waiting for the reply to a request with a name.
NamedPcs == {"cd", "get", "put", "sha"}

\* A thread that has read a name, and is not done with it.
SessionOK(t, fs) ==
  /\ t.pc = "name" => t.req.type \in NamedRequests
  /\ t.pc \in {"size", "read", "sha", "filedata", "body", "truncate", "write"}
       => t.name \in Names
  /\ t.pc \in {"size", "read", "sha", "write"} => fs[<<t.cwd, t.name>>] # NoFile
  /\ t.pc \in {"size", "read"} => t.req.type = "GET_REQUEST"
  /\ t.pc = "sha" => t.req.type = "SHA_REQUEST"
  /\ t.pc \in {"new", "done"} => t.out = <<>>
  /\ t.req.type \in {"CD_REQUEST", "PUT_REQUEST"} => Len(t.out) <= 1

\* A client, its local files being d.
ClientOK(cl, d) ==
  /\ cl.pc \in {"exited", "killed"} => cl.sock = Fresh
  /\ cl.pc \in {"prompt", "exited", "killed"} => cl.out = <<>>
  /\ cl.pc = "upload" => cl.out # <<>>
  /\ cl.pc \notin {"prompt", "exited", "killed"} /\ cl.out = <<>> => cl.sock # Fresh
  /\ cl.pc = "open" => cl.sock # Fresh
  /\ cl.pc \in NamedPcs \cup {"getdata", "getbody", "upload"} => cl.name \in Names
  /\ cl.pc \in {"put", "upload"} => d[cl.name] # NoFile

TypeInv ==
  /\ TypeOK
  /\ \A s \in Conns : SessionOK(session[s], files)
  /\ \A c \in Clients : ClientOK(client[c], disk[c])

------------------------------------------------------------------------------
(* The streams.  Positions, not equations, so that the start of a stream   *)
(* that is well formed is well formed.                                     *)

IsData(m) == m.type = "data" /\ IsMerge(m.arg) /\ m.arg # <<>>

EmptyData == Header("FILE_DATA", 0, 0)

\* m announces data.
Announces(m) == m.type = "FILE_DATA" /\ m.n # 0

RequestType(p) ==
  CASE p = "open" -> "OPEN_CONN_REQUEST"
    [] p = "ls"   -> "LIST_REQUEST"
    [] p = "cd"   -> "CD_REQUEST"
    [] p = "get"  -> "GET_REQUEST"
    [] p = "put"  -> "PUT_REQUEST"
    [] p = "sha"  -> "SHA_REQUEST"
    [] p = "quit" -> "QUIT_REQUEST"
    [] OTHER      -> "none"

RequestLen(p) ==
  IF p \in NamedPcs THEN 2 ELSE IF p \in {"open", "ls", "quit"} THEN 1 ELSE 0

\* After the first i messages U has the client's request, or nothing if it
\* has none to make.
Requested(cl, U, i) ==
  /\ cl.pc \in {"prompt", "upload", "open", "ls", "quit"} \cup NamedPcs
  /\ Len(U) = i + RequestLen(cl.pc)
  /\ RequestLen(cl.pc) > 0 => /\ U[i + 1].type = RequestType(cl.pc)
                              /\ U[i + 1].n = RequestLen(cl.pc) - 1
  /\ cl.pc \in NamedPcs => U[i + 2] = Payload("name", cl.name)

\* The first i messages of U are what a thread at pc still waits for of an
\* upload.
Uploaded(pc, U, i) ==
  \/ i = 0 /\ pc \in {"request", "truncate", "write"}
  \/ i = 1 /\ pc = "body" /\ IsData(U[1])
  \/ i = 1 /\ pc = "filedata" /\ U[1] = EmptyData
  \/ i = 2 /\ pc = "filedata" /\ Announces(U[1]) /\ IsData(U[2])

\* The client's request is on its way, behind the rest of an upload ...
Asked(cl, t, U) ==
  \/ cl.pc = "open" /\ t.pc \in {"new", "open"} /\ Requested(cl, U, 0)
  \/ cl.pc # "open" /\ \E i \in {0, 1, 2} : Uploaded(t.pc, U, i) /\ Requested(cl, U, i)
  \/ /\ cl.pc \in NamedPcs /\ t.pc = "name" /\ t.req.type = RequestType(cl.pc)
     /\ Len(U) = 1 /\ U[1] = Payload("name", cl.name)

\* ... or the reply is: after i messages of D, the data of a get or the sum of
\* a sha256 are still to come.
DataDue(cl, t, D, i) ==
  \/ t.pc \in {"size", "read"} /\ t.name = cl.name /\ Len(D) = i
  \/ t.pc = "request" /\ Len(D) = i + 1 /\ D[i + 1] = EmptyData
  \/ t.pc = "request" /\ Len(D) = i + 2 /\ Announces(D[i + 1]) /\ IsData(D[i + 2])

SumDue(t, D, i) ==
  \/ t.pc = "sha" /\ Len(D) = i
  \/ /\ t.pc = "request" /\ Len(D) = i + 2
     /\ D[i + 1] = Header("FILE_DATA", 0, 1) /\ D[i + 2].type = "digest"

IsReply(D, type, st) == Len(D) > 0 /\ D[1] = Header(type, st, 0)

Answered(cl, t, D) ==
  \/ cl.pc = "open" /\ t.pc = "request" /\ IsReply(D, "OPEN_CONN_REPLY", 1) /\ Len(D) = 1
  \/ /\ cl.pc = "ls" /\ t.pc = "request" /\ Len(D) = 2
     /\ D[1].type = "LIST_REPLY" /\ D[2].type = "text"
  \/ cl.pc = "cd" /\ t.pc = "request" /\ Len(D) = 1 /\ D[1].type = "CD_REPLY"
  \/ cl.pc = "get" /\ t.pc = "request" /\ IsReply(D, "GET_REPLY", 0) /\ Len(D) = 1
  \/ cl.pc = "get" /\ IsReply(D, "GET_REPLY", 1) /\ DataDue(cl, t, D, 1)
  \/ cl.pc = "getdata" /\ DataDue(cl, t, D, 0)
  \/ cl.pc = "getbody" /\ t.pc = "request" /\ Len(D) = 1 /\ IsData(D[1])
  \/ /\ cl.pc = "put" /\ t.pc = "filedata" /\ t.name = cl.name
     /\ IsReply(D, "PUT_REPLY", 0) /\ Len(D) = 1
  \/ cl.pc = "sha" /\ t.pc = "request" /\ IsReply(D, "SHA_REPLY", 0) /\ Len(D) = 1
  \/ cl.pc = "sha" /\ IsReply(D, "SHA_REPLY", 1) /\ SumDue(t, D, 1)
  \/ cl.pc = "shadata" /\ SumDue(t, D, 0)
  \/ cl.pc = "shabody" /\ t.pc = "request" /\ Len(D) = 1 /\ D[1].type = "digest"
  \/ cl.pc = "quit" /\ t.pc = "quit" /\ IsReply(D, "QUIT_REPLY", 0) /\ Len(D) = 1

\* A connection open at both ends: never both a request and a reply.
Live(cl, t, U, D) ==
  \/ D = <<>> /\ Asked(cl, t, U)
  \/ U = <<>> /\ Answered(cl, t, D)

------------------------------------------------------------------------------
(* One end has closed. *)

\* What is left of a reply, after its first i messages.
DataLeft(D, i) ==
  /\ Len(D) <= i + 2
  /\ Len(D) > i => (D[i + 1] = EmptyData /\ Len(D) = i + 1) \/ Announces(D[i + 1])
  /\ Len(D) = i + 2 => IsData(D[i + 2])

SumLeft(D, i) ==
  /\ Len(D) <= i + 2
  /\ Len(D) > i => D[i + 1] = Header("FILE_DATA", 0, 1)
  /\ Len(D) = i + 2 => D[i + 2].type = "digest"

\* The reply that a client at p finds when the server has gone.
DownOK(p, D) ==
  /\ p \in {"prompt", "upload"} => D = <<>>
  /\ p \in {"open", "cd", "put", "quit", "getbody", "shabody"} => Len(D) <= 1
  /\ p = "ls" => \A i \in 1 .. Len(D) : D[i].type \in {"LIST_REPLY", "text"}
  /\ p = "ls" /\ Len(D) > 0 => D[1].type = "LIST_REPLY"
  /\ p = "open" /\ Len(D) > 0 => IsReply(D, "OPEN_CONN_REPLY", 1)
  /\ p = "cd" /\ Len(D) > 0 => D[1].type = "CD_REPLY"
  /\ p = "put" /\ Len(D) > 0 => IsReply(D, "PUT_REPLY", 0)
  /\ p = "quit" /\ Len(D) > 0 => IsReply(D, "QUIT_REPLY", 0)
  /\ p = "get" /\ Len(D) > 0 =>
       \/ IsReply(D, "GET_REPLY", 0) /\ Len(D) = 1
       \/ IsReply(D, "GET_REPLY", 1) /\ DataLeft(D, 1)
  /\ p = "getdata" => DataLeft(D, 0)
  /\ p = "getbody" /\ Len(D) > 0 => IsData(D[1])
  /\ p = "sha" /\ Len(D) > 0 =>
       \/ IsReply(D, "SHA_REPLY", 0) /\ Len(D) = 1
       \/ IsReply(D, "SHA_REPLY", 1) /\ SumLeft(D, 1)
  /\ p = "shadata" => SumLeft(D, 0)
  /\ p = "shabody" /\ Len(D) > 0 => D[1].type = "digest"

RequestLeft(U, i) ==
  /\ Len(U) <= i + 2
  /\ Len(U) > i => U[i + 1].type \in Requests
  /\ Len(U) = i + 2 => U[i + 1].type \in NamedRequests /\ U[i + 2].type = "name"

\* What a thread at pc finds of requests when the client has gone.
UpOK(pc, U) ==
  /\ pc \in {"new", "open"} =>
       Len(U) <= 1 /\ (Len(U) = 1 => U[1].type = "OPEN_CONN_REQUEST" /\ U[1].n = 0)
  /\ pc \in {"request", "truncate", "write"} => RequestLeft(U, 0)
  /\ pc = "name" => Len(U) <= 1 /\ (Len(U) = 1 => U[1].type = "name")
  /\ pc = "filedata" /\ Len(U) > 0 =>
       \/ U[1] = EmptyData /\ RequestLeft(U, 1)
       \/ Announces(U[1]) /\ (Len(U) > 1 => IsData(U[2]) /\ RequestLeft(U, 2))
  /\ pc = "body" /\ Len(U) > 0 => IsData(U[1]) /\ RequestLeft(U, 1)
  /\ pc \in {"size", "read", "sha", "quit", "done"} => U = <<>>

------------------------------------------------------------------------------
\* The client of k has closed its end, the thread t goes on.
Orphan(k, t) ==
  /\ UpOK(t.pc, k.q["server"])
  /\ k.err["server"] # "none" \/ t.out # <<>> => k.q["server"] = <<>>
  /\ k.err["server"] \in {"pipe", "dead"} /\ t.out # <<>> =>
       t.req.type \notin {"CD_REQUEST", "PUT_REQUEST"}

\* A connection k, its thread t and whether the server is up.
ConnOK(k, t, up) ==
  /\ ~k.used => k = Unused /\ (up => t.pc = "new")
  /\ k.open["server"] => k.used /\ up /\ t.pc # "done" /\ k.err["client"] = "none"
  /\ k.used /\ ~k.open["server"] => t.pc = "done"
  /\ ~k.open["server"] => k.q["server"] = <<>>
  /\ k.open["client"] => k.used /\ k.err["server"] = "none"
  /\ ~k.open["client"] => k.q["client"] = <<>>
  /\ k.open["server"] /\ ~k.open["client"] => Orphan(k, t)

\* A connection k whose client's end is open: the client cl and the thread t.
PairOK(cl, t, k) ==
  IF k.open["server"]
  THEN Live(cl, t, k.q["server"] \o cl.out, k.q["client"] \o t.out)
  ELSE /\ DownOK(cl.pc, k.q["client"])
       /\ cl.out # <<>> => k.q["client"] = <<>>

\* A request is sent whole.
RequestOK(cl) == cl.out # <<>> /\ cl.pc # "upload" => Requested(cl, cl.out, 0)

\* An upload is a merge; a download has the length of a file.
ContentOK(t) ==
  /\ t.pc \in {"truncate", "write"} => IsMerge(t.buf)
  /\ t.pc = "read" => t.size = 0 \/ \E o \in Originals : Len(o) = t.size

IInv ==
  /\ TypeInv
  /\ FilesAreMerges
  /\ \A s \in Conns :
       /\ ConnOK(conn[s], session[s], serverUp)
       /\ ContentOK(session[s])
       /\ conn[s].open["client"] => Held(s)
  /\ \A c \in Clients :
       /\ RequestOK(client[c])
       /\ Sock(c) # Fresh =>
            /\ conn[Sock(c)].open["client"]
            /\ PairOK(client[c], session[Sock(c)], conn[Sock(c)])
            /\ \A d \in Clients : Sock(d) = Sock(c) => d = c
==============================================================================
