---------------------------- MODULE FtpTypeProofs -----------------------------
(***************************************************************************)
(* Type correctness of the FTP model, for every set of clients and files,  *)
(* every command set, and listings that arrive in any pieces.              *)
(***************************************************************************)
EXTENDS FtpInvariant, SequenceTheorems, TLAPS

------------------------------------------------------------------------------
(* Messages and contents. *)

LEMMA EmptyContent == <<>> \in Contents /\ <<>> # NoFile /\ <<>> \in Seq(Messages)
<1>1. <<>> \in Contents
  BY DEF Contents
<1>2. QED
  BY <1>1, HeadAssumption

LEMMA HeaderType ==
  ASSUME NEW t \in HeaderTypes, NEW st \in {0, 1}, NEW n \in Nat
  PROVE  /\ Header(t, st, n) \in Messages
         /\ Header(t, st, n).type = t /\ Header(t, st, n).st = st
         /\ Header(t, st, n).n = n
BY DEF Header, Messages

LEMMA PayloadType ==
  /\ Payload("text", NoArg) \in Messages
  /\ \A f \in Names : Payload("name", f) \in Messages
  /\ \A x \in Contents : Payload("data", x) \in Messages /\ Payload("digest", x) \in Messages
BY DEF Payload, Messages

LEMMA HeaderTypesAre ==
  HeaderTypes \cap {"text", "name", "digest", "data"} = {}
BY DEF HeaderTypes, Requests, Replies

LEMMA MessageFields ==
  ASSUME NEW m \in Messages
  PROVE  /\ m.type \in HeaderTypes \cup {"text", "name", "digest", "data"}
         /\ m.n \in Nat /\ m.st \in {0, 1}
         /\ m.type = "name" => m.arg \in Names
         /\ m.type = "data" => m.arg \in Contents
BY HeaderTypesAre DEF Messages

\* What a receiver makes of a message has its type.
LEMMA MessageType ==
  ASSUME NEW m \in Messages
  PROVE  /\ StatusIn(m) \subseteq {0, 1}
         /\ SizeIn(m) \subseteq Nat
         /\ NameIn(m) \subseteq Names
         /\ ContentIn(m) \in Contents
<1>1. StatusIn(m) \subseteq {0, 1} /\ SizeIn(m) \subseteq Nat
  BY MessageFields DEF StatusIn, SizeIn
<1>2. NameIn(m) \subseteq Names
  BY MessageFields DEF NameIn
<1>3. <<Junk>> \in Contents
  BY DEF Contents
<1>4. QED
  BY <1>1, <1>2, <1>3, MessageFields DEF ContentIn

LEMMA RepliesType ==
  /\ ListReply \in Seq(Messages)
  /\ \A x \in Contents : FileData(x) \in Seq(Messages) /\ FileData(x) # <<>>
  /\ \A x \in Contents : ShaData(x) \in Seq(Messages)
<1>1. "LIST_REPLY" \in HeaderTypes /\ "FILE_DATA" \in HeaderTypes
  BY DEF HeaderTypes, Replies
<1>2. ListReply \in Seq(Messages)
  BY <1>1, HeaderType, PayloadType DEF ListReply
<1>3. ASSUME NEW x \in Contents PROVE FileData(x) \in Seq(Messages) /\ FileData(x) # <<>>
  <2>1. Header("FILE_DATA", 0, Len(x)) \in Messages
    BY <1>1, HeaderType DEF Contents
  <2>2. Payload("data", x) \in Messages
    BY PayloadType
  <2>3. QED
    BY <2>1, <2>2 DEF FileData
<1>4. ASSUME NEW x \in Contents PROVE ShaData(x) \in Seq(Messages)
  BY <1>1, HeaderType, PayloadType DEF ShaData
<1>5. QED
  BY <1>2, <1>3, <1>4

LEMMA NameRequestType ==
  ASSUME NEW t \in Requests, NEW f \in Names
  PROVE  NameRequest(t, f) \in Seq(Messages) /\ NameRequest(t, f) # <<>>
BY HeaderType, PayloadType DEF NameRequest, HeaderTypes

------------------------------------------------------------------------------
(* Connections. *)

LEMMA StreamTypes ==
  ASSUME NEW k \in Connections, NEW e \in Ends
  PROVE  /\ Peer(e) \in Ends
         /\ k.used \in BOOLEAN /\ k.open[e] \in BOOLEAN
         /\ k.q[e] \in Seq(Messages)
         /\ k.err[e] \in {"none", "pipe", "reset", "dead"}
         /\ HasData(k, e) => First(k, e) \in Messages
BY DEF Connections, Ends, Peer, HasData, First

LEMMA BlankType ==
  ASSUME NEW used \in BOOLEAN, NEW open \in BOOLEAN
  PROVE  Blank(used, open) \in Connections
<1>1. [e \in Ends |-> <<>>] \in [Ends -> Seq(Messages)]
  BY EmptyContent
<1>2. QED
  BY <1>1 DEF Blank, Connections

LEMMA AfterRecvType ==
  ASSUME NEW k \in Connections, NEW e \in Ends, HasData(k, e)
  PROVE  AfterRecv(k, e) \in Connections
<1>1. Tail(k.q[e]) \in Seq(Messages)
  BY StreamTypes DEF HasData
<1>2. [k.q EXCEPT ![e] = Tail(@)] \in [Ends -> Seq(Messages)]
  BY <1>1 DEF Connections
<1>3. QED
  BY <1>2 DEF AfterRecv, Connections

LEMMA AfterSendType ==
  ASSUME NEW k \in Connections, NEW e \in Ends, NEW ms \in Seq(Messages)
  PROVE  AfterSend(k, e, ms) \in Connections
<1>1. Peer(e) \in Ends /\ k.q[Peer(e)] \o ms \in Seq(Messages)
  BY StreamTypes
<1>2. QED
  BY <1>1 DEF AfterSend, Connections

LEMMA AfterEndedType ==
  ASSUME NEW k \in Connections, NEW e \in Ends
  PROVE  AfterEnded(k, e) \in Connections
BY StreamTypes DEF AfterEnded, Connections

LEMMA ClosedType ==
  ASSUME NEW k \in Connections, NEW e \in Ends
  PROVE  Closed(k, e) \in Connections
<1>1. Peer(e) \in Ends /\ k.err[Peer(e)] \in {"none", "pipe", "reset", "dead"}
  BY StreamTypes
<1>2. CASE ~k.open[Peer(e)]
  BY <1>2, BlankType DEF Closed, Spent
<1>3. CASE k.open[Peer(e)]
  <2> DEFINE open == [k.open EXCEPT ![e] = FALSE]
             q    == [k.q EXCEPT ![e] = <<>>]
             err  == [k.err EXCEPT ![Peer(e)] = IF k.q[e] # <<>> THEN "reset" ELSE @]
  <2>1. Closed(k, e) = [used |-> k.used, open |-> open, q |-> q, err |-> err]
    BY <1>3 DEF Closed, Connections
  <2>2. open \in [Ends -> BOOLEAN]
    BY DEF Connections
  <2>3. q \in [Ends -> Seq(Messages)]
    BY DEF Connections
  <2>4. err \in [Ends -> {"none", "pipe", "reset", "dead"}]
    BY <1>1 DEF Connections
  <2>5. k.used \in BOOLEAN
    BY DEF Connections
  <2>6. QED
    BY <2>1, <2>2, <2>3, <2>4, <2>5 DEF Connections
<1>4. QED
  BY <1>2, <1>3

------------------------------------------------------------------------------
(* Threads and files. *)

LEMMA NewSessionType ==
  /\ NewSession \in Sessions
  /\ NewSession.pc = "new" /\ NewSession.out = <<>> /\ NewSession.req = Uninit
  /\ Uninit \in Messages /\ Uninit.type = "text"
<1>1. Uninit \in Messages /\ Uninit.type = "text"
  BY PayloadType DEF Uninit, Payload
<1>2. <<>> \in Contents /\ <<>> \in Seq(Messages) /\ Root \in Dirs
  BY EmptyContent, ServerAssumption
<1>3. QED
  BY <1>1, <1>2 DEF NewSession, Sessions, SessionPcs

LEMMA ExitedType ==
  ASSUME NEW t \in Sessions, NEW fs
  PROVE  /\ Exited(t) \in Sessions /\ SessionOK(Exited(t), fs)
         /\ Exited(t).pc = "done" /\ Exited(t).out = <<>> /\ Exited(t).req = t.req
<1>1. t.req \in Messages
  BY DEF Sessions
<1>2. Exited(t) \in Sessions
  BY <1>1, NewSessionType DEF Exited, Sessions, SessionPcs
<1>3. Exited(t).pc = "done" /\ Exited(t).out = <<>> /\ Exited(t).req = t.req
  BY NewSessionType DEF Exited, Sessions
<1>4. QED
  BY <1>2, <1>3 DEF SessionOK

LEMMA TypeFacts ==
  ASSUME TypeInv, NEW s \in Conns
  PROVE  /\ conn[s] \in Connections /\ session[s] \in Sessions
         /\ session[s].pc \in SessionPcs /\ session[s].cwd \in Dirs
         /\ session[s].req \in Messages /\ session[s].name \in Names \cup {NoArg}
         /\ session[s].size \in Nat /\ session[s].buf \in Contents
         /\ session[s].out \in Seq(Messages)
         /\ SessionOK(session[s], files)
         /\ session[s].name \in Names => Path(s) \in Paths
         /\ "server" \in Ends /\ "client" \in Ends
BY DEF TypeInv, TypeOK, Sessions, Path, Paths, Ends

\* A step of the thread s.
LEMMA SessionFrame ==
  ASSUME TypeInv, NEW s \in Conns, NEW k \in Connections, NEW t \in Sessions,
         conn' = [conn EXCEPT ![s] = k], session' = [session EXCEPT ![s] = t],
         files' \in [Paths -> Contents \cup {NoFile}],
         \A p \in Paths : files[p] # NoFile => files'[p] # NoFile,
         SessionOK(t, files'), serverUp' \in BOOLEAN, UNCHANGED clientVars
  PROVE  TypeInv'
<1>1. TypeOK'
  BY DEF TypeInv, TypeOK, clientVars
<1>2. ASSUME NEW r \in Conns PROVE SessionOK(session[r], files)'
  <2>1. CASE r = s
    BY <2>1 DEF TypeInv, TypeOK
  <2>2. CASE r # s
    <3>1. session'[r] = session[r]
      BY <2>2 DEF TypeInv, TypeOK
    <3>2. session[r].name \in Names => <<session[r].cwd, session[r].name>> \in Paths
      BY TypeFacts DEF Path
    <3>3. SessionOK(session[r], files)
      BY DEF TypeInv
    <3>4. QED
      BY <3>1, <3>2, <3>3 DEF SessionOK
  <2>3. QED
    BY <2>1, <2>2
<1>3. \A c \in Clients : ClientOK(client[c], disk[c])'
  BY DEF TypeInv, clientVars
<1>4. QED
  BY <1>1, <1>2, <1>3 DEF TypeInv

\* The same, of a step that leaves the files alone.
LEMMA SessionFrameFiles ==
  ASSUME TypeInv, NEW s \in Conns, NEW k \in Connections, NEW t \in Sessions,
         conn' = [conn EXCEPT ![s] = k], session' = [session EXCEPT ![s] = t],
         SessionOK(t, files), files' = files, serverUp' \in BOOLEAN, UNCHANGED clientVars
  PROVE  TypeInv'
<1>1. files \in [Paths -> Contents \cup {NoFile}]
  BY DEF TypeInv, TypeOK
<1>2. QED
  BY <1>1, SessionFrame

LEMMA HangUpType ==
  ASSUME TypeInv, NEW s \in Conns, NEW k \in Connections, HangUp(s, k),
         UNCHANGED <<files, serverUp>>, UNCHANGED clientVars
  PROVE  TypeInv'
<1>1. Closed(k, "server") \in Connections
  BY ClosedType, TypeFacts
<1>2. Exited(session[s]) \in Sessions /\ SessionOK(Exited(session[s]), files)
  BY ExitedType, TypeFacts
<1>3. session' = [session EXCEPT ![s] = Exited(session[s])]
  BY DEF HangUp
<1>4. serverUp' \in BOOLEAN
  BY DEF TypeInv, TypeOK
<1>5. QED
  BY <1>1, <1>2, <1>3, <1>4, SessionFrameFiles DEF HangUp

LEMMA KilledType ==
  ASSUME TypeInv, Killed, files' = files, UNCHANGED clientVars
  PROVE  TypeInv'
<1>1. conn' \in [Conns -> Connections]
  BY ClosedType, TypeFacts DEF Killed, TypeInv, TypeOK
<1>2. session' \in [Conns -> Sessions]
  BY ExitedType DEF Killed, TypeInv, TypeOK
<1>3. ASSUME NEW s \in Conns PROVE SessionOK(session'[s], files)
  BY ExitedType, TypeFacts DEF Killed
<1>4. QED
  BY <1>1, <1>2, <1>3 DEF Killed, TypeInv, TypeOK, clientVars

------------------------------------------------------------------------------
(* The steps of a thread. *)

\* A connection stays what it is when a step leaves all of them alone.
LEMMA ConnSame ==
  ASSUME TypeInv, NEW s \in Conns, UNCHANGED conn
  PROVE  conn' = [conn EXCEPT ![s] = conn[s]]
BY DEF TypeInv, TypeOK

LEMMA GotoType ==
  ASSUME TypeInv, NEW s \in Conns, NEW k \in Connections,
         NEW pc \in SessionPcs, NEW out \in Seq(Messages), Goto(s, k, pc, out),
         SessionOK([session[s] EXCEPT !.pc = pc, !.out = out], files),
         UNCHANGED <<files, serverUp>>, UNCHANGED clientVars
  PROVE  TypeInv'
<1>1. [session[s] EXCEPT !.pc = pc, !.out = out] \in Sessions
  BY TypeFacts DEF Sessions
<1>2. serverUp' \in BOOLEAN
  BY DEF TypeInv, TypeOK
<1>3. QED
  BY <1>1, <1>2, SessionFrameFiles DEF Goto

LEMMA AcceptType ==
  ASSUME TypeInv, NEW s \in Conns, Accept(s), UNCHANGED clientVars
  PROVE  TypeInv'
<1> DEFINE t == [session[s] EXCEPT !.pc = "open"]
<1>1. t \in Sessions /\ SessionOK(t, files)
  BY TypeFacts DEF Sessions, SessionPcs, SessionOK
<1>2. session' = [session EXCEPT ![s] = t] /\ conn' = [conn EXCEPT ![s] = conn[s]]
  BY ConnSame DEF Accept
<1>3. serverUp' \in BOOLEAN /\ files' = files
  BY DEF TypeInv, TypeOK, Accept
<1>4. QED
  BY <1>1, <1>2, <1>3, TypeFacts, SessionFrameFiles

LEMMA ServerSendType ==
  ASSUME TypeInv, NEW s \in Conns, ServerSend(s), UNCHANGED clientVars
  PROVE  TypeInv'
<1> DEFINE ms == <<Head(session[s].out)>>
           k  == AfterSend(conn[s], "server", ms)
<1>1. session[s].out \in Seq(Messages) /\ session[s].out # <<>>
  BY TypeFacts DEF ServerSend
<1>2. ms \in Seq(Messages) /\ Tail(session[s].out) \in Seq(Messages)
      /\ Len(Tail(session[s].out)) = Len(session[s].out) - 1
  BY <1>1
<1>3. k \in Connections
  BY <1>2, TypeFacts, AfterSendType
<1>4. files' = files
  BY DEF ServerSend
<1>5. CASE SendResult(conn[s], "server") = "ok"
  <2>1. Goto(s, k, session[s].pc, Tail(session[s].out)) /\ UNCHANGED serverUp
    BY <1>5 DEF ServerSend
  <2> DEFINE t == [session[s] EXCEPT !.pc = session[s].pc, !.out = Tail(session[s].out)]
  <2>2. t.pc = session[s].pc /\ t.name = session[s].name /\ t.cwd = session[s].cwd
        /\ t.req = session[s].req /\ t.out = Tail(session[s].out)
    BY TypeFacts DEF Sessions
  <2>3. SessionOK(t, files)
    <3> HIDE DEF t
    <3>1. SessionOK(session[s], files) /\ session[s].pc \notin {"new", "done"}
      BY <1>1, TypeFacts DEF SessionOK
    <3>2. Len(session[s].out) <= 1 => Len(t.out) <= 1
      BY <1>1, <1>2, <2>2
    <3>3. QED
      BY <2>2, <3>1, <3>2 DEF SessionOK
  <2>4. QED
    BY <1>2, <1>3, <1>4, <2>1, <2>3, TypeFacts, GotoType
<1>6. CASE SendResult(conn[s], "server") = "error"
  <2>1. HangUp(s, k) /\ UNCHANGED serverUp
    BY <1>6 DEF ServerSend
  <2>2. QED
    BY <1>3, <1>4, <2>1, HangUpType
<1>7. CASE SendResult(conn[s], "server") \notin {"ok", "error"}
  <2>1. Killed
    BY <1>7 DEF ServerSend
  <2>2. QED
    BY <1>4, <2>1, KilledType
<1>8. QED
  BY <1>5, <1>6, <1>7

LEMMA RecvFailsType ==
  ASSUME TypeInv, NEW s \in Conns, RecvFails(s), UNCHANGED clientVars
  PROVE  TypeInv'
BY TypeFacts, AfterEndedType, HangUpType DEF RecvFails

\* What a thread finds in the stream is a message, and the rest a stream.
LEMMA ArrivedType ==
  ASSUME TypeInv, NEW s \in Conns, NEW pc, Arrived(s, pc)
  PROVE  /\ Incoming(s) \in Messages /\ Taken(s) \in Connections
         /\ session[s].pc = pc /\ session[s].out = <<>>
BY TypeFacts, StreamTypes, AfterRecvType DEF Arrived, At, Incoming, Taken

LEMMA RecvOpenRequestType ==
  ASSUME TypeInv, NEW s \in Conns, RecvOpenRequest(s), UNCHANGED clientVars
  PROVE  TypeInv'
<1>1. Taken(s) \in Connections /\ UNCHANGED <<files, serverUp>>
  BY ArrivedType DEF RecvOpenRequest
<1> DEFINE out == <<Header("OPEN_CONN_REPLY", 1, 0)>>
           t   == [session[s] EXCEPT !.pc = "request", !.out = out]
<1>2. CASE Goto(s, Taken(s), "request", out)
  <2>1. out \in Seq(Messages) /\ Len(out) = 1 /\ "request" \in SessionPcs
    BY HeaderType DEF HeaderTypes, SessionPcs
  <2>2. t.pc = "request" /\ t.out = out
    BY TypeFacts DEF Sessions
  <2>3. SessionOK(t, files)
    BY <2>1, <2>2 DEF SessionOK
  <2>4. QED
    BY <1>1, <1>2, <2>1, <2>3, GotoType
<1>3. CASE HangUp(s, Taken(s))
  BY <1>1, <1>3, HangUpType
<1>4. QED
  BY <1>2, <1>3 DEF RecvOpenRequest

LEMMA DispatchType ==
  ASSUME TypeInv, NEW s \in Conns, NEW m \in Messages, NEW k \in Connections,
         session[s].out = <<>>, Dispatch(s, m, k),
         UNCHANGED <<files, serverUp>>, UNCHANGED clientVars
  PROVE  TypeInv'
<1>1. CASE m.type \notin Requests
  BY <1>1, HangUpType DEF Dispatch
<1>2. CASE m.type \in Requests
  <2> DEFINE next == CASE m.type = "LIST_REQUEST" -> [pc |-> "request", out |-> ListReply]
                       [] m.type = "QUIT_REQUEST" ->
                            [pc |-> "quit", out |-> <<Header("QUIT_REPLY", 0, 0)>>]
                       [] OTHER -> [pc |-> "name", out |-> <<>>]
             t    == [session[s] EXCEPT
                        !.pc = next.pc, !.out = next.out, !.req = m, !.name = NoArg]
  <2>1. conn' = [conn EXCEPT ![s] = k] /\ session' = [session EXCEPT ![s] = t]
    BY <1>2 DEF Dispatch
  <2>2. \/ m.type = "LIST_REQUEST" /\ next.pc = "request" /\ next.out = ListReply
        \/ m.type = "QUIT_REQUEST" /\ next.pc = "quit"
           /\ next.out = <<Header("QUIT_REPLY", 0, 0)>>
        \/ m.type \in NamedRequests /\ next.pc = "name" /\ next.out = <<>>
    BY <1>2 DEF Requests, NamedRequests
  <2>3. <<Header("QUIT_REPLY", 0, 0)>> \in Seq(Messages)
    <3>1. "QUIT_REPLY" \in HeaderTypes
      BY DEF HeaderTypes, Replies
    <3> HIDE DEF next, t
    <3>2. QED
      BY <3>1, HeaderType
  <2>4. next.pc \in SessionPcs /\ next.out \in Seq(Messages)
    BY <2>2, <2>3, RepliesType, EmptyContent DEF SessionPcs
  <2>5. t \in Sessions /\ t.pc = next.pc /\ t.req = m /\ t.out = next.out
    BY <2>4, TypeFacts DEF Sessions
  <2>6. SessionOK(t, files)
    BY <2>2, <2>5 DEF SessionOK, NamedRequests
  <2>7. serverUp' \in BOOLEAN
    BY DEF TypeInv, TypeOK
  <2>8. QED
    BY <2>1, <2>5, <2>6, <2>7, SessionFrameFiles
<1>3. QED
  BY <1>1, <1>2

LEMMA RecvRequestType ==
  ASSUME TypeInv, NEW s \in Conns, RecvRequest(s), UNCHANGED clientVars
  PROVE  TypeInv'
<1>1. CASE Arrived(s, "request") /\ Dispatch(s, Incoming(s), Taken(s))
  BY <1>1, ArrivedType, DispatchType DEF RecvRequest
<1>2. ASSUME At(s, "request"), NEW m \in StaleRequests(s),
             Dispatch(s, m, AfterEnded(conn[s], "server"))
      PROVE  TypeInv'
  <2>1. m \in Messages
    BY <1>2, TypeFacts, NewSessionType DEF StaleRequests
  <2>2. QED
    BY <1>2, <2>1, TypeFacts, AfterEndedType, DispatchType DEF RecvRequest, At
<1>3. QED
  BY <1>1, <1>2 DEF RecvRequest

\* The name in a request, and the answer to it.
LEMMA AnswerType ==
  ASSUME TypeInv, NEW s \in Conns, session[s].pc = "name", NEW f \in Names
  PROVE  LET a == Answer(s, session[s].req.type, f)
         IN  /\ a.pc \in {"request", "size", "sha", "filedata"}
             /\ a.pc \in {"size", "sha"} => files[<<a.cwd, f>>] # NoFile
             /\ a.pc = "size" => session[s].req.type = "GET_REQUEST"
             /\ a.pc = "sha" => session[s].req.type = "SHA_REQUEST"
             /\ a.cwd \in Dirs /\ a.reply \in Messages
<1> DEFINE t == session[s].req.type
           d == session[s].cwd
           a == Answer(s, t, f)
<1>1. t \in NamedRequests /\ d \in Dirs
  BY TypeFacts DEF SessionOK
<1>2. {"CD_REPLY", "GET_REPLY", "SHA_REPLY", "PUT_REPLY"} \subseteq HeaderTypes
  BY DEF HeaderTypes, Replies
<1>3. \A r \in HeaderTypes : Header(r, 0, 0) \in Messages /\ Header(r, 1, 0) \in Messages
  BY HeaderType
<1>4. IsDirectory(d, f) => Entered(d, f) \in Dirs
  BY ServerAssumption DEF IsDirectory, Entered
<1>5. CASE t = "CD_REQUEST"
  <2>1. a = [reply |-> Header("CD_REPLY", IF IsDirectory(d, f) THEN 1 ELSE 0, 0),
             pc    |-> IF IsDirectory(d, f) THEN "request" ELSE "request",
             cwd   |-> IF IsDirectory(d, f) /\ t = "CD_REQUEST" THEN Entered(d, f) ELSE d]
    BY <1>5 DEF Answer
  <2>2. QED
    BY <1>1, <1>2, <1>3, <1>4, <2>1
<1>6. CASE t = "GET_REQUEST"
  <2>1. a = [reply |-> Header("GET_REPLY", IF IsFile(d, f) THEN 1 ELSE 0, 0),
             pc    |-> IF IsFile(d, f) THEN "size" ELSE "request",
             cwd   |-> IF IsFile(d, f) /\ t = "CD_REQUEST" THEN Entered(d, f) ELSE d]
    BY <1>6 DEF Answer
  <2>2. QED
    BY <1>1, <1>2, <1>3, <1>6, <2>1 DEF IsFile
<1>7. CASE t = "SHA_REQUEST"
  <2>1. a = [reply |-> Header("SHA_REPLY", IF IsFile(d, f) THEN 1 ELSE 0, 0),
             pc    |-> IF IsFile(d, f) THEN "sha" ELSE "request",
             cwd   |-> IF IsFile(d, f) /\ t = "CD_REQUEST" THEN Entered(d, f) ELSE d]
    BY <1>7 DEF Answer
  <2>2. QED
    BY <1>1, <1>2, <1>3, <1>7, <2>1 DEF IsFile
<1>8. CASE t = "PUT_REQUEST"
  <2>1. a = [reply |-> Header("PUT_REPLY", 0, 0), pc |-> "filedata", cwd |-> d]
    BY <1>8 DEF Answer
  <2>2. QED
    BY <1>1, <1>2, <1>3, <2>1
<1>9. QED
  BY <1>1, <1>5, <1>6, <1>7, <1>8 DEF NamedRequests

LEMMA RecvNameType ==
  ASSUME TypeInv, NEW s \in Conns, RecvName(s), UNCHANGED clientVars
  PROVE  TypeInv'
<1>1. Incoming(s) \in Messages /\ Taken(s) \in Connections /\ session[s].pc = "name"
  BY ArrivedType DEF RecvName
<1>2. NameIn(Incoming(s)) \subseteq Names
  BY <1>1, MessageType
<1>3. PICK f \in Names :
        LET a == Answer(s, session[s].req.type, f)
        IN  session' = [session EXCEPT
              ![s] = [@ EXCEPT !.pc = a.pc, !.name = f, !.cwd = a.cwd, !.out = <<a.reply>>]]
  BY <1>2 DEF RecvName
<1> DEFINE a == Answer(s, session[s].req.type, f)
           t == [session[s] EXCEPT !.pc = a.pc, !.name = f, !.cwd = a.cwd, !.out = <<a.reply>>]
<1>4. session' = [session EXCEPT ![s] = t]
  BY <1>3
<1>5. /\ a.pc \in {"request", "size", "sha", "filedata"}
      /\ a.pc \in {"size", "sha"} => files[<<a.cwd, f>>] # NoFile
      /\ a.pc = "size" => session[s].req.type = "GET_REQUEST"
      /\ a.pc = "sha" => session[s].req.type = "SHA_REQUEST"
      /\ a.cwd \in Dirs /\ a.reply \in Messages
  BY <1>1, AnswerType
<1> HIDE DEF a
<1>6. t \in Sessions
  <2>1. a.pc \in SessionPcs /\ <<a.reply>> \in Seq(Messages)
    BY <1>5 DEF SessionPcs
  <2>2. QED
    BY <1>5, <2>1, TypeFacts DEF Sessions
<1>7. t.pc = a.pc /\ t.name = f /\ t.cwd = a.cwd /\ t.out = <<a.reply>> /\ t.req = session[s].req
  BY TypeFacts DEF Sessions
<1> HIDE DEF t
<1>8. SessionOK(t, files)
  BY <1>5, <1>7 DEF SessionOK
<1>9. serverUp' \in BOOLEAN /\ files' = files /\ conn' = [conn EXCEPT ![s] = Taken(s)]
  BY DEF TypeInv, TypeOK, RecvName
<1>10. QED
  BY <1>1, <1>4, <1>6, <1>8, <1>9, SessionFrameFiles

\* A thread that is to use a file has its path, and the file has content.
LEMMA PathType ==
  ASSUME TypeInv, NEW s \in Conns,
         session[s].pc \in {"size", "read", "sha", "truncate", "write"}
  PROVE  /\ Path(s) \in Paths /\ Path(s) = <<session[s].cwd, session[s].name>>
         /\ session[s].name \in Names
         /\ session[s].pc # "truncate" => files[Path(s)] \in Contents
<1>1. session[s].name \in Names /\ Path(s) \in Paths
  BY TypeFacts DEF SessionOK
<1>2. session[s].pc # "truncate" => files[<<session[s].cwd, session[s].name>>] # NoFile
  BY TypeFacts DEF SessionOK
<1>3. files[Path(s)] \in Contents \cup {NoFile}
  BY <1>1 DEF TypeInv, TypeOK
<1>4. QED
  BY <1>1, <1>2, <1>3 DEF Path

LEMMA FileSizeType ==
  ASSUME TypeInv, NEW s \in Conns, FileSize(s), UNCHANGED clientVars
  PROVE  TypeInv'
<1> DEFINE n == Len(files[Path(s)])
           t == [[session[s] EXCEPT !.pc = "read"] EXCEPT !.size = n]
<1>1. session[s].pc = "size"
  BY DEF FileSize, At
<1>2. n \in Nat
  BY <1>1, PathType DEF Contents
<1>3. session' = [session EXCEPT ![s] = t]
  BY TypeFacts DEF FileSize, Sessions, TypeInv, TypeOK
<1> HIDE DEF n
<1>4. t \in Sessions /\ t.pc = "read" /\ t.name = session[s].name
      /\ t.cwd = session[s].cwd /\ t.out = session[s].out /\ t.req = session[s].req
  BY <1>2, TypeFacts DEF Sessions, SessionPcs
<1> HIDE DEF t
<1>5. SessionOK(t, files)
  BY <1>1, <1>4, TypeFacts DEF SessionOK
<1>6. serverUp' \in BOOLEAN /\ files' = files /\ conn' = [conn EXCEPT ![s] = conn[s]]
  BY ConnSame DEF TypeInv, TypeOK, FileSize
<1>7. QED
  BY <1>3, <1>4, <1>5, <1>6, TypeFacts, SessionFrameFiles

\* What was read is content, whatever the file holds by now.
LEMMA FileContentType ==
  ASSUME TypeInv, NEW s \in Conns, session[s].pc = "read"
  PROVE  FileContent(s) \in Contents
<1>1. files[Path(s)] \in Contents /\ session[s].size \in Nat
  BY PathType, TypeFacts
<1>2. QED
  BY <1>1 DEF FileContent, Contents

LEMMA ReadFileType ==
  ASSUME TypeInv, NEW s \in Conns, ReadFile(s), UNCHANGED clientVars
  PROVE  TypeInv'
<1>1. session[s].pc = "read" /\ UNCHANGED <<files, serverUp>>
  BY DEF ReadFile, At
<1>2. CASE HangUp(s, conn[s])
  BY <1>1, <1>2, TypeFacts, HangUpType
<1> DEFINE data == FileData(FileContent(s))
           t    == [session[s] EXCEPT !.pc = "request", !.size = 0, !.out = data]
<1>3. CASE session' = [session EXCEPT ![s] = t] /\ UNCHANGED conn
  <2>1. data \in Seq(Messages)
    BY <1>1, FileContentType, RepliesType
  <2> HIDE DEF data
  <2>2. t \in Sessions /\ t.pc = "request" /\ t.req = session[s].req /\ t.out = data
    BY <2>1, TypeFacts DEF Sessions, SessionPcs
  <2> HIDE DEF t
  <2>3. SessionOK(t, files)
    BY <1>1, <2>2, TypeFacts DEF SessionOK
  <2>4. serverUp' \in BOOLEAN /\ conn' = [conn EXCEPT ![s] = conn[s]]
    BY <1>1, <1>3, ConnSame DEF TypeInv, TypeOK
  <2>5. QED
    BY <1>1, <1>3, <2>2, <2>3, <2>4, TypeFacts, SessionFrameFiles
<1>4. QED
  BY <1>2, <1>3 DEF ReadFile

LEMMA Sha256sumType ==
  ASSUME TypeInv, NEW s \in Conns, Sha256sum(s), UNCHANGED clientVars
  PROVE  TypeInv'
<1> DEFINE data == ShaData(files[Path(s)])
           t    == [session[s] EXCEPT !.pc = "request", !.out = data]
<1>1. session[s].pc = "sha" /\ UNCHANGED <<conn, files, serverUp>>
  BY DEF Sha256sum, At
<1>2. data \in Seq(Messages)
  BY <1>1, PathType, RepliesType
<1>3. session' = [session EXCEPT ![s] = t]
  BY DEF Sha256sum
<1> HIDE DEF data
<1>4. t \in Sessions /\ t.pc = "request" /\ t.req = session[s].req /\ t.out = data
  BY <1>2, TypeFacts DEF Sessions, SessionPcs
<1> HIDE DEF t
<1>5. SessionOK(t, files)
  BY <1>1, <1>4, TypeFacts DEF SessionOK
<1>6. serverUp' \in BOOLEAN /\ conn' = [conn EXCEPT ![s] = conn[s]]
  BY <1>1, ConnSame DEF TypeInv, TypeOK
<1>7. QED
  BY <1>1, <1>3, <1>4, <1>5, <1>6, TypeFacts, SessionFrameFiles

LEMMA RecvFileDataType ==
  ASSUME TypeInv, NEW s \in Conns, RecvFileData(s), UNCHANGED clientVars
  PROVE  TypeInv'
<1>1. Taken(s) \in Connections /\ session[s].pc = "filedata" /\ session[s].out = <<>>
  BY ArrivedType DEF RecvFileData
<1>2. PICK n \in SizeIn(Incoming(s)) :
        session' = [session EXCEPT
          ![s] = [@ EXCEPT !.pc = IF n = 0 THEN "truncate" ELSE "body", !.buf = <<>>]]
  BY DEF RecvFileData
<1> DEFINE pc == IF n = 0 THEN "truncate" ELSE "body"
           t  == [session[s] EXCEPT !.pc = pc, !.buf = <<>>]
<1>3. session' = [session EXCEPT ![s] = t]
  BY <1>2
<1>4. pc \in {"truncate", "body"}
  OBVIOUS
<1> HIDE DEF pc
<1>5. t \in Sessions /\ t.pc = pc /\ t.req = session[s].req /\ t.out = session[s].out
      /\ t.name = session[s].name
  BY <1>4, EmptyContent, TypeFacts DEF Sessions, SessionPcs
<1> HIDE DEF t
<1>6. SessionOK(t, files)
  BY <1>1, <1>4, <1>5, TypeFacts DEF SessionOK
<1>7. serverUp' \in BOOLEAN /\ files' = files /\ conn' = [conn EXCEPT ![s] = Taken(s)]
  BY DEF TypeInv, TypeOK, RecvFileData
<1>8. QED
  BY <1>1, <1>3, <1>5, <1>6, <1>7, SessionFrameFiles

LEMMA RecvFileContentType ==
  ASSUME TypeInv, NEW s \in Conns, RecvFileContent(s), UNCHANGED clientVars
  PROVE  TypeInv'
<1>1. /\ Taken(s) \in Connections /\ session[s].pc = "body" /\ session[s].out = <<>>
      /\ Incoming(s) \in Messages
  BY ArrivedType DEF RecvFileContent
<1> DEFINE data == ContentIn(Incoming(s))
           t    == [session[s] EXCEPT !.pc = "truncate", !.buf = data]
<1>2. session' = [session EXCEPT ![s] = t] /\ data \in Contents
  BY <1>1, MessageType DEF RecvFileContent
<1> HIDE DEF data
<1>3. t \in Sessions /\ t.pc = "truncate" /\ t.req = session[s].req
      /\ t.out = session[s].out /\ t.name = session[s].name
  BY <1>2, TypeFacts DEF Sessions, SessionPcs
<1> HIDE DEF t
<1>4. SessionOK(t, files)
  BY <1>1, <1>3, TypeFacts DEF SessionOK
<1>5. serverUp' \in BOOLEAN /\ files' = files /\ conn' = [conn EXCEPT ![s] = Taken(s)]
  BY DEF TypeInv, TypeOK, RecvFileContent
<1>6. QED
  BY <1>1, <1>2, <1>3, <1>4, <1>5, SessionFrameFiles

LEMMA OpenForWritingType ==
  ASSUME TypeInv, NEW s \in Conns, OpenForWriting(s), UNCHANGED clientVars
  PROVE  TypeInv'
<1>1. session[s].pc = "truncate" /\ session[s].out = <<>> /\ serverUp' \in BOOLEAN
      /\ UNCHANGED serverUp
  BY DEF OpenForWriting, At, TypeInv, TypeOK
<1>2. CASE HangUp(s, conn[s]) /\ UNCHANGED files
  BY <1>1, <1>2, TypeFacts, HangUpType
<1>3. CASE /\ files' = [files EXCEPT ![Path(s)] = <<>>]
           /\ session' = [session EXCEPT ![s].pc = "write"]
           /\ UNCHANGED conn
  <2> DEFINE t == [session[s] EXCEPT !.pc = "write"]
  <2>1. session' = [session EXCEPT ![s] = t] /\ conn' = [conn EXCEPT ![s] = conn[s]]
    BY <1>3, ConnSame
  <2>2. t \in Sessions /\ t.pc = "write" /\ t.req = session[s].req
        /\ t.out = session[s].out /\ t.name = session[s].name /\ t.cwd = session[s].cwd
    BY TypeFacts DEF Sessions, SessionPcs
  <2> HIDE DEF t
  <2>3. Path(s) \in Paths /\ Path(s) = <<t.cwd, t.name>> /\ t.name \in Names
    BY <1>1, <2>2, PathType
  <2>4. /\ files' \in [Paths -> Contents \cup {NoFile}]
        /\ files'[Path(s)] # NoFile
        /\ \A p \in Paths : files[p] # NoFile => files'[p] # NoFile
    BY <1>3, <2>3, EmptyContent DEF TypeInv, TypeOK
  <2>5. SessionOK(t, files')
    BY <1>1, <2>2, <2>3, <2>4, EmptyContent DEF SessionOK
  <2>6. QED
    BY <1>1, <2>1, <2>2, <2>4, <2>5, TypeFacts, SessionFrame
<1>4. QED
  BY <1>2, <1>3 DEF OpenForWriting

LEMMA OverwriteType ==
  ASSUME NEW old \in Contents, NEW new \in Contents
  PROVE  Overwrite(old, new) \in Contents
<1>1. SubSeq(old, Len(new) + 1, Len(old)) \in Contents
  BY SubSeqProperties DEF Contents
<1>2. QED
  BY <1>1 DEF Overwrite, Contents

LEMMA WriteFileType ==
  ASSUME TypeInv, NEW s \in Conns, WriteFile(s), UNCHANGED clientVars
  PROVE  TypeInv'
<1>1. session[s].pc = "write" /\ session[s].out = <<>> /\ serverUp' \in BOOLEAN
      /\ UNCHANGED conn
  BY DEF WriteFile, At, TypeInv, TypeOK
<1> DEFINE t == [session[s] EXCEPT !.pc = "request", !.buf = <<>>]
<1>2. session' = [session EXCEPT ![s] = t] /\ conn' = [conn EXCEPT ![s] = conn[s]]
  BY <1>1, ConnSame DEF WriteFile
<1>3. t \in Sessions /\ t.pc = "request" /\ t.req = session[s].req
      /\ t.out = session[s].out
  BY EmptyContent, TypeFacts DEF Sessions, SessionPcs
<1> HIDE DEF t
<1>4. Path(s) \in Paths /\ files[Path(s)] \in Contents /\ session[s].buf \in Contents
  BY <1>1, PathType, TypeFacts
<1>5. Overwrite(files[Path(s)], session[s].buf) \in Contents
  BY <1>4, OverwriteType
<1>6. files' = [files EXCEPT ![Path(s)] = Overwrite(files[Path(s)], session[s].buf)]
  BY DEF WriteFile
<1>7. /\ files' \in [Paths -> Contents \cup {NoFile}]
      /\ \A p \in Paths : files[p] # NoFile => files'[p] # NoFile
  BY <1>4, <1>5, <1>6, HeadAssumption DEF TypeInv, TypeOK
<1>8. SessionOK(t, files')
  BY <1>1, <1>3 DEF SessionOK
<1>9. QED
  BY <1>1, <1>2, <1>3, <1>7, <1>8, TypeFacts, SessionFrame

LEMMA QuitType ==
  ASSUME TypeInv, NEW s \in Conns, Quit(s), UNCHANGED clientVars
  PROVE  TypeInv'
BY TypeFacts, HangUpType DEF Quit

LEMMA ServerType ==
  ASSUME TypeInv, NEW s \in Conns, Server(s)
  PROVE  TypeInv'
BY AcceptType, ServerSendType, RecvFailsType, RecvOpenRequestType, RecvRequestType,
   RecvNameType, FileSizeType, ReadFileType, Sha256sumType, RecvFileDataType,
   RecvFileContentType, OpenForWritingType, WriteFileType, QuitType
   DEF Server, SessionStep

------------------------------------------------------------------------------
(* The steps of a client. *)

LEMMA ClientFacts ==
  ASSUME TypeInv, NEW c \in Clients
  PROVE  /\ client[c] \in ClientStates /\ ClientOK(client[c], disk[c])
         /\ client[c].pc \in ClientPcs /\ client[c].info \in BOOLEAN
         /\ client[c].sock \in Conns \cup {Fresh} /\ Sock(c) = client[c].sock
         /\ client[c].name \in Names \cup {NoArg} /\ client[c].out \in Seq(Messages)
         /\ Sock(c) # Fresh => Sock(c) \in Conns /\ conn[Sock(c)] \in Connections
         /\ conn \in [Conns -> Connections]
         /\ "server" \in Ends /\ "client" \in Ends
BY DEF TypeInv, TypeOK, ClientStates, Sock, Ends

LEMMA NewClientType ==
  /\ NewClient \in ClientStates
  /\ NewClient.pc = "prompt" /\ NewClient.sock = Fresh /\ NewClient.out = <<>>
  /\ NewClient.name = NoArg
BY EmptyContent DEF NewClient, ClientStates, ClientPcs

\* Back at the prompt, or gone.
LEMMA IdleType ==
  ASSUME TypeInv, NEW c \in Clients, NEW info \in BOOLEAN, NEW d
  PROVE  /\ Idle(c, info) \in ClientStates /\ ClientOK(Idle(c, info), d)
         /\ Drop(c, info) \in ClientStates /\ ClientOK(Drop(c, info), d)
         /\ Idle(c, info).pc = "prompt" /\ Idle(c, info).sock = Sock(c)
         /\ Idle(c, info).out = <<>> /\ Idle(c, info).info = info
         /\ Drop(c, info).pc = "prompt" /\ Drop(c, info).sock = Fresh
         /\ Drop(c, info).out = <<>> /\ Drop(c, info).info = info
<1>1. /\ Idle(c, info) \in ClientStates
      /\ Idle(c, info).pc = "prompt" /\ Idle(c, info).sock = Sock(c)
      /\ Idle(c, info).out = <<>> /\ Idle(c, info).info = info
  <2> DEFINE a == [NewClient EXCEPT !.info = info]
  <2>1. a \in ClientStates /\ a.pc = "prompt" /\ a.out = <<>> /\ a.info = info
    BY NewClientType DEF ClientStates
  <2>2. Idle(c, info) = [a EXCEPT !.sock = Sock(c)]
    BY DEF Idle
  <2> HIDE DEF a
  <2>3. QED
    BY <2>1, <2>2, ClientFacts DEF ClientStates
<1>2. /\ Drop(c, info) \in ClientStates
      /\ Drop(c, info).pc = "prompt" /\ Drop(c, info).sock = Fresh
      /\ Drop(c, info).out = <<>> /\ Drop(c, info).info = info
  BY <1>1 DEF Drop, ClientStates
<1>3. QED
  BY <1>1, <1>2 DEF ClientOK, NamedPcs

LEMMA EndedClientType ==
  ASSUME NEW pc \in {"exited", "killed"}, NEW d
  PROVE  LET cl == [NewClient EXCEPT !.pc = pc]
         IN  /\ cl \in ClientStates /\ ClientOK(cl, d)
             /\ cl.pc = pc /\ cl.sock = Fresh /\ cl.out = <<>>
<1> DEFINE cl == [NewClient EXCEPT !.pc = pc]
<1>1. cl \in ClientStates /\ cl.pc = pc /\ cl.sock = Fresh /\ cl.out = <<>>
  BY NewClientType DEF ClientStates, ClientPcs
<1> HIDE DEF cl
<1>2. ClientOK(cl, d)
  BY <1>1 DEF ClientOK, NamedPcs
<1>3. QED
  BY <1>1, <1>2 DEF cl

\* A step of the client c.
LEMMA ClientFrame ==
  ASSUME TypeInv, NEW c \in Clients, NEW cl \in ClientStates,
         conn' \in [Conns -> Connections], client' = [client EXCEPT ![c] = cl],
         disk' \in [Clients -> [Names -> Contents \cup {NoFile}]],
         \A d \in Clients : d # c => disk'[d] = disk[d],
         ClientOK(cl, disk'[c]), UNCHANGED serverVars
  PROVE  TypeInv'
<1>1. TypeOK'
  BY DEF TypeInv, TypeOK, serverVars
<1>2. ASSUME NEW d \in Clients PROVE ClientOK(client[d], disk[d])'
  BY DEF TypeInv, TypeOK
<1>3. \A s \in Conns : SessionOK(session[s], files)'
  BY DEF TypeInv, serverVars
<1>4. QED
  BY <1>1, <1>2, <1>3 DEF TypeInv

LEMMA ClientFrameDisk ==
  ASSUME TypeInv, NEW c \in Clients, NEW cl \in ClientStates,
         conn' \in [Conns -> Connections], SetClient(c, cl), ClientOK(cl, disk[c]),
         UNCHANGED disk, UNCHANGED serverVars
  PROVE  TypeInv'
<1>1. disk \in [Clients -> [Names -> Contents \cup {NoFile}]]
  BY DEF TypeInv, TypeOK
<1>2. QED
  BY <1>1, ClientFrame DEF SetClient

LEMMA OnConnType ==
  ASSUME TypeInv, NEW c \in Clients, NEW k \in Connections, OnConn(c, k)
  PROVE  conn' \in [Conns -> Connections]
BY ClientFacts DEF OnConn

LEMMA CloseSockType ==
  ASSUME TypeInv, NEW c \in Clients, CloseSock(c)
  PROVE  conn' \in [Conns -> Connections]
<1>1. CASE Sock(c) = Fresh
  BY <1>1, ClientFacts DEF CloseSock
<1>2. CASE Sock(c) # Fresh
  <2>1. Closed(conn[Sock(c)], "client") \in Connections
    BY <1>2, ClientFacts, ClosedType
  <2>2. QED
    BY <1>2, <2>1, OnConnType DEF CloseSock
<1>3. QED
  BY <1>1, <1>2

LEMMA EndType ==
  ASSUME TypeInv, NEW c \in Clients, NEW pc \in {"exited", "killed"}, End(c, pc),
         UNCHANGED disk, UNCHANGED serverVars
  PROVE  TypeInv'
BY CloseSockType, EndedClientType, ClientFrameDisk DEF End

LEMMA GiveUpType ==
  ASSUME TypeInv, NEW c \in Clients, NEW k \in Connections, NEW closing,
         GiveUp(c, k, closing), UNCHANGED disk, UNCHANGED serverVars
  PROVE  TypeInv'
<1> DEFINE info == client[c].info /\ client[c].pc \notin {"open", "quit"}
<1>1. info \in BOOLEAN
  OBVIOUS
<1>2. \/ OnConn(c, Closed(k, "client")) /\ SetClient(c, Drop(c, info))
      \/ OnConn(c, k) /\ SetClient(c, Idle(c, info))
  BY DEF GiveUp
<1>3. Closed(k, "client") \in Connections
  BY ClosedType, ClientFacts
<1> HIDE DEF info
<1>4. QED
  BY <1>1, <1>2, <1>3, OnConnType, IdleType, ClientFrameDisk

LEMMA OpenConnectionType ==
  ASSUME TypeInv, NEW c \in Clients, OpenConnection(c), UNCHANGED serverVars
  PROVE  TypeInv'
<1> DEFINE s  == CHOOSE t \in Conns : ~conn[t].used
           m  == <<Header("OPEN_CONN_REQUEST", 0, 0)>>
           cl == [client[c] EXCEPT !.pc = "open", !.sock = s, !.out = m]
<1>1. s \in Conns
  BY DEF OpenConnection
<1>2. conn' = [conn EXCEPT ![s] = Established] /\ SetClient(c, cl) /\ UNCHANGED disk
  BY DEF OpenConnection
<1>3. m \in Seq(Messages) /\ m # <<>>
  BY HeaderType DEF HeaderTypes
<1> HIDE DEF s, m
<1>4. cl \in ClientStates /\ cl.pc = "open" /\ cl.sock = s /\ cl.out = m
  BY <1>1, <1>3, ClientFacts DEF ClientStates, ClientPcs
<1> HIDE DEF cl
<1>5. ClientOK(cl, disk[c])
  BY <1>1, <1>3, <1>4, ClientAssumption DEF ClientOK, NamedPcs
<1>6. conn' \in [Conns -> Connections]
  BY <1>1, <1>2, BlankType, ClientFacts DEF Established
<1>7. QED
  BY <1>2, <1>4, <1>5, <1>6, ClientFrameDisk

LEMMA OpenAgainType ==
  ASSUME TypeInv, NEW c \in Clients, OpenAgain(c), UNCHANGED serverVars
  PROVE  TypeInv'
BY CloseSockType, ClientFacts, IdleType, ClientFrameDisk DEF OpenAgain

LEMMA ServerIsDownType ==
  ASSUME TypeInv, NEW c \in Clients, ServerIsDown(c), UNCHANGED serverVars
  PROVE  TypeInv'
BY CloseSockType, IdleType, ClientFrameDisk DEF ServerIsDown

\* A command, pc and the request being what its kind makes them.
LEMMA CommandType ==
  ASSUME TypeInv, NEW c \in Clients, NEW command,
         NEW pc \in {"ls", "quit"} \cup NamedPcs, NEW f \in Names \cup {NoArg},
         NEW request \in Seq(Messages), request # <<>>, pc \in NamedPcs => f \in Names,
         pc = "put" => disk[c][f] # NoFile,
         Command(c, command, pc, f, request), UNCHANGED serverVars
  PROVE  TypeInv'
<1> DEFINE cl == [client[c] EXCEPT !.pc = pc, !.name = f, !.out = request]
<1>1. SetClient(c, cl) /\ UNCHANGED <<conn, disk>>
  BY DEF Command
<1>2. cl \in ClientStates /\ cl.pc = pc /\ cl.name = f /\ cl.out = request
  BY ClientFacts DEF ClientStates, ClientPcs, NamedPcs
<1> HIDE DEF cl
<1>3. ClientOK(cl, disk[c])
  BY <1>2 DEF ClientOK, NamedPcs
<1>4. QED
  BY <1>1, <1>2, <1>3, ClientFacts, ClientFrameDisk

LEMMA CommandsType ==
  ASSUME TypeInv, NEW c \in Clients, UNCHANGED serverVars,
         \/ ListFiles(c) \/ CloseConnection(c) \/ ChangeDirectory(c)
         \/ DownloadFiles(c) \/ Sha256(c) \/ UploadFiles(c)
  PROVE  TypeInv'
<1>1. CASE ListFiles(c)
  <2>1. <<Header("LIST_REQUEST", 0, 0)>> \in Seq(Messages)
    BY HeaderType DEF HeaderTypes, Requests
  <2>2. QED
    BY <1>1, <2>1, CommandType DEF ListFiles, NamedPcs
<1>2. CASE CloseConnection(c)
  <2>1. <<Header("QUIT_REQUEST", 0, 0)>> \in Seq(Messages)
    BY HeaderType DEF HeaderTypes, Requests
  <2>2. QED
    BY <1>2, <2>1, CommandType DEF CloseConnection, NamedPcs
<1>3. CASE ChangeDirectory(c)
  BY <1>3, NameRequestType, CommandType DEF ChangeDirectory, NamedPcs, Requests
<1>4. CASE DownloadFiles(c)
  BY <1>4, NameRequestType, CommandType DEF DownloadFiles, NamedPcs, Requests
<1>5. CASE Sha256(c)
  BY <1>5, NameRequestType, CommandType DEF Sha256, NamedPcs, Requests
<1>6. CASE UploadFiles(c)
  BY <1>6, NameRequestType, CommandType DEF UploadFiles, NamedPcs, Requests
<1>7. QED
  BY <1>1, <1>2, <1>3, <1>4, <1>5, <1>6

LEMMA ClientSendType ==
  ASSUME TypeInv, NEW c \in Clients, ClientSend(c), UNCHANGED serverVars
  PROVE  TypeInv'
<1> DEFINE k      == conn[Sock(c)]
           upload == client[c].pc = "upload"
           out    == client[c].out
           sent   == AfterSend(k, "client", IF upload THEN <<Head(out)>> ELSE out)
           rest   == IF upload THEN Tail(out) ELSE <<>>
           cl     == [client[c] EXCEPT !.out = rest]
<1>1. out \in Seq(Messages) /\ out # <<>> /\ UNCHANGED disk
  BY ClientFacts DEF ClientSend
<1>2. rest \in Seq(Messages)
      /\ (IF upload THEN <<Head(out)>> ELSE out) \in Seq(Messages)
  BY <1>1, EmptyContent
<1>3. \/ End(c, "killed")
      \/ Sock(c) # Fresh /\ GiveUp(c, sent, {"open", "ls", "quit"})
      \/ /\ Sock(c) # Fresh /\ OnConn(c, sent)
         /\ SetClient(c, IF upload /\ rest = <<>> THEN Idle(c, client[c].info) ELSE cl)
  <2>1. CASE Sock(c) = Fresh \/ SendResult(k, "client") = "sigpipe"
    BY <2>1 DEF ClientSend
  <2>2. CASE /\ ~(Sock(c) = Fresh \/ SendResult(k, "client") = "sigpipe")
             /\ SendResult(k, "client") = "error"
    BY <2>2 DEF ClientSend
  <2>3. CASE /\ ~(Sock(c) = Fresh \/ SendResult(k, "client") = "sigpipe")
             /\ SendResult(k, "client") # "error"
    BY <2>3 DEF ClientSend
  <2>4. QED
    BY <2>1, <2>2, <2>3
<1>4. Sock(c) # Fresh => sent \in Connections
  BY <1>2, ClientFacts, AfterSendType
<1>5. CASE End(c, "killed")
  BY <1>1, <1>5, EndType
<1>6. CASE Sock(c) # Fresh /\ GiveUp(c, sent, {"open", "ls", "quit"})
  BY <1>1, <1>4, <1>6, GiveUpType
<1>7. CASE /\ Sock(c) # Fresh /\ OnConn(c, sent)
           /\ SetClient(c, IF upload /\ rest = <<>> THEN Idle(c, client[c].info) ELSE cl)
  <2> HIDE DEF sent, rest, out
  <2>1. conn' \in [Conns -> Connections]
    BY <1>4, <1>7, OnConnType
  <2>2. CASE upload /\ rest = <<>>
    BY <1>1, <1>7, <2>1, <2>2, ClientFacts, IdleType, ClientFrameDisk
  <2>3. CASE ~(upload /\ rest = <<>>)
    <3>1. cl \in ClientStates /\ cl.pc = client[c].pc /\ cl.sock = client[c].sock
          /\ cl.name = client[c].name /\ cl.out = rest
      BY <1>2, ClientFacts DEF ClientStates
    <3>2. cl.pc \notin {"prompt", "exited", "killed"} /\ cl.sock # Fresh
      BY <1>1, <1>7, <3>1, ClientFacts DEF ClientOK, out
    <3> HIDE DEF cl
    <3>3. ClientOK(cl, disk[c])
      BY <2>3, <3>1, <3>2, ClientFacts DEF ClientOK
    <3>4. QED
      BY <1>1, <1>7, <2>1, <2>3, <3>1, <3>3, ClientFrameDisk
  <2>4. QED
    BY <2>2, <2>3
<1>8. QED
  BY <1>3, <1>5, <1>6, <1>7

\* A client that waits has a connection.
LEMMA WaitsType ==
  ASSUME TypeInv, NEW c \in Clients, Waits(c)
  PROVE  /\ Sock(c) \in Conns /\ conn[Sock(c)] \in Connections
         /\ client[c].out = <<>>
         /\ HasData(conn[Sock(c)], "client") =>
              /\ Reply(c) \in Messages
              /\ AfterRecv(conn[Sock(c)], "client") \in Connections
<1>1. Sock(c) # Fresh
  BY ClientFacts DEF Waits, Gone, Prompt, ClientOK
<1>2. QED
  BY <1>1, ClientFacts, StreamTypes, AfterRecvType DEF Waits, Reply

LEMMA ReplyLostType ==
  ASSUME TypeInv, NEW c \in Clients, ReplyLost(c), UNCHANGED serverVars
  PROVE  TypeInv'
BY WaitsType, ClientFacts, AfterEndedType, GiveUpType DEF ReplyLost

LEMMA TakeReplyType ==
  ASSUME TypeInv, NEW c \in Clients, NEW pc, Replied(c, pc), TakeReply(c)
  PROVE  conn' \in [Conns -> Connections]
BY WaitsType, OnConnType DEF Replied, TakeReply

LEMMA DoneType ==
  ASSUME TypeInv, NEW c \in Clients, conn' \in [Conns -> Connections], Done(c),
         UNCHANGED disk, UNCHANGED serverVars
  PROVE  TypeInv'
BY ClientFacts, IdleType, ClientFrameDisk DEF Done

\* The client goes on to wait, at pc, for the rest of a reply.
LEMMA AwaitType ==
  ASSUME TypeInv, NEW c \in Clients, conn' \in [Conns -> Connections],
         NEW old, NEW pc \in {"getdata", "getbody", "shadata", "shabody"},
         Replied(c, old), Await(c, pc), UNCHANGED disk, UNCHANGED serverVars,
         pc \in {"getdata", "getbody"} => old \in {"get", "getdata"}
  PROVE  TypeInv'
<1> DEFINE cl == [client[c] EXCEPT !.pc = pc]
<1>1. /\ cl \in ClientStates /\ cl.pc = pc /\ cl.sock = client[c].sock
      /\ cl.name = client[c].name /\ cl.out = client[c].out
  BY ClientFacts DEF ClientStates, ClientPcs
<1>2. cl.sock # Fresh
  BY <1>1, WaitsType, ClientFacts, ClientAssumption DEF Replied
<1>3. cl.pc \in {"getdata", "getbody"} => cl.name \in Names
  BY <1>1, ClientFacts DEF ClientOK, NamedPcs, Replied
<1>4. SetClient(c, cl)
  BY DEF Await
<1> HIDE DEF cl
<1>5. ClientOK(cl, disk[c])
  BY <1>1, <1>2, <1>3 DEF ClientOK, NamedPcs
<1>6. QED
  BY <1>1, <1>4, <1>5, ClientFrameDisk

LEMMA SaveType ==
  ASSUME TypeInv, NEW c \in Clients, conn' \in [Conns -> Connections],
         client[c].name \in Names, NEW content \in Contents, Save(c, content),
         UNCHANGED serverVars
  PROVE  TypeInv'
<1>1. disk' = [disk EXCEPT ![c][client[c].name] = content]
  BY DEF Save
<1>2. disk[c] \in [Names -> Contents \cup {NoFile}]
  BY DEF TypeInv, TypeOK
<1>3. [disk[c] EXCEPT ![client[c].name] = content] \in [Names -> Contents \cup {NoFile}]
  BY <1>2
<1>4. /\ disk' \in [Clients -> [Names -> Contents \cup {NoFile}]]
      /\ \A d \in Clients : d # c => disk'[d] = disk[d]
  BY <1>1, <1>3 DEF TypeInv, TypeOK
<1>5. QED
  BY <1>4, ClientFacts, IdleType, ClientFrame DEF Save, Done, SetClient

LEMMA RecvOpenReplyType ==
  ASSUME TypeInv, NEW c \in Clients, RecvOpenReply(c), UNCHANGED serverVars
  PROVE  TypeInv'
<1> DEFINE k == AfterRecv(conn[Sock(c)], "client")
<1>1. k \in Connections /\ Closed(k, "client") \in Connections
  BY WaitsType, ClientFacts, ClosedType DEF RecvOpenReply, Replied
<1>2. \/ OnConn(c, k) /\ SetClient(c, Idle(c, TRUE))
      \/ OnConn(c, Closed(k, "client")) /\ SetClient(c, Drop(c, FALSE))
  BY DEF RecvOpenReply
<1>3. UNCHANGED disk
  BY DEF RecvOpenReply
<1> HIDE DEF k
<1>4. QED
  BY <1>1, <1>2, <1>3, OnConnType, IdleType, ClientFrameDisk

LEMMA RecvListReplyType ==
  ASSUME TypeInv, NEW c \in Clients, RecvListReply(c), UNCHANGED serverVars
  PROVE  TypeInv'
<1> DEFINE k == conn[Sock(c)]
<1>1. k \in Connections /\ k.q["client"] \in Seq(Messages)
  BY WaitsType, StreamTypes, ClientFacts DEF RecvListReply, Replied
<1>2. PICK n \in ListTaken(k) :
        OnConn(c, [k EXCEPT !.q["client"] = SubSeq(@, n + 1, Len(@))])
  BY DEF RecvListReply
<1> HIDE DEF k
<1> DEFINE rest == SubSeq(k.q["client"], n + 1, Len(k.q["client"]))
<1>3. n \in Nat /\ rest \in Seq(Messages)
  BY <1>1, SubSeqProperties DEF ListTaken
<1>4. [k EXCEPT !.q["client"] = SubSeq(@, n + 1, Len(@))]
        = [k EXCEPT !.q = [k.q EXCEPT !["client"] = rest]]
  BY <1>1 DEF Connections
<1> HIDE DEF rest
<1>5. [k.q EXCEPT !["client"] = rest] \in [Ends -> Seq(Messages)]
  BY <1>1, <1>3 DEF Connections
<1>6. [k EXCEPT !.q = [k.q EXCEPT !["client"] = rest]] \in Connections
  BY <1>1, <1>5 DEF Connections
<1>7. conn' \in [Conns -> Connections]
  BY <1>2, <1>4, <1>6, OnConnType
<1>8. QED
  BY <1>7, DoneType DEF RecvListReply

LEMMA RecvPutReplyType ==
  ASSUME TypeInv, NEW c \in Clients, RecvPutReply(c), UNCHANGED serverVars
  PROVE  TypeInv'
<1>1. conn' \in [Conns -> Connections] /\ UNCHANGED disk
  BY TakeReplyType DEF RecvPutReply
<1> DEFINE data == FileData(disk[c][client[c].name])
           cl   == [client[c] EXCEPT !.pc = "upload", !.out = data]
<1>2. \/ Done(c)
      \/ SetClient(c, cl)
  BY DEF RecvPutReply
<1>3. /\ client[c].name \in Names /\ client[c].sock # Fresh
      /\ disk[c][client[c].name] \in Contents /\ disk[c][client[c].name] # NoFile
  <2>1. client[c].name \in Names /\ disk[c][client[c].name] # NoFile
    BY ClientFacts DEF RecvPutReply, Replied, ClientOK, NamedPcs
  <2>2. client[c].sock # Fresh
    BY ClientFacts, WaitsType, ClientAssumption DEF RecvPutReply, Replied
  <2>3. QED
    BY <2>1, <2>2 DEF TypeInv, TypeOK
<1>4. data \in Seq(Messages) /\ data # <<>>
  BY <1>3, RepliesType
<1> HIDE DEF data
<1>5. /\ cl \in ClientStates /\ cl.pc = "upload" /\ cl.sock = client[c].sock
      /\ cl.name = client[c].name /\ cl.out = data
  BY <1>4, ClientFacts DEF ClientStates, ClientPcs
<1> HIDE DEF cl
<1>6. ClientOK(cl, disk[c])
  BY <1>3, <1>4, <1>5 DEF ClientOK
<1>7. QED
  BY <1>1, <1>2, <1>5, <1>6, DoneType, ClientFrameDisk

LEMMA RecvQuitReplyType ==
  ASSUME TypeInv, NEW c \in Clients, RecvQuitReply(c), UNCHANGED serverVars
  PROVE  TypeInv'
<1> DEFINE k == AfterRecv(conn[Sock(c)], "client")
<1>1. k \in Connections /\ Closed(k, "client") \in Connections
  BY WaitsType, ClientFacts, ClosedType DEF RecvQuitReply, Replied
<1>2. \/ OnConn(c, k) /\ SetClient(c, Idle(c, FALSE))
      \/ OnConn(c, Closed(k, "client")) /\ SetClient(c, Drop(c, FALSE))
  BY DEF RecvQuitReply
<1>3. UNCHANGED disk
  BY DEF RecvQuitReply
<1> HIDE DEF k
<1>4. QED
  BY <1>1, <1>2, <1>3, OnConnType, IdleType, ClientFrameDisk

\* The other replies.
LEMMA RecvRepliesType ==
  ASSUME TypeInv, NEW c \in Clients, UNCHANGED serverVars,
         \/ RecvCdReply(c) \/ RecvGetReply(c) \/ RecvShaReply(c)
         \/ RecvShaData(c) \/ RecvShaValue(c) \/ RecvGetData(c) \/ RecvGetContent(c)
  PROVE  TypeInv'
<1>1. CASE RecvCdReply(c)
  BY <1>1, TakeReplyType, DoneType DEF RecvCdReply
<1>2. CASE RecvGetReply(c)
  BY <1>2, TakeReplyType, DoneType, AwaitType DEF RecvGetReply
<1>3. CASE RecvShaReply(c)
  BY <1>3, TakeReplyType, DoneType, AwaitType DEF RecvShaReply
<1>4. CASE RecvShaData(c)
  BY <1>4, TakeReplyType, AwaitType DEF RecvShaData
<1>5. CASE RecvShaValue(c)
  BY <1>5, TakeReplyType, DoneType DEF RecvShaValue
<1>6. CASE RecvGetData(c)
  <2>1. client[c].name \in Names
    BY <1>6, ClientFacts DEF RecvGetData, Replied, ClientOK
  <2>2. QED
    BY <1>6, <2>1, TakeReplyType, EmptyContent, SaveType, AwaitType DEF RecvGetData
<1>7. CASE RecvGetContent(c)
  <2>1. client[c].name \in Names
    BY <1>7, ClientFacts DEF RecvGetContent, Replied, ClientOK
  <2>2. ContentIn(Reply(c)) \in Contents
    BY <1>7, WaitsType, MessageType DEF RecvGetContent, Replied
  <2>3. QED
    BY <1>7, <2>1, <2>2, TakeReplyType, SaveType DEF RecvGetContent
<1>8. QED
  BY <1>1, <1>2, <1>3, <1>4, <1>5, <1>6, <1>7

LEMMA ProcessType ==
  ASSUME TypeInv, NEW c \in Clients, Process(c)
  PROVE  TypeInv'
BY ClientSendType, ReplyLostType, RecvOpenReplyType, RecvListReplyType,
   RecvPutReplyType, RecvQuitReplyType, RecvRepliesType DEF Process, ClientStep

LEMMA UserType ==
  ASSUME TypeInv, NEW c \in Clients, User(c)
  PROVE  TypeInv'
<1>1. CASE CloseClient(c)
  BY <1>1, EndType DEF CloseClient, User
<1>2. CASE Kill(c)
  BY <1>2, EndType DEF Kill, User
<1>3. CASE ~CloseClient(c) /\ ~Kill(c)
  BY <1>3, OpenConnectionType, OpenAgainType, ServerIsDownType, CommandsType
     DEF User, UserStep
<1>4. QED
  BY <1>1, <1>2, <1>3

------------------------------------------------------------------------------
LEMMA InitType == Init => TypeInv
<1> SUFFICES ASSUME Init PROVE TypeInv
  OBVIOUS
<1>1. conn \in [Conns -> Connections]
  BY BlankType DEF Init, StreamInit, Unused
<1>2. session \in [Conns -> Sessions]
  BY NewSessionType DEF Init, ServerInit
<1>3. client \in [Clients -> ClientStates]
  BY NewClientType DEF Init, ClientInit
<1>4. TypeOK
  BY <1>1, <1>2, <1>3, FilesAssumption DEF TypeOK, Init, StreamInit
<1>5. \A s \in Conns : SessionOK(session[s], files)
  BY NewSessionType DEF Init, ServerInit, SessionOK
<1>6. \A c \in Clients : ClientOK(client[c], disk[c])
  BY NewClientType DEF Init, ClientInit, ClientOK, NamedPcs
<1>7. QED
  BY <1>4, <1>5, <1>6 DEF TypeInv

LEMMA RebootType ==
  ASSUME TypeInv, Reboot
  PROVE  TypeInv'
<1>1. UNCHANGED <<conn, files, client, disk>> /\ serverUp' = TRUE
  BY DEF Reboot, Restart, clientVars
<1>2. ASSUME NEW s \in Conns
      PROVE  /\ session'[s] \in Sessions /\ session'[s].pc \in {"new", "done"}
             /\ session'[s].out = <<>> /\ session'[s].req = Uninit
  BY NewSessionType DEF Reboot, Restart, Sessions, SessionPcs
<1>3. session' \in [Conns -> Sessions]
  BY <1>2 DEF Reboot, Restart
<1>4. \A s \in Conns : SessionOK(session[s], files)'
  BY <1>1, <1>2, NewSessionType DEF SessionOK
<1>5. QED
  BY <1>1, <1>3, <1>4 DEF TypeInv, TypeOK

LEMMA StutterType == TypeInv /\ UNCHANGED vars => TypeInv'
BY DEF vars, serverVars, clientVars, TypeInv, TypeOK

LEMMA NextType == TypeInv /\ [Next]_vars => TypeInv'
BY ServerType, RebootType, ProcessType, UserType, StutterType DEF Next, Finished

LEMMA FtpTypeInvariance == Spec => []TypeInv
BY InitType, NextType, PTL DEF Spec

\* Every client, thread, connection and file keeps its type: in particular a
\* thread that reads or writes a file has its name, and a client that is to
\* receive has a socket, whatever the bytes it was sent are taken for.
THEOREM FtpTypeCorrect == Spec => []TypeOK
<1>1. TypeInv => TypeOK
  BY DEF TypeInv
<1>2. QED
  BY <1>1, FtpTypeInvariance, PTL

==============================================================================
