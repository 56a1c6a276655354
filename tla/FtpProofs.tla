------------------------------- MODULE FtpProofs -------------------------------
(***************************************************************************)
(* The inductive invariant of the FTP model, and what follows from it.     *)
(* Everything but the first section is about runs where listings arrive    *)
(* with their header and local files can be read (Quiet): elsewhere the    *)
(* two ends lose step, as the run ftp_desync shows.                        *)
(***************************************************************************)
EXTENDS FtpTypeProofs

Quiet == ListJoined = TRUE /\ Unreadable = {}

------------------------------------------------------------------------------
(* Connections, field by field. *)

LEMMA PeerOf == Peer("client") = "server" /\ Peer("server") = "client"
                /\ "client" \in Ends /\ "server" \in Ends /\ "client" # "server"
BY DEF Peer, Ends

LEMMA BlankFields ==
  ASSUME NEW used \in BOOLEAN, NEW open \in BOOLEAN, NEW e \in Ends
  PROVE  LET z == Blank(used, open)
         IN  z.used = used /\ z.open[e] = open /\ z.q[e] = <<>> /\ z.err[e] = "none"
BY DEF Blank

LEMMA SpentFields ==
  /\ Spent.used /\ ~Spent.open["client"] /\ ~Spent.open["server"]
  /\ Spent.q["client"] = <<>> /\ Spent.q["server"] = <<>>
  /\ Spent.err["client"] = "none" /\ Spent.err["server"] = "none"
BY DEF Spent, Blank, Ends

LEMMA AfterRecvFields ==
  ASSUME NEW k \in Connections, NEW e \in Ends
  PROVE  LET z == AfterRecv(k, e)
         IN  /\ z.used = k.used /\ z.open = k.open /\ z.err = k.err
             /\ z.q[e] = Tail(k.q[e]) /\ z.q[Peer(e)] = k.q[Peer(e)]
<1>1. AfterRecv(k, e) = [k EXCEPT !.q = [k.q EXCEPT ![e] = Tail(k.q[e])]]
  BY DEF AfterRecv, Connections
<1>2. Peer(e) \in Ends /\ Peer(e) # e
  BY DEF Peer, Ends
<1>3. QED
  BY <1>1, <1>2 DEF Connections

LEMMA AfterEndedFields ==
  ASSUME NEW k \in Connections, NEW e \in Ends
  PROVE  LET z == AfterEnded(k, e)
         IN  /\ z.used = k.used /\ z.open = k.open /\ z.q = k.q
             /\ z.err[Peer(e)] = k.err[Peer(e)]
             /\ z.err[e] = IF k.err[e] = "reset" THEN "dead" ELSE k.err[e]
<1>1. AfterEnded(k, e) =
        [k EXCEPT !.err = [k.err EXCEPT ![e] = IF k.err[e] = "reset" THEN "dead" ELSE k.err[e]]]
  BY DEF AfterEnded, Connections
<1>2. Peer(e) \in Ends /\ Peer(e) # e
  BY DEF Peer, Ends
<1>3. QED
  BY <1>1, <1>2 DEF Connections

LEMMA ClosedFields ==
  ASSUME NEW k \in Connections, NEW e \in Ends
  PROVE  LET z == Closed(k, e)
         IN  /\ ~k.open[Peer(e)] => z = Spent
             /\ k.open[Peer(e)] =>
                  /\ z.used = k.used /\ z.open[e] = FALSE /\ z.open[Peer(e)]
                  /\ z.q[e] = <<>> /\ z.q[Peer(e)] = k.q[Peer(e)]
                  /\ z.err[e] = k.err[e]
                  /\ z.err[Peer(e)] = IF k.q[e] # <<>> THEN "reset" ELSE k.err[Peer(e)]
<1>1. Peer(e) \in Ends /\ Peer(e) # e
  BY DEF Peer, Ends
<1>2. CASE ~k.open[Peer(e)]
  BY <1>2 DEF Closed
<1>3. CASE k.open[Peer(e)]
  <2> DEFINE open == [k.open EXCEPT ![e] = FALSE]
             q    == [k.q EXCEPT ![e] = <<>>]
             err  == [k.err EXCEPT ![Peer(e)] = IF k.q[e] # <<>> THEN "reset" ELSE @]
  <2>1. Closed(k, e) = [used |-> k.used, open |-> open, q |-> q, err |-> err]
    BY <1>3 DEF Closed, Connections
  <2>2. QED
    BY <1>1, <1>3, <2>1 DEF Connections
<1>4. QED
  BY <1>2, <1>3

\* The same, of either end.
LEMMA ServerCloses ==
  ASSUME NEW k \in Connections
  PROVE  /\ ~k.open["client"] => Closed(k, "server") = Spent
         /\ k.open["client"] =>
              /\ Closed(k, "server").used = k.used
              /\ ~Closed(k, "server").open["server"] /\ Closed(k, "server").open["client"]
              /\ Closed(k, "server").q["server"] = <<>>
              /\ Closed(k, "server").q["client"] = k.q["client"]
              /\ Closed(k, "server").err["server"] = k.err["server"]
<1>1. /\ ~k.open[Peer("server")] => Closed(k, "server") = Spent
      /\ k.open[Peer("server")] =>
           /\ Closed(k, "server").used = k.used
           /\ Closed(k, "server").open["server"] = FALSE
           /\ Closed(k, "server").open[Peer("server")]
           /\ Closed(k, "server").q["server"] = <<>>
           /\ Closed(k, "server").q[Peer("server")] = k.q[Peer("server")]
           /\ Closed(k, "server").err["server"] = k.err["server"]
  BY PeerOf, ClosedFields
<1>2. QED
  BY <1>1, PeerOf

LEMMA ClientCloses ==
  ASSUME NEW k \in Connections
  PROVE  /\ ~k.open["server"] => Closed(k, "client") = Spent
         /\ k.open["server"] =>
              /\ Closed(k, "client").used = k.used
              /\ ~Closed(k, "client").open["client"] /\ Closed(k, "client").open["server"]
              /\ Closed(k, "client").q["client"] = <<>>
              /\ Closed(k, "client").q["server"] = k.q["server"]
              /\ Closed(k, "client").err["client"] = k.err["client"]
              /\ Closed(k, "client").err["server"] =
                   IF k.q["client"] # <<>> THEN "reset" ELSE k.err["server"]
<1>1. /\ ~k.open[Peer("client")] => Closed(k, "client") = Spent
      /\ k.open[Peer("client")] =>
           /\ Closed(k, "client").used = k.used
           /\ Closed(k, "client").open["client"] = FALSE
           /\ Closed(k, "client").open[Peer("client")]
           /\ Closed(k, "client").q["client"] = <<>>
           /\ Closed(k, "client").q[Peer("client")] = k.q[Peer("client")]
           /\ Closed(k, "client").err["client"] = k.err["client"]
           /\ Closed(k, "client").err[Peer("client")] =
                IF k.q["client"] # <<>> THEN "reset" ELSE k.err[Peer("client")]
  BY PeerOf, ClosedFields
<1>2. QED
  BY <1>1, PeerOf

LEMMA ServerReceives ==
  ASSUME NEW k \in Connections, HasData(k, "server")
  PROVE  /\ AfterRecv(k, "server") \in Connections
         /\ AfterRecv(k, "server").used = k.used /\ AfterRecv(k, "server").open = k.open
         /\ AfterRecv(k, "server").err = k.err
         /\ AfterRecv(k, "server").q["server"] = Tail(k.q["server"])
         /\ AfterRecv(k, "server").q["client"] = k.q["client"]
<1>1. /\ AfterRecv(k, "server").used = k.used /\ AfterRecv(k, "server").open = k.open
      /\ AfterRecv(k, "server").err = k.err
      /\ AfterRecv(k, "server").q["server"] = Tail(k.q["server"])
      /\ AfterRecv(k, "server").q[Peer("server")] = k.q[Peer("server")]
  BY PeerOf, AfterRecvFields
<1>2. QED
  BY <1>1, PeerOf, AfterRecvType

LEMMA ClientReceives ==
  ASSUME NEW k \in Connections, HasData(k, "client")
  PROVE  /\ AfterRecv(k, "client") \in Connections
         /\ AfterRecv(k, "client").used = k.used /\ AfterRecv(k, "client").open = k.open
         /\ AfterRecv(k, "client").err = k.err
         /\ AfterRecv(k, "client").q["client"] = Tail(k.q["client"])
         /\ AfterRecv(k, "client").q["server"] = k.q["server"]
<1>1. /\ AfterRecv(k, "client").used = k.used /\ AfterRecv(k, "client").open = k.open
      /\ AfterRecv(k, "client").err = k.err
      /\ AfterRecv(k, "client").q["client"] = Tail(k.q["client"])
      /\ AfterRecv(k, "client").q[Peer("client")] = k.q[Peer("client")]
  BY PeerOf, AfterRecvFields
<1>2. QED
  BY <1>1, PeerOf, AfterRecvType

LEMMA ServerSends ==
  ASSUME NEW k \in Connections, NEW ms \in Seq(Messages),
         NEW z, z = AfterSend(k, "server", ms)
  PROVE  /\ z \in Connections
         /\ z.used = k.used
         /\ z.open = k.open
         /\ z.q["server"] = k.q["server"]
         /\ z.err["client"] = k.err["client"]
         /\ k.err["server"] = "none" /\ k.open["client"] =>
              /\ z.q["client"] = k.q["client"] \o ms
              /\ z.err["server"] = "none"
         /\ k.err["server"] = "none" /\ ~k.open["client"] =>
              /\ z.q["client"] = k.q["client"]
              /\ z.err["server"] = "pipe"
         /\ k.err["server"] # "none" =>
              /\ z.q["client"] = k.q["client"]
              /\ z.err["server"] = "dead"
<1>0. z \in Connections
  BY PeerOf, AfterSendType
<1>1. CASE k.err["server"] = "none" /\ k.open["client"]
  <2>1. z = [k EXCEPT !.q = [k.q EXCEPT !["client"] = k.q["client"] \o ms]]
    BY <1>1, PeerOf DEF AfterSend, Connections
  <2>2. /\ z.q = [k.q EXCEPT !["client"] = k.q["client"] \o ms]
        /\ z.used = k.used /\ z.open = k.open /\ z.err = k.err
    BY <2>1 DEF Connections
  <2>3. z.q["client"] = k.q["client"] \o ms /\ z.q["server"] = k.q["server"]
    BY <2>2, PeerOf DEF Connections
  <2>4. QED
    BY <1>0, <1>1, <2>2, <2>3
<1>2. CASE k.err["server"] = "none" /\ ~k.open["client"]
  <2>1. z = [k EXCEPT !.err = [k.err EXCEPT !["server"] = "pipe"]]
    BY <1>2, PeerOf DEF AfterSend, Connections
  <2>2. QED
    BY <1>2, <2>1, <1>0 DEF Connections, Ends
<1>3. CASE k.err["server"] # "none"
  <2>1. z = [k EXCEPT !.err = [k.err EXCEPT !["server"] = "dead"]]
    BY <1>3 DEF AfterSend, Connections
  <2>2. QED
    BY <1>3, <2>1, <1>0 DEF Connections, Ends
<1>4. QED
  BY <1>1, <1>2, <1>3

LEMMA SendFields ==
  ASSUME NEW k \in Connections, NEW ms \in Seq(Messages),
         NEW z, z = AfterSend(k, "client", ms)
  PROVE  /\ z \in Connections
         /\ z.used = k.used
         /\ z.open = k.open
         /\ z.q["client"] = k.q["client"]
         /\ z.err["server"] = k.err["server"]
         /\ k.err["client"] = "none" /\ k.open["server"] =>
              /\ z.q["server"] = k.q["server"] \o ms
              /\ z.err["client"] = "none"
         /\ k.err["client"] = "none" /\ ~k.open["server"] =>
              /\ z.q["server"] = k.q["server"]
              /\ z.err["client"] = "pipe"
         /\ k.err["client"] # "none" =>
              /\ z.q["server"] = k.q["server"]
              /\ z.err["client"] = "dead"
<1>0. z \in Connections
  BY PeerOf, AfterSendType
<1>1. CASE k.err["client"] = "none" /\ k.open["server"]
  <2>1. z = [k EXCEPT !.q = [k.q EXCEPT !["server"] = k.q["server"] \o ms]]
    BY <1>1, PeerOf DEF AfterSend, Connections
  <2>2. /\ z.q = [k.q EXCEPT !["server"] = k.q["server"] \o ms]
        /\ z.used = k.used /\ z.open = k.open /\ z.err = k.err
    BY <2>1 DEF Connections
  <2>3. z.q["server"] = k.q["server"] \o ms /\ z.q["client"] = k.q["client"]
    BY <2>2, PeerOf DEF Connections
  <2>4. QED
    BY <1>0, <1>1, <2>2, <2>3
<1>2. CASE k.err["client"] = "none" /\ ~k.open["server"]
  <2>1. z = [k EXCEPT !.err = [k.err EXCEPT !["client"] = "pipe"]]
    BY <1>2, PeerOf DEF AfterSend, Connections
  <2>2. QED
    BY <1>2, <2>1, <1>0 DEF Connections, Ends
<1>3. CASE k.err["client"] # "none"
  <2>1. z = [k EXCEPT !.err = [k.err EXCEPT !["client"] = "dead"]]
    BY <1>3 DEF AfterSend, Connections
  <2>2. QED
    BY <1>3, <2>1, <1>0 DEF Connections, Ends
<1>4. QED
  BY <1>1, <1>2, <1>3

\* What the send of ms by the client makes of k.
SentOn(k, ms, z) ==
  /\ z \in Connections
  /\ z.used = k.used
  /\ z.open = k.open
  /\ z.q["client"] = k.q["client"]
  /\ z.err["server"] = k.err["server"]
  /\ k.err["client"] = "none" /\ k.open["server"] =>
       /\ z.q["server"] = k.q["server"] \o ms
       /\ z.err["client"] = "none"
  /\ k.err["client"] = "none" /\ ~k.open["server"] =>
       /\ z.q["server"] = k.q["server"]
       /\ z.err["client"] = "pipe"
  /\ k.err["client"] # "none" =>
       /\ z.q["server"] = k.q["server"]
       /\ z.err["client"] = "dead"

LEMMA ClientSends ==
  ASSUME NEW k \in Connections, NEW ms \in Seq(Messages)
  PROVE  SentOn(k, ms, AfterSend(k, "client", ms))
<1> DEFINE z == AfterSend(k, "client", ms)
<1>1. z = AfterSend(k, "client", ms)
  OBVIOUS
<1> HIDE DEF z
<1>2. SentOn(k, ms, z)
  BY <1>1, SendFields DEF SentOn
<1>3. QED
  BY <1>2 DEF z

------------------------------------------------------------------------------
(* Streams. *)

LEMMA Streams ==
  ASSUME NEW u \in Seq(Messages), NEW v \in Seq(Messages)
  PROVE  /\ u \o v \in Seq(Messages) /\ Len(u \o v) = Len(u) + Len(v)
         /\ \A i \in 1 .. Len(u) : (u \o v)[i] = u[i]
         /\ u \o <<>> = u /\ <<>> \o v = v
         /\ u # <<>> => /\ Len(u) > 0 /\ Head(u) = (u \o v)[1]
                        /\ Tail(u) \o v = Tail(u \o v) /\ u \o v # <<>>
         /\ v # <<>> => (u \o <<Head(v)>>) \o Tail(v) = u \o v
<1>1. u \o v \in Seq(Messages) /\ Len(u \o v) = Len(u) + Len(v)
      /\ \A i \in 1 .. Len(u) : (u \o v)[i] = u[i]
  BY ConcatProperties
<1>2. u \o <<>> = u /\ <<>> \o v = v
  BY ConcatEmptySeq
<1>3. ASSUME u # <<>>
      PROVE  /\ Len(u) > 0 /\ Head(u) = (u \o v)[1]
             /\ Tail(u) \o v = Tail(u \o v) /\ u \o v # <<>>
  <2>1. Len(u) > 0 /\ Head(u) = u[1] /\ u \o v # <<>>
    BY <1>1, <1>3, EmptySeq
  <2>2. Tail(u) \o v = Tail(u \o v)
    BY <1>3
  <2>3. QED
    BY <1>1, <2>1, <2>2
<1>4. ASSUME v # <<>> PROVE (u \o <<Head(v)>>) \o Tail(v) = u \o v
  BY <1>4
<1>5. QED
  BY <1>1, <1>2, <1>3, <1>4

LEMMA Prefix ==
  ASSUME NEW u \in Seq(Messages), NEW v \in Seq(Messages)
  PROVE  /\ u \o v \in Seq(Messages) /\ Len(u) <= Len(u \o v)
         /\ \A j \in 1 .. Len(u) : u[j] = (u \o v)[j]
BY Streams

LEMMA FirstOf ==
  ASSUME NEW u \in Seq(Messages), u # <<>>, NEW v \in Seq(Messages)
  PROVE  /\ u \o v \in Seq(Messages) /\ u \o v # <<>>
         /\ Head(u) = (u \o v)[1] /\ Tail(u) \o v = Tail(u \o v)
BY Streams

LEMMA LenZero == \A u \in Seq(Messages) : (u = <<>> <=> Len(u) = 0)
BY EmptySeq

LEMMA TailOf ==
  ASSUME NEW u \in Seq(Messages), u # <<>>
  PROVE  /\ Tail(u) \in Seq(Messages) /\ Len(Tail(u)) = Len(u) - 1 /\ Len(u) > 0
         /\ \A i \in Nat : i > 0 /\ i < Len(u) => Tail(u)[i] = u[i + 1]
         /\ Len(u) = 1 => Tail(u) = <<>>
         /\ Head(u) = u[1] /\ u[1] \in Messages
<1>1. Len(u) > 0 /\ Head(u) = u[1] /\ u[1] \in Messages
  BY HeadTailProperties, EmptySeq
<1>2. /\ Tail(u) \in Seq(Messages) /\ Len(Tail(u)) = Len(u) - 1
      /\ \A i \in 1 .. Len(u) - 1 : Tail(u)[i] = u[i + 1]
  OBVIOUS
<1> DEFINE v == Tail(u)
<1>3. v \in Seq(Messages) /\ (Len(u) = 1 => Len(v) = 0)
  BY <1>2
<1> HIDE DEF v
<1>4. Len(u) = 1 => v = <<>>
  BY <1>3, LenZero
<1>5. QED
  BY <1>1, <1>2, <1>4 DEF v

LEMMA OneLeft ==
  ASSUME NEW u \in Seq(Messages), u # <<>>, Len(u) <= 1
  PROVE  Tail(u) = <<>>
BY TailOf

------------------------------------------------------------------------------
(* The start of a well-formed stream is well formed. *)

LEMMA DataPrefix ==
  ASSUME NEW cl \in ClientStates, NEW t \in Sessions, NEW i \in {0, 1},
         NEW q \in Seq(Messages), NEW D \in Seq(Messages), Len(q) <= Len(D),
         \A j \in 1 .. Len(q) : q[j] = D[j], DataDue(cl, t, D, i)
  PROVE  DataLeft(q, i)
<1>1. CASE Len(D) = i
  BY <1>1 DEF DataLeft
<1>2. CASE Len(D) = i + 1 /\ D[i + 1] = EmptyData
  <2>1. EmptyData.type = "FILE_DATA" /\ EmptyData.n = 0
    BY DEF EmptyData, Header
  <2>2. QED
    BY <1>2, <2>1 DEF DataLeft
<1>3. CASE Len(D) = i + 2 /\ Announces(D[i + 1]) /\ IsData(D[i + 2])
  BY <1>3 DEF DataLeft
<1>4. QED
  BY <1>1, <1>2, <1>3 DEF DataDue

LEMMA SumPrefix ==
  ASSUME NEW t \in Sessions, NEW i \in {0, 1},
         NEW q \in Seq(Messages), NEW D \in Seq(Messages), Len(q) <= Len(D),
         \A j \in 1 .. Len(q) : q[j] = D[j], SumDue(t, D, i)
  PROVE  SumLeft(q, i)
BY DEF SumDue, SumLeft

LEMMA DownPrefix ==
  ASSUME NEW cl \in ClientStates, NEW t \in Sessions, NEW U, NEW q \in Seq(Messages),
         NEW D \in Seq(Messages), Len(q) <= Len(D),
         \A j \in 1 .. Len(q) : q[j] = D[j], Live(cl, t, U, D)
  PROVE  DownOK(cl.pc, q)
<1>1. CASE D = <<>>
  <2>1. q = <<>> /\ Len(q) = 0
    BY <1>1, LenZero
  <2>2. QED
    BY <2>1 DEF DownOK, DataLeft, SumLeft
<1>2. CASE D # <<>> \/ ~Asked(cl, t, U)
  <2> DEFINE p == cl.pc
  <2>1. Answered(cl, t, D)
    BY <1>2 DEF Live
  <2>2. \/ p \in {"open", "cd", "getbody", "put", "shabody", "quit"} /\ Len(D) = 1
        \/ p \in {"ls", "get", "getdata", "sha", "shadata"}
    BY <2>1 DEF Answered
  <2>3. CASE p \in {"open", "cd", "getbody", "put", "shabody", "quit"} /\ Len(D) = 1
    BY <2>1, <2>3 DEF Answered, DownOK, IsReply
  <2>4. CASE p = "ls"
    BY <2>1, <2>4 DEF Answered, DownOK
  <2>5. CASE p = "get"
    <3>1. CASE IsReply(D, "GET_REPLY", 0) /\ Len(D) = 1
      BY <2>5, <3>1 DEF DownOK, IsReply
    <3>2. CASE IsReply(D, "GET_REPLY", 1) /\ DataDue(cl, t, D, 1)
      BY <2>5, <3>2, DataPrefix DEF DownOK, IsReply
    <3>3. QED
      BY <2>1, <2>5, <3>1, <3>2 DEF Answered
  <2>6. CASE p = "getdata"
    BY <2>1, <2>6, DataPrefix DEF Answered, DownOK
  <2>7. CASE p = "sha"
    <3>1. CASE IsReply(D, "SHA_REPLY", 0) /\ Len(D) = 1
      BY <2>7, <3>1 DEF DownOK, IsReply
    <3>2. CASE IsReply(D, "SHA_REPLY", 1) /\ SumDue(t, D, 1)
      BY <2>7, <3>2, SumPrefix DEF DownOK, IsReply
    <3>3. QED
      BY <2>1, <2>7, <3>1, <3>2 DEF Answered
  <2>8. CASE p = "shadata"
    BY <2>1, <2>8, SumPrefix DEF Answered, DownOK
  <2>9. QED
    BY <2>2, <2>3, <2>4, <2>5, <2>6, <2>7, <2>8
<1>3. QED
  BY <1>1, <1>2

LEMMA RequestPrefix ==
  ASSUME NEW cl \in ClientStates, NEW i \in {0, 1, 2},
         NEW q \in Seq(Messages), NEW U \in Seq(Messages), Len(q) <= Len(U),
         \A j \in 1 .. Len(q) : q[j] = U[j], Requested(cl, U, i),
         cl.pc # "open"
  PROVE  RequestLeft(q, i)
<1>1. CASE cl.pc \in NamedPcs
  <2>1. Payload("name", cl.name).type = "name"
    BY DEF Payload
  <2>2. /\ Len(U) = i + 2 /\ U[i + 1].type \in NamedRequests
        /\ U[i + 2] = Payload("name", cl.name)
    BY <1>1 DEF Requested, RequestLen, RequestType, NamedPcs, NamedRequests
  <2>3. NamedRequests \subseteq Requests
    BY DEF NamedRequests, Requests
  <2>4. QED
    BY <2>1, <2>2, <2>3 DEF RequestLeft
<1>2. CASE cl.pc \notin NamedPcs
  <2>1. Len(U) <= i + 1 /\ (Len(U) = i + 1 => U[i + 1].type \in Requests)
    BY <1>2 DEF Requested, RequestLen, RequestType, NamedPcs, Requests
  <2>2. QED
    BY <2>1 DEF RequestLeft
<1>3. QED
  BY <1>1, <1>2

LEMMA UpPrefix ==
  ASSUME NEW cl \in ClientStates, NEW t \in Sessions, NEW D, NEW q \in Seq(Messages),
         NEW U \in Seq(Messages), Len(q) <= Len(U),
         \A j \in 1 .. Len(q) : q[j] = U[j], Live(cl, t, U, D)
  PROVE  UpOK(t.pc, q)
<1>1. CASE q = <<>>
  <2>1. Len(q) = 0
    BY <1>1
  <2>2. QED
    BY <1>1, <2>1 DEF UpOK, RequestLeft
<1>2. CASE q # <<>>
  <2>1. U # <<>> /\ Len(U) > 0
    BY <1>2, LenZero
  <2>2. Asked(cl, t, U)
    BY <2>1 DEF Live
  <2>3. CASE cl.pc = "open" /\ t.pc \in {"new", "open"} /\ Requested(cl, U, 0)
    BY <2>3 DEF UpOK, Requested, RequestLen, RequestType, NamedPcs
  <2>4. CASE /\ cl.pc \in NamedPcs /\ t.pc = "name" /\ t.req.type = RequestType(cl.pc)
             /\ Len(U) = 1 /\ U[1] = Payload("name", cl.name)
    BY <2>4 DEF UpOK, Payload
  <2>5. ASSUME cl.pc # "open", NEW i \in {0, 1, 2}, Uploaded(t.pc, U, i), Requested(cl, U, i)
        PROVE  UpOK(t.pc, q)
    <3>1. RequestLeft(q, i)
      BY <2>5, RequestPrefix
    <3>2. CASE i = 0 /\ t.pc \in {"request", "truncate", "write"}
      BY <3>1, <3>2 DEF UpOK
    <3>3. CASE i = 1 /\ t.pc = "body" /\ IsData(U[1])
      BY <3>1, <3>3 DEF UpOK
    <3>4. CASE i = 1 /\ t.pc = "filedata" /\ U[1] = EmptyData
      BY <3>1, <3>4 DEF UpOK
    <3>5. CASE i = 2 /\ t.pc = "filedata" /\ Announces(U[1]) /\ IsData(U[2])
      BY <3>1, <3>5 DEF UpOK
    <3>6. QED
      BY <2>5, <3>2, <3>3, <3>4, <3>5 DEF Uploaded
  <2>6. QED
    BY <2>2, <2>3, <2>4, <2>5 DEF Asked
<1>3. QED
  BY <1>1, <1>2

------------------------------------------------------------------------------
(* What the invariant says of one connection. *)

LEMMA ThreadFacts ==
  ASSUME IInv, NEW s \in Conns
  PROVE  /\ TypeInv /\ FilesAreMerges
         /\ ConnOK(conn[s], session[s], serverUp) /\ ContentOK(session[s])
         /\ conn[s] \in Connections /\ session[s] \in Sessions
         /\ conn[s].q["client"] \in Seq(Messages) /\ conn[s].q["server"] \in Seq(Messages)
         /\ conn[s].open["client"] \in BOOLEAN /\ conn[s].open["server"] \in BOOLEAN
         /\ session[s].out \in Seq(Messages)
BY TypeFacts, StreamTypes DEF IInv

\* A thread at work has its end of the connection.
LEMMA ThreadOpen ==
  ASSUME IInv, NEW s \in Conns, serverUp, session[s].pc # "done",
         session[s].pc # "new" \/ conn[s].used
  PROVE  /\ conn[s].used /\ conn[s].open["server"] /\ conn[s].err["client"] = "none"
         /\ ~conn[s].open["client"] => Orphan(conn[s], session[s])
BY ThreadFacts DEF ConnOK

LEMMA HolderFacts ==
  ASSUME IInv, NEW c \in Clients, Sock(c) # Fresh
  PROVE  /\ Sock(c) \in Conns /\ client[c] \in ClientStates
         /\ client[c].out \in Seq(Messages) /\ RequestOK(client[c])
         /\ conn[Sock(c)].open["client"] /\ conn[Sock(c)].used
         /\ conn[Sock(c)].err["server"] = "none"
         /\ PairOK(client[c], session[Sock(c)], conn[Sock(c)])
         /\ \A d \in Clients : Sock(d) = Sock(c) => d = c
<1>1. TypeInv
  BY DEF IInv
<1>2. Sock(c) \in Conns
  BY <1>1, ClientFacts
<1>3. QED
  BY <1>1, <1>2, ClientFacts DEF IInv, ConnOK

\* A step of the thread s that leaves the server up.
LEMMA ServerFrame ==
  ASSUME IInv, NEW s \in Conns, NEW k \in Connections, NEW t \in Sessions,
         conn' = [conn EXCEPT ![s] = k], session' = [session EXCEPT ![s] = t],
         TypeInv', FilesAreMerges', UNCHANGED serverUp, UNCHANGED clientVars,
         ConnOK(k, t, serverUp), ContentOK(t), k.open["client"] = conn[s].open["client"],
         \A c \in Clients : Sock(c) = s => PairOK(client[c], t, k)
  PROVE  IInv'
<1>1. /\ conn'[s] = k /\ session'[s] = t
      /\ \A r \in Conns : r # s => conn'[r] = conn[r] /\ session'[r] = session[r]
  BY DEF IInv, TypeInv, TypeOK
<1>2. client' = client /\ \A c \in Clients : Sock(c)' = Sock(c)
  BY DEF clientVars, Sock
<1>3. ASSUME NEW r \in Conns
      PROVE  /\ ConnOK(conn[r], session[r], serverUp)' /\ ContentOK(session[r])'
             /\ (conn[r].open["client"] => Held(r))'
  <2>1. ConnOK(conn'[r], session'[r], serverUp) /\ ContentOK(session'[r])
    BY <1>1 DEF IInv
  <2>2. conn'[r].open["client"] => Held(r)
    BY <1>1 DEF IInv
  <2>3. Held(r)' <=> Held(r)
    BY <1>2 DEF Held
  <2>4. QED
    BY <2>1, <2>2, <2>3
<1>4. ASSUME NEW c \in Clients
      PROVE  /\ RequestOK(client[c])'
             /\ Sock(c)' # Fresh =>
                  /\ conn'[Sock(c)].open["client"]
                  /\ PairOK(client[c], session'[Sock(c)], conn'[Sock(c)])
                  /\ \A d \in Clients : Sock(d) = Sock(c) => d = c
  <2>1. RequestOK(client[c])'
    BY <1>2 DEF IInv
  <2>2. ASSUME Sock(c) # Fresh
        PROVE  /\ conn'[Sock(c)].open["client"]
               /\ PairOK(client[c], session'[Sock(c)], conn'[Sock(c)])
               /\ \A d \in Clients : Sock(d) = Sock(c) => d = c
    BY <1>1, <2>2, HolderFacts
  <2>3. QED
    BY <1>2, <2>1, <2>2
<1>5. QED
  BY <1>2, <1>3, <1>4 DEF IInv

LEMMA ConcatEmpty ==
  ASSUME NEW u \in Seq(Messages), NEW v \in Seq(Messages), u \o v = <<>>
  PROVE  u = <<>> /\ v = <<>>
<1>1. Len(u \o v) = Len(u) + Len(v) /\ Len(u) \in Nat /\ Len(v) \in Nat
  BY Streams
<1>2. Len(u \o v) = 0
  OBVIOUS
<1>3. Len(u) = 0 /\ Len(v) = 0
  BY <1>1, <1>2
<1>4. QED
  BY <1>3, LenZero

\* What a client finds of its reply when the server goes.
LEMMA LeftDown ==
  ASSUME NEW cl \in ClientStates, NEW t \in Sessions, NEW u \in Seq(Messages),
         NEW q \in Seq(Messages), Live(cl, t, u \o cl.out, q \o t.out)
  PROVE  DownOK(cl.pc, q) /\ (cl.out # <<>> => q = <<>>)
<1> DEFINE U == u \o cl.out
           D == q \o t.out
<1>1. cl.out \in Seq(Messages) /\ t.out \in Seq(Messages)
  BY DEF ClientStates, Sessions
<1>2. D \in Seq(Messages) /\ Len(q) <= Len(D) /\ \A j \in 1 .. Len(q) : q[j] = D[j]
  BY <1>1, Prefix
<1>3. Live(cl, t, U, D)
  OBVIOUS
<1>4. (U = <<>> => cl.out = <<>>) /\ (D = <<>> => q = <<>>)
  BY <1>1, ConcatEmpty
<1> HIDE DEF U, D
<1>5. DownOK(cl.pc, q)
  BY <1>2, <1>3, DownPrefix
<1>6. U = <<>> \/ D = <<>>
  BY <1>3 DEF Live
<1>7. QED
  BY <1>4, <1>5, <1>6

\* A thread hangs up: its client, if any, keeps the replies that arrived.
LEMMA HangUpInv ==
  ASSUME IInv, NEW s \in Conns, serverUp, session[s].pc # "done",
         session[s].pc # "new" \/ conn[s].used,
         NEW k \in Connections, k.used = conn[s].used, k.open = conn[s].open,
         k.q["client"] = conn[s].q["client"],
         k.open["client"] => k.err["server"] = "none",
         HangUp(s, k), TypeInv', files' = files, UNCHANGED serverUp, UNCHANGED clientVars
  PROVE  IInv'
<1> DEFINE z == Closed(k, "server")
           t == Exited(session[s])
<1>1. conn[s].used /\ conn[s].open["server"] /\ conn[s].open["client"] \in BOOLEAN
  BY ThreadOpen, ThreadFacts
<1>2. z \in Connections /\ t \in Sessions /\ t.pc = "done" /\ t.out = <<>>
  BY PeerOf, ClosedType, ThreadFacts, ExitedType
<1>3. CASE ~k.open["client"]
  <2>1. z = Spent
    BY <1>3, ServerCloses
  <2>2. z.used /\ ~z.open["client"] /\ ~z.open["server"] /\ z.q["client"] = <<>>
        /\ z.q["server"] = <<>>
    BY <2>1, SpentFields
  <2>3. ConnOK(z, t, serverUp)
    BY <1>2, <2>2 DEF ConnOK
  <2>4. \A c \in Clients : Sock(c) # s
    BY <1>3, HolderFacts, ClientAssumption
  <2>5. QED
    <3>1. FilesAreMerges'
      BY ThreadFacts DEF FilesAreMerges, clientVars
    <3>2. ContentOK(t)
      BY <1>2 DEF ContentOK
    <3> HIDE DEF z, t
    <3>3. z.open["client"] = conn[s].open["client"]
      BY <1>2, <1>3, <2>2, ThreadFacts DEF Connections, Ends
    <3>4. conn' = [conn EXCEPT ![s] = z] /\ session' = [session EXCEPT ![s] = t]
      BY DEF HangUp, z, t
    <3>5. QED
      BY <1>2, <2>3, <2>4, <3>1, <3>2, <3>3, <3>4, ServerFrame
<1>4. CASE k.open["client"]
  <2>1. z.used /\ z.open["client"] /\ ~z.open["server"] /\ z.q["server"] = <<>>
        /\ z.q["client"] = k.q["client"] /\ z.err["server"] = "none"
    BY <1>1, <1>4, ServerCloses
  <2>2. ConnOK(z, t, serverUp)
    BY <1>2, <2>1 DEF ConnOK
  <2>3. ASSUME NEW c \in Clients, Sock(c) = s
        PROVE  PairOK(client[c], t, z)
    <3> DEFINE q == conn[s].q["client"]
               u == conn[s].q["server"]
    <3>1. Sock(c) # Fresh
      BY <2>3, ClientAssumption
    <3>2. PairOK(client[c], session[s], conn[s]) /\ client[c] \in ClientStates
      BY <2>3, <3>1, HolderFacts
    <3>3. Live(client[c], session[s], u \o client[c].out, q \o session[s].out)
      BY <1>1, <3>2 DEF PairOK
    <3>4. q \in Seq(Messages) /\ u \in Seq(Messages) /\ session[s] \in Sessions
      BY ThreadFacts
    <3> HIDE DEF q, u
    <3>5. DownOK(client[c].pc, q) /\ (client[c].out # <<>> => q = <<>>)
      BY <3>2, <3>3, <3>4, LeftDown
    <3>6. QED
      BY <2>1, <3>5 DEF PairOK, q
  <2>4. FilesAreMerges' /\ ContentOK(t)
    BY <1>2, ThreadFacts DEF FilesAreMerges, clientVars, ContentOK
  <2> HIDE DEF z, t
  <2>5. z.open["client"] = conn[s].open["client"]
    BY <1>1, <1>4, <2>1
  <2>6. conn' = [conn EXCEPT ![s] = z] /\ session' = [session EXCEPT ![s] = t]
    BY DEF HangUp, z, t
  <2>7. QED
    BY <1>2, <2>2, <2>3, <2>4, <2>5, <2>6, ServerFrame
<1>5. QED
  BY <1>1, <1>3, <1>4

LEMMA SameFiles ==
  ASSUME FilesAreMerges, files' = files, UNCHANGED clientVars
  PROVE  FilesAreMerges'
BY DEF FilesAreMerges, clientVars

\* SIGPIPE: every thread goes, and every client keeps the replies that arrived.
LEMMA KilledInv ==
  ASSUME IInv, Killed, TypeInv', files' = files, UNCHANGED clientVars
  PROVE  IInv'
<1>1. FilesAreMerges'
  BY SameFiles DEF IInv
<1>2. client' = client /\ \A c \in Clients : Sock(c)' = Sock(c)
  BY DEF clientVars, Sock
<1>3. ASSUME NEW s \in Conns
      PROVE  /\ ~conn'[s].open["server"]
             /\ conn'[s].open["client"] <=> conn[s].open["client"]
             /\ conn'[s].used <=> conn[s].used
             /\ conn'[s].q["server"] = <<>>
             /\ conn[s].open["client"] =>
                  /\ conn'[s].q["client"] = conn[s].q["client"]
                  /\ conn'[s].err["server"] = conn[s].err["server"]
             /\ ~conn[s].open["client"] => conn'[s].q["client"] = <<>>
             /\ ~conn[s].used => conn'[s] = Unused
             /\ session'[s].pc = "done" /\ session'[s].out = <<>>
  <2>1. session'[s].pc = "done" /\ session'[s].out = <<>>
    BY ThreadFacts, ExitedType DEF Killed
  <2>2. ConnOK(conn[s], session[s], serverUp) /\ conn[s] \in Connections
    BY ThreadFacts
  <2>3. CASE ~conn[s].open["server"]
    <3>1. conn'[s] = conn[s]
      BY <2>3 DEF Killed
    <3>2. QED
      BY <2>1, <2>2, <2>3, <3>1 DEF ConnOK
  <2>4. CASE conn[s].open["server"] /\ conn[s].open["client"]
    <3>1. conn'[s] = Closed(conn[s], "server") /\ conn[s].used
      BY <2>2, <2>4 DEF Killed, ConnOK
    <3>2. QED
      BY <2>1, <2>2, <2>4, <3>1, ServerCloses
  <2>5. CASE conn[s].open["server"] /\ ~conn[s].open["client"]
    <3>1. conn'[s] = Closed(conn[s], "server") /\ conn[s].used
      BY <2>2, <2>5 DEF Killed, ConnOK
    <3>2. conn'[s] = Spent
      BY <2>2, <2>5, <3>1, ServerCloses
    <3>3. Spent.used /\ ~Spent.open["client"] /\ ~Spent.open["server"]
          /\ Spent.q["client"] = <<>> /\ Spent.q["server"] = <<>>
      BY PeerOf, BlankFields DEF Spent
    <3>4. QED
      BY <2>1, <2>5, <3>1, <3>2, <3>3
  <2>6. QED
    BY <2>3, <2>4, <2>5
<1>4. ASSUME NEW s \in Conns
      PROVE  /\ ConnOK(conn[s], session[s], serverUp)' /\ ContentOK(session[s])'
             /\ (conn[s].open["client"] => Held(s))'
  <2>1. ~serverUp'
    BY DEF Killed
  <2>2. ConnOK(conn[s], session[s], serverUp)
    BY ThreadFacts
  <2>3. ConnOK(conn'[s], session'[s], serverUp')
    BY <1>3, <2>1, <2>2 DEF ConnOK
  <2>4. ContentOK(session'[s])
    BY <1>3 DEF ContentOK
  <2>5. conn'[s].open["client"] => Held(s)
    BY <1>3 DEF IInv
  <2>6. Held(s)' <=> Held(s)
    BY <1>2 DEF Held
  <2>7. QED
    BY <2>3, <2>4, <2>5, <2>6
<1>5. ASSUME NEW c \in Clients, Sock(c) # Fresh
      PROVE  PairOK(client[c], session'[Sock(c)], conn'[Sock(c)])
  <2> DEFINE s == Sock(c)
             q == conn[s].q["client"]
             u == conn[s].q["server"]
  <2>1. s \in Conns /\ PairOK(client[c], session[s], conn[s])
        /\ client[c] \in ClientStates /\ conn[s].open["client"]
    BY <1>5, HolderFacts
  <2>2. CASE ~conn[s].open["server"]
    <3>1. DownOK(client[c].pc, q) /\ (client[c].out # <<>> => q = <<>>)
      BY <2>1, <2>2 DEF PairOK
    <3>2. QED
      BY <1>3, <2>1, <3>1 DEF PairOK
  <2>3. CASE conn[s].open["server"]
    <3>1. Live(client[c], session[s], u \o client[c].out, q \o session[s].out)
      BY <2>1, <2>3 DEF PairOK
    <3>2. q \in Seq(Messages) /\ u \in Seq(Messages) /\ session[s] \in Sessions
      BY <2>1, ThreadFacts
    <3> HIDE DEF q, u
    <3>3. DownOK(client[c].pc, q) /\ (client[c].out # <<>> => q = <<>>)
      BY <2>1, <3>1, <3>2, LeftDown
    <3>4. QED
      BY <1>3, <2>1, <3>3 DEF PairOK, q
  <2>4. QED
    BY <2>2, <2>3
<1>6. ASSUME NEW c \in Clients
      PROVE  /\ RequestOK(client[c])'
             /\ Sock(c)' # Fresh =>
                  /\ conn'[Sock(c)].open["client"]
                  /\ PairOK(client[c], session'[Sock(c)], conn'[Sock(c)])
                  /\ \A d \in Clients : Sock(d) = Sock(c) => d = c
  <2>1. RequestOK(client[c])'
    BY <1>2 DEF IInv
  <2>2. Sock(c) # Fresh => conn'[Sock(c)].open["client"]
    BY <1>3, HolderFacts
  <2>3. QED
    BY <1>2, <1>5, <2>1, <2>2, HolderFacts
<1>7. QED
  BY <1>1, <1>2, <1>4, <1>6 DEF IInv

------------------------------------------------------------------------------
(* Steps of a thread that goes on. *)

\* A receive: what holds of the stream, seen from either kind of connection.
LEMMA RecvFrame ==
  ASSUME IInv, NEW s \in Conns, NEW pc \in SessionPcs \ {"new", "done"}, Arrived(s, pc),
         NEW t \in Sessions, t.pc \notin {"new", "done"}, ContentOK(t),
         conn' = [conn EXCEPT ![s] = Taken(s)], session' = [session EXCEPT ![s] = t],
         UNCHANGED <<files, serverUp>>, UNCHANGED clientVars, TypeInv',
         \A cl \in ClientStates, U \in Seq(Messages) :
           U # <<>> /\ U[1] = Incoming(s) /\ Asked(cl, session[s], U)
             => Live(cl, t, Tail(U), t.out),
         \A q \in Seq(Messages) :
           q # <<>> /\ q[1] = Incoming(s) /\ UpOK(pc, q)
             => UpOK(t.pc, Tail(q)) /\ (t.out # <<>> => Tail(q) = <<>>)
  PROVE  IInv'
<1> DEFINE k0 == conn[s]
           k  == Taken(s)
           q  == k0.q["server"]
<1>1. serverUp /\ session[s].pc = pc /\ session[s].out = <<>> /\ q # <<>>
      /\ q \in Seq(Messages) /\ k0 \in Connections /\ Incoming(s) = Head(q)
  BY ThreadFacts DEF Arrived, At, HasData, Incoming, First
<1>2. k0.used /\ k0.open["server"] /\ k0.err["client"] = "none"
      /\ (~k0.open["client"] => Orphan(k0, session[s]))
  BY <1>1, ThreadOpen
<1>3. /\ k \in Connections /\ k.used = k0.used /\ k.open = k0.open /\ k.err = k0.err
      /\ k.q["server"] = Tail(q) /\ k.q["client"] = k0.q["client"]
  BY <1>1, PeerOf, AfterRecvType, AfterRecvFields DEF Taken, HasData
<1>4. Incoming(s) = q[1]
  BY <1>1, TailOf
<1> HIDE DEF k, k0, q
<1>5. ConnOK(k, t, serverUp)
  <2>1. CASE k.open["client"]
    <3>1. k.err["server"] = "none"
      BY <1>3, <2>1, ThreadFacts DEF ConnOK, k0
    <3>2. QED
      BY <1>1, <1>2, <1>3, <2>1, <3>1 DEF ConnOK
  <2>2. CASE ~k.open["client"]
    <3>1. Orphan(k0, session[s])
      BY <1>2, <1>3, <2>2
    <3>2. UpOK(pc, q) /\ k0.err["server"] = "none"
      BY <1>1, <3>1 DEF Orphan, q
    <3>3. UpOK(t.pc, Tail(q)) /\ (t.out # <<>> => Tail(q) = <<>>)
      BY <1>1, <1>4, <3>2
    <3>4. Orphan(k, t)
      BY <1>3, <3>2, <3>3 DEF Orphan
    <3>5. k.q["client"] = <<>>
      BY <1>3, <2>2, ThreadFacts DEF ConnOK, k0
    <3>6. QED
      BY <1>1, <1>2, <1>3, <2>2, <3>4, <3>5 DEF ConnOK
  <2>3. QED
    BY <2>1, <2>2
<1>6. ASSUME NEW c \in Clients, Sock(c) = s
      PROVE  PairOK(client[c], t, k)
  <2> DEFINE cl == client[c]
             U  == q \o cl.out
             D  == k0.q["client"] \o session[s].out
  <2>1. Sock(c) # Fresh
    BY <1>6, ClientAssumption
  <2>2. PairOK(cl, session[s], k0) /\ cl \in ClientStates /\ cl.out \in Seq(Messages)
    BY <1>6, <2>1, HolderFacts DEF k0
  <2>3. Live(cl, session[s], U, D)
    BY <1>2, <2>2 DEF PairOK, q
  <2>4. /\ U \in Seq(Messages) /\ U # <<>> /\ U[1] = Incoming(s)
        /\ Tail(q) \o cl.out = Tail(U)
    <3> DEFINE v == cl.out
    <3>1. q \in Seq(Messages) /\ q # <<>> /\ v \in Seq(Messages) /\ Incoming(s) = Head(q)
      BY <1>1, <2>2
    <3> HIDE DEF q, v
    <3>2. /\ q \o v \in Seq(Messages) /\ q \o v # <<>>
          /\ Head(q) = (q \o v)[1] /\ Tail(q) \o v = Tail(q \o v)
      BY <3>1, FirstOf
    <3>3. QED
      BY <3>1, <3>2 DEF v
  <2>5. D = k0.q["client"] /\ k0.q["client"] \in Seq(Messages)
    BY <1>1, ThreadFacts, Streams DEF k0
  <2> HIDE DEF U, D
  <2>6. Asked(cl, session[s], U) /\ D = <<>>
    BY <2>3, <2>4 DEF Live
  <2>7. Live(cl, t, Tail(U), t.out)
    BY <2>2, <2>4, <2>6
  <2>8. k.q["client"] \o t.out = t.out
    <3>1. k.q["client"] = <<>> /\ t.out \in Seq(Messages)
      BY <1>3, <2>5, <2>6 DEF Sessions
    <3>2. QED
      BY <3>1, Streams, EmptyContent
  <2>9. QED
    BY <1>2, <1>3, <2>4, <2>7, <2>8 DEF PairOK
<1>7. FilesAreMerges'
  BY SameFiles DEF IInv
<1>8. QED
  BY <1>3, <1>5, <1>6, <1>7, ServerFrame DEF k, k0

\* A step that sends and receives nothing.
LEMMA LocalFrame ==
  ASSUME IInv, NEW s \in Conns, NEW pc \in SessionPcs \ {"new", "done"}, At(s, pc),
         NEW t \in Sessions, t.pc \notin {"new", "done"}, ContentOK(t),
         session' = [session EXCEPT ![s] = t], UNCHANGED <<conn, serverUp>>,
         FilesAreMerges', UNCHANGED clientVars, TypeInv',
         \A cl \in ClientStates, U, D \in Seq(Messages) :
           Live(cl, session[s], U, D) => Live(cl, t, U, D \o t.out),
         \A q \in Seq(Messages) :
           UpOK(pc, q) => UpOK(t.pc, q) /\ (t.out # <<>> => q = <<>>),
         t.out # <<>> => t.req.type \notin {"CD_REQUEST", "PUT_REQUEST"}
  PROVE  IInv'
<1> DEFINE k == conn[s]
<1>1. serverUp /\ session[s].pc = pc /\ session[s].out = <<>> /\ k \in Connections
      /\ k.q["server"] \in Seq(Messages) /\ k.q["client"] \in Seq(Messages)
  BY ThreadFacts DEF At
<1>2. k.used /\ k.open["server"] /\ k.err["client"] = "none"
      /\ (~k.open["client"] => Orphan(k, session[s]))
  BY <1>1, ThreadOpen
<1>3. ConnOK(k, t, serverUp)
  <2>1. ConnOK(k, session[s], serverUp)
    BY ThreadFacts
  <2>2. ~k.open["client"] => Orphan(k, t)
    BY <1>1, <1>2 DEF Orphan
  <2>3. QED
    BY <1>1, <1>2, <2>1, <2>2 DEF ConnOK
<1>4. ASSUME NEW c \in Clients, Sock(c) = s
      PROVE  PairOK(client[c], t, k)
  <2> DEFINE cl == client[c]
             U  == k.q["server"] \o cl.out
             D  == k.q["client"]
  <2>1. Sock(c) # Fresh
    BY <1>4, ClientAssumption
  <2>2. PairOK(cl, session[s], k) /\ cl \in ClientStates /\ cl.out \in Seq(Messages)
    BY <1>4, <2>1, HolderFacts
  <2>3. Live(cl, session[s], U, D \o session[s].out)
    BY <1>2, <2>2 DEF PairOK
  <2>4. D \o session[s].out = D /\ U \in Seq(Messages)
    BY <1>1, <2>2, Streams
  <2>5. Live(cl, t, U, D \o t.out)
    BY <1>1, <2>2, <2>3, <2>4
  <2>6. QED
    BY <1>2, <2>5 DEF PairOK
<1>5. conn' = [conn EXCEPT ![s] = k]
  BY ConnSame DEF IInv
<1> HIDE DEF k
<1>6. k.open["client"] = conn[s].open["client"]
  BY DEF k
<1>7. QED
  BY <1>1, <1>3, <1>4, <1>5, <1>6, ServerFrame

------------------------------------------------------------------------------
(* The steps of a thread. *)

LEMMA AcceptInv ==
  ASSUME IInv, NEW s \in Conns, Accept(s), TypeInv', UNCHANGED clientVars
  PROVE  IInv'
<1> DEFINE k == conn[s]
           t == [session[s] EXCEPT !.pc = "open"]
<1>1. serverUp /\ session[s].pc = "new" /\ session[s].out = <<>> /\ k.used
      /\ UNCHANGED <<conn, files, serverUp>>
  BY DEF Accept, At
<1>2. session' = [session EXCEPT ![s] = t] /\ conn' = [conn EXCEPT ![s] = k]
  BY ConnSame DEF Accept, IInv
<1>3. t \in Sessions /\ t.pc = "open" /\ t.out = <<>> /\ t.req = session[s].req
  BY <1>1, ThreadFacts DEF Sessions, SessionPcs
<1>4. k \in Connections /\ k.open["server"] /\ k.err["client"] = "none"
      /\ (~k.open["client"] => Orphan(k, session[s])) /\ ConnOK(k, session[s], serverUp)
  BY <1>1, ThreadOpen, ThreadFacts
<1> HIDE DEF t
<1>5. ~k.open["client"] => Orphan(k, t)
  BY <1>1, <1>3, <1>4 DEF Orphan, UpOK
<1>6. ConnOK(k, t, serverUp)
  BY <1>1, <1>3, <1>4, <1>5 DEF ConnOK
<1>7. ASSUME NEW c \in Clients, Sock(c) = s
      PROVE  PairOK(client[c], t, k)
  <2> DEFINE cl == client[c]
             U  == k.q["server"] \o cl.out
             D  == k.q["client"]
  <2>1. Sock(c) # Fresh
    BY <1>7, ClientAssumption
  <2>2. PairOK(cl, session[s], k) /\ cl \in ClientStates
    BY <1>7, <2>1, HolderFacts
  <2>3. Live(cl, session[s], U, D \o session[s].out)
    BY <1>4, <2>2 DEF PairOK
  <2> HIDE DEF cl, U
  <2>4. D \o session[s].out = D \o t.out
    BY <1>1, <1>3
  <2>5. ~Answered(cl, session[s], D \o session[s].out)
    BY <1>1 DEF Answered, DataDue, SumDue
  <2>6. D \o session[s].out = <<>> /\ Asked(cl, session[s], U)
    BY <2>3, <2>5 DEF Live
  <2>7. Asked(cl, t, U)
    BY <1>1, <1>3, <2>6 DEF Asked, Uploaded
  <2>8. Live(cl, t, U, D \o t.out)
    BY <2>4, <2>6, <2>7 DEF Live
  <2>9. QED
    BY <1>4, <2>8 DEF PairOK, U, cl
<1>8. FilesAreMerges' /\ ContentOK(t)
  BY <1>1, <1>3, SameFiles DEF IInv, ContentOK
<1> HIDE DEF k
<1>9. k.open["client"] = conn[s].open["client"]
  BY DEF k
<1>10. QED
  BY <1>1, <1>2, <1>3, <1>4, <1>6, <1>7, <1>8, <1>9, ServerFrame

\* A thread that sends to a client that has gone sends into the void, once.
LEMMA ServerSendInv ==
  ASSUME IInv, NEW s \in Conns, ServerSend(s), TypeInv', UNCHANGED clientVars
  PROVE  IInv'
<1> DEFINE k   == conn[s]
           out == session[s].out
           ms  == <<Head(out)>>
           z   == AfterSend(k, "server", ms)
           t   == [session[s] EXCEPT !.pc = session[s].pc, !.out = Tail(out)]
<1>1. serverUp /\ out # <<>> /\ out \in Seq(Messages) /\ k \in Connections
      /\ files' = files /\ k.q["client"] \in Seq(Messages) /\ ConnOK(k, session[s], serverUp)
  BY ThreadFacts DEF ServerSend
<1>2. session[s].pc \notin {"new", "done"}
  BY <1>1, TypeFacts DEF IInv, SessionOK
<1>3. k.used /\ k.open["server"] /\ k.err["client"] = "none"
      /\ (~k.open["client"] => Orphan(k, session[s]))
  BY <1>1, <1>2, ThreadOpen
<1>4. ms \in Seq(Messages) /\ Tail(out) \in Seq(Messages) /\ Len(Tail(out)) = Len(out) - 1
  BY <1>1, TailOf
<1>5. /\ z \in Connections /\ z.used = k.used /\ z.open = k.open
      /\ z.q["server"] = k.q["server"] /\ z.err["client"] = k.err["client"]
      /\ k.err["server"] = "none" /\ k.open["client"] =>
           z.q["client"] = k.q["client"] \o ms /\ z.err["server"] = "none"
      /\ k.err["server"] = "none" /\ ~k.open["client"] =>
           z.q["client"] = k.q["client"] /\ z.err["server"] = "pipe"
      /\ k.err["server"] # "none" => z.q["client"] = k.q["client"]
  <2>1. z = AfterSend(k, "server", ms)
    OBVIOUS
  <2>2. k \in Connections /\ ms \in Seq(Messages)
    BY <1>1, <1>4
  <2> HIDE DEF k, ms, out, z
  <2>3. z \in Connections /\ z.used = k.used /\ z.open = k.open
        /\ z.q["server"] = k.q["server"] /\ z.err["client"] = k.err["client"]
    BY <2>1, <2>2, ServerSends
  <2>4. k.err["server"] # "none" => z.q["client"] = k.q["client"]
    BY <2>1, <2>2, ServerSends
  <2>5. k.err["server"] = "none" /\ k.open["client"] =>
           z.q["client"] = k.q["client"] \o ms /\ z.err["server"] = "none"
    BY <2>1, <2>2, ServerSends
  <2>6. QED
    BY <2>1, <2>2, <2>3, <2>4, <2>5, ServerSends
<1>6. CASE SendResult(k, "server") = "ok"
  <2>1. k.err["server"] = "none"
    BY <1>6 DEF SendResult
  <2>2. Goto(s, z, session[s].pc, Tail(out)) /\ UNCHANGED serverUp
    BY <1>6 DEF ServerSend
  <2>3. conn' = [conn EXCEPT ![s] = z] /\ session' = [session EXCEPT ![s] = t]
    BY <2>2 DEF Goto
  <2>4. t \in Sessions /\ t.pc = session[s].pc /\ t.req = session[s].req
        /\ t.out = Tail(out) /\ t.name = session[s].name
        /\ t.size = session[s].size /\ t.buf = session[s].buf
    BY <1>4, ThreadFacts DEF Sessions
  <2> HIDE DEF t, z, ms
  <2>5. ~k.open["client"] => Orphan(z, t)
    <3>1. ASSUME ~k.open["client"]
          PROVE  UpOK(session[s].pc, k.q["server"]) /\ k.q["server"] = <<>>
      BY <1>1, <1>3, <3>1 DEF Orphan
    <3>2. session[s].req.type \in {"CD_REQUEST", "PUT_REQUEST"} => Tail(out) = <<>>
      <4>1. SessionOK(session[s], files)
        BY TypeFacts DEF IInv
      <4>2. session[s].req.type \in {"CD_REQUEST", "PUT_REQUEST"} => Len(out) <= 1
        BY <4>1 DEF SessionOK
      <4>3. QED
        BY <1>1, <4>2, OneLeft
    <3>3. QED
      BY <1>5, <2>1, <2>4, <3>1, <3>2 DEF Orphan
  <2>6. ConnOK(z, t, serverUp)
    BY <1>1, <1>2, <1>3, <1>5, <2>1, <2>4, <2>5 DEF ConnOK
  <2>7. ASSUME NEW c \in Clients, Sock(c) = s
        PROVE  PairOK(client[c], t, z)
    <3>1. Sock(c) # Fresh
      BY <2>7, ClientAssumption
    <3>2. PairOK(client[c], session[s], k) /\ k.open["client"]
      BY <2>7, <3>1, HolderFacts
    <3>3. z.q["client"] \o t.out = k.q["client"] \o out
      <4>1. z.q["client"] \o t.out = (k.q["client"] \o <<Head(out)>>) \o Tail(out)
        BY <1>5, <2>1, <2>4, <3>2 DEF ms
      <4> HIDE DEF k, out
      <4>2. QED
        BY <1>1, <4>1, Streams
    <3>4. Live(client[c], session[s], k.q["server"] \o client[c].out, k.q["client"] \o out)
      BY <1>3, <3>2 DEF PairOK
    <3> DEFINE U == k.q["server"] \o client[c].out
               D == k.q["client"] \o out
    <3>5. Live(client[c], session[s], U, D)
      BY <3>4
    <3> HIDE DEF U, D
    <3>6. Live(client[c], t, U, D)
      BY <2>4, <3>5 DEF Live, Asked, Answered, DataDue, SumDue
    <3>7. QED
      BY <1>3, <1>5, <3>3, <3>6 DEF PairOK, U, D
  <2>8. FilesAreMerges' /\ ContentOK(t)
    BY <1>1, <2>4, SameFiles, ThreadFacts DEF ContentOK
  <2> HIDE DEF k
  <2>9. z.open["client"] = conn[s].open["client"]
    BY <1>5 DEF k
  <2>10. QED
    BY <1>5, <2>2, <2>3, <2>4, <2>6, <2>7, <2>8, <2>9, ServerFrame
<1>7. CASE SendResult(k, "server") = "error"
  <2>1. HangUp(s, z) /\ UNCHANGED serverUp
    BY <1>7 DEF ServerSend
  <2>2. k.err["server"] = "reset"
    BY <1>7 DEF SendResult
  <2>3. ~k.open["client"]
    BY <1>1, <2>2 DEF ConnOK
  <2> HIDE DEF z
  <2>4. QED
    BY <1>1, <1>2, <1>5, <2>1, <2>2, <2>3, HangUpInv
<1>8. CASE SendResult(k, "server") \notin {"ok", "error"}
  <2>1. Killed
    BY <1>8 DEF ServerSend
  <2>2. QED
    BY <1>1, <2>1, KilledInv
<1>9. QED
  BY <1>6, <1>7, <1>8

LEMMA RecvFailsInv ==
  ASSUME IInv, NEW s \in Conns, RecvFails(s), TypeInv', UNCHANGED clientVars
  PROVE  IInv'
<1> DEFINE k == conn[s]
           z == AfterEnded(k, "server")
<1>1. serverUp /\ session[s].pc \notin {"new", "done"} /\ HangUp(s, z)
      /\ UNCHANGED <<files, serverUp>>
  BY DEF RecvFails, At
<1>2. z \in Connections /\ z.used = k.used /\ z.open = k.open /\ z.q = k.q
      /\ z.err["server"] = IF k.err["server"] = "reset" THEN "dead" ELSE k.err["server"]
  BY PeerOf, ThreadFacts, AfterEndedType, AfterEndedFields
<1>3. k.open["client"] => k.err["server"] = "none"
  BY ThreadFacts DEF ConnOK
<1> HIDE DEF z
<1>4. QED
  BY <1>1, <1>2, <1>3, HangUpInv

\* A thread hangs up on what it received.
LEMMA RecvHangUpInv ==
  ASSUME IInv, NEW s \in Conns, NEW pc \in SessionPcs \ {"new", "done"}, Arrived(s, pc),
         HangUp(s, Taken(s)), UNCHANGED <<files, serverUp>>, TypeInv', UNCHANGED clientVars
  PROVE  IInv'
<1> DEFINE k == conn[s]
           z == Taken(s)
<1>1. serverUp /\ session[s].pc \notin {"new", "done"} /\ HasData(k, "server")
  BY DEF Arrived, At
<1>2. z \in Connections /\ z.used = k.used /\ z.open = k.open
      /\ z.q["client"] = k.q["client"] /\ z.err = k.err
  BY <1>1, ThreadFacts, ServerReceives DEF Taken
<1>3. k.open["client"] => k.err["server"] = "none"
  BY ThreadFacts DEF ConnOK
<1> HIDE DEF z
<1>4. HangUp(s, z)
  BY DEF z
<1>5. QED
  BY <1>1, <1>2, <1>3, <1>4, HangUpInv

\* ... or of its own accord.
LEMMA LocalHangUpInv ==
  ASSUME IInv, NEW s \in Conns, NEW pc \in SessionPcs \ {"new", "done"}, At(s, pc),
         HangUp(s, conn[s]), UNCHANGED <<files, serverUp>>, TypeInv', UNCHANGED clientVars
  PROVE  IInv'
BY ThreadFacts, HangUpInv DEF At, ConnOK

------------------------------------------------------------------------------
(* What a thread receives. *)

\* A stream without its first message.
LEMMA RequestedTail ==
  ASSUME NEW cl \in ClientStates, NEW U \in Seq(Messages), U # <<>>, NEW i \in {0, 1},
         Requested(cl, U, i + 1)
  PROVE  Requested(cl, Tail(U), i)
<1>1. /\ Len(Tail(U)) = Len(U) - 1 /\ Len(U) \in Nat
      /\ \A j \in Nat : j > 0 /\ j < Len(U) => Tail(U)[j] = U[j + 1]
  BY TailOf
<1>2. RequestLen(cl.pc) \in {0, 1, 2}
      /\ (cl.pc \in NamedPcs => RequestLen(cl.pc) = 2)
  BY DEF RequestLen
<1>3. Len(U) = (i + 1) + RequestLen(cl.pc)
  BY DEF Requested
<1> DEFINE E == Tail(U)
           n == Len(U)
           l == RequestLen(cl.pc)
<1>4. /\ Len(E) = n - 1 /\ n \in Nat /\ n = (i + 1) + l /\ l \in {0, 1, 2}
      /\ \A j \in Nat : j > 0 /\ j < n => E[j] = U[j + 1]
  BY <1>1, <1>2, <1>3
<1> HIDE DEF E, n, l
<1>5. l > 0 => E[i + 1] = U[(i + 1) + 1]
  BY <1>4
<1>6. l = 2 => E[i + 2] = U[(i + 1) + 2]
  <2>1. l = 2 => i + 2 \in Nat /\ i + 2 > 0 /\ i + 2 < n /\ (i + 2) + 1 = (i + 1) + 2
    BY <1>4
  <2>2. QED
    BY <1>4, <2>1
<1>7. Len(E) = i + l
  BY <1>4
<1>8. Requested(cl, E, i)
  BY <1>2, <1>5, <1>6, <1>7 DEF Requested, l
<1>9. QED
  BY <1>8 DEF E

LEMMA RequestLeftTail ==
  ASSUME NEW q \in Seq(Messages), q # <<>>, NEW i \in {0, 1}, RequestLeft(q, i + 1)
  PROVE  RequestLeft(Tail(q), i)
<1>1. /\ Len(Tail(q)) = Len(q) - 1 /\ Len(q) \in Nat
      /\ \A j \in Nat : j > 0 /\ j < Len(q) => Tail(q)[j] = q[j + 1]
  BY TailOf
<1>2. Len(q) <= (i + 1) + 2
  BY DEF RequestLeft
<1>3. Len(Tail(q)) > i => Tail(q)[i + 1] = q[(i + 1) + 1]
  BY <1>1
<1>4. Len(Tail(q)) = i + 2 => Tail(q)[i + 2] = q[(i + 1) + 2]
  BY <1>1
<1>5. Len(Tail(q)) <= i + 2
  BY <1>1, <1>2
<1>6. Len(Tail(q)) > i => Tail(q)[i + 1].type \in Requests
  <2>1. Len(q) > i + 1 => q[(i + 1) + 1].type \in Requests
    BY DEF RequestLeft
  <2>2. QED
    BY <1>1, <1>3, <2>1
<1>7. Len(Tail(q)) = i + 2 =>
        Tail(q)[i + 1].type \in NamedRequests /\ Tail(q)[i + 2].type = "name"
  <2>1. Len(q) = (i + 1) + 2 =>
          q[(i + 1) + 1].type \in NamedRequests /\ q[(i + 1) + 2].type = "name"
    BY DEF RequestLeft
  <2>2. QED
    BY <1>1, <1>3, <1>4, <2>1
<1>8. QED
  BY <1>5, <1>6, <1>7 DEF RequestLeft

LEMMA HeaderFields ==
  /\ \A t, st, n : /\ Header(t, st, n).type = t /\ Header(t, st, n).st = st
                   /\ Header(t, st, n).n = n
  /\ \A t, x : Payload(t, x).type = t /\ Payload(t, x).arg = x
BY DEF Header, Payload

\* The request that opens a session, and nothing after it.
LEMMA OpenAsked ==
  ASSUME NEW cl \in ClientStates, NEW t \in Sessions, t.pc = "open",
         NEW U \in Seq(Messages), U # <<>>, Asked(cl, t, U)
  PROVE  cl.pc = "open" /\ Tail(U) = <<>>
<1>1. cl.pc = "open" /\ Requested(cl, U, 0)
  BY DEF Asked, Uploaded
<1>2. Len(U) = 1
  BY <1>1 DEF Requested, RequestLen, NamedPcs
<1>3. QED
  BY <1>1, <1>2, TailOf

LEMMA RecvOpenRequestInv ==
  ASSUME IInv, NEW s \in Conns, RecvOpenRequest(s), TypeInv', UNCHANGED clientVars
  PROVE  IInv'
<1> DEFINE reply == <<Header("OPEN_CONN_REPLY", 1, 0)>>
           t   == [session[s] EXCEPT !.pc = "request", !.out = reply]
<1>1. Arrived(s, "open") /\ UNCHANGED <<files, serverUp>> /\ "open" \in SessionPcs
  BY DEF RecvOpenRequest, SessionPcs
<1>2. CASE Goto(s, Taken(s), "request", reply)
  <2>1. reply \in Seq(Messages) /\ Len(reply) = 1 /\ reply[1] = Header("OPEN_CONN_REPLY", 1, 0)
    BY HeaderType DEF HeaderTypes
  <2>2. t \in Sessions /\ t.pc = "request" /\ t.out = reply
    BY <2>1, ThreadFacts DEF Sessions, SessionPcs
  <2>3. conn' = [conn EXCEPT ![s] = Taken(s)] /\ session' = [session EXCEPT ![s] = t]
    BY <1>2 DEF Goto
  <2> HIDE DEF t, reply
  <2>4. ASSUME NEW cl \in ClientStates, NEW U \in Seq(Messages), U # <<>>,
               U[1] = Incoming(s), Asked(cl, session[s], U)
        PROVE  Live(cl, t, Tail(U), t.out)
    <3>1. cl.pc = "open" /\ Tail(U) = <<>>
      BY <1>1, <2>4, OpenAsked, ThreadFacts DEF Arrived, At
    <3>2. IsReply(t.out, "OPEN_CONN_REPLY", 1) /\ Len(t.out) = 1
      <4>1. IsReply(reply, "OPEN_CONN_REPLY", 1) /\ Len(reply) = 1
        BY <2>1 DEF IsReply
      <4>2. QED
        BY <2>2, <4>1
    <3>3. Answered(cl, t, t.out)
      BY <2>2, <3>1, <3>2 DEF Answered
    <3>4. QED
      BY <3>1, <3>3 DEF Live
  <2>5. ASSUME NEW q \in Seq(Messages), q # <<>>, UpOK("open", q)
        PROVE  UpOK(t.pc, Tail(q)) /\ Tail(q) = <<>>
    <3>1. Tail(q) = <<>>
      BY <2>5, OneLeft DEF UpOK
    <3>2. UpOK("request", <<>>)
      BY DEF UpOK, RequestLeft
    <3>3. QED
      BY <2>2, <3>1, <3>2
  <2>6. ContentOK(t)
    BY <2>2 DEF ContentOK
  <2>7. QED
    BY <1>1, <2>2, <2>3, <2>4, <2>5, <2>6, RecvFrame
<1>3. CASE HangUp(s, Taken(s))
  BY <1>1, <1>3, RecvHangUpInv
<1>4. QED
  BY <1>2, <1>3 DEF RecvOpenRequest

------------------------------------------------------------------------------
\* What a thread that waits for a request finds.
LEMMA RequestAsked ==
  ASSUME NEW cl \in ClientStates, NEW t \in Sessions, t.pc = "request",
         NEW U \in Seq(Messages), U # <<>>, Asked(cl, t, U)
  PROVE  /\ cl.pc \in {"ls", "quit"} \cup NamedPcs /\ U[1].type = RequestType(cl.pc)
         /\ cl.pc \in {"ls", "quit"} => Tail(U) = <<>>
         /\ cl.pc \in NamedPcs => /\ Len(Tail(U)) = 1
                                  /\ Tail(U)[1] = Payload("name", cl.name)
<1>1. Requested(cl, U, 0) /\ cl.pc # "open"
  BY DEF Asked, Uploaded
<1>2. Len(U) > 0 /\ Len(U) \in Nat
  BY TailOf
<1>3. cl.pc \in {"ls", "quit"} \cup NamedPcs /\ U[1].type = RequestType(cl.pc)
  BY <1>1, <1>2 DEF Requested, RequestLen
<1>4. cl.pc \in {"ls", "quit"} => Len(U) = 1
  BY <1>1 DEF Requested, RequestLen, NamedPcs
<1>5. cl.pc \in NamedPcs => Len(U) = 2 /\ U[2] = Payload("name", cl.name)
  BY <1>1 DEF Requested, RequestLen
<1>6. cl.pc \in NamedPcs => Len(Tail(U)) = 1 /\ Tail(U)[1] = U[2]
  BY <1>5, TailOf
<1>7. cl.pc \in {"ls", "quit"} => Tail(U) = <<>>
  BY <1>4, TailOf
<1>8. QED
  BY <1>3, <1>5, <1>6, <1>7

LEMMA RequestFound ==
  ASSUME NEW q \in Seq(Messages), q # <<>>, UpOK("request", q)
  PROVE  /\ q[1].type \notin NamedRequests => Tail(q) = <<>>
         /\ Len(Tail(q)) <= 1 /\ (Len(Tail(q)) = 1 => Tail(q)[1].type = "name")
<1>1. RequestLeft(q, 0)
  BY DEF UpOK
<1>2. Len(q) > 0 /\ Len(q) \in Nat /\ Len(q) <= 2
      /\ (Len(q) = 2 => q[1].type \in NamedRequests /\ q[2].type = "name")
  BY <1>1, TailOf DEF RequestLeft
<1>3. Len(Tail(q)) = Len(q) - 1 /\ (Len(q) = 2 => Tail(q)[1] = q[2])
  BY <1>2, TailOf
<1>4. Len(q) = 1 => Tail(q) = <<>>
  BY TailOf
<1>5. QED
  BY <1>2, <1>3, <1>4

\* t is the thread of s that has begun to carry out the request m.
Dispatched(s, m, k, t) ==
  /\ conn' = [conn EXCEPT ![s] = k] /\ session' = [session EXCEPT ![s] = t]
  /\ t.req = m
  /\ \/ m.type = "LIST_REQUEST" /\ t.pc = "request" /\ t.out = ListReply
     \/ /\ m.type = "QUIT_REQUEST" /\ t.pc = "quit"
        /\ t.out = <<Header("QUIT_REPLY", 0, 0)>>
     \/ m.type \in NamedRequests /\ t.pc = "name" /\ t.out = <<>>

LEMMA DispatchThread ==
  ASSUME IInv, NEW s \in Conns, session[s].pc = "request", session[s].out = <<>>,
         NEW m \in Messages, m.type \in Requests, NEW k \in Connections, Dispatch(s, m, k)
  PROVE  \E t \in Sessions : Dispatched(s, m, k, t)
<1>1. <<Header("QUIT_REPLY", 0, 0)>> \in Seq(Messages)
  <2>1. "QUIT_REPLY" \in HeaderTypes
    BY DEF HeaderTypes, Replies
  <2>2. QED
    BY <2>1, HeaderType
<1> DEFINE next == CASE m.type = "LIST_REQUEST" -> [pc |-> "request", out |-> ListReply]
                     [] m.type = "QUIT_REQUEST" ->
                          [pc |-> "quit", out |-> <<Header("QUIT_REPLY", 0, 0)>>]
                     [] OTHER -> [pc |-> "name", out |-> <<>>]
           t    == [session[s] EXCEPT
                      !.pc = next.pc, !.out = next.out, !.req = m, !.name = NoArg]
<1>2. conn' = [conn EXCEPT ![s] = k] /\ session' = [session EXCEPT ![s] = t]
  BY DEF Dispatch
<1>3. \/ m.type = "LIST_REQUEST" /\ next.pc = "request" /\ next.out = ListReply
      \/ m.type = "QUIT_REQUEST" /\ next.pc = "quit"
         /\ next.out = <<Header("QUIT_REPLY", 0, 0)>>
      \/ m.type \in NamedRequests /\ next.pc = "name" /\ next.out = <<>>
  BY DEF Requests, NamedRequests
<1>4. next.pc \in SessionPcs /\ next.out \in Seq(Messages)
  BY <1>1, <1>3, RepliesType, EmptyContent DEF SessionPcs
<1> HIDE DEF next
<1>5. t \in Sessions /\ t.pc = next.pc /\ t.req = m /\ t.out = next.out
  BY <1>4, ThreadFacts DEF Sessions
<1> HIDE DEF t
<1>6. Dispatched(s, m, k, t)
  BY <1>2, <1>3, <1>5 DEF Dispatched
<1>7. QED
  BY <1>5, <1>6

LEMMA DispatchArrivedInv ==
  ASSUME IInv, NEW s \in Conns, Arrived(s, "request"), Dispatch(s, Incoming(s), Taken(s)),
         UNCHANGED <<files, serverUp>>, TypeInv', UNCHANGED clientVars
  PROVE  IInv'
<1> DEFINE m == Incoming(s)
<1>1. m \in Messages /\ session[s].pc = "request" /\ session[s].out = <<>>
      /\ Taken(s) \in Connections /\ "request" \in SessionPcs
  BY ArrivedType DEF IInv, SessionPcs
<1>2. CASE m.type \notin Requests
  BY <1>1, <1>2, RecvHangUpInv DEF Dispatch
<1>3. CASE m.type \in Requests
  <2>0. Dispatch(s, m, Taken(s))
    OBVIOUS
  <2> HIDE DEF m
  <2> DEFINE k == Taken(s)
  <2>a. k \in Connections /\ Dispatch(s, m, k)
    BY <1>1, <2>0
  <2> HIDE DEF k
  <2>b. PICK t \in Sessions : Dispatched(s, m, k, t)
    BY <1>1, <1>3, <2>a, DispatchThread
  <2>1. /\ conn' = [conn EXCEPT ![s] = Taken(s)] /\ session' = [session EXCEPT ![s] = t]
        /\ t.req = m
        /\ \/ m.type = "LIST_REQUEST" /\ t.pc = "request" /\ t.out = ListReply
           \/ /\ m.type = "QUIT_REQUEST" /\ t.pc = "quit"
              /\ t.out = <<Header("QUIT_REPLY", 0, 0)>>
           \/ m.type \in NamedRequests /\ t.pc = "name" /\ t.out = <<>>
    BY <2>b DEF Dispatched, k
  <2>2. ASSUME NEW cl \in ClientStates, NEW U \in Seq(Messages), U # <<>>,
               U[1] = m, Asked(cl, session[s], U)
        PROVE  Live(cl, t, Tail(U), t.out)
    <3>1. /\ cl.pc \in {"ls", "quit"} \cup NamedPcs /\ m.type = RequestType(cl.pc)
          /\ cl.pc \in {"ls", "quit"} => Tail(U) = <<>>
          /\ cl.pc \in NamedPcs => /\ Len(Tail(U)) = 1
                                   /\ Tail(U)[1] = Payload("name", cl.name)
      BY <1>1, <2>2, RequestAsked, ThreadFacts
    <3>2. CASE cl.pc = "ls"
      <4>1. m.type = "LIST_REQUEST"
        BY <3>1, <3>2 DEF RequestType
      <4>2. t.pc = "request" /\ t.out = ListReply
        BY <2>1, <4>1 DEF NamedRequests
      <4>3. /\ Len(ListReply) = 2 /\ ListReply[1].type = "LIST_REPLY"
            /\ ListReply[2].type = "text"
        BY HeaderFields DEF ListReply
      <4>4. QED
        BY <3>1, <3>2, <4>2, <4>3 DEF Live, Answered
    <3>3. CASE cl.pc = "quit"
      <4>1. m.type = "QUIT_REQUEST"
        BY <3>1, <3>3 DEF RequestType
      <4>2. t.pc = "quit" /\ t.out = <<Header("QUIT_REPLY", 0, 0)>>
        BY <2>1, <4>1 DEF NamedRequests
      <4>3. Len(t.out) = 1 /\ t.out[1] = Header("QUIT_REPLY", 0, 0)
        BY <4>2
      <4>4. QED
        BY <3>1, <3>3, <4>2, <4>3 DEF Live, Answered, IsReply
    <3>4. CASE cl.pc \in NamedPcs
      <4>1. m.type \in NamedRequests
        BY <3>1, <3>4 DEF RequestType, NamedPcs, NamedRequests
      <4>2. t.pc = "name" /\ t.out = <<>> /\ t.req = m
        BY <2>1, <4>1 DEF NamedRequests
      <4>3. Asked(cl, t, Tail(U))
        BY <3>1, <3>4, <4>2 DEF Asked
      <4>4. QED
        BY <4>2, <4>3 DEF Live
    <3>5. QED
      BY <3>1, <3>2, <3>3, <3>4
  <2>3. ASSUME NEW q \in Seq(Messages), q # <<>>, q[1] = m, UpOK("request", q)
        PROVE  UpOK(t.pc, Tail(q)) /\ (t.out # <<>> => Tail(q) = <<>>)
    <3>1. /\ m.type \notin NamedRequests => Tail(q) = <<>>
          /\ Len(Tail(q)) <= 1 /\ (Len(Tail(q)) = 1 => Tail(q)[1].type = "name")
      BY <2>3, RequestFound
    <3>2. CASE m.type \in NamedRequests
      <4>1. t.pc = "name" /\ t.out = <<>>
        BY <2>1, <3>2 DEF NamedRequests
      <4>2. QED
        BY <3>1, <4>1 DEF UpOK
    <3>3. CASE m.type \notin NamedRequests
      <4>1. t.pc \in {"request", "quit"} /\ Tail(q) = <<>>
        BY <2>1, <3>1, <3>3
      <4>2. UpOK("request", <<>>) /\ UpOK("quit", <<>>)
        BY DEF UpOK, RequestLeft
      <4>3. QED
        BY <4>1, <4>2
    <3>4. QED
      BY <3>2, <3>3
  <2>4. ContentOK(t) /\ t.pc \notin {"new", "done"}
    BY <2>1 DEF ContentOK
  <2>5. QED
    BY <1>1, <2>1, <2>2, <2>3, <2>4, RecvFrame DEF m
<1>4. QED
  BY <1>2, <1>3

\* A failed receive of a request: the client has gone, and whatever request
\* is taken for the one received, nothing is left in the stream.
LEMMA DispatchEndedInv ==
  ASSUME IInv, NEW s \in Conns, At(s, "request"), Ended(conn[s], "server"),
         NEW m \in Messages, Dispatch(s, m, AfterEnded(conn[s], "server")),
         UNCHANGED <<files, serverUp>>, TypeInv', UNCHANGED clientVars
  PROVE  IInv'
<1> DEFINE k == conn[s]
           z == AfterEnded(k, "server")
<1>1. serverUp /\ session[s].pc = "request" /\ session[s].out = <<>>
  BY DEF At
<1>2. /\ z \in Connections /\ z.used = k.used /\ z.open = k.open /\ z.q = k.q
      /\ z.err["server"] = IF k.err["server"] = "reset" THEN "dead" ELSE k.err["server"]
      /\ z.err["client"] = k.err["client"]
  <2>1. z.err[Peer("server")] = k.err[Peer("server")]
    BY PeerOf, ThreadFacts, AfterEndedFields
  <2>2. QED
    BY <2>1, PeerOf, ThreadFacts, AfterEndedType, AfterEndedFields
<1>3. ConnOK(k, session[s], serverUp) /\ k.q["server"] = <<>>
      /\ (k.err["server"] # "none" \/ ~k.open["client"])
  BY PeerOf, ThreadFacts DEF Ended
<1>4. k.used /\ k.open["server"] /\ k.err["client"] = "none" /\ ~k.open["client"]
  BY <1>1, <1>3, ThreadOpen DEF ConnOK
<1>5. CASE m.type \notin Requests
  <2>1. HangUp(s, z)
    BY <1>5 DEF Dispatch
  <2> HIDE DEF z
  <2>2. QED
    BY <1>1, <1>2, <1>4, <2>1, HangUpInv
<1>6. CASE m.type \in Requests
  <2>1. Dispatch(s, m, z) /\ z \in Connections /\ session[s].pc = "request"
        /\ session[s].out = <<>>
    BY <1>1, <1>2
  <2> HIDE DEF z, k
  <2>b. PICK t \in Sessions : Dispatched(s, m, z, t)
    BY <1>6, <2>1, DispatchThread
  <2>2. /\ conn' = [conn EXCEPT ![s] = z] /\ session' = [session EXCEPT ![s] = t]
        /\ t.req = m
        /\ \/ m.type = "LIST_REQUEST" /\ t.pc = "request" /\ t.out = ListReply
           \/ /\ m.type = "QUIT_REQUEST" /\ t.pc = "quit"
              /\ t.out = <<Header("QUIT_REPLY", 0, 0)>>
           \/ m.type \in NamedRequests /\ t.pc = "name" /\ t.out = <<>>
    BY <2>b DEF Dispatched
  <2> USE DEF k
  <2>3. t.pc \in {"request", "quit", "name"}
        /\ (t.out # <<>> => m.type \in {"LIST_REQUEST", "QUIT_REQUEST"})
    BY <2>2
  <2>4. UpOK(t.pc, <<>>)
    BY <2>3 DEF UpOK, RequestLeft
  <2>5. z.q["server"] = <<>> /\ z.q["client"] = <<>>
    BY <1>2, <1>3, <1>4 DEF ConnOK
  <2>6. t.out # <<>> => t.req.type \notin {"CD_REQUEST", "PUT_REQUEST"}
    BY <2>2, <2>3
  <2>7. Orphan(z, t)
    BY <2>4, <2>5, <2>6 DEF Orphan
  <2>8. ConnOK(z, t, serverUp)
    BY <1>1, <1>2, <1>4, <2>3, <2>5, <2>7 DEF ConnOK
  <2>9. \A c \in Clients : Sock(c) # s
    BY <1>4, HolderFacts, ClientAssumption
  <2>10. FilesAreMerges' /\ ContentOK(t)
    BY <2>3, SameFiles DEF IInv, ContentOK
  <2>11. z.open["client"] = conn[s].open["client"]
    BY <1>2
  <2>12. QED
    BY <1>2, <2>2, <2>8, <2>9, <2>10, <2>11, ServerFrame
<1>7. QED
  BY <1>5, <1>6

LEMMA RecvRequestInv ==
  ASSUME IInv, NEW s \in Conns, RecvRequest(s), TypeInv', UNCHANGED clientVars
  PROVE  IInv'
<1>1. UNCHANGED <<files, serverUp>>
  BY DEF RecvRequest
<1>2. CASE Arrived(s, "request") /\ Dispatch(s, Incoming(s), Taken(s))
  BY <1>1, <1>2, DispatchArrivedInv
<1>3. ASSUME At(s, "request"), Ended(conn[s], "server"), NEW m \in StaleRequests(s),
             Dispatch(s, m, AfterEnded(conn[s], "server"))
      PROVE  IInv'
  <2>1. m \in Messages
    BY TypeFacts, NewSessionType DEF StaleRequests, IInv
  <2>2. QED
    BY <1>1, <1>3, <2>1, DispatchEndedInv
<1>4. QED
  BY <1>2, <1>3 DEF RecvRequest

\* What a thread that waits for a name finds.
LEMMA NameAsked ==
  ASSUME NEW cl \in ClientStates, NEW t \in Sessions, t.pc = "name",
         NEW U \in Seq(Messages), U # <<>>, Asked(cl, t, U)
  PROVE  /\ cl.pc \in NamedPcs /\ t.req.type = RequestType(cl.pc)
         /\ NameIn(U[1]) = {cl.name} /\ Tail(U) = <<>>
<1>1. /\ cl.pc \in NamedPcs /\ t.req.type = RequestType(cl.pc)
      /\ Len(U) = 1 /\ U[1] = Payload("name", cl.name)
  BY DEF Asked, Uploaded
<1>2. NameIn(U[1]) = {cl.name}
  BY <1>1, HeaderFields DEF NameIn
<1>3. QED
  BY <1>1, <1>2, TailOf

\* The answer, by the request.
LEMMA Answers ==
  ASSUME IInv, NEW s \in Conns, NEW f \in Names, NEW type \in NamedRequests,
         NEW a, a = Answer(s, type, f)
  PROVE  /\ type = "CD_REQUEST" =>
              /\ a.pc = "request"
              /\ a.reply = Header("CD_REPLY", 0, 0) \/ a.reply = Header("CD_REPLY", 1, 0)
         /\ type = "GET_REQUEST" =>
              \/ a.pc = "request" /\ a.reply = Header("GET_REPLY", 0, 0)
              \/ a.pc = "size" /\ a.reply = Header("GET_REPLY", 1, 0)
         /\ type = "SHA_REQUEST" =>
              \/ a.pc = "request" /\ a.reply = Header("SHA_REPLY", 0, 0)
              \/ a.pc = "sha" /\ a.reply = Header("SHA_REPLY", 1, 0)
         /\ type = "PUT_REQUEST" => a.pc = "filedata" /\ a.reply = Header("PUT_REPLY", 0, 0)
<1> DEFINE d == session[s].cwd
<1>1. ASSUME type = "CD_REQUEST"
      PROVE  a = [reply |-> Header("CD_REPLY", IF IsDirectory(d, f) THEN 1 ELSE 0, 0),
                  pc    |-> IF IsDirectory(d, f) THEN "request" ELSE "request",
                  cwd   |-> IF IsDirectory(d, f) /\ type = "CD_REQUEST"
                            THEN Entered(d, f) ELSE d]
  BY <1>1 DEF Answer
<1>2. ASSUME type = "GET_REQUEST"
      PROVE  a = [reply |-> Header("GET_REPLY", IF IsFile(d, f) THEN 1 ELSE 0, 0),
                  pc    |-> IF IsFile(d, f) THEN "size" ELSE "request",
                  cwd   |-> IF IsFile(d, f) /\ type = "CD_REQUEST"
                            THEN Entered(d, f) ELSE d]
  BY <1>2 DEF Answer
<1>3. ASSUME type = "SHA_REQUEST"
      PROVE  a = [reply |-> Header("SHA_REPLY", IF IsFile(d, f) THEN 1 ELSE 0, 0),
                  pc    |-> IF IsFile(d, f) THEN "sha" ELSE "request",
                  cwd   |-> IF IsFile(d, f) /\ type = "CD_REQUEST"
                            THEN Entered(d, f) ELSE d]
  BY <1>3 DEF Answer
<1>4. ASSUME type = "PUT_REQUEST"
      PROVE  a = [reply |-> Header("PUT_REPLY", 0, 0), pc |-> "filedata", cwd |-> d]
  BY <1>4 DEF Answer
<1>5. type = "CD_REQUEST" =>
        /\ a.pc = "request"
        /\ a.reply = Header("CD_REPLY", 0, 0) \/ a.reply = Header("CD_REPLY", 1, 0)
  BY <1>1
<1>6. type = "GET_REQUEST" =>
        \/ a.pc = "request" /\ a.reply = Header("GET_REPLY", 0, 0)
        \/ a.pc = "size" /\ a.reply = Header("GET_REPLY", 1, 0)
  BY <1>2
<1>7. type = "SHA_REQUEST" =>
        \/ a.pc = "request" /\ a.reply = Header("SHA_REPLY", 0, 0)
        \/ a.pc = "sha" /\ a.reply = Header("SHA_REPLY", 1, 0)
  BY <1>3
<1>8. type = "PUT_REQUEST" => a.pc = "filedata" /\ a.reply = Header("PUT_REPLY", 0, 0)
  BY <1>4
<1>9. QED
  BY <1>5, <1>6, <1>7, <1>8

LEMMA OneReply ==
  ASSUME NEW m
  PROVE  Len(<<m>>) = 1 /\ <<m>>[1] = m /\ <<m>> # <<>>
OBVIOUS

LEMMA RecvNameInv ==
  ASSUME IInv, NEW s \in Conns, RecvName(s), TypeInv', UNCHANGED clientVars
  PROVE  IInv'
<1> DEFINE type == session[s].req.type
<1>1. /\ Arrived(s, "name") /\ Incoming(s) \in Messages /\ session[s].pc = "name"
      /\ conn' = [conn EXCEPT ![s] = Taken(s)] /\ UNCHANGED <<files, serverUp>>
      /\ "name" \in SessionPcs /\ session[s] \in Sessions /\ TypeInv
  BY ArrivedType, ThreadFacts DEF RecvName, IInv, SessionPcs
<1>2. type \in NamedRequests /\ NameIn(Incoming(s)) \subseteq Names
  BY <1>1, TypeFacts, MessageType DEF SessionOK
<1>3. PICK f \in NameIn(Incoming(s)) :
        LET a == Answer(s, type, f)
        IN  session' = [session EXCEPT
              ![s] = [@ EXCEPT !.pc = a.pc, !.name = f, !.cwd = a.cwd, !.out = <<a.reply>>]]
  BY DEF RecvName
<1>4. f \in Names
  BY <1>2, <1>3
<1> DEFINE a == Answer(s, type, f)
           t == [session[s] EXCEPT !.pc = a.pc, !.name = f, !.cwd = a.cwd, !.out = <<a.reply>>]
<1>5. session' = [session EXCEPT ![s] = t]
  BY <1>3
<1>6. /\ a.pc \in {"request", "size", "sha", "filedata"}
      /\ a.cwd \in Dirs /\ a.reply \in Messages
  BY <1>1, <1>4, AnswerType
<1>7. /\ type = "CD_REQUEST" =>
           /\ a.pc = "request"
           /\ a.reply = Header("CD_REPLY", 0, 0) \/ a.reply = Header("CD_REPLY", 1, 0)
      /\ type = "GET_REQUEST" =>
           \/ a.pc = "request" /\ a.reply = Header("GET_REPLY", 0, 0)
           \/ a.pc = "size" /\ a.reply = Header("GET_REPLY", 1, 0)
      /\ type = "SHA_REQUEST" =>
           \/ a.pc = "request" /\ a.reply = Header("SHA_REPLY", 0, 0)
           \/ a.pc = "sha" /\ a.reply = Header("SHA_REPLY", 1, 0)
      /\ type = "PUT_REQUEST" => a.pc = "filedata" /\ a.reply = Header("PUT_REPLY", 0, 0)
  BY <1>2, <1>4, Answers
<1> HIDE DEF a
<1>8. t \in Sessions
  <2>1. a.pc \in SessionPcs /\ <<a.reply>> \in Seq(Messages)
    BY <1>6 DEF SessionPcs
  <2>2. QED
    BY <1>1, <1>4, <1>6, <2>1 DEF Sessions
<1>9. t.pc = a.pc /\ t.name = f /\ t.out = <<a.reply>>
  BY <1>1 DEF Sessions
<1> HIDE DEF t, type
<1>10. ASSUME NEW cl \in ClientStates, NEW U \in Seq(Messages), U # <<>>,
              U[1] = Incoming(s), Asked(cl, session[s], U)
       PROVE  Live(cl, t, Tail(U), t.out)
  <2>1. cl.pc \in NamedPcs /\ type = RequestType(cl.pc) /\ Tail(U) = <<>> /\ f = cl.name
    BY <1>1, <1>3, <1>10, NameAsked DEF type
  <2>2. Len(t.out) = 1 /\ t.out[1] = a.reply
    BY <1>9, OneReply
  <2>3. CASE cl.pc = "cd"
    <3>1. type = "CD_REQUEST"
      BY <2>1, <2>3 DEF RequestType
    <3>2. t.pc = "request" /\ a.reply.type = "CD_REPLY"
      BY <1>7, <1>9, <3>1, HeaderFields
    <3>3. QED
      BY <2>1, <2>2, <2>3, <3>2 DEF Live, Answered
  <2>4. CASE cl.pc = "get"
    <3>1. type = "GET_REQUEST"
      BY <2>1, <2>4 DEF RequestType
    <3>2. \/ t.pc = "request" /\ IsReply(t.out, "GET_REPLY", 0)
          \/ t.pc = "size" /\ IsReply(t.out, "GET_REPLY", 1)
      BY <1>7, <1>9, <2>2, <3>1 DEF IsReply
    <3>3. t.pc = "size" => DataDue(cl, t, t.out, 1)
      BY <1>9, <2>1, <2>2 DEF DataDue
    <3>4. QED
      BY <2>1, <2>2, <2>4, <3>2, <3>3 DEF Live, Answered
  <2>5. CASE cl.pc = "sha"
    <3>1. type = "SHA_REQUEST"
      BY <2>1, <2>5 DEF RequestType
    <3>2. \/ t.pc = "request" /\ IsReply(t.out, "SHA_REPLY", 0)
          \/ t.pc = "sha" /\ IsReply(t.out, "SHA_REPLY", 1)
      BY <1>7, <1>9, <2>2, <3>1 DEF IsReply
    <3>3. t.pc = "sha" => SumDue(t, t.out, 1)
      BY <2>2 DEF SumDue
    <3>4. QED
      BY <2>1, <2>2, <2>5, <3>2, <3>3 DEF Live, Answered
  <2>6. CASE cl.pc = "put"
    <3>1. type = "PUT_REQUEST"
      BY <2>1, <2>6 DEF RequestType
    <3>2. t.pc = "filedata" /\ IsReply(t.out, "PUT_REPLY", 0) /\ t.name = cl.name
      BY <1>7, <1>9, <2>1, <2>2, <3>1 DEF IsReply
    <3>3. QED
      BY <2>1, <2>2, <2>6, <3>2 DEF Live, Answered
  <2>7. QED
    BY <2>1, <2>3, <2>4, <2>5, <2>6 DEF NamedPcs
<1>11. ASSUME NEW q \in Seq(Messages), q # <<>>, UpOK("name", q)
       PROVE  UpOK(t.pc, Tail(q)) /\ Tail(q) = <<>>
  <2>1. Tail(q) = <<>>
    BY <1>11, OneLeft DEF UpOK
  <2>2. UpOK(t.pc, <<>>)
    BY <1>6, <1>9 DEF UpOK, RequestLeft
  <2>3. QED
    BY <2>1, <2>2
<1>12. ContentOK(t) /\ t.pc \notin {"new", "done"}
  BY <1>6, <1>9 DEF ContentOK
<1>13. \A cl \in ClientStates, U \in Seq(Messages) :
          U # <<>> /\ U[1] = Incoming(s) /\ Asked(cl, session[s], U)
            => Live(cl, t, Tail(U), t.out)
  BY <1>10
<1>14. \A q \in Seq(Messages) :
          q # <<>> /\ q[1] = Incoming(s) /\ UpOK("name", q)
            => UpOK(t.pc, Tail(q)) /\ (t.out # <<>> => Tail(q) = <<>>)
  BY <1>11
<1>15. "name" \in SessionPcs \ {"new", "done"}
  BY <1>1
<1>16. QED
  BY <1>1, <1>5, <1>8, <1>12, <1>13, <1>14, <1>15, RecvFrame

LEMMA MergeEmpty == IsMerge(<<>>)
<1>1. DOMAIN <<>> = {}
  OBVIOUS
<1>2. QED
  BY <1>1 DEF IsMerge

\* What a thread that waits for FILE_DATA or for the content finds.
LEMMA UploadAsked ==
  ASSUME NEW cl \in ClientStates, NEW t \in Sessions, t.pc \in {"filedata", "body"},
         NEW U \in Seq(Messages), U # <<>>, Asked(cl, t, U)
  PROVE  /\ cl.pc # "open"
         /\ t.pc = "body" => IsData(U[1]) /\ Requested(cl, Tail(U), 0)
         /\ t.pc = "filedata" =>
              \/ U[1] = EmptyData /\ Requested(cl, Tail(U), 0)
              \/ /\ Announces(U[1]) /\ IsData(Tail(U)[1])
                 /\ Requested(cl, Tail(U), 1)
<1>1. PICK i \in {0, 1, 2} : Uploaded(t.pc, U, i) /\ Requested(cl, U, i) /\ cl.pc # "open"
  BY DEF Asked
<1>2. CASE i = 1
  <2>1. Requested(cl, Tail(U), 0)
    BY <1>1, <1>2, RequestedTail
  <2>2. QED
    BY <1>1, <1>2, <2>1 DEF Uploaded
<1>3. CASE i = 2
  <2>1. Requested(cl, Tail(U), 1)
    BY <1>1, <1>3, RequestedTail
  <2>2. t.pc = "filedata" /\ Announces(U[1]) /\ IsData(U[2])
    BY <1>1, <1>3 DEF Uploaded
  <2>3. Len(U) >= 2
    BY <1>1, <1>3 DEF Requested, RequestLen
  <2>4. Tail(U)[1] = U[2]
    BY <2>3, TailOf
  <2>5. QED
    BY <1>1, <2>1, <2>2, <2>4
<1>4. QED
  BY <1>1, <1>2, <1>3 DEF Uploaded

LEMMA EmptyDataIs == EmptyData.type = "FILE_DATA" /\ EmptyData.n = 0 /\ SizeIn(EmptyData) = {0}
<1>1. EmptyData.type = "FILE_DATA" /\ EmptyData.n = 0
  BY HeaderFields DEF EmptyData
<1>2. QED
  BY <1>1 DEF SizeIn, IsHeader, HeaderTypes

LEMMA AnnouncesSize ==
  ASSUME NEW m, Announces(m), NEW n \in SizeIn(m)
  PROVE  n # 0
BY DEF Announces, SizeIn, IsHeader, HeaderTypes

LEMMA RecvFileDataInv ==
  ASSUME IInv, NEW s \in Conns, RecvFileData(s), TypeInv', UNCHANGED clientVars
  PROVE  IInv'
<1>1. /\ Arrived(s, "filedata") /\ Incoming(s) \in Messages /\ session[s].pc = "filedata"
      /\ conn' = [conn EXCEPT ![s] = Taken(s)] /\ UNCHANGED <<files, serverUp>>
      /\ session[s].out = <<>> /\ session[s] \in Sessions
      /\ "filedata" \in SessionPcs \ {"new", "done"}
  BY ArrivedType, ThreadFacts DEF RecvFileData, IInv, SessionPcs
<1>2. PICK n \in SizeIn(Incoming(s)) :
        session' = [session EXCEPT
          ![s] = [@ EXCEPT !.pc = IF n = 0 THEN "truncate" ELSE "body", !.buf = <<>>]]
  BY DEF RecvFileData
<1> DEFINE t == [session[s] EXCEPT !.pc = IF n = 0 THEN "truncate" ELSE "body", !.buf = <<>>]
<1>3. session' = [session EXCEPT ![s] = t]
  BY <1>2
<1>4. /\ t.pc = IF n = 0 THEN "truncate" ELSE "body"
      /\ t.buf = <<>> /\ t.out = <<>>
  BY <1>1 DEF Sessions
<1>5. t \in Sessions
  <2>1. "truncate" \in SessionPcs /\ "body" \in SessionPcs
    BY DEF SessionPcs
  <2>2. QED
    BY <1>1, <2>1, EmptyContent DEF Sessions
<1> HIDE DEF t
<1>6. t.pc \notin {"new", "done"} /\ ContentOK(t)
  BY <1>4, MergeEmpty DEF ContentOK
<1>7. ASSUME NEW cl \in ClientStates, NEW U \in Seq(Messages), U # <<>>,
             U[1] = Incoming(s), Asked(cl, session[s], U)
      PROVE  Live(cl, t, Tail(U), t.out)
  <2>1. cl.pc # "open"
    BY <1>1, <1>7, UploadAsked
  <2>2. CASE U[1] = EmptyData /\ Requested(cl, Tail(U), 0)
    <3>1. n = 0
      BY <1>2, <1>7, <2>2, EmptyDataIs
    <3>2. t.pc = "truncate"
      BY <1>4, <3>1
    <3>3. Uploaded(t.pc, Tail(U), 0)
      BY <3>2 DEF Uploaded
    <3>4. QED
      BY <1>4, <2>1, <2>2, <3>3 DEF Live, Asked
  <2>3. CASE Announces(U[1]) /\ IsData(Tail(U)[1]) /\ Requested(cl, Tail(U), 1)
    <3>1. n # 0
      BY <1>2, <1>7, <2>3, AnnouncesSize
    <3>2. t.pc = "body"
      BY <1>4, <3>1
    <3>3. Uploaded(t.pc, Tail(U), 1)
      BY <2>3, <3>2 DEF Uploaded
    <3>4. QED
      BY <1>4, <2>1, <2>3, <3>3 DEF Live, Asked
  <2>4. QED
    BY <1>1, <1>7, <2>2, <2>3, UploadAsked
<1>8. ASSUME NEW q \in Seq(Messages), q # <<>>, q[1] = Incoming(s), UpOK("filedata", q)
      PROVE  UpOK(t.pc, Tail(q))
  <2>1. Len(q) > 0
    BY <1>8, LenZero
  <2>2. CASE q[1] = EmptyData /\ RequestLeft(q, 1)
    <3>1. n = 0
      BY <1>2, <1>8, <2>2, EmptyDataIs
    <3>2. t.pc = "truncate"
      BY <1>4, <3>1
    <3>3. RequestLeft(Tail(q), 0)
      BY <1>8, <2>2, RequestLeftTail
    <3>4. QED
      BY <3>2, <3>3 DEF UpOK
  <2>3. CASE Announces(q[1]) /\ (Len(q) > 1 => IsData(q[2]) /\ RequestLeft(q, 2))
    <3>1. n # 0
      BY <1>2, <1>8, <2>3, AnnouncesSize
    <3>2. t.pc = "body"
      BY <1>4, <3>1
    <3>3. ASSUME Len(Tail(q)) > 0
          PROVE  IsData(Tail(q)[1]) /\ RequestLeft(Tail(q), 1)
      <4>1. Len(q) > 1
        BY <1>8, <3>3, TailOf
      <4>2. Tail(q)[1] = q[2]
        BY <1>8, <4>1, TailOf
      <4>3. RequestLeft(q, 1 + 1)
        BY <2>3, <4>1
      <4>4. QED
        BY <1>8, <2>3, <4>1, <4>2, <4>3, RequestLeftTail
    <3>4. QED
      BY <3>2, <3>3 DEF UpOK
  <2>4. QED
    BY <1>8, <2>1, <2>2, <2>3 DEF UpOK
<1>9. \A cl \in ClientStates, U \in Seq(Messages) :
         U # <<>> /\ U[1] = Incoming(s) /\ Asked(cl, session[s], U)
           => Live(cl, t, Tail(U), t.out)
  BY <1>7
<1>10. \A q \in Seq(Messages) :
         q # <<>> /\ q[1] = Incoming(s) /\ UpOK("filedata", q)
           => UpOK(t.pc, Tail(q)) /\ (t.out # <<>> => Tail(q) = <<>>)
  BY <1>4, <1>8
<1>11. QED
  BY <1>1, <1>3, <1>5, <1>6, <1>9, <1>10, RecvFrame

\* What arrives where the content of an upload is awaited is that.
LEMMA BodyArrives ==
  ASSUME IInv, NEW s \in Conns, Arrived(s, "body")
  PROVE  IsData(Incoming(s))
<1> DEFINE q == conn[s].q["server"]
<1>1. /\ serverUp /\ session[s].pc = "body" /\ q # <<>> /\ q \in Seq(Messages)
      /\ session[s] \in Sessions /\ conn[s].open["client"] \in BOOLEAN
      /\ ConnOK(conn[s], session[s], serverUp)
  BY ThreadFacts DEF Arrived, At, HasData
<1>2. conn[s].open["server"] /\ (~conn[s].open["client"] => Orphan(conn[s], session[s]))
  BY <1>1, ThreadOpen
<1>3. Incoming(s) = q[1]
  BY <1>1, TailOf DEF Incoming, First
<1>4. CASE conn[s].open["client"]
  <2>1. PICK c \in Clients : Sock(c) = s
    BY <1>4 DEF IInv, Held
  <2>2. Sock(c) # Fresh
    BY <2>1, ClientAssumption
  <2>3. PairOK(client[c], session[s], conn[s]) /\ client[c] \in ClientStates
        /\ client[c].out \in Seq(Messages)
    BY <2>1, <2>2, HolderFacts
  <2> DEFINE U == q \o client[c].out
  <2>4. Live(client[c], session[s], U, conn[s].q["client"] \o session[s].out)
    BY <1>2, <2>3 DEF PairOK
  <2>5. U \in Seq(Messages) /\ U # <<>> /\ Head(q) = U[1]
    BY <1>1, <2>3, Streams
  <2>6. Head(q) = q[1]
    BY <1>1, TailOf
  <2> HIDE DEF U
  <2>7. Asked(client[c], session[s], U)
    BY <2>4, <2>5 DEF Live
  <2>8. IsData(U[1])
    BY <1>1, <2>3, <2>5, <2>7, UploadAsked
  <2>9. QED
    BY <1>3, <2>5, <2>6, <2>8
<1>5. CASE ~conn[s].open["client"]
  <2>1. UpOK("body", q)
    BY <1>1, <1>2, <1>5 DEF Orphan
  <2>2. Len(q) > 0
    BY <1>1, LenZero
  <2>3. QED
    BY <1>3, <2>1, <2>2 DEF UpOK
<1>6. QED
  BY <1>1, <1>4, <1>5

LEMMA RecvFileContentInv ==
  ASSUME IInv, NEW s \in Conns, RecvFileContent(s), TypeInv', UNCHANGED clientVars
  PROVE  IInv'
<1>1. /\ Arrived(s, "body") /\ Incoming(s) \in Messages /\ session[s].pc = "body"
      /\ conn' = [conn EXCEPT ![s] = Taken(s)] /\ UNCHANGED <<files, serverUp>>
      /\ session[s].out = <<>> /\ session[s] \in Sessions
      /\ "body" \in SessionPcs \ {"new", "done"}
  BY ArrivedType, ThreadFacts DEF RecvFileContent, IInv, SessionPcs
<1> DEFINE x == ContentIn(Incoming(s))
           t == [session[s] EXCEPT !.pc = "truncate", !.buf = x]
<1>2. session' = [session EXCEPT ![s] = t]
  BY DEF RecvFileContent
<1>3. x \in Contents /\ IsMerge(x)
  <2>1. IsData(Incoming(s))
    BY <1>1, BodyArrives
  <2>2. QED
    BY <1>1, <2>1, MessageType DEF IsData, ContentIn
<1> HIDE DEF x
<1>4. t.pc = "truncate" /\ t.buf = x /\ t.out = <<>>
  BY <1>1 DEF Sessions
<1>5. t \in Sessions
  <2>1. "truncate" \in SessionPcs
    BY DEF SessionPcs
  <2>2. QED
    BY <1>1, <1>3, <2>1 DEF Sessions
<1> HIDE DEF t
<1>6. t.pc \notin {"new", "done"} /\ ContentOK(t)
  BY <1>3, <1>4 DEF ContentOK
<1>7. ASSUME NEW cl \in ClientStates, NEW U \in Seq(Messages), U # <<>>,
             U[1] = Incoming(s), Asked(cl, session[s], U)
      PROVE  Live(cl, t, Tail(U), t.out)
  <2>1. cl.pc # "open" /\ Requested(cl, Tail(U), 0)
    BY <1>1, <1>7, UploadAsked
  <2>2. Uploaded(t.pc, Tail(U), 0)
    BY <1>4 DEF Uploaded
  <2>3. QED
    BY <1>4, <2>1, <2>2 DEF Live, Asked
<1>8. ASSUME NEW q \in Seq(Messages), q # <<>>, UpOK("body", q)
      PROVE  UpOK(t.pc, Tail(q))
  <2>1. RequestLeft(q, 0 + 1)
    BY <1>8, LenZero DEF UpOK
  <2>2. RequestLeft(Tail(q), 0)
    BY <1>8, <2>1, RequestLeftTail
  <2>3. QED
    BY <1>4, <2>2 DEF UpOK
<1>9. \A cl \in ClientStates, U \in Seq(Messages) :
         U # <<>> /\ U[1] = Incoming(s) /\ Asked(cl, session[s], U)
           => Live(cl, t, Tail(U), t.out)
  BY <1>7
<1>10. \A q \in Seq(Messages) :
         q # <<>> /\ q[1] = Incoming(s) /\ UpOK("body", q)
           => UpOK(t.pc, Tail(q)) /\ (t.out # <<>> => Tail(q) = <<>>)
  BY <1>4, <1>8
<1>11. QED
  BY <1>1, <1>2, <1>5, <1>6, <1>9, <1>10, RecvFrame

\* The client whose thread is about to send file data.
LEMMA DataAwaited ==
  ASSUME NEW cl, NEW t, t.pc \in {"size", "read"}, NEW U, NEW D, Live(cl, t, U, D)
  PROVE  /\ U = <<>> /\ t.name = cl.name
         /\ \/ cl.pc = "get" /\ IsReply(D, "GET_REPLY", 1) /\ Len(D) = 1
            \/ cl.pc = "getdata" /\ Len(D) = 0
<1>1. ~Asked(cl, t, U)
  BY DEF Asked, Uploaded
<1>2. U = <<>> /\ Answered(cl, t, D)
  BY <1>1 DEF Live
<1>3. \/ cl.pc = "get" /\ IsReply(D, "GET_REPLY", 1) /\ DataDue(cl, t, D, 1)
      \/ cl.pc = "getdata" /\ DataDue(cl, t, D, 0)
  BY <1>2 DEF Answered, SumDue
<1>4. QED
  BY <1>2, <1>3 DEF DataDue

LEMMA SumAwaited ==
  ASSUME NEW cl, NEW t, t.pc = "sha", NEW U, NEW D, Live(cl, t, U, D)
  PROVE  /\ U = <<>>
         /\ \/ cl.pc = "sha" /\ IsReply(D, "SHA_REPLY", 1) /\ Len(D) = 1
            \/ cl.pc = "shadata" /\ Len(D) = 0
<1>1. ~Asked(cl, t, U)
  BY DEF Asked, Uploaded
<1>2. U = <<>> /\ Answered(cl, t, D)
  BY <1>1 DEF Live
<1>3. \/ cl.pc = "sha" /\ IsReply(D, "SHA_REPLY", 1) /\ SumDue(t, D, 1)
      \/ cl.pc = "shadata" /\ SumDue(t, D, 0)
  BY <1>2 DEF Answered, DataDue
<1>4. QED
  BY <1>2, <1>3 DEF SumDue

LEMMA FileSizeInv ==
  ASSUME IInv, NEW s \in Conns, FileSize(s), TypeInv', UNCHANGED clientVars
  PROVE  IInv'
<1>1. /\ At(s, "size") /\ session[s].pc = "size" /\ session[s].out = <<>>
      /\ UNCHANGED <<conn, files, serverUp>> /\ session[s] \in Sessions
      /\ "size" \in SessionPcs \ {"new", "done"} /\ TypeInv /\ FilesAreMerges
  BY ThreadFacts DEF FileSize, At, SessionPcs
<1> DEFINE x == files[Path(s)]
           t == [session[s] EXCEPT !.pc = "read", !.size = Len(x)]
<1>2. session' = [session EXCEPT ![s] = t]
  BY <1>1 DEF FileSize
<1>3. x \in Contents /\ x # NoFile /\ Path(s) \in Paths
  BY <1>1, PathType, HeadAssumption
<1>4. IsMerge(x)
  BY <1>1, <1>3 DEF FilesAreMerges
<1>5. Len(x) \in Nat /\ (Len(x) = 0 \/ \E o \in Originals : Len(o) = Len(x))
  BY <1>3, <1>4 DEF IsMerge, Contents
<1> DEFINE n == Len(x)
<1> HIDE DEF x
<1>6. t = [session[s] EXCEPT !.pc = "read", !.size = n]
  OBVIOUS
<1> HIDE DEF n, t
<1>7. t.pc = "read" /\ t.size = n /\ t.out = <<>> /\ t.name = session[s].name
  BY <1>1, <1>6 DEF Sessions
<1>8. t \in Sessions
  <2>1. "read" \in SessionPcs /\ n \in Nat
    BY <1>5 DEF SessionPcs, n
  <2>2. QED
    BY <1>1, <1>6, <2>1 DEF Sessions
<1>9. ContentOK(t)
  <2>1. n = 0 \/ \E o \in Originals : Len(o) = n
    BY <1>5 DEF n
  <2>2. QED
    BY <1>7, <2>1 DEF ContentOK
<1>10. ASSUME NEW cl \in ClientStates, NEW U \in Seq(Messages), NEW D \in Seq(Messages),
              Live(cl, session[s], U, D)
       PROVE  Live(cl, t, U, D \o t.out)
  <2>1. /\ U = <<>> /\ session[s].name = cl.name
        /\ \/ cl.pc = "get" /\ IsReply(D, "GET_REPLY", 1) /\ Len(D) = 1
           \/ cl.pc = "getdata" /\ Len(D) = 0
    <3>1. session[s].pc \in {"size", "read"} /\ Live(cl, session[s], U, D)
      BY <1>1, <1>10
    <3>2. QED
      BY <3>1, DataAwaited
  <2>2. D \o t.out = D
    BY <1>7
  <2>3. Answered(cl, t, D)
    BY <1>7, <2>1 DEF Answered, DataDue
  <2>4. QED
    BY <2>1, <2>2, <2>3 DEF Live
<1>11. \A q \in Seq(Messages) :
         UpOK("size", q) => UpOK(t.pc, q) /\ (t.out # <<>> => q = <<>>)
  BY <1>7 DEF UpOK
<1>12. FilesAreMerges'
  BY <1>1, SameFiles
<1>13. \A cl \in ClientStates, U, D \in Seq(Messages) :
         Live(cl, session[s], U, D) => Live(cl, t, U, D \o t.out)
  BY <1>10
<1>14. UNCHANGED <<conn, serverUp>> /\ t.pc \notin {"new", "done"}
       /\ (t.out # <<>> => t.req.type \notin {"CD_REQUEST", "PUT_REQUEST"})
  BY <1>1, <1>7
<1>15. QED
  BY <1>1, <1>2, <1>8, <1>9, <1>11, <1>12, <1>13, <1>14, LocalFrame

LEMMA FileDataIs ==
  ASSUME NEW x \in Contents
  PROVE  /\ x = <<>> => FileData(x) = <<EmptyData>>
         /\ x # <<>> => FileData(x) = <<Header("FILE_DATA", 0, Len(x)), Payload("data", x)>>
<1> DEFINE h == Header("FILE_DATA", 0, Len(x))
           p == Payload("data", x)
<1>1. Len(x) \in Nat /\ (x = <<>> => Len(x) = 0) /\ "FILE_DATA" \in HeaderTypes
  BY DEF Contents, HeaderTypes
<1>2. h \in Messages /\ p \in Messages
  BY <1>1, HeaderType, PayloadType
<1>3. x = <<>> => h = EmptyData
  BY <1>1 DEF EmptyData
<1>4. FileData(x) = <<h>> \o (IF x = <<>> THEN <<>> ELSE <<p>>)
  BY DEF FileData
<1> HIDE DEF h, p
<1>5. <<h>> \o <<>> = <<h>>
  <2>1. <<h>> \in Seq(Messages) /\ <<>> \in Seq(Messages)
    BY <1>2
  <2>2. QED
    BY <2>1, Streams
<1>6. <<h>> \o <<p>> = <<h, p>>
  <2> DEFINE u == <<h>> \o <<p>>
             v == <<h, p>>
  <2>1. u \in Seq(Messages) /\ v \in Seq(Messages)
    BY <1>2
  <2>2. Len(u) = 2 /\ u[1] = h /\ u[2] = p
    BY <1>2
  <2>3. Len(v) = 2 /\ v[1] = h /\ v[2] = p
    OBVIOUS
  <2> HIDE DEF u, v
  <2>4. \A i \in 1 .. Len(u) : u[i] = v[i]
    BY <2>2, <2>3
  <2>5. u = v
    BY <2>1, <2>2, <2>3, <2>4, SeqEqual
  <2>6. QED
    BY <2>5 DEF u, v
<1>7. QED
  BY <1>3, <1>4, <1>5, <1>6 DEF h, p

\* File data sent behind the first i messages of a reply.
LEMMA DataSent ==
  ASSUME NEW cl, NEW t, t.pc = "request", NEW x \in Contents, IsMerge(x),
         NEW i \in {0, 1}, NEW D \in Seq(Messages), Len(D) = i
  PROVE  DataDue(cl, t, D \o FileData(x), i)
<1>1. CASE x = <<>>
  <2>1. FileData(x) = <<EmptyData>>
    BY <1>1, FileDataIs
  <2>2. Len(D \o <<EmptyData>>) = i + 1 /\ (D \o <<EmptyData>>)[i + 1] = EmptyData
    OBVIOUS
  <2>3. QED
    BY <2>1, <2>2 DEF DataDue
<1>2. CASE x # <<>>
  <2> DEFINE h == Header("FILE_DATA", 0, Len(x))
             p == Payload("data", x)
  <2>1. Len(x) # 0
    BY <1>2 DEF Contents
  <2>2. FileData(x) = <<h, p>> /\ Announces(h) /\ IsData(p)
    BY <1>2, <2>1, FileDataIs, HeaderFields DEF Announces, IsData
  <2> HIDE DEF h, p
  <2>3. /\ Len(D \o <<h, p>>) = i + 2
        /\ (D \o <<h, p>>)[i + 1] = h /\ (D \o <<h, p>>)[i + 2] = p
    OBVIOUS
  <2>4. QED
    BY <2>2, <2>3 DEF DataDue
<1>3. QED
  BY <1>1, <1>2

LEMMA SumSent ==
  ASSUME NEW t, t.pc = "request", NEW x \in Contents,
         NEW i \in {0, 1}, NEW D \in Seq(Messages), Len(D) = i
  PROVE  SumDue(t, D \o ShaData(x), i)
<1> DEFINE h == Header("FILE_DATA", 0, 1)
           p == Payload("digest", x)
<1>1. ShaData(x) = <<h, p>> /\ p.type = "digest"
  BY HeaderFields DEF ShaData
<1>2. \A h1, p1 : /\ Len(D \o <<h1, p1>>) = i + 2
                  /\ (D \o <<h1, p1>>)[i + 1] = h1 /\ (D \o <<h1, p1>>)[i + 2] = p1
  OBVIOUS
<1>3. QED
  BY <1>1, <1>2 DEF SumDue

\* The first message of a reply stays the first.
LEMMA ReplyStays ==
  ASSUME NEW D \in Seq(Messages), NEW E \in Seq(Messages), NEW type, NEW st,
         IsReply(D, type, st)
  PROVE  IsReply(D \o E, type, st)
<1>1. Len(D) > 0 /\ D[1] = Header(type, st, 0)
  BY DEF IsReply
<1>2. Len(D \o E) > 0 /\ (D \o E)[1] = D[1]
  BY <1>1
<1>3. QED
  BY <1>1, <1>2 DEF IsReply

LEMMA ContentReadMerge ==
  ASSUME IInv, NEW s \in Conns, session[s].pc = "read", ~ReadShort(s)
  PROVE  IsMerge(FileContent(s))
<1> DEFINE x == files[Path(s)]
           n == session[s].size
<1>1. TypeInv /\ FilesAreMerges /\ ContentOK(session[s])
  BY ThreadFacts
<1>2. x \in Contents /\ x # NoFile /\ Path(s) \in Paths /\ n \in Nat
  BY <1>1, PathType, TypeFacts, HeadAssumption
<1>3. IsMerge(x) /\ Len(x) \in Nat /\ DOMAIN x = 1 .. Len(x) /\ Len(x) >= n
  BY <1>1, <1>2 DEF FilesAreMerges, ReadShort, Contents
<1>4. n = 0 \/ \E o \in Originals : Len(o) = n
  BY <1>1 DEF ContentOK
<1> HIDE DEF x, n
<1>5. FileContent(s) = [i \in 1 .. n |-> IF i <= Len(x) THEN x[i] ELSE Junk]
  BY DEF FileContent, x, n
<1> DEFINE y == [i \in 1 .. n |-> IF i <= Len(x) THEN x[i] ELSE Junk]
<1>6. DOMAIN y = 1 .. n /\ \A i \in 1 .. n : y[i] = x[i] /\ i \in DOMAIN x
  BY <1>2, <1>3
<1>7. y \in Seq(Blocks \cup {Junk})
  BY <1>1, <1>5, FileContentType DEF Contents
<1> HIDE DEF y
<1>8. Len(y) = n
  BY <1>2, <1>6, <1>7
<1>9. y = <<>> \/ \E o \in Originals : Len(o) = Len(y)
  BY <1>4, <1>7, <1>8
<1>10. \A i \in DOMAIN y : \E o \in Originals : i \in DOMAIN o /\ y[i] = o[i]
  BY <1>3, <1>6 DEF IsMerge
<1>11. IsMerge(y)
  BY <1>9, <1>10 DEF IsMerge
<1>12. QED
  BY <1>5, <1>11 DEF y

LEMMA ReadFileInv ==
  ASSUME IInv, NEW s \in Conns, ReadFile(s), TypeInv', UNCHANGED clientVars
  PROVE  IInv'
<1>1. /\ At(s, "read") /\ session[s].pc = "read" /\ session[s].out = <<>>
      /\ UNCHANGED <<files, serverUp>> /\ session[s] \in Sessions
      /\ "read" \in SessionPcs \ {"new", "done"} /\ TypeInv /\ FilesAreMerges
      /\ session[s].req.type = "GET_REQUEST"
  BY ThreadFacts, TypeFacts DEF ReadFile, At, SessionPcs, SessionOK
<1>2. CASE ReadShort(s)
  BY <1>1, <1>2, LocalHangUpInv DEF ReadFile
<1>3. CASE ~ReadShort(s)
  <2> DEFINE x == FileContent(s)
             t == [session[s] EXCEPT !.pc = "request", !.size = 0, !.out = FileData(x)]
  <2>1. session' = [session EXCEPT ![s] = t] /\ UNCHANGED conn
    BY <1>3 DEF ReadFile
  <2>2. x \in Contents /\ IsMerge(x)
    BY <1>1, <1>3, FileContentType, ContentReadMerge
  <2> HIDE DEF x
  <2>3. FileData(x) \in Seq(Messages)
    BY <2>2, RepliesType
  <2>4. t.pc = "request" /\ t.out = FileData(x) /\ t.req = session[s].req
    BY <1>1 DEF Sessions
  <2>5. t \in Sessions
    <3>1. "request" \in SessionPcs /\ 0 \in Nat
      BY DEF SessionPcs
    <3>2. QED
      BY <1>1, <2>3, <3>1 DEF Sessions
  <2> HIDE DEF t
  <2>6. ASSUME NEW cl \in ClientStates, NEW U \in Seq(Messages), NEW D \in Seq(Messages),
               Live(cl, session[s], U, D)
        PROVE  Live(cl, t, U, D \o t.out)
    <3>1. /\ U = <<>>
          /\ \/ cl.pc = "get" /\ IsReply(D, "GET_REPLY", 1) /\ Len(D) = 1
             \/ cl.pc = "getdata" /\ Len(D) = 0
      <4>1. session[s].pc \in {"size", "read"} /\ Live(cl, session[s], U, D)
        BY <1>1, <2>6
      <4>2. /\ U = <<>> /\ session[s].name = cl.name
            /\ \/ cl.pc = "get" /\ IsReply(D, "GET_REPLY", 1) /\ Len(D) = 1
               \/ cl.pc = "getdata" /\ Len(D) = 0
        BY <4>1, DataAwaited
      <4>3. QED
        BY <4>2
    <3>2. CASE cl.pc = "get" /\ IsReply(D, "GET_REPLY", 1) /\ Len(D) = 1
      <4>1. DataDue(cl, t, D \o t.out, 1)
        BY <2>2, <2>4, <3>2, DataSent
      <4>2. IsReply(D \o t.out, "GET_REPLY", 1)
        BY <2>3, <2>4, <3>2, ReplyStays
      <4>3. QED
        BY <3>1, <3>2, <4>1, <4>2 DEF Live, Answered
    <3>3. CASE cl.pc = "getdata" /\ Len(D) = 0
      <4>1. DataDue(cl, t, D \o t.out, 0)
        BY <2>2, <2>4, <3>3, DataSent
      <4>2. QED
        BY <3>1, <3>3, <4>1 DEF Live, Answered
    <3>4. QED
      BY <3>1, <3>2, <3>3
  <2>7. \A q \in Seq(Messages) :
          UpOK("read", q) => UpOK(t.pc, q) /\ (t.out # <<>> => q = <<>>)
    BY <2>4 DEF UpOK, RequestLeft
  <2>8. FilesAreMerges'
    BY <1>1, SameFiles
  <2>9. \A cl \in ClientStates, U, D \in Seq(Messages) :
          Live(cl, session[s], U, D) => Live(cl, t, U, D \o t.out)
    BY <2>6
  <2>10. UNCHANGED <<conn, serverUp>> /\ t.pc \notin {"new", "done"} /\ ContentOK(t)
         /\ t.req.type \notin {"CD_REQUEST", "PUT_REQUEST"}
    BY <1>1, <2>1, <2>4 DEF ContentOK
  <2>11. QED
    BY <1>1, <2>1, <2>5, <2>7, <2>8, <2>9, <2>10, LocalFrame
<1>4. QED
  BY <1>2, <1>3

LEMMA Sha256sumInv ==
  ASSUME IInv, NEW s \in Conns, Sha256sum(s), TypeInv', UNCHANGED clientVars
  PROVE  IInv'
<1>1. /\ At(s, "sha") /\ session[s].pc = "sha" /\ session[s].out = <<>>
      /\ UNCHANGED <<conn, files, serverUp>> /\ session[s] \in Sessions
      /\ "sha" \in SessionPcs \ {"new", "done"} /\ TypeInv /\ FilesAreMerges
      /\ session[s].req.type = "SHA_REQUEST"
  BY ThreadFacts, TypeFacts DEF Sha256sum, At, SessionPcs, SessionOK
<1> DEFINE x == files[Path(s)]
           t == [session[s] EXCEPT !.pc = "request", !.out = ShaData(x)]
<1>2. session' = [session EXCEPT ![s] = t]
  BY DEF Sha256sum
<1>3. x \in Contents
  BY <1>1, PathType
<1> HIDE DEF x
<1>4. ShaData(x) \in Seq(Messages)
  BY <1>3, RepliesType
<1>5. t.pc = "request" /\ t.out = ShaData(x) /\ t.req = session[s].req
  BY <1>1 DEF Sessions
<1>6. t \in Sessions
  <2>1. "request" \in SessionPcs
    BY DEF SessionPcs
  <2>2. QED
    BY <1>1, <1>4, <2>1 DEF Sessions
<1> HIDE DEF t
<1>7. ASSUME NEW cl \in ClientStates, NEW U \in Seq(Messages), NEW D \in Seq(Messages),
             Live(cl, session[s], U, D)
      PROVE  Live(cl, t, U, D \o t.out)
  <2>1. /\ U = <<>>
        /\ \/ cl.pc = "sha" /\ IsReply(D, "SHA_REPLY", 1) /\ Len(D) = 1
           \/ cl.pc = "shadata" /\ Len(D) = 0
    BY <1>1, <1>7, SumAwaited
  <2>2. CASE cl.pc = "sha" /\ IsReply(D, "SHA_REPLY", 1) /\ Len(D) = 1
    <3>1. SumDue(t, D \o t.out, 1)
      BY <1>3, <1>5, <2>2, SumSent
    <3>2. IsReply(D \o t.out, "SHA_REPLY", 1)
      BY <1>4, <1>5, <2>2, ReplyStays
    <3>3. QED
      BY <2>1, <2>2, <3>1, <3>2 DEF Live, Answered
  <2>3. CASE cl.pc = "shadata" /\ Len(D) = 0
    <3>1. SumDue(t, D \o t.out, 0)
      BY <1>3, <1>5, <2>3, SumSent
    <3>2. QED
      BY <2>1, <2>3, <3>1 DEF Live, Answered
  <2>4. QED
    BY <2>1, <2>2, <2>3
<1>8. \A q \in Seq(Messages) :
        UpOK("sha", q) => UpOK(t.pc, q) /\ (t.out # <<>> => q = <<>>)
  BY <1>5 DEF UpOK, RequestLeft
<1>9. FilesAreMerges'
  BY <1>1, SameFiles
<1>10. \A cl \in ClientStates, U, D \in Seq(Messages) :
         Live(cl, session[s], U, D) => Live(cl, t, U, D \o t.out)
  BY <1>7
<1>11. UNCHANGED <<conn, serverUp>> /\ t.pc \notin {"new", "done"} /\ ContentOK(t)
       /\ t.req.type \notin {"CD_REQUEST", "PUT_REQUEST"}
  BY <1>1, <1>5 DEF ContentOK
<1>12. QED
  BY <1>1, <1>2, <1>6, <1>8, <1>9, <1>10, <1>11, LocalFrame

\* The requests and the replies that a thread storing an upload can meet do
\* not tell "truncate" from "write", nor "write" from "request".
LEMMA StoringLive ==
  ASSUME NEW cl, NEW t, NEW u, NEW U, NEW D, Live(cl, t, U, D),
         \/ t.pc = "truncate" /\ u.pc = "write"
         \/ t.pc = "write" /\ u.pc = "request"
  PROVE  Live(cl, u, U, D)
<1>1. ~Answered(cl, t, D)
  BY DEF Answered, DataDue, SumDue
<1>2. D = <<>> /\ Asked(cl, t, U)
  BY <1>1 DEF Live
<1>3. PICK i \in {0, 1, 2} : Uploaded(t.pc, U, i) /\ Requested(cl, U, i) /\ cl.pc # "open"
  BY <1>2 DEF Asked
<1>4. Uploaded(u.pc, U, i)
  BY <1>3 DEF Uploaded
<1>5. QED
  BY <1>2, <1>3, <1>4 DEF Live, Asked

\* A file of the server gets another content.
LEMMA FileStored ==
  ASSUME FilesAreMerges, NEW p \in Paths, NEW x \in Contents, IsMerge(x),
         files \in [Paths -> Contents \cup {NoFile}],
         files' = [files EXCEPT ![p] = x], UNCHANGED clientVars
  PROVE  FilesAreMerges'
<1>1. \A r \in Paths : files'[r] # NoFile => IsMerge(files'[r])
  BY DEF FilesAreMerges
<1>2. \A c \in Clients, f \in Names : disk'[c][f] # NoFile => IsMerge(disk'[c][f])
  BY DEF FilesAreMerges, clientVars
<1>3. QED
  BY <1>1, <1>2 DEF FilesAreMerges, IsMerge, Originals

LEMMA OpenForWritingInv ==
  ASSUME IInv, NEW s \in Conns, OpenForWriting(s), TypeInv', UNCHANGED clientVars
  PROVE  IInv'
<1>1. /\ At(s, "truncate") /\ session[s].pc = "truncate" /\ session[s].out = <<>>
      /\ UNCHANGED serverUp /\ session[s] \in Sessions
      /\ "truncate" \in SessionPcs \ {"new", "done"} /\ TypeInv /\ FilesAreMerges
      /\ ContentOK(session[s])
  BY ThreadFacts DEF OpenForWriting, At, SessionPcs
<1>2. CASE IsDirectory(session[s].cwd, session[s].name)
  BY <1>1, <1>2, LocalHangUpInv DEF OpenForWriting
<1>3. CASE ~IsDirectory(session[s].cwd, session[s].name)
  <2> DEFINE t == [session[s] EXCEPT !.pc = "write"]
  <2>1. session' = [session EXCEPT ![s] = t] /\ UNCHANGED conn
        /\ files' = [files EXCEPT ![Path(s)] = <<>>]
    BY <1>3 DEF OpenForWriting
  <2>2. t.pc = "write" /\ t.out = <<>> /\ t.buf = session[s].buf
    BY <1>1 DEF Sessions
  <2>3. t \in Sessions
    <3>1. "write" \in SessionPcs
      BY DEF SessionPcs
    <3>2. QED
      BY <1>1, <3>1 DEF Sessions
  <2> HIDE DEF t
  <2>4. ContentOK(t)
    BY <1>1, <2>2 DEF ContentOK
  <2>5. FilesAreMerges'
    <3>1. Path(s) \in Paths /\ files \in [Paths -> Contents \cup {NoFile}]
      BY <1>1, PathType DEF TypeInv, TypeOK
    <3>2. QED
      BY <1>1, <2>1, <3>1, EmptyContent, MergeEmpty, FileStored
  <2>6. ASSUME NEW cl \in ClientStates, NEW U \in Seq(Messages), NEW D \in Seq(Messages),
               Live(cl, session[s], U, D)
        PROVE  Live(cl, t, U, D \o t.out)
    <3>1. D \o t.out = D
      BY <2>2
    <3>2. Live(cl, t, U, D)
      BY <1>1, <2>2, <2>6, StoringLive
    <3>3. QED
      BY <3>1, <3>2
  <2>7. \A q \in Seq(Messages) :
          UpOK("truncate", q) => UpOK(t.pc, q) /\ (t.out # <<>> => q = <<>>)
    BY <2>2 DEF UpOK
  <2>8. \A cl \in ClientStates, U, D \in Seq(Messages) :
          Live(cl, session[s], U, D) => Live(cl, t, U, D \o t.out)
    BY <2>6
  <2>9. UNCHANGED <<conn, serverUp>> /\ t.pc \notin {"new", "done"}
        /\ (t.out # <<>> => t.req.type \notin {"CD_REQUEST", "PUT_REQUEST"})
    BY <1>1, <2>1, <2>2
  <2>10. QED
    BY <1>1, <2>1, <2>3, <2>4, <2>5, <2>7, <2>8, <2>9, LocalFrame
<1>4. QED
  BY <1>2, <1>3

\* A merge written over the start of a merge makes a merge.
LEMMA OverwriteMerge ==
  ASSUME NEW old \in Contents, NEW new \in Contents, IsMerge(old), IsMerge(new)
  PROVE  IsMerge(Overwrite(old, new))
<1> DEFINE x == Overwrite(old, new)
<1>1. Len(new) \in Nat /\ Len(old) \in Nat
  BY DEF Contents
<1>2. x \in Contents
  BY OverwriteType
<1>3. Len(x) = IF Len(new) >= Len(old) THEN Len(new) ELSE Len(old)
  BY <1>1 DEF Overwrite, Contents
<1>4. \A i \in 1 .. Len(x) : x[i] = IF i <= Len(new) THEN new[i] ELSE old[i]
  BY <1>1 DEF Overwrite, Contents
<1> HIDE DEF x
<1>5. /\ DOMAIN x = 1 .. Len(x) /\ DOMAIN new = 1 .. Len(new) /\ DOMAIN old = 1 .. Len(old)
      /\ (x = <<>> <=> Len(x) = 0) /\ (new = <<>> <=> Len(new) = 0)
      /\ (old = <<>> <=> Len(old) = 0)
  BY <1>2 DEF Contents
<1>6. x = <<>> \/ \E o \in Originals : Len(o) = Len(x)
  BY <1>1, <1>3, <1>5 DEF IsMerge
<1>7. ASSUME NEW i \in DOMAIN x
      PROVE  \E o \in Originals : i \in DOMAIN o /\ x[i] = o[i]
  <2>1. CASE i <= Len(new)
    <3>1. x[i] = new[i] /\ i \in DOMAIN new
      BY <1>1, <1>3, <1>4, <1>5, <2>1
    <3>2. QED
      BY <3>1 DEF IsMerge
  <2>2. CASE ~(i <= Len(new))
    <3>1. x[i] = old[i] /\ i \in DOMAIN old
      BY <1>1, <1>3, <1>4, <1>5, <2>2
    <3>2. QED
      BY <3>1 DEF IsMerge
  <2>3. QED
    BY <2>1, <2>2
<1>8. IsMerge(x)
  BY <1>6, <1>7 DEF IsMerge
<1>9. QED
  BY <1>8 DEF x

LEMMA WriteFileInv ==
  ASSUME IInv, NEW s \in Conns, WriteFile(s), TypeInv', UNCHANGED clientVars
  PROVE  IInv'
<1>1. /\ At(s, "write") /\ session[s].pc = "write" /\ session[s].out = <<>>
      /\ UNCHANGED <<conn, serverUp>> /\ session[s] \in Sessions
      /\ "write" \in SessionPcs \ {"new", "done"} /\ TypeInv /\ FilesAreMerges
      /\ ContentOK(session[s]) /\ session[s].buf \in Contents
  BY ThreadFacts, TypeFacts DEF WriteFile, At, SessionPcs
<1> DEFINE t == [session[s] EXCEPT !.pc = "request", !.buf = <<>>]
           x == Overwrite(files[Path(s)], session[s].buf)
<1>2. session' = [session EXCEPT ![s] = t] /\ files' = [files EXCEPT ![Path(s)] = x]
  BY DEF WriteFile
<1>3. t.pc = "request" /\ t.out = <<>>
  BY <1>1 DEF Sessions
<1>4. t \in Sessions
  <2>1. "request" \in SessionPcs
    BY DEF SessionPcs
  <2>2. QED
    BY <1>1, <2>1, EmptyContent DEF Sessions
<1> HIDE DEF t
<1>5. ContentOK(t)
  BY <1>3 DEF ContentOK
<1>6. FilesAreMerges'
  <2>1. /\ Path(s) \in Paths /\ files \in [Paths -> Contents \cup {NoFile}]
        /\ files[Path(s)] \in Contents /\ files[Path(s)] # NoFile
    BY <1>1, PathType, HeadAssumption DEF TypeInv, TypeOK
  <2>2. IsMerge(files[Path(s)]) /\ IsMerge(session[s].buf)
    BY <1>1, <2>1 DEF FilesAreMerges, ContentOK
  <2>3. x \in Contents /\ IsMerge(x)
    BY <1>1, <2>1, <2>2, OverwriteType, OverwriteMerge
  <2> HIDE DEF x
  <2>4. QED
    BY <1>1, <1>2, <2>1, <2>3, FileStored
<1>7. ASSUME NEW cl \in ClientStates, NEW U \in Seq(Messages), NEW D \in Seq(Messages),
             Live(cl, session[s], U, D)
      PROVE  Live(cl, t, U, D \o t.out)
  <2>1. D \o t.out = D
    BY <1>3
  <2>2. Live(cl, t, U, D)
    BY <1>1, <1>3, <1>7, StoringLive
  <2>3. QED
    BY <2>1, <2>2
<1>8. \A q \in Seq(Messages) :
        UpOK("write", q) => UpOK(t.pc, q) /\ (t.out # <<>> => q = <<>>)
  BY <1>3 DEF UpOK
<1>9. \A cl \in ClientStates, U, D \in Seq(Messages) :
        Live(cl, session[s], U, D) => Live(cl, t, U, D \o t.out)
  BY <1>7
<1>10. UNCHANGED <<conn, serverUp>> /\ t.pc \notin {"new", "done"}
       /\ (t.out # <<>> => t.req.type \notin {"CD_REQUEST", "PUT_REQUEST"})
  BY <1>1, <1>3
<1>11. QED
  BY <1>1, <1>2, <1>4, <1>5, <1>6, <1>8, <1>9, <1>10, LocalFrame

LEMMA QuitInv ==
  ASSUME IInv, NEW s \in Conns, Quit(s), TypeInv', UNCHANGED clientVars
  PROVE  IInv'
<1>1. "quit" \in SessionPcs \ {"new", "done"}
  BY DEF SessionPcs
<1>2. QED
  BY <1>1, LocalHangUpInv DEF Quit

LEMMA ServerInv ==
  ASSUME IInv, NEW s \in Conns, Server(s)
  PROVE  IInv'
<1>1. SessionStep(s) /\ UNCHANGED clientVars
  BY DEF Server
<1>2. TypeInv'
  BY ServerType DEF IInv
<1>3. QED
  BY <1>1, <1>2, AcceptInv, ServerSendInv, RecvFailsInv, RecvOpenRequestInv,
     RecvRequestInv, RecvNameInv, FileSizeInv, ReadFileInv, Sha256sumInv,
     RecvFileDataInv, RecvFileContentInv, OpenForWritingInv, WriteFileInv, QuitInv
     DEF SessionStep

------------------------------------------------------------------------------
(* The steps of the clients. *)

LEMMA SameDisk ==
  ASSUME FilesAreMerges, files' = files, disk' = disk
  PROVE  FilesAreMerges'
BY DEF FilesAreMerges, IsMerge, Originals

\* A step of a client on its own connection s, or on one it has just opened.
LEMMA ClientFrameInv ==
  ASSUME IInv, NEW c \in Clients, NEW s \in Conns, NEW k \in Connections,
         NEW cl \in ClientStates, Sock(c) = s \/ (Sock(c) = Fresh /\ ~conn[s].used),
         conn' = [conn EXCEPT ![s] = k], client' = [client EXCEPT ![c] = cl],
         UNCHANGED serverVars, TypeInv', FilesAreMerges',
         ConnOK(k, session[s], serverUp), RequestOK(cl),
         \/ cl.sock = s /\ k.open["client"] /\ PairOK(cl, session[s], k)
         \/ cl.sock = Fresh /\ ~k.open["client"]
  PROVE  IInv'
<1>1. s # Fresh /\ UNCHANGED <<files, session, serverUp>>
      /\ conn \in [Conns -> Connections] /\ client \in [Clients -> ClientStates]
  BY ClientAssumption DEF serverVars, IInv, TypeInv, TypeOK
<1>2. conn'[s] = k /\ \A r \in Conns : r # s => conn'[r] = conn[r]
  BY <1>1
<1>3. client'[c] = cl /\ Sock(c)' = cl.sock
      /\ \A d \in Clients : d # c => client'[d] = client[d] /\ Sock(d)' = Sock(d)
  BY <1>1 DEF Sock
<1>4. \A d \in Clients : d # c => Sock(d) # s
  <2>1. CASE Sock(c) = s
    BY <1>1, <2>1, HolderFacts
  <2>2. CASE ~conn[s].used
    BY <1>1, <2>2, HolderFacts
  <2>3. QED
    BY <2>1, <2>2
<1>5. ASSUME NEW r \in Conns
      PROVE  /\ ConnOK(conn[r], session[r], serverUp)'
             /\ ContentOK(session[r])'
             /\ (conn[r].open["client"] => Held(r))'
  <2>1. /\ ConnOK(conn[r], session[r], serverUp) /\ ContentOK(session[r])
        /\ conn[r].open["client"] => Held(r)
    BY DEF IInv
  <2>2. ContentOK(session[r])'
    BY <1>1, <2>1 DEF ContentOK, IsMerge, Originals
  <2>3. CASE r = s
    <3>1. ConnOK(conn'[r], session'[r], serverUp')
      BY <1>1, <1>2, <2>3
    <3>2. conn'[r].open["client"] => \E d \in Clients : Sock(d)' = r
      BY <1>2, <1>3, <2>3
    <3>3. QED
      BY <2>2, <3>1, <3>2 DEF ConnOK, Held, Orphan
  <2>4. CASE r # s
    <3>1. ConnOK(conn'[r], session'[r], serverUp')
      BY <1>1, <1>2, <2>1, <2>4
    <3>2. ASSUME conn'[r].open["client"]
          PROVE  \E d \in Clients : Sock(d)' = r
      <4>1. PICK d \in Clients : Sock(d) = r
        BY <1>2, <2>1, <2>4, <3>2 DEF Held
      <4>2. d # c
        BY <1>1, <2>4, <4>1, ClientAssumption
      <4>3. QED
        BY <1>3, <4>1, <4>2
    <3>3. QED
      BY <2>2, <3>1, <3>2 DEF ConnOK, Held, Orphan
  <2>5. QED
    BY <2>3, <2>4
<1>6. ASSUME NEW d \in Clients
      PROVE  /\ RequestOK(client'[d])
             /\ Sock(d)' # Fresh =>
                  /\ conn'[Sock(d)'].open["client"]
                  /\ PairOK(client'[d], session'[Sock(d)'], conn'[Sock(d)'])
                  /\ \A e \in Clients : Sock(e)' = Sock(d)' => e = d
  <2>1. CASE d = c
    <3>1. RequestOK(client'[d])
      BY <1>3, <2>1
    <3>2. ASSUME Sock(d)' # Fresh
          PROVE  /\ conn'[Sock(d)'].open["client"]
                 /\ PairOK(client'[d], session'[Sock(d)'], conn'[Sock(d)'])
                 /\ \A e \in Clients : Sock(e)' = Sock(d)' => e = d
      <4>1. Sock(d)' = s /\ k.open["client"] /\ PairOK(cl, session[s], k)
        BY <1>3, <2>1, <3>2
      <4>2. QED
        BY <1>1, <1>2, <1>3, <1>4, <2>1, <4>1
    <3>3. QED
      BY <3>1, <3>2
  <2>2. CASE d # c
    <3>1. RequestOK(client'[d])
      BY <1>3, <2>2 DEF IInv
    <3>2. ASSUME Sock(d)' # Fresh
          PROVE  /\ conn'[Sock(d)'].open["client"]
                 /\ PairOK(client'[d], session'[Sock(d)'], conn'[Sock(d)'])
                 /\ \A e \in Clients : Sock(e)' = Sock(d)' => e = d
      <4>1. /\ Sock(d)' = Sock(d) /\ Sock(d) # Fresh /\ Sock(d) # s
            /\ client'[d] = client[d]
        BY <1>3, <1>4, <2>2, <3>2
      <4>2. /\ Sock(d) \in Conns /\ conn[Sock(d)].open["client"]
            /\ PairOK(client[d], session[Sock(d)], conn[Sock(d)])
            /\ \A e \in Clients : Sock(e) = Sock(d) => e = d
        BY <4>1, HolderFacts
      <4>3. conn'[Sock(d)] = conn[Sock(d)] /\ session' = session
        BY <1>1, <1>2, <4>1, <4>2
      <4>4. Sock(c)' # Sock(d)
        BY <1>3, <4>1
      <4>5. \A e \in Clients : Sock(e)' = Sock(d) => e = d
        BY <1>3, <4>2, <4>4
      <4>6. QED
        BY <4>1, <4>2, <4>3, <4>5
    <3>3. QED
      BY <3>1, <3>2
  <2>3. QED
    BY <2>1, <2>2
<1>7. \A d \in Clients :
        (/\ RequestOK(client[d])
         /\ Sock(d) # Fresh =>
              /\ conn[Sock(d)].open["client"]
              /\ PairOK(client[d], session[Sock(d)], conn[Sock(d)])
              /\ \A e \in Clients : Sock(e) = Sock(d) => e = d)'
  BY <1>6 DEF RequestOK, PairOK, Requested, Live, Asked, Answered, DownOK
<1>8. QED
  BY <1>5, <1>7 DEF IInv

\* A step of a client that has no connection and makes none.
LEMMA ClientAloneInv ==
  ASSUME IInv, NEW c \in Clients, Sock(c) = Fresh, NEW cl \in ClientStates,
         cl.sock = Fresh, client' = [client EXCEPT ![c] = cl], UNCHANGED conn,
         UNCHANGED serverVars, TypeInv', FilesAreMerges', RequestOK(cl)
  PROVE  IInv'
<1>1. UNCHANGED <<files, session, serverUp>> /\ client \in [Clients -> ClientStates]
  BY DEF serverVars, IInv, TypeInv, TypeOK
<1>2. /\ client'[c] = cl /\ \A d \in Clients : Sock(d)' = Sock(d)
      /\ \A d \in Clients : d # c => client'[d] = client[d]
  BY <1>1 DEF Sock
<1>3. ASSUME NEW r \in Conns
      PROVE  /\ ConnOK(conn[r], session[r], serverUp)'
             /\ ContentOK(session[r])'
             /\ (conn[r].open["client"] => Held(r))'
  <2>1. /\ ConnOK(conn[r], session[r], serverUp) /\ ContentOK(session[r])
        /\ conn[r].open["client"] => Held(r)
    BY DEF IInv
  <2>2. Held(r)' <=> Held(r)
    BY <1>2 DEF Held
  <2>3. QED
    BY <1>1, <2>1, <2>2
<1>4. ASSUME NEW d \in Clients
      PROVE  /\ RequestOK(client[d])'
             /\ Sock(d)' # Fresh =>
                  /\ conn'[Sock(d)].open["client"]
                  /\ PairOK(client'[d], session'[Sock(d)], conn'[Sock(d)])
                  /\ \A e \in Clients : Sock(e) = Sock(d) => e = d
  <2>1. RequestOK(client'[d])
    BY <1>2 DEF IInv
  <2>2. ASSUME Sock(d) # Fresh
        PROVE  /\ conn'[Sock(d)].open["client"]
               /\ PairOK(client'[d], session'[Sock(d)], conn'[Sock(d)])
               /\ \A e \in Clients : Sock(e) = Sock(d) => e = d
    BY <1>1, <1>2, <2>2, HolderFacts
  <2>3. QED
    BY <1>2, <2>1, <2>2
<1>5. QED
  BY <1>2, <1>3, <1>4 DEF IInv

\* The connection of a client, from the client's side.
LEMMA OwnConn ==
  ASSUME IInv, NEW c \in Clients, Sock(c) # Fresh
  PROVE  LET k == conn[Sock(c)]
             t == session[Sock(c)]
         IN  /\ Sock(c) \in Conns /\ k \in Connections /\ t \in Sessions
             /\ client[c] \in ClientStates /\ client[c].out \in Seq(Messages)
             /\ t.out \in Seq(Messages)
             /\ k.q["client"] \in Seq(Messages) /\ k.q["server"] \in Seq(Messages)
             /\ k.used /\ k.open["client"] /\ k.err["server"] = "none"
             /\ k.open["server"] \in BOOLEAN
             /\ k.open["server"] =>
                  /\ serverUp /\ t.pc # "done" /\ k.err["client"] = "none"
                  /\ Live(client[c], t, k.q["server"] \o client[c].out,
                          k.q["client"] \o t.out)
             /\ ~k.open["server"] =>
                  /\ t.pc = "done" /\ k.q["server"] = <<>>
                  /\ DownOK(client[c].pc, k.q["client"])
                  /\ client[c].out # <<>> => k.q["client"] = <<>>
<1>1. Sock(c) \in Conns
  BY HolderFacts
<1>2. QED
  BY <1>1, HolderFacts, ThreadFacts DEF ConnOK, PairOK

\* A client whose server has gone goes on, or closes the socket.
LEMMA GoneFrame ==
  ASSUME IInv, NEW c \in Clients, Sock(c) # Fresh, ~conn[Sock(c)].open["server"],
         NEW k \in Connections, k.used = conn[Sock(c)].used, k.open = conn[Sock(c)].open,
         k.q["server"] = conn[Sock(c)].q["server"],
         k.err["server"] = conn[Sock(c)].err["server"],
         NEW cl \in ClientStates, client' = [client EXCEPT ![c] = cl],
         UNCHANGED serverVars, TypeInv', FilesAreMerges', RequestOK(cl),
         \/ /\ OnConn(c, k) /\ cl.sock = Sock(c) /\ DownOK(cl.pc, k.q["client"])
            /\ cl.out # <<>> => k.q["client"] = <<>>
         \/ OnConn(c, Closed(k, "client")) /\ cl.sock = Fresh
  PROVE  IInv'
<1> DEFINE s == Sock(c)
<1>1. /\ s \in Conns /\ conn[s].used /\ conn[s].open["client"] /\ conn[s].err["server"] = "none"
      /\ session[s].pc = "done" /\ conn[s].q["server"] = <<>>
  BY OwnConn
<1> HIDE DEF s
<1>2. s = Sock(c)
  BY DEF s
<1>3. CASE /\ OnConn(c, k) /\ cl.sock = Sock(c) /\ DownOK(cl.pc, k.q["client"])
           /\ cl.out # <<>> => k.q["client"] = <<>>
  <2>1. conn' = [conn EXCEPT ![s] = k] /\ cl.sock = s
    BY <1>2, <1>3 DEF OnConn
  <2>2. ConnOK(k, session[s], serverUp)
    BY <1>1, <1>2 DEF ConnOK
  <2>3. k.open["client"] /\ PairOK(cl, session[s], k)
    BY <1>1, <1>2, <1>3 DEF PairOK
  <2>4. QED
    BY <1>1, <1>2, <2>1, <2>2, <2>3, ClientFrameInv
<1>4. CASE OnConn(c, Closed(k, "client")) /\ cl.sock = Fresh
  <2>1. conn' = [conn EXCEPT ![s] = Spent]
    BY <1>2, <1>4, ClientCloses DEF OnConn
  <2>2. Spent \in Connections
    BY BlankType DEF Spent
  <2>3. /\ Spent.used /\ ~Spent.open["client"] /\ ~Spent.open["server"]
        /\ Spent.q["server"] = <<>> /\ Spent.q["client"] = <<>>
        /\ Spent.err["server"] = "none" /\ Spent.err["client"] = "none"
    BY SpentFields
  <2>4. ConnOK(Spent, session[s], serverUp)
    BY <1>1, <2>3 DEF ConnOK
  <2>5. QED
    BY <1>1, <1>2, <1>4, <2>1, <2>2, <2>3, <2>4, ClientFrameInv
<1>5. QED
  BY <1>3, <1>4

\* A client whose server is there goes on.
LEMMA LiveFrame ==
  ASSUME IInv, NEW c \in Clients, Sock(c) # Fresh, conn[Sock(c)].open["server"],
         NEW k \in Connections, k.used = conn[Sock(c)].used, k.open = conn[Sock(c)].open,
         k.err["server"] = conn[Sock(c)].err["server"],
         k.err["client"] = conn[Sock(c)].err["client"],
         NEW cl \in ClientStates, cl.sock = Sock(c), client' = [client EXCEPT ![c] = cl],
         OnConn(c, k), UNCHANGED serverVars, TypeInv', FilesAreMerges', RequestOK(cl),
         Live(cl, session[Sock(c)], k.q["server"] \o cl.out,
              k.q["client"] \o session[Sock(c)].out)
  PROVE  IInv'
<1> DEFINE s == Sock(c)
<1>1. /\ s \in Conns /\ conn[s].used /\ conn[s].open["client"] /\ conn[s].err["server"] = "none"
      /\ session[s].pc # "done" /\ serverUp /\ conn[s].err["client"] = "none"
  BY OwnConn
<1> HIDE DEF s
<1>2. s = Sock(c)
  BY DEF s
<1>3. conn' = [conn EXCEPT ![s] = k] /\ cl.sock = s
  BY <1>2 DEF OnConn
<1>4. ConnOK(k, session[s], serverUp)
  BY <1>1, <1>2 DEF ConnOK
<1>5. k.open["client"] /\ PairOK(cl, session[s], k)
  BY <1>1, <1>2 DEF PairOK
<1>6. QED
  BY <1>1, <1>2, <1>3, <1>4, <1>5, ClientFrameInv

\* A client closes its end of k, of which the session goes on.
LEMMA CloseFrame ==
  ASSUME IInv, NEW c \in Clients, Sock(c) # Fresh, conn[Sock(c)].open["server"],
         NEW k \in Connections, k.used = conn[Sock(c)].used, k.open = conn[Sock(c)].open,
         k.err["server"] = conn[Sock(c)].err["server"],
         k.err["client"] = conn[Sock(c)].err["client"],
         NEW old \in ClientStates,
         Live(old, session[Sock(c)], k.q["server"] \o old.out,
              k.q["client"] \o session[Sock(c)].out),
         NEW cl \in ClientStates, cl.sock = Fresh, client' = [client EXCEPT ![c] = cl],
         OnConn(c, Closed(k, "client")), UNCHANGED serverVars, TypeInv', FilesAreMerges',
         RequestOK(cl)
  PROVE  IInv'
<1> DEFINE s == Sock(c)
           z == Closed(k, "client")
           t == session[s]
           u == k.q["server"]
           d == k.q["client"]
           U == u \o old.out
           D == d \o t.out
<1>1. /\ s \in Conns /\ conn[s].used /\ conn[s].open["client"] /\ conn[s].err["server"] = "none"
      /\ t.pc # "done" /\ serverUp /\ conn[s].err["client"] = "none" /\ t \in Sessions
      /\ t.out \in Seq(Messages)
  BY OwnConn
<1>2. /\ z \in Connections /\ z.used /\ ~z.open["client"] /\ z.open["server"]
      /\ z.q["client"] = <<>> /\ z.q["server"] = u /\ z.err["client"] = "none"
      /\ z.err["server"] = IF d # <<>> THEN "reset" ELSE "none"
  <2>1. /\ k.used /\ k.open["server"] /\ k.err["client"] = "none"
        /\ k.err["server"] = "none"
    BY <1>1
  <2>2. z \in Connections
    BY ClosedType, PeerOf
  <2>3. QED
    BY <2>1, <2>2, ClientCloses
<1>3. /\ u \in Seq(Messages) /\ d \in Seq(Messages) /\ old.out \in Seq(Messages)
  BY StreamTypes, PeerOf DEF ClientStates
<1>4. Live(old, t, U, D)
  OBVIOUS
<1>5. conn' = [conn EXCEPT ![s] = z]
  BY DEF OnConn
<1>6. s = Sock(c)
  OBVIOUS
<1>7. /\ U \in Seq(Messages) /\ Len(u) <= Len(U)
      /\ \A j \in 1 .. Len(u) : u[j] = U[j]
      /\ U = <<>> => u = <<>>
      /\ D = <<>> => d = <<>> /\ t.out = <<>>
  <2>1. /\ U \in Seq(Messages) /\ Len(u) <= Len(U)
        /\ \A j \in 1 .. Len(u) : u[j] = U[j]
    BY <1>3, Prefix
  <2>2. QED
    BY <1>1, <1>3, <2>1, ConcatEmpty
<1>8. U = <<>> \/ D = <<>>
  BY <1>4 DEF Live
<1> HIDE DEF s, z, t, u, d, U, D
<1>9. UpOK(t.pc, u)
  BY <1>1, <1>3, <1>4, <1>7, UpPrefix
<1>10. Orphan(z, t)
  BY <1>2, <1>7, <1>8, <1>9 DEF Orphan
<1>11. ConnOK(z, t, serverUp)
  BY <1>1, <1>2, <1>10 DEF ConnOK
<1>12. QED
  BY <1>1, <1>2, <1>5, <1>6, <1>11, ClientFrameInv DEF t

\* A client without a socket, whatever it does with the one it had.
LEMMA CloseSockInv ==
  ASSUME IInv, NEW c \in Clients, NEW cl \in ClientStates, cl.sock = Fresh,
         RequestOK(cl), CloseSock(c), SetClient(c, cl), UNCHANGED disk,
         UNCHANGED serverVars, TypeInv'
  PROVE  IInv'
<1>1. FilesAreMerges' /\ client' = [client EXCEPT ![c] = cl]
  BY SameDisk DEF IInv, serverVars, SetClient
<1>2. CASE Sock(c) = Fresh
  BY <1>1, <1>2, ClientAloneInv DEF CloseSock
<1>3. CASE Sock(c) # Fresh
  <2> DEFINE k == conn[Sock(c)]
  <2>1. OnConn(c, Closed(k, "client"))
    BY <1>3 DEF CloseSock
  <2>2. /\ k \in Connections /\ client[c] \in ClientStates
        /\ k.open["server"] =>
             Live(client[c], session[Sock(c)], k.q["server"] \o client[c].out,
                  k.q["client"] \o session[Sock(c)].out)
    BY <1>3, OwnConn
  <2>3. CASE k.open["server"]
    BY <1>1, <1>3, <2>1, <2>2, <2>3, CloseFrame
  <2>4. CASE ~k.open["server"]
    BY <1>1, <1>3, <2>1, <2>2, <2>4, GoneFrame
  <2>5. QED
    BY <2>3, <2>4
<1>4. QED
  BY <1>2, <1>3

LEMMA EndInv ==
  ASSUME IInv, NEW c \in Clients, NEW pc \in {"exited", "killed"}, End(c, pc),
         UNCHANGED disk, UNCHANGED serverVars, TypeInv'
  PROVE  IInv'
<1> DEFINE cl == [NewClient EXCEPT !.pc = pc]
<1>1. cl \in ClientStates /\ cl.sock = Fresh /\ cl.out = <<>>
  BY EndedClientType
<1>2. CloseSock(c) /\ SetClient(c, cl)
  BY DEF End
<1> HIDE DEF cl
<1>3. RequestOK(cl)
  BY <1>1 DEF RequestOK
<1>4. QED
  BY <1>1, <1>2, <1>3, CloseSockInv

LEMMA DropInv ==
  ASSUME IInv, NEW c \in Clients, NEW info \in BOOLEAN, CloseSock(c),
         SetClient(c, Drop(c, info)), UNCHANGED disk, UNCHANGED serverVars, TypeInv'
  PROVE  IInv'
<1> DEFINE cl == Drop(c, info)
<1>1. cl \in ClientStates /\ cl.sock = Fresh /\ cl.out = <<>>
  BY IdleType DEF IInv
<1>2. SetClient(c, cl)
  OBVIOUS
<1> HIDE DEF cl
<1>3. RequestOK(cl)
  BY <1>1 DEF RequestOK
<1>4. QED
  BY <1>1, <1>2, <1>3, CloseSockInv

LEMMA EndingsInv ==
  ASSUME IInv, NEW c \in Clients, UNCHANGED serverVars, TypeInv',
         OpenAgain(c) \/ ServerIsDown(c) \/ CloseClient(c) \/ Kill(c)
  PROVE  IInv'
<1>1. client[c].info \in BOOLEAN
  BY ClientFacts DEF IInv
<1>2. CASE OpenAgain(c)
  BY <1>1, <1>2, DropInv DEF OpenAgain
<1>3. CASE ServerIsDown(c)
  BY <1>3, DropInv DEF ServerIsDown
<1>4. CASE CloseClient(c)
  BY <1>4, EndInv DEF CloseClient
<1>5. CASE Kill(c)
  BY <1>5, EndInv DEF Kill
<1>6. QED
  BY <1>2, <1>3, <1>4, <1>5

\* A request without a name, by itself in a stream.
LEMMA RequestedAlone ==
  ASSUME NEW cl, cl.pc \in {"open", "ls", "quit"}, NEW h,
         h.type = RequestType(cl.pc), h.n = 0
  PROVE  Requested(cl, <<h>>, 0)
<1>1. RequestLen(cl.pc) = 1 /\ cl.pc \notin NamedPcs
  BY DEF RequestLen, NamedPcs
<1>2. Len(<<h>>) = 0 + 1 /\ <<h>>[0 + 1] = h
  OBVIOUS
<1>3. QED
  BY <1>1, <1>2 DEF Requested

LEMMA OpenConnectionInv ==
  ASSUME IInv, NEW c \in Clients, OpenConnection(c), UNCHANGED serverVars, TypeInv'
  PROVE  IInv'
<1> DEFINE s == CHOOSE r \in Conns : ~conn[r].used
           h == Header("OPEN_CONN_REQUEST", 0, 0)
           cl == [client[c] EXCEPT !.pc = "open", !.sock = s, !.out = <<h>>]
<1>1. /\ s \in Conns /\ ~conn[s].used /\ Sock(c) = Fresh /\ serverUp
      /\ conn' = [conn EXCEPT ![s] = Established]
      /\ client' = [client EXCEPT ![c] = cl] /\ UNCHANGED disk
  BY DEF OpenConnection, SetClient
<1> HIDE DEF s
<1>2. h \in Messages /\ h.type = "OPEN_CONN_REQUEST" /\ h.n = 0
  <2>1. "OPEN_CONN_REQUEST" \in HeaderTypes /\ 0 \in Nat
    BY DEF HeaderTypes
  <2>2. QED
    BY <2>1, HeaderType
<1>3. client[c] \in ClientStates
  BY ClientFacts DEF IInv
<1> HIDE DEF h
<1>4. <<h>> \in Seq(Messages)
  BY <1>2
<1>5. cl \in ClientStates /\ cl.pc = "open" /\ cl.sock = s /\ cl.out = <<h>>
  BY <1>1, <1>3, <1>4 DEF ClientStates, ClientPcs
<1> HIDE DEF cl
<1>6. Requested(cl, <<h>>, 0)
  BY <1>2, <1>5, RequestedAlone DEF RequestType
<1>7. RequestOK(cl)
  BY <1>5, <1>6 DEF RequestOK
<1>8. ConnOK(conn[s], session[s], serverUp) /\ session[s] \in Sessions
      /\ SessionOK(session[s], files)
  BY <1>1, ThreadFacts, TypeFacts
<1>9. session[s].pc = "new" /\ session[s].out = <<>>
  BY <1>1, <1>8 DEF ConnOK, SessionOK
<1>10. Established \in Connections
  BY BlankType DEF Established
<1>11. /\ Established.used /\ Established.open["client"] /\ Established.open["server"]
       /\ Established.q["client"] = <<>> /\ Established.q["server"] = <<>>
       /\ Established.err["client"] = "none" /\ Established.err["server"] = "none"
  BY BlankFields, PeerOf DEF Established
<1>12. ConnOK(Established, session[s], serverUp)
  BY <1>1, <1>9, <1>11 DEF ConnOK
<1>13. PairOK(cl, session[s], Established)
  <2>1. <<>> \o <<h>> = <<h>>
    BY <1>4, Streams
  <2>2. <<>> \o <<>> = <<>>
    BY Streams, EmptyContent
  <2>3. Live(cl, session[s], <<h>>, <<>>)
    BY <1>5, <1>6, <1>9 DEF Live, Asked
  <2>4. QED
    BY <1>5, <1>9, <1>11, <2>1, <2>2, <2>3 DEF PairOK
<1>14. FilesAreMerges'
  BY <1>1, SameDisk DEF IInv, serverVars
<1>15. QED
  BY <1>1, <1>5, <1>7, <1>10, <1>11, <1>12, <1>13, <1>14, ClientFrameInv

\* What follows a stream keeps its place behind it.
LEMMA Behind ==
  ASSUME NEW u \in Seq(Messages), NEW v \in Seq(Messages), NEW j \in Nat, j > 0,
         j <= Len(v)
  PROVE  (u \o v)[Len(u) + j] = v[j]
OBVIOUS

\* A request behind what is left of an upload.
LEMMA CommandAsked ==
  ASSUME NEW cl, cl.pc = "prompt", NEW new, new.pc \in {"ls", "quit"} \cup NamedPcs,
         NEW t, NEW U \in Seq(Messages), NEW D, Live(cl, t, U, D),
         NEW r \in Seq(Messages), Requested(new, r, 0)
  PROVE  Live(new, t, U \o r, D)
<1>1. ~Answered(cl, t, D)
  BY DEF Answered
<1>2. D = <<>> /\ Asked(cl, t, U)
  BY <1>1 DEF Live
<1>3. PICK i \in {0, 1, 2} : Uploaded(t.pc, U, i) /\ Requested(cl, U, i)
  BY <1>2 DEF Asked, NamedPcs
<1>4. Len(U) = i
  BY <1>3 DEF Requested, RequestLen, NamedPcs
<1> DEFINE V == U \o r
<1>5. Uploaded(t.pc, V, i)
  <2>1. \A j \in 1 .. Len(U) : V[j] = U[j]
    BY Streams
  <2> HIDE DEF V
  <2>2. i >= 1 => V[1] = U[1]
    BY <1>4, <2>1
  <2>3. i = 2 => V[2] = U[2]
    BY <1>4, <2>1
  <2>4. QED
    BY <1>3, <2>2, <2>3 DEF Uploaded
<1>6. Requested(new, V, i)
  <2> DEFINE n == RequestLen(new.pc)
  <2>1. n \in {1, 2} /\ (new.pc \in NamedPcs => n = 2)
    BY DEF RequestLen
  <2>2. Len(r) = n /\ r[1].type = RequestType(new.pc) /\ r[1].n = n - 1
        /\ (new.pc \in NamedPcs => r[2] = Payload("name", new.name))
    BY <2>1 DEF Requested
  <2>3. Len(V) = i + n
    BY <1>4, <2>2, Streams
  <2>4. \A j \in Nat : j > 0 /\ j <= Len(r) => V[Len(U) + j] = r[j]
    BY Behind
  <2> HIDE DEF V, n
  <2>5. V[i + 1] = r[1]
    BY <1>4, <2>1, <2>2, <2>4
  <2>6. n = 2 => V[i + 2] = r[2]
    BY <1>4, <2>2, <2>4
  <2>7. new.pc \in {"prompt", "upload", "open", "ls", "quit"} \cup NamedPcs
    OBVIOUS
  <2>8. n = RequestLen(new.pc)
    BY DEF n
  <2>9. QED
    BY <2>1, <2>2, <2>3, <2>5, <2>6, <2>7, <2>8 DEF Requested
<1>7. QED
  BY <1>2, <1>3, <1>5, <1>6 DEF Live, Asked, NamedPcs

LEMMA CommandInv ==
  ASSUME IInv, NEW c \in Clients, NEW command, NEW pc \in {"ls", "quit"} \cup NamedPcs,
         NEW f \in Names \cup {NoArg}, NEW request \in Seq(Messages),
         Command(c, command, pc, f, request), UNCHANGED serverVars, TypeInv',
         \A new \in ClientStates : new.pc = pc /\ new.name = f => Requested(new, request, 0)
  PROVE  IInv'
<1> DEFINE cl == [client[c] EXCEPT !.pc = pc, !.name = f, !.out = request]
<1>1. /\ client[c].pc = "prompt" /\ client' = [client EXCEPT ![c] = cl]
      /\ UNCHANGED <<conn, disk>>
  BY DEF Command, Types, Prompt, SetClient
<1>2. client[c] \in ClientStates /\ client[c].out = <<>> /\ Sock(c) = client[c].sock
  BY <1>1, ClientFacts DEF ClientOK, IInv
<1>3. /\ cl \in ClientStates /\ cl.pc = pc /\ cl.name = f /\ cl.out = request
      /\ cl.sock = Sock(c)
  BY <1>2 DEF ClientStates, ClientPcs, NamedPcs
<1> HIDE DEF cl
<1>4. Requested(cl, request, 0) /\ RequestOK(cl)
  BY <1>3 DEF RequestOK
<1>5. FilesAreMerges'
  BY <1>1, SameDisk DEF IInv, serverVars
<1>6. CASE Sock(c) = Fresh
  BY <1>1, <1>3, <1>4, <1>5, <1>6, ClientAloneInv
<1>7. CASE Sock(c) # Fresh
  <2> DEFINE k == conn[Sock(c)]
             t == session[Sock(c)]
             U == k.q["server"]
             D == k.q["client"] \o t.out
  <2>1. OnConn(c, k)
    BY <1>1, <1>7, OwnConn DEF OnConn, IInv, TypeInv, TypeOK
  <2>2. k \in Connections /\ U \in Seq(Messages)
    BY <1>7, OwnConn
  <2>3. CASE k.open["server"]
    <3>1. Live(client[c], t, U \o <<>>, D)
      BY <1>2, <1>7, <2>3, OwnConn
    <3>2. U \o <<>> = U
      BY <2>2
    <3> HIDE DEF U, D, t
    <3>3. Live(client[c], t, U, D)
      BY <3>1, <3>2
    <3>4. Live(cl, t, U \o request, D)
      BY <1>1, <1>3, <1>4, <2>2, <3>3, CommandAsked
    <3>5. Live(cl, session[Sock(c)], k.q["server"] \o cl.out,
               k.q["client"] \o session[Sock(c)].out)
      BY <1>3, <3>4 DEF U, D, t
    <3>6. QED
      BY <1>1, <1>3, <1>4, <1>5, <1>7, <2>1, <2>2, <2>3, <3>5, LiveFrame
  <2>4. CASE ~k.open["server"]
    <3>1. k.q["client"] = <<>>
      BY <1>1, <1>7, <2>4, OwnConn DEF DownOK
    <3>2. DownOK(cl.pc, k.q["client"])
      BY <1>3, <3>1 DEF DownOK, NamedPcs
    <3>3. QED
      BY <1>1, <1>3, <1>4, <1>5, <1>7, <2>1, <2>2, <2>4, <3>1, <3>2, GoneFrame
  <2>5. QED
    BY <2>3, <2>4
<1>8. QED
  BY <1>6, <1>7

LEMMA RequestedName ==
  ASSUME NEW cl, cl.pc \in NamedPcs, NEW f, cl.name = f
  PROVE  Requested(cl, NameRequest(RequestType(cl.pc), f), 0)
<1> DEFINE h == Header(RequestType(cl.pc), 0, 1)
           p == Payload("name", f)
<1>1. NameRequest(RequestType(cl.pc), f) = <<h, p>>
  BY DEF NameRequest
<1>2. h.type = RequestType(cl.pc) /\ h.n = 1 /\ p = Payload("name", cl.name)
  BY HeaderFields
<1>3. RequestLen(cl.pc) = 2
  BY DEF RequestLen
<1> HIDE DEF h, p
<1>4. Len(<<h, p>>) = 0 + 2 /\ <<h, p>>[0 + 1] = h /\ <<h, p>>[0 + 2] = p
  OBVIOUS
<1>5. Requested(cl, <<h, p>>, 0)
  BY <1>2, <1>3, <1>4 DEF Requested
<1>6. QED
  BY <1>1, <1>5

LEMMA NamedCommandInv ==
  ASSUME IInv, NEW c \in Clients, NEW command, NEW pc \in NamedPcs,
         NEW f \in Names, NEW type, type = RequestType(pc), type \in Requests,
         Command(c, command, pc, f, NameRequest(type, f)), UNCHANGED serverVars, TypeInv'
  PROVE  IInv'
<1>1. \A new \in ClientStates :
        new.pc = pc /\ new.name = f => Requested(new, NameRequest(type, f), 0)
  BY RequestedName
<1>2. NameRequest(type, f) \in Seq(Messages)
  BY NameRequestType
<1>3. pc \in {"ls", "quit"} \cup NamedPcs /\ f \in Names \cup {NoArg}
  OBVIOUS
<1> DEFINE r == NameRequest(type, f)
<1> HIDE DEF r
<1>4. /\ r \in Seq(Messages) /\ Command(c, command, pc, f, r)
      /\ \A new \in ClientStates : new.pc = pc /\ new.name = f => Requested(new, r, 0)
  BY <1>1, <1>2 DEF r
<1>5. QED
  BY <1>3, <1>4, CommandInv

LEMMA CommandsInv ==
  ASSUME IInv, NEW c \in Clients, UNCHANGED serverVars, TypeInv',
         \/ ListFiles(c) \/ CloseConnection(c) \/ ChangeDirectory(c)
         \/ DownloadFiles(c) \/ Sha256(c) \/ UploadFiles(c)
  PROVE  IInv'
<1>1. ASSUME NEW type \in {"LIST_REQUEST", "QUIT_REQUEST"}
      PROVE  LET h == Header(type, 0, 0)
             IN  <<h>> \in Seq(Messages) /\ h.type = type /\ h.n = 0
  <2>1. type \in HeaderTypes /\ 0 \in Nat
    BY DEF HeaderTypes, Requests
  <2>2. Header(type, 0, 0) \in Messages
    BY <2>1, HeaderType
  <2>3. QED
    BY <2>2, HeaderFields
<1>2. CASE ListFiles(c)
  <2> DEFINE h == Header("LIST_REQUEST", 0, 0)
  <2>1. <<h>> \in Seq(Messages) /\ h.type = "LIST_REQUEST" /\ h.n = 0
    BY <1>1
  <2>2. Command(c, "ls", "ls", NoArg, <<h>>)
    BY <1>2 DEF ListFiles
  <2> HIDE DEF h
  <2>3. ASSUME NEW new \in ClientStates, new.pc = "ls"
        PROVE  Requested(new, <<h>>, 0)
    BY <2>1, <2>3, RequestedAlone DEF RequestType
  <2> DEFINE r == <<h>>
  <2>4. /\ r \in Seq(Messages) /\ Command(c, "ls", "ls", NoArg, r)
        /\ \A new \in ClientStates :
             new.pc = "ls" /\ new.name = NoArg => Requested(new, r, 0)
    BY <2>1, <2>2, <2>3
  <2> HIDE DEF r
  <2>5. QED
    BY <2>4, CommandInv
<1>3. CASE CloseConnection(c)
  <2> DEFINE h == Header("QUIT_REQUEST", 0, 0)
  <2>1. <<h>> \in Seq(Messages) /\ h.type = "QUIT_REQUEST" /\ h.n = 0
    BY <1>1
  <2>2. Command(c, "quit", "quit", NoArg, <<h>>)
    BY <1>3 DEF CloseConnection
  <2> HIDE DEF h
  <2>3. ASSUME NEW new \in ClientStates, new.pc = "quit"
        PROVE  Requested(new, <<h>>, 0)
    BY <2>1, <2>3, RequestedAlone DEF RequestType
  <2> DEFINE r == <<h>>
  <2>4. /\ r \in Seq(Messages) /\ Command(c, "quit", "quit", NoArg, r)
        /\ \A new \in ClientStates :
             new.pc = "quit" /\ new.name = NoArg => Requested(new, r, 0)
    BY <2>1, <2>2, <2>3
  <2> HIDE DEF r
  <2>5. QED
    BY <2>4, CommandInv
<1>4. /\ RequestType("cd") = "CD_REQUEST" /\ RequestType("get") = "GET_REQUEST"
      /\ RequestType("put") = "PUT_REQUEST" /\ RequestType("sha") = "SHA_REQUEST"
      /\ {"CD_REQUEST", "GET_REQUEST", "PUT_REQUEST", "SHA_REQUEST"} \subseteq Requests
      /\ {"cd", "get", "put", "sha"} \subseteq NamedPcs
  BY DEF RequestType, Requests, NamedPcs
<1>5. CASE ChangeDirectory(c)
  BY <1>4, <1>5, NamedCommandInv DEF ChangeDirectory
<1>6. CASE DownloadFiles(c)
  BY <1>4, <1>6, NamedCommandInv DEF DownloadFiles
<1>7. CASE Sha256(c)
  BY <1>4, <1>7, NamedCommandInv DEF Sha256
<1>8. CASE UploadFiles(c)
  BY <1>4, <1>8, NamedCommandInv DEF UploadFiles
<1>9. QED
  BY <1>2, <1>3, <1>5, <1>6, <1>7, <1>8

LEMMA UserInv ==
  ASSUME IInv, NEW c \in Clients, User(c)
  PROVE  IInv'
<1>1. UserStep(c) /\ UNCHANGED serverVars
  BY DEF User
<1>2. TypeInv'
  BY UserType DEF IInv
<1>3. QED
  BY <1>1, <1>2, OpenConnectionInv, EndingsInv, CommandsInv DEF UserStep

\* Live looks at the client's pc and name only.
LEMMA LiveSame ==
  ASSUME NEW cl, NEW new, new.pc = cl.pc, new.name = cl.name,
         NEW t, NEW U, NEW D, Live(cl, t, U, D)
  PROVE  Live(new, t, U, D)
<1>1. CASE D = <<>> /\ Asked(cl, t, U)
  BY <1>1 DEF Live, Asked, Requested
<1>2. CASE U = <<>> /\ Answered(cl, t, D)
  BY <1>2 DEF Live, Answered, DataDue
<1>3. QED
  BY <1>1, <1>2 DEF Live

\* A client that has sent an upload is idle.
LEMMA UploadedLive ==
  ASSUME NEW cl, cl.pc = "upload", NEW new, new.pc = "prompt",
         NEW t, NEW U, NEW D, Live(cl, t, U, D)
  PROVE  Live(new, t, U, D)
<1>1. ~Answered(cl, t, D)
  BY DEF Answered
<1>2. D = <<>> /\ Asked(cl, t, U)
  BY <1>1 DEF Live
<1>3. PICK i \in {0, 1, 2} : Uploaded(t.pc, U, i) /\ Requested(cl, U, i)
  BY <1>2 DEF Asked, NamedPcs
<1>4. Requested(new, U, i)
  BY <1>3 DEF Requested, RequestLen, NamedPcs
<1>5. QED
  BY <1>2, <1>3, <1>4 DEF Live, Asked

\* After a failed call the server's end is closed, and the client is idle.
LEMMA GiveUpInv ==
  ASSUME IInv, NEW c \in Clients, Sock(c) # Fresh, ~conn[Sock(c)].open["server"],
         NEW k \in Connections, k.used = conn[Sock(c)].used, k.open = conn[Sock(c)].open,
         k.q["server"] = conn[Sock(c)].q["server"],
         k.err["server"] = conn[Sock(c)].err["server"],
         NEW closing, client[c].pc \in closing \/ k.q["client"] = <<>>,
         GiveUp(c, k, closing), UNCHANGED disk, UNCHANGED serverVars, TypeInv'
  PROVE  IInv'
<1> DEFINE info == client[c].info /\ client[c].pc \notin {"open", "quit"}
<1>1. info \in BOOLEAN
  BY ClientFacts DEF IInv
<1>2. FilesAreMerges'
  BY SameDisk DEF IInv, serverVars
<1>3. CASE client[c].pc \in closing
  <2> DEFINE cl == Drop(c, info)
  <2>1. /\ OnConn(c, Closed(k, "client")) /\ client' = [client EXCEPT ![c] = cl]
    BY <1>3 DEF GiveUp, SetClient
  <2>2. cl \in ClientStates /\ cl.sock = Fresh /\ cl.out = <<>>
    BY <1>1, IdleType DEF IInv
  <2> HIDE DEF cl
  <2>3. RequestOK(cl)
    BY <2>2 DEF RequestOK
  <2>4. QED
    BY <1>2, <2>1, <2>2, <2>3, GoneFrame
<1>4. CASE client[c].pc \notin closing
  <2> DEFINE cl == Idle(c, info)
  <2>1. /\ OnConn(c, k) /\ client' = [client EXCEPT ![c] = cl] /\ k.q["client"] = <<>>
    BY <1>4 DEF GiveUp, SetClient
  <2>2. cl \in ClientStates /\ cl.sock = Sock(c) /\ cl.out = <<>> /\ cl.pc = "prompt"
    BY <1>1, IdleType DEF IInv
  <2> HIDE DEF cl
  <2>3. RequestOK(cl) /\ DownOK(cl.pc, k.q["client"])
    BY <2>1, <2>2 DEF RequestOK, DownOK
  <2>4. QED
    BY <1>2, <2>1, <2>2, <2>3, GoneFrame
<1>5. QED
  BY <1>3, <1>4

LEMMA ReplyLostInv ==
  ASSUME IInv, NEW c \in Clients, ReplyLost(c), UNCHANGED serverVars, TypeInv'
  PROVE  IInv'
<1> DEFINE k == conn[Sock(c)]
           z == AfterEnded(k, "client")
<1>1. /\ Waits(c) /\ Ended(k, "client") /\ GiveUp(c, z, {"open"}) /\ UNCHANGED disk
  BY DEF ReplyLost
<1>2. Sock(c) # Fresh
  BY <1>1, WaitsType, ClientAssumption DEF IInv
<1>3. k.q["client"] = <<>> /\ ~k.open["server"] /\ k \in Connections
  BY <1>1, <1>2, OwnConn, PeerOf DEF Ended
<1>4. /\ z \in Connections /\ z.used = k.used /\ z.open = k.open /\ z.q = k.q
      /\ z.err["server"] = k.err["server"]
  BY <1>3, AfterEndedType, AfterEndedFields, PeerOf
<1> HIDE DEF z
<1>5. QED
  BY <1>1, <1>2, <1>3, <1>4, GiveUpInv

\* A client that waits for nothing it has not asked for is not waiting.

LEMMA Reassociated ==
  ASSUME NEW u \in Seq(Messages), NEW v \in Seq(Messages), NEW w \in Seq(Messages)
  PROVE  (u \o v) \o w = u \o (v \o w)
BY ConcatAssociative

LEMMA ClientSendInv ==
  ASSUME IInv, NEW c \in Clients, ClientSend(c), UNCHANGED serverVars, TypeInv'
  PROVE  IInv'
<1> DEFINE k == conn[Sock(c)]
           out == client[c].out
           upload == client[c].pc = "upload"
           ms == IF upload THEN <<Head(out)>> ELSE out
           rest == IF upload THEN Tail(out) ELSE <<>>
           sent == AfterSend(k, "client", ms)
<1>1. /\ out # <<>> /\ UNCHANGED disk
      /\ CASE Sock(c) = Fresh \/ SendResult(k, "client") = "sigpipe" -> End(c, "killed")
           [] Sock(c) # Fresh /\ SendResult(k, "client") = "error" ->
                GiveUp(c, sent, {"open", "ls", "quit"})
           [] OTHER ->
                /\ OnConn(c, sent)
                /\ SetClient(c, IF upload /\ rest = <<>> THEN Idle(c, client[c].info)
                                ELSE [client[c] EXCEPT !.out = rest])
  BY DEF ClientSend
<1>2. /\ client[c] \in ClientStates /\ out \in Seq(Messages) /\ client[c].info \in BOOLEAN
      /\ Sock(c) = client[c].sock
  BY ClientFacts DEF IInv
<1>3. /\ ms \in Seq(Messages) /\ rest \in Seq(Messages) /\ ms \o rest = out
  <2>1. out \o <<>> = out
    BY <1>2, Streams
  <2>2. /\ Head(out) \in Messages /\ Tail(out) \in Seq(Messages)
        /\ <<Head(out)>> \o Tail(out) = out
    <3>1. <<>> \o out = out /\ (<<>> \o <<Head(out)>>) \o Tail(out) = <<>> \o out
      BY <1>1, <1>2, EmptyContent, Streams
    <3>2. Head(out) \in Messages /\ Tail(out) \in Seq(Messages)
      BY <1>1, <1>2, TailOf
    <3>3. <<>> \o <<Head(out)>> = <<Head(out)>>
      BY <3>2, EmptyContent, Streams
    <3>4. QED
      BY <3>1, <3>2, <3>3
  <2> HIDE DEF out
  <2>3. <<Head(out)>> \in Seq(Messages)
    BY <2>2
  <2>4. CASE upload
    BY <2>2, <2>3, <2>4
  <2>5. CASE ~upload
    BY <1>2, <2>1, <2>5, EmptyContent
  <2>6. QED
    BY <2>4, <2>5
<1>4. CASE Sock(c) = Fresh \/ SendResult(k, "client") = "sigpipe"
  <2>1. End(c, "killed")
    BY <1>1, <1>4
  <2>2. QED
    BY <1>1, <2>1, EndInv
<1> HIDE DEF ms, sent
<1>5. ASSUME Sock(c) # Fresh
      PROVE  /\ k \in Connections /\ sent \in Connections
             /\ sent.used = k.used /\ sent.open = k.open
             /\ sent.q["client"] = k.q["client"] /\ sent.err["server"] = k.err["server"]
             /\ k.err["client"] # "none" => ~k.open["server"]
             /\ ~k.open["server"] => sent.q["server"] = k.q["server"]
             /\ k.open["server"] =>
                  /\ sent.q["server"] = k.q["server"] \o ms
                  /\ sent.err["client"] = k.err["client"]
  <2>1. k \in Connections /\ (k.open["server"] => k.err["client"] = "none")
        /\ k.open["server"] \in BOOLEAN
    BY <1>5, OwnConn
  <2>2. sent = AfterSend(k, "client", ms)
    BY DEF sent
  <2> HIDE DEF k
  <2>3. SentOn(k, ms, sent)
    BY <1>3, <2>1, <2>2, ClientSends
  <2>4. QED
    BY <2>1, <2>3 DEF SentOn
<1>6. CASE Sock(c) # Fresh /\ SendResult(k, "client") = "error"
  <2>1. GiveUp(c, sent, {"open", "ls", "quit"})
    BY <1>1, <1>6
  <2>2. k.err["client"] # "none"
    BY <1>6 DEF SendResult
  <2>3. ~k.open["server"]
    BY <1>5, <1>6, <2>2
  <2>4. k.q["client"] = <<>>
    BY <1>1, <1>6, <2>3, OwnConn
  <2>5. QED
    BY <1>1, <1>5, <1>6, <2>1, <2>3, <2>4, GiveUpInv
<1>7. CASE Sock(c) # Fresh /\ SendResult(k, "client") \notin {"sigpipe", "error"}
  <2> DEFINE cl == IF upload /\ rest = <<>> THEN Idle(c, client[c].info)
                   ELSE [client[c] EXCEPT !.out = rest]
             t == session[Sock(c)]
             u == k.q["server"]
             D == k.q["client"] \o t.out
  <2>1. OnConn(c, sent) /\ client' = [client EXCEPT ![c] = cl]
    BY <1>1, <1>7 DEF SetClient
  <2>2. /\ cl \in ClientStates /\ cl.sock = Sock(c) /\ cl.out = rest
        /\ \/ cl.pc = client[c].pc /\ cl.name = client[c].name
           \/ upload /\ cl.pc = "prompt" /\ rest = <<>>
    <3>1. CASE upload /\ rest = <<>>
      <4>1. cl = Idle(c, client[c].info)
        BY <3>1
      <4> HIDE DEF cl
      <4>2. QED
        BY <1>2, <3>1, <4>1, IdleType DEF IInv
    <3>2. CASE ~(upload /\ rest = <<>>)
      <4>1. cl = [client[c] EXCEPT !.out = rest]
        BY <3>2
      <4> HIDE DEF cl, rest
      <4>2. QED
        BY <1>2, <1>3, <4>1 DEF ClientStates
    <3>3. QED
      BY <3>1, <3>2
  <2> HIDE DEF cl
  <2>3. RequestOK(cl)
    BY <2>2 DEF RequestOK
  <2>4. FilesAreMerges'
    BY <1>1, SameDisk DEF IInv, serverVars
  <2>5. CASE k.open["server"]
    <3>1. Live(client[c], t, u \o out, D)
      BY <1>7, <2>5, OwnConn
    <3>2. u \in Seq(Messages)
      BY <1>7, OwnConn
    <3> HIDE DEF u, D, t, out, rest
    <3>3. (u \o ms) \o rest = u \o out
      <4>1. (u \o ms) \o rest = u \o (ms \o rest)
        BY <1>3, <3>2, Reassociated
      <4>2. QED
        BY <1>3, <4>1
    <3> DEFINE U == u \o out
    <3> HIDE DEF U
    <3>4. Live(client[c], t, U, D)
      BY <3>1 DEF U
    <3>5. Live(cl, t, U, D)
      <4>1. CASE cl.pc = client[c].pc /\ cl.name = client[c].name
        BY <3>4, <4>1, LiveSame
      <4>2. CASE upload /\ cl.pc = "prompt"
        BY <3>4, <4>2, UploadedLive
      <4>3. QED
        BY <2>2, <4>1, <4>2
    <3>6. sent.q["server"] \o cl.out = U
      BY <1>5, <1>7, <2>2, <2>5, <3>3 DEF U, u
    <3>7. Live(cl, session[Sock(c)], sent.q["server"] \o cl.out,
               sent.q["client"] \o session[Sock(c)].out)
      BY <1>5, <1>7, <3>5, <3>6 DEF D, t
    <3>8. QED
      BY <1>5, <1>7, <2>1, <2>2, <2>3, <2>4, <2>5, <3>7, LiveFrame
  <2>6. CASE ~k.open["server"]
    <3>1. k.q["client"] = <<>> /\ DownOK(client[c].pc, k.q["client"])
      BY <1>1, <1>7, <2>6, OwnConn
    <3>2. DownOK(cl.pc, k.q["client"])
      <4>1. DownOK("prompt", <<>>)
        BY DEF DownOK
      <4>2. QED
        BY <2>2, <3>1, <4>1
    <3>3. sent.q["client"] = <<>> /\ DownOK(cl.pc, sent.q["client"])
      BY <1>5, <1>7, <3>1, <3>2
    <3>4. QED
      BY <1>5, <1>7, <2>1, <2>2, <2>3, <2>4, <2>6, <3>3, GoneFrame
  <2>7. QED
    BY <1>5, <1>7, <2>5, <2>6
<1>8. QED
  BY <1>4, <1>6, <1>7

\* A waiting client's reply is the first message of what it expects.
LEMMA ReplyArrives ==
  ASSUME IInv, NEW c \in Clients, NEW pc, Replied(c, pc)
  PROVE  LET k == conn[Sock(c)]
             t == session[Sock(c)]
             q == k.q["client"]
             D == q \o t.out
         IN  /\ Sock(c) # Fresh /\ client[c].out = <<>> /\ client[c].pc = pc
             /\ k \in Connections /\ t \in Sessions /\ HasData(k, "client")
             /\ q \in Seq(Messages) /\ q # <<>> /\ q[1] = Reply(c) /\ Reply(c) \in Messages
             /\ k.open["server"] \in BOOLEAN
             /\ k.open["server"] =>
                  /\ k.q["server"] = <<>> /\ Answered(client[c], t, D)
                  /\ D \in Seq(Messages) /\ D # <<>> /\ D[1] = Reply(c)
                  /\ Tail(D) = Tail(q) \o t.out
             /\ ~k.open["server"] => DownOK(pc, q)
<1> DEFINE k == conn[Sock(c)]
           t == session[Sock(c)]
           q == k.q["client"]
           D == q \o t.out
<1>1. /\ Waits(c) /\ client[c].pc = pc /\ HasData(k, "client") /\ client[c].out = <<>>
      /\ q # <<>> /\ Reply(c) = Head(q) /\ Reply(c) \in Messages
  BY WaitsType DEF Replied, IInv, HasData, Reply, First
<1>2. Sock(c) # Fresh
  BY <1>1, WaitsType, ClientAssumption DEF IInv
<1>3. /\ k \in Connections /\ t \in Sessions /\ q \in Seq(Messages)
      /\ t.out \in Seq(Messages) /\ k.open["server"] \in BOOLEAN
      /\ k.q["server"] \in Seq(Messages)
      /\ ~k.open["server"] => DownOK(pc, q)
  BY <1>1, <1>2, OwnConn
<1>4. q[1] = Reply(c)
  BY <1>1, <1>3, TailOf
<1>5. D \in Seq(Messages) /\ D # <<>> /\ D[1] = Reply(c) /\ Tail(D) = Tail(q) \o t.out
  <2> DEFINE v == t.out
  <2>1. q \in Seq(Messages) /\ q # <<>> /\ v \in Seq(Messages) /\ Reply(c) = Head(q)
    BY <1>1, <1>3
  <2> HIDE DEF q, v
  <2>2. /\ q \o v \in Seq(Messages) /\ q \o v # <<>>
        /\ Head(q) = (q \o v)[1] /\ Tail(q) \o v = Tail(q \o v)
    BY <2>1, FirstOf
  <2>3. QED
    BY <2>1, <2>2 DEF v
<1>6. ASSUME k.open["server"]
      PROVE  k.q["server"] = <<>> /\ Answered(client[c], t, D)
  <2>1. Live(client[c], t, k.q["server"] \o <<>>, D)
    BY <1>1, <1>2, <1>6, OwnConn
  <2>2. k.q["server"] \o <<>> = k.q["server"]
    BY <1>3
  <2> HIDE DEF D, t
  <2>3. QED
    BY <1>5, <2>1, <2>2 DEF Live
<1>7. QED
  BY <1>1, <1>2, <1>3, <1>4, <1>5, <1>6

\* A client takes a reply and goes on.
LEMMA ReplyFrame ==
  ASSUME IInv, NEW c \in Clients, NEW pc, Replied(c, pc), TakeReply(c),
         NEW cl \in ClientStates, cl.sock = Sock(c), client' = [client EXCEPT ![c] = cl],
         UNCHANGED serverVars, TypeInv', FilesAreMerges', RequestOK(cl),
         \A t \in Sessions, D \in Seq(Messages) :
           D # <<>> /\ D[1] = Reply(c) /\ Answered(client[c], t, D)
             => Live(cl, t, cl.out, Tail(D)),
         \A q \in Seq(Messages) :
           q # <<>> /\ q[1] = Reply(c) /\ DownOK(pc, q)
             => DownOK(cl.pc, Tail(q)) /\ (cl.out # <<>> => Tail(q) = <<>>)
  PROVE  IInv'
<1> DEFINE k == conn[Sock(c)]
           z == AfterRecv(k, "client")
           t == session[Sock(c)]
           q == k.q["client"]
           D == q \o t.out
<1>1. /\ Sock(c) # Fresh /\ client[c].out = <<>> /\ k \in Connections /\ t \in Sessions
      /\ HasData(k, "client") /\ q \in Seq(Messages) /\ q # <<>> /\ q[1] = Reply(c)
      /\ k.open["server"] \in BOOLEAN
  BY ReplyArrives
<1>2. /\ z \in Connections /\ z.used = k.used /\ z.open = k.open /\ z.err = k.err
      /\ z.q["client"] = Tail(q) /\ z.q["server"] = k.q["server"]
  BY <1>1, ClientReceives
<1>3. OnConn(c, z)
  BY DEF TakeReply
<1> HIDE DEF z
<1>4. CASE k.open["server"]
  <2>1. /\ k.q["server"] = <<>> /\ Answered(client[c], t, D)
        /\ D \in Seq(Messages) /\ D # <<>> /\ D[1] = Reply(c) /\ Tail(D) = Tail(q) \o t.out
    BY <1>4, ReplyArrives
  <2>2. Live(cl, t, cl.out, Tail(q) \o t.out)
    <3> HIDE DEF D, t
    <3>1. Live(cl, t, cl.out, Tail(D))
      BY <1>1, <2>1
    <3>2. QED
      BY <2>1, <3>1
  <2>3. <<>> \o cl.out = cl.out
    BY DEF ClientStates
  <2>4. Live(cl, t, z.q["server"] \o cl.out, z.q["client"] \o t.out)
    BY <1>2, <2>1, <2>2, <2>3
  <2>5. QED
    BY <1>1, <1>2, <1>3, <1>4, <2>4, LiveFrame
<1>5. CASE ~k.open["server"]
  <2>1. DownOK(pc, q)
    BY <1>5, ReplyArrives
  <2>2. DownOK(cl.pc, z.q["client"]) /\ (cl.out # <<>> => z.q["client"] = <<>>)
    BY <1>1, <1>2, <2>1
  <2>3. QED
    BY <1>1, <1>2, <1>3, <1>5, <2>2, GoneFrame
<1>6. QED
  BY <1>1, <1>4, <1>5

\* A client at its prompt.
LEMMA IdleLive ==
  ASSUME NEW cl, cl.pc = "prompt", NEW t, t.pc = "request"
  PROVE  Live(cl, t, <<>>, <<>>)
<1>1. Requested(cl, <<>>, 0)
  BY DEF Requested, RequestLen, NamedPcs
<1>2. Uploaded(t.pc, <<>>, 0)
  BY DEF Uploaded
<1>3. QED
  BY <1>1, <1>2 DEF Live, Asked

LEMMA DoneClient ==
  ASSUME IInv, NEW c \in Clients, NEW info \in BOOLEAN, NEW cl, cl = Idle(c, info)
  PROVE  /\ cl \in ClientStates /\ cl.sock = Sock(c) /\ cl.out = <<>> /\ cl.pc = "prompt"
         /\ RequestOK(cl)
         /\ \A t : t.pc = "request" => Live(cl, t, cl.out, <<>>)
         /\ DownOK(cl.pc, <<>>)
<1>1. cl \in ClientStates /\ cl.sock = Sock(c) /\ cl.out = <<>> /\ cl.pc = "prompt"
  BY IdleType DEF IInv
<1>2. RequestOK(cl)
  BY <1>1 DEF RequestOK
<1>3. DownOK(cl.pc, <<>>)
  BY <1>1 DEF DownOK
<1>4. QED
  BY <1>1, <1>2, <1>3, IdleLive

\* A client that waits for the next message of a reply.
LEMMA AwaitClient ==
  ASSUME IInv, NEW c \in Clients, Waits(c),
         NEW pc \in {"getdata", "getbody", "shadata", "shabody"},
         NEW cl, cl = [client[c] EXCEPT !.pc = pc]
  PROVE  /\ cl \in ClientStates /\ cl.sock = Sock(c) /\ cl.out = <<>> /\ cl.pc = pc
         /\ cl.name = client[c].name /\ RequestOK(cl)
<1>1. client[c] \in ClientStates /\ client[c].out = <<>> /\ Sock(c) = client[c].sock
  BY ClientFacts DEF IInv, Waits
<1>2. pc \in ClientPcs
  BY DEF ClientPcs
<1>3. /\ cl \in ClientStates /\ cl.sock = Sock(c) /\ cl.out = <<>> /\ cl.pc = pc
      /\ cl.name = client[c].name
  BY <1>1, <1>2 DEF ClientStates
<1>4. QED
  BY <1>3 DEF RequestOK

LEMMA OpenReplies ==
  ASSUME NEW m, m = Header("OPEN_CONN_REPLY", 1, 0)
  PROVE  StatusIn(m) = {1}
BY HeaderFields DEF StatusIn, IsHeader, HeaderTypes

LEMMA RecvOpenReplyInv ==
  ASSUME IInv, NEW c \in Clients, RecvOpenReply(c), UNCHANGED serverVars, TypeInv'
  PROVE  IInv'
<1>1. Replied(c, "open") /\ UNCHANGED disk
  BY DEF RecvOpenReply
<1>2. client[c].pc = "open"
  BY <1>1 DEF Replied
<1>3. Reply(c) = Header("OPEN_CONN_REPLY", 1, 0)
  <2> DEFINE q == conn[Sock(c)].q["client"]
             D == q \o session[Sock(c)].out
  <2>1. /\ q \in Seq(Messages) /\ q # <<>> /\ q[1] = Reply(c)
        /\ \/ D[1] = Reply(c) /\ Answered(client[c], session[Sock(c)], D)
           \/ DownOK("open", q)
    BY <1>1, ReplyArrives
  <2> HIDE DEF D, q
  <2>2. CASE D[1] = Reply(c) /\ Answered(client[c], session[Sock(c)], D)
    BY <1>2, <2>2 DEF Answered, IsReply
  <2>3. CASE DownOK("open", q)
    <3>1. Len(q) > 0
      BY <2>1, LenZero
    <3>2. QED
      BY <2>1, <2>3, <3>1 DEF DownOK, IsReply
  <2>4. QED
    BY <2>1, <2>2, <2>3
<1>4. StatusIn(Reply(c)) = {1}
  BY <1>3, OpenReplies
<1> DEFINE cl == Idle(c, TRUE)
<1>5. TakeReply(c) /\ client' = [client EXCEPT ![c] = cl]
  BY <1>4 DEF RecvOpenReply, TakeReply, SetClient
<1>6. /\ cl \in ClientStates /\ cl.sock = Sock(c) /\ cl.out = <<>> /\ cl.pc = "prompt"
      /\ RequestOK(cl) /\ (\A t : t.pc = "request" => Live(cl, t, cl.out, <<>>))
      /\ DownOK(cl.pc, <<>>)
  BY DoneClient
<1> HIDE DEF cl
<1>7. \A t \in Sessions, D \in Seq(Messages) :
        D # <<>> /\ D[1] = Reply(c) /\ Answered(client[c], t, D)
          => Live(cl, t, cl.out, Tail(D))
  <2>1. ASSUME NEW t \in Sessions, NEW D \in Seq(Messages), D # <<>>,
               Answered(client[c], t, D)
        PROVE  Live(cl, t, cl.out, Tail(D))
    <3>1. t.pc = "request" /\ Len(D) = 1
      BY <1>2, <2>1 DEF Answered
    <3>2. Tail(D) = <<>>
      BY <2>1, <3>1, TailOf
    <3>3. QED
      BY <1>6, <3>1, <3>2
  <2>2. QED
    BY <2>1
<1>8. \A q \in Seq(Messages) :
        q # <<>> /\ q[1] = Reply(c) /\ DownOK("open", q)
          => DownOK(cl.pc, Tail(q)) /\ (cl.out # <<>> => Tail(q) = <<>>)
  BY <1>6, OneLeft DEF DownOK
<1>9. FilesAreMerges'
  BY <1>1, SameDisk DEF IInv, serverVars
<1>10. QED
  BY <1>1, <1>5, <1>6, <1>7, <1>8, <1>9, ReplyFrame

\* The last reply to a command: where one message and no more is awaited.
LEMMA LastReplyInv ==
  ASSUME IInv, NEW c \in Clients, NEW pc \in {"cd", "shabody"}, Replied(c, pc),
         TakeReply(c), Done(c), UNCHANGED disk, UNCHANGED serverVars, TypeInv'
  PROVE  IInv'
<1> DEFINE cl == Idle(c, client[c].info)
<1>1. client[c].pc = pc /\ client' = [client EXCEPT ![c] = cl]
  BY DEF Replied, Done, SetClient
<1>2. /\ cl \in ClientStates /\ cl.sock = Sock(c) /\ cl.out = <<>> /\ cl.pc = "prompt"
      /\ RequestOK(cl) /\ (\A t : t.pc = "request" => Live(cl, t, cl.out, <<>>))
      /\ DownOK(cl.pc, <<>>)
  <2>1. client[c].info \in BOOLEAN
    BY ClientFacts DEF IInv
  <2>2. QED
    BY <2>1, DoneClient
<1> HIDE DEF cl
<1>3. \A t \in Sessions, D \in Seq(Messages) :
        D # <<>> /\ D[1] = Reply(c) /\ Answered(client[c], t, D)
          => Live(cl, t, cl.out, Tail(D))
  <2>1. ASSUME NEW t \in Sessions, NEW D \in Seq(Messages), D # <<>>,
               Answered(client[c], t, D)
        PROVE  Live(cl, t, cl.out, Tail(D))
    <3>1. t.pc = "request" /\ Len(D) = 1
      BY <1>1, <2>1 DEF Answered
    <3>2. Tail(D) = <<>>
      BY <2>1, <3>1, TailOf
    <3>3. QED
      BY <1>2, <3>1, <3>2
  <2>2. QED
    BY <2>1
<1>4. \A q \in Seq(Messages) :
        q # <<>> /\ q[1] = Reply(c) /\ DownOK(pc, q)
          => DownOK(cl.pc, Tail(q)) /\ (cl.out # <<>> => Tail(q) = <<>>)
  BY <1>2, OneLeft DEF DownOK
<1>5. FilesAreMerges'
  BY SameDisk DEF IInv, serverVars
<1>6. QED
  BY <1>1, <1>2, <1>3, <1>4, <1>5, ReplyFrame

LEMMA RecvListReplyInv ==
  ASSUME Quiet, IInv, NEW c \in Clients, RecvListReply(c), UNCHANGED serverVars, TypeInv'
  PROVE  IInv'
<1> DEFINE k == conn[Sock(c)]
           t == session[Sock(c)]
           q == k.q["client"]
           D == q \o t.out
           cl == Idle(c, client[c].info)
<1>1. Replied(c, "ls") /\ Done(c) /\ UNCHANGED disk /\ client[c].pc = "ls"
  BY DEF RecvListReply, Replied
<1>2. /\ Sock(c) # Fresh /\ k \in Connections /\ t \in Sessions
      /\ q \in Seq(Messages) /\ q # <<>> /\ k.open["server"] \in BOOLEAN
      /\ k.open["server"] =>
           /\ k.q["server"] = <<>> /\ Answered(client[c], t, D)
           /\ D \in Seq(Messages) /\ D # <<>> /\ Tail(D) = Tail(q) \o t.out
  BY <1>1, ReplyArrives
<1>3. PICK n \in ListTaken(k) :
        OnConn(c, [k EXCEPT !.q["client"] = SubSeq(@, n + 1, Len(@))])
  BY DEF RecvListReply
<1>4. n = Len(q) /\ (n > 1 \/ ~k.open["server"])
  BY <1>3 DEF ListTaken, Quiet
<1> DEFINE z == [k EXCEPT !.q["client"] = SubSeq(@, n + 1, Len(@))]
<1>5. /\ z \in Connections /\ z.used = k.used /\ z.open = k.open /\ z.err = k.err
      /\ z.q["client"] = <<>> /\ z.q["server"] = k.q["server"]
  <2>1. SubSeq(q, n + 1, Len(q)) = <<>>
    BY <1>2, <1>4
  <2>2. z = [k EXCEPT !.q = [k.q EXCEPT !["client"] = <<>>]]
    BY <1>2, <2>1 DEF Connections
  <2>3. <<>> \in Seq(Messages)
    BY EmptyContent
  <2> HIDE DEF z
  <2>4. QED
    BY <1>2, <2>2, <2>3 DEF Connections, Ends
<1>6. OnConn(c, z)
  BY <1>3
<1>7. /\ cl \in ClientStates /\ cl.sock = Sock(c) /\ cl.out = <<>> /\ cl.pc = "prompt"
      /\ RequestOK(cl) /\ (\A u : u.pc = "request" => Live(cl, u, cl.out, <<>>))
      /\ DownOK(cl.pc, <<>>)
  <2>1. client[c].info \in BOOLEAN
    BY ClientFacts DEF IInv
  <2>2. QED
    BY <2>1, DoneClient
<1>8. client' = [client EXCEPT ![c] = cl]
  BY <1>1 DEF Done, SetClient
<1>9. FilesAreMerges'
  BY <1>1, SameDisk DEF IInv, serverVars
<1> HIDE DEF z, cl
<1>10. CASE k.open["server"]
  <2>1. Len(D) = 2 /\ t.pc = "request"
    BY <1>1, <1>2, <1>10 DEF Answered
  <2>2. t.out \in Seq(Messages) /\ Len(q) > 1
    BY <1>2, <1>4, <1>10 DEF Sessions
  <2>3. Len(D) = Len(q) + Len(t.out)
    <3>1. q \in Seq(Messages)
      BY <1>2
    <3> HIDE DEF q, t
    <3>2. QED
      BY <2>2, <3>1, Streams DEF D
  <2>4. Len(t.out) = 0
    <3>1. Len(q) \in Nat /\ Len(t.out) \in Nat
      BY <1>2, <2>2
    <3>2. Len(q) + Len(t.out) = 2 /\ Len(q) > 1
      BY <2>1, <2>2, <2>3
    <3>3. \A a, b \in Nat : a + b = 2 /\ a > 1 => b = 0
      OBVIOUS
    <3> HIDE DEF q, t, D
    <3>4. QED
      BY <3>1, <3>2, <3>3
  <2>5. t.out = <<>>
    BY <2>2, <2>4, LenZero
  <2>6. z.q["server"] \o cl.out = <<>> /\ z.q["client"] \o t.out = <<>>
    BY <1>2, <1>5, <1>7, <1>10, <2>5
  <2>7. Live(cl, t, z.q["server"] \o cl.out, z.q["client"] \o t.out)
    BY <1>7, <2>1, <2>6
  <2>8. QED
    BY <1>2, <1>5, <1>6, <1>7, <1>8, <1>9, <1>10, <2>7, LiveFrame
<1>11. CASE ~k.open["server"]
  BY <1>2, <1>5, <1>6, <1>7, <1>8, <1>9, <1>11, GoneFrame
<1>12. QED
  BY <1>2, <1>10, <1>11

\* The rest of a reply, without its first message.
LEMMA DueTail ==
  ASSUME NEW cl, NEW new, new.name = cl.name, NEW t, NEW D \in Seq(Messages), D # <<>>
  PROVE  /\ DataDue(cl, t, D, 1) => DataDue(new, t, Tail(D), 0)
         /\ SumDue(t, D, 1) => SumDue(t, Tail(D), 0)
<1>1. /\ Len(Tail(D)) = Len(D) - 1
      /\ Len(D) > 1 => Tail(D)[1] = D[2]
      /\ Len(D) > 2 => Tail(D)[2] = D[3]
  BY TailOf
<1>2. Len(D) \in Nat
  OBVIOUS
<1> DEFINE E == Tail(D)
<1> HIDE DEF E
<1>3. DataDue(cl, t, D, 1) => DataDue(new, t, E, 0)
  BY <1>1, <1>2 DEF DataDue, E
<1>4. SumDue(t, D, 1) => SumDue(t, E, 0)
  BY <1>1, <1>2 DEF SumDue, E
<1>5. QED
  BY <1>3, <1>4 DEF E

LEMMA LeftTail ==
  ASSUME NEW q \in Seq(Messages), q # <<>>
  PROVE  /\ DataLeft(q, 1) => DataLeft(Tail(q), 0)
         /\ SumLeft(q, 1) => SumLeft(Tail(q), 0)
<1>1. /\ Len(Tail(q)) = Len(q) - 1
      /\ Len(q) > 1 => Tail(q)[1] = q[2]
      /\ Len(q) > 2 => Tail(q)[2] = q[3]
  BY TailOf
<1>2. Len(q) \in Nat
  OBVIOUS
<1> DEFINE E == Tail(q)
<1> HIDE DEF E
<1>3. DataLeft(q, 1) => DataLeft(E, 0)
  BY <1>1, <1>2 DEF DataLeft, E
<1>4. SumLeft(q, 1) => SumLeft(E, 0)
  BY <1>1, <1>2 DEF SumLeft, E
<1>5. QED
  BY <1>3, <1>4 DEF E

\* The status in the reply to a get or a sha256.
LEMMA Statuses ==
  ASSUME NEW type \in {"GET_REPLY", "SHA_REPLY"}, NEW st \in {0, 1},
         NEW D, IsReply(D, type, st)
  PROVE  StatusIn(D[1]) = {st}
<1>1. D[1] = Header(type, st, 0)
  BY DEF IsReply
<1>2. IsHeader(Header(type, st, 0))
  BY HeaderFields DEF IsHeader, HeaderTypes, Replies
<1>3. QED
  BY <1>1, <1>2, HeaderFields DEF StatusIn

LEMMA StatusTold ==
  ASSUME NEW m, NEW st \in StatusIn(m), NEW D, D[1] = m
  PROVE  /\ st = 0 => ~IsReply(D, "GET_REPLY", 1) /\ ~IsReply(D, "SHA_REPLY", 1)
         /\ st # 0 => ~IsReply(D, "GET_REPLY", 0) /\ ~IsReply(D, "SHA_REPLY", 0)
<1>1. ASSUME NEW type \in {"GET_REPLY", "SHA_REPLY"}, NEW v \in {0, 1}, IsReply(D, type, v)
      PROVE  st = v
  BY <1>1, Statuses
<1>2. QED
  BY <1>1

LEMMA RecvGetReplyInv ==
  ASSUME IInv, NEW c \in Clients, RecvGetReply(c), UNCHANGED serverVars, TypeInv'
  PROVE  IInv'
<1>1. Replied(c, "get") /\ TakeReply(c) /\ UNCHANGED disk /\ client[c].pc = "get"
  BY DEF RecvGetReply, Replied
<1>2. PICK st \in StatusIn(Reply(c)) : IF st = 0 THEN Done(c) ELSE Await(c, "getdata")
  BY DEF RecvGetReply
<1>3. FilesAreMerges'
  BY <1>1, SameDisk DEF IInv, serverVars
<1>4. CASE st = 0
  <2> DEFINE cl == Idle(c, client[c].info)
  <2>1. client' = [client EXCEPT ![c] = cl]
    BY <1>2, <1>4 DEF Done, SetClient
  <2>2. /\ cl \in ClientStates /\ cl.sock = Sock(c) /\ cl.out = <<>> /\ cl.pc = "prompt"
        /\ RequestOK(cl) /\ (\A t : t.pc = "request" => Live(cl, t, cl.out, <<>>))
        /\ DownOK(cl.pc, <<>>)
    <3>1. client[c].info \in BOOLEAN
      BY ClientFacts DEF IInv
    <3>2. QED
      BY <3>1, DoneClient
  <2> HIDE DEF cl
  <2>3. ASSUME NEW t \in Sessions, NEW D \in Seq(Messages), D # <<>>, D[1] = Reply(c),
               Answered(client[c], t, D)
        PROVE  Live(cl, t, cl.out, Tail(D))
    <3>1. ~IsReply(D, "GET_REPLY", 1)
      BY <1>2, <1>4, <2>3, StatusTold
    <3>2. t.pc = "request" /\ Len(D) = 1
      BY <1>1, <2>3, <3>1 DEF Answered
    <3>3. Tail(D) = <<>>
      BY <2>3, <3>2, TailOf
    <3>4. QED
      BY <2>2, <3>2, <3>3
  <2>4. ASSUME NEW q \in Seq(Messages), q # <<>>, q[1] = Reply(c), DownOK("get", q)
        PROVE  DownOK(cl.pc, Tail(q))
    <3>1. ~IsReply(q, "GET_REPLY", 1)
      BY <1>2, <1>4, <2>4, StatusTold
    <3>2. Len(q) = 1
      BY <2>4, <3>1, LenZero DEF DownOK
    <3>3. Tail(q) = <<>>
      BY <2>4, <3>2, TailOf
    <3>4. QED
      BY <2>2, <3>3
  <2>5. /\ \A t \in Sessions, D \in Seq(Messages) :
             D # <<>> /\ D[1] = Reply(c) /\ Answered(client[c], t, D)
               => Live(cl, t, cl.out, Tail(D))
        /\ \A q \in Seq(Messages) :
             q # <<>> /\ q[1] = Reply(c) /\ DownOK("get", q)
               => DownOK(cl.pc, Tail(q)) /\ (cl.out # <<>> => Tail(q) = <<>>)
    BY <2>2, <2>3, <2>4
  <2>6. QED
    BY <1>1, <1>3, <2>1, <2>2, <2>5, ReplyFrame
<1>5. CASE st # 0
  <2> DEFINE cl == [client[c] EXCEPT !.pc = "getdata"]
  <2>1. client' = [client EXCEPT ![c] = cl]
    BY <1>2, <1>5 DEF Await, SetClient
  <2>2. /\ cl \in ClientStates /\ cl.sock = Sock(c) /\ cl.out = <<>> /\ cl.pc = "getdata"
        /\ cl.name = client[c].name /\ RequestOK(cl)
    <3>1. cl = [client[c] EXCEPT !.pc = "getdata"] /\ Waits(c)
      BY <1>1 DEF Replied
    <3> HIDE DEF cl
    <3>2. QED
      BY <3>1, AwaitClient
  <2> HIDE DEF cl
  <2>3. ASSUME NEW t \in Sessions, NEW D \in Seq(Messages), D # <<>>, D[1] = Reply(c),
               Answered(client[c], t, D)
        PROVE  Live(cl, t, cl.out, Tail(D))
    <3>1. ~IsReply(D, "GET_REPLY", 0)
      BY <1>2, <1>5, <2>3, StatusTold
    <3>2. DataDue(client[c], t, D, 1)
      BY <1>1, <2>3, <3>1 DEF Answered
    <3>3. DataDue(cl, t, Tail(D), 0)
      BY <2>2, <2>3, <3>2, DueTail
    <3>4. QED
      BY <2>2, <3>3 DEF Live, Answered
  <2>4. ASSUME NEW q \in Seq(Messages), q # <<>>, q[1] = Reply(c), DownOK("get", q)
        PROVE  DownOK(cl.pc, Tail(q))
    <3>1. ~IsReply(q, "GET_REPLY", 0)
      BY <1>2, <1>5, <2>4, StatusTold
    <3>2. DataLeft(q, 1)
      BY <2>4, <3>1, LenZero DEF DownOK
    <3>3. DataLeft(Tail(q), 0)
      BY <2>4, <3>2, LeftTail
    <3>4. QED
      BY <2>2, <3>3 DEF DownOK
  <2>5. /\ \A t \in Sessions, D \in Seq(Messages) :
             D # <<>> /\ D[1] = Reply(c) /\ Answered(client[c], t, D)
               => Live(cl, t, cl.out, Tail(D))
        /\ \A q \in Seq(Messages) :
             q # <<>> /\ q[1] = Reply(c) /\ DownOK("get", q)
               => DownOK(cl.pc, Tail(q)) /\ (cl.out # <<>> => Tail(q) = <<>>)
    BY <2>2, <2>3, <2>4
  <2>6. QED
    BY <1>1, <1>3, <2>1, <2>2, <2>5, ReplyFrame
<1>6. QED
  BY <1>4, <1>5

LEMMA RecvShaReplyInv ==
  ASSUME IInv, NEW c \in Clients, RecvShaReply(c), UNCHANGED serverVars, TypeInv'
  PROVE  IInv'
<1>1. Replied(c, "sha") /\ TakeReply(c) /\ UNCHANGED disk /\ client[c].pc = "sha"
  BY DEF RecvShaReply, Replied
<1>2. PICK st \in StatusIn(Reply(c)) : IF st = 0 THEN Done(c) ELSE Await(c, "shadata")
  BY DEF RecvShaReply
<1>3. FilesAreMerges'
  BY <1>1, SameDisk DEF IInv, serverVars
<1>4. CASE st = 0
  <2> DEFINE cl == Idle(c, client[c].info)
  <2>1. client' = [client EXCEPT ![c] = cl]
    BY <1>2, <1>4 DEF Done, SetClient
  <2>2. /\ cl \in ClientStates /\ cl.sock = Sock(c) /\ cl.out = <<>> /\ cl.pc = "prompt"
        /\ RequestOK(cl) /\ (\A t : t.pc = "request" => Live(cl, t, cl.out, <<>>))
        /\ DownOK(cl.pc, <<>>)
    <3>1. client[c].info \in BOOLEAN
      BY ClientFacts DEF IInv
    <3>2. QED
      BY <3>1, DoneClient
  <2> HIDE DEF cl
  <2>3. ASSUME NEW t \in Sessions, NEW D \in Seq(Messages), D # <<>>, D[1] = Reply(c),
               Answered(client[c], t, D)
        PROVE  Live(cl, t, cl.out, Tail(D))
    <3>1. ~IsReply(D, "SHA_REPLY", 1)
      BY <1>2, <1>4, <2>3, StatusTold
    <3>2. t.pc = "request" /\ Len(D) = 1
      BY <1>1, <2>3, <3>1 DEF Answered
    <3>3. Tail(D) = <<>>
      BY <2>3, <3>2, TailOf
    <3>4. QED
      BY <2>2, <3>2, <3>3
  <2>4. ASSUME NEW q \in Seq(Messages), q # <<>>, q[1] = Reply(c), DownOK("sha", q)
        PROVE  DownOK(cl.pc, Tail(q))
    <3>1. ~IsReply(q, "SHA_REPLY", 1)
      BY <1>2, <1>4, <2>4, StatusTold
    <3>2. Len(q) = 1
      BY <2>4, <3>1, LenZero DEF DownOK
    <3>3. Tail(q) = <<>>
      BY <2>4, <3>2, TailOf
    <3>4. QED
      BY <2>2, <3>3
  <2>5. /\ \A t \in Sessions, D \in Seq(Messages) :
             D # <<>> /\ D[1] = Reply(c) /\ Answered(client[c], t, D)
               => Live(cl, t, cl.out, Tail(D))
        /\ \A q \in Seq(Messages) :
             q # <<>> /\ q[1] = Reply(c) /\ DownOK("sha", q)
               => DownOK(cl.pc, Tail(q)) /\ (cl.out # <<>> => Tail(q) = <<>>)
    BY <2>2, <2>3, <2>4
  <2>6. QED
    BY <1>1, <1>3, <2>1, <2>2, <2>5, ReplyFrame
<1>5. CASE st # 0
  <2> DEFINE cl == [client[c] EXCEPT !.pc = "shadata"]
  <2>1. client' = [client EXCEPT ![c] = cl]
    BY <1>2, <1>5 DEF Await, SetClient
  <2>2. /\ cl \in ClientStates /\ cl.sock = Sock(c) /\ cl.out = <<>> /\ cl.pc = "shadata"
        /\ cl.name = client[c].name /\ RequestOK(cl)
    <3>1. cl = [client[c] EXCEPT !.pc = "shadata"] /\ Waits(c)
      BY <1>1 DEF Replied
    <3> HIDE DEF cl
    <3>2. QED
      BY <3>1, AwaitClient
  <2> HIDE DEF cl
  <2>3. ASSUME NEW t \in Sessions, NEW D \in Seq(Messages), D # <<>>, D[1] = Reply(c),
               Answered(client[c], t, D)
        PROVE  Live(cl, t, cl.out, Tail(D))
    <3>1. ~IsReply(D, "SHA_REPLY", 0)
      BY <1>2, <1>5, <2>3, StatusTold
    <3>2. SumDue(t, D, 1)
      BY <1>1, <2>3, <3>1 DEF Answered
    <3>3. SumDue(t, Tail(D), 0)
      BY <2>2, <2>3, <3>2, DueTail
    <3>4. QED
      BY <2>2, <3>3 DEF Live, Answered
  <2>4. ASSUME NEW q \in Seq(Messages), q # <<>>, q[1] = Reply(c), DownOK("sha", q)
        PROVE  DownOK(cl.pc, Tail(q))
    <3>1. ~IsReply(q, "SHA_REPLY", 0)
      BY <1>2, <1>5, <2>4, StatusTold
    <3>2. SumLeft(q, 1)
      BY <2>4, <3>1, LenZero DEF DownOK
    <3>3. SumLeft(Tail(q), 0)
      BY <2>4, <3>2, LeftTail
    <3>4. QED
      BY <2>2, <3>3 DEF DownOK
  <2>5. /\ \A t \in Sessions, D \in Seq(Messages) :
             D # <<>> /\ D[1] = Reply(c) /\ Answered(client[c], t, D)
               => Live(cl, t, cl.out, Tail(D))
        /\ \A q \in Seq(Messages) :
             q # <<>> /\ q[1] = Reply(c) /\ DownOK("sha", q)
               => DownOK(cl.pc, Tail(q)) /\ (cl.out # <<>> => Tail(q) = <<>>)
    BY <2>2, <2>3, <2>4
  <2>6. QED
    BY <1>1, <1>3, <2>1, <2>2, <2>5, ReplyFrame
<1>6. QED
  BY <1>4, <1>5

\* The second message of a stream, when the first has been taken.
LEMMA SecondLeft ==
  ASSUME NEW q \in Seq(Messages), q # <<>>
  PROVE  /\ Tail(q) \in Seq(Messages)
         /\ Len(q) = 2 => Len(Tail(q)) = 1 /\ Tail(q)[1] = q[2]
         /\ Len(q) <= 2 => Len(Tail(q)) <= 1
         /\ Len(q) <= 2 /\ Len(Tail(q)) > 0 => Len(q) = 2 /\ Tail(q)[1] = q[2]
<1>1. /\ Tail(q) \in Seq(Messages) /\ Len(Tail(q)) = Len(q) - 1
      /\ Len(q) > 1 => Tail(q)[1] = q[2]
  BY TailOf
<1>2. Len(q) \in Nat
  OBVIOUS
<1> DEFINE E == Tail(q)
           n == Len(q)
<1> HIDE DEF E, n
<1>3. /\ E \in Seq(Messages) /\ Len(E) = n - 1 /\ n \in Nat
      /\ n > 1 => E[1] = q[2]
  BY <1>1, <1>2 DEF E, n
<1>4. /\ n = 2 => Len(E) = 1 /\ E[1] = q[2]
      /\ n <= 2 => Len(E) <= 1
      /\ n <= 2 /\ Len(E) > 0 => n = 2 /\ E[1] = q[2]
  BY <1>3
<1>5. QED
  BY <1>3, <1>4 DEF E, n

LEMMA RecvShaDataInv ==
  ASSUME IInv, NEW c \in Clients, RecvShaData(c), UNCHANGED serverVars, TypeInv'
  PROVE  IInv'
<1>1. /\ Replied(c, "shadata") /\ TakeReply(c) /\ Await(c, "shabody") /\ UNCHANGED disk
      /\ client[c].pc = "shadata"
  BY DEF RecvShaData, Replied
<1> DEFINE cl == [client[c] EXCEPT !.pc = "shabody"]
<1>2. client' = [client EXCEPT ![c] = cl]
  BY <1>1 DEF Await, SetClient
<1>3. /\ cl \in ClientStates /\ cl.sock = Sock(c) /\ cl.out = <<>> /\ cl.pc = "shabody"
      /\ RequestOK(cl)
  <2>1. cl = [client[c] EXCEPT !.pc = "shabody"] /\ Waits(c)
    BY <1>1 DEF Replied
  <2> HIDE DEF cl
  <2>2. QED
    BY <2>1, AwaitClient
<1> HIDE DEF cl
<1>4. ASSUME NEW t \in Sessions, NEW D \in Seq(Messages), D # <<>>,
             Answered(client[c], t, D)
      PROVE  Live(cl, t, cl.out, Tail(D))
  <2>1. SumDue(t, D, 0)
    BY <1>1, <1>4 DEF Answered
  <2>2. Len(D) # 0
    BY <1>4, LenZero
  <2>3. t.pc = "request" /\ Len(D) = 2 /\ D[2].type = "digest"
    BY <2>1, <2>2 DEF SumDue
  <2>4. Len(Tail(D)) = 1 /\ Tail(D)[1].type = "digest"
    BY <1>4, <2>3, SecondLeft
  <2>5. QED
    BY <1>3, <2>3, <2>4 DEF Live, Answered
<1>5. ASSUME NEW q \in Seq(Messages), q # <<>>, DownOK("shadata", q)
      PROVE  DownOK(cl.pc, Tail(q))
  <2> DEFINE E == Tail(q)
  <2>1. Len(q) <= 2 /\ (Len(q) = 2 => q[2].type = "digest")
    BY <1>5 DEF DownOK, SumLeft
  <2>2. Len(E) <= 1 /\ (Len(E) > 0 => Len(q) = 2 /\ E[1] = q[2])
    BY <1>5, <2>1, SecondLeft
  <2> HIDE DEF E
  <2>3. Len(E) <= 1 /\ (Len(E) > 0 => E[1].type = "digest")
    BY <2>1, <2>2
  <2>4. DownOK(cl.pc, E)
    BY <1>3, <2>3 DEF DownOK
  <2>5. QED
    BY <2>4 DEF E
<1>6. FilesAreMerges'
  BY <1>1, SameDisk DEF IInv, serverVars
<1>7. /\ \A t \in Sessions, D \in Seq(Messages) :
           D # <<>> /\ D[1] = Reply(c) /\ Answered(client[c], t, D)
             => Live(cl, t, cl.out, Tail(D))
      /\ \A q \in Seq(Messages) :
           q # <<>> /\ q[1] = Reply(c) /\ DownOK("shadata", q)
             => DownOK(cl.pc, Tail(q)) /\ (cl.out # <<>> => Tail(q) = <<>>)
  BY <1>3, <1>4, <1>5
<1>8. QED
  BY <1>1, <1>2, <1>3, <1>6, <1>7, ReplyFrame

\* A client stores content.
LEMMA SaveMerges ==
  ASSUME IInv, NEW c \in Clients, client[c].name \in Names, NEW x \in Contents,
         IsMerge(x), Save(c, x), UNCHANGED serverVars
  PROVE  FilesAreMerges'
<1>1. files' = files /\ disk' = [disk EXCEPT ![c][client[c].name] = x]
  BY DEF Save, serverVars
<1>2. disk \in [Clients -> [Names -> Contents \cup {NoFile}]] /\ FilesAreMerges
  BY DEF IInv, TypeInv, TypeOK
<1>3. \A p \in Paths : files'[p] # NoFile => IsMerge(files'[p])
  BY <1>1, <1>2 DEF FilesAreMerges
<1>4. ASSUME NEW d \in Clients, NEW f \in Names, disk'[d][f] # NoFile
      PROVE  IsMerge(disk'[d][f])
  <2>1. disk'[d][f] = x \/ disk'[d][f] = disk[d][f]
    BY <1>1, <1>2
  <2>2. QED
    BY <1>2, <1>4, <2>1 DEF FilesAreMerges
<1>5. QED
  BY <1>3, <1>4 DEF FilesAreMerges, IsMerge, Originals

\* The last message of a download: the client is idle.
LEMMA SavedInv ==
  ASSUME IInv, NEW c \in Clients, NEW pc \in {"getdata", "getbody"}, Replied(c, pc),
         TakeReply(c), NEW x \in Contents, IsMerge(x), Save(c, x),
         pc = "getdata" => SizeIn(Reply(c)) = {0},
         UNCHANGED serverVars, TypeInv'
  PROVE  IInv'
<1> DEFINE cl == Idle(c, client[c].info)
<1>1. client[c].pc = pc /\ client' = [client EXCEPT ![c] = cl]
  BY DEF Replied, Save, Done, SetClient
<1>2. /\ cl \in ClientStates /\ cl.sock = Sock(c) /\ cl.out = <<>> /\ cl.pc = "prompt"
      /\ RequestOK(cl) /\ (\A t : t.pc = "request" => Live(cl, t, cl.out, <<>>))
      /\ DownOK(cl.pc, <<>>)
  <2>1. client[c].info \in BOOLEAN
    BY ClientFacts DEF IInv
  <2>2. QED
    BY <2>1, DoneClient
<1> HIDE DEF cl
<1>3. FilesAreMerges'
  <2>1. client[c].name \in Names
    BY <1>1, ClientFacts DEF IInv, ClientOK
  <2>2. QED
    BY <2>1, SaveMerges
<1>4. ~(pc = "getdata" /\ Announces(Reply(c)))
  <2>1. SUFFICES ASSUME pc = "getdata", Announces(Reply(c)) PROVE FALSE
    OBVIOUS
  <2>2. 0 \in SizeIn(Reply(c))
    BY <2>1
  <2>3. QED
    BY <2>1, <2>2, AnnouncesSize
<1>5. ASSUME NEW t \in Sessions, NEW D \in Seq(Messages), D # <<>>, D[1] = Reply(c),
             Answered(client[c], t, D)
      PROVE  Live(cl, t, cl.out, Tail(D))
  <2>1. Len(D) # 0
    BY <1>5, LenZero
  <2>2. t.pc = "request" /\ Len(D) = 1
    <3>1. CASE pc = "getdata"
      <4>1. DataDue(client[c], t, D, 0)
        BY <1>1, <1>5, <3>1 DEF Answered
      <4>2. QED
        BY <1>4, <1>5, <2>1, <3>1, <4>1 DEF DataDue
    <3>2. CASE pc = "getbody"
      BY <1>1, <1>5, <3>2 DEF Answered
    <3>3. QED
      BY <3>1, <3>2
  <2>3. Tail(D) = <<>>
    BY <1>5, <2>2, TailOf
  <2>4. QED
    BY <1>2, <2>2, <2>3
<1>6. ASSUME NEW q \in Seq(Messages), q # <<>>, q[1] = Reply(c), DownOK(pc, q)
      PROVE  DownOK(cl.pc, Tail(q))
  <2>1. Len(q) > 0 /\ Len(q) \in Nat
    BY <1>6, LenZero
  <2>2. Len(q) <= 1
    <3>1. CASE pc = "getdata"
      <4>1. DataLeft(q, 0)
        BY <1>6, <3>1 DEF DownOK
      <4>2. QED
        BY <1>4, <1>6, <2>1, <3>1, <4>1 DEF DataLeft
    <3>2. CASE pc = "getbody"
      BY <1>6, <3>2 DEF DownOK
    <3>3. QED
      BY <3>1, <3>2
  <2>3. Tail(q) = <<>>
    BY <1>6, <2>2, OneLeft
  <2>4. QED
    BY <1>2, <2>3
<1>7. /\ \A t \in Sessions, D \in Seq(Messages) :
           D # <<>> /\ D[1] = Reply(c) /\ Answered(client[c], t, D)
             => Live(cl, t, cl.out, Tail(D))
      /\ \A q \in Seq(Messages) :
           q # <<>> /\ q[1] = Reply(c) /\ DownOK(pc, q)
             => DownOK(cl.pc, Tail(q)) /\ (cl.out # <<>> => Tail(q) = <<>>)
  BY <1>2, <1>5, <1>6
<1>8. QED
  BY <1>1, <1>2, <1>3, <1>7, ReplyFrame

\* The FILE_DATA of a get.
LEMMA GetDataArrives ==
  ASSUME IInv, NEW c \in Clients, Replied(c, "getdata")
  PROVE  Reply(c) = EmptyData \/ Announces(Reply(c))
<1> DEFINE q == conn[Sock(c)].q["client"]
           D == q \o session[Sock(c)].out
<1>1. /\ q \in Seq(Messages) /\ q # <<>> /\ q[1] = Reply(c) /\ client[c].pc = "getdata"
      /\ \/ /\ D \in Seq(Messages) /\ D # <<>> /\ D[1] = Reply(c)
            /\ Answered(client[c], session[Sock(c)], D)
         \/ DownOK("getdata", q)
  BY ReplyArrives
<1> HIDE DEF q, D
<1>2. CASE /\ D \in Seq(Messages) /\ D # <<>> /\ D[1] = Reply(c)
           /\ Answered(client[c], session[Sock(c)], D)
  <2>1. DataDue(client[c], session[Sock(c)], D, 0) /\ Len(D) # 0
    BY <1>1, <1>2, LenZero DEF Answered
  <2>2. QED
    BY <1>2, <2>1 DEF DataDue
<1>3. CASE DownOK("getdata", q)
  <2>1. DataLeft(q, 0) /\ Len(q) > 0
    BY <1>1, <1>3, LenZero DEF DownOK
  <2>2. QED
    BY <1>1, <2>1 DEF DataLeft
<1>4. QED
  BY <1>1, <1>2, <1>3

\* The client waits for the data that have been announced.
LEMMA AnnouncedInv ==
  ASSUME IInv, NEW c \in Clients, Replied(c, "getdata"), TakeReply(c),
         Await(c, "getbody"), Announces(Reply(c)), UNCHANGED disk,
         UNCHANGED serverVars, TypeInv'
  PROVE  IInv'
<1> DEFINE cl == [client[c] EXCEPT !.pc = "getbody"]
<1>1. client[c].pc = "getdata" /\ client' = [client EXCEPT ![c] = cl]
  BY DEF Replied, Await, SetClient
<1>2. /\ cl \in ClientStates /\ cl.sock = Sock(c) /\ cl.out = <<>> /\ cl.pc = "getbody"
      /\ RequestOK(cl)
  <2>1. cl = [client[c] EXCEPT !.pc = "getbody"] /\ Waits(c)
    BY DEF Replied
  <2> HIDE DEF cl
  <2>2. QED
    BY <2>1, AwaitClient
<1> HIDE DEF cl
<1>3. Reply(c) # EmptyData
  BY EmptyDataIs DEF Announces
<1>4. ASSUME NEW t \in Sessions, NEW D \in Seq(Messages), D # <<>>, D[1] = Reply(c),
             Answered(client[c], t, D)
      PROVE  Live(cl, t, cl.out, Tail(D))
  <2>1. DataDue(client[c], t, D, 0) /\ Len(D) # 0
    BY <1>1, <1>4, LenZero DEF Answered
  <2>2. t.pc = "request" /\ Len(D) = 2 /\ IsData(D[2])
    BY <1>3, <1>4, <2>1 DEF DataDue
  <2>3. Len(Tail(D)) = 1 /\ IsData(Tail(D)[1])
    <3>1. Len(Tail(D)) = 1 /\ Tail(D)[1] = D[2]
      BY <1>4, <2>2, SecondLeft
    <3>2. QED
      BY <2>2, <3>1
  <2>4. QED
    BY <1>2, <2>2, <2>3 DEF Live, Answered
<1>5. ASSUME NEW q \in Seq(Messages), q # <<>>, DownOK("getdata", q)
      PROVE  DownOK(cl.pc, Tail(q))
  <2> DEFINE E == Tail(q)
  <2>1. Len(q) <= 2 /\ (Len(q) = 2 => IsData(q[2]))
    BY <1>5 DEF DownOK, DataLeft
  <2>2. Len(E) <= 1 /\ (Len(E) > 0 => Len(q) = 2 /\ E[1] = q[2])
    BY <1>5, <2>1, SecondLeft
  <2> HIDE DEF E
  <2>3. Len(E) <= 1 /\ (Len(E) > 0 => IsData(E[1]))
    BY <2>1, <2>2
  <2>4. DownOK(cl.pc, E)
    BY <1>2, <2>3 DEF DownOK
  <2>5. QED
    BY <2>4 DEF E
<1>6. FilesAreMerges'
  BY SameDisk DEF IInv, serverVars
<1>7. /\ \A t \in Sessions, D \in Seq(Messages) :
           D # <<>> /\ D[1] = Reply(c) /\ Answered(client[c], t, D)
             => Live(cl, t, cl.out, Tail(D))
      /\ \A q \in Seq(Messages) :
           q # <<>> /\ q[1] = Reply(c) /\ DownOK("getdata", q)
             => DownOK(cl.pc, Tail(q)) /\ (cl.out # <<>> => Tail(q) = <<>>)
  BY <1>2, <1>4, <1>5
<1>8. QED
  BY <1>1, <1>2, <1>6, <1>7, ReplyFrame

LEMMA RecvGetDataInv ==
  ASSUME IInv, NEW c \in Clients, RecvGetData(c), UNCHANGED serverVars, TypeInv'
  PROVE  IInv'
<1>1. Replied(c, "getdata") /\ TakeReply(c)
  BY DEF RecvGetData
<1>2. CASE Reply(c) = EmptyData
  <2>1. SizeIn(Reply(c)) = {0}
    BY <1>2, EmptyDataIs
  <2>2. Save(c, <<>>)
    BY <2>1 DEF RecvGetData
  <2>3. QED
    BY <1>1, <2>1, <2>2, MergeEmpty, EmptyContent, SavedInv
<1>3. CASE Announces(Reply(c))
  <2>1. Await(c, "getbody") /\ UNCHANGED disk
    BY <1>3, AnnouncesSize DEF RecvGetData
  <2>2. QED
    BY <1>1, <1>3, <2>1, AnnouncedInv
<1>4. QED
  BY <1>1, <1>2, <1>3, GetDataArrives

LEMMA RecvGetContentInv ==
  ASSUME IInv, NEW c \in Clients, RecvGetContent(c), UNCHANGED serverVars, TypeInv'
  PROVE  IInv'
<1>1. /\ Replied(c, "getbody") /\ TakeReply(c) /\ Save(c, ContentIn(Reply(c)))
  BY DEF RecvGetContent
<1>2. IsData(Reply(c)) /\ Reply(c) \in Messages
  <2> DEFINE q == conn[Sock(c)].q["client"]
             D == q \o session[Sock(c)].out
  <2>1. /\ q \in Seq(Messages) /\ q # <<>> /\ q[1] = Reply(c) /\ client[c].pc = "getbody"
        /\ Reply(c) \in Messages
        /\ \/ D[1] = Reply(c) /\ Answered(client[c], session[Sock(c)], D)
           \/ DownOK("getbody", q)
    BY <1>1, ReplyArrives
  <2> HIDE DEF q, D
  <2>2. CASE D[1] = Reply(c) /\ Answered(client[c], session[Sock(c)], D)
    BY <2>1, <2>2 DEF Answered
  <2>3. CASE DownOK("getbody", q)
    <3>1. Len(q) > 0
      BY <2>1, LenZero
    <3>2. QED
      BY <2>1, <2>3, <3>1 DEF DownOK
  <2>4. QED
    BY <2>1, <2>2, <2>3
<1>3. ContentIn(Reply(c)) = Reply(c).arg /\ IsMerge(Reply(c).arg)
  BY <1>2 DEF ContentIn, IsData
<1>4. Reply(c).arg \in Contents
  BY <1>2, MessageFields DEF IsData
<1>5. QED
  BY <1>1, <1>3, <1>4, SavedInv

------------------------------------------------------------------------------
\* The file of a put is sent to a thread that waits for it.
LEMMA UploadLive ==
  ASSUME NEW cl, cl.pc = "upload", NEW x \in Contents, IsMerge(x), cl.out = FileData(x),
         NEW t, t.pc = "filedata"
  PROVE  Live(cl, t, cl.out, <<>>)
<1>1. RequestLen(cl.pc) = 0 /\ cl.pc \notin NamedPcs /\ cl.pc # "open"
  BY DEF RequestLen, NamedPcs
<1>2. CASE x = <<>>
  <2>1. cl.out = <<EmptyData>>
    BY <1>2, FileDataIs
  <2>2. Requested(cl, cl.out, 1) /\ Uploaded(t.pc, cl.out, 1)
    BY <1>1, <2>1 DEF Requested, Uploaded
  <2>3. QED
    BY <1>1, <2>2 DEF Live, Asked
<1>3. CASE x # <<>>
  <2> DEFINE h == Header("FILE_DATA", 0, Len(x))
             p == Payload("data", x)
  <2>1. Len(x) # 0
    BY <1>3 DEF Contents
  <2>2. cl.out = <<h, p>> /\ Announces(h) /\ IsData(p)
    BY <1>3, <2>1, FileDataIs, HeaderFields DEF Announces, IsData
  <2> HIDE DEF h, p
  <2>3. Requested(cl, cl.out, 2) /\ Uploaded(t.pc, cl.out, 2)
    BY <1>1, <2>2 DEF Requested, Uploaded
  <2>4. QED
    BY <1>1, <2>3 DEF Live, Asked
<1>4. QED
  BY <1>2, <1>3

LEMMA RecvPutReplyInv ==
  ASSUME Quiet, IInv, NEW c \in Clients, RecvPutReply(c), UNCHANGED serverVars, TypeInv'
  PROVE  IInv'
<1>1. Replied(c, "put") /\ TakeReply(c) /\ UNCHANGED disk /\ client[c].pc = "put"
  BY DEF RecvPutReply, Replied
<1>2. Reply(c).type = "PUT_REPLY"
  <2> DEFINE q == conn[Sock(c)].q["client"]
             D == q \o session[Sock(c)].out
  <2>1. /\ q \in Seq(Messages) /\ q # <<>> /\ q[1] = Reply(c)
        /\ \/ D[1] = Reply(c) /\ Answered(client[c], session[Sock(c)], D)
           \/ DownOK("put", q)
    BY <1>1, ReplyArrives
  <2> HIDE DEF q, D
  <2>2. CASE D[1] = Reply(c) /\ Answered(client[c], session[Sock(c)], D)
    BY <1>1, <2>2, HeaderFields DEF Answered, IsReply
  <2>3. CASE DownOK("put", q)
    <3>1. Len(q) > 0
      BY <2>1, LenZero
    <3>2. QED
      BY <2>1, <2>3, <3>1, HeaderFields DEF DownOK, IsReply
  <2>4. QED
    BY <2>1, <2>2, <2>3
<1> DEFINE x == disk[c][client[c].name]
           cl == [client[c] EXCEPT !.pc = "upload", !.out = FileData(x)]
<1>3. client' = [client EXCEPT ![c] = cl]
  BY <1>2 DEF RecvPutReply, Quiet, SetClient
<1>4. client[c] \in ClientStates /\ client[c].name \in Names /\ x # NoFile
  BY <1>1, ClientFacts DEF IInv, ClientOK, NamedPcs
<1>5. x \in Contents /\ IsMerge(x)
  BY <1>4 DEF IInv, TypeInv, TypeOK, FilesAreMerges
<1> HIDE DEF x
<1>6. FileData(x) \in Seq(Messages)
  BY <1>5, RepliesType
<1>7. cl \in ClientStates /\ cl.sock = Sock(c) /\ cl.pc = "upload" /\ cl.out = FileData(x)
  BY <1>4, <1>6 DEF ClientStates, ClientPcs, Sock
<1> HIDE DEF cl
<1>8. RequestOK(cl)
  BY <1>7 DEF RequestOK
<1>9. ASSUME NEW t \in Sessions, NEW D \in Seq(Messages), D # <<>>,
             Answered(client[c], t, D)
      PROVE  Live(cl, t, cl.out, Tail(D))
  <2>1. t.pc = "filedata" /\ Len(D) = 1
    BY <1>1, <1>9 DEF Answered
  <2>2. Tail(D) = <<>>
    BY <1>9, <2>1, TailOf
  <2>3. QED
    BY <1>5, <1>7, <2>1, <2>2, UploadLive
<1>10. ASSUME NEW q \in Seq(Messages), q # <<>>, DownOK("put", q)
       PROVE  DownOK(cl.pc, Tail(q)) /\ Tail(q) = <<>>
  <2>1. Tail(q) = <<>>
    BY <1>10, OneLeft DEF DownOK
  <2>2. QED
    BY <1>7, <2>1 DEF DownOK
<1>11. FilesAreMerges'
  BY <1>1, SameDisk DEF IInv, serverVars
<1>12. /\ \A t \in Sessions, D \in Seq(Messages) :
            D # <<>> /\ D[1] = Reply(c) /\ Answered(client[c], t, D)
              => Live(cl, t, cl.out, Tail(D))
       /\ \A q \in Seq(Messages) :
            q # <<>> /\ q[1] = Reply(c) /\ DownOK("put", q)
              => DownOK(cl.pc, Tail(q)) /\ (cl.out # <<>> => Tail(q) = <<>>)
  BY <1>9, <1>10
<1>13. QED
  BY <1>1, <1>3, <1>7, <1>8, <1>11, <1>12, ReplyFrame

LEMMA RecvQuitReplyInv ==
  ASSUME IInv, NEW c \in Clients, RecvQuitReply(c), UNCHANGED serverVars, TypeInv'
  PROVE  IInv'
<1> DEFINE s == Sock(c)
           k == conn[s]
           t == session[s]
           q == k.q["client"]
           D == q \o t.out
           z == AfterRecv(k, "client")
           cl == Drop(c, FALSE)
<1>1. Replied(c, "quit") /\ UNCHANGED disk /\ client[c].pc = "quit"
  BY DEF RecvQuitReply, Replied
<1>2. /\ s # Fresh /\ k \in Connections /\ t \in Sessions /\ HasData(k, "client")
      /\ q \in Seq(Messages) /\ q # <<>> /\ q[1] = Reply(c) /\ k.open["server"] \in BOOLEAN
      /\ k.open["server"] =>
           /\ k.q["server"] = <<>> /\ Answered(client[c], t, D)
           /\ D \in Seq(Messages) /\ D[1] = Reply(c) /\ Tail(D) = Tail(q) \o t.out
           /\ D # <<>>
      /\ ~k.open["server"] => DownOK("quit", q)
  BY <1>1, ReplyArrives
<1>3. /\ z \in Connections /\ z.used = k.used /\ z.open = k.open /\ z.err = k.err
      /\ z.q["client"] = Tail(q) /\ z.q["server"] = k.q["server"]
  BY <1>2, ClientReceives
<1>4. cl \in ClientStates /\ cl.sock = Fresh /\ cl.out = <<>>
  BY IdleType DEF IInv
<1> HIDE DEF cl
<1>5. RequestOK(cl)
  BY <1>4 DEF RequestOK
<1>6. FilesAreMerges'
  BY <1>1, SameDisk DEF IInv, serverVars
<1>7. ASSUME Reply(c).type = "QUIT_REPLY"
      PROVE  OnConn(c, Closed(z, "client")) /\ client' = [client EXCEPT ![c] = cl]
  BY <1>7 DEF RecvQuitReply, SetClient, cl
<1>8. CASE k.open["server"]
  <2>1. t.pc = "quit" /\ Len(D) = 1 /\ Reply(c).type = "QUIT_REPLY"
    <3> HIDE DEF D, t
    <3>1. t.pc = "quit" /\ IsReply(D, "QUIT_REPLY", 0) /\ Len(D) = 1
      BY <1>1, <1>2, <1>8 DEF Answered
    <3>2. QED
      BY <1>2, <1>8, <3>1, HeaderFields DEF IsReply
  <2>2. Tail(q) = <<>> /\ t.out = <<>>
    <3>1. Tail(q) \o t.out = <<>>
      BY <1>2, <1>8, <2>1, TailOf
    <3>2. Tail(q) \in Seq(Messages) /\ t.out \in Seq(Messages)
      BY <1>2, TailOf DEF Sessions
    <3>3. QED
      BY <3>1, <3>2, ConcatEmpty
  <2> DEFINE y == Closed(z, "client")
  <2>3. /\ s \in Conns /\ k.used /\ k.open["client"] /\ k.err["server"] = "none"
        /\ serverUp /\ t.pc # "done" /\ k.err["client"] = "none"
    BY <1>2, <1>8, OwnConn
  <2>4. /\ y \in Connections /\ y.used /\ ~y.open["client"] /\ y.open["server"]
        /\ y.q["client"] = <<>> /\ y.q["server"] = <<>> /\ y.err["client"] = "none"
        /\ y.err["server"] = "none"
    <3>1. z.open["server"] /\ z.q["client"] = <<>> /\ z.q["server"] = <<>>
          /\ z.used /\ z.err["client"] = "none" /\ z.err["server"] = "none"
      BY <1>2, <1>3, <1>8, <2>2, <2>3
    <3> HIDE DEF z
    <3>2. y \in Connections
      BY <1>3, ClosedType, PeerOf
    <3>3. QED
      BY <1>3, <3>1, <3>2, ClientCloses
  <2>5. conn' = [conn EXCEPT ![s] = y] /\ client' = [client EXCEPT ![c] = cl]
    BY <1>7, <2>1 DEF OnConn
  <2>6. s = Sock(c)
    OBVIOUS
  <2> HIDE DEF y, s, t
  <2>7. ConnOK(y, t, serverUp)
    BY <2>1, <2>2, <2>3, <2>4 DEF ConnOK, Orphan, UpOK
  <2>8. QED
    BY <1>4, <1>5, <1>6, <2>3, <2>4, <2>5, <2>6, <2>7, ClientFrameInv DEF t
<1>9. CASE ~k.open["server"]
  <2>1. Reply(c).type = "QUIT_REPLY"
    <3>1. Len(q) > 0
      BY <1>2, LenZero
    <3>2. QED
      BY <1>2, <1>9, <3>1, HeaderFields DEF DownOK, IsReply
  <2>2. OnConn(c, Closed(z, "client")) /\ client' = [client EXCEPT ![c] = cl]
    BY <1>7, <2>1
  <2> HIDE DEF z
  <2>3. QED
    BY <1>2, <1>3, <1>4, <1>5, <1>6, <1>9, <2>2, GoneFrame
<1>10. QED
  BY <1>2, <1>8, <1>9

LEMMA ProcessInv ==
  ASSUME Quiet, IInv, NEW c \in Clients, Process(c)
  PROVE  IInv'
<1>1. ClientStep(c) /\ UNCHANGED serverVars
  BY DEF Process
<1>2. TypeInv'
  BY ProcessType DEF IInv
<1>3. CASE RecvCdReply(c) \/ RecvShaValue(c)
  BY <1>1, <1>2, <1>3, LastReplyInv DEF RecvCdReply, RecvShaValue
<1>4. QED
  BY <1>1, <1>2, <1>3, ClientSendInv, ReplyLostInv, RecvOpenReplyInv, RecvListReplyInv,
     RecvGetReplyInv, RecvGetDataInv, RecvGetContentInv, RecvShaReplyInv,
     RecvShaDataInv, RecvPutReplyInv, RecvQuitReplyInv
     DEF ClientStep

------------------------------------------------------------------------------
(* The invariant. *)

LEMMA OriginalsMerge ==
  ASSUME NEW o \in Originals, o \in Contents
  PROVE  IsMerge(o)
BY DEF IsMerge

LEMMA InitFiles == Init => FilesAreMerges
<1> SUFFICES ASSUME Init PROVE FilesAreMerges
  OBVIOUS
<1>1. files = InitialFiles /\ disk = InitialDisk
  BY DEF Init
<1>2. ASSUME NEW p \in Paths, files[p] # NoFile
      PROVE  IsMerge(files[p])
  <2>1. files[p] \in Originals
    BY <1>1, <1>2 DEF Originals
  <2>2. files[p] \in Contents
    BY <1>1, <1>2, FilesAssumption
  <2>3. QED
    BY <2>1, <2>2, OriginalsMerge
<1>3. ASSUME NEW c \in Clients, NEW f \in Names, disk[c][f] # NoFile
      PROVE  IsMerge(disk[c][f])
  <2>1. disk[c][f] \in Originals
    BY <1>1, <1>3 DEF Originals
  <2>2. disk[c][f] \in Contents
    BY <1>1, <1>3, FilesAssumption
  <2>3. QED
    BY <2>1, <2>2, OriginalsMerge
<1>4. QED
  BY <1>2, <1>3 DEF FilesAreMerges

LEMMA InitInv == Init => IInv
<1> SUFFICES ASSUME Init PROVE IInv
  OBVIOUS
<1>1. TypeInv /\ FilesAreMerges
  BY InitType, InitFiles
<1>2. ASSUME NEW s \in Conns
      PROVE  /\ ConnOK(conn[s], session[s], serverUp)
             /\ ContentOK(session[s])
             /\ conn[s].open["client"] => Held(s)
  <2>1. conn[s] = Unused /\ session[s] = NewSession
    BY DEF Init, StreamInit, ServerInit
  <2>2. /\ ~Unused.used /\ ~Unused.open["client"] /\ ~Unused.open["server"]
        /\ Unused.q["client"] = <<>> /\ Unused.q["server"] = <<>>
        /\ Unused.err["client"] = "none" /\ Unused.err["server"] = "none"
    BY BlankFields, PeerOf DEF Unused
  <2>3. NewSession.pc = "new" /\ NewSession.out = <<>>
    BY NewSessionType
  <2>4. ConnOK(conn[s], session[s], serverUp)
    BY <2>1, <2>2, <2>3 DEF ConnOK
  <2>5. QED
    BY <2>1, <2>2, <2>3, <2>4 DEF ContentOK
<1>3. ASSUME NEW c \in Clients
      PROVE  RequestOK(client[c]) /\ Sock(c) = Fresh
  <2>1. client[c] = NewClient
    BY DEF Init, ClientInit
  <2>2. QED
    BY <2>1, NewClientType DEF RequestOK, Sock
<1>4. QED
  BY <1>1, <1>2, <1>3 DEF IInv

\* The server starts again: no client's end is any better or worse for it.
LEMMA RebootInv ==
  ASSUME IInv, Reboot
  PROVE  IInv'
<1>1. /\ UNCHANGED <<conn, files, clientVars>> /\ client' = client
      /\ ~serverUp /\ serverUp' = TRUE
  BY DEF Reboot, Restart, clientVars
<1>2. TypeInv' /\ FilesAreMerges'
  BY <1>1, RebootType, SameFiles DEF IInv
<1>3. ASSUME NEW s \in Conns
      PROVE  /\ ConnOK(conn[s], session[s], serverUp)'
             /\ ~conn[s].open["server"] /\ session'[s].pc \in {"new", "done"}
  <2>1. /\ session'[s].pc = IF conn[s].used THEN "done" ELSE "new"
        /\ ConnOK(conn[s], session[s], serverUp)
    BY NewSessionType, ThreadFacts DEF Reboot, Restart, Sessions
  <2>2. ~conn[s].open["server"]
    BY <1>1, <2>1 DEF ConnOK
  <2>3. QED
    BY <1>1, <2>1, <2>2 DEF ConnOK
<1>4. \A s \in Conns : (conn[s].open["client"] => Held(s))'
  BY <1>1 DEF IInv, Held, Sock
<1>5. \A s \in Conns : ContentOK(session[s])'
  BY <1>3 DEF ContentOK
<1>6. ASSUME NEW c \in Clients
      PROVE  /\ RequestOK(client[c])'
             /\ Sock(c)' = Sock(c)
             /\ Sock(c) # Fresh => PairOK(client[c], session[Sock(c)], conn[Sock(c)])'
  <2>1. RequestOK(client[c])' /\ Sock(c)' = Sock(c)
    BY <1>1 DEF IInv, RequestOK, Requested, Sock
  <2>2. ASSUME Sock(c) # Fresh
        PROVE  PairOK(client[c], session[Sock(c)], conn[Sock(c)])'
    <3>1. Sock(c) \in Conns /\ PairOK(client[c], session[Sock(c)], conn[Sock(c)])
      BY <2>2, HolderFacts DEF IInv
    <3>2. ~conn[Sock(c)].open["server"]
      BY <1>3, <3>1
    <3>3. /\ DownOK(client[c].pc, conn[Sock(c)].q["client"])
          /\ client[c].out # <<>> => conn[Sock(c)].q["client"] = <<>>
      BY <3>1, <3>2 DEF PairOK
    <3>4. PairOK(client[c], session'[Sock(c)], conn[Sock(c)])
      BY <3>2, <3>3 DEF PairOK
    <3>5. QED
      BY <1>1, <2>1, <3>4
  <2>3. QED
    BY <2>1, <2>2
<1>7. QED
  BY <1>1, <1>2, <1>3, <1>4, <1>5, <1>6 DEF IInv, Sock

LEMMA StutterInv == IInv /\ UNCHANGED vars => IInv'
<1> SUFFICES ASSUME IInv, UNCHANGED vars PROVE IInv'
  OBVIOUS
<1>1. TypeInv' /\ FilesAreMerges'
  BY StutterType, SameDisk DEF IInv, vars, serverVars, clientVars
<1>2. /\ conn' = conn /\ session' = session /\ client' = client /\ serverUp' = serverUp
  BY DEF vars, serverVars, clientVars
<1>3. QED
  BY <1>1, <1>2
     DEF IInv, ConnOK, Orphan, ContentOK, IsMerge, Originals, Held, Sock, RequestOK, PairOK

LEMMA NextInv == Quiet /\ IInv /\ [Next]_vars => IInv'
<1> SUFFICES ASSUME Quiet, IInv, [Next]_vars PROVE IInv'
  OBVIOUS
<1>1. CASE UNCHANGED vars
  BY <1>1, StutterInv
<1>2. CASE Next
  BY <1>1, <1>2, ServerInv, RebootInv, ProcessInv, UserInv DEF Next, Finished
<1>3. QED
  BY <1>1, <1>2

\* The inductive invariant, wherever listings arrive with their header and
\* local files can be read: what each process knows of the other's state.
THEOREM FtpInvariance == Quiet /\ Spec => []IInv
<1>1. Quiet /\ Init => Quiet /\ IInv
  BY InitInv
<1>2. (Quiet /\ IInv) /\ [Next]_vars => (Quiet /\ IInv)'
  BY NextInv DEF Quiet
<1>3. QED
  BY <1>1, <1>2, PTL DEF Spec

------------------------------------------------------------------------------
(* The properties. *)

\* Files of either side are merges of originals: no interleaving of sessions
\* and clients stores anything else (ftp_server.cpp:334-357, ftp_client.cpp:311),
\* of files without a zero byte, which safe_recv takes whole.
THEOREM FilesTheorem == Quiet /\ Spec => []FilesAreMerges
<1>1. IInv => FilesAreMerges
  BY DEF IInv
<1>2. QED
  BY <1>1, FtpInvariance, PTL

\* What is on its way when a client is at its prompt.
LEMMA PromptLive ==
  ASSUME NEW cl, cl.pc = "prompt", NEW t, NEW U \in Seq(Messages), NEW D, Live(cl, t, U, D)
  PROVE  /\ D = <<>>
         /\ \/ t.pc \in {"request", "truncate", "write"} /\ U = <<>>
            \/ t.pc \in {"filedata", "body"} /\ Carries(U) # {}
<1>1. ~Answered(cl, t, D)
  BY DEF Answered
<1>2. D = <<>> /\ Asked(cl, t, U)
  BY <1>1 DEF Live
<1>3. PICK i \in {0, 1, 2} : Uploaded(t.pc, U, i) /\ Requested(cl, U, i)
  BY <1>2 DEF Asked, NamedPcs
<1>4. Len(U) = i
  BY <1>3 DEF Requested, RequestLen, NamedPcs
<1>5. CASE i = 0
  BY <1>2, <1>3, <1>4, <1>5, LenZero DEF Uploaded
<1>6. ASSUME NEW j \in 1 .. Len(U), U[j].type = "data" \/ U[j] = EmptyData
      PROVE  Carries(U) # {}
  <2>1. j \in DOMAIN U
    BY <1>6
  <2>2. QED
    BY <1>6, <2>1 DEF Carries, EmptyData
<1>7. CASE i = 1
  <2>1. /\ t.pc \in {"filedata", "body"} /\ 1 \in 1 .. Len(U)
        /\ U[1].type = "data" \/ U[1] = EmptyData
    BY <1>3, <1>4, <1>7 DEF Uploaded, IsData
  <2>2. QED
    BY <1>2, <1>6, <2>1
<1>8. CASE i = 2
  <2>1. t.pc = "filedata" /\ 2 \in 1 .. Len(U) /\ U[2].type = "data"
    BY <1>3, <1>4, <1>8 DEF Uploaded, IsData
  <2>2. QED
    BY <1>2, <1>6, <2>1
<1>9. QED
  BY <1>5, <1>7, <1>8

\* A client at its prompt and the server agree on where the conversation is:
\* no reply is left for a later command to take for its own, where listings
\* arrive with their header (Quiet).
THEOREM InStepTheorem == Quiet /\ Spec => []InStep
<1>1. IInv => InStep
  <2> SUFFICES ASSUME IInv, NEW c \in Clients, client[c].pc = "prompt",
                      Sock(c) # Fresh, conn[Sock(c)].open["server"]
               PROVE  LET k == conn[Sock(c)]
                          t == session[Sock(c)]
                      IN  /\ k.q["client"] = <<>> /\ t.out = <<>>
                          /\ \/ t.pc = "request" /\ k.q["server"] = <<>>
                             \/ t.pc \in {"filedata", "body"} /\ Carries(k.q["server"]) # {}
                             \/ t.pc \in {"truncate", "write"} /\ k.q["server"] = <<>>
    BY DEF InStep, Prompt
  <2> DEFINE t == session[Sock(c)]
             d == conn[Sock(c)].q["client"]
             u == conn[Sock(c)].q["server"]
             D == d \o t.out
  <2>1. /\ d \in Seq(Messages) /\ u \in Seq(Messages) /\ t.out \in Seq(Messages)
        /\ Live(client[c], t, u \o client[c].out, D)
    BY OwnConn
  <2>2. client[c].out = <<>>
    BY ClientFacts DEF IInv, ClientOK
  <2>3. u \o <<>> = u
    BY <2>1
  <2>4. Live(client[c], t, u, D)
    BY <2>1, <2>2, <2>3
  <2> HIDE DEF t, d, u, D
  <2>5. /\ D = <<>>
        /\ \/ t.pc \in {"request", "truncate", "write"} /\ u = <<>>
           \/ t.pc \in {"filedata", "body"} /\ Carries(u) # {}
    BY <2>1, <2>4, PromptLive
  <2>6. d = <<>> /\ t.out = <<>>
    BY <2>1, <2>5, ConcatEmpty DEF D
  <2>7. QED
    BY <2>5, <2>6 DEF t, d, u
<1>2. QED
  BY <1>1, FtpInvariance, PTL

\* A thread whose send kills the server.
LEMMA KillerOrphan ==
  ASSUME IInv, NEW s \in Conns, serverUp, session[s].out # <<>>,
         conn[s].err["server"] \in {"pipe", "dead"}
  PROVE  /\ conn[s].used /\ ~conn[s].open["client"]
         /\ session[s].req.type \notin {"CD_REQUEST", "PUT_REQUEST"}
<1>1. /\ ConnOK(conn[s], session[s], serverUp) /\ SessionOK(session[s], files)
      /\ conn[s].open["client"] \in BOOLEAN /\ conn[s].open["server"] \in BOOLEAN
  BY ThreadFacts, TypeFacts
<1>2. session[s].pc \notin {"new", "done"}
  BY <1>1 DEF SessionOK
<1>3. conn[s].used /\ conn[s].open["server"]
  BY <1>1, <1>2 DEF ConnOK
<1>4. ~conn[s].open["client"]
  BY <1>1 DEF ConnOK
<1>5. Orphan(conn[s], session[s])
  BY <1>1, <1>3, <1>4 DEF ConnOK
<1>6. QED
  BY <1>3, <1>4, <1>5 DEF Orphan

\* The server dies only of a client that closed its end under a session with
\* a LIST, GET or SHA, or with a request another has left on its stack
\* (ftp_server.cpp:46-58).  A client that waits for its quit does no harm.
THEOREM OutlivesTheorem == Quiet /\ Spec => ServerOutlivesQuits
<1> DEFINE A == serverUp /\ ~serverUp' =>
                  \E s \in Conns :
                    /\ session[s].out # <<>>
                    /\ conn[s].used /\ ~conn[s].open["client"]
                    /\ session[s].req.type \notin {"CD_REQUEST", "PUT_REQUEST"}
<1>1. IInv /\ [Next]_vars => [A]_vars
  <2> SUFFICES ASSUME IInv, Next, serverUp, ~serverUp' PROVE A
    OBVIOUS
  <2>1. PICK s \in Conns : SessionStep(s)
    <3>1. ~Reboot
      BY DEF Reboot, Restart
    <3>2. ~Finished /\ ~(\E c \in Clients : Process(c) \/ User(c))
      BY DEF Process, User, Finished, vars, serverVars
    <3>3. QED
      BY <3>1, <3>2 DEF Next, Server
  <2>2. ServerSend(s)
    <3>1. ~Accept(s) /\ ~RecvFails(s) /\ ~Quit(s)
      BY DEF Accept, RecvFails, Quit
    <3>2. ~RecvOpenRequest(s) /\ ~RecvRequest(s) /\ ~RecvName(s)
      <4>1. ~RecvOpenRequest(s)
        BY DEF RecvOpenRequest
      <4>2. ~RecvRequest(s)
        BY DEF RecvRequest
      <4>3. ~RecvName(s)
        <5> SUFFICES ASSUME RecvName(s) PROVE serverUp' = serverUp
          OBVIOUS
        <5>1. UNCHANGED <<files, serverUp>>
          BY Zenon DEF RecvName
        <5>2. QED
          BY <5>1
      <4>4. QED
        BY <4>1, <4>2, <4>3
    <3>3. ~FileSize(s) /\ ~ReadFile(s) /\ ~Sha256sum(s)
      BY DEF FileSize, ReadFile, Sha256sum
    <3>4. ~RecvFileData(s) /\ ~RecvFileContent(s)
      <4>1. ~RecvFileData(s)
        <5> SUFFICES ASSUME RecvFileData(s) PROVE serverUp' = serverUp
          OBVIOUS
        <5>1. UNCHANGED <<files, serverUp>>
          BY Zenon DEF RecvFileData
        <5>2. QED
          BY <5>1
      <4>2. ~RecvFileContent(s)
        BY DEF RecvFileContent
      <4>3. QED
        BY <4>1, <4>2
    <3>5. ~OpenForWriting(s) /\ ~WriteFile(s)
      BY DEF OpenForWriting, WriteFile
    <3>6. QED
      BY <2>1, <3>1, <3>2, <3>3, <3>4, <3>5 DEF SessionStep
  <2>3. session[s].out # <<>> /\ SendResult(conn[s], "server") \notin {"ok", "error"}
    BY <2>2 DEF ServerSend
  <2>4. conn[s].err["server"] \in {"pipe", "dead"}
    <3>1. conn[s].err["server"] \in {"none", "pipe", "reset", "dead"}
      BY ThreadFacts, PeerOf DEF Connections
    <3>2. QED
      BY <2>3, <3>1 DEF SendResult
  <2>5. QED
    BY <2>3, <2>4, KillerOrphan
<1>2. QED
  BY <1>1, FtpInvariance, PTL DEF Spec, ServerOutlivesQuits

\* A client finds the reply it waits for.
LEMMA ReplyFits ==
  ASSUME IInv, NEW c \in Clients, NEW pc \in ClientPcs, Replied(c, pc)
  PROVE  Reply(c).type = Awaited(pc)
<1> DEFINE k == conn[Sock(c)]
           t == session[Sock(c)]
           cl == client[c]
           q == k.q["client"]
           D == q \o t.out
<1>1. /\ cl.pc = pc /\ k.open["server"] \in BOOLEAN
      /\ q \in Seq(Messages) /\ q # <<>> /\ q[1] = Reply(c)
      /\ k.open["server"] =>
           Answered(cl, t, D) /\ D \in Seq(Messages) /\ D # <<>> /\ D[1] = Reply(c)
      /\ ~k.open["server"] => DownOK(pc, q)
  BY ReplyArrives
<1> HIDE DEF D, q, t, cl
<1>2. CASE k.open["server"]
  <2>1. Answered(cl, t, D) /\ Len(D) > 0 /\ D[1] = Reply(c)
    BY <1>1, <1>2, LenZero
  <2>2. CASE pc \in {"open", "ls", "cd", "put", "quit", "getbody", "shabody"}
    BY <1>1, <2>1, <2>2, HeaderFields DEF Answered, IsReply, IsData, Awaited
  <2>3. CASE pc \in {"get", "sha"}
    BY <1>1, <2>1, <2>3, HeaderFields DEF Answered, IsReply, Awaited
  <2>4. CASE pc \in {"getdata", "shadata"}
    BY <1>1, <2>1, <2>4, EmptyDataIs, HeaderFields
       DEF Answered, DataDue, SumDue, Announces, Awaited
  <2>5. pc \notin {"prompt", "upload", "exited", "killed"}
    BY <1>1, <2>1 DEF Answered
  <2>6. QED
    BY <2>2, <2>3, <2>4, <2>5 DEF ClientPcs
<1>3. CASE ~k.open["server"]
  <2>1. DownOK(pc, q) /\ Len(q) > 0 /\ q[1] = Reply(c)
    BY <1>1, <1>3, LenZero
  <2>2. CASE pc \in {"open", "ls", "cd", "put", "quit", "getbody", "shabody"}
    BY <2>1, <2>2, HeaderFields DEF DownOK, IsReply, IsData, Awaited
  <2>3. CASE pc \in {"get", "sha"}
    BY <2>1, <2>3, HeaderFields DEF DownOK, IsReply, Awaited
  <2>4. CASE pc \in {"getdata", "shadata"}
    BY <2>1, <2>4, EmptyDataIs, HeaderFields DEF DownOK, DataLeft, SumLeft, Announces, Awaited
  <2>5. pc \notin {"prompt", "upload"}
    BY <1>1, <2>1 DEF DownOK
  <2>6. pc \notin {"exited", "killed"}
    BY DEF Replied, Waits, Gone
  <2>7. QED
    BY <2>2, <2>3, <2>4, <2>5, <2>6 DEF ClientPcs
<1>4. QED
  BY <1>1, <1>2, <1>3

\* Where listings arrive with their header and local files can be read, each
\* receive of each client finds what it is written to receive, though few of
\* them look at the type (ftp_client.cpp:45-478): also after refusals, sessions
\* that broke off, a server started again and uploads still being stored.
THEOREM RepliesTheorem == Quiet /\ Spec => []RepliesMatch
<1>1. IInv => RepliesMatch
  BY ReplyFits DEF RepliesMatch
<1>2. QED
  BY <1>1, FtpInvariance, PTL

\* There the reply to a get is a GET_REPLY (ftp_client.cpp:274-289).
THEOREM GetTheorem == Quiet /\ Spec => GetReceivesGetReply
<1> DEFINE A == \A c \in Clients : RecvGetReply(c) => Reply(c).type = "GET_REPLY"
<1>1. IInv => [A]_vars
  <2> SUFFICES ASSUME IInv, NEW c \in Clients, RecvGetReply(c)
               PROVE  Reply(c).type = "GET_REPLY"
    OBVIOUS
  <2>1. Replied(c, "get")
    BY DEF RecvGetReply
  <2>2. Reply(c).type = Awaited("get")
    BY <2>1, ReplyFits DEF ClientPcs
  <2>3. QED
    BY <2>2 DEF Awaited
<1>2. QED
  BY <1>1, FtpInvariance, PTL DEF GetReceivesGetReply

==============================================================================
