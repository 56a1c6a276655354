----------------------------- MODULE FtpRefinement -----------------------------
(***************************************************************************)
(* Ftp implements FileService, where listings arrive with their header and *)
(* local files can be read.  A transfer is under way on a connection while *)
(* content is in one of its streams or, of an upload, in the thread's      *)
(* buffer.  The invariant says that there is never more than one; so a     *)
(* step that brings no content into a stream is a step of FileService that *)
(* abandons some transfers or none.                                        *)
(***************************************************************************)
EXTENDS FtpProofs

\* The message m carries the content x.
Bears(m, x) == (m.type = "data" /\ x = m.arg) \/ (m = EmptyData /\ x = <<>>)

LEMMA CarriesIs ==
  ASSUME NEW u \in Seq(Messages), NEW x
  PROVE  x \in Carries(u) <=> \E i \in 1 .. Len(u) : Bears(u[i], x)
<1>1. DOMAIN u = 1 .. Len(u)
  OBVIOUS
<1>2. x \in Carries(u) <=> \/ \E i \in 1 .. Len(u) : u[i].type = "data" /\ x = u[i].arg
                           \/ \E i \in 1 .. Len(u) : u[i] = EmptyData /\ x = <<>>
  BY <1>1 DEF Carries, EmptyData
<1>3. QED
  BY <1>2 DEF Bears

LEMMA CarriesConcat ==
  ASSUME NEW u \in Seq(Messages), NEW v \in Seq(Messages)
  PROVE  Carries(u \o v) = Carries(u) \cup Carries(v)
<1>1. /\ u \o v \in Seq(Messages) /\ Len(u \o v) = Len(u) + Len(v)
      /\ \A i \in 1 .. Len(u) : (u \o v)[i] = u[i]
      /\ \A i \in Len(u) + 1 .. Len(u) + Len(v) : (u \o v)[i] = v[i - Len(u)]
      /\ Len(u) \in Nat /\ Len(v) \in Nat
  BY ConcatProperties
<1> DEFINE w == u \o v
<1> HIDE DEF w
<1>2. ASSUME NEW x, x \in Carries(w)
      PROVE  x \in Carries(u) \cup Carries(v)
  <2>1. PICK i \in 1 .. Len(w) : Bears(w[i], x)
    BY <1>1, <1>2, CarriesIs DEF w
  <2>2. CASE i <= Len(u)
    <3>1. i \in 1 .. Len(u) /\ Bears(u[i], x)
      BY <1>1, <2>1, <2>2 DEF w
    <3>2. QED
      BY <3>1, CarriesIs
  <2>3. CASE i > Len(u)
    <3>1. i - Len(u) \in 1 .. Len(v) /\ Bears(v[i - Len(u)], x)
      BY <1>1, <2>1, <2>3 DEF w
    <3>2. QED
      BY <3>1, CarriesIs
  <2>4. QED
    BY <1>1, <2>2, <2>3
<1>3. ASSUME NEW x, x \in Carries(u)
      PROVE  x \in Carries(w)
  <2>1. PICK i \in 1 .. Len(u) : Bears(u[i], x)
    BY <1>3, CarriesIs
  <2>2. i \in 1 .. Len(w) /\ Bears(w[i], x)
    BY <1>1, <2>1 DEF w
  <2>3. QED
    BY <1>1, <2>2, CarriesIs DEF w
<1>4. ASSUME NEW x, x \in Carries(v)
      PROVE  x \in Carries(w)
  <2>1. PICK i \in 1 .. Len(v) : Bears(v[i], x)
    BY <1>4, CarriesIs
  <2>2. /\ Len(u) + i \in 1 .. Len(w) /\ (Len(u) + i) - Len(u) = i
        /\ Len(u) + i \in Len(u) + 1 .. Len(u) + Len(v)
    BY <1>1, <2>1 DEF w
  <2>3. w[Len(u) + i] = v[i]
    BY <1>1, <2>2 DEF w
  <2>4. QED
    BY <1>1, <2>1, <2>2, <2>3, CarriesIs DEF w
<1>5. QED
  BY <1>2, <1>3, <1>4 DEF w

LEMMA CarriesOne ==
  ASSUME NEW m \in Messages, NEW x
  PROVE  x \in Carries(<<m>>) <=> Bears(m, x)
<1> DEFINE u == <<m>>
<1>1. u \in Seq(Messages) /\ Len(u) = 1 /\ u[1] = m
  OBVIOUS
<1> HIDE DEF u
<1>2. x \in Carries(u) <=> Bears(m, x)
  BY <1>1, CarriesIs
<1>3. QED
  BY <1>2 DEF u

LEMMA CarriesEmpty == Carries(<<>>) = {}
<1> DEFINE u == <<>>
<1>1. u \in Seq(Messages) /\ Len(u) = 0 /\ u = <<>>
  OBVIOUS
<1> HIDE DEF u
<1>2. ASSUME NEW x, x \in Carries(u)
      PROVE  FALSE
  <2>1. u \in Seq(Messages)
    BY <1>1
  <2>2. PICK i \in 1 .. Len(u) : Bears(u[i], x)
    BY <1>2, <2>1, CarriesIs
  <2>3. QED
    BY <1>1, <2>2
<1>3. Carries(u) = {}
  BY <1>2
<1>4. QED
  BY <1>1, <1>3

\* The first message, and the others.
LEMMA CarriesTail ==
  ASSUME NEW u \in Seq(Messages), u # <<>>
  PROVE  /\ Head(u) \in Messages /\ Tail(u) \in Seq(Messages)
         /\ Carries(u) = Carries(<<Head(u)>>) \cup Carries(Tail(u))
<1> DEFINE h == <<Head(u)>>
           t == Tail(u)
<1>1. Head(u) \in Messages /\ t \in Seq(Messages)
  BY TailOf
<1>2. h \in Seq(Messages) /\ u = h \o t
  BY <1>1
<1> HIDE DEF h, t
<1>3. Carries(h \o t) = Carries(h) \cup Carries(t)
  BY <1>1, <1>2, CarriesConcat
<1>4. QED
  BY <1>1, <1>2, <1>3 DEF h, t

\* What is no file content carries none.
LEMMA BearsNone ==
  ASSUME NEW m, m.type \notin {"data", "FILE_DATA"} \/ Announces(m), NEW x
  PROVE  ~Bears(m, x)
BY DEF Bears, EmptyData, Header, Announces

LEMMA BearsOne ==
  ASSUME NEW m, NEW x, NEW y, Bears(m, x), Bears(m, y)
  PROVE  x = y
BY DEF Bears, EmptyData, Header

LEMMA CarriesContents ==
  ASSUME NEW u \in Seq(Messages), NEW x \in Carries(u)
  PROVE  x \in Contents
<1>1. PICK i \in 1 .. Len(u) : Bears(u[i], x)
  BY CarriesIs
<1>2. u[i] \in Messages
  BY <1>1
<1>3. QED
  BY <1>1, <1>2, EmptyContent DEF Bears, Messages, HeaderTypes, Requests, Replies

\* A stream with one place for content has one content.
LEMMA OnePlace ==
  ASSUME NEW u \in Seq(Messages), NEW n,
         \A i \in 1 .. Len(u) : i = n \/ u[i].type \notin {"data", "FILE_DATA"} \/ Announces(u[i]),
         NEW x \in Carries(u), NEW y \in Carries(u)
  PROVE  x = y
<1>1. PICK i \in 1 .. Len(u) : Bears(u[i], x)
  BY CarriesIs
<1>2. PICK j \in 1 .. Len(u) : Bears(u[j], y)
  BY CarriesIs
<1>3. i = n /\ j = n
  BY <1>1, <1>2, BearsNone
<1>4. QED
  BY <1>1, <1>2, <1>3, BearsOne

LEMMA NoPlace ==
  ASSUME NEW u \in Seq(Messages),
         \A i \in 1 .. Len(u) : u[i].type \notin {"data", "FILE_DATA"} \/ Announces(u[i])
  PROVE  Carries(u) = {}
<1>1. \A x : x \notin Carries(u)
  BY CarriesIs, BearsNone
<1>2. QED
  BY <1>1

------------------------------------------------------------------------------
(* At most one content in a stream. *)

\* What is left of a reply that carries data, behind its first i messages.
LEMMA DataLeftOne ==
  ASSUME NEW D \in Seq(Messages), NEW i \in {0, 1}, DataLeft(D, i),
         \A j \in 1 .. i : j <= Len(D) => D[j].type \notin {"data", "FILE_DATA"},
         NEW x \in Carries(D), NEW y \in Carries(D)
  PROVE  x = y
<1>1. Len(D) \in Nat /\ Len(D) <= i + 2
  BY DEF DataLeft
<1>2. CASE Len(D) = i + 2
  <2>1. Announces(D[i + 1])
    BY <1>2 DEF DataLeft
  <2>2. \A j \in 1 .. Len(D) :
          j = i + 2 \/ D[j].type \notin {"data", "FILE_DATA"} \/ Announces(D[j])
    BY <1>2, <2>1
  <2>3. QED
    BY <2>2, OnePlace
<1>3. CASE Len(D) # i + 2
  <2>1. \A j \in 1 .. Len(D) :
          j = i + 1 \/ D[j].type \notin {"data", "FILE_DATA"} \/ Announces(D[j])
    BY <1>1, <1>3
  <2>2. QED
    BY <2>1, OnePlace
<1>4. QED
  BY <1>2, <1>3

LEMMA SumLeftNone ==
  ASSUME NEW D \in Seq(Messages), NEW i \in {0, 1}, SumLeft(D, i),
         \A j \in 1 .. i : j <= Len(D) => D[j].type \notin {"data", "FILE_DATA"}
  PROVE  Carries(D) = {}
<1>1. Len(D) \in Nat /\ Len(D) <= i + 2
  BY DEF SumLeft
<1>2. Announces(Header("FILE_DATA", 0, 1))
  BY DEF Announces, Header
<1>3. ASSUME NEW j \in 1 .. Len(D)
      PROVE  D[j].type \notin {"data", "FILE_DATA"} \/ Announces(D[j])
  <2>1. j <= i \/ j = i + 1 \/ j = i + 2
    BY <1>1
  <2>2. CASE j = i + 1
    BY <1>1, <1>2, <2>2 DEF SumLeft
  <2>3. CASE j = i + 2
    BY <1>1, <2>3 DEF SumLeft
  <2>4. QED
    BY <2>1, <2>2, <2>3
<1>4. QED
  BY <1>3, NoPlace

LEMMA LenOne == \A u \in Seq(Messages) : Len(u) # 0 /\ Len(u) <= 1 => Len(u) = 1
<1>1. ASSUME NEW n \in Nat, n # 0, n <= 1
      PROVE  n = 1
  BY <1>1
<1>2. \A u \in Seq(Messages) : Len(u) \in Nat
  OBVIOUS
<1>3. QED
  BY <1>1, <1>2, Zenon

\* A client's stream carries content only for a get.
LEMMA DownOne ==
  ASSUME NEW p \in ClientPcs \ {"exited", "killed"}, NEW D \in Seq(Messages), DownOK(p, D),
         NEW x \in Carries(D), NEW y \in Carries(D)
  PROVE  x = y /\ p \in {"get", "getdata", "getbody"}
<1>1. Len(D) \in Nat /\ Len(D) # 0
  BY LenZero, CarriesEmpty
<1>2. ASSUME NEW type, NEW st, IsReply(D, type, st)
      PROVE  D[1].type = type
  BY <1>2 DEF IsReply, Header
<1>3. CASE p \in {"get", "getdata", "getbody"}
  <2>1. CASE p = "get"
    <3>1. \/ IsReply(D, "GET_REPLY", 0) /\ Len(D) = 1
          \/ IsReply(D, "GET_REPLY", 1) /\ DataLeft(D, 1)
      BY <1>1, <2>1 DEF DownOK
    <3>2. D[1].type \notin {"data", "FILE_DATA"}
      BY <1>2, <3>1
    <3>3. CASE Len(D) = 1
      BY <3>2, <3>3, NoPlace
    <3>4. CASE DataLeft(D, 1)
      <4>1. \A j \in 1 .. 1 : j <= Len(D) => D[j].type \notin {"data", "FILE_DATA"}
        BY <3>2
      <4>2. QED
        BY <2>1, <3>4, <4>1, DataLeftOne
    <3>5. QED
      BY <2>1, <3>1, <3>3, <3>4
  <2>2. CASE p = "getdata"
    <3>1. DataLeft(D, 0)
      BY <2>2 DEF DownOK
    <3>2. QED
      BY <2>2, <3>1, DataLeftOne
  <2>3. CASE p = "getbody"
    <3>1. Len(D) <= 1
      BY <2>3, Zenon DEF DownOK
    <3>2. Len(D) = 1
      BY <1>1, <3>1, LenOne, Zenon
    <3>3. \A j \in 1 .. Len(D) :
            j = 1 \/ D[j].type \notin {"data", "FILE_DATA"} \/ Announces(D[j])
      BY <3>2
    <3>4. QED
      BY <2>3, <3>3, OnePlace
  <2>4. QED
    BY <1>3, <2>1, <2>2, <2>3
<1>4. CASE p \in {"prompt", "upload"}
  BY <1>1, <1>4, LenZero DEF DownOK
<1>5. CASE p \in {"open", "cd", "put", "quit", "shabody"}
  <2>0. Len(D) <= 1
    BY <1>5, Zenon DEF DownOK
  <2>1. Len(D) = 1
    BY <1>1, <2>0, LenOne, Zenon
  <2>2. D[1].type \notin {"data", "FILE_DATA"}
    BY <1>1, <1>2, <1>5 DEF DownOK
  <2>3. QED
    BY <2>1, <2>2, NoPlace
<1>6. CASE p = "ls"
  <2>1. \A j \in 1 .. Len(D) : D[j].type \notin {"data", "FILE_DATA"}
    BY <1>6 DEF DownOK
  <2>2. QED
    BY <2>1, NoPlace
<1>7. CASE p = "sha"
  <2>1. \/ IsReply(D, "SHA_REPLY", 0) /\ Len(D) = 1
        \/ IsReply(D, "SHA_REPLY", 1) /\ SumLeft(D, 1)
    BY <1>1, <1>7 DEF DownOK
  <2>2. D[1].type \notin {"data", "FILE_DATA"}
    BY <1>2, <2>1
  <2>3. CASE Len(D) = 1
    BY <2>2, <2>3, NoPlace
  <2>4. CASE SumLeft(D, 1)
    BY <2>2, <2>4, SumLeftNone
  <2>5. QED
    BY <2>1, <2>3, <2>4
<1>8. CASE p = "shadata"
  <2>1. SumLeft(D, 0)
    BY <1>8 DEF DownOK
  <2>2. QED
    BY <2>1, SumLeftNone
<1>9. QED
  BY <1>3, <1>4, <1>5, <1>6, <1>7, <1>8 DEF ClientPcs

\* A thread that waits for an upload finds one at most.
LEMMA RequestLeftNone ==
  ASSUME NEW U \in Seq(Messages), NEW i \in {0, 1, 2}, RequestLeft(U, i),
         NEW j \in i + 1 .. Len(U)
  PROVE  U[j].type \notin {"data", "FILE_DATA"}
<1>1. j = i + 1 \/ (j = i + 2 /\ Len(U) = i + 2)
  BY DEF RequestLeft
<1>2. QED
  BY <1>1 DEF RequestLeft, Requests

LEMMA UpOne ==
  ASSUME NEW pc \in {"filedata", "body"}, NEW U \in Seq(Messages), UpOK(pc, U),
         NEW x \in Carries(U), NEW y \in Carries(U)
  PROVE  x = y
<1>1. Len(U) \in Nat /\ Len(U) # 0
  BY LenZero, CarriesEmpty
<1>2. CASE RequestLeft(U, 1)
  <2>1. \A j \in 1 .. Len(U) : j = 1 \/ U[j].type \notin {"data", "FILE_DATA"}
    BY <1>2, RequestLeftNone
  <2>2. QED
    BY <2>1, OnePlace
<1>3. CASE Announces(U[1]) /\ (Len(U) > 1 => RequestLeft(U, 2))
  <2>1. \A j \in 1 .. Len(U) :
          j = 2 \/ U[j].type \notin {"data", "FILE_DATA"} \/ Announces(U[j])
    BY <1>1, <1>3, RequestLeftNone
  <2>2. QED
    BY <2>1, OnePlace
<1>4. QED
  BY <1>1, <1>2, <1>3 DEF UpOK

------------------------------------------------------------------------------
(* Which transfers there are, said of every client and content rather than *)
(* of a chosen one.                                                        *)

GetPcs == {"get", "getdata", "getbody"}

Sent(s) == Carries(conn[s].q["client"]) \cup Carries(session[s].out)

\* A download of x, to be stored as f, is under way on connection s ...
Reads(s, f, x) ==
  \E c \in Clients : Sock(c) = s /\ f = client[c].name /\ x \in Sent(s)

\* ... or an upload of x, to the file f of d.
Uploads(s, x) ==
  \/ /\ session[s].pc \in {"filedata", "body"}
     /\ \/ x \in Carries(conn[s].q["server"])
        \/ \E c \in Clients : Sock(c) = s /\ x \in Carries(client[c].out)
  \/ session[s].pc \in {"truncate", "write"} /\ x = session[s].buf

Writes(s, d, f, x) == Uploads(s, x) /\ d = session[s].cwd /\ f = session[s].name

\* The mapped variables say the same.
TransfersAre ==
  \A s \in Conns :
    /\ \A f, x : Reads(s, f, x) => Reading(s) = [name |-> f, data |-> x] /\ Reading(s) # Nothing
    /\ (\A f, x : ~Reads(s, f, x)) => Reading(s) = Nothing
    /\ \A d, f, x : Writes(s, d, f, x) =>
         Writing(s) = [dir |-> d, name |-> f, data |-> x] /\ Writing(s) # Nothing
    /\ (\A d, f, x : ~Writes(s, d, f, x)) => Writing(s) = Nothing
    /\ \A c \in Clients : \A x : Sock(c) = s /\ x \in Sent(s) => client[c].pc \in GetPcs

LEMMA Joined ==
  \A u, v \in Seq(Messages) : u \o v \in Seq(Messages) /\ Len(u \o v) \in Nat
<1> SUFFICES ASSUME NEW u \in Seq(Messages), NEW v \in Seq(Messages)
             PROVE  u \o v \in Seq(Messages) /\ Len(u \o v) \in Nat
  OBVIOUS
<1>1. QED
  BY Streams

LEMMA LiveOK ==
  ASSUME NEW cl \in ClientStates, NEW t \in Sessions, NEW U \in Seq(Messages),
         NEW D \in Seq(Messages), Live(cl, t, U, D)
  PROVE  DownOK(cl.pc, D) /\ UpOK(t.pc, U)
<1>1. ASSUME NEW u \in Seq(Messages)
      PROVE  Len(u) <= Len(u) /\ \A j \in 1 .. Len(u) : u[j] = u[j]
  <2>1. Len(u) \in Nat
    OBVIOUS
  <2>2. QED
    BY <2>1
<1>2. DownOK(cl.pc, D)
  BY <1>1, DownPrefix
<1>3. UpOK(t.pc, U)
  BY <1>1, UpPrefix
<1>4. QED
  BY <1>2, <1>3

\* What PairOK says of the streams while both ends are open.
LEMMA PairOpen ==
  ASSUME NEW cl, NEW t, NEW k, PairOK(cl, t, k), k.open["server"]
  PROVE  Live(cl, t, k.q["server"] \o cl.out, k.q["client"] \o t.out)
BY DEF PairOK

LEMMA HolderIs ==
  ASSUME IInv, NEW s \in Conns, NEW c \in Clients, Sock(c) = s
  PROVE  Sock(c) # Fresh /\ Held(s) /\ Holder(s) = client[c]
<1>1. Sock(c) # Fresh
  BY ClientAssumption
<1>2. \A d \in Clients : Sock(d) = s => d = c
  BY <1>1, HolderFacts
<1>3. (CHOOSE d \in Clients : Sock(d) = s) = c
  BY <1>2
<1>4. QED
  BY <1>1, <1>3 DEF Held, Holder

LEMMA DownSent ==
  ASSUME IInv, NEW s \in Conns
  PROVE  Down(s) \in Seq(Messages) /\ Carries(Down(s)) = Sent(s)
<1> DEFINE q == conn[s].q["client"]
           o == session[s].out
<1>1. q \in Seq(Messages) /\ o \in Seq(Messages)
  BY ThreadFacts
<1> HIDE DEF q, o
<1>2. q \o o \in Seq(Messages) /\ Carries(q \o o) = Carries(q) \cup Carries(o)
  BY <1>1, Streams, CarriesConcat
<1>3. QED
  BY <1>2 DEF Down, Sent, q, o

\* What a client that holds s finds there is what it expects.
LEMMA DownIsOK ==
  ASSUME IInv, NEW s \in Conns, NEW c \in Clients, Sock(c) = s
  PROVE  DownOK(client[c].pc, Down(s)) /\ client[c].pc \in ClientPcs \ {"exited", "killed"}
<1> DEFINE cl == client[c]
           k == conn[s]
           t == session[s]
           q == k.q["client"]
           D == q \o t.out
           U == k.q["server"] \o cl.out
<1>1. Sock(c) # Fresh /\ cl \in ClientStates /\ ClientOK(cl, disk[c]) /\ cl.sock = s
  BY HolderIs, HolderFacts, ClientFacts DEF IInv
<1>2. cl.pc \in ClientPcs \ {"exited", "killed"}
  <2>1. cl.pc \in ClientPcs
    BY <1>1 DEF ClientStates
  <2>2. s # Fresh
    BY ClientAssumption
  <2>3. QED
    BY <1>1, <2>1, <2>2 DEF ClientOK
<1>3. /\ PairOK(cl, t, k) /\ ConnOK(k, t, serverUp) /\ k.used
      /\ t \in Sessions /\ SessionOK(t, files) /\ q \in Seq(Messages) /\ t.out \in Seq(Messages)
  BY <1>1, OwnConn, ThreadFacts, TypeFacts, HolderFacts DEF IInv
<1>4. D \in Seq(Messages) /\ Len(D) \in Nat
  <2> HIDE DEF q, t
  <2>1. QED
    BY <1>3, Joined
<1>5. CASE k.open["server"]
  <2>0. U \in Seq(Messages)
    BY <1>1, <1>3, Streams, ThreadFacts, HolderFacts
  <2>1. Live(cl, t, U, D)
    <3> HIDE DEF cl, t, k
    <3>1. QED
      BY <1>3, <1>5, PairOpen
  <2> HIDE DEF D, U, cl, t
  <2>2. DownOK(cl.pc, D)
    BY <1>1, <1>3, <1>4, <2>0, <2>1, LiveOK
  <2>3. QED
    BY <1>2, <2>2 DEF D, cl, t, Down
<1>6. CASE ~k.open["server"]
  <2>1. t.pc = "done" /\ t.out = <<>>
    BY <1>3, <1>6 DEF ConnOK, SessionOK
  <2>2. q \o <<>> = q
    BY <1>3, Streams
  <2>3. Down(s) = q
    BY <2>1, <2>2 DEF Down
  <2>4. DownOK(cl.pc, q)
    BY <1>3, <1>6 DEF PairOK
  <2>5. QED
    BY <1>2, <2>3, <2>4
<1>7. QED
  BY <1>5, <1>6

LEMMA ReadingIs ==
  ASSUME IInv, NEW s \in Conns, NEW c \in Clients, Sock(c) = s, NEW x \in Sent(s)
  PROVE  /\ Reading(s) = [name |-> client[c].name, data |-> x] /\ Reading(s) # Nothing
         /\ client[c].pc \in GetPcs /\ client[c].name \in Names
<1> DEFINE D == Down(s)
           p == client[c].pc
<1>1. Held(s) /\ Holder(s) = client[c]
  BY HolderIs
<1>2. D \in Seq(Messages) /\ Carries(D) = Sent(s)
  BY DownSent
<1>3. DownOK(p, D) /\ p \in ClientPcs \ {"exited", "killed"}
  BY DownIsOK
<1> HIDE DEF D, p
<1>4. p \in {"get", "getdata", "getbody"} /\ \A y \in Carries(D) : y = x
  BY <1>2, <1>3, DownOne
<1>5. (CHOOSE y \in Carries(D) : TRUE) = x
  <2>1. Carries(D) = {x}
    BY <1>2, <1>4
  <2>2. (CHOOSE y \in {x} : TRUE) = x
    OBVIOUS
  <2>3. QED
    BY <2>1, <2>2
<1>6. Downloading(s) = Carries(D)
  BY <1>1 DEF Downloading, D
<1>7. Reading(s) = [name |-> client[c].name, data |-> x]
  BY <1>1, <1>2, <1>5, <1>6 DEF Reading
<1>8. client[c].name \in Names
  <2>1. ClientOK(client[c], disk[c])
    BY ClientFacts DEF IInv
  <2>2. p \in NamedPcs \cup {"getdata", "getbody", "upload"}
    BY <1>4 DEF NamedPcs
  <2>3. QED
    BY <2>1, <2>2 DEF ClientOK, p
<1>9. x \in Contents
  BY <1>2, CarriesContents
<1>10. [name |-> client[c].name, data |-> x] \in [name : Names \cup {NoArg}, data : Contents]
  BY <1>8, <1>9
<1>11. QED
  BY <1>4, <1>7, <1>8, <1>10, NothingAssumption DEF GetPcs, p

LEMMA NotReading ==
  ASSUME IInv, NEW s \in Conns, \A f, x : ~Reads(s, f, x)
  PROVE  Reading(s) = Nothing
<1>1. CASE Held(s)
  <2>1. PICK c \in Clients : Sock(c) = s
    BY <1>1 DEF Held
  <2>2. \A x : x \notin Sent(s)
    BY <2>1 DEF Reads
  <2>3. Downloading(s) = {}
    BY <1>1, <2>2, DownSent DEF Downloading
  <2>4. QED
    BY <2>3 DEF Reading
<1>2. CASE ~Held(s)
  BY <1>2 DEF Reading, Downloading
<1>3. QED
  BY <1>1, <1>2

\* The stream up to a thread that waits for an upload.
LEMMA UpIsOK ==
  ASSUME IInv, NEW s \in Conns, session[s].pc \in {"filedata", "body"}
  PROVE  /\ Up(s) \in Seq(Messages) /\ (Up(s) = <<>> \/ UpOK(session[s].pc, Up(s)))
         /\ \A x : x \in Carries(Up(s)) <=> Uploads(s, x)
<1> DEFINE k == conn[s]
           t == session[s]
           u == k.q["server"]
<1>1. /\ ConnOK(k, t, serverUp) /\ u \in Seq(Messages) /\ t \in Sessions
      /\ k.q["client"] \in Seq(Messages) /\ t.out \in Seq(Messages)
      /\ k.open["client"] \in BOOLEAN
  BY ThreadFacts
<1>2. \A x : Uploads(s, x) <=> \/ x \in Carries(u)
                               \/ \E c \in Clients : Sock(c) = s /\ x \in Carries(client[c].out)
  BY DEF Uploads
<1>3. CASE Held(s)
  <2>1. PICK c \in Clients : Sock(c) = s
    BY <1>3 DEF Held
  <2> DEFINE cl == client[c]
             U == u \o cl.out
             D == k.q["client"] \o t.out
  <2>2. /\ Sock(c) # Fresh /\ Holder(s) = cl /\ PairOK(cl, t, k) /\ k.used
        /\ cl \in ClientStates /\ cl.out \in Seq(Messages)
        /\ \A d \in Clients : Sock(d) = s => d = c
    BY <2>1, HolderIs, HolderFacts
  <2>3. k.open["server"]
    BY <1>1, <2>2 DEF ConnOK
  <2>4. Live(cl, t, U, D)
    <3> HIDE DEF cl, t, k
    <3>1. QED
      BY <2>2, <2>3, PairOpen
  <2>5. U \in Seq(Messages) /\ Len(U) \in Nat /\ Carries(U) = Carries(u) \cup Carries(cl.out)
    <3> DEFINE o == cl.out
    <3>1. o \in Seq(Messages) /\ u \in Seq(Messages)
      BY <1>1, <2>2
    <3> HIDE DEF o, u
    <3>2. u \o o \in Seq(Messages) /\ Len(u \o o) \in Nat
      BY <3>1, Joined
    <3>3. Carries(u \o o) = Carries(u) \cup Carries(o)
      BY <3>1, CarriesConcat
    <3>4. QED
      BY <3>2, <3>3 DEF o
  <2>6. Up(s) = U
    BY <1>3, <2>2 DEF Up
  <2>7. \A x : (\E d \in Clients : Sock(d) = s /\ x \in Carries(client[d].out))
                 <=> x \in Carries(cl.out)
    BY <2>1, <2>2
  <2>5a. D \in Seq(Messages)
    BY <1>1, Streams
  <2> HIDE DEF U, D, cl, t, u
  <2>8. UpOK(t.pc, U)
    BY <1>1, <2>2, <2>4, <2>5, <2>5a, LiveOK
  <2>9. QED
    BY <1>2, <2>5, <2>6, <2>7, <2>8 DEF t
<1>4. CASE ~Held(s)
  <2>1. ~k.open["client"]
    BY <1>4 DEF IInv
  <2>2. u \o <<>> = u
    BY <1>1, Streams
  <2>3. Up(s) = u
    BY <1>4, <2>2 DEF Up
  <2>4. \A x : Uploads(s, x) <=> x \in Carries(u)
    BY <1>2, <1>4 DEF Held
  <2>5. CASE k.open["server"]
    <3>1. UpOK(t.pc, u)
      BY <1>1, <2>1, <2>5 DEF ConnOK, Orphan
    <3>2. QED
      BY <1>1, <2>3, <2>4, <3>1
  <2>6. CASE ~k.open["server"]
    <3>1. u = <<>>
      BY <1>1, <2>6 DEF ConnOK
    <3>2. QED
      BY <1>1, <2>3, <2>4, <3>1
  <2>7. QED
    BY <2>5, <2>6
<1>5. QED
  BY <1>3, <1>4

LEMMA UploadingIs ==
  ASSUME IInv, NEW s \in Conns
  PROVE  /\ \A x : x \in Uploading(s) <=> Uploads(s, x)
         /\ \A x, y \in Uploading(s) : x = y
         /\ Uploading(s) \subseteq Contents
         /\ Uploading(s) # {} => session[s].name \in Names /\ session[s].cwd \in Dirs
<1>1. /\ SessionOK(session[s], files) /\ session[s].buf \in Contents
      /\ session[s].cwd \in Dirs
  BY TypeFacts DEF IInv
<1>2. CASE session[s].pc \in {"filedata", "body"}
  <2> DEFINE U == Up(s)
             p == session[s].pc
  <2>1. /\ U \in Seq(Messages) /\ (U = <<>> \/ UpOK(p, U))
        /\ \A x : x \in Carries(U) <=> Uploads(s, x)
    BY <1>2, UpIsOK
  <2>2. Uploading(s) = Carries(U)
    BY <1>2 DEF Uploading
  <2>3. p \in {"filedata", "body"}
    BY <1>2
  <2>4. session[s].name \in Names
    BY <1>1, <1>2 DEF SessionOK
  <2> HIDE DEF U, p
  <2>5. \A x, y \in Carries(U) : x = y
    <3>1. CASE U = <<>>
      BY <3>1, CarriesEmpty
    <3>2. CASE UpOK(p, U)
      BY <2>1, <2>3, <3>2, UpOne
    <3>3. QED
      BY <2>1, <3>1, <3>2
  <2>6. Carries(U) \subseteq Contents
    BY <2>1, CarriesContents
  <2>7. QED
    BY <1>1, <2>1, <2>2, <2>4, <2>5, <2>6
<1>3. CASE session[s].pc \in {"truncate", "write"}
  <2>1. Uploading(s) = {session[s].buf}
    BY <1>3 DEF Uploading
  <2>2. \A x : Uploads(s, x) <=> x = session[s].buf
    BY <1>3 DEF Uploads
  <2>3. session[s].name \in Names
    BY <1>1, <1>3 DEF SessionOK
  <2>4. QED
    BY <1>1, <2>1, <2>2, <2>3
<1>4. CASE session[s].pc \notin {"filedata", "body", "truncate", "write"}
  <2>1. Uploading(s) = {}
    BY <1>4 DEF Uploading
  <2>2. \A x : ~Uploads(s, x)
    BY <1>4 DEF Uploads
  <2>3. QED
    BY <2>1, <2>2
<1>5. QED
  BY <1>2, <1>3, <1>4

LEMMA WritingIs ==
  ASSUME IInv, NEW s \in Conns
  PROVE  /\ \A d, f, x : Writes(s, d, f, x) =>
              Writing(s) = [dir |-> d, name |-> f, data |-> x] /\ Writing(s) # Nothing
         /\ (\A d, f, x : ~Writes(s, d, f, x)) => Writing(s) = Nothing
<1> DEFINE W == Uploading(s)
<1>1. /\ \A x : x \in W <=> Uploads(s, x)
      /\ \A x, y \in W : x = y
      /\ W \subseteq Contents
      /\ W # {} => session[s].name \in Names /\ session[s].cwd \in Dirs
  BY UploadingIs
<1>2. Writing(s) = IF W = {} THEN Nothing
                   ELSE [dir  |-> session[s].cwd, name |-> session[s].name,
                         data |-> CHOOSE x \in W : TRUE]
  BY DEF Writing
<1> HIDE DEF W
<1>3. ASSUME NEW d, NEW f, NEW x, Writes(s, d, f, x)
      PROVE  Writing(s) = [dir |-> d, name |-> f, data |-> x] /\ Writing(s) # Nothing
  <2>1. x \in W /\ d = session[s].cwd /\ f = session[s].name
    BY <1>1, <1>3 DEF Writes
  <2>2. W = {x}
    BY <1>1, <2>1
  <2>3. (CHOOSE y \in {x} : TRUE) = x
    OBVIOUS
  <2>4. (CHOOSE y \in W : TRUE) = x
    BY <2>2, <2>3
  <2>5. Writing(s) = [dir |-> d, name |-> f, data |-> x]
    BY <1>2, <2>1, <2>4
  <2>6. d \in Dirs /\ f \in Names /\ x \in Contents
    BY <1>1, <2>1
  <2>7. [dir |-> d, name |-> f, data |-> x]
          \in [dir : Dirs, name : Names \cup {NoArg}, data : Contents]
    BY <2>6
  <2>8. QED
    BY <2>5, <2>7, NothingAssumption
<1>4. ASSUME \A d, f, x : ~Writes(s, d, f, x)
      PROVE  Writing(s) = Nothing
  <2>1. W = {}
    BY <1>1, <1>4 DEF Writes
  <2>2. QED
    BY <1>2, <2>1
<1>5. QED
  BY <1>3, <1>4

LEMMA TransfersThere == IInv => TransfersAre
<1> SUFFICES ASSUME IInv, NEW s \in Conns
    PROVE  /\ \A f, x : Reads(s, f, x) =>
                Reading(s) = [name |-> f, data |-> x] /\ Reading(s) # Nothing
           /\ (\A f, x : ~Reads(s, f, x)) => Reading(s) = Nothing
           /\ \A d, f, x : Writes(s, d, f, x) =>
                Writing(s) = [dir |-> d, name |-> f, data |-> x] /\ Writing(s) # Nothing
           /\ (\A d, f, x : ~Writes(s, d, f, x)) => Writing(s) = Nothing
           /\ \A c \in Clients : \A x : Sock(c) = s /\ x \in Sent(s) => client[c].pc \in GetPcs
  BY DEF TransfersAre
<1>1. ASSUME NEW f, NEW x, Reads(s, f, x)
      PROVE  Reading(s) = [name |-> f, data |-> x] /\ Reading(s) # Nothing
  <2>1. PICK c \in Clients : Sock(c) = s /\ f = client[c].name /\ x \in Sent(s)
    BY <1>1 DEF Reads
  <2>2. QED
    BY <2>1, ReadingIs
<1>2. ASSUME NEW c \in Clients, NEW x, Sock(c) = s, x \in Sent(s)
      PROVE  client[c].pc \in GetPcs
  BY <1>2, ReadingIs
<1>3. QED
  BY <1>1, <1>2, NotReading, WritingIs

------------------------------------------------------------------------------
(* Steps of the abstract service. *)

LessRead(s)    == \A f, x : Reads(s, f, x)' => Reads(s, f, x)
LessWritten(s) == \A d, f, x : Writes(s, d, f, x)' => Writes(s, d, f, x)
SameRead(s)    == \A f, x : Reads(s, f, x)' <=> Reads(s, f, x)
SameWritten(s) == \A d, f, x : Writes(s, d, f, x)' <=> Writes(s, d, f, x)

LEMMA ReadingLess ==
  ASSUME TransfersAre, TransfersAre', NEW s \in Conns, LessRead(s)
  PROVE  Reading(s)' = Nothing \/ Reading(s)' = Reading(s)
<1>1. /\ \A f, x : Reads(s, f, x)' => Reading(s)' = [name |-> f, data |-> x]
      /\ (\A f, x : ~Reads(s, f, x)') => Reading(s)' = Nothing
  BY DEF TransfersAre
<1>2. \A f, x : Reads(s, f, x) => Reading(s) = [name |-> f, data |-> x]
  BY DEF TransfersAre
<1>3. QED
  BY <1>1, <1>2 DEF LessRead

LEMMA WritingLess ==
  ASSUME TransfersAre, TransfersAre', NEW s \in Conns, LessWritten(s)
  PROVE  Writing(s)' = Nothing \/ Writing(s)' = Writing(s)
<1>1. /\ \A d, f, x : Writes(s, d, f, x)' =>
           Writing(s)' = [dir |-> d, name |-> f, data |-> x]
      /\ (\A d, f, x : ~Writes(s, d, f, x)') => Writing(s)' = Nothing
  BY DEF TransfersAre
<1>2. \A d, f, x : Writes(s, d, f, x) => Writing(s) = [dir |-> d, name |-> f, data |-> x]
  BY DEF TransfersAre
<1>3. QED
  BY <1>1, <1>2 DEF LessWritten

LEMMA ReadingSame ==
  ASSUME TransfersAre, TransfersAre', NEW s \in Conns, SameRead(s)
  PROVE  Reading(s)' = Reading(s)
<1>1. /\ \A f, x : Reads(s, f, x)' => Reading(s)' = [name |-> f, data |-> x]
      /\ (\A f, x : ~Reads(s, f, x)') => Reading(s)' = Nothing
  BY DEF TransfersAre
<1>2. /\ \A f, x : Reads(s, f, x) => Reading(s) = [name |-> f, data |-> x]
      /\ (\A f, x : ~Reads(s, f, x)) => Reading(s) = Nothing
  BY DEF TransfersAre
<1>3. QED
  BY <1>1, <1>2 DEF SameRead

LEMMA WritingSame ==
  ASSUME TransfersAre, TransfersAre', NEW s \in Conns, SameWritten(s)
  PROVE  Writing(s)' = Writing(s)
<1>1. /\ \A d, f, x : Writes(s, d, f, x)' =>
           Writing(s)' = [dir |-> d, name |-> f, data |-> x]
      /\ (\A d, f, x : ~Writes(s, d, f, x)') => Writing(s)' = Nothing
  BY DEF TransfersAre
<1>2. /\ \A d, f, x : Writes(s, d, f, x) =>
           Writing(s) = [dir |-> d, name |-> f, data |-> x]
      /\ (\A d, f, x : ~Writes(s, d, f, x)) => Writing(s) = Nothing
  BY DEF TransfersAre
<1>3. QED
  BY <1>1, <1>2 DEF SameWritten

LEMMA AbandonStep ==
  ASSUME TransfersAre, TransfersAre', UNCHANGED <<files, disk>>,
         \A s \in Conns : LessRead(s) /\ LessWritten(s)
  PROVE  FS!Abandon
<1> DEFINE R == {s \in Conns : Reading(s)' = Nothing}
           W == {s \in Conns : Writing(s)' = Nothing}
<1>1. \A s \in Conns : Reading(s)' = IF s \in R THEN Nothing ELSE Reading(s)
  BY ReadingLess
<1>2. \A s \in Conns : Writing(s)' = IF s \in W THEN Nothing ELSE Writing(s)
  BY WritingLess
<1>3. R \in SUBSET Conns /\ W \in SUBSET Conns
  OBVIOUS
<1>4. readings' = [s \in Conns |-> Reading(s)'] /\ writings' = [s \in Conns |-> Writing(s)']
  BY DEF readings, writings
<1> HIDE DEF R, W
<1>5. readings' = [s \in Conns |-> IF s \in R THEN Nothing ELSE readings[s]]
  BY <1>1, <1>4 DEF readings
<1>6. writings' = [s \in Conns |-> IF s \in W THEN Nothing ELSE writings[s]]
  BY <1>2, <1>4 DEF writings
<1>7. QED
  BY <1>3, <1>5, <1>6 DEF FS!Abandon

\* A connection that a step does not touch.
LEMMA Untouched ==
  ASSUME NEW s \in Conns, conn[s]' = conn[s], session[s]' = session[s],
         \A c \in Clients : Sock(c)' = s <=> Sock(c) = s,
         \A c \in Clients : Sock(c) = s => client[c]' = client[c]
  PROVE  SameRead(s) /\ SameWritten(s) /\ LessRead(s) /\ LessWritten(s)
<1>1. Sent(s)' = Sent(s)
  BY DEF Sent
<1>2. \A f, x : Reads(s, f, x)' <=> Reads(s, f, x)
  BY <1>1 DEF Reads
<1>3. \A x : Uploads(s, x)' <=> Uploads(s, x)
  BY DEF Uploads
<1>4. \A d, f, x : Writes(s, d, f, x)' <=> Writes(s, d, f, x)
  BY <1>3 DEF Writes
<1>5. QED
  BY <1>2, <1>4 DEF SameRead, SameWritten, LessRead, LessWritten

LEMMA TransfersNext == IInv' => TransfersAre'
BY TransfersThere, PTL

------------------------------------------------------------------------------
(* Steps of a thread. *)

UploadPcs == {"filedata", "body", "truncate", "write"}

LEMMA ServerOthers ==
  ASSUME IInv, NEW s \in Conns, NEW k, NEW t, conn' = [conn EXCEPT ![s] = k],
         session' = [session EXCEPT ![s] = t], UNCHANGED clientVars,
         NEW r \in Conns, r # s
  PROVE  SameRead(r) /\ SameWritten(r) /\ LessRead(r) /\ LessWritten(r)
<1>1. conn \in [Conns -> Connections] /\ session \in [Conns -> Sessions]
  BY DEF IInv, TypeInv, TypeOK
<1>2. conn[r]' = conn[r] /\ session[r]' = session[r]
  BY <1>1
<1>3. client' = client
  BY DEF clientVars
<1>4. \A c \in Clients : Sock(c)' = Sock(c) /\ client[c]' = client[c]
  BY <1>3 DEF Sock
<1>5. QED
  BY <1>2, <1>4, Untouched

\* The connection of the thread itself.
LEMMA ServerOwn ==
  ASSUME IInv, NEW s \in Conns, NEW k, NEW t, conn' = [conn EXCEPT ![s] = k],
         session' = [session EXCEPT ![s] = t], UNCHANGED clientVars
  PROVE  /\ conn[s]' = k /\ session[s]' = t
         /\ \A c \in Clients : Sock(c)' = Sock(c) /\ client[c]' = client[c]
         /\ Sent(s)' = Carries(k.q["client"]) \cup Carries(t.out)
<1>1. conn \in [Conns -> Connections] /\ session \in [Conns -> Sessions]
  BY DEF IInv, TypeInv, TypeOK
<1>2. conn[s]' = k /\ session[s]' = t
  BY <1>1
<1>3. client' = client
  BY DEF clientVars
<1>4. \A c \in Clients : Sock(c)' = Sock(c) /\ client[c]' = client[c]
  BY <1>3 DEF Sock
<1>5. Sent(s)' = Carries(k.q["client"]) \cup Carries(t.out)
  BY <1>2 DEF Sent
<1>6. QED
  BY <1>2, <1>4, <1>5

LEMMA ServerReads ==
  ASSUME IInv, NEW s \in Conns, NEW k, NEW t, conn' = [conn EXCEPT ![s] = k],
         session' = [session EXCEPT ![s] = t], UNCHANGED clientVars
  PROVE  /\ Sent(s)' \subseteq Sent(s) => LessRead(s)
         /\ Sent(s)' = Sent(s) => SameRead(s)
         /\ Sent(s)' = Carries(k.q["client"]) \cup Carries(t.out)
<1>1. \A c \in Clients : Sock(c)' = Sock(c) /\ client[c]' = client[c]
  BY ServerOwn
<1>2. ASSUME Sent(s)' \subseteq Sent(s), NEW f, NEW x, Reads(s, f, x)'
      PROVE  Reads(s, f, x)
  BY <1>1, <1>2 DEF Reads
<1>3. ASSUME Sent(s)' = Sent(s), NEW f, NEW x, Reads(s, f, x)
      PROVE  Reads(s, f, x)'
  BY <1>1, <1>3 DEF Reads
<1>4. QED
  BY <1>2, <1>3, ServerOwn DEF LessRead, SameRead

LEMMA ServerWrites ==
  ASSUME IInv, NEW s \in Conns, NEW k, NEW t, conn' = [conn EXCEPT ![s] = k],
         session' = [session EXCEPT ![s] = t], UNCHANGED clientVars
  PROVE  /\ t.pc \notin UploadPcs => LessWritten(s)
         /\ /\ t.cwd = session[s].cwd /\ t.name = session[s].name
            /\ t.pc \in {"filedata", "body"} =>
                 /\ session[s].pc \in {"filedata", "body"}
                 /\ Carries(k.q["server"]) \subseteq Carries(conn[s].q["server"])
            /\ t.pc \in {"truncate", "write"} => Uploads(s, t.buf)
            => LessWritten(s)
<1>1. /\ conn[s]' = k /\ session[s]' = t
      /\ \A c \in Clients : Sock(c)' = Sock(c) /\ client[c]' = client[c]
  BY ServerOwn
<1>2. \A x : Uploads(s, x)' <=>
        \/ /\ t.pc \in {"filedata", "body"}
           /\ \/ x \in Carries(k.q["server"])
              \/ \E c \in Clients : Sock(c) = s /\ x \in Carries(client[c].out)
        \/ t.pc \in {"truncate", "write"} /\ x = t.buf
  BY <1>1 DEF Uploads
<1>3. \A d, f, x : Writes(s, d, f, x)' <=> Uploads(s, x)' /\ d = t.cwd /\ f = t.name
  BY <1>1 DEF Writes
<1>4. CASE t.pc \notin UploadPcs
  BY <1>2, <1>3, <1>4 DEF UploadPcs, LessWritten
<1>5. CASE /\ t.cwd = session[s].cwd /\ t.name = session[s].name
           /\ t.pc \in {"filedata", "body"} =>
                /\ session[s].pc \in {"filedata", "body"}
                /\ Carries(k.q["server"]) \subseteq Carries(conn[s].q["server"])
           /\ t.pc \in {"truncate", "write"} => Uploads(s, t.buf)
  <2> SUFFICES ASSUME NEW d, NEW f, NEW x, Writes(s, d, f, x)'
               PROVE  Writes(s, d, f, x)
    BY DEF LessWritten
  <2>1. Uploads(s, x)' /\ d = session[s].cwd /\ f = session[s].name
    BY <1>3, <1>5
  <2>2. Uploads(s, x)
    <3>1. CASE t.pc \in {"truncate", "write"}
      BY <1>2, <1>5, <2>1, <3>1
    <3>2. CASE t.pc \in {"filedata", "body"}
      BY <1>2, <1>5, <2>1, <3>2 DEF Uploads
    <3>3. QED
      BY <1>2, <2>1, <3>1, <3>2
  <2>3. QED
    BY <2>1, <2>2 DEF Writes
<1>6. QED
  BY <1>4, <1>5

\* A step of a thread that brings no content into a stream.
LEMMA ServerLess ==
  ASSUME IInv, IInv', NEW s \in Conns, NEW k, NEW t, conn' = [conn EXCEPT ![s] = k],
         session' = [session EXCEPT ![s] = t], UNCHANGED clientVars, files' = files,
         Carries(k.q["client"]) \cup Carries(t.out) \subseteq Sent(s), LessWritten(s)
  PROVE  FS!Abandon
<1>1. TransfersAre /\ TransfersAre'
  BY TransfersThere, TransfersNext
<1>2. LessRead(s)
  BY ServerReads
<1>3. \A r \in Conns : LessRead(r) /\ LessWritten(r)
  BY <1>2, ServerOthers
<1>4. UNCHANGED <<files, disk>>
  BY DEF clientVars
<1>5. QED
  BY <1>1, <1>3, <1>4, AbandonStep

LEMMA ServerAbandons ==
  ASSUME IInv, IInv', NEW s \in Conns, NEW k, NEW t, conn' = [conn EXCEPT ![s] = k],
         session' = [session EXCEPT ![s] = t], UNCHANGED clientVars, files' = files,
         Carries(k.q["client"]) \cup Carries(t.out) \subseteq Sent(s),
         \/ t.pc \notin UploadPcs
         \/ /\ t.cwd = session[s].cwd /\ t.name = session[s].name
            /\ t.pc \in {"filedata", "body"} =>
                 /\ session[s].pc \in {"filedata", "body"}
                 /\ Carries(k.q["server"]) \subseteq Carries(conn[s].q["server"])
            /\ t.pc \in {"truncate", "write"} => Uploads(s, t.buf)
  PROVE  FS!Abandon
<1>1. LessWritten(s)
  BY ServerWrites
<1>2. QED
  BY <1>1, ServerLess

\* Messages that are no file content.
LEMMA PlainCarry ==
  ASSUME NEW m \in Messages, m.type \notin {"data", "FILE_DATA"}
  PROVE  Carries(<<m>>) = {}
<1>1. \A x : ~Bears(m, x)
  BY BearsNone
<1>2. QED
  BY <1>1, CarriesOne

LEMMA PlainReplies ==
  ASSUME NEW t \in HeaderTypes \ {"FILE_DATA"}, NEW st \in {0, 1}, NEW n \in Nat
  PROVE  Carries(<<Header(t, st, n)>>) = {}
<1> DEFINE m == Header(t, st, n)
<1>1. m \in Messages /\ m.type = t
  BY HeaderType
<1>2. t \notin {"data", "FILE_DATA"}
  BY HeaderTypesAre
<1> HIDE DEF m
<1>3. Carries(<<m>>) = {}
  BY <1>1, <1>2, PlainCarry
<1>4. QED
  BY <1>3 DEF m

LEMMA TailCarries ==
  ASSUME NEW u \in Seq(Messages), u # <<>>
  PROVE  Carries(Tail(u)) \subseteq Carries(u)
BY CarriesTail

LEMMA HangUpAbandons ==
  ASSUME IInv, IInv', NEW s \in Conns, NEW k \in Connections,
         k.q["client"] = conn[s].q["client"], HangUp(s, k), files' = files,
         UNCHANGED clientVars
  PROVE  FS!Abandon
<1> DEFINE z == Closed(k, "server")
           t == Exited(session[s])
<1>1. t.pc = "done" /\ t.out = <<>>
  BY ThreadFacts, ExitedType
<1>2. z.q["client"] = conn[s].q["client"] \/ z.q["client"] = <<>>
  <2>1. k.open["client"] \in BOOLEAN
    BY PeerOf, StreamTypes
  <2>2. QED
    BY <2>1, ServerCloses, SpentFields
<1>3. conn' = [conn EXCEPT ![s] = z] /\ session' = [session EXCEPT ![s] = t]
  BY DEF HangUp
<1> HIDE DEF z, t
<1>4. Carries(z.q["client"]) \cup Carries(t.out) \subseteq Sent(s)
  BY <1>1, <1>2, CarriesEmpty DEF Sent
<1>5. t.pc \notin UploadPcs
  BY <1>1 DEF UploadPcs
<1>6. QED
  BY <1>3, <1>4, <1>5, ServerAbandons

LEMMA KilledAbandons ==
  ASSUME IInv, IInv', Killed, files' = files, UNCHANGED clientVars
  PROVE  FS!Abandon
<1>1. ASSUME NEW s \in Conns
      PROVE  LessRead(s) /\ LessWritten(s)
  <2>1. conn \in [Conns -> Connections] /\ session \in [Conns -> Sessions]
    BY DEF IInv, TypeInv, TypeOK
  <2>2. session[s]' = Exited(session[s])
    BY <2>1 DEF Killed
  <2>3. session[s]'.pc = "done" /\ session[s]'.out = <<>>
    BY <2>2, ThreadFacts, ExitedType
  <2>4. conn[s]' = IF conn[s].open["server"] THEN Closed(conn[s], "server") ELSE conn[s]
    BY <2>1 DEF Killed
  <2>5. conn[s]'.q["client"] = conn[s].q["client"] \/ conn[s]'.q["client"] = <<>>
    BY <2>4, ThreadFacts, ServerCloses, SpentFields
  <2>6. Sent(s)' \subseteq Sent(s)
    <3> DEFINE q == conn[s]'.q["client"]
               o == session[s]'.out
    <3>1. Sent(s)' = Carries(q) \cup Carries(o)
      BY DEF Sent
    <3>2. (q = conn[s].q["client"] \/ q = <<>>) /\ o = <<>>
      BY <2>3, <2>5
    <3> HIDE DEF q, o
    <3>3. QED
      BY <3>1, <3>2, CarriesEmpty DEF Sent
  <2>7. \A c \in Clients : Sock(c)' = Sock(c) /\ client[c]' = client[c]
    BY DEF clientVars, Sock
  <2>8. LessRead(s)
    BY <2>6, <2>7 DEF LessRead, Reads
  <2>9. \A x : ~Uploads(s, x)'
    BY <2>3 DEF Uploads
  <2>10. LessWritten(s)
    BY <2>9 DEF LessWritten, Writes
  <2>11. QED
    BY <2>8, <2>10
<1>2. UNCHANGED <<files, disk>>
  BY DEF clientVars
<1>3. TransfersAre /\ TransfersAre'
  BY TransfersThere, TransfersNext
<1>4. QED
  BY <1>1, <1>2, <1>3, AbandonStep

LEMMA RestartAbandons ==
  ASSUME IInv, IInv', Restart, UNCHANGED clientVars
  PROVE  FS!Abandon
<1>1. ASSUME NEW s \in Conns
      PROVE  LessRead(s) /\ LessWritten(s)
  <2>1. session \in [Conns -> Sessions]
    BY DEF IInv, TypeInv, TypeOK
  <2>2. session[s]' = IF conn[s].used THEN [NewSession EXCEPT !.pc = "done"] ELSE NewSession
    BY <2>1 DEF Restart
  <2>3. session[s]'.pc \in {"new", "done"} /\ session[s]'.out = <<>>
    BY <2>2 DEF NewSession
  <2>4. conn[s]' = conn[s]
    BY DEF Restart
  <2>5. Sent(s)' \subseteq Sent(s)
    <3> DEFINE o == session[s]'.out
    <3>1. Sent(s)' = Carries(conn[s].q["client"]) \cup Carries(o)
      BY <2>4 DEF Sent
    <3>2. o = <<>>
      BY <2>3
    <3> HIDE DEF o
    <3>3. QED
      BY <3>1, <3>2, CarriesEmpty DEF Sent
  <2>6. \A c \in Clients : Sock(c)' = Sock(c) /\ client[c]' = client[c]
    BY DEF clientVars, Sock
  <2>7. LessRead(s)
    BY <2>5, <2>6 DEF LessRead, Reads
  <2>8. \A x : ~Uploads(s, x)'
    BY <2>3 DEF Uploads
  <2>9. LessWritten(s)
    BY <2>8 DEF LessWritten, Writes
  <2>10. QED
    BY <2>7, <2>9
<1>2. UNCHANGED <<files, disk>>
  BY DEF clientVars, Restart
<1>3. TransfersAre /\ TransfersAre'
  BY TransfersThere, TransfersNext
<1>4. QED
  BY <1>1, <1>2, <1>3, AbandonStep

\* ... and where nothing is left to an upload.
LEMMA ServerPlain ==
  ASSUME IInv, IInv', NEW s \in Conns, NEW k, NEW t, conn' = [conn EXCEPT ![s] = k],
         session' = [session EXCEPT ![s] = t], UNCHANGED clientVars, files' = files,
         k.q["client"] = conn[s].q["client"], Carries(t.out) = {}, t.pc \notin UploadPcs
  PROVE  FS!Abandon
<1>1. Carries(k.q["client"]) \cup Carries(t.out) \subseteq Sent(s)
  BY DEF Sent
<1>2. QED
  BY <1>1, ServerAbandons

LEMMA TakenIs ==
  ASSUME IInv, NEW s \in Conns, NEW pc, Arrived(s, pc)
  PROVE  /\ Taken(s) \in Connections /\ Taken(s).q["client"] = conn[s].q["client"]
         /\ Taken(s).q["server"] = Tail(conn[s].q["server"])
         /\ conn[s].q["server"] # <<>> /\ conn[s].q["server"] \in Seq(Messages)
         /\ Incoming(s) = Head(conn[s].q["server"]) /\ Incoming(s) \in Messages
         /\ session[s].pc = pc /\ session[s].out = <<>>
<1>1. conn[s] \in Connections /\ HasData(conn[s], "server")
  BY ThreadFacts DEF Arrived
<1>2. QED
  BY <1>1, ServerReceives, ThreadFacts, ArrivedType DEF Taken, HasData, Incoming, First, IInv

LEMMA AcceptStep ==
  ASSUME IInv, IInv', NEW s \in Conns, Accept(s), UNCHANGED clientVars
  PROVE  FS!Abandon
<1> DEFINE t == [session[s] EXCEPT !.pc = "open"]
<1>1. session' = [session EXCEPT ![s] = t] /\ UNCHANGED <<conn, files>>
  BY DEF Accept
<1>2. conn' = [conn EXCEPT ![s] = conn[s]]
  BY <1>1, ConnSame DEF IInv
<1>3. t.pc = "open" /\ t.out = <<>>
  BY ThreadFacts DEF Accept, At, Sessions
<1> HIDE DEF t
<1>4. Carries(t.out) = {} /\ t.pc \notin UploadPcs
  BY <1>3, CarriesEmpty DEF UploadPcs
<1>5. QED
  BY <1>1, <1>2, <1>4, ServerPlain

LEMMA ServerSendStep ==
  ASSUME IInv, IInv', NEW s \in Conns, ServerSend(s), UNCHANGED clientVars
  PROVE  FS!Abandon
<1> DEFINE k   == conn[s]
           out == session[s].out
           ms  == <<Head(out)>>
           z   == AfterSend(k, "server", ms)
           t   == [session[s] EXCEPT !.pc = session[s].pc, !.out = Tail(out)]
<1>1. out # <<>> /\ out \in Seq(Messages) /\ k \in Connections
      /\ files' = files /\ k.q["client"] \in Seq(Messages) /\ k.open["client"] \in BOOLEAN
  BY ThreadFacts DEF ServerSend
<1>2. /\ ms \in Seq(Messages) /\ Tail(out) \in Seq(Messages)
      /\ Carries(out) = Carries(ms) \cup Carries(Tail(out))
  <2> HIDE DEF out
  <2>1. Head(out) \in Messages /\ Tail(out) \in Seq(Messages)
        /\ Carries(out) = Carries(<<Head(out)>>) \cup Carries(Tail(out))
    BY <1>1, CarriesTail
  <2>2. QED
    BY <2>1
<1>3. /\ z \in Connections /\ z.q["server"] = k.q["server"]
      /\ \/ k.err["server"] = "none" /\ z.q["client"] = k.q["client"] \o ms
         \/ z.q["client"] = k.q["client"]
      /\ k.err["server"] # "none" => z.q["client"] = k.q["client"]
  <2>1. z = AfterSend(k, "server", ms)
    OBVIOUS
  <2>2. k \in Connections /\ k.open["client"] \in BOOLEAN
    BY <1>1
  <2>3. ms \in Seq(Messages)
    BY <1>2
  <2> HIDE DEF k, ms, out, z
  <2>4. /\ z \in Connections /\ z.q["server"] = k.q["server"]
        /\ k.err["server"] = "none" /\ k.open["client"] => z.q["client"] = k.q["client"] \o ms
        /\ k.err["server"] = "none" /\ ~k.open["client"] => z.q["client"] = k.q["client"]
        /\ k.err["server"] # "none" => z.q["client"] = k.q["client"]
    BY <2>1, <2>2, <2>3, ServerSends, SMT
  <2>5. CASE k.err["server"] = "none" /\ k.open["client"]
    BY <2>4, <2>5
  <2>6. CASE k.err["server"] = "none" /\ ~k.open["client"]
    BY <2>4, <2>6
  <2>7. CASE k.err["server"] # "none"
    BY <2>4, <2>7
  <2>8. QED
    BY <2>2, <2>5, <2>6, <2>7
<1>4. CASE SendResult(k, "server") = "ok"
  <2>1. conn' = [conn EXCEPT ![s] = z] /\ session' = [session EXCEPT ![s] = t]
    BY <1>4 DEF ServerSend, Goto
  <2>2. /\ t.pc = session[s].pc /\ t.out = Tail(out) /\ t.name = session[s].name
        /\ t.cwd = session[s].cwd /\ t.buf = session[s].buf
    BY ThreadFacts DEF Sessions
  <2> DEFINE q == z.q["client"]
  <2>3. Carries(q) \subseteq Carries(k.q["client"]) \cup Carries(ms)
    <3> DEFINE d == k.q["client"]
    <3>1. d \in Seq(Messages) /\ (q = d \o ms \/ q = d)
      BY <1>1, <1>3
    <3>2. ms \in Seq(Messages)
      BY <1>2
    <3> HIDE DEF d, q, ms
    <3>3. Carries(d \o ms) = Carries(d) \cup Carries(ms)
      BY <3>1, <3>2, CarriesConcat
    <3>4. QED
      BY <3>1, <3>3 DEF d
  <2> HIDE DEF t, z, ms
  <2>4. Carries(z.q["client"]) \cup Carries(t.out) \subseteq Sent(s)
    BY <1>2, <2>2, <2>3 DEF Sent
  <2>5. t.pc \in {"truncate", "write"} => Uploads(s, t.buf)
    BY <2>2 DEF Uploads
  <2>6. QED
    BY <1>1, <1>3, <2>1, <2>2, <2>4, <2>5, ServerAbandons
<1>5. CASE SendResult(k, "server") = "error"
  <2>1. HangUp(s, z)
    BY <1>5 DEF ServerSend
  <2>2. k.err["server"] # "none"
    BY <1>5 DEF SendResult
  <2> HIDE DEF z
  <2>3. QED
    BY <1>1, <1>3, <2>1, <2>2, HangUpAbandons
<1>6. CASE SendResult(k, "server") \notin {"ok", "error"}
  <2>1. Killed
    BY <1>6 DEF ServerSend
  <2>2. QED
    BY <1>1, <2>1, KilledAbandons
<1>7. QED
  BY <1>4, <1>5, <1>6

LEMMA RecvFailsStep ==
  ASSUME IInv, IInv', NEW s \in Conns, RecvFails(s), UNCHANGED clientVars
  PROVE  FS!Abandon
<1> DEFINE k == AfterEnded(conn[s], "server")
<1>1. k \in Connections /\ k.q = conn[s].q
  BY ThreadFacts, PeerOf, AfterEndedType, AfterEndedFields
<1>2. HangUp(s, k) /\ files' = files
  BY DEF RecvFails
<1> HIDE DEF k
<1>3. QED
  BY <1>1, <1>2, HangUpAbandons

LEMMA RecvOpenRequestStep ==
  ASSUME IInv, IInv', NEW s \in Conns, RecvOpenRequest(s), UNCHANGED clientVars
  PROVE  FS!Abandon
<1> DEFINE k == Taken(s)
           reply == <<Header("OPEN_CONN_REPLY", 1, 0)>>
           t == [session[s] EXCEPT !.pc = "request", !.out = reply]
<1>1. k \in Connections /\ k.q["client"] = conn[s].q["client"] /\ files' = files
  BY TakenIs DEF RecvOpenRequest
<1>2. Carries(reply) = {}
  <2>1. "OPEN_CONN_REPLY" \in HeaderTypes \ {"FILE_DATA"}
    BY DEF HeaderTypes
  <2>2. QED
    BY <2>1, PlainReplies
<1>3. CASE HangUp(s, k)
  <2> HIDE DEF k
  <2>1. QED
    BY <1>1, <1>3, HangUpAbandons
<1>4. CASE Goto(s, k, "request", reply)
  <2>1. conn' = [conn EXCEPT ![s] = k] /\ session' = [session EXCEPT ![s] = t]
    BY <1>4 DEF Goto
  <2>2. t.pc = "request" /\ t.out = reply
    BY ThreadFacts DEF Sessions
  <2> HIDE DEF k, t, reply
  <2>3. QED
    BY <1>1, <1>2, <2>1, <2>2, ServerPlain DEF UploadPcs
<1>5. QED
  BY <1>3, <1>4 DEF RecvOpenRequest

LEMMA PlainTwo ==
  ASSUME NEW m \in Messages, NEW n \in Messages,
         m.type \notin {"data", "FILE_DATA"} \/ Announces(m),
         n.type \notin {"data", "FILE_DATA"} \/ Announces(n)
  PROVE  Carries(<<m, n>>) = {}
<1> DEFINE u == <<m, n>>
<1>1. u \in Seq(Messages) /\ Len(u) = 2 /\ u[1] = m /\ u[2] = n
  OBVIOUS
<1> HIDE DEF u
<1>2. ASSUME NEW i \in 1 .. Len(u)
      PROVE  u[i].type \notin {"data", "FILE_DATA"} \/ Announces(u[i])
  <2>1. i = 1 \/ i = 2
    BY <1>1
  <2>2. QED
    BY <1>1, <2>1
<1>3. Carries(u) = {}
  BY <1>1, <1>2, NoPlace
<1>4. QED
  BY <1>3 DEF u

LEMMA PlainTexts ==
  /\ Carries(ListReply) = {}
  /\ \A x \in Contents : Carries(ShaData(x)) = {}
  /\ \A t \in Requests, f \in Names : Carries(NameRequest(t, f)) = {}
<1>1. Carries(ListReply) = {}
  <2> DEFINE m == Header("LIST_REPLY", 0, 1)
             n == Payload("text", NoArg)
  <2>0. "LIST_REPLY" \in HeaderTypes
    BY DEF HeaderTypes, Replies
  <2>1. m \in Messages /\ m.type = "LIST_REPLY" /\ n \in Messages /\ n.type = "text"
    BY <2>0, HeaderType, PayloadType, HeaderFields
  <2>2. ListReply = <<m, n>>
    BY DEF ListReply
  <2> HIDE DEF m, n
  <2>3. QED
    BY <2>1, <2>2, PlainTwo
<1>2. ASSUME NEW x \in Contents
      PROVE  Carries(ShaData(x)) = {}
  <2> DEFINE m == Header("FILE_DATA", 0, 1)
             n == Payload("digest", x)
  <2>0. "FILE_DATA" \in HeaderTypes
    BY DEF HeaderTypes
  <2>1. m \in Messages /\ Announces(m) /\ n \in Messages /\ n.type = "digest"
    BY <2>0, HeaderType, PayloadType, HeaderFields DEF Announces
  <2>2. ShaData(x) = <<m, n>>
    BY DEF ShaData
  <2> HIDE DEF m, n
  <2>3. QED
    BY <2>1, <2>2, PlainTwo
<1>3. ASSUME NEW t \in Requests, NEW f \in Names
      PROVE  Carries(NameRequest(t, f)) = {}
  <2> DEFINE m == Header(t, 0, 1)
             n == Payload("name", f)
  <2>0. t \in HeaderTypes /\ t \notin {"data", "FILE_DATA"}
    BY DEF HeaderTypes, Requests
  <2>1. m \in Messages /\ m.type = t /\ n \in Messages /\ n.type = "name"
    BY <2>0, HeaderType, PayloadType, HeaderFields
  <2>2. NameRequest(t, f) = <<m, n>>
    BY DEF NameRequest
  <2> HIDE DEF m, n
  <2>3. QED
    BY <2>0, <2>1, <2>2, PlainTwo
<1>4. QED
  BY <1>1, <1>2, <1>3

LEMMA DispatchStep ==
  ASSUME IInv, IInv', NEW s \in Conns, session[s].pc = "request", session[s].out = <<>>,
         NEW m \in Messages, NEW k \in Connections, k.q["client"] = conn[s].q["client"],
         Dispatch(s, m, k), files' = files, UNCHANGED clientVars
  PROVE  FS!Abandon
<1>1. CASE m.type \notin Requests
  <2>1. HangUp(s, k)
    BY <1>1 DEF Dispatch
  <2>2. QED
    BY <2>1, HangUpAbandons
<1>2. CASE m.type \in Requests
  <2>1. PICK t \in Sessions : Dispatched(s, m, k, t)
    BY <1>2, DispatchThread
  <2>2. /\ conn' = [conn EXCEPT ![s] = k] /\ session' = [session EXCEPT ![s] = t]
        /\ t.pc \in {"request", "quit", "name"}
        /\ t.out \in {ListReply, <<Header("QUIT_REPLY", 0, 0)>>, <<>>}
    BY <2>1 DEF Dispatched
  <2>3. Carries(<<Header("QUIT_REPLY", 0, 0)>>) = {}
    <3>1. "QUIT_REPLY" \in HeaderTypes \ {"FILE_DATA"}
      BY DEF HeaderTypes, Replies
    <3>2. QED
      BY <3>1, PlainReplies
  <2>4. Carries(t.out) = {}
    <3> DEFINE r == <<Header("QUIT_REPLY", 0, 0)>>
               e == <<>>
               o == t.out
    <3>1. Carries(r) = {} /\ Carries(e) = {} /\ o \in {ListReply, r, e}
      BY <2>2, <2>3, CarriesEmpty
    <3> HIDE DEF r, e, o
    <3>2. Carries(o) = {}
      BY <3>1, PlainTexts
    <3>3. QED
      BY <3>2 DEF o
  <2>5. t.pc \notin UploadPcs
    BY <2>2 DEF UploadPcs
  <2>6. QED
    BY <2>2, <2>4, <2>5, ServerPlain
<1>3. QED
  BY <1>1, <1>2

LEMMA RecvRequestStep ==
  ASSUME IInv, IInv', NEW s \in Conns, RecvRequest(s), UNCHANGED clientVars
  PROVE  FS!Abandon
<1>1. files' = files
  BY DEF RecvRequest
<1>2. CASE Arrived(s, "request") /\ Dispatch(s, Incoming(s), Taken(s))
  <2> DEFINE m == Incoming(s)
             k == Taken(s)
  <2>1. /\ m \in Messages /\ k \in Connections /\ k.q["client"] = conn[s].q["client"]
        /\ session[s].pc = "request" /\ session[s].out = <<>> /\ Dispatch(s, m, k)
    BY <1>2, TakenIs
  <2> HIDE DEF m, k
  <2>2. QED
    BY <1>1, <2>1, DispatchStep
<1>3. CASE /\ At(s, "request") /\ Ended(conn[s], "server")
           /\ \E m \in StaleRequests(s) : Dispatch(s, m, AfterEnded(conn[s], "server"))
  <2> DEFINE k == AfterEnded(conn[s], "server")
  <2>1. k \in Connections /\ k.q = conn[s].q
    BY ThreadFacts, PeerOf, AfterEndedType, AfterEndedFields
  <2>2. PICK m \in StaleRequests(s) : Dispatch(s, m, k)
    BY <1>3
  <2>3. m \in Messages
    BY <2>2, TypeFacts, NewSessionType DEF StaleRequests, IInv
  <2>4. session[s].pc = "request" /\ session[s].out = <<>>
    BY <1>3 DEF At
  <2> HIDE DEF k
  <2>5. QED
    BY <1>1, <2>1, <2>2, <2>3, <2>4, DispatchStep
<1>4. QED
  BY <1>2, <1>3 DEF RecvRequest

LEMMA NameLast ==
  ASSUME IInv, NEW s \in Conns, Arrived(s, "name")
  PROVE  /\ Taken(s).q["server"] = <<>>
         /\ \A c \in Clients : Sock(c) = s => client[c].out = <<>>
<1> DEFINE k == conn[s]
           t == session[s]
           u == k.q["server"]
<1>1. /\ u # <<>> /\ u \in Seq(Messages) /\ t.pc = "name" /\ Taken(s).q["server"] = Tail(u)
      /\ t \in Sessions /\ serverUp
  BY TakenIs, ThreadFacts DEF Arrived, At
<1>2. k.open["server"] /\ (~k.open["client"] => Orphan(k, t))
  BY <1>1, ThreadOpen
<1>3. ASSUME NEW c \in Clients, Sock(c) = s
      PROVE  Tail(u) = <<>> /\ client[c].out = <<>>
  <2> DEFINE o == client[c].out
             D == k.q["client"] \o t.out
  <2>1. PairOK(client[c], t, k) /\ client[c] \in ClientStates /\ o \in Seq(Messages)
    BY <1>3, HolderIs, HolderFacts
  <2>2. Live(client[c], t, u \o o, D)
    <3> HIDE DEF k, t
    <3>1. QED
      BY <1>2, <2>1, PairOpen
  <2> HIDE DEF u, o, D
  <2>3. u \o o \in Seq(Messages) /\ u \o o # <<>> /\ Tail(u) \o o = Tail(u \o o)
    BY <1>1, <2>1, FirstOf
  <2>4. Asked(client[c], t, u \o o)
    BY <2>2, <2>3 DEF Live
  <2>5. Tail(u \o o) = <<>>
    BY <1>1, <2>1, <2>3, <2>4, NameAsked
  <2>6. Tail(u) \in Seq(Messages)
    BY <1>1, TailOf
  <2>7. QED
    BY <2>1, <2>3, <2>5, <2>6, ConcatEmpty DEF o
<1>4. CASE Held(s)
  BY <1>1, <1>3, <1>4 DEF Held
<1>5. CASE ~Held(s)
  <2>1. Orphan(k, t)
    BY <1>2, <1>5 DEF IInv
  <2>2. Tail(u) = <<>>
    BY <1>1, <2>1, OneLeft DEF Orphan, UpOK
  <2>3. QED
    BY <1>1, <1>5, <2>2 DEF Held
<1>6. QED
  BY <1>4, <1>5

LEMMA RecvNameStep ==
  ASSUME IInv, IInv', NEW s \in Conns, RecvName(s), UNCHANGED clientVars
  PROVE  FS!Abandon
<1> DEFINE type == session[s].req.type
           k == Taken(s)
<1>1. /\ Arrived(s, "name") /\ Incoming(s) \in Messages /\ session[s].pc = "name"
      /\ conn' = [conn EXCEPT ![s] = k] /\ files' = files /\ session[s] \in Sessions
      /\ k.q["client"] = conn[s].q["client"] /\ TypeInv
  BY TakenIs, ThreadFacts DEF RecvName, IInv
<1>2. type \in NamedRequests /\ NameIn(Incoming(s)) \subseteq Names
  BY <1>1, TypeFacts, MessageType DEF SessionOK
<1>3. PICK f \in NameIn(Incoming(s)) :
        LET a == Answer(s, type, f)
        IN  session' = [session EXCEPT
              ![s] = [@ EXCEPT !.pc = a.pc, !.name = f, !.cwd = a.cwd, !.out = <<a.reply>>]]
  BY DEF RecvName
<1> DEFINE a == Answer(s, type, f)
           t == [session[s] EXCEPT !.pc = a.pc, !.name = f, !.cwd = a.cwd, !.out = <<a.reply>>]
<1>4. session' = [session EXCEPT ![s] = t]
  BY <1>3
<1>5. f \in Names
  BY <1>2, <1>3
<1>6. \E rt \in Replies, st \in {0, 1} : a.reply = Header(rt, st, 0)
  <2>1. {"CD_REPLY", "GET_REPLY", "SHA_REPLY", "PUT_REPLY"} \subseteq Replies
    BY DEF Replies
  <2>2. a.reply \in {Header(rt, st, 0) :
          rt \in {"CD_REPLY", "GET_REPLY", "SHA_REPLY", "PUT_REPLY"}, st \in {0, 1}}
    BY <1>2, <1>5, Answers DEF NamedRequests
  <2>3. QED
    BY <2>1, <2>2
<1>7. Carries(<<a.reply>>) = {}
  <2>1. PICK rt \in Replies, st \in {0, 1} : a.reply = Header(rt, st, 0)
    BY <1>6
  <2>2. rt \in HeaderTypes \ {"FILE_DATA"}
    BY DEF HeaderTypes, Replies
  <2>3. Carries(<<Header(rt, st, 0)>>) = {}
    BY <2>2, PlainReplies
  <2>4. QED
    BY <2>1, <2>3
<1> HIDE DEF a
<1>8. t.pc = a.pc /\ t.out = <<a.reply>>
  BY <1>1 DEF Sessions
<1>9. a.pc \in {"request", "size", "sha", "filedata"}
  BY <1>1, <1>5, AnswerType DEF a
<1> HIDE DEF t, k, type
<1>10. Carries(t.out) = {}
  BY <1>7, <1>8
<1>11. Carries(k.q["client"]) \cup Carries(t.out) \subseteq Sent(s)
  BY <1>1, <1>10 DEF Sent
<1>12. /\ conn[s]' = k /\ session[s]' = t
       /\ \A c \in Clients : Sock(c)' = Sock(c) /\ client[c]' = client[c]
  BY <1>1, <1>4, ServerOwn
<1>13. k.q["server"] = <<>> /\ \A c \in Clients : Sock(c) = s => client[c].out = <<>>
  BY <1>1, NameLast DEF k
<1>14. ASSUME NEW x, Uploads(s, x)'
       PROVE  FALSE
  <2> DEFINE u == k.q["server"]
  <2>1. \/ x \in Carries(u)
        \/ \E c \in Clients : Sock(c) = s /\ x \in Carries(client[c].out)
    BY <1>8, <1>9, <1>12, <1>14 DEF Uploads
  <2>2. u = <<>>
    BY <1>13
  <2> HIDE DEF u
  <2>3. x \notin Carries(u)
    BY <2>2, CarriesEmpty
  <2>4. PICK c \in Clients : Sock(c) = s /\ x \in Carries(client[c].out)
    BY <2>1, <2>3
  <2> DEFINE o == client[c].out
  <2>5. o = <<>> /\ x \in Carries(o)
    BY <1>13, <2>4
  <2> HIDE DEF o
  <2>6. QED
    BY <2>5, CarriesEmpty
<1>15. LessWritten(s)
  BY <1>14 DEF LessWritten, Writes
<1>16. QED
  BY <1>1, <1>4, <1>11, <1>15, ServerLess

LEMMA FileSizeStep ==
  ASSUME IInv, IInv', NEW s \in Conns, FileSize(s), UNCHANGED clientVars
  PROVE  FS!Abandon
<1> DEFINE t == [session[s] EXCEPT !.pc = "read", !.size = Len(files[Path(s)])]
<1>1. session' = [session EXCEPT ![s] = t] /\ UNCHANGED <<conn, files>>
  BY DEF FileSize
<1>2. conn' = [conn EXCEPT ![s] = conn[s]]
  BY <1>1, ConnSame DEF IInv
<1>3. t.pc = "read" /\ t.out = <<>>
  BY ThreadFacts DEF FileSize, At, Sessions
<1> HIDE DEF t
<1>4. Carries(t.out) = {} /\ t.pc \notin UploadPcs
  BY <1>3, CarriesEmpty DEF UploadPcs
<1>5. QED
  BY <1>1, <1>2, <1>4, ServerPlain

LEMMA Sha256sumStep ==
  ASSUME IInv, IInv', NEW s \in Conns, Sha256sum(s), UNCHANGED clientVars
  PROVE  FS!Abandon
<1> DEFINE o == ShaData(files[Path(s)])
           t == [session[s] EXCEPT !.pc = "request", !.out = o]
<1>1. /\ session' = [session EXCEPT ![s] = t] /\ UNCHANGED <<conn, files>>
      /\ session[s].pc = "sha"
  BY DEF Sha256sum, At
<1>2. conn' = [conn EXCEPT ![s] = conn[s]]
  BY <1>1, ConnSame DEF IInv
<1>3. files[Path(s)] \in Contents
  BY <1>1, PathType DEF IInv
<1>4. Carries(o) = {}
  BY <1>3, PlainTexts
<1> HIDE DEF o
<1>5. t.pc = "request" /\ t.out = o
  BY ThreadFacts DEF Sessions
<1> HIDE DEF t
<1>6. Carries(t.out) = {} /\ t.pc \notin UploadPcs
  BY <1>4, <1>5 DEF UploadPcs
<1>7. QED
  BY <1>1, <1>2, <1>6, ServerPlain

LEMMA QuitStep ==
  ASSUME IInv, IInv', NEW s \in Conns, Quit(s), UNCHANGED clientVars
  PROVE  FS!Abandon
<1>1. HangUp(s, conn[s]) /\ files' = files
  BY DEF Quit
<1>2. QED
  BY <1>1, ThreadFacts, HangUpAbandons

\* What the thread reads first of an upload.
LEMMA UploadFirst ==
  ASSUME IInv, NEW s \in Conns, session[s].pc \in {"filedata", "body"},
         conn[s].q["server"] # <<>>
  PROVE  /\ UpOK(session[s].pc, Up(s)) /\ Up(s) # <<>> /\ Up(s) \in Seq(Messages)
         /\ Up(s)[1] = Head(conn[s].q["server"])
<1> DEFINE u == conn[s].q["server"]
           o == IF Held(s) THEN Holder(s).out ELSE <<>>
<1>1. u \in Seq(Messages) /\ u # <<>>
  BY ThreadFacts
<1>2. o \in Seq(Messages)
  <2>1. CASE Held(s)
    <3>1. PICK c \in Clients : Sock(c) = s
      BY <2>1 DEF Held
    <3>2. Holder(s) = client[c] /\ client[c].out \in Seq(Messages)
      BY <3>1, HolderIs, HolderFacts
    <3>3. QED
      BY <2>1, <3>2
  <2>2. CASE ~Held(s)
    BY <2>2
  <2>3. QED
    BY <2>1, <2>2
<1>3. Up(s) = u \o o
  BY DEF Up
<1> HIDE DEF u, o
<1>4. u \o o \in Seq(Messages) /\ u \o o # <<>> /\ Head(u) = (u \o o)[1]
  BY <1>1, <1>2, FirstOf
<1>5. QED
  BY <1>3, <1>4, UpIsOK DEF u

LEMMA RecvFileDataStep ==
  ASSUME IInv, IInv', NEW s \in Conns, RecvFileData(s), UNCHANGED clientVars
  PROVE  FS!Abandon
<1> DEFINE m == Incoming(s)
           k == Taken(s)
           u == conn[s].q["server"]
<1>1. /\ m = Head(u) /\ m \in Messages /\ u \in Seq(Messages) /\ u # <<>>
      /\ session[s].pc = "filedata" /\ session[s].out = <<>> /\ session[s] \in Sessions
      /\ k.q["client"] = conn[s].q["client"] /\ k.q["server"] = Tail(u)
      /\ conn' = [conn EXCEPT ![s] = k] /\ files' = files
  BY TakenIs, ThreadFacts DEF RecvFileData
<1>2. PICK n \in SizeIn(m) :
        session' = [session EXCEPT
          ![s] = [@ EXCEPT !.pc = IF n = 0 THEN "truncate" ELSE "body", !.buf = <<>>]]
  BY DEF RecvFileData
<1> DEFINE t == [session[s] EXCEPT !.pc = IF n = 0 THEN "truncate" ELSE "body", !.buf = <<>>]
<1>3. session' = [session EXCEPT ![s] = t]
  BY <1>2
<1>4. /\ t.pc = IF n = 0 THEN "truncate" ELSE "body"
      /\ t.buf = <<>> /\ t.out = <<>> /\ t.cwd = session[s].cwd /\ t.name = session[s].name
  BY <1>1 DEF Sessions
<1> HIDE DEF t, m, k, u
<1>5. m = EmptyData \/ Announces(m)
  <2> DEFINE U == Up(s)
             p == session[s].pc
  <2>1. UpOK(p, U) /\ U # <<>> /\ U \in Seq(Messages) /\ U[1] = m
    BY <1>1, UploadFirst DEF u
  <2>2. p = "filedata"
    BY <1>1
  <2> HIDE DEF U, p
  <2>3. Len(U) > 0
    BY <2>1, TailOf
  <2>4. QED
    BY <2>1, <2>2, <2>3 DEF UpOK
<1>6. n = 0 => m = EmptyData
  BY <1>2, <1>5, AnnouncesSize
<1>7. n = 0 => Uploads(s, t.buf)
  <2> SUFFICES ASSUME n = 0
               PROVE  Uploads(s, t.buf)
    OBVIOUS
  <2> DEFINE e == <<>>
  <2>1. Bears(m, e)
    BY <1>6 DEF Bears
  <2>2. t.buf = e
    BY <1>4
  <2> HIDE DEF e
  <2>3. e \in Carries(<<m>>)
    BY <1>1, <2>1, CarriesOne
  <2>4. e \in Carries(u)
    BY <1>1, <2>3, CarriesTail
  <2>5. QED
    BY <1>1, <2>2, <2>4 DEF Uploads, u
<1>8. Carries(k.q["server"]) \subseteq Carries(conn[s].q["server"])
  BY <1>1, TailCarries DEF u
<1>9. Carries(k.q["client"]) \cup Carries(t.out) \subseteq Sent(s)
  BY <1>1, <1>4, CarriesEmpty DEF Sent
<1>10. QED
  BY <1>1, <1>3, <1>4, <1>7, <1>8, <1>9, ServerAbandons

LEMMA RecvFileContentStep ==
  ASSUME IInv, IInv', NEW s \in Conns, RecvFileContent(s), UNCHANGED clientVars
  PROVE  FS!Abandon
<1> DEFINE m == Incoming(s)
           k == Taken(s)
           u == conn[s].q["server"]
           t == [session[s] EXCEPT !.pc = "truncate", !.buf = ContentIn(m)]
<1>1. /\ m = Head(u) /\ m \in Messages /\ u \in Seq(Messages) /\ u # <<>>
      /\ session[s].pc = "body" /\ session[s].out = <<>> /\ session[s] \in Sessions
      /\ k.q["client"] = conn[s].q["client"] /\ k.q["server"] = Tail(u)
      /\ conn' = [conn EXCEPT ![s] = k] /\ files' = files
  BY TakenIs, ThreadFacts DEF RecvFileContent
<1>2. session' = [session EXCEPT ![s] = t]
  BY DEF RecvFileContent
<1>3. /\ t.pc = "truncate" /\ t.buf = ContentIn(m) /\ t.out = <<>>
      /\ t.cwd = session[s].cwd /\ t.name = session[s].name
  BY <1>1 DEF Sessions
<1>4. m.type = "data"
  BY BodyArrives DEF RecvFileContent, IsData
<1> HIDE DEF t, m, k, u
<1>5. t.buf = m.arg
  BY <1>3, <1>4 DEF ContentIn
<1>6. Uploads(s, t.buf)
  <2>1. Bears(m, t.buf)
    BY <1>4, <1>5 DEF Bears
  <2>2. t.buf \in Carries(<<m>>)
    BY <1>1, <2>1, CarriesOne
  <2>3. t.buf \in Carries(u)
    BY <1>1, <2>2, CarriesTail
  <2>4. QED
    BY <1>1, <2>3 DEF Uploads, u
<1>7. Carries(k.q["client"]) \cup Carries(t.out) \subseteq Sent(s)
  BY <1>1, <1>3, CarriesEmpty DEF Sent
<1>8. QED
  BY <1>1, <1>2, <1>3, <1>6, <1>7, ServerAbandons

------------------------------------------------------------------------------
(* Threads use the file system. *)

LEMMA ReadingsSame ==
  ASSUME TransfersAre, TransfersAre', \A r \in Conns : SameRead(r)
  PROVE  readings' = readings
<1>1. readings' = [r \in Conns |-> Reading(r)']
  BY DEF readings
<1>2. \A r \in Conns : Reading(r)' = Reading(r)
  BY ReadingSame
<1>3. QED
  BY <1>1, <1>2 DEF readings

LEMMA WritingsSame ==
  ASSUME TransfersAre, TransfersAre', \A r \in Conns : SameWritten(r)
  PROVE  writings' = writings
<1>1. writings' = [r \in Conns |-> Writing(r)']
  BY DEF writings
<1>2. \A r \in Conns : Writing(r)' = Writing(r)
  BY WritingSame
<1>3. QED
  BY <1>1, <1>2 DEF writings

LEMMA ReadingsExcept ==
  ASSUME TransfersAre, TransfersAre', NEW s \in Conns, \A r \in Conns : r # s => SameRead(r)
  PROVE  readings' = [readings EXCEPT ![s] = Reading(s)']
<1>1. readings' = [r \in Conns |-> Reading(r)']
  BY DEF readings
<1>2. \A r \in Conns : r # s => Reading(r)' = Reading(r)
  BY ReadingSame
<1>3. QED
  BY <1>1, <1>2 DEF readings

LEMMA WritingsExcept ==
  ASSUME TransfersAre, TransfersAre', NEW s \in Conns,
         \A r \in Conns : r # s => SameWritten(r)
  PROVE  writings' = [writings EXCEPT ![s] = Writing(s)']
<1>1. writings' = [r \in Conns |-> Writing(r)']
  BY DEF writings
<1>2. \A r \in Conns : r # s => Writing(r)' = Writing(r)
  BY WritingSame
<1>3. QED
  BY <1>1, <1>2 DEF writings

\* The upload of a thread that is about to store it.
LEMMA Storing ==
  ASSUME IInv, NEW s \in Conns, session[s].pc \in {"truncate", "write"}
  PROVE  /\ writings[s] = [dir |-> session[s].cwd, name |-> session[s].name,
                           data |-> session[s].buf]
         /\ writings[s] # Nothing /\ FS!Target(s) = Path(s)
<1>1. Writes(s, session[s].cwd, session[s].name, session[s].buf)
  BY DEF Writes, Uploads
<1>2. /\ Writing(s) = [dir |-> session[s].cwd, name |-> session[s].name, data |-> session[s].buf]
      /\ Writing(s) # Nothing
  BY <1>1, WritingIs
<1>3. writings[s] = Writing(s)
  BY DEF writings
<1>4. QED
  BY <1>2, <1>3 DEF FS!Target, Path

LEMMA OpenForWritingStep ==
  ASSUME IInv, IInv', NEW s \in Conns, OpenForWriting(s), UNCHANGED clientVars
  PROVE  FS!Abandon \/ FS!EmptyFile(s)
<1>1. CASE IsDirectory(session[s].cwd, session[s].name)
  <2>1. HangUp(s, conn[s]) /\ files' = files
    BY <1>1 DEF OpenForWriting
  <2>2. QED
    BY <2>1, ThreadFacts, HangUpAbandons
<1>2. CASE ~IsDirectory(session[s].cwd, session[s].name)
  <2> DEFINE t == [session[s] EXCEPT !.pc = "write"]
  <2>1. /\ files' = [files EXCEPT ![Path(s)] = <<>>]
        /\ session' = [session EXCEPT ![s] = t] /\ UNCHANGED conn
        /\ session[s].pc = "truncate"
    BY <1>2 DEF OpenForWriting, At
  <2>2. conn' = [conn EXCEPT ![s] = conn[s]]
    BY <2>1, ConnSame DEF IInv
  <2>3. /\ t.pc = "write" /\ t.out = session[s].out /\ t.buf = session[s].buf
        /\ t.cwd = session[s].cwd /\ t.name = session[s].name
    BY ThreadFacts DEF Sessions
  <2> HIDE DEF t
  <2>4. conn[s]' = conn[s] /\ session[s]' = t
    <3>1. session \in [Conns -> Sessions]
      BY DEF IInv, TypeInv, TypeOK
    <3>2. QED
      BY <2>1, <3>1
  <2>5. Sent(s)' = Sent(s)
    BY <2>3, <2>4 DEF Sent
  <2>6. SameRead(s)
    BY <2>1, <2>2, <2>5, ServerReads
  <2>7. SameWritten(s)
    BY <2>1, <2>3, <2>4 DEF SameWritten, Writes, Uploads
  <2>8. \A r \in Conns : SameRead(r) /\ SameWritten(r)
    BY <2>1, <2>2, <2>6, <2>7, ServerOthers
  <2>9. UNCHANGED <<readings, writings>>
    BY <2>8, TransfersThere, TransfersNext, ReadingsSame, WritingsSame
  <2>10. writings[s] # Nothing /\ FS!Target(s) = Path(s)
    BY <2>1, Storing
  <2>11. disk' = disk
    BY DEF clientVars
  <2>12. QED
    BY <2>1, <2>9, <2>10, <2>11 DEF FS!EmptyFile
<1>3. QED
  BY <1>1, <1>2

LEMMA WriteFileStep ==
  ASSUME IInv, IInv', NEW s \in Conns, WriteFile(s), UNCHANGED clientVars
  PROVE  FS!Store(s)
<1> DEFINE t == [session[s] EXCEPT !.pc = "request", !.buf = <<>>]
           b == session[s].buf
<1>1. /\ files' = [files EXCEPT ![Path(s)] = Overwrite(@, b)]
      /\ session' = [session EXCEPT ![s] = t] /\ UNCHANGED conn
      /\ session[s].pc = "write"
  BY DEF WriteFile, At
<1>2. conn' = [conn EXCEPT ![s] = conn[s]]
  BY <1>1, ConnSame DEF IInv
<1>3. t.pc = "request" /\ t.out = session[s].out
  BY ThreadFacts DEF Sessions
<1> HIDE DEF t
<1>4. conn[s]' = conn[s] /\ session[s]' = t
  <2>1. session \in [Conns -> Sessions]
    BY DEF IInv, TypeInv, TypeOK
  <2>2. QED
    BY <1>1, <2>1
<1>5. Sent(s)' = Sent(s)
  BY <1>3, <1>4 DEF Sent
<1>6. SameRead(s)
  BY <1>1, <1>2, <1>5, ServerReads
<1>7. TransfersAre /\ TransfersAre'
  BY TransfersThere, TransfersNext
<1>8. \A r \in Conns : SameRead(r)
  BY <1>1, <1>2, <1>6, ServerOthers
<1>9. \A r \in Conns : r # s => SameWritten(r)
  BY <1>1, <1>2, ServerOthers
<1>10. Writing(s)' = Nothing
  <2>1. \A d, f, x : ~Writes(s, d, f, x)'
    BY <1>3, <1>4 DEF Writes, Uploads
  <2>2. QED
    BY <1>7, <2>1 DEF TransfersAre
<1>11. readings' = readings
  BY <1>7, <1>8, ReadingsSame
<1>12. writings' = [writings EXCEPT ![s] = Nothing]
  BY <1>7, <1>9, <1>10, WritingsExcept
<1>13. /\ writings[s] # Nothing /\ FS!Target(s) = Path(s)
       /\ writings[s].data = b
  <2>1. session[s].pc \in {"truncate", "write"}
    BY <1>1
  <2>2. /\ writings[s] = [dir |-> session[s].cwd, name |-> session[s].name, data |-> b]
        /\ writings[s] # Nothing /\ FS!Target(s) = Path(s)
    BY <2>1, Storing
  <2>3. QED
    BY <2>2
<1>14. files[Path(s)] # NoFile
  BY <1>1, PathType, HeadAssumption DEF IInv
<1>15. disk' = disk
  BY DEF clientVars
<1> HIDE DEF b
<1>16. files' = [files EXCEPT ![FS!Target(s)] =
                   writings[s].data \o SubSeq(@, Len(writings[s].data) + 1, Len(@))]
  <2> DEFINE p == Path(s)
             x == files[Path(s)]
             w == b \o SubSeq(x, Len(b) + 1, Len(x))
  <2>1. Overwrite(x, b) = w
    BY DEF Overwrite
  <2> HIDE DEF w
  <2>2. files' = [files EXCEPT ![p] = w]
    BY <1>1, <2>1
  <2>3. FS!Target(s) = p /\ writings[s].data = b
    BY <1>13
  <2>4. QED
    BY <2>2, <2>3 DEF w
<1>17. QED
  BY <1>11, <1>12, <1>13, <1>14, <1>15, <1>16 DEF FS!Store

LEMMA FileDataCarries ==
  ASSUME NEW x \in Contents
  PROVE  FileData(x) \in Seq(Messages) /\ Carries(FileData(x)) = {x}
<1> DEFINE u == FileData(x)
<1>1. u \in Seq(Messages)
  BY RepliesType
<1>2. CASE x = <<>>
  <2> DEFINE m == EmptyData
  <2>1. u = <<m>> /\ m \in Messages
    BY <1>2, FileDataIs, HeaderType DEF EmptyData, HeaderTypes
  <2>2. \A y : Bears(m, y) <=> y = x
    BY <1>2, EmptyDataIs DEF Bears
  <2> HIDE DEF u, m
  <2>3. \A y : y \in Carries(u) <=> y = x
    BY <2>1, <2>2, CarriesOne
  <2>4. QED
    BY <1>1, <2>3 DEF u
<1>3. CASE x # <<>>
  <2> DEFINE h == Header("FILE_DATA", 0, Len(x))
             m == Payload("data", x)
  <2>1. u = <<h, m>> /\ Len(x) \in Nat /\ Len(x) # 0
    BY <1>3, FileDataIs DEF Contents
  <2>2. h.type = "FILE_DATA" /\ h.n = Len(x) /\ m.type = "data" /\ m.arg = x
    BY HeaderFields
  <2>3. \A y : ~Bears(h, y)
    BY <2>1, <2>2, EmptyDataIs DEF Bears
  <2>4. \A y : Bears(m, y) <=> y = x
    BY <2>2, EmptyDataIs DEF Bears
  <2>5. Len(u) = 2 /\ u[1] = h /\ u[2] = m
    BY <2>1
  <2> HIDE DEF u, h, m
  <2>6. \A y : y \in Carries(u) <=> y = x
    <3>1. ASSUME NEW y
          PROVE  (\E i \in 1 .. Len(u) : Bears(u[i], y)) <=> y = x
      <4>1. \A i \in 1 .. Len(u) : i = 1 \/ i = 2
        BY <2>5
      <4>2. 2 \in 1 .. Len(u)
        BY <2>5
      <4>3. QED
        BY <2>3, <2>4, <2>5, <4>1, <4>2
    <3>2. QED
      BY <1>1, <3>1, CarriesIs
  <2>7. QED
    BY <1>1, <2>6 DEF u
<1>4. QED
  BY <1>2, <1>3

\* What a thread reads is the start of the file.
LEMMA ContentIsStart ==
  ASSUME IInv, NEW s \in Conns, session[s].pc = "read", ~ReadShort(s)
  PROVE  /\ session[s].size \in 0 .. Len(files[Path(s)])
         /\ FileContent(s) = SubSeq(files[Path(s)], 1, session[s].size)
<1> DEFINE x == files[Path(s)]
           n == session[s].size
<1>1. x \in Contents /\ n \in Nat
  BY PathType, TypeFacts DEF IInv
<1>2. Len(x) \in Nat /\ n <= Len(x)
  BY <1>1 DEF ReadShort, Contents
<1> HIDE DEF x, n
<1>3. FileContent(s) = [i \in 1 .. n |-> IF i <= Len(x) THEN x[i] ELSE Junk]
  BY DEF FileContent, x, n
<1>4. FileContent(s) = [i \in 1 .. n |-> x[i]]
  BY <1>1, <1>2, <1>3
<1>5. SubSeq(x, 1, n) = [i \in 1 .. n |-> x[i]]
  BY <1>1, <1>2 DEF Contents
<1>6. n \in 0 .. Len(x)
  BY <1>1, <1>2
<1>7. QED
  BY <1>4, <1>5, <1>6 DEF x, n

\* A thread that is about to read: its client has no content yet.
LEMMA ReaderWaits ==
  ASSUME IInv, NEW s \in Conns, At(s, "read"), NEW c \in Clients, Sock(c) = s
  PROVE  Sent(s) = {} /\ session[s].name = client[c].name
<1> DEFINE cl == client[c]
           t == session[s]
           U == conn[s].q["server"] \o cl.out
           D == conn[s].q["client"] \o t.out
<1>1. t.pc = "read" /\ t.out = <<>> /\ serverUp
  BY DEF At
<1>2. conn[s].open["server"]
  BY <1>1, ThreadOpen
<1>3. Sock(c) # Fresh /\ PairOK(cl, t, conn[s])
  BY HolderIs, HolderFacts
<1>4. Live(cl, t, U, D)
  <2> HIDE DEF cl, t
  <2>1. QED
    BY <1>2, <1>3, PairOpen
<1>5. D \in Seq(Messages) /\ Carries(D) = Sent(s)
  BY DownSent DEF Down
<1> HIDE DEF cl, t, U, D
<1>6. /\ t.name = cl.name
      /\ \/ cl.pc = "get" /\ IsReply(D, "GET_REPLY", 1) /\ Len(D) = 1
         \/ cl.pc = "getdata" /\ Len(D) = 0
  <2>1. t.pc \in {"size", "read"}
    BY <1>1
  <2>2. QED
    BY <1>4, <2>1, DataAwaited
<1>7. Carries(D) = {}
  <2>1. CASE Len(D) = 0
    BY <1>5, <2>1, LenZero, CarriesEmpty
  <2>2. CASE IsReply(D, "GET_REPLY", 1) /\ Len(D) = 1
    <3>1. D[1].type = "GET_REPLY"
      BY <2>2 DEF IsReply, Header
    <3>2. \A j \in 1 .. Len(D) : D[j].type \notin {"data", "FILE_DATA"}
      BY <2>2, <3>1
    <3>3. \A x : x \notin Carries(D)
      BY <1>5, <3>2, NoPlace
    <3>4. QED
      BY <3>3
  <2>3. QED
    BY <1>6, <2>1, <2>2
<1>8. QED
  BY <1>5, <1>6, <1>7 DEF cl, t

LEMMA ReadFileStep ==
  ASSUME IInv, IInv', NEW s \in Conns, ReadFile(s), UNCHANGED clientVars
  PROVE  FS!Abandon \/ FS!Fetch(s)
<1>1. At(s, "read") /\ session[s].pc = "read" /\ session[s].out = <<>> /\ files' = files
  BY DEF ReadFile, At
<1>2. CASE ReadShort(s)
  <2>1. HangUp(s, conn[s])
    BY <1>2 DEF ReadFile
  <2>2. QED
    BY <1>1, <2>1, ThreadFacts, HangUpAbandons
<1>3. CASE ~ReadShort(s)
  <2>0. PICK x : x = FileContent(s)
    OBVIOUS
  <2> DEFINE t == [session[s] EXCEPT !.pc = "request", !.size = 0, !.out = FileData(x)]
  <2>1. session' = [session EXCEPT ![s] = t] /\ conn' = conn
    BY <1>3, <2>0 DEF ReadFile
  <2>2. conn' = [conn EXCEPT ![s] = conn[s]]
    BY <2>1, ConnSame DEF IInv
  <2>3. x \in Contents
    BY <1>1, <2>0, FileContentType DEF IInv
  <2>4. t.pc = "request" /\ t.out = FileData(x)
    BY ThreadFacts DEF Sessions
  <2> HIDE DEF t
  <2>5. Carries(t.out) = {x}
    BY <2>3, <2>4, FileDataCarries
  <2>6. \A c \in Clients : Sock(c)' = Sock(c) /\ client[c]' = client[c]
    BY <2>1, <2>2, ServerOwn
  <2>7. Sent(s)' = Carries(conn[s].q["client"]) \cup {x}
    <3>1. Sent(s)' = Carries(conn[s].q["client"]) \cup Carries(t.out)
      BY <2>1, <2>2, ServerReads
    <3>2. QED
      BY <2>5, <3>1
  <2>8. TransfersAre /\ TransfersAre'
    BY TransfersThere, TransfersNext
  <2>9. LessWritten(s)
    BY <2>1, <2>2, <2>4, ServerWrites DEF UploadPcs
  <2>10. CASE \A c \in Clients : Sock(c) # s
    <3>1. LessRead(s)
      BY <2>6, <2>10 DEF LessRead, Reads
    <3>2. \A r \in Conns : LessRead(r) /\ LessWritten(r)
      BY <2>1, <2>2, <2>9, <3>1, ServerOthers
    <3>3. UNCHANGED <<files, disk>>
      BY <1>1 DEF clientVars
    <3>4. QED
      BY <2>8, <3>2, <3>3, AbandonStep
  <2>11. ASSUME NEW c \in Clients, Sock(c) = s
         PROVE  FS!Fetch(s)
    <3>0. PICK f : f = session[s].name
      OBVIOUS
    <3> DEFINE d == session[s].cwd
               n == session[s].size
    <3>1. Sent(s) = {} /\ f = client[c].name
      BY <1>1, <2>11, <3>0, ReaderWaits
    <3>2. Reading(s)' = [name |-> f, data |-> x]
      <4>1. Sock(c)' = s /\ client[c]'.name = f /\ x \in Sent(s)'
        BY <2>6, <2>7, <2>11, <3>1
      <4>2. Reads(s, f, x)'
        BY <4>1 DEF Reads
      <4>3. QED
        BY <2>8, <4>2 DEF TransfersAre
    <3>3. readings[s] = Nothing
      <4>1. \A g, y : ~Reads(s, g, y)
        BY <3>1 DEF Reads
      <4>2. Reading(s) = Nothing
        BY <2>8, <4>1 DEF TransfersAre
      <4>3. QED
        BY <4>2 DEF readings
    <3>4. \A r \in Conns : r # s => SameRead(r)
      BY <2>1, <2>2, ServerOthers
    <3>5. readings' = [readings EXCEPT ![s] = [name |-> f, data |-> x]]
      BY <2>8, <3>2, <3>4, ReadingsExcept
    <3>6. SameWritten(s)
      <4>1. \A y : ~Uploads(s, y)
        BY <1>1 DEF Uploads
      <4>2. QED
        BY <2>9, <4>1 DEF SameWritten, LessWritten, Writes
    <3>7. writings' = writings
      <4>1. \A r \in Conns : SameWritten(r)
        BY <2>1, <2>2, <3>6, ServerOthers
      <4>2. QED
        BY <2>8, <4>1, WritingsSame
    <3>8. /\ n \in 0 .. Len(files[Path(s)])
          /\ x = SubSeq(files[Path(s)], 1, n)
      BY <1>1, <1>3, <2>0, ContentIsStart
    <3>9. /\ Path(s) = <<d, f>> /\ files[Path(s)] # NoFile /\ d \in Dirs /\ f \in Names
      BY <1>1, <3>0, PathType, TypeFacts, HeadAssumption DEF IInv
    <3>10. disk' = disk
      BY DEF clientVars
    <3> HIDE DEF d, n
    <3>11. /\ files[<<d, f>>] # NoFile /\ n \in 0 .. Len(files[<<d, f>>])
           /\ x = SubSeq(files[<<d, f>>], 1, n)
      BY <3>8, <3>9
    <3>12. readings' = [readings EXCEPT ![s] =
                          [name |-> f, data |-> SubSeq(files[<<d, f>>], 1, n)]]
      BY <3>5, <3>11
    <3>13. QED
      BY <1>1, <3>3, <3>7, <3>9, <3>10, <3>11, <3>12 DEF FS!Fetch
  <2>12. QED
    BY <2>10, <2>11
<1>4. QED
  BY <1>2, <1>3

------------------------------------------------------------------------------
(* Steps of a client. *)

\* The connections of other clients.
LEMMA ClientOthers ==
  ASSUME IInv, NEW c \in Clients, NEW cl, client' = [client EXCEPT ![c] = cl],
         UNCHANGED session, NEW r \in Conns, conn[r]' = conn[r], Sock(c) # r, cl.sock # r
  PROVE  SameRead(r) /\ SameWritten(r) /\ LessRead(r) /\ LessWritten(r)
<1>1. client \in [Clients -> ClientStates]
  BY DEF IInv, TypeInv, TypeOK
<1>2. client[c]' = cl /\ \A d \in Clients : d # c => client[d]' = client[d]
  BY <1>1
<1>3. \A d \in Clients : Sock(d)' = r <=> Sock(d) = r
  BY <1>2 DEF Sock
<1>4. \A d \in Clients : Sock(d) = r => client[d]' = client[d]
  BY <1>2
<1>5. session[r]' = session[r]
  OBVIOUS
<1>6. QED
  BY <1>3, <1>4, <1>5, Untouched

\* A client without a connection.
LEMMA AloneAbandons ==
  ASSUME IInv, IInv', NEW c \in Clients, NEW cl, client' = [client EXCEPT ![c] = cl],
         UNCHANGED <<conn, serverVars, disk>>, Sock(c) = Fresh, cl.sock = Fresh
  PROVE  FS!Abandon
<1>1. /\ UNCHANGED session /\ UNCHANGED <<files, disk>>
      /\ \A r \in Conns : conn[r]' = conn[r] /\ Sock(c) # r /\ cl.sock # r
  BY ClientAssumption DEF serverVars
<1>2. \A r \in Conns : LessRead(r) /\ LessWritten(r)
  BY <1>1, ClientOthers
<1>3. TransfersAre /\ TransfersAre'
  BY TransfersThere, TransfersNext
<1>4. QED
  BY <1>1, <1>2, <1>3, AbandonStep

\* The client c becomes cl, and its connection s becomes k.
Moves(c, cl, s, k) ==
  /\ client' = [client EXCEPT ![c] = cl]
  /\ UNCHANGED session
  /\ Sock(c) = s
  /\ conn' = [conn EXCEPT ![s] = k]

LEMMA MovesTo ==
  ASSUME IInv, NEW c \in Clients, NEW cl, NEW s \in Conns, NEW k, Moves(c, cl, s, k)
  PROVE  /\ conn[s]' = k /\ client[c]' = cl /\ session[s]' = session[s]
         /\ Sock(c) = s /\ Sock(c)' = cl.sock
         /\ \A d \in Clients : d # c => Sock(d) # s /\ Sock(d)' # s
<1>1. /\ client \in [Clients -> ClientStates] /\ conn \in [Conns -> Connections]
  BY DEF IInv, TypeInv, TypeOK
<1>2. /\ client[c]' = cl /\ \A d \in Clients : d # c => client[d]' = client[d]
      /\ conn[s]' = k /\ session[s]' = session[s] /\ Sock(c) = s
  BY <1>1 DEF Moves
<1>3. \A d \in Clients : d # c => Sock(d) # s
  <2>1. Sock(c) # Fresh
    BY <1>2, HolderIs
  <2>2. QED
    BY <1>2, <2>1, HolderFacts
<1>4. \A d \in Clients : d # c => Sock(d)' # s
  BY <1>2, <1>3 DEF Sock
<1>5. Sock(c)' = cl.sock
  BY <1>2 DEF Sock
<1>6. QED
  BY <1>2, <1>3, <1>4, <1>5

LEMMA ClientOwn ==
  ASSUME IInv, IInv', NEW c \in Clients, NEW cl, NEW s \in Conns, NEW k,
         Moves(c, cl, s, k)
  PROVE  /\ \A f, x : Reads(s, f, x) <=> f = client[c].name /\ x \in Sent(s)
         /\ \A f, x : Reads(s, f, x)' <=>
              /\ cl.sock = s /\ f = cl.name
              /\ x \in Carries(k.q["client"]) \cup Carries(session[s].out)
         /\ \A f, x : Reads(s, f, x)' => cl.pc \in GetPcs
<1>1. /\ conn[s]' = k /\ client[c]' = cl /\ session[s]' = session[s]
      /\ Sock(c) = s /\ Sock(c)' = cl.sock
      /\ \A d \in Clients : d # c => Sock(d) # s /\ Sock(d)' # s
  BY MovesTo
<1>2. Sent(s)' = Carries(k.q["client"]) \cup Carries(session[s].out)
  BY <1>1 DEF Sent
<1>3. \A f, x : Reads(s, f, x) <=> f = client[c].name /\ x \in Sent(s)
  BY <1>1 DEF Reads
<1>4. \A f, x : Reads(s, f, x)' <=> cl.sock = s /\ f = cl.name /\ x \in Sent(s)'
  BY <1>1 DEF Reads
<1>5. \A f, x : Reads(s, f, x)' => cl.pc \in GetPcs
  <2>1. TransfersAre'
    BY TransfersNext
  <2>2. \A x : Sock(c)' = s /\ x \in Sent(s)' => client[c]'.pc \in GetPcs
    BY <2>1 DEF TransfersAre
  <2>3. QED
    BY <1>1, <1>4, <2>2
<1>6. QED
  BY <1>2, <1>3, <1>4, <1>5

LEMMA ClientUploads ==
  ASSUME IInv, IInv', NEW c \in Clients, NEW cl, NEW s \in Conns, NEW k,
         Moves(c, cl, s, k)
  PROVE  /\ \A x : Uploads(s, x) <=>
              \/ /\ session[s].pc \in {"filedata", "body"}
                 /\ x \in Carries(conn[s].q["server"]) \cup Carries(client[c].out)
              \/ session[s].pc \in {"truncate", "write"} /\ x = session[s].buf
         /\ \A x : Uploads(s, x)' <=>
              \/ /\ session[s].pc \in {"filedata", "body"}
                 /\ \/ x \in Carries(k.q["server"])
                    \/ cl.sock = s /\ x \in Carries(cl.out)
              \/ session[s].pc \in {"truncate", "write"} /\ x = session[s].buf
         /\ \A d, f, x : Writes(s, d, f, x)' <=>
              Uploads(s, x)' /\ d = session[s].cwd /\ f = session[s].name
<1>1. /\ conn[s]' = k /\ client[c]' = cl /\ session[s]' = session[s]
      /\ Sock(c) = s /\ Sock(c)' = cl.sock
      /\ \A d \in Clients : d # c => Sock(d) # s /\ Sock(d)' # s
  BY MovesTo
<1>3. \A x : (\E d \in Clients : Sock(d) = s /\ x \in Carries(client[d].out))
               <=> x \in Carries(client[c].out)
  BY <1>1
<1>4. \A x : (\E d \in Clients : Sock(d)' = s /\ x \in Carries(client[d]'.out))
               <=> cl.sock = s /\ x \in Carries(cl.out)
  BY <1>1
<1>5. QED
  BY <1>1, <1>3, <1>4 DEF Uploads, Writes

\* A step of a client that brings no content into a stream.
LEMMA ClientWrites ==
  ASSUME IInv, IInv', NEW c \in Clients, NEW cl, NEW s \in Conns, NEW k,
         Moves(c, cl, s, k),
         Carries(k.q["server"]) \subseteq
           Carries(conn[s].q["server"]) \cup Carries(client[c].out),
         cl.sock = s => Carries(cl.out) \subseteq
           Carries(conn[s].q["server"]) \cup Carries(client[c].out)
  PROVE  LessWritten(s)
<1>1. \A x : Uploads(s, x)' => Uploads(s, x)
  BY ClientUploads
<1>2. \A d, f, x : Writes(s, d, f, x)' =>
        Uploads(s, x)' /\ d = session[s].cwd /\ f = session[s].name
  BY ClientUploads
<1>3. QED
  BY <1>1, <1>2 DEF LessWritten, Writes

LEMMA ClientAbandons ==
  ASSUME IInv, IInv', NEW c \in Clients, NEW cl, NEW s \in Conns, NEW k,
         Moves(c, cl, s, k), UNCHANGED <<serverVars, disk>>, cl.sock \in {s, Fresh},
         cl.sock = s /\ cl.pc \in GetPcs =>
           \A x \in Carries(k.q["client"]) \cup Carries(session[s].out) :
             x \in Sent(s) /\ cl.name = client[c].name,
         Carries(k.q["server"]) \subseteq
           Carries(conn[s].q["server"]) \cup Carries(client[c].out),
         cl.sock = s => Carries(cl.out) \subseteq
           Carries(conn[s].q["server"]) \cup Carries(client[c].out)
  PROVE  FS!Abandon
<1>1. UNCHANGED session /\ UNCHANGED <<files, disk>>
  BY DEF serverVars
<1>2. LessWritten(s)
  BY ClientWrites
<1>3. LessRead(s)
  <2>1. /\ \A f, x : Reads(s, f, x) <=> f = client[c].name /\ x \in Sent(s)
        /\ \A f, x : Reads(s, f, x)' =>
             /\ cl.sock = s /\ f = cl.name
             /\ x \in Carries(k.q["client"]) \cup Carries(session[s].out)
        /\ \A f, x : Reads(s, f, x)' => cl.pc \in GetPcs
    BY ClientOwn
  <2>2. QED
    BY <2>1 DEF LessRead
<1>4. \A r \in Conns : r # s => LessRead(r) /\ LessWritten(r)
  <2>1. \A r \in Conns : r # s => conn[r]' = conn[r] /\ Sock(c) # r /\ cl.sock # r
    BY ClientAssumption DEF IInv, TypeInv, TypeOK, Moves
  <2>2. QED
    BY <1>1, <2>1, ClientOthers DEF Moves
<1>5. TransfersAre /\ TransfersAre'
  BY TransfersThere, TransfersNext
<1>6. QED
  BY <1>1, <1>2, <1>3, <1>4, <1>5, AbandonStep

\* A client that closes its end, z being the connection before.
LEMMA ClosesAbandons ==
  ASSUME IInv, IInv', NEW c \in Clients, NEW cl, SetClient(c, cl),
         UNCHANGED <<serverVars, disk>>, Sock(c) # Fresh, cl.sock = Fresh,
         NEW z \in Connections, OnConn(c, Closed(z, "client")),
         Carries(z.q["server"]) \subseteq
           Carries(conn[Sock(c)].q["server"]) \cup Carries(client[c].out)
  PROVE  FS!Abandon
<1> DEFINE s == Sock(c)
           k == Closed(z, "client")
           q == k.q["server"]
<1>0. s \in Conns /\ Fresh \notin Conns
  BY OwnConn, ClientAssumption
<1>1. q = z.q["server"] \/ q = <<>>
  <2>1. z.open["server"] \in BOOLEAN
    BY StreamTypes, PeerOf
  <2>2. QED
    BY <2>1, ClientCloses, SpentFields
<1> HIDE DEF q
<1>2. Carries(q) \subseteq Carries(conn[s].q["server"]) \cup Carries(client[c].out)
  BY <1>1, CarriesEmpty
<1>3. client' = [client EXCEPT ![c] = cl] /\ conn' = [conn EXCEPT ![s] = k]
  BY DEF SetClient, OnConn
<1>4. Carries(k.q["server"]) \subseteq
        Carries(conn[s].q["server"]) \cup Carries(client[c].out)
  BY <1>2 DEF q
<1>5. PICK r \in Conns : r = Sock(c)
  BY <1>0
<1> HIDE DEF k
<1>6. cl.sock \in {r, Fresh} /\ cl.sock # r
  BY <1>0, <1>5
<1>7. Moves(c, cl, r, k)
      /\ Carries(k.q["server"]) \subseteq
           Carries(conn[r].q["server"]) \cup Carries(client[c].out)
  BY <1>3, <1>4, <1>5 DEF Moves, serverVars
<1> HIDE DEF s
<1>8. QED
  BY <1>6, <1>7, ClientAbandons

LEMMA CloseSockAbandons ==
  ASSUME IInv, IInv', NEW c \in Clients, NEW cl, SetClient(c, cl), CloseSock(c),
         UNCHANGED <<serverVars, disk>>, cl.sock = Fresh
  PROVE  FS!Abandon
<1>1. CASE Sock(c) = Fresh
  <2>1. client' = [client EXCEPT ![c] = cl] /\ UNCHANGED <<conn, serverVars, disk>>
    BY <1>1 DEF CloseSock, SetClient
  <2>2. QED
    BY <1>1, <2>1, AloneAbandons
<1>2. CASE Sock(c) # Fresh
  <2> DEFINE z == conn[Sock(c)]
  <2>1. OnConn(c, Closed(z, "client")) /\ z \in Connections
    BY <1>2, OwnConn DEF CloseSock
  <2>2. Carries(z.q["server"]) \subseteq
          Carries(conn[Sock(c)].q["server"]) \cup Carries(client[c].out)
    OBVIOUS
  <2> HIDE DEF z
  <2>3. QED
    BY <1>2, <2>1, <2>2, ClosesAbandons
<1>3. QED
  BY <1>1, <1>2

LEMMA EndAbandons ==
  ASSUME IInv, IInv', NEW c \in Clients, NEW pc \in {"exited", "killed"}, End(c, pc),
         UNCHANGED <<serverVars, disk>>
  PROVE  FS!Abandon
<1> DEFINE cl == [NewClient EXCEPT !.pc = pc]
<1>1. cl.sock = Fresh
  BY EndedClientType
<1>2. CloseSock(c) /\ SetClient(c, cl)
  BY DEF End
<1> HIDE DEF cl
<1>3. QED
  BY <1>1, <1>2, CloseSockAbandons

LEMMA DropAbandons ==
  ASSUME IInv, IInv', NEW c \in Clients, NEW info \in BOOLEAN, CloseSock(c),
         SetClient(c, Drop(c, info)), UNCHANGED <<serverVars, disk>>
  PROVE  FS!Abandon
<1> DEFINE cl == Drop(c, info)
<1>1. cl.sock = Fresh
  BY IdleType DEF IInv
<1>2. SetClient(c, cl)
  OBVIOUS
<1> HIDE DEF cl
<1>3. QED
  BY <1>1, <1>2, CloseSockAbandons

LEMMA EndingsAbandon ==
  ASSUME IInv, IInv', NEW c \in Clients, UNCHANGED serverVars,
         OpenAgain(c) \/ ServerIsDown(c) \/ CloseClient(c) \/ Kill(c)
  PROVE  FS!Abandon
<1>1. client[c].info \in BOOLEAN
  BY ClientFacts DEF IInv
<1>2. CASE OpenAgain(c)
  BY <1>1, <1>2, DropAbandons DEF OpenAgain
<1>3. CASE ServerIsDown(c)
  BY <1>3, DropAbandons DEF ServerIsDown
<1>4. CASE CloseClient(c)
  BY <1>4, EndAbandons DEF CloseClient
<1>5. CASE Kill(c)
  BY <1>5, EndAbandons DEF Kill
<1>6. QED
  BY <1>2, <1>3, <1>4, <1>5

\* A new connection has nothing in its streams but a request.
LEMMA OpenConnectionStep ==
  ASSUME IInv, IInv', NEW c \in Clients, OpenConnection(c), UNCHANGED serverVars
  PROVE  FS!Abandon
<1>0. PICK s : s = (CHOOSE r \in Conns : ~conn[r].used)
  OBVIOUS
<1> DEFINE cl == [client[c] EXCEPT !.pc = "open", !.sock = s,
                                   !.out = <<Header("OPEN_CONN_REQUEST", 0, 0)>>]
<1>1. /\ s \in Conns /\ ~conn[s].used /\ Sock(c) = Fresh /\ serverUp
      /\ conn' = [conn EXCEPT ![s] = Established]
      /\ client' = [client EXCEPT ![c] = cl] /\ UNCHANGED disk
  BY <1>0 DEF OpenConnection, SetClient
<1>2. cl.sock = s
  BY ClientFacts DEF IInv, ClientStates
<1> HIDE DEF cl
<1>3. session[s].pc = "new" /\ session[s].out = <<>>
  BY <1>1, ThreadFacts, TypeFacts DEF ConnOK, SessionOK
<1>4. Established.q["client"] = <<>>
  BY BlankFields, PeerOf DEF Established
<1>5. UNCHANGED session /\ UNCHANGED <<files, disk>>
  BY <1>1 DEF serverVars
<1>6. conn[s]' = Established /\ \A r \in Conns : r # s => conn[r]' = conn[r]
  BY <1>1 DEF IInv, TypeInv, TypeOK
<1>7. ASSUME NEW r \in Conns
      PROVE  LessRead(r) /\ LessWritten(r)
  <2>1. CASE r # s
    <3>1. Sock(c) # r /\ cl.sock # r
      BY <1>1, <1>2, <2>1, ClientAssumption
    <3>2. QED
      BY <1>1, <1>5, <1>6, <2>1, <3>1, ClientOthers
  <2>2. CASE r = s
    <3>1. session[r]' = session[r]
      BY <1>5
    <3>2. Sent(r)' = {}
      <4>1. conn[r]'.q["client"] = <<>> /\ session[r]'.out = <<>>
        BY <1>3, <1>4, <1>6, <2>2, <3>1
      <4>2. QED
        BY <4>1, CarriesEmpty DEF Sent
    <3>3. \A x : ~Uploads(r, x)'
      BY <1>3, <2>2, <3>1 DEF Uploads
    <3>4. QED
      BY <3>2, <3>3 DEF LessRead, LessWritten, Reads, Writes
  <2>3. QED
    BY <2>1, <2>2
<1>8. TransfersAre /\ TransfersAre'
  BY TransfersThere, TransfersNext
<1>9. QED
  BY <1>5, <1>7, <1>8, AbandonStep

\* Requests carry no content.
LEMMA CommandStep ==
  ASSUME IInv, IInv', NEW c \in Clients, NEW command, NEW pc,
         NEW f, NEW request, Carries(request) = {},
         Command(c, command, pc, f, request), UNCHANGED serverVars
  PROVE  FS!Abandon
<1> DEFINE cl == [client[c] EXCEPT !.pc = pc, !.name = f, !.out = request]
<1>1. /\ client[c].pc = "prompt" /\ client' = [client EXCEPT ![c] = cl]
      /\ UNCHANGED <<conn, disk>>
  BY DEF Command, Types, Prompt, SetClient
<1>2. cl.out = request /\ cl.sock = Sock(c)
  BY ClientFacts DEF ClientStates, IInv
<1> HIDE DEF cl
<1>3. CASE Sock(c) = Fresh
  BY <1>1, <1>2, <1>3, AloneAbandons
<1>4. CASE Sock(c) # Fresh
  <2>1. PICK s \in Conns : s = Sock(c)
    BY <1>4, OwnConn
  <2> DEFINE k == conn[s]
  <2>2. Moves(c, cl, s, k)
    BY <1>1, <2>1 DEF Moves, serverVars, IInv, TypeInv, TypeOK
  <2>3. Sent(s) = {}
    <3>1. TransfersAre
      BY TransfersThere
    <3>2. \A x : x \in Sent(s) => client[c].pc \in GetPcs
      BY <2>1, <3>1 DEF TransfersAre
    <3>3. QED
      BY <1>1, <3>2 DEF GetPcs
  <2>4. /\ Carries(k.q["client"]) \cup Carries(session[s].out) = {}
        /\ Carries(k.q["server"]) \subseteq
             Carries(conn[s].q["server"]) \cup Carries(client[c].out)
    BY <2>3 DEF Sent
  <2> HIDE DEF k
  <2>5. QED
    BY <1>1, <1>2, <2>1, <2>2, <2>3, <2>4, ClientAbandons
<1>5. QED
  BY <1>3, <1>4

LEMMA CommandsAbandon ==
  ASSUME IInv, IInv', NEW c \in Clients, UNCHANGED serverVars,
         \/ ListFiles(c) \/ CloseConnection(c) \/ ChangeDirectory(c)
         \/ DownloadFiles(c) \/ Sha256(c) \/ UploadFiles(c)
  PROVE  FS!Abandon
<1>1. {"LIST_REQUEST", "QUIT_REQUEST"} \subseteq HeaderTypes \ {"FILE_DATA"}
  BY DEF HeaderTypes, Requests
<1>2. /\ Carries(<<Header("LIST_REQUEST", 0, 0)>>) = {}
      /\ Carries(<<Header("QUIT_REQUEST", 0, 0)>>) = {}
  BY <1>1, PlainReplies
<1>3. \A f \in Names, type \in Requests : Carries(NameRequest(type, f)) = {}
  BY PlainTexts
<1>4. {"CD_REQUEST", "GET_REQUEST", "PUT_REQUEST", "SHA_REQUEST"} \subseteq Requests
  BY DEF Requests
<1>5. CASE ListFiles(c)
  BY <1>2, <1>5, CommandStep DEF ListFiles
<1>6. CASE CloseConnection(c)
  BY <1>2, <1>6, CommandStep DEF CloseConnection
<1>7. CASE ChangeDirectory(c)
  BY <1>3, <1>4, <1>7, CommandStep DEF ChangeDirectory
<1>8. CASE DownloadFiles(c)
  BY <1>3, <1>4, <1>8, CommandStep DEF DownloadFiles
<1>9. CASE Sha256(c)
  BY <1>3, <1>4, <1>9, CommandStep DEF Sha256
<1>10. CASE UploadFiles(c)
  BY <1>3, <1>4, <1>10, CommandStep DEF UploadFiles
<1>11. QED
  BY <1>5, <1>6, <1>7, <1>8, <1>9, <1>10

LEMMA UserAbandons ==
  ASSUME IInv, IInv', NEW c \in Clients, User(c)
  PROVE  FS!Abandon
<1>1. UserStep(c) /\ UNCHANGED serverVars
  BY DEF User
<1>2. QED
  BY <1>1, OpenConnectionStep, EndingsAbandon, CommandsAbandon DEF UserStep

\* The content in the upstream of a client's connection k.
Brought(c, k) ==
  Carries(k.q["server"]) \subseteq Carries(conn[Sock(c)].q["server"]) \cup Carries(client[c].out)

\* A client that goes back to its prompt, k being the connection.
LEMMA IdleAbandons ==
  ASSUME IInv, IInv', NEW c \in Clients, Sock(c) # Fresh, NEW info \in BOOLEAN,
         SetClient(c, Idle(c, info)), NEW k, OnConn(c, k), Brought(c, k),
         UNCHANGED <<serverVars, disk>>
  PROVE  FS!Abandon
<1> DEFINE cl == Idle(c, info)
<1>1. cl.pc = "prompt" /\ cl.sock = Sock(c) /\ cl.out = <<>>
  BY IdleType DEF IInv
<1>2. client' = [client EXCEPT ![c] = cl]
  BY DEF SetClient
<1> HIDE DEF cl
<1>3. PICK s \in Conns : s = Sock(c)
  BY OwnConn
<1>4. Moves(c, cl, s, k)
  BY <1>2, <1>3 DEF Moves, OnConn, serverVars
<1>5. cl.pc \notin GetPcs /\ Carries(cl.out) = {}
  BY <1>1, CarriesEmpty DEF GetPcs
<1>6. Carries(k.q["server"]) \subseteq
        Carries(conn[s].q["server"]) \cup Carries(client[c].out)
  BY <1>3 DEF Brought
<1>7. cl.sock \in {s, Fresh}
  BY <1>1, <1>3
<1>8. QED
  BY <1>4, <1>5, <1>6, <1>7, ClientAbandons

LEMMA GiveUpAbandons ==
  ASSUME IInv, IInv', NEW c \in Clients, Sock(c) # Fresh, NEW k \in Connections,
         Brought(c, k), NEW closing, GiveUp(c, k, closing), UNCHANGED <<serverVars, disk>>
  PROVE  FS!Abandon
<1> DEFINE info == client[c].info /\ client[c].pc \notin {"open", "quit"}
<1>1. info \in BOOLEAN
  BY ClientFacts DEF IInv
<1>2. CASE client[c].pc \in closing
  <2> DEFINE cl == Drop(c, info)
  <2>1. OnConn(c, Closed(k, "client")) /\ SetClient(c, cl)
    BY <1>2 DEF GiveUp
  <2>2. cl.sock = Fresh
    BY <1>1, IdleType DEF IInv
  <2> HIDE DEF cl
  <2>3. QED
    BY <2>1, <2>2, ClosesAbandons DEF Brought
<1>3. CASE client[c].pc \notin closing
  <2>1. OnConn(c, k) /\ SetClient(c, Idle(c, info))
    BY <1>3 DEF GiveUp
  <2> HIDE DEF info
  <2>2. QED
    BY <1>1, <2>1, IdleAbandons
<1>4. QED
  BY <1>2, <1>3

LEMMA ReplyLostStep ==
  ASSUME IInv, IInv', NEW c \in Clients, ReplyLost(c), UNCHANGED serverVars
  PROVE  FS!Abandon
<1> DEFINE k == conn[Sock(c)]
           z == AfterEnded(k, "client")
<1>1. /\ Waits(c) /\ GiveUp(c, z, {"open"}) /\ UNCHANGED disk
  BY DEF ReplyLost
<1>2. Sock(c) # Fresh
  BY <1>1, WaitsType, ClientAssumption DEF IInv
<1>3. k \in Connections
  BY <1>2, OwnConn
<1>4. z \in Connections /\ z.q = k.q
  BY <1>3, AfterEndedType, AfterEndedFields, PeerOf
<1> HIDE DEF z
<1>5. Brought(c, z)
  BY <1>4 DEF Brought
<1>6. QED
  BY <1>1, <1>2, <1>4, <1>5, GiveUpAbandons

\* A reply is taken; of the rest of the stream nothing is new.
LEMMA TakesReply ==
  ASSUME IInv, NEW c \in Clients, NEW pc, Replied(c, pc), NEW k,
         k = AfterRecv(conn[Sock(c)], "client")
  PROVE  /\ Sock(c) # Fresh /\ client[c].pc = pc /\ client[c].out = <<>>
         /\ k \in Connections /\ Brought(c, k)
         /\ Carries(k.q["client"]) \subseteq Carries(conn[Sock(c)].q["client"])
<1> DEFINE z == conn[Sock(c)]
           q == z.q["client"]
<1>1. /\ Sock(c) # Fresh /\ client[c].out = <<>> /\ client[c].pc = pc
      /\ z \in Connections /\ HasData(z, "client") /\ q \in Seq(Messages) /\ q # <<>>
  BY ReplyArrives
<1>2. /\ k \in Connections /\ k.q["client"] = Tail(q) /\ k.q["server"] = z.q["server"]
  BY <1>1, ClientReceives
<1> HIDE DEF q, z
<1>3. Carries(Tail(q)) \subseteq Carries(q)
  BY <1>1, TailCarries
<1>4. QED
  BY <1>1, <1>2, <1>3 DEF Brought, q, z

LEMMA DoneAbandons ==
  ASSUME IInv, IInv', NEW c \in Clients, NEW pc, Replied(c, pc), TakeReply(c), Done(c),
         UNCHANGED <<serverVars, disk>>
  PROVE  FS!Abandon
<1>1. PICK k : k = AfterRecv(conn[Sock(c)], "client")
  OBVIOUS
<1>2. Sock(c) # Fresh /\ Brought(c, k) /\ OnConn(c, k)
  BY <1>1, TakesReply DEF TakeReply
<1>3. client[c].info \in BOOLEAN
  BY ClientFacts DEF IInv
<1>4. QED
  BY <1>2, <1>3, IdleAbandons DEF Done

LEMMA AwaitAbandons ==
  ASSUME IInv, IInv', NEW c \in Clients, NEW pc, Replied(c, pc), TakeReply(c),
         NEW new, Await(c, new), UNCHANGED <<serverVars, disk>>
  PROVE  FS!Abandon
<1> DEFINE cl == [client[c] EXCEPT !.pc = new]
<1>1. PICK k : k = AfterRecv(conn[Sock(c)], "client")
  OBVIOUS
<1>2. /\ Sock(c) # Fresh /\ Brought(c, k) /\ OnConn(c, k) /\ client[c].out = <<>>
      /\ Carries(k.q["client"]) \subseteq Carries(conn[Sock(c)].q["client"])
  BY <1>1, TakesReply DEF TakeReply
<1>3. client' = [client EXCEPT ![c] = cl]
  BY DEF Await, SetClient
<1>4. cl.sock = Sock(c) /\ cl.out = client[c].out /\ cl.name = client[c].name
  BY ClientFacts DEF IInv, ClientStates
<1> HIDE DEF cl
<1>5. PICK s \in Conns : s = Sock(c)
  BY <1>2, OwnConn
<1>6. Moves(c, cl, s, k)
  BY <1>2, <1>3, <1>5 DEF Moves, OnConn, serverVars
<1>7. \A x \in Carries(k.q["client"]) \cup Carries(session[s].out) :
        x \in Sent(s) /\ cl.name = client[c].name
  BY <1>2, <1>4, <1>5 DEF Sent
<1>8. Carries(k.q["server"]) \subseteq
        Carries(conn[s].q["server"]) \cup Carries(client[c].out)
  BY <1>2, <1>5 DEF Brought
<1>9. cl.sock \in {s, Fresh} /\ Carries(cl.out) = Carries(client[c].out)
  BY <1>4, <1>5
<1>10. QED
  BY <1>6, <1>7, <1>8, <1>9, ClientAbandons

\* The replies that bring no content and are followed by no upload.
LEMMA PlainRepliesAbandon ==
  ASSUME IInv, IInv', NEW c \in Clients, UNCHANGED serverVars,
         \/ RecvCdReply(c) \/ RecvGetReply(c)
         \/ RecvShaReply(c) \/ RecvShaData(c) \/ RecvShaValue(c)
  PROVE  FS!Abandon
<1>1. CASE RecvCdReply(c)
  BY <1>1, DoneAbandons DEF RecvCdReply
<1>2. CASE RecvGetReply(c)
  BY <1>2, DoneAbandons, AwaitAbandons DEF RecvGetReply
<1>3. CASE RecvShaReply(c)
  BY <1>3, DoneAbandons, AwaitAbandons DEF RecvShaReply
<1>4. CASE RecvShaData(c)
  BY <1>4, AwaitAbandons DEF RecvShaData
<1>5. CASE RecvShaValue(c)
  BY <1>5, DoneAbandons DEF RecvShaValue
<1>6. QED
  BY <1>1, <1>2, <1>3, <1>4, <1>5

LEMMA RecvListReplyStep ==
  ASSUME IInv, IInv', NEW c \in Clients, RecvListReply(c), UNCHANGED serverVars
  PROVE  FS!Abandon
<1> DEFINE z == conn[Sock(c)]
<1>1. Sock(c) # Fresh /\ z \in Connections
  BY ReplyArrives DEF RecvListReply
<1>2. /\ UNCHANGED disk /\ Done(c)
      /\ \E n \in ListTaken(z) :
           OnConn(c, [z EXCEPT !.q["client"] = SubSeq(@, n + 1, Len(@))])
  BY DEF RecvListReply
<1>3. PICK n : OnConn(c, [z EXCEPT !.q["client"] = SubSeq(@, n + 1, Len(@))])
  BY <1>2
<1> DEFINE k == [z EXCEPT !.q["client"] = SubSeq(@, n + 1, Len(@))]
<1>4. k.q["server"] = z.q["server"]
  BY <1>1, PeerOf DEF Connections
<1>5. OnConn(c, k)
  BY <1>3
<1> HIDE DEF k
<1>6. Brought(c, k)
  BY <1>4 DEF Brought
<1>7. client[c].info \in BOOLEAN
  BY ClientFacts DEF IInv
<1>8. QED
  BY <1>1, <1>2, <1>5, <1>6, <1>7, IdleAbandons DEF Done

LEMMA RecvOpenReplyStep ==
  ASSUME IInv, IInv', NEW c \in Clients, RecvOpenReply(c), UNCHANGED serverVars
  PROVE  FS!Abandon
<1>1. PICK k : k = AfterRecv(conn[Sock(c)], "client")
  OBVIOUS
<1>2. /\ Replied(c, "open") /\ UNCHANGED disk
      /\ \/ OnConn(c, k) /\ SetClient(c, Idle(c, TRUE))
         \/ OnConn(c, Closed(k, "client")) /\ SetClient(c, Drop(c, FALSE))
  BY <1>1 DEF RecvOpenReply
<1>3. Sock(c) # Fresh /\ k \in Connections /\ Brought(c, k)
  BY <1>1, <1>2, TakesReply
<1>4. CASE OnConn(c, k) /\ SetClient(c, Idle(c, TRUE))
  BY <1>2, <1>3, <1>4, IdleAbandons
<1>5. CASE OnConn(c, Closed(k, "client")) /\ SetClient(c, Drop(c, FALSE))
  <2> DEFINE cl == Drop(c, FALSE)
  <2>1. SetClient(c, cl) /\ cl.sock = Fresh
    BY <1>5, IdleType DEF IInv
  <2> HIDE DEF cl
  <2>2. QED
    BY <1>2, <1>3, <1>5, <2>1, ClosesAbandons DEF Brought
<1>6. QED
  BY <1>2, <1>4, <1>5

LEMMA RecvQuitReplyStep ==
  ASSUME IInv, IInv', NEW c \in Clients, RecvQuitReply(c), UNCHANGED serverVars
  PROVE  FS!Abandon
<1>1. PICK k : k = AfterRecv(conn[Sock(c)], "client")
  OBVIOUS
<1>2. /\ Replied(c, "quit") /\ UNCHANGED disk
      /\ \/ OnConn(c, k) /\ SetClient(c, Idle(c, FALSE))
         \/ OnConn(c, Closed(k, "client")) /\ SetClient(c, Drop(c, FALSE))
  BY <1>1 DEF RecvQuitReply
<1>3. Sock(c) # Fresh /\ k \in Connections /\ Brought(c, k)
  BY <1>1, <1>2, TakesReply
<1>4. CASE OnConn(c, k) /\ SetClient(c, Idle(c, FALSE))
  BY <1>2, <1>3, <1>4, IdleAbandons
<1>5. CASE OnConn(c, Closed(k, "client")) /\ SetClient(c, Drop(c, FALSE))
  <2> DEFINE cl == Drop(c, FALSE)
  <2>1. SetClient(c, cl) /\ cl.sock = Fresh
    BY <1>5, IdleType DEF IInv
  <2> HIDE DEF cl
  <2>2. QED
    BY <1>2, <1>3, <1>5, <2>1, ClosesAbandons DEF Brought
<1>6. QED
  BY <1>2, <1>4, <1>5

\* A send moves content along, or loses it.
LEMMA ClientSendStep ==
  ASSUME IInv, IInv', NEW c \in Clients, ClientSend(c), UNCHANGED serverVars
  PROVE  FS!Abandon
<1> DEFINE k == conn[Sock(c)]
           out == client[c].out
           upload == client[c].pc = "upload"
           ms == IF upload THEN <<Head(out)>> ELSE out
           rest == IF upload THEN Tail(out) ELSE <<>>
           sent == AfterSend(k, "client", ms)
<1>1. /\ out # <<>> /\ UNCHANGED disk
      /\ CASE Sock(c) = Fresh \/ SendResult(k, "client") = "sigpipe" -> End(c, "killed")
           [] Sock(c) # Fresh /\ SendResult(k, "client") = "error" ->
                GiveUp(c, sent, {"open", "ls", "quit"})
           [] OTHER ->
                /\ OnConn(c, sent)
                /\ SetClient(c, IF upload /\ rest = <<>> THEN Idle(c, client[c].info)
                                ELSE [client[c] EXCEPT !.out = rest])
  BY DEF ClientSend
<1>2. /\ client[c] \in ClientStates /\ out \in Seq(Messages) /\ client[c].info \in BOOLEAN
      /\ Sock(c) = client[c].sock
  BY ClientFacts DEF IInv
<1>3. /\ ms \in Seq(Messages) /\ Carries(ms) \subseteq Carries(out)
      /\ Carries(rest) \subseteq Carries(out)
  <2> HIDE DEF out
  <2>1. /\ Head(out) \in Messages /\ Tail(out) \in Seq(Messages)
        /\ <<Head(out)>> \o Tail(out) = out
    <3>1. <<>> \o out = out /\ (<<>> \o <<Head(out)>>) \o Tail(out) = <<>> \o out
      BY <1>1, <1>2, EmptyContent, Streams
    <3>2. Head(out) \in Messages /\ Tail(out) \in Seq(Messages)
      BY <1>1, <1>2, TailOf
    <3>3. <<>> \o <<Head(out)>> = <<Head(out)>>
      BY <3>2, EmptyContent, Streams
    <3>4. QED
      BY <3>1, <3>2, <3>3
  <2> DEFINE h == <<Head(out)>>
             r == Tail(out)
  <2>2. h \in Seq(Messages) /\ r \in Seq(Messages) /\ h \o r = out
    BY <2>1
  <2> HIDE DEF h, r
  <2>3. Carries(h \o r) = Carries(h) \cup Carries(r)
    BY <2>2, CarriesConcat
  <2>4. Carries(h) \subseteq Carries(out) /\ Carries(r) \subseteq Carries(out)
    BY <2>2, <2>3
  <2>5. CASE upload
    BY <2>2, <2>4, <2>5 DEF h, r
  <2>6. CASE ~upload
    BY <1>2, <2>6, CarriesEmpty
  <2>7. QED
    BY <2>5, <2>6
<1>4. CASE Sock(c) = Fresh \/ SendResult(k, "client") = "sigpipe"
  <2>1. End(c, "killed")
    BY <1>1, <1>4
  <2>2. QED
    BY <1>1, <2>1, EndAbandons
<1> HIDE DEF ms, sent
<1>5. ASSUME Sock(c) # Fresh
      PROVE  sent \in Connections /\ sent.q["client"] = k.q["client"] /\ Brought(c, sent)
  <2> DEFINE u == k.q["server"]
  <2>1. k \in Connections /\ u \in Seq(Messages)
    BY <1>5, OwnConn
  <2>2. sent = AfterSend(k, "client", ms)
    BY DEF sent
  <2>3. k.err["client"] \in {"none", "pipe", "reset", "dead"} /\ k.open["server"] \in BOOLEAN
    BY <2>1, StreamTypes, PeerOf
  <2>4. /\ sent \in Connections /\ sent.q["client"] = k.q["client"]
        /\ sent.q["server"] = u \o ms \/ sent.q["server"] = u
    <3> HIDE DEF k
    <3>1. SentOn(k, ms, sent)
      BY <1>3, <2>1, <2>2, ClientSends
    <3>2. QED
      BY <2>3, <3>1 DEF SentOn
  <2> HIDE DEF u
  <2>5. Carries(u \o ms) = Carries(u) \cup Carries(ms)
    BY <1>3, <2>1, CarriesConcat
  <2>6. Carries(sent.q["server"]) \subseteq Carries(u) \cup Carries(out)
    BY <1>3, <2>4, <2>5
  <2>7. QED
    BY <2>4, <2>6 DEF Brought, u
<1>6. CASE Sock(c) # Fresh /\ SendResult(k, "client") = "error"
  <2>1. GiveUp(c, sent, {"open", "ls", "quit"})
    BY <1>1, <1>6
  <2>2. QED
    BY <1>1, <1>5, <1>6, <2>1, GiveUpAbandons
<1>7. CASE Sock(c) # Fresh /\ SendResult(k, "client") \notin {"sigpipe", "error"}
  <2>1. /\ OnConn(c, sent)
        /\ SetClient(c, IF upload /\ rest = <<>> THEN Idle(c, client[c].info)
                        ELSE [client[c] EXCEPT !.out = rest])
    BY <1>1, <1>7
  <2>2. CASE upload /\ rest = <<>>
    BY <1>1, <1>2, <1>5, <1>7, <2>1, <2>2, IdleAbandons
  <2>3. CASE ~(upload /\ rest = <<>>)
    <3> DEFINE cl == [client[c] EXCEPT !.out = rest]
    <3>1. client' = [client EXCEPT ![c] = cl]
      BY <2>1, <2>3 DEF SetClient
    <3> HIDE DEF rest
    <3>2. cl.sock = Sock(c) /\ cl.out = rest /\ cl.name = client[c].name
      BY <1>2 DEF ClientStates
    <3> HIDE DEF cl
    <3>3. PICK s \in Conns : s = Sock(c)
      BY <1>7, OwnConn
    <3>4. Moves(c, cl, s, sent)
      BY <2>1, <3>1, <3>3 DEF Moves, OnConn, serverVars
    <3>5. \A x \in Carries(sent.q["client"]) \cup Carries(session[s].out) :
            x \in Sent(s) /\ cl.name = client[c].name
      BY <1>5, <1>7, <3>2, <3>3 DEF Sent
    <3>6. Carries(sent.q["server"]) \subseteq
            Carries(conn[s].q["server"]) \cup Carries(client[c].out)
      BY <1>5, <1>7, <3>3 DEF Brought
    <3>7. cl.sock \in {s, Fresh} /\ Carries(cl.out) \subseteq Carries(client[c].out)
      BY <1>3, <3>2, <3>3
    <3>8. QED
      BY <1>1, <3>4, <3>5, <3>6, <3>7, ClientAbandons
  <2>4. QED
    BY <2>2, <2>3
<1>8. QED
  BY <1>4, <1>6, <1>7

LEMMA MovesAlone ==
  ASSUME IInv, NEW c \in Clients, NEW cl, NEW s \in Conns, NEW k, Moves(c, cl, s, k),
         cl.sock \in {s, Fresh}, NEW r \in Conns, r # s
  PROVE  SameRead(r) /\ SameWritten(r) /\ LessRead(r) /\ LessWritten(r)
<1>1. conn[r]' = conn[r] /\ Sock(c) # r /\ cl.sock # r
  BY ClientAssumption DEF IInv, TypeInv, TypeOK, Moves
<1>2. client' = [client EXCEPT ![c] = cl] /\ UNCHANGED session
  BY DEF Moves
<1>3. QED
  BY <1>1, <1>2, ClientOthers

\* The last message of a download.
LEMMA Delivered ==
  ASSUME IInv, IInv', NEW c \in Clients, NEW pc, Replied(c, pc), TakeReply(c),
         NEW x, Save(c, x), Bears(Reply(c), x), UNCHANGED serverVars
  PROVE  Sock(c) \in Conns /\ FS!Deliver(Sock(c), c)
<1> DEFINE q == conn[Sock(c)].q["client"]
           cl == Idle(c, client[c].info)
<1>1. /\ Sock(c) # Fresh /\ client[c].out = <<>>
      /\ q \in Seq(Messages) /\ q # <<>> /\ q[1] = Reply(c)
      /\ conn[Sock(c)] \in Connections /\ HasData(conn[Sock(c)], "client")
  BY ReplyArrives
<1>2. PICK s \in Conns : s = Sock(c)
  BY <1>1, OwnConn
<1>3. x \in Carries(q)
  <2> HIDE DEF q
  <2>1. Len(q) \in Nat /\ Len(q) # 0
    BY <1>1, LenZero
  <2>2. 1 \in 1 .. Len(q) /\ Bears(q[1], x)
    BY <1>1, <2>1
  <2>3. QED
    BY <1>1, <2>2, CarriesIs
<1>4. PICK f : f = client[c].name
  OBVIOUS
<1>5. TransfersAre /\ TransfersAre'
  BY TransfersThere, TransfersNext
<1>6. readings[s] = [name |-> f, data |-> x] /\ readings[s] # Nothing
  <2>1. Reads(s, f, x)
    BY <1>2, <1>3, <1>4 DEF Reads, Sent
  <2>2. Reading(s) = [name |-> f, data |-> x] /\ Reading(s) # Nothing
    BY <1>5, <2>1 DEF TransfersAre
  <2>3. QED
    BY <2>2 DEF readings
<1>7. PICK k : k = AfterRecv(conn[Sock(c)], "client")
  OBVIOUS
<1>8. client[c].info \in BOOLEAN
  BY ClientFacts DEF IInv
<1>9. cl.pc = "prompt" /\ cl.sock = Sock(c) /\ cl.out = <<>>
  BY <1>8, IdleType DEF IInv
<1>10. disk' = [disk EXCEPT ![c][f] = x] /\ client' = [client EXCEPT ![c] = cl]
  BY <1>4 DEF Save, Done, SetClient
<1> HIDE DEF cl, q
<1>11. Moves(c, cl, s, k) /\ cl.sock \in {s, Fresh}
  BY <1>2, <1>7, <1>9, <1>10 DEF Moves, TakeReply, OnConn, serverVars
<1>12. Reading(s)' = Nothing
  <2>1. \A g, y : ~Reads(s, g, y)'
    BY <1>9, <1>11, ClientOwn DEF GetPcs
  <2>2. QED
    BY <1>5, <2>1 DEF TransfersAre
<1>13. \A r \in Conns : r # s => SameRead(r) /\ SameWritten(r)
  BY <1>11, MovesAlone
<1>14. readings' = [readings EXCEPT ![s] = Nothing]
  BY <1>5, <1>12, <1>13, ReadingsExcept
<1>15. SameWritten(s)
  <2>1. k.q["server"] = conn[s].q["server"]
    BY <1>1, <1>2, <1>7, ClientReceives
  <2>2. \A y : Uploads(s, y)' <=> Uploads(s, y)
    <3>1. \A y : Uploads(s, y) <=>
            \/ /\ session[s].pc \in {"filedata", "body"}
               /\ y \in Carries(conn[s].q["server"]) \cup Carries(client[c].out)
            \/ session[s].pc \in {"truncate", "write"} /\ y = session[s].buf
      BY <1>11, ClientUploads
    <3>2. \A y : Uploads(s, y)' <=>
            \/ /\ session[s].pc \in {"filedata", "body"}
               /\ \/ y \in Carries(k.q["server"])
                  \/ cl.sock = s /\ y \in Carries(cl.out)
            \/ session[s].pc \in {"truncate", "write"} /\ y = session[s].buf
      BY <1>11, ClientUploads
    <3>3. Carries(cl.out) = {} /\ Carries(client[c].out) = {}
      BY <1>1, <1>9, CarriesEmpty
    <3>4. QED
      BY <2>1, <3>1, <3>2, <3>3
  <2>3. \A d, g, y : Writes(s, d, g, y)' <=>
          Uploads(s, y)' /\ d = session[s].cwd /\ g = session[s].name
    BY <1>11, ClientUploads
  <2>4. QED
    BY <2>2, <2>3 DEF SameWritten, Writes
<1>16. writings' = writings
  <2>1. \A r \in Conns : SameWritten(r)
    BY <1>13, <1>15
  <2>2. QED
    BY <1>5, <2>1, WritingsSame
<1>17. files' = files
  BY DEF serverVars
<1>18. disk' = [disk EXCEPT ![c][readings[s].name] = readings[s].data]
  <2>1. readings[s].name = f /\ readings[s].data = x
    BY <1>6
  <2>2. QED
    BY <1>10, <2>1
<1>19. FS!Deliver(s, c)
  BY <1>6, <1>14, <1>16, <1>17, <1>18 DEF FS!Deliver
<1>20. QED
  BY <1>2, <1>19

LEMMA RecvGetDataStep ==
  ASSUME IInv, IInv', NEW c \in Clients, RecvGetData(c), UNCHANGED serverVars
  PROVE  FS!Abandon \/ \E s \in Conns : FS!Deliver(s, c)
<1>1. Replied(c, "getdata") /\ TakeReply(c)
  BY DEF RecvGetData
<1>2. CASE Reply(c) = EmptyData
  <2>1. Save(c, <<>>)
    BY <1>2, EmptyDataIs DEF RecvGetData
  <2>2. Bears(Reply(c), <<>>)
    BY <1>2 DEF Bears
  <2>3. QED
    BY <1>1, <2>1, <2>2, Delivered
<1>3. CASE Announces(Reply(c))
  <2>1. Await(c, "getbody") /\ UNCHANGED disk
    BY <1>3, AnnouncesSize DEF RecvGetData
  <2>2. QED
    BY <1>1, <2>1, AwaitAbandons
<1>4. QED
  BY <1>1, <1>2, <1>3, GetDataArrives

LEMMA RecvGetContentStep ==
  ASSUME IInv, IInv', NEW c \in Clients, RecvGetContent(c), UNCHANGED serverVars
  PROVE  \E s \in Conns : FS!Deliver(s, c)
<1>1. /\ Replied(c, "getbody") /\ TakeReply(c) /\ Save(c, ContentIn(Reply(c)))
  BY DEF RecvGetContent
<1>2. Reply(c).type = "data"
  <2> DEFINE q == conn[Sock(c)].q["client"]
             D == q \o session[Sock(c)].out
  <2>1. /\ q \in Seq(Messages) /\ q # <<>> /\ q[1] = Reply(c) /\ client[c].pc = "getbody"
        /\ \/ D[1] = Reply(c) /\ Answered(client[c], session[Sock(c)], D)
           \/ DownOK("getbody", q)
    BY <1>1, ReplyArrives
  <2> HIDE DEF q, D
  <2>2. CASE D[1] = Reply(c) /\ Answered(client[c], session[Sock(c)], D)
    BY <2>1, <2>2 DEF Answered, IsData
  <2>3. CASE DownOK("getbody", q)
    <3>1. Len(q) > 0
      BY <2>1, LenZero
    <3>2. QED
      BY <2>1, <2>3, <3>1 DEF DownOK, IsData
  <2>4. QED
    BY <2>1, <2>2, <2>3
<1>3. Bears(Reply(c), ContentIn(Reply(c)))
  BY <1>2 DEF ContentIn, Bears
<1>4. QED
  BY <1>1, <1>3, Delivered

\* The reply to a put comes from a thread that waits for the file, if from one
\* that still runs.
LEMMA PutAnswered ==
  ASSUME IInv, NEW c \in Clients, Replied(c, "put")
  PROVE  LET k == conn[Sock(c)]
             t == session[Sock(c)]
         IN  /\ Reply(c).type = "PUT_REPLY" /\ k.q["server"] = <<>>
             /\ \/ t.pc = "filedata" /\ t.name = client[c].name
                \/ t.pc = "done"
<1> DEFINE k == conn[Sock(c)]
           t == session[Sock(c)]
           q == k.q["client"]
           D == q \o t.out
<1>1. /\ Sock(c) # Fresh /\ q \in Seq(Messages) /\ q # <<>> /\ q[1] = Reply(c)
      /\ client[c].pc = "put" /\ k.open["server"] \in BOOLEAN
      /\ k.open["server"] =>
           k.q["server"] = <<>> /\ Answered(client[c], t, D) /\ D[1] = Reply(c)
      /\ ~k.open["server"] => DownOK("put", q)
  BY ReplyArrives
<1>2. ~k.open["server"] => t.pc = "done" /\ k.q["server"] = <<>>
  BY <1>1, OwnConn
<1> HIDE DEF k, t, q, D
<1>3. CASE k.open["server"]
  <2>1. t.pc = "filedata" /\ t.name = client[c].name /\ IsReply(D, "PUT_REPLY", 0)
    BY <1>1, <1>3 DEF Answered
  <2>2. Reply(c).type = "PUT_REPLY"
    BY <1>1, <1>3, <2>1, HeaderFields DEF IsReply
  <2>3. QED
    BY <1>1, <1>3, <2>1, <2>2 DEF k, t
<1>4. CASE ~k.open["server"]
  <2>1. Len(q) > 0
    BY <1>1, LenZero
  <2>2. IsReply(q, "PUT_REPLY", 0)
    BY <1>1, <1>4, <2>1 DEF DownOK
  <2>3. Reply(c).type = "PUT_REPLY"
    BY <1>1, <2>2, HeaderFields DEF IsReply
  <2>4. QED
    BY <1>2, <1>4, <2>3 DEF k, t
<1>5. QED
  BY <1>1, <1>3, <1>4

LEMMA RecvPutReplyStep ==
  ASSUME Quiet, IInv, IInv', NEW c \in Clients, RecvPutReply(c), UNCHANGED serverVars
  PROVE  FS!Abandon \/ \E s \in Conns : FS!Submit(s, c)
<1>1. Replied(c, "put") /\ TakeReply(c) /\ UNCHANGED disk /\ client[c].pc = "put"
  BY DEF RecvPutReply, Replied
<1>2. PICK f : f = client[c].name
  OBVIOUS
<1>3. PICK x : x = disk[c][f]
  OBVIOUS
<1> DEFINE cl == [client[c] EXCEPT !.pc = "upload", !.out = FileData(x)]
<1>4. client' = [client EXCEPT ![c] = cl]
  BY <1>1, <1>2, <1>3, PutAnswered DEF RecvPutReply, Quiet, SetClient
<1>5. client[c] \in ClientStates /\ f \in Names /\ x # NoFile
  BY <1>1, <1>2, <1>3, ClientFacts DEF IInv, ClientOK, NamedPcs
<1>6. x \in Contents
  BY <1>3, <1>5 DEF IInv, TypeInv, TypeOK
<1>7. cl.sock = Sock(c) /\ cl.pc = "upload" /\ cl.out = FileData(x)
  BY <1>5 DEF ClientStates, Sock
<1> HIDE DEF cl
<1>8. Carries(cl.out) = {x}
  BY <1>6, <1>7, FileDataCarries
<1>9. PICK k : k = AfterRecv(conn[Sock(c)], "client")
  OBVIOUS
<1>10. /\ Sock(c) # Fresh /\ client[c].out = <<>>
       /\ conn[Sock(c)] \in Connections /\ HasData(conn[Sock(c)], "client")
  BY <1>1, ReplyArrives
<1>11. PICK s \in Conns : s = Sock(c)
  BY <1>10, OwnConn
<1>12. Moves(c, cl, s, k) /\ cl.sock \in {s, Fresh}
  BY <1>1, <1>4, <1>7, <1>9, <1>11 DEF Moves, TakeReply, OnConn, serverVars
<1>13. TransfersAre /\ TransfersAre'
  BY TransfersThere, TransfersNext
<1>14. \A r \in Conns : r # s => /\ SameRead(r) /\ LessRead(r)
                                 /\ SameWritten(r) /\ LessWritten(r)
  BY <1>12, MovesAlone
<1>15. SameRead(s) /\ LessRead(s)
  <2>1. \A g, y : ~Reads(s, g, y)'
    BY <1>7, <1>12, ClientOwn DEF GetPcs
  <2>2. \A y : y \in Sent(s) => client[c].pc \in GetPcs
    BY <1>11, <1>13 DEF TransfersAre
  <2>3. \A g, y : ~Reads(s, g, y)
    <3>1. \A g, y : Reads(s, g, y) <=> g = client[c].name /\ y \in Sent(s)
      BY <1>12, ClientOwn
    <3>2. QED
      BY <1>1, <2>2, <3>1 DEF GetPcs
  <2>4. QED
    BY <2>1, <2>3 DEF SameRead, LessRead
<1>16. UNCHANGED <<files, disk>>
  BY <1>1 DEF serverVars
<1>17. /\ conn[s].q["server"] = <<>> /\ k.q["server"] = <<>>
       /\ \/ session[s].pc = "filedata" /\ session[s].name = f
          \/ session[s].pc = "done"
  <2>1. /\ conn[s].q["server"] = <<>>
        /\ \/ session[s].pc = "filedata" /\ session[s].name = f
           \/ session[s].pc = "done"
    BY <1>1, <1>2, <1>11, PutAnswered
  <2>2. k.q["server"] = conn[s].q["server"]
    BY <1>9, <1>10, <1>11, ClientReceives
  <2>3. QED
    BY <2>1, <2>2
<1>18. \A y : Uploads(s, y)' <=> session[s].pc = "filedata" /\ y = x
  <2>1. \A y : Uploads(s, y)' <=>
          \/ /\ session[s].pc \in {"filedata", "body"}
             /\ \/ y \in Carries(k.q["server"])
                \/ cl.sock = s /\ y \in Carries(cl.out)
          \/ session[s].pc \in {"truncate", "write"} /\ y = session[s].buf
    BY <1>12, ClientUploads
  <2>2. Carries(k.q["server"]) = {} /\ cl.sock = s
    BY <1>7, <1>11, <1>17, CarriesEmpty
  <2>3. QED
    BY <1>8, <1>17, <2>1, <2>2
<1>19. \A d, g, y : Writes(s, d, g, y)' <=>
         Uploads(s, y)' /\ d = session[s].cwd /\ g = session[s].name
  BY <1>12, ClientUploads
<1>20. CASE session[s].pc = "done"
  <2>1. LessWritten(s)
    BY <1>18, <1>19, <1>20 DEF LessWritten
  <2>2. \A r \in Conns : LessRead(r) /\ LessWritten(r)
    BY <1>14, <1>15, <2>1
  <2>3. QED
    BY <1>13, <1>16, <2>2, AbandonStep
<1>21. CASE session[s].pc = "filedata" /\ session[s].name = f
  <2>1. PICK d : d = session[s].cwd
    OBVIOUS
  <2>2. Writing(s)' = [dir |-> d, name |-> f, data |-> x]
    <3>1. Writes(s, d, f, x)'
      BY <1>18, <1>19, <1>21, <2>1
    <3>2. QED
      BY <1>13, <3>1 DEF TransfersAre
  <2>3. writings[s] = Nothing
    <3>1. \A y : ~Uploads(s, y)
      <4>1. \A y : Uploads(s, y) <=>
              \/ /\ session[s].pc \in {"filedata", "body"}
                 /\ y \in Carries(conn[s].q["server"]) \cup Carries(client[c].out)
              \/ session[s].pc \in {"truncate", "write"} /\ y = session[s].buf
        BY <1>12, ClientUploads
      <4>2. Carries(conn[s].q["server"]) = {} /\ Carries(client[c].out) = {}
        BY <1>10, <1>17, CarriesEmpty
      <4>3. QED
        BY <1>21, <4>1, <4>2
    <3>2. Writing(s) = Nothing
      BY <1>13, <3>1 DEF TransfersAre, Writes
    <3>3. QED
      BY <3>2 DEF writings
  <2>4. writings' = [writings EXCEPT ![s] = [dir |-> d, name |-> f, data |-> x]]
    BY <1>13, <1>14, <2>2, WritingsExcept
  <2>5. readings' = readings
    <3>1. \A r \in Conns : SameRead(r)
      BY <1>14, <1>15
    <3>2. QED
      BY <1>13, <3>1, ReadingsSame
  <2>6. d \in Dirs
    BY <2>1, TypeFacts DEF IInv
  <2>7. FS!Submit(s, c)
    BY <1>3, <1>5, <1>16, <2>3, <2>4, <2>5, <2>6 DEF FS!Submit
  <2>8. QED
    BY <2>7
<1>22. QED
  BY <1>17, <1>20, <1>21

------------------------------------------------------------------------------
(* The refinement. *)

LEMMA StutterSame ==
  ASSUME IInv, IInv', UNCHANGED vars
  PROVE  UNCHANGED FS!fsVars
<1>1. /\ conn' = conn /\ session' = session /\ client' = client
      /\ UNCHANGED <<files, disk>>
  BY DEF vars, serverVars, clientVars
<1>2. \A s \in Conns : SameRead(s) /\ SameWritten(s)
  <2>1. \A s \in Conns : conn[s]' = conn[s] /\ session[s]' = session[s]
    BY <1>1
  <2>2. \A c \in Clients : Sock(c)' = Sock(c) /\ client[c]' = client[c]
    BY <1>1 DEF Sock
  <2>3. QED
    BY <2>1, <2>2, Untouched
<1>3. UNCHANGED <<readings, writings>>
  BY <1>2, TransfersThere, TransfersNext, ReadingsSame, WritingsSame
<1>4. QED
  BY <1>1, <1>3 DEF FS!fsVars

LEMMA ServerImplements ==
  ASSUME IInv, IInv', NEW s \in Conns, Server(s)
  PROVE  FS!FSNext
<1>1. SessionStep(s) /\ UNCHANGED clientVars
  BY DEF Server
<1>2. FS!Abandon \/ FS!Fetch(s) \/ FS!EmptyFile(s) \/ FS!Store(s)
  BY <1>1, AcceptStep, ServerSendStep, RecvFailsStep, RecvOpenRequestStep,
     RecvRequestStep, RecvNameStep, FileSizeStep, ReadFileStep, Sha256sumStep,
     RecvFileDataStep, RecvFileContentStep, OpenForWritingStep, WriteFileStep, QuitStep
     DEF SessionStep
<1>3. QED
  BY <1>2 DEF FS!FSNext

LEMMA ProcessImplements ==
  ASSUME Quiet, IInv, IInv', NEW c \in Clients, Process(c)
  PROVE  FS!FSNext
<1>1. ClientStep(c) /\ UNCHANGED serverVars
  BY DEF Process
<1>2. FS!Abandon \/ \E s \in Conns : FS!Deliver(s, c) \/ FS!Submit(s, c)
  BY <1>1, ClientSendStep, ReplyLostStep, RecvOpenReplyStep, RecvListReplyStep,
     PlainRepliesAbandon, RecvGetDataStep, RecvGetContentStep, RecvPutReplyStep,
     RecvQuitReplyStep
     DEF ClientStep
<1>3. QED
  BY <1>2 DEF FS!FSNext

LEMMA NextImplements ==
  ASSUME Quiet, IInv, IInv', [Next]_vars
  PROVE  [FS!FSNext]_(FS!fsVars)
<1>1. CASE UNCHANGED vars
  BY <1>1, StutterSame
<1>2. CASE Next
  <2>1. ASSUME NEW s \in Conns, Server(s)
        PROVE  FS!FSNext
    BY <2>1, ServerImplements
  <2>2. ASSUME NEW c \in Clients, Process(c)
        PROVE  FS!FSNext
    BY <2>2, ProcessImplements
  <2>3. ASSUME NEW c \in Clients, User(c)
        PROVE  FS!FSNext
    BY <2>3, UserAbandons DEF FS!FSNext
  <2>4. CASE Reboot
    BY <2>4, RestartAbandons DEF Reboot, FS!FSNext
  <2>5. CASE Finished
    BY <2>5, StutterSame DEF Finished
  <2>6. QED
    BY <1>2, <2>1, <2>2, <2>3, <2>4, <2>5 DEF Next
<1>3. QED
  BY <1>1, <1>2

LEMMA InitImplements == Init => FS!FSInit
<1> SUFFICES ASSUME Init PROVE FS!FSInit
  OBVIOUS
<1>1. TransfersAre
  BY InitInv, TransfersThere
<1>2. ASSUME NEW s \in Conns
      PROVE  Reading(s) = Nothing /\ Writing(s) = Nothing
  <2>1. session[s] = NewSession
    BY DEF Init, ServerInit
  <2>2. \A c \in Clients : Sock(c) # s
    <3>1. \A c \in Clients : client[c] = NewClient
      BY DEF Init, ClientInit
    <3>2. QED
      BY <3>1, NewClientType, ClientAssumption DEF Sock
  <2>3. \A f, x : ~Reads(s, f, x)
    BY <2>2 DEF Reads
  <2>4. \A d, f, x : ~Writes(s, d, f, x)
    BY <2>1, NewSessionType DEF Writes, Uploads
  <2>5. QED
    BY <1>1, <2>3, <2>4 DEF TransfersAre
<1>3. QED
  BY <1>2 DEF FS!FSInit, readings, writings

\* Whatever clients, threads, connections and processes do, what happens to
\* the files on either side is what the service promises: a get stores the
\* start of a file of that name, a put stores what the client's file held,
\* for files without a zero byte, which safe_recv takes whole
\* (ftp_server.cpp:219-357, ftp_client.cpp:240-405).
THEOREM RefinementTheorem == Quiet /\ Spec => ImplementsFileService
<1> DEFINE J == Quiet /\ IInv
<1>1. Quiet /\ Init => J /\ FS!FSInit
  BY InitInv, InitImplements
<1>2. J /\ [Next]_vars => J'
  BY NextInv DEF Quiet
<1>3. J /\ J' /\ [Next]_vars => [FS!FSNext]_(FS!fsVars)
  BY NextImplements
<1> HIDE DEF J
<1>4. QED
  BY <1>1, <1>2, <1>3, PTL DEF Spec, ImplementsFileService, FS!FSSpec

==============================================================================
