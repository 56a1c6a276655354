------------------------------ MODULE TcpStream -------------------------------
(***************************************************************************)
(* The TCP connections between FTP clients and server (not code under      *)
(* src/), as send(), recv(), close() and SO_ERROR of the two ends show     *)
(* them to safe_send, safe_recv and check_server_status.                   *)
(*                                                                         *)
(* TCP loses and reorders nothing.  What the programs can meet is an end   *)
(* that has been closed: a recv() then returns 0 after what was queued; a  *)
(* first send() is accepted and answered by a reset ("pipe"), a further    *)
(* one raises SIGPIPE.  An end closed with data unread resets its peer     *)
(* ("reset"): the peer's next call fails once ("dead" from then on).       *)
(***************************************************************************)
EXTENDS FtpHead

CONSTANT Conns   \* bound: the connections that can be made

VARIABLES
  conn,      \* the connections, by number
  serverUp   \* the server process, and its listening socket, live

Ends == {"client", "server"}
Peer(e) == IF e = "client" THEN "server" ELSE "client"

Connections == [used : BOOLEAN,
                open : [Ends -> BOOLEAN],            \* descriptor not closed
                q    : [Ends -> Seq(Messages)],      \* arrived, not yet read
                err  : [Ends -> {"none", "pipe", "reset", "dead"}]]

Blank(used, open) == [used |-> used,
                      open |-> [e \in Ends |-> open],
                      q    |-> [e \in Ends |-> <<>>],
                      err  |-> [e \in Ends |-> "none"]]

Unused      == Blank(FALSE, FALSE)
Established == Blank(TRUE, TRUE)
Spent       == Blank(TRUE, FALSE)

StreamInit ==
  /\ conn = [s \in Conns |-> Unused]
  /\ serverUp = TRUE

------------------------------------------------------------------------------
(* The calls, as functions of a connection k and the calling end e. *)

SendResult(k, e) ==
  CASE k.err[e] = "none"  -> "ok"
    [] k.err[e] = "reset" -> "error"
    [] OTHER              -> "sigpipe"

\* ms: the messages the call is given.
AfterSend(k, e, ms) ==
  CASE k.err[e] = "none" /\ k.open[Peer(e)]  -> [k EXCEPT !.q[Peer(e)] = @ \o ms]
    [] k.err[e] = "none" /\ ~k.open[Peer(e)] -> [k EXCEPT !.err[e] = "pipe"]
    [] OTHER                                 -> [k EXCEPT !.err[e] = "dead"]

\* recv() returns data, or 0 or -1, or blocks.
HasData(k, e) == k.q[e] # <<>>
Ended(k, e)   == k.q[e] = <<>> /\ (k.err[e] # "none" \/ ~k.open[Peer(e)])

First(k, e)       == Head(k.q[e])
AfterRecv(k, e)   == [k EXCEPT !.q[e] = Tail(@)]
AfterEnded(k, e)  == [k EXCEPT !.err[e] = IF @ = "reset" THEN "dead" ELSE @]

\* getsockopt(SO_ERROR) reports and clears a pending error.
PendingError(k, e) == k.err[e] \in {"pipe", "reset"}

\* close() of one end; of a connection closed at both ends nothing is left.
Closed(k, e) ==
  IF ~k.open[Peer(e)] THEN Spent
  ELSE [k EXCEPT !.open[e] = FALSE,
                 !.q[e] = <<>>,
                 !.err[Peer(e)] = IF k.q[e] # <<>> THEN "reset" ELSE @]
==============================================================================
