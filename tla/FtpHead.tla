------------------------------- MODULE FtpHead --------------------------------
(***************************************************************************)
(* The messages of the FTP lab (ftp_head.h).                               *)
(*                                                                         *)
(* A message is what one safe_recv asks for: a 12-byte header, or the      *)
(* payload that follows it.  A header carries m_type, m_status and, as n,  *)
(* the length of the payload m_length announces.  A file's content is a    *)
(* sequence of blocks, a name or a listing is one value.  All messages     *)
(* have the same fields, so that the bytes of one can be read as another.  *)
(***************************************************************************)
EXTENDS Naturals, Sequences

CONSTANTS
  Names,    \* the names clients use, of files and of directories
  Blocks,   \* blocks of file content
  Junk,     \* a block that is no part of any file
  NoArg,    \* the payload of a header
  NoFile    \* the content of a file that does not exist

Requests == {"LIST_REQUEST", "CD_REQUEST", "GET_REQUEST", "PUT_REQUEST",
             "SHA_REQUEST", "QUIT_REQUEST"}

Replies == {"LIST_REPLY", "CD_REPLY", "GET_REPLY", "PUT_REPLY", "SHA_REPLY",
            "QUIT_REPLY"}

HeaderTypes == Requests \cup Replies
                 \cup {"OPEN_CONN_REQUEST", "OPEN_CONN_REPLY", "FILE_DATA"}

Contents == Seq(Blocks \cup {Junk})

ASSUME HeadAssumption ==
  /\ Junk \notin Blocks
  /\ NoArg \notin Names
  /\ NoFile \notin Contents

Messages ==
  LET Of(types, args) == [type : types, st : {0, 1}, n : Nat, arg : args]
  IN  Of(HeaderTypes \cup {"text"}, {NoArg}) \cup Of({"name"}, Names)
        \cup Of({"digest", "data"}, Contents)

Header(t, st, n)  == [type |-> t, st |-> st, n |-> n, arg |-> NoArg]
Payload(t, value) == [type |-> t, st |-> 0, n |-> 0, arg |-> value]

\* A name or a text has one unit; a file as many as it has blocks.
NameRequest(t, f) == <<Header(t, 0, 1), Payload("name", f)>>

ListReply == <<Header("LIST_REPLY", 0, 1), Payload("text", NoArg)>>

\* safe_send of no bytes sends nothing.
FileData(content) ==
  <<Header("FILE_DATA", 0, Len(content))>> \o
  (IF content = <<>> THEN <<>> ELSE <<Payload("data", content)>>)

\* The SHA-256 sum stands for the content it is the sum of.
ShaData(content) == <<Header("FILE_DATA", 0, 1), Payload("digest", content)>>

------------------------------------------------------------------------------
(* What a receiver makes of a message, which need not be the one it expects:
   a field that the bytes do not determine has any value. *)

IsHeader(m) == m.type \in HeaderTypes

StatusIn(m)  == IF IsHeader(m) THEN {m.st} ELSE {0, 1}
SizeIn(m)    == IF IsHeader(m) THEN {m.n} ELSE {0, 1}
NameIn(m)    == IF m.type = "name" THEN {m.arg} ELSE Names
ContentIn(m) == IF m.type = "data" THEN m.arg ELSE <<Junk>>
==============================================================================
