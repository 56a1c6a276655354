----------------------------- MODULE FileService ------------------------------
(***************************************************************************)
(* What the FTP lab promises of files, without messages, sessions or       *)
(* sockets.  A download delivers, under the name that was asked for, what  *)
(* a file of that name held, or the start of it; an upload stores what the *)
(* uploader's file of that name held.  Between the two moments a transfer  *)
(* is under way, and may be abandoned.  Uploads of one file write over     *)
(* each other: a file is emptied first and filled later.                   *)
(***************************************************************************)
EXTENDS Naturals, Sequences

CONSTANTS Transfers, Clients, Dirs, Names, NoFile, Nothing

VARIABLES
  files,      \* files[<<d, f>>]: the shared files
  disk,       \* disk[c][f]: each client's own
  reading,    \* the content each download is carrying, or Nothing
  writing     \* the content each upload is carrying, or Nothing

fsVars == <<files, disk, reading, writing>>

FSInit ==
  /\ reading = [s \in Transfers |-> Nothing]
  /\ writing = [s \in Transfers |-> Nothing]

Fetch(s) ==
  /\ reading[s] = Nothing
  /\ \E d \in Dirs, f \in Names :
       /\ files[<<d, f>>] # NoFile
       /\ \E n \in 0 .. Len(files[<<d, f>>]) :
            reading' = [reading EXCEPT
                          ![s] = [name |-> f, data |-> SubSeq(files[<<d, f>>], 1, n)]]
  /\ UNCHANGED <<files, disk, writing>>

Deliver(s, c) ==
  /\ reading[s] # Nothing
  /\ disk' = [disk EXCEPT ![c][reading[s].name] = reading[s].data]
  /\ reading' = [reading EXCEPT ![s] = Nothing]
  /\ UNCHANGED <<files, writing>>

Submit(s, c) ==
  /\ writing[s] = Nothing
  /\ \E d \in Dirs, f \in Names :
       /\ disk[c][f] # NoFile
       /\ writing' = [writing EXCEPT ![s] = [dir |-> d, name |-> f, data |-> disk[c][f]]]
  /\ UNCHANGED <<files, disk, reading>>

Target(s) == <<writing[s].dir, writing[s].name>>

EmptyFile(s) ==
  /\ writing[s] # Nothing
  /\ files' = [files EXCEPT ![Target(s)] = <<>>]
  /\ UNCHANGED <<disk, reading, writing>>

\* The upload is written over the start of what the file holds by now.
Store(s) ==
  /\ writing[s] # Nothing
  /\ files[Target(s)] # NoFile
  /\ LET new == writing[s].data
     IN  files' = [files EXCEPT ![Target(s)] = new \o SubSeq(@, Len(new) + 1, Len(@))]
  /\ writing' = [writing EXCEPT ![s] = Nothing]
  /\ UNCHANGED <<disk, reading>>

\* Connections or processes end, and with them the downloads of R and the
\* uploads of W.
Abandon ==
  /\ \E R, W \in SUBSET Transfers :
       /\ reading' = [s \in Transfers |-> IF s \in R THEN Nothing ELSE reading[s]]
       /\ writing' = [s \in Transfers |-> IF s \in W THEN Nothing ELSE writing[s]]
  /\ UNCHANGED <<files, disk>>

FSNext ==
  \/ \E s \in Transfers :
       \/ Fetch(s) \/ EmptyFile(s) \/ Store(s)
       \/ \E c \in Clients : Deliver(s, c) \/ Submit(s, c)
  \/ Abandon

FSSpec == FSInit /\ [][FSNext]_fsVars
==============================================================================
