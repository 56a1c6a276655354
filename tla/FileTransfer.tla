---------------------------- MODULE FileTransfer -----------------------------
(***************************************************************************)
(* What the RTP lab promises, without packets, windows or phases: the      *)
(* packets of a file reach the output file in order; the sender learns     *)
(* that some prefix of them has been stored, never more than has; and it   *)
(* reports the transfer finished only when it knows of all of them.        *)
(***************************************************************************)
EXTENDS Naturals

CONSTANT Total   \* the packets to transfer

VARIABLES
  delivered,  \* how many packets the output file holds
  confirmed,  \* how many of them the sender knows of
  reported    \* has the sender reported success?

ftVars == <<delivered, confirmed, reported>>

FTInit ==
  /\ delivered = 0
  /\ confirmed = 0
  /\ reported = FALSE

\* A run of packets, the next ones of the file, is written.
Deliver ==
  /\ delivered' \in delivered + 1 .. Total
  /\ UNCHANGED <<confirmed, reported>>

Confirm ==
  /\ ~reported
  /\ confirmed' \in confirmed + 1 .. delivered
  /\ UNCHANGED <<delivered, reported>>

Report ==
  /\ ~reported
  /\ confirmed = Total
  /\ reported' = TRUE
  /\ UNCHANGED <<delivered, confirmed>>

FTNext == Deliver \/ Confirm \/ Report

FTSpec == FTInit /\ [][FTNext]_ftVars
==============================================================================
