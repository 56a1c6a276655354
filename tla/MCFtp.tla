-------------------------------- MODULE MCFtp ---------------------------------
(***************************************************************************)
(* The FTP model on small instances.                                       *)
(***************************************************************************)
EXTENDS FtpInvariant, TLC

CONSTANTS c1, c2, doc, pub, b1, b2, root, sub

\* pub is a directory of root.  There doc, a file in root, is a link to root.
LinkedDirs == <<root, pub>> :> sub @@ <<sub, doc>> :> root

NoSubdirs == <<>>

ShortOnServer == [p \in Paths |-> IF p = <<root, doc>> THEN <<b1>> ELSE NoFile]

\* A client's own doc, of one block or, the second client's, of two.
OnEachDisk ==
  [c \in Clients |-> [g \in Names |->
     IF g # doc THEN NoFile ELSE IF c = c1 THEN <<b2>> ELSE <<b2, b2>>]]
==============================================================================
