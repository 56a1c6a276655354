------------------------------ MODULE MCSafeRecv ------------------------------
(***************************************************************************)
(* Every message of up to five bytes, followed by up to two.               *)
(***************************************************************************)
EXTENDS SafeRecv

UpTo(n) == UNION {[1 .. m -> Bytes] : m \in 0 .. n}

ShortStreams == UpTo(5) \X UpTo(2)
==============================================================================
