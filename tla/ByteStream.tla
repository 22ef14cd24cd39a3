------------------------------ MODULE ByteStream ------------------------------
(***************************************************************************)
(* What a connection promises its receiver: the bytes of the peer, in      *)
(* order, none twice and none left out, until the connection is closed.    *)
(* A byte is its position in the stream, so that two counters suffice.     *)
(***************************************************************************)
EXTENDS Integers

VARIABLES
  in,      (* bytes that the peer sent                                      *)
  out,     (* bytes that the receiver got                                   *)
  closed   (* whether the receiver closed the connection                    *)

Init == in = 0 /\ out = 0 /\ closed = FALSE

Send == in' = in + 1 /\ UNCHANGED <<out, closed>>

Receive ==
  /\ ~closed
  /\ \E n \in 1 .. in - out : out' = out + n
  /\ UNCHANGED <<in, closed>>

Close == closed' = TRUE /\ UNCHANGED <<in, out>>

Next == Send \/ Receive \/ Close

Spec == Init /\ [][Next]_<<in, out, closed>>
=============================================================================
