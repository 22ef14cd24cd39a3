---------------------------- MODULE ComThreadProps ----------------------------
(* What a connection of com-core_thread.c promises (module ComThread).     *)
EXTENDS ComThread

Chunk == [from : Nat, to : Nat]

ReaderSteps == {"select", "read", "append", "signal", "term", "done"}
Leaving == {"leave", "close", "join", "gone"}
MainSteps == {"loop", "recv", "wait", "consume", "remove", "service"} \cup Leaving

(* Type invariant: the counters stay within what the peer sent and within  *)
(* one packet, and the pipe within its capacity.                           *)
TypeOK ==
  /\ sent \in 0 .. MaxSent /\ taken \in 0 .. sent /\ pos \in Nat
  /\ peer \in {"open", "closed", "reset"} /\ sock \in {"open", "closed"}
  /\ reader \in ReaderSteps /\ held \in Chunk
  /\ chunks \in Seq(Chunk)
  /\ pipe \in Seq({"a", "e"}) /\ Len(pipe) <= PipeSize
  /\ ctrl \in BOOLEAN /\ main \in MainSteps
  /\ want \in 0 .. PacketSize /\ offset \in 0 .. PacketSize - 1 /\ done \in Nat

One(b) == IF b THEN 1 ELSE 0

\* The thread's last word is in the pipe
Ended == pipe # <<>> /\ pipe[Len(pipe)] = "e"

(* "Count of chunk elements are same with PIPE'd data" (client_cb): but    *)
(* for a chunk whose event is just being written or was just read, and the *)
(* thread's last word comes after all of them.  So chunk_remove never      *)
(* takes it for a chunk's event, and a chunk never waits in the list with  *)
(* nothing in the pipe to wake the main loop.                              *)
EventPerChunk ==
  /\ main # "gone" =>
       Len(chunks) = Len(pipe) - One(Ended) + One(reader = "signal") + One(main = "remove")
  /\ \A k \in DOMAIN pipe : pipe[k] = "e" => k = Len(pipe) /\ reader = "done"

(* com_core_thread_recv_with_fd goes on where it stopped: however the bytes *)
(* were cut into chunks, the oldest chunk begins with the byte that follows *)
(* the last one copied.                                                    *)
StreamIntact == chunks # <<>> => Head(chunks).from = pos

(* service_cb keeps the packets apart: between two events the next byte    *)
(* belongs to packet done + 1, at the offset it remembers.                 *)
InSync == main = "loop" => pos = done * PacketSize + offset

(* The connection is a reliable stream, in order, of what the peer sent.   *)
Stream == INSTANCE ByteStream WITH in <- sent, out <- pos, closed <- main \in Leaving
StreamRefined == Stream!Spec
-----------------------------------------------------------------------------
(* Liveness, under FairSpec                                                *)

(* A peer that ends between two packets is noticed: evt_pipe_cb            *)
(* disconnects once all of its packets were handled.                       *)
EndNoticed ==
  peer = "closed" /\ sent % PacketSize = 0 ~> main = "gone"

(* "Wake up main thread to get disconnected event" (client_cb): the same,  *)
(* wherever the peer ends.                                                 *)
LossNoticed == peer # "open" ~> main = "gone"

(* A packet that was sent is handled, unless the connection ends first.    *)
Delivered ==
  \A n \in 1 .. MaxSent :
    sent >= n * PacketSize ~> (done >= n \/ main = "gone" \/ peer = "reset")

(* terminate_thread does not wait for ever in pthread_join.                *)
TeardownEnds == main = "leave" ~> main = "gone"

(* com-core_thread.c as a whole: the end of the peer is noticed, every     *)
(* packet before it is handled, and the teardown does not hang, whichever  *)
(* of the thread and the main loop is ahead.                               *)
EndsWell == EndNoticed /\ Delivered /\ TeardownEnds
=============================================================================
