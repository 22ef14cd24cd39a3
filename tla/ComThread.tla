------------------------------ MODULE ComThread ------------------------------
(***************************************************************************)
(* One connection of com-core_thread.c.  A thread of its own (client_cb)   *)
(* reads the socket into chunks and writes one event per chunk to a pipe;  *)
(* the main loop watches the pipe (evt_pipe_cb), and service_cb of         *)
(* com-core_packet.c takes the header and the body of a packet out of the  *)
(* chunks.  Either side ends the connection.                               *)
(*                                                                         *)
(* The two threads interleave between any two operations on what they      *)
(* share: the chunk list (each critical section of chunk_lock is one step, *)
(* and the main thread looks at the head of the list without the lock),    *)
(* the two pipes and the socket.                                           *)
(*                                                                         *)
(* A byte is its position in the peer's stream; the chunk that holds the   *)
(* bytes from + 1 .. to still to be consumed is [from, to].                *)
(*                                                                         *)
(* Operators marked "Seeded fault" are wrong versions of the one that      *)
(* follows; they are no part of the model.                                 *)
(***************************************************************************)
EXTENDS Integers, Sequences

CONSTANTS
  HeaderSize,   (* packet_header_size()                                     *)
  BodySize,     (* packet_payload_size() of the peer's packets              *)
  MaxSent,      (* bound: bytes that the peer sends                         *)
  PipeSize,     (* capacity of the event pipe, 65536 on Linux               *)
  ShortReads    (* recvmsg may give less than FIONREAD promised             *)

ASSUME SizesAssumption ==
  /\ HeaderSize \in Nat \ {0} /\ BodySize \in Nat /\ MaxSent \in Nat
  /\ PipeSize \in Nat \ {0}
  /\ ShortReads \in BOOLEAN

VARIABLES
  sent,    (* bytes that the peer wrote to the socket                       *)
  peer,    (* "open", "closed", or "reset"                                  *)
  taken,   (* bytes that recvmsg took out of the socket                     *)
  sock,    (* tcb->handle: "open" or "closed"                               *)
  reader,  (* what the thread does next                                     *)
  held,    (* its chunk                                                     *)
  chunks,  (* tcb->chunk_list                                               *)
  pipe,    (* tcb->evt_pipe: "a" (EVENT_READY) and "e" (EVENT_TERM)         *)
  ctrl,    (* something is in tcb->ctrl_pipe                                *)
  main,    (* what the main thread does next                                *)
  want,    (* size - readsize of com_core_thread_recv_with_fd               *)
  pos,     (* position in the stream of the byte it copied last             *)
  offset,  (* recv_ctx->offset; recv_ctx->state follows from it             *)
  done     (* packets that packet_ready was called for                      *)

vars == <<sent, peer, taken, sock, reader, held, chunks, pipe, ctrl, main,
          want, pos, offset, done>>

PacketSize == HeaderSize + BodySize

\* What service_cb asks for: the rest of the header, then of the body
Needed(o) == IF o < HeaderSize THEN HeaderSize - o ELSE PacketSize - o

Least(a, b) == IF a <= b THEN a ELSE b

Init ==
  /\ sent = 0 /\ peer = "open" /\ taken = 0 /\ sock = "open"
  /\ reader = "select" /\ held = [from |-> 0, to |-> 0]
  /\ chunks = <<>> /\ pipe = <<>> /\ ctrl = FALSE
  /\ main = "loop" /\ want = 0 /\ pos = 0 /\ offset = 0 /\ done = 0
-----------------------------------------------------------------------------
(* The peer *)

peerUnchanged == UNCHANGED <<sent, peer>>
readerUnchanged == UNCHANGED <<taken, reader, held>>
mainUnchanged == UNCHANGED <<sock, ctrl, main, want, pos, offset, done>>

Send ==
  /\ peer = "open" /\ sent < MaxSent
  /\ sent' = sent + 1
  /\ UNCHANGED <<peer, chunks, pipe>> /\ readerUnchanged /\ mainUnchanged

(* It closes its end, or resets it by closing with data unread: anywhere   *)
(* in its stream, also within a packet.                                    *)
Shut(how) ==
  /\ peer = "open"
  /\ peer' = how
  /\ UNCHANGED <<sent, chunks, pipe>> /\ readerUnchanged /\ mainUnchanged
-----------------------------------------------------------------------------
(* The thread: client_cb *)

\* select() on the socket and on the control pipe, which comes first
Select ==
  /\ reader = "select" /\ (ctrl \/ taken < sent \/ peer # "open")
  /\ reader' = IF ctrl THEN "term" ELSE "read"
  /\ UNCHANGED <<taken, held, chunks, pipe>> /\ peerUnchanged /\ mainUnchanged

(* ioctl(FIONREAD) fails on the closed handle or promises nothing; or      *)
(* recvmsg fails.                                                          *)
ReadFails ==
  /\ reader = "read" /\ (sock = "closed" \/ taken = sent \/ peer = "reset")
  /\ reader' = "term"
  /\ UNCHANGED <<taken, held, chunks, pipe>> /\ peerUnchanged /\ mainUnchanged

(* secure_socket_recv_with_fd returns the size it was asked for, however   *)
(* few bytes recvmsg gave.                                                 *)
Read ==
  /\ reader = "read" /\ sock = "open" /\ taken < sent
  /\ \E n \in 1 .. sent - taken :
       /\ ShortReads \/ n = sent - taken
       /\ taken' = taken + n
  /\ held' = [from |-> taken, to |-> sent]
  /\ reader' = "append"
  /\ UNCHANGED <<chunks, pipe>> /\ peerUnchanged /\ mainUnchanged

\* chunk_append, under chunk_lock
AppendChunk ==
  /\ reader = "append"
  /\ chunks' = Append(chunks, held)
  /\ reader' = "signal"
  /\ UNCHANGED <<taken, held, pipe>> /\ peerUnchanged /\ mainUnchanged

\* chunk_append, after it; a full pipe blocks
SignalChunk ==
  /\ reader = "signal" /\ Len(pipe) < PipeSize
  /\ pipe' = Append(pipe, "a")
  /\ reader' = "select"
  /\ UNCHANGED <<taken, held, chunks>> /\ peerUnchanged /\ mainUnchanged

\* Seeded fault: the thread ends without a word
EndSilently ==
  /\ reader = "term"
  /\ reader' = "done"
  /\ UNCHANGED <<taken, held, chunks, pipe>> /\ peerUnchanged /\ mainUnchanged

\* "Wake up main thread to get disconnected event"
SignalEnd ==
  /\ reader = "term" /\ Len(pipe) < PipeSize
  /\ pipe' = Append(pipe, "e")
  /\ reader' = "done"
  /\ UNCHANGED <<taken, held, chunks>> /\ peerUnchanged /\ mainUnchanged
-----------------------------------------------------------------------------
(* The main thread: evt_pipe_cb, service_cb, com_core_thread_recv_with_fd *)

EvtPipe ==
  /\ main = "loop" /\ pipe # <<>>
  /\ main' = "recv" /\ want' = Needed(offset)
  /\ UNCHANGED <<sock, ctrl, pos, offset, done, chunks, pipe>>
  /\ peerUnchanged /\ readerUnchanged

\* No chunk is there yet: wait_event
RecvEmpty ==
  /\ main = "recv" /\ want > 0 /\ chunks = <<>>
  /\ main' = "wait"
  /\ UNCHANGED <<sock, ctrl, want, pos, offset, done, chunks, pipe>>
  /\ peerUnchanged /\ readerUnchanged

\* Seeded fault: does not advance chunk->offset
CopiedOver(cs, n) == cs

Copied(cs, n) == [cs EXCEPT ![1].from = @ + n]

RecvCopy ==
  /\ main = "recv" /\ want > 0 /\ chunks # <<>>
  /\ LET c == Head(chunks)
         n == Least(want, c.to - c.from)
     IN  /\ want' = want - n
         /\ pos' = c.from + n
         /\ chunks' = Copied(chunks, n)
         /\ main' = IF c.from + n = c.to THEN "consume" ELSE "recv"
  /\ UNCHANGED <<sock, ctrl, offset, done, pipe>>
  /\ peerUnchanged /\ readerUnchanged

\* Seeded fault: leaves the event in the pipe
LeaveEvent ==
  /\ main = "consume" /\ main' = "remove"
  /\ UNCHANGED <<sock, ctrl, want, pos, offset, done, chunks, pipe>>
  /\ peerUnchanged /\ readerUnchanged

(* chunk_remove reads the chunk's event from the pipe, which blocks when   *)
(* the thread has not written it yet, ...                                  *)
ConsumeEvent ==
  /\ main = "consume" /\ pipe # <<>>
  /\ pipe' = Tail(pipe)
  /\ main' = "remove"
  /\ UNCHANGED <<sock, ctrl, want, pos, offset, done, chunks>>
  /\ peerUnchanged /\ readerUnchanged

\* ... and then takes it from the list, under chunk_lock
RemoveChunk ==
  /\ main = "remove"
  /\ chunks' = Tail(chunks)
  /\ main' = "recv"
  /\ UNCHANGED <<sock, ctrl, want, pos, offset, done, pipe>>
  /\ peerUnchanged /\ readerUnchanged

(* An event without a chunk is that of the thread's end; the bytes read so *)
(* far are returned all the same.                                          *)
WaitEvent ==
  /\ main = "wait" /\ pipe # <<>>
  /\ IF chunks # <<>> THEN main' = "recv" /\ UNCHANGED pipe
     ELSE main' = "service" /\ pipe' = Tail(pipe)
  /\ UNCHANGED <<sock, ctrl, want, pos, offset, done, chunks>>
  /\ peerUnchanged /\ readerUnchanged

\* select() in wait_event expires
WaitTimeout ==
  /\ main = "wait" /\ pipe = <<>>
  /\ main' = "leave"
  /\ UNCHANGED <<sock, ctrl, want, pos, offset, done, chunks, pipe>>
  /\ peerUnchanged /\ readerUnchanged

RecvAll ==
  /\ main = "recv" /\ want = 0
  /\ main' = "service"
  /\ UNCHANGED <<sock, ctrl, want, pos, offset, done, chunks, pipe>>
  /\ peerUnchanged /\ readerUnchanged

\* Seeded fault: does not start anew after a packet (recreate_recv_ctx)
OffsetKept(o, n) == o + n

OffsetAfter(o, n) == IF o + n = PacketSize THEN 0 ELSE o + n

(* service_cb: nothing came (the end); part of a packet; or a whole packet, *)
(* whose handler is called, after which the answer cannot be sent, or the  *)
(* handler closed the connection itself (master_disconnect of              *)
(* widget_provider.c), or all is well.                                     *)
Service ==
  LET n == Needed(offset) - want
      whole == offset + n = PacketSize
  IN  /\ main = "service"
      /\ done' = IF whole THEN done + 1 ELSE done
      /\ offset' = OffsetAfter(offset, n)
      /\ \/ n = 0 /\ main' = "leave"
         \/ n > 0 /\ main' = "loop"
         \/ whole /\ main' = "leave"
      /\ UNCHANGED <<sock, ctrl, want, pos, chunks, pipe>>
      /\ peerUnchanged /\ readerUnchanged
-----------------------------------------------------------------------------
(* The end of the connection, in the main thread *)

\* com_core_thread_client_destroy, called from outside of a callback
ClientDestroy ==
  /\ main = "loop"
  /\ main' = "leave"
  /\ UNCHANGED <<sock, ctrl, want, pos, offset, done, chunks, pipe>>
  /\ peerUnchanged /\ readerUnchanged

Cancel(c) == TRUE

(* After the disconnected callbacks, terminate_thread writes to the control *)
(* pipe, ...                                                               *)
TerminateThread ==
  /\ main = "leave"
  /\ ctrl' = Cancel(ctrl)
  /\ main' = "close"
  /\ UNCHANGED <<sock, want, pos, offset, done, chunks, pipe>>
  /\ peerUnchanged /\ readerUnchanged

\* ... closes the socket, ...
CloseSocket ==
  /\ main = "close"
  /\ sock' = "closed"
  /\ main' = "join"
  /\ UNCHANGED <<ctrl, want, pos, offset, done, chunks, pipe>>
  /\ peerUnchanged /\ readerUnchanged

\* ... waits for the thread and discards the chunks; then tcb_destroy.
Join ==
  /\ main = "join" /\ reader = "done"
  /\ chunks' = <<>> /\ pipe' = <<>>
  /\ main' = "gone"
  /\ UNCHANGED <<sock, ctrl, want, pos, offset, done>>
  /\ peerUnchanged /\ readerUnchanged
-----------------------------------------------------------------------------
Reader == Select \/ ReadFails \/ Read \/ AppendChunk \/ SignalChunk \/ SignalEnd

Main ==
  \/ EvtPipe \/ RecvEmpty \/ RecvCopy \/ ConsumeEvent \/ RemoveChunk
  \/ WaitEvent \/ RecvAll \/ Service \/ TerminateThread \/ CloseSocket \/ Join

Next ==
  \/ Send
  \/ \E how \in {"closed", "reset"} : Shut(how)
  \/ Reader
  \/ Main
  \/ WaitTimeout
  \/ ClientDestroy

Spec == Init /\ [][Next]_vars

(* Both threads run on; the peer, the timeout and the application owe      *)
(* nothing.                                                                *)
FairSpec == Spec /\ WF_vars(Reader) /\ WF_vars(Main)
=============================================================================
