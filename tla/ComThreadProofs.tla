--------------------------- MODULE ComThreadProofs ---------------------------
(***************************************************************************)
(* The events and chunks of a com-core_thread.c connection stay in         *)
(* lockstep for every packet size and pipe capacity; and, when recvmsg     *)
(* gives what FIONREAD promised, the main thread gets the peer's stream.   *)
(***************************************************************************)
EXTENDS ComThreadProps, TLAPS

Busy == {"recv", "wait", "consume", "remove", "service"}

(* Where the two threads stand: what is left to read, which chunks are     *)
(* used up, and that the thread has ended before its block is freed.       *)
Control ==
  /\ main \in Busy => want <= Needed(offset)
  /\ main \in {"consume", "remove"} => chunks # <<>> /\ chunks[1].from = chunks[1].to
  /\ \A k \in DOMAIN chunks :
       \/ chunks[k].from < chunks[k].to
       \/ k = 1 /\ main \in {"consume", "remove"}
  /\ reader = "append" => held.from < held.to
  /\ main = "gone" => reader = "done"

Inv == TypeOK /\ Control /\ EventPerChunk

\* The byte up to which the list and the main thread have the stream
ReadTo == IF chunks = <<>> THEN pos ELSE chunks[Len(chunks)].to

(* The bytes taken from the socket are those copied, those in the list and *)
(* those in the thread's hands, in this order and without a gap.           *)
Flow ==
  /\ chunks # <<>> => chunks[1].from = pos
  /\ \A k \in DOMAIN chunks :
       /\ chunks[k].to <= taken
       /\ k # Len(chunks) => chunks[k].to = chunks[k + 1].from
  /\ pos <= taken
  /\ main # "gone" =>
       IF reader = "append" THEN held.from = ReadTo /\ held.to = taken
       ELSE ReadTo = taken

\* InSync, also while a recv is under way
Counted ==
  main \in Busy => pos = done * PacketSize + offset + (Needed(offset) - want)
-----------------------------------------------------------------------------
LEMMA CopiedFacts ==
  ASSUME NEW q \in Seq(Chunk), q # <<>>, NEW n \in Nat
  PROVE  /\ Copied(q, n) \in Seq(Chunk) /\ Len(Copied(q, n)) = Len(q)
         /\ DOMAIN Copied(q, n) = DOMAIN q /\ 1 \in DOMAIN q
         /\ Copied(q, n)[1] = [from |-> q[1].from + n, to |-> q[1].to]
         /\ \A k \in DOMAIN q : k # 1 => Copied(q, n)[k] = q[k]
<1> DEFINE c == [q[1] EXCEPT !.from = @ + n]
<1>1. /\ 1 \in DOMAIN q /\ q[1] \in Chunk
      /\ DOMAIN q = 1 .. Len(q) /\ Len(q) \in Nat
  OBVIOUS
<1>2. c = [from |-> q[1].from + n, to |-> q[1].to] /\ c \in Chunk
  BY <1>1 DEF Chunk
<1> HIDE DEF c
<1>3. Copied(q, n) = [q EXCEPT ![1] = c]
  BY Zenon DEF Copied, c
<1>4. [q EXCEPT ![1] = c] \in Seq(Chunk)
  BY <1>1, <1>2
<1> QED
  BY <1>1, <1>2, <1>3, <1>4

LEMMA SeqFacts ==
  ASSUME NEW S, NEW q \in Seq(S)
  PROVE  /\ q = <<>> <=> Len(q) = 0
         /\ Len(q) \in Nat /\ DOMAIN q = 1 .. Len(q)
         /\ q # <<>> => 1 \in DOMAIN q /\ Len(q) \in DOMAIN q
         /\ \A k \in DOMAIN q : q[k] \in S
OBVIOUS

LEMMA AppendFacts ==
  ASSUME NEW S, NEW q \in Seq(S), NEW x \in S
  PROVE  /\ Append(q, x) \in Seq(S) /\ Len(Append(q, x)) = Len(q) + 1
         /\ DOMAIN Append(q, x) = 1 .. Len(q) + 1 /\ Append(q, x) # <<>>
         /\ \A k \in 1 .. Len(q) : Append(q, x)[k] = q[k]
         /\ Append(q, x)[Len(q) + 1] = x
OBVIOUS

LEMMA TailFacts ==
  ASSUME NEW S, NEW q \in Seq(S), q # <<>>
  PROVE  /\ Tail(q) \in Seq(S) /\ Len(Tail(q)) = Len(q) - 1
         /\ DOMAIN Tail(q) = 1 .. Len(q) - 1
         /\ \A k \in 1 .. Len(q) - 1 : Tail(q)[k] = q[k + 1]
OBVIOUS

LEMMA LeastFacts ==
  ASSUME NEW a \in Nat \ {0}, NEW b \in Nat \ {0}
  PROVE  Least(a, b) \in Nat /\ Least(a, b) <= a /\ Least(a, b) <= b /\ Least(a, b) > 0
BY DEF Least

LEMMA Sizes ==
  /\ PacketSize \in Nat \ {0} /\ HeaderSize \in Nat \ {0} /\ MaxSent \in Nat
  /\ PipeSize \in Nat \ {0}
  /\ \A o \in 0 .. PacketSize - 1 :
       Needed(o) \in 1 .. PacketSize /\ o + Needed(o) <= PacketSize
BY SizesAssumption DEF PacketSize, Needed
-----------------------------------------------------------------------------
LEMMA InitInv == Init => Inv
<1> SUFFICES ASSUME Init PROVE Inv
  OBVIOUS
<1>1. TypeOK
  <2>1. /\ sent \in 0 .. MaxSent /\ taken \in 0 .. sent /\ pos \in Nat /\ done \in Nat
        /\ want \in 0 .. PacketSize /\ offset \in 0 .. PacketSize - 1
    BY Sizes DEF Init
  <2>2. /\ held \in Chunk /\ chunks \in Seq(Chunk)
        /\ pipe \in Seq({"a", "e"}) /\ Len(pipe) <= PipeSize
    BY Sizes DEF Init, Chunk
  <2> QED
    BY <2>1, <2>2 DEF Init, TypeOK, ReaderSteps, MainSteps
<1> QED
  BY <1>1 DEF Init, Inv, Control, EventPerChunk, Busy, Ended, One

(* What RecvCopy does to the oldest chunk: n bytes fewer, the rest as it was *)
LEMMA CopyStep ==
  ASSUME Inv, RecvCopy
  PROVE  \E n \in Nat \ {0} :
     /\ main = "recv" /\ chunks # <<>> /\ 1 \in DOMAIN chunks
     /\ want \in Nat /\ want \in 0 .. PacketSize /\ n > 0 /\ n <= want
     /\ chunks[1].from \in Nat /\ chunks[1].to \in Nat
     /\ chunks[1].from + n <= chunks[1].to
     /\ want' = want - n /\ pos' = chunks[1].from + n
     /\ main' = IF pos' = chunks[1].to THEN "consume" ELSE "recv"
     /\ chunks' \in Seq(Chunk) /\ chunks' # <<>>
     /\ Len(chunks') = Len(chunks) /\ DOMAIN chunks' = DOMAIN chunks
     /\ chunks'[1].from = pos' /\ chunks'[1].to = chunks[1].to
     /\ \A k \in DOMAIN chunks : k # 1 => chunks'[k] = chunks[k]
     /\ UNCHANGED <<sock, ctrl, offset, done, pipe, sent, peer, taken, reader, held>>
<1> USE Sizes
<1> DEFINE c == chunks[1]
<1> DEFINE n == Least(want, c.to - c.from)
<1> DEFINE q == Copied(chunks, n)
<1>0. /\ main = "recv" /\ want > 0 /\ chunks # <<>>
      /\ want' = want - n /\ pos' = c.from + n /\ chunks' = q
      /\ main' = IF c.from + n = c.to THEN "consume" ELSE "recv"
      /\ UNCHANGED <<sock, ctrl, offset, done, pipe, sent, peer, taken, reader, held>>
  BY DEF RecvCopy, peerUnchanged, readerUnchanged, Inv, TypeOK
<1>1. c \in Chunk /\ c.from \in Nat /\ c.to \in Nat /\ want \in 0 .. PacketSize
  <2>1. 1 \in DOMAIN chunks
    BY <1>0, SeqFacts DEF Inv, TypeOK
  <2>2. c \in Chunk /\ want \in 0 .. PacketSize
    BY <2>1 DEF Inv, TypeOK
  <2> QED
    BY <2>2 DEF Chunk
<1>2. c.from < c.to
  <2>1. 1 \in DOMAIN chunks
    BY <1>0, SeqFacts DEF Inv, TypeOK
  <2> QED
    BY <1>0, <2>1 DEF Inv, Control
<1> HIDE DEF c
<1>3. n \in Nat /\ n <= want /\ n > 0 /\ c.from + n <= c.to
  <2>1. /\ want \in Nat \ {0} /\ c.to - c.from \in Nat \ {0}
        /\ c.to = c.from + (c.to - c.from)
    <3>1. want \in Nat \ {0}
      BY <1>0, <1>1
    <3> QED
      BY <1>1, <1>2, <3>1
  <2>2. n \in Nat /\ n <= want /\ n > 0 /\ n <= c.to - c.from
    BY <2>1, LeastFacts
  <2> QED
    BY <1>1, <2>1, <2>2
<1> HIDE DEF n
<1>4. /\ q \in Seq(Chunk) /\ Len(q) = Len(chunks) /\ DOMAIN q = DOMAIN chunks
      /\ 1 \in DOMAIN chunks /\ q # <<>>
      /\ q[1] = [from |-> c.from + n, to |-> c.to]
      /\ \A k \in DOMAIN chunks : k # 1 => q[k] = chunks[k]
  <2>1. chunks \in Seq(Chunk) /\ n \in Nat
    BY <1>3 DEF Inv, TypeOK
  <2> QED
    BY <1>0, <2>1, CopiedFacts DEF c
<1>5. q[1].from = c.from + n /\ q[1].to = c.to
  BY <1>4
<1> HIDE DEF q
<1> QED
  BY <1>0, <1>1, <1>3, <1>4, <1>5 DEF c

LEMMA NextInv == Inv /\ [Next]_vars => Inv'
<1> SUFFICES ASSUME Inv, [Next]_vars PROVE Inv'
  OBVIOUS
<1> USE Sizes
<1>1. CASE Send
  <2>1. TypeOK'
    BY <1>1 DEF Inv, TypeOK, Send, readerUnchanged, mainUnchanged
  <2>2. Control'
    BY <1>1 DEF Inv, Control, Send, readerUnchanged, mainUnchanged
  <2>3. EventPerChunk'
    BY <1>1 DEF Inv, EventPerChunk, Ended, One, Send, readerUnchanged, mainUnchanged
  <2> QED
    BY <2>1, <2>2, <2>3 DEF Inv
<1>2. CASE \E how \in {"closed", "reset"} : Shut(how)
  <2>1. TypeOK'
    BY <1>2 DEF Inv, TypeOK, Shut, readerUnchanged, mainUnchanged
  <2>2. Control'
    BY <1>2 DEF Inv, Control, Shut, readerUnchanged, mainUnchanged
  <2>3. EventPerChunk'
    BY <1>2 DEF Inv, EventPerChunk, Ended, One, Shut, readerUnchanged, mainUnchanged
  <2> QED
    BY <2>1, <2>2, <2>3 DEF Inv
<1>3. CASE Select
  <2>1. TypeOK'
    BY <1>3 DEF Inv, TypeOK, Select, peerUnchanged, mainUnchanged, ReaderSteps
  <2>2. Control'
    BY <1>3 DEF Inv, Control, Select, peerUnchanged, mainUnchanged
  <2>3. EventPerChunk'
    BY <1>3 DEF Inv, EventPerChunk, Ended, One, Select, peerUnchanged, mainUnchanged
  <2> QED
    BY <2>1, <2>2, <2>3 DEF Inv
<1>4. CASE ReadFails
  <2>1. TypeOK'
    BY <1>4 DEF Inv, TypeOK, ReadFails, peerUnchanged, mainUnchanged, ReaderSteps
  <2>2. Control'
    BY <1>4 DEF Inv, Control, ReadFails, peerUnchanged, mainUnchanged
  <2>3. EventPerChunk'
    BY <1>4 DEF Inv, EventPerChunk, Ended, One, ReadFails, peerUnchanged, mainUnchanged
  <2> QED
    BY <2>1, <2>2, <2>3 DEF Inv
<1>5. CASE Read
  <2>1. TypeOK'
    BY <1>5 DEF Inv, TypeOK, Read, peerUnchanged, mainUnchanged, ReaderSteps, Chunk
  <2>2. Control'
    BY <1>5 DEF Inv, Control, Read, peerUnchanged, mainUnchanged, TypeOK
  <2>3. EventPerChunk'
    BY <1>5 DEF Inv, EventPerChunk, Ended, One, Read, peerUnchanged, mainUnchanged
  <2> QED
    BY <2>1, <2>2, <2>3 DEF Inv
<1>6. CASE AppendChunk
  <2> DEFINE q == Append(chunks, held)
  <2>0. /\ chunks' = q /\ reader = "append" /\ reader' = "signal"
        /\ UNCHANGED <<taken, held, pipe, sent, peer, sock, ctrl, main, want, pos, offset, done>>
    BY <1>6 DEF AppendChunk, peerUnchanged, mainUnchanged
  <2>q. /\ q \in Seq(Chunk) /\ Len(q) = Len(chunks) + 1 /\ q # <<>>
        /\ DOMAIN q = 1 .. Len(chunks) + 1 /\ DOMAIN chunks = 1 .. Len(chunks)
        /\ \A k \in 1 .. Len(chunks) : q[k] = chunks[k]
        /\ q[Len(chunks) + 1] = held /\ Len(chunks) \in Nat
    BY AppendFacts DEF Inv, TypeOK
  <2> HIDE DEF q
  <2>1. TypeOK'
    BY <2>0, <2>q DEF Inv, TypeOK, ReaderSteps
  <2>2. Control'
    <3>1. main \in {"consume", "remove"} => q # <<>> /\ q[1].from = q[1].to
      BY <2>q DEF Inv, Control
    <3>2. ASSUME NEW k \in DOMAIN q
          PROVE  q[k].from < q[k].to \/ (k = 1 /\ main \in {"consume", "remove"})
      <4>1. CASE k = Len(chunks) + 1
        BY <2>0, <2>q, <4>1 DEF Inv, Control
      <4>2. CASE k # Len(chunks) + 1
        <5>1. k \in DOMAIN chunks /\ q[k] = chunks[k]
          BY <2>q, <4>2
        <5> QED
          BY <5>1 DEF Inv, Control
      <4> QED
        BY <4>1, <4>2
    <3> QED
      BY <2>0, <3>1, <3>2 DEF Inv, Control
  <2>3. EventPerChunk'
    BY <2>0, <2>q DEF Inv, TypeOK, Control, EventPerChunk, Ended, One
  <2> QED
    BY <2>1, <2>2, <2>3 DEF Inv
<1>7. CASE SignalChunk
  <2>1. TypeOK'
    BY <1>7 DEF Inv, TypeOK, SignalChunk, peerUnchanged, mainUnchanged, ReaderSteps
  <2>2. Control'
    BY <1>7 DEF Inv, Control, SignalChunk, peerUnchanged, mainUnchanged
  <2>3. EventPerChunk'
    BY <1>7 DEF Inv, EventPerChunk, Ended, One, SignalChunk, peerUnchanged, mainUnchanged, TypeOK
  <2> QED
    BY <2>1, <2>2, <2>3 DEF Inv
<1>8. CASE SignalEnd
  <2>1. TypeOK'
    BY <1>8 DEF Inv, TypeOK, SignalEnd, peerUnchanged, mainUnchanged, ReaderSteps
  <2>2. Control'
    BY <1>8 DEF Inv, TypeOK, Control, SignalEnd, peerUnchanged, mainUnchanged
  <2>3. EventPerChunk'
    <3> DEFINE q == Append(pipe, "e")
    <3>1. /\ pipe' = q /\ reader = "term" /\ reader' = "done" /\ UNCHANGED <<chunks, main>>
      BY <1>8 DEF SignalEnd, mainUnchanged
    <3>2. /\ Len(q) = Len(pipe) + 1 /\ DOMAIN q = 1 .. Len(pipe) + 1 /\ q # <<>>
          /\ \A k \in 1 .. Len(pipe) : q[k] = pipe[k]
          /\ q[Len(pipe) + 1] = "e" /\ Len(pipe) \in Nat /\ Len(chunks) \in Nat
          /\ DOMAIN pipe = 1 .. Len(pipe)
      BY AppendFacts DEF Inv, TypeOK
    <3> HIDE DEF q
    <3>3. \A k \in DOMAIN pipe : pipe[k] # "e"
      BY <3>1 DEF Inv, EventPerChunk
    <3>4. ~Ended
      <4>1. pipe # <<>> => Len(pipe) \in DOMAIN pipe
        BY SeqFacts DEF Inv, TypeOK
      <4> QED
        BY <3>3, <4>1 DEF Ended
    <3>5. Ended'
      BY <3>1, <3>2 DEF Ended
    <3>6. \A k \in DOMAIN q : q[k] = "e" => k = Len(q)
      BY <3>2, <3>3
    <3> QED
      BY <3>1, <3>2, <3>4, <3>5, <3>6 DEF Inv, EventPerChunk, One
  <2> QED
    BY <2>1, <2>2, <2>3 DEF Inv
<1>9. CASE EvtPipe
  <2>1. TypeOK'
    BY <1>9 DEF Inv, TypeOK, EvtPipe, peerUnchanged, readerUnchanged, MainSteps
  <2>2. Control'
    BY <1>9 DEF Inv, Control, EvtPipe, peerUnchanged, readerUnchanged, Busy, TypeOK
  <2>3. EventPerChunk'
    BY <1>9 DEF Inv, EventPerChunk, Ended, One, EvtPipe, peerUnchanged, readerUnchanged
  <2> QED
    BY <2>1, <2>2, <2>3 DEF Inv
<1>10. CASE RecvEmpty
  <2>1. TypeOK'
    BY <1>10 DEF Inv, TypeOK, RecvEmpty, peerUnchanged, readerUnchanged, MainSteps
  <2>2. Control'
    BY <1>10 DEF Inv, Control, RecvEmpty, peerUnchanged, readerUnchanged, Busy
  <2>3. EventPerChunk'
    BY <1>10 DEF Inv, EventPerChunk, Ended, One, RecvEmpty, peerUnchanged, readerUnchanged
  <2> QED
    BY <2>1, <2>2, <2>3 DEF Inv
<1>11. CASE RecvCopy
  <2>0. PICK n \in Nat \ {0} :
        /\ main = "recv" /\ chunks # <<>> /\ 1 \in DOMAIN chunks
        /\ want \in Nat /\ want \in 0 .. PacketSize /\ n > 0 /\ n <= want
        /\ chunks[1].from \in Nat /\ chunks[1].to \in Nat
        /\ chunks[1].from + n <= chunks[1].to
        /\ want' = want - n /\ pos' = chunks[1].from + n
        /\ main' = IF pos' = chunks[1].to THEN "consume" ELSE "recv"
        /\ chunks' \in Seq(Chunk) /\ chunks' # <<>>
        /\ Len(chunks') = Len(chunks) /\ DOMAIN chunks' = DOMAIN chunks
        /\ chunks'[1].from = pos' /\ chunks'[1].to = chunks[1].to
        /\ \A k \in DOMAIN chunks : k # 1 => chunks'[k] = chunks[k]
        /\ UNCHANGED <<sock, ctrl, offset, done, pipe, sent, peer, taken, reader, held>>
    BY <1>11, CopyStep
  <2>1. TypeOK'
    <3>1. want' \in 0 .. PacketSize /\ pos' \in Nat
      BY <2>0
    <3>2. main' \in MainSteps
      BY <2>0 DEF MainSteps
    <3> QED
      BY <2>0, <3>1, <3>2 DEF Inv, TypeOK
  <2>2. Control'
    <3>1. want' <= Needed(offset)
      <4>1. want <= Needed(offset) /\ Needed(offset) \in Nat
        BY <2>0 DEF Inv, TypeOK, Control, Busy
      <4> QED
        BY <2>0, <4>1
    <3>2. ASSUME NEW k \in DOMAIN chunks'
          PROVE  chunks'[k].from < chunks'[k].to \/ (k = 1 /\ main' \in {"consume", "remove"})
      <4>1. CASE k = 1
        BY <2>0, <4>1
      <4>2. CASE k # 1
        BY <2>0, <4>2 DEF Inv, Control
      <4> QED
        BY <4>1, <4>2
    <3> QED
      BY <2>0, <3>1, <3>2 DEF Inv, Control
  <2>3. EventPerChunk'
    BY <2>0 DEF Inv, EventPerChunk, Ended, One
  <2> QED
    BY <2>1, <2>2, <2>3 DEF Inv
<1>12. CASE ConsumeEvent
  <2> DEFINE q == Tail(pipe)
  <2>0. /\ main = "consume" /\ main' = "remove" /\ pipe # <<>> /\ pipe' = q
        /\ UNCHANGED <<sock, ctrl, want, pos, offset, done, chunks, sent, peer, taken, reader, held>>
    BY <1>12 DEF ConsumeEvent, peerUnchanged, readerUnchanged
  <2>q. /\ q \in Seq({"a", "e"}) /\ Len(q) = Len(pipe) - 1 /\ DOMAIN q = 1 .. Len(pipe) - 1
        /\ \A k \in 1 .. Len(pipe) - 1 : q[k] = pipe[k + 1]
        /\ DOMAIN pipe = 1 .. Len(pipe) /\ Len(pipe) \in Nat \ {0} /\ Len(chunks) \in Nat
    BY <2>0, TailFacts DEF Inv, TypeOK
  <2> HIDE DEF q
  <2>e. q = <<>> <=> Len(pipe) = 1
    <3>1. q = <<>> <=> Len(q) = 0
      BY <2>q, SeqFacts
    <3> QED
      BY <2>q, <3>1
  <2>1. TypeOK'
    BY <2>0, <2>q DEF Inv, TypeOK, MainSteps
  <2>2. Control'
    BY <2>0 DEF Inv, Control, Busy
  <2>3. EventPerChunk'
    <3>1. Len(chunks) >= 1
      BY <2>0, <2>q DEF Inv, Control, TypeOK
    <3>2. Len(chunks) = Len(pipe) - One(Ended) + One(reader = "signal")
      BY <2>0, <2>q DEF Inv, EventPerChunk, One
    <3>3. Ended => Len(pipe) > 1
      <4>1. SUFFICES ASSUME Ended, Len(pipe) = 1 PROVE FALSE
        BY <2>q
      <4>2. reader = "done"
        BY <2>q, <4>1 DEF Ended, Inv, EventPerChunk
      <4> QED
        BY <3>1, <3>2, <4>1, <4>2 DEF One
    <3>4. Ended' <=> Ended
      <4>1. CASE Len(pipe) = 1
        <5>1. ~Ended
          BY <3>3, <4>1
        <5>2. ~Ended'
          BY <2>0, <2>e, <4>1 DEF Ended
        <5> QED
          BY <5>1, <5>2
      <4>2. CASE Len(pipe) # 1
        <5>1. q[Len(q)] = pipe[Len(pipe)]
          BY <2>q, <4>2
        <5> QED
          BY <2>0, <2>e, <2>q, <4>2, <5>1, SeqFacts DEF Ended
      <4> QED
        BY <4>1, <4>2
    <3>5. ASSUME NEW k \in DOMAIN q, q[k] = "e" PROVE k = Len(q) /\ reader = "done"
      <4>1. k \in Nat /\ k + 1 \in DOMAIN pipe /\ pipe[k + 1] = "e"
        BY <2>q, <3>5
      <4>2. k + 1 = Len(pipe) /\ reader = "done"
        BY <4>1 DEF Inv, EventPerChunk
      <4> QED
        BY <2>q, <4>1, <4>2
    <3>6. One(Ended') = One(Ended)
      BY <3>4 DEF One
    <3>7. One(Ended) \in {0, 1} /\ One(reader = "signal") \in {0, 1}
      BY DEF One
    <3>8. Len(chunks) = (Len(q) - One(Ended)) + (One(reader = "signal") + 1)
      BY <2>q, <3>2, <3>7
    <3>9. One(main' = "remove") = 1 /\ One(reader' = "signal") = One(reader = "signal")
      BY <2>0 DEF One
    <3>10. Len(chunks') = ((Len(pipe') - One(Ended')) + One(reader' = "signal")) + One(main' = "remove")
      BY <2>0, <2>q, <3>6, <3>7, <3>8, <3>9
    <3> QED
      BY <2>0, <3>5, <3>10 DEF EventPerChunk
  <2> QED
    BY <2>1, <2>2, <2>3 DEF Inv
<1>13. CASE RemoveChunk
  <2> DEFINE q == Tail(chunks)
  <2>0. /\ main = "remove" /\ main' = "recv" /\ chunks # <<>> /\ chunks' = q
        /\ UNCHANGED <<sock, ctrl, want, pos, offset, done, pipe, sent, peer, taken, reader, held>>
    BY <1>13 DEF RemoveChunk, peerUnchanged, readerUnchanged, Inv, Control
  <2>q. /\ q \in Seq(Chunk) /\ Len(q) = Len(chunks) - 1 /\ DOMAIN q = 1 .. Len(chunks) - 1
        /\ \A k \in 1 .. Len(chunks) - 1 : q[k] = chunks[k + 1]
        /\ DOMAIN chunks = 1 .. Len(chunks) /\ Len(chunks) \in Nat
    BY <2>0, TailFacts DEF Inv, TypeOK
  <2> HIDE DEF q
  <2>1. TypeOK'
    BY <2>0, <2>q DEF Inv, TypeOK, MainSteps
  <2>2. Control'
    <3>1. ASSUME NEW k \in DOMAIN q PROVE q[k].from < q[k].to
      <4>1. k + 1 \in DOMAIN chunks /\ k + 1 # 1 /\ q[k] = chunks[k + 1]
        BY <2>q, <3>1
      <4> QED
        BY <4>1 DEF Inv, Control
    <3> QED
      BY <2>0, <3>1 DEF Inv, Control, Busy
  <2>3. EventPerChunk'
    BY <2>0, <2>q DEF Inv, TypeOK, EventPerChunk, Ended, One
  <2> QED
    BY <2>1, <2>2, <2>3 DEF Inv
<1>14. CASE WaitEvent
  <2> DEFINE q == Tail(pipe)
  <2>0. /\ main = "wait" /\ pipe # <<>>
        /\ \/ main' = "recv" /\ pipe' = pipe
           \/ main' = "service" /\ pipe' = q /\ chunks = <<>>
        /\ UNCHANGED <<sock, ctrl, want, pos, offset, done, chunks, sent, peer, taken, reader, held>>
    BY <1>14 DEF WaitEvent, peerUnchanged, readerUnchanged
  <2>q. /\ q \in Seq({"a", "e"}) /\ Len(q) = Len(pipe) - 1 /\ Len(pipe) \in Nat \ {0}
    BY <2>0, TailFacts DEF Inv, TypeOK
  <2> HIDE DEF q
  <2>1. TypeOK'
    <3>1. pipe' \in Seq({"a", "e"}) /\ Len(pipe') <= PipeSize
      <4>1. pipe \in Seq({"a", "e"}) /\ Len(pipe) <= PipeSize
        BY DEF Inv, TypeOK
      <4> QED
        BY <2>0, <2>q, <4>1
    <3>2. main' \in MainSteps
      BY <2>0 DEF MainSteps
    <3> QED
      BY <2>0, <3>1, <3>2 DEF Inv, TypeOK
  <2>2. Control'
    BY <2>0 DEF Inv, Control, Busy
  <2>3. EventPerChunk'
    <3>1. CASE pipe' = pipe /\ main' = "recv"
      BY <2>0, <3>1 DEF Inv, EventPerChunk, Ended, One
    <3>2. CASE main' = "service" /\ pipe' = q /\ chunks = <<>>
      <4>1. Len(chunks) = 0
        BY <3>2
      <4>2. 0 = Len(pipe) - One(Ended) + One(reader = "signal")
        BY <2>0, <4>1 DEF Inv, EventPerChunk, One
      <4>3. Len(pipe) = 1 /\ reader # "signal"
        BY <2>q, <4>2 DEF One
      <4>4. q = <<>>
        BY <2>q, <4>3, SeqFacts
      <4>5. ~Ended'
        BY <3>2, <4>4 DEF Ended
      <4> QED
        BY <2>0, <3>2, <4>1, <4>3, <4>4, <4>5 DEF EventPerChunk, One
    <3> QED
      BY <2>0, <3>1, <3>2
  <2> QED
    BY <2>1, <2>2, <2>3 DEF Inv
<1>15. CASE RecvAll
  <2>1. TypeOK'
    BY <1>15 DEF Inv, TypeOK, RecvAll, peerUnchanged, readerUnchanged, MainSteps
  <2>2. Control'
    BY <1>15 DEF Inv, Control, RecvAll, peerUnchanged, readerUnchanged, Busy
  <2>3. EventPerChunk'
    BY <1>15 DEF Inv, EventPerChunk, Ended, One, RecvAll, peerUnchanged, readerUnchanged
  <2> QED
    BY <2>1, <2>2, <2>3 DEF Inv
<1>16. CASE Service
  <2> DEFINE n == Needed(offset) - want
  <2>0. /\ main = "service" /\ main' \in {"loop", "leave"}
        /\ done' \in {done, done + 1} /\ offset' = OffsetAfter(offset, n)
        /\ UNCHANGED <<sock, ctrl, want, pos, chunks, pipe, sent, peer, taken, reader, held>>
    BY <1>16 DEF Service, peerUnchanged, readerUnchanged
  <2>n. n \in Nat /\ offset \in Nat /\ offset + n <= PacketSize
    BY <2>0 DEF Inv, TypeOK, Control, Busy
  <2> HIDE DEF n
  <2>1. TypeOK'
    <3>1. offset' \in 0 .. PacketSize - 1
      BY <2>0, <2>n DEF OffsetAfter
    <3>2. done' \in Nat
      BY <2>0 DEF Inv, TypeOK
    <3> QED
      BY <2>0, <3>1, <3>2 DEF Inv, TypeOK, MainSteps, Leaving
  <2>2. Control'
    BY <2>0 DEF Inv, Control, Busy
  <2>3. EventPerChunk'
    BY <2>0 DEF Inv, EventPerChunk, Ended, One
  <2> QED
    BY <2>1, <2>2, <2>3 DEF Inv
<1>17. CASE TerminateThread
  <2>0. /\ main = "leave" /\ main' = "close" /\ ctrl' = TRUE
        /\ UNCHANGED <<sock, want, pos, offset, done, chunks, pipe, sent, peer, taken, reader, held>>
    BY <1>17 DEF TerminateThread, Cancel, peerUnchanged, readerUnchanged
  <2>1. TypeOK'
    BY <2>0 DEF Inv, TypeOK, MainSteps, Leaving
  <2>2. Control'
    BY <2>0 DEF Inv, Control, Busy
  <2>3. EventPerChunk'
    BY <2>0 DEF Inv, EventPerChunk, Ended, One
  <2> QED
    BY <2>1, <2>2, <2>3 DEF Inv
<1>18. CASE CloseSocket
  <2>1. TypeOK'
    BY <1>18 DEF Inv, TypeOK, CloseSocket, peerUnchanged, readerUnchanged, MainSteps, Leaving
  <2>2. Control'
    BY <1>18 DEF Inv, Control, CloseSocket, peerUnchanged, readerUnchanged, Busy
  <2>3. EventPerChunk'
    BY <1>18 DEF Inv, EventPerChunk, Ended, One, CloseSocket, peerUnchanged, readerUnchanged
  <2> QED
    BY <2>1, <2>2, <2>3 DEF Inv
<1>19. CASE Join
  <2>1. TypeOK'
    BY <1>19 DEF Inv, TypeOK, Join, peerUnchanged, readerUnchanged, MainSteps, Leaving
  <2>2. Control'
    BY <1>19 DEF Inv, Control, Join, peerUnchanged, readerUnchanged, Busy
  <2>3. EventPerChunk'
    BY <1>19 DEF Inv, EventPerChunk, Ended, One, Join, peerUnchanged, readerUnchanged
  <2> QED
    BY <2>1, <2>2, <2>3 DEF Inv
<1>20. CASE WaitTimeout
  <2>1. TypeOK'
    BY <1>20 DEF Inv, TypeOK, WaitTimeout, peerUnchanged, readerUnchanged, MainSteps, Leaving
  <2>2. Control'
    BY <1>20 DEF Inv, Control, WaitTimeout, peerUnchanged, readerUnchanged, Busy
  <2>3. EventPerChunk'
    BY <1>20 DEF Inv, EventPerChunk, Ended, One, WaitTimeout, peerUnchanged, readerUnchanged
  <2> QED
    BY <2>1, <2>2, <2>3 DEF Inv
<1>21. CASE ClientDestroy
  <2>1. TypeOK'
    BY <1>21 DEF Inv, TypeOK, ClientDestroy, peerUnchanged, readerUnchanged, MainSteps, Leaving
  <2>2. Control'
    BY <1>21 DEF Inv, Control, ClientDestroy, peerUnchanged, readerUnchanged, Busy
  <2>3. EventPerChunk'
    BY <1>21 DEF Inv, EventPerChunk, Ended, One, ClientDestroy, peerUnchanged, readerUnchanged
  <2> QED
    BY <2>1, <2>2, <2>3 DEF Inv
<1>22. CASE UNCHANGED vars
  BY <1>22 DEF vars, Inv, TypeOK, Control, EventPerChunk, Ended
<1> QED
  BY <1>1, <1>2, <1>3, <1>4, <1>5, <1>6, <1>7, <1>8, <1>9, <1>10, <1>11, <1>12,
     <1>13, <1>14, <1>15, <1>16, <1>17, <1>18, <1>19, <1>20, <1>21, <1>22 DEF Next, Reader, Main

(* The connection never takes the thread's last word for a chunk's event,  *)
(* and never leaves a chunk behind without an event (chunk_append,         *)
(* chunk_remove): for every packet size and capacity of the pipe.          *)
THEOREM EventsMatchChunks == Spec => []EventPerChunk
<1>1. Inv => EventPerChunk
  BY DEF Inv
<1> QED
  BY <1>1, InitInv, NextInv, PTL DEF Spec

(* All that the two threads keep about the stream has its type.            *)
THEOREM TypeCorrect == Spec => []TypeOK
<1>1. Inv => TypeOK
  BY DEF Inv
<1> QED
  BY <1>1, InitInv, NextInv, PTL DEF Spec
-----------------------------------------------------------------------------
(* From here on recvmsg gives what FIONREAD promised. *)

LEMMA InitFlow == Init => Flow /\ Counted /\ InSync
BY Sizes DEF Init, Flow, ReadTo, Counted, InSync, Busy

(* A step that moves no bytes *)
LEMMA QuietFlow ==
  ASSUME Flow, UNCHANGED <<chunks, pos, taken, held>>,
         reader' = "append" <=> reader = "append",
         main = "gone" => main' = "gone"
  PROVE  Flow'
BY DEF Flow, ReadTo

LEMMA NextFlow ==
  ASSUME ~ShortReads, Inv, Flow, [Next]_vars
  PROVE  Flow'
<1> USE Sizes
<1>1. CASE Read
  <2>1. /\ reader = "read" /\ reader' = "append" /\ taken <= sent /\ taken' = sent
        /\ sent \in Nat /\ taken \in Nat /\ held' = [from |-> taken, to |-> sent]
        /\ UNCHANGED <<chunks, pos, main>>
    BY <1>1 DEF Read, mainUnchanged, peerUnchanged, Inv, TypeOK
  <2>2. \A k \in DOMAIN chunks : chunks[k].to \in Nat /\ chunks[k].to <= taken'
    <3>1. \A k \in DOMAIN chunks : chunks[k] \in Chunk
      BY SeqFacts DEF Inv, TypeOK
    <3>2. ASSUME NEW k \in DOMAIN chunks
          PROVE  chunks[k].to \in Nat /\ chunks[k].to <= taken
      BY <3>1, <3>2 DEF Flow, Chunk
    <3> QED
      BY <2>1, <3>2
  <2>3. pos \in Nat /\ pos <= taken /\ ReadTo = taken
    BY <2>1 DEF Flow, Inv, TypeOK, Control
  <2>4. ReadTo' = ReadTo
    BY <2>1 DEF ReadTo
  <2>5. held'.from = ReadTo' /\ held'.to = taken' /\ pos' <= taken'
    BY <2>1, <2>3, <2>4
  <2> QED
    BY <2>1, <2>2, <2>5 DEF Flow
<1>2. CASE AppendChunk
  <2> DEFINE q == Append(chunks, held)
             n == Len(chunks)
  <2>1. /\ reader = "append" /\ reader' = "signal" /\ chunks' = q
        /\ UNCHANGED <<pos, taken, main>>
    BY <1>2 DEF AppendChunk, mainUnchanged, peerUnchanged
  <2>2. /\ n \in Nat /\ DOMAIN chunks = 1 .. n /\ Len(q) = n + 1 /\ q # <<>>
        /\ DOMAIN q = 1 .. n + 1 /\ q[n + 1] = held
        /\ \A k \in 1 .. n : q[k] = chunks[k]
        /\ chunks = <<>> <=> n = 0
    <3>1. chunks \in Seq(Chunk) /\ held \in Chunk
      BY DEF Inv, TypeOK
    <3>2. n \in Nat /\ DOMAIN chunks = 1 .. n /\ (chunks = <<>> <=> n = 0)
      BY <3>1, SeqFacts
    <3>3. /\ Len(q) = n + 1 /\ q # <<>> /\ DOMAIN q = 1 .. n + 1 /\ q[n + 1] = held
          /\ \A k \in 1 .. n : q[k] = chunks[k]
      BY <3>1, AppendFacts
    <3> QED
      BY <3>2, <3>3
  <2>3. held.from = ReadTo /\ held.to = taken /\ main # "gone" /\ taken \in Nat
    BY <2>1 DEF Flow, Inv, Control, TypeOK
  <2> HIDE DEF q, n
  <2>4. q[1].from = pos
    <3>1. CASE n = 0
      BY <2>2, <2>3, <3>1 DEF ReadTo
    <3>2. CASE n # 0
      BY <2>2, <3>2 DEF Flow
    <3> QED
      BY <3>1, <3>2
  <2>5. ASSUME NEW k \in DOMAIN q
        PROVE  q[k].to <= taken /\ (k # Len(q) => q[k].to = q[k + 1].from)
    <3>1. CASE k = n + 1
      BY <2>2, <2>3, <3>1
    <3>2. CASE k = n /\ n # 0
      <4>1. q[k] = chunks[n] /\ q[k + 1] = held /\ chunks # <<>> /\ n \in DOMAIN chunks
        BY <2>2, <3>2
      <4>2. chunks[n].to = ReadTo /\ chunks[n].to <= taken
        BY <4>1 DEF ReadTo, Flow, n
      <4> QED
        BY <2>3, <4>1, <4>2
    <3>3. CASE k < n
      <4>1. k \in DOMAIN chunks /\ k # n /\ q[k] = chunks[k] /\ q[k + 1] = chunks[k + 1]
        BY <2>2, <3>3
      <4> QED
        BY <4>1 DEF Flow, n
    <3> QED
      BY <2>2, <3>1, <3>2, <3>3
  <2>6. ReadTo' = taken
    BY <2>1, <2>2, <2>3 DEF ReadTo
  <2> QED
    BY <2>1, <2>4, <2>5, <2>6 DEF Flow
<1>3. CASE RecvCopy
  <2>1. PICK n \in Nat \ {0} :
          /\ main = "recv" /\ chunks # <<>> /\ 1 \in DOMAIN chunks
          /\ chunks[1].from \in Nat /\ chunks[1].to \in Nat
          /\ chunks[1].from + n <= chunks[1].to
          /\ pos' = chunks[1].from + n /\ chunks' # <<>>
          /\ Len(chunks') = Len(chunks) /\ DOMAIN chunks' = DOMAIN chunks
          /\ chunks'[1].from = pos' /\ chunks'[1].to = chunks[1].to
          /\ \A k \in DOMAIN chunks : k # 1 => chunks'[k] = chunks[k]
          /\ UNCHANGED <<taken, reader, held>>
    BY <1>3, CopyStep
  <2>2. \A k \in DOMAIN chunks : chunks'[k].to = chunks[k].to
    BY <2>1
  <2>3. /\ DOMAIN chunks = 1 .. Len(chunks) /\ Len(chunks) \in DOMAIN chunks
        /\ Len(chunks) \in Nat
    BY <2>1, SeqFacts DEF Inv, TypeOK
  <2>4. ReadTo' = ReadTo
    BY <2>1, <2>2, <2>3 DEF ReadTo
  <2>5. ASSUME NEW k \in DOMAIN chunks
        PROVE  /\ chunks'[k].to <= taken'
               /\ k # Len(chunks') => chunks'[k].to = chunks'[k + 1].from
    <3>1. chunks'[k].to <= taken'
      BY <2>1, <2>2 DEF Flow
    <3>2. ASSUME k # Len(chunks) PROVE chunks'[k].to = chunks'[k + 1].from
      <4>1. k + 1 \in DOMAIN chunks /\ k + 1 # 1
        BY <2>3, <3>2
      <4>2. chunks'[k + 1] = chunks[k + 1] /\ chunks[k].to = chunks[k + 1].from
        BY <2>1, <3>2, <4>1 DEF Flow
      <4> QED
        BY <2>2, <4>2
    <3> QED
      BY <2>1, <3>1, <3>2
  <2>6. pos' <= taken'
    <3>1. chunks[1].to <= taken /\ taken \in Nat
      <4>1. taken \in Nat
        BY DEF Inv, TypeOK
      <4> QED
        BY <2>1, <4>1 DEF Flow
    <3> QED
      BY <2>1, <3>1
  <2> QED
    BY <2>1, <2>4, <2>5, <2>6 DEF Flow
<1>4. CASE RemoveChunk
  <2> DEFINE q == Tail(chunks)
             n == Len(chunks)
  <2>1. /\ main = "remove" /\ main' = "recv" /\ chunks # <<>> /\ chunks' = q
        /\ chunks[1].from = chunks[1].to
        /\ UNCHANGED <<pos, taken, reader, held>>
    BY <1>4 DEF RemoveChunk, peerUnchanged, readerUnchanged, Inv, Control
  <2>2. /\ q \in Seq(Chunk) /\ Len(q) = n - 1 /\ DOMAIN q = 1 .. n - 1
        /\ \A k \in 1 .. n - 1 : q[k] = chunks[k + 1]
        /\ DOMAIN chunks = 1 .. n /\ n \in Nat \ {0}
    BY <2>1, TailFacts, SeqFacts DEF Inv, TypeOK
  <2> HIDE DEF q, n
  <2>3. q = <<>> <=> n = 1
    <3>1. q = <<>> <=> Len(q) = 0
      BY <2>2, SeqFacts
    <3> QED
      BY <2>2, <3>1
  <2>4. chunks[1].from = pos /\ chunks[1].to = pos
    BY <2>1 DEF Flow
  <2>5. ASSUME n # 1 PROVE q[1].from = pos
    <3>1. 1 \in DOMAIN chunks /\ 1 \in 1 .. n - 1
      BY <2>2, <2>5
    <3>2. q[1] = chunks[1 + 1]
      BY <2>2, <3>1
    <3>3. chunks[1].to = chunks[1 + 1].from
      BY <2>5, <3>1 DEF Flow, n
    <3> QED
      BY <2>4, <3>2, <3>3
  <2>6. ASSUME NEW k \in DOMAIN q
        PROVE  q[k].to <= taken /\ (k # Len(q) => q[k].to = q[k + 1].from)
    <3>1. k \in Nat /\ k + 1 \in DOMAIN chunks /\ q[k] = chunks[k + 1]
      BY <2>2, <2>6
    <3>2. ASSUME k # Len(q) PROVE q[k].to = q[k + 1].from
      <4>1. k + 1 # n /\ q[k + 1] = chunks[(k + 1) + 1]
        BY <2>2, <2>6, <3>2
      <4> QED
        BY <3>1, <4>1 DEF Flow, n
    <3> QED
      BY <3>1, <3>2 DEF Flow
  <2>7. ReadTo' = ReadTo
    <3>1. CASE n = 1
      BY <2>1, <2>3, <2>4, <3>1 DEF ReadTo, n
    <3>2. CASE n # 1
      <4>1. q[Len(q)] = chunks[n]
        BY <2>2, <3>2
      <4> QED
        BY <2>1, <2>3, <3>2, <4>1 DEF ReadTo, n
    <3> QED
      BY <3>1, <3>2
  <2> QED
    BY <2>1, <2>3, <2>5, <2>6, <2>7 DEF Flow
<1>5. CASE Join
  BY <1>5 DEF Join, peerUnchanged, readerUnchanged, Flow
<1>6. CASE \/ Send \/ \E how \in {"closed", "reset"} : Shut(how)
           \/ Select \/ ReadFails \/ SignalChunk \/ SignalEnd \/ UNCHANGED vars
  <2>1. /\ UNCHANGED <<chunks, pos, taken, held, main>>
        /\ reader' = "append" <=> reader = "append"
    BY <1>6 DEF Send, Shut, Select, ReadFails, SignalChunk, SignalEnd, vars,
                peerUnchanged, readerUnchanged, mainUnchanged
  <2> QED
    BY <2>1, QuietFlow
<1>7. CASE \/ EvtPipe \/ RecvEmpty \/ ConsumeEvent \/ WaitEvent \/ RecvAll \/ Service
           \/ TerminateThread \/ CloseSocket \/ WaitTimeout \/ ClientDestroy
  <2>1. UNCHANGED <<chunks, pos, taken, held, reader>> /\ main # "gone"
    BY <1>7 DEF EvtPipe, RecvEmpty, ConsumeEvent, WaitEvent, RecvAll, Service,
                TerminateThread, CloseSocket, WaitTimeout, ClientDestroy,
                peerUnchanged, readerUnchanged
  <2> QED
    BY <2>1, QuietFlow
<1> QED
  BY <1>1, <1>2, <1>3, <1>4, <1>5, <1>6, <1>7 DEF Next, Reader, Main

(* com_core_thread_recv_with_fd hands out the stream without a gap and     *)
(* without a byte twice, however it was cut into chunks.                   *)
THEOREM NothingSkipped ==
  ASSUME ~ShortReads
  PROVE  Spec => []StreamIntact
<1>1. Inv /\ Flow => StreamIntact
  BY DEF Inv, TypeOK, Flow, StreamIntact
<1>2. Inv /\ Flow /\ [Next]_vars => Flow'
  BY NextFlow
<1> QED
  BY <1>1, <1>2, InitInv, NextInv, InitFlow, PTL DEF Spec

(* What one recv has counted while it is under way. *)
LEMMA NextCounted ==
  ASSUME Inv, Flow, Counted, InSync, [Next]_vars
  PROVE  Counted' /\ InSync'
<1> USE Sizes
<1> DEFINE P == done * PacketSize
<1>0. /\ P \in Nat /\ pos \in Nat /\ want \in Nat /\ offset \in Nat /\ PacketSize \in Nat
      /\ Needed(offset) \in Nat /\ offset + Needed(offset) <= PacketSize
      /\ main \in Busy => want <= Needed(offset)
  BY DEF Inv, TypeOK, Control
<1>1. (done + 1) * PacketSize = P + PacketSize
  BY DEF Inv, TypeOK
<1>2. Needed(0) \in Nat
  BY SizesAssumption DEF Needed, PacketSize
<1>3. CASE Send \/ (\E how \in {"closed", "reset"} : Shut(how)) \/ Reader \/ UNCHANGED vars
  <2>1. UNCHANGED <<main, pos, want, offset, done>>
    BY <1>3 DEF Send, Shut, Reader, Select, ReadFails, Read, AppendChunk, SignalChunk,
                SignalEnd, vars, mainUnchanged
  <2> QED
    BY <2>1 DEF Counted, InSync
<1>4. CASE EvtPipe
  <2>1. /\ main = "loop" /\ main' = "recv" /\ want' = Needed(offset)
        /\ UNCHANGED <<pos, offset, done>>
    BY <1>4 DEF EvtPipe
  <2>2. pos = P + offset
    BY <2>1 DEF InSync
  <2> HIDE DEF P
  <2>3. pos = P + offset + (Needed(offset) - Needed(offset))
    BY <1>0, <2>2
  <2> QED
    BY <2>1, <2>3 DEF Counted, InSync, P
<1>5. CASE RecvCopy
  <2>1. PICK n \in Nat \ {0} :
          /\ main = "recv" /\ 1 \in DOMAIN chunks /\ chunks # <<>> /\ n <= want
          /\ want' = want - n /\ pos' = chunks[1].from + n /\ main' \in {"consume", "recv"}
          /\ UNCHANGED <<offset, done>>
    BY <1>5, CopyStep
  <2>2. pos' = pos + n
    BY <2>1 DEF Flow
  <2>3. pos = P + offset + (Needed(offset) - want)
    BY <2>1 DEF Counted, Busy
  <2> HIDE DEF P
  <2>4. pos' = P + offset + (Needed(offset) - want')
    <3>1. want' = want - n /\ n \in Nat
      BY <2>1
    <3> DEFINE N == Needed(offset)
    <3>2. N \in Nat /\ pos = P + offset + (N - want)
      BY <1>0, <2>3
    <3> HIDE DEF N
    <3>3. pos' = P + offset + (N - want')
      BY <1>0, <2>2, <3>1, <3>2
    <3> QED
      BY <3>3 DEF N
  <2> QED
    BY <2>1, <2>4 DEF Counted, InSync, P
<1>6. CASE RecvEmpty \/ ConsumeEvent \/ RemoveChunk \/ WaitEvent \/ RecvAll
  <2>1. /\ main \in Busy /\ main' \in Busy
        /\ UNCHANGED <<pos, want, offset, done>>
    BY <1>6 DEF RecvEmpty, ConsumeEvent, RemoveChunk, WaitEvent, RecvAll, Busy
  <2> QED
    BY <2>1 DEF Counted, InSync, Busy
<1>7. CASE Service
  <2> DEFINE n == Needed(offset) - want
  <2>1. /\ main = "service" /\ main' \in {"loop", "leave"}
        /\ done' = IF offset + n = PacketSize THEN done + 1 ELSE done
        /\ offset' = OffsetAfter(offset, n) /\ pos' = pos
    BY <1>7 DEF Service
  <2>2. pos = P + offset + n
    BY <2>1 DEF Counted, Busy
  <2>3. n \in Nat
    BY <1>0, <2>1 DEF Busy
  <2> HIDE DEF n
  <2>4. pos' = done' * PacketSize + offset'
    <3>1. CASE offset + n = PacketSize
      <4>1. pos = P + PacketSize
        BY <1>0, <2>2, <2>3, <3>1 DEF P
      <4> QED
        BY <1>0, <1>1, <2>1, <3>1, <4>1 DEF OffsetAfter
    <3>2. CASE offset + n # PacketSize
      BY <1>0, <2>1, <2>2, <2>3, <3>2 DEF OffsetAfter
    <3> QED
      BY <3>1, <3>2
  <2> QED
    BY <2>1, <2>4 DEF Counted, InSync, Busy
<1>8. CASE \/ TerminateThread \/ CloseSocket \/ Join \/ WaitTimeout \/ ClientDestroy
  <2>1. main' \in Leaving
    BY <1>8 DEF TerminateThread, CloseSocket, Join, WaitTimeout, ClientDestroy, Leaving
  <2> QED
    BY <2>1 DEF Counted, InSync, Busy, Leaving
<1> QED
  BY <1>3, <1>4, <1>5, <1>6, <1>7, <1>8 DEF Next, Main

(* service_cb never loses track of where a packet begins, for every size   *)
(* of header and body and however the stream was cut into chunks.          *)
THEOREM PacketsInSync ==
  ASSUME ~ShortReads
  PROVE  Spec => []InSync
<1>1. Inv /\ Flow /\ [Next]_vars => Flow'
  BY NextFlow
<1>2. Inv /\ Flow /\ Counted /\ InSync /\ [Next]_vars => Counted' /\ InSync'
  BY NextCounted
<1> QED
  BY <1>1, <1>2, InitInv, NextInv, InitFlow, PTL DEF Spec

LEMMA StreamStep ==
  ASSUME Inv, Flow, [Next]_vars
  PROVE  [Stream!Next]_<<sent, pos, main \in Leaving>>
<1> DEFINE closed == main \in Leaving
<1> USE DEF Leaving
<1>1. CASE Send
  BY <1>1 DEF Send, mainUnchanged, Stream!Next, Stream!Send
<1>2. CASE RecvCopy
  <2>1. PICK n \in Nat \ {0} :
          /\ main = "recv" /\ 1 \in DOMAIN chunks /\ chunks # <<>>
          /\ chunks[1].from \in Nat /\ chunks[1].to \in Nat
          /\ chunks[1].from + n <= chunks[1].to
          /\ pos' = chunks[1].from + n /\ main' \in {"consume", "recv"} /\ sent' = sent
    BY <1>2, CopyStep
  <2>2. pos \in Nat /\ taken \in Nat /\ sent \in Nat /\ taken <= sent
    BY Sizes DEF Inv, TypeOK
  <2>3. chunks[1].from = pos /\ chunks[1].to <= taken
    BY <2>1 DEF Flow
  <2>4. n \in 1 .. sent - pos /\ pos' = pos + n
    BY <2>1, <2>2, <2>3
  <2>5. ~closed /\ closed' = closed
    BY <2>1
  <2> QED
    BY <2>1, <2>4, <2>5 DEF Stream!Next, Stream!Receive
<1>3. CASE Service \/ WaitTimeout \/ ClientDestroy
  <2>1. /\ ~closed /\ main' \in {"loop", "leave"} /\ UNCHANGED <<sent, pos>>
    BY <1>3 DEF Service, WaitTimeout, ClientDestroy, peerUnchanged
  <2>2. CASE main' = "leave"
    BY <2>1, <2>2 DEF Stream!Next, Stream!Close
  <2>3. CASE main' = "loop"
    BY <2>1, <2>3
  <2> QED
    BY <2>1, <2>2, <2>3
<1>4. CASE TerminateThread \/ CloseSocket \/ Join
  BY <1>4 DEF TerminateThread, CloseSocket, Join, peerUnchanged
<1>5. CASE EvtPipe \/ RecvEmpty \/ ConsumeEvent \/ RemoveChunk \/ WaitEvent \/ RecvAll
  BY <1>5 DEF EvtPipe, RecvEmpty, ConsumeEvent, RemoveChunk, WaitEvent, RecvAll, peerUnchanged
<1>6. CASE (\E how \in {"closed", "reset"} : Shut(how)) \/ Reader \/ UNCHANGED vars
  <2>1. UNCHANGED <<sent, pos, main>>
    BY <1>6 DEF Shut, Reader, Select, ReadFails, Read, AppendChunk, SignalChunk, SignalEnd,
                vars, peerUnchanged, mainUnchanged
  <2> QED
    BY <2>1
<1> QED
  BY <1>1, <1>2, <1>3, <1>4, <1>5, <1>6 DEF Next, Main

(* A connection with its two threads, its list of chunks and its pipes is  *)
(* to service_cb the stream that the peer wrote, cut off at most.          *)
THEOREM ConnectionIsStream ==
  ASSUME ~ShortReads
  PROVE  Spec => StreamRefined
<1>1. Init => Stream!Init
  BY DEF Init, Stream!Init, Leaving
<1>2. Inv /\ Flow /\ [Next]_vars => Flow'
  BY NextFlow
<1>3. Inv /\ Flow /\ [Next]_vars => [Stream!Next]_<<sent, pos, main \in Leaving>>
  BY StreamStep
<1> QED
  BY <1>1, <1>2, <1>3, InitInv, NextInv, InitFlow, PTL DEF Spec, StreamRefined, Stream!Spec
=============================================================================
