-------------------------- MODULE ConnectionProofs --------------------------
(***************************************************************************)
(* The invariants of Connection for every header size, message limit,      *)
(* stream of frames and send buffer, and that a connection is a Session.   *)
(***************************************************************************)
EXTENDS Connection, SequenceTheorems, Recursion

USE DEF Frames, Capacity

------------------------------------------------------------------------------
(* Facts about one state.                                                  *)

\* The commands that ran are a prefix of the stream.
LEMMA ExecutedCount ==
    ASSUME TypeOK, ExecutedInOrder
    PROVE  Len(executed) \in 0 .. NumFrames
<1>1. CASE executed = <<>>
    BY <1>1, SizesAssumption
<1>2. CASE executed # <<>>
    <2>1. Len(executed) \in Nat /\ Len(executed) > 0
        BY <1>2, EmptySeq DEF TypeOK
    <2>2. executed[Len(executed)] \in Frames
        <3>1. executed \in Seq(Frames) /\ Len(executed) \in 1 .. Len(executed)
            BY <2>1 DEF TypeOK
        <3>2. QED
            BY <3>1, ElementOfSeq
    <2>3. executed[Len(executed)] = Len(executed)
        BY <2>1 DEF ExecutedInOrder
    <2>4. QED
        BY <2>1, <2>2, <2>3, SizesAssumption
<1>3. QED
    BY <1>1, <1>2

\* Frames start one after the other.
LEMMA FramesApart == \A j, k \in 0 .. NumFrames : j < k => FrameStart[j] < FrameStart[k]
<1> DEFINE T == {n \in 0 .. NumFrames : \A j \in 0 .. NumFrames :
                                           j < n => FrameStart[j] < FrameStart[n]}
<1>1. NumFrames \in Nat /\ 0 \in T
    BY SizesAssumption
<1>2. ASSUME NEW n \in 1 .. NumFrames, n - 1 \in T PROVE n \in T
    <2>1. FrameStart[n] > FrameStart[n - 1]
        <3>1. /\ FrameStart[n] = FrameStart[n - 1] + HeaderSize + Length[n]
              /\ FrameStart[n] \in Nat /\ FrameStart[n - 1] \in Nat /\ Length[n] \in Nat
            BY <1>1, StreamAssumption
        <3>2. QED
            BY <3>1, SizesAssumption
    <2>2. ASSUME NEW j \in 0 .. NumFrames, j < n PROVE FrameStart[j] < FrameStart[n]
        <3>1. j = n - 1 \/ j < n - 1
            BY <1>1, <2>2
        <3>2. /\ FrameStart[j] \in Nat /\ FrameStart[n] \in Nat /\ FrameStart[n - 1] \in Nat
              /\ j < n - 1 => FrameStart[j] < FrameStart[n - 1]
            <4>1. n - 1 \in 0 .. NumFrames /\ n \in 0 .. NumFrames /\ j \in 0 .. NumFrames
                BY <1>1
            <4>2. QED
                BY <1>2, <4>1, StreamAssumption
        <3>3. QED
            BY <2>1, <2>2, <3>1, <3>2
    <2>3. QED
        BY <1>1, <2>2
<1> HIDE DEF T
<1>3. \A n \in 0 .. NumFrames : n \in T
    BY <1>1, <1>2, InductionUpTo
<1>4. QED
    BY <1>3 DEF T

\* The frame at the front of the read buffer is the first unexecuted one.
LEMMA FrontFrame ==
    ASSUME TypeOK, Framed, ExecutedInOrder, NEW k \in Frames,
           readBufferSize >= HeaderSize, HeaderIs(k)
    PROVE  k = Len(executed) + 1
<1>1. Len(executed) \in 0 .. NumFrames
    BY ExecutedCount
<1>2. readBuffer[0] = FrameStart[k - 1] + 0
    BY SizesAssumption DEF HeaderIs
<1>3. readBuffer[0] = FrameStart[Len(executed)] + 0
    BY SizesAssumption DEF Framed, TypeOK
<1>4. k - 1 \in 0 .. NumFrames
    BY SizesAssumption
<1>5. FrameStart[k - 1] = FrameStart[Len(executed)]
    BY <1>1, <1>2, <1>3, <1>4, StreamAssumption
<1>6. k - 1 = Len(executed)
    <2>1. FrameStart[k - 1] \in Nat
        BY <1>4, StreamAssumption
    <2>2. ~(k - 1 < Len(executed)) /\ ~(Len(executed) < k - 1)
        BY <1>1, <1>4, <1>5, <2>1, FramesApart
    <2>3. k - 1 \in Int /\ Len(executed) \in Int
        BY <1>1, <1>4, SizesAssumption
    <2>4. QED
        BY <2>2, <2>3
<1>7. QED
    BY <1>1, <1>6, SizesAssumption

LEMMA ReplySizes ==
    ASSUME NEW k \in Frames
    PROVE  /\ ReplySize(k) \in Nat
           /\ HeaderSize + ReplySize(k) <= MaxMessageSize
    BY SizesAssumption, StreamAssumption DEF ReplySize

\* What one write() of n bytes does to the wire.
LEMMA WireGrows ==
    ASSUME TypeOK, NEW n \in Nat \ {0}, writeBuffer \in Frames,
           wire' = wire \o [i \in 1 .. n |-> <<writeBuffer, writeBufferSent + i>>]
    PROVE  /\ wire' \in Seq(Frames \X Nat)
           /\ Len(wire') = Len(wire) + n
           /\ \A p \in 1 .. Len(wire) : wire'[p] = wire[p]
           /\ \A p \in Len(wire) + 1 .. Len(wire) + n :
                 wire'[p] = <<writeBuffer, writeBufferSent + (p - Len(wire))>>
<1> DEFINE chunk == [i \in 1 .. n |-> <<writeBuffer, writeBufferSent + i>>]
<1>1. chunk \in [1 .. n -> Frames \X Nat]
    BY DEF TypeOK
<1>2. chunk \in Seq(Frames \X Nat) /\ Len(chunk) = n
    BY <1>1, SeqDef
<1>3. wire \in Seq(Frames \X Nat) /\ Len(wire) \in Nat
    BY LenProperties DEF TypeOK
<1>4. \A i \in 1 .. n : chunk[i] = <<writeBuffer, writeBufferSent + i>>
    OBVIOUS
<1> HIDE DEF chunk
<1>5. /\ wire \o chunk \in Seq(Frames \X Nat)
      /\ Len(wire \o chunk) = Len(wire) + n
      /\ \A i \in 1 .. Len(wire) + n : (wire \o chunk)[i] =
            IF i <= Len(wire) THEN wire[i] ELSE chunk[i - Len(wire)]
    BY <1>2, <1>3, ConcatProperties
<1>6. wire' = wire \o chunk
    BY DEF chunk
<1>7. \A p \in 1 .. Len(wire) : wire'[p] = wire[p]
    BY <1>3, <1>5, <1>6
<1>8. \A p \in Len(wire) + 1 .. Len(wire) + n :
         wire'[p] = <<writeBuffer, writeBufferSent + (p - Len(wire))>>
    <2> TAKE p \in Len(wire) + 1 .. Len(wire) + n
    <2>1. p - Len(wire) \in 1 .. n /\ p \in 1 .. Len(wire) + n /\ ~(p <= Len(wire))
        BY <1>3
    <2>2. wire'[p] = chunk[p - Len(wire)]
        BY <1>5, <1>6, <2>1
    <2>3. QED
        BY <1>4, <2>1, <2>2
<1>9. QED
    BY <1>5, <1>6, <1>7, <1>8
------------------------------------------------------------------------------
(* The inductive invariant, one lemma per handler.                         *)

LEMMA InitIInv == Init => IInv
<1> SUFFICES ASSUME Init PROVE IInv
    OBVIOUS
<1> USE SizesAssumption DEF Init
<1>1. executed = <<>> /\ Len(executed) = 0 /\ wire = <<>> /\ Len(wire) = 0
    OBVIOUS
<1>2. executed \in Seq(Frames) /\ wire \in Seq(Frames \X Nat)
    BY <1>1
<1>3. FrameStart[0] = 0 /\ FrameStart[NumFrames] \in Nat
    BY StreamAssumption
<1>4. TypeOK
    BY <1>1, <1>2, <1>3 DEF TypeOK, Garbage
<1>5. Control /\ SpareRoom /\ WriteBounds
    BY DEF Control, SpareRoom, WriteBounds
<1>6. Framed
    BY <1>1, <1>3 DEF Framed
<1>7. ExecutedInOrder /\ ReplyStream
    BY <1>1 DEF ExecutedInOrder, ReplyStream
<1>8. Outgoing
    BY <1>1 DEF Outgoing, WireEnds
<1>9. QED
    BY <1>4, <1>5, <1>6, <1>7, <1>8 DEF IInv

\* Steps that leave the buffers and the wire alone keep what is said of them.
LEMMA BuffersUnchanged ==
    ASSUME IInv,
           UNCHANGED <<readBuffer, readBufferSize, writeBuffer, writeBufferSize,
                       writeBufferSent, executed, received, wire>>
    PROVE  /\ Framed' /\ ExecutedInOrder' /\ WriteBounds' /\ ReplyStream'
           /\ state' \in {state, "END"} => Outgoing'
<1>1. Framed' /\ ExecutedInOrder' /\ WriteBounds' /\ ReplyStream'
    BY DEF IInv, Framed, ExecutedInOrder, WriteBounds, ReplyStream
<1>2. ASSUME state' \in {state, "END"} PROVE Outgoing'
    <2>1. \A n : WireEnds(n)' <=> WireEnds(n)
        BY DEF WireEnds
    <2>2. QED
        BY <1>2, <2>1 DEF IInv, Outgoing
<1>3. QED
    BY <1>1, <1>2

\* io() and the event loop's clean-up.
LEMMA IoStep ==
    ASSUME IInv, IoRequest \/ IoResponse \/ Destroy
    PROVE  IInv'
<1> USE DEF IoRequest, IoResponse, Destroy, sockets
<1>1. TypeOK'
    BY DEF IInv, TypeOK
<1>2. Control' /\ SpareRoom'
    BY DEF IInv, Control, SpareRoom
<1>3. state' = state
    OBVIOUS
<1>4. Framed' /\ ExecutedInOrder' /\ WriteBounds' /\ ReplyStream' /\ Outgoing'
    BY <1>3, BuffersUnchanged
<1>5. QED
    BY <1>1, <1>2, <1>4 DEF IInv

\* tryFillBuffer: a read() that brings nothing.
LEMMA FillQuietStep ==
    ASSUME IInv, FillAgain \/ FillEnd
    PROVE  IInv'
<1> USE DEF FillAgain, FillEnd, sockets
<1>1. TypeOK'
    BY DEF IInv, TypeOK
<1>2. Control' /\ SpareRoom'
    BY DEF IInv, Control, SpareRoom
<1>3. state' \in {state, "END"}
    OBVIOUS
<1>4. Framed' /\ ExecutedInOrder' /\ WriteBounds' /\ ReplyStream' /\ Outgoing'
    BY <1>3, BuffersUnchanged
<1>5. QED
    BY <1>1, <1>2, <1>4 DEF IInv

\* tryFillBuffer: a read() that brings n bytes.
LEMMA FillReadStep ==
    ASSUME IInv, FillRead
    PROVE  IInv'
<1>1. PICK n \in 1 .. Least(Unread, Room) :
         /\ readBuffer' = [i \in 0 .. Capacity - 1 |->
                IF i \in readBufferSize .. readBufferSize + n - 1
                THEN received + (i - readBufferSize)
                ELSE readBuffer[i]]
         /\ readBufferSize' = readBufferSize + n
         /\ received' = received + n
    BY DEF FillRead
<1>2. /\ state' = state /\ pc' = "parse" /\ caller' = caller
      /\ UNCHANGED <<writeBuffer, writeBufferSize, writeBufferSent, executed,
                     sent, wire, taken, peer>>
    BY DEF FillRead
<1>3. /\ readBufferSize \in 0 .. Capacity /\ Capacity \in Nat
      /\ sent \in Nat /\ received \in 0 .. sent
    BY SizesAssumption, StreamAssumption DEF IInv, TypeOK
<1>4. n \in Nat /\ received + n <= sent /\ readBufferSize + n <= Capacity
    BY <1>3, SizesAssumption DEF Least, Unread, Room
<1>5. TypeOK'
    <2>1. readBuffer' \in [0 .. Capacity - 1 -> Int]
        BY <1>1, <1>3, <1>4 DEF IInv, TypeOK
    <2>2. readBufferSize' \in 0 .. Capacity /\ received' \in 0 .. sent'
        BY <1>1, <1>2, <1>3, <1>4
    <2>3. QED
        BY <1>2, <2>1, <2>2 DEF IInv, TypeOK
<1>6. Control' /\ SpareRoom'
    BY <1>2 DEF IInv, Control, SpareRoom, FillRead
<1>7. Framed'
    <2>1. /\ received = FrameStart[Len(executed)] + readBufferSize
          /\ \A i \in 0 .. readBufferSize - 1 :
                readBuffer[i] = FrameStart[Len(executed)] + i
        BY DEF IInv, Framed
    <2>2. FrameStart[Len(executed)] \in Nat
        BY ExecutedCount, StreamAssumption DEF IInv
    <2>3. received' = FrameStart[Len(executed')] + readBufferSize'
        BY <1>1, <1>2, <1>3, <1>4, <2>1, <2>2
    <2>4. ASSUME NEW i \in 0 .. readBufferSize' - 1
          PROVE  readBuffer'[i] = FrameStart[Len(executed')] + i
        <3>1. i \in 0 .. Capacity - 1
            BY <1>1, <1>3, <1>4
        <3>2. CASE i < readBufferSize
            <4>1. readBuffer'[i] = readBuffer[i]
                BY <1>1, <1>3, <1>4, <3>1, <3>2
            <4>2. QED
                BY <1>2, <1>3, <2>1, <3>2, <4>1
        <3>3. CASE i >= readBufferSize
            <4>1. i \in readBufferSize .. readBufferSize + n - 1
                BY <1>1, <1>3, <1>4, <3>3
            <4>2. readBuffer'[i] = received + (i - readBufferSize)
                BY <1>1, <3>1, <4>1
            <4>3. QED
                BY <1>2, <1>3, <2>1, <2>2, <4>2
        <3>4. QED
            BY <1>3, <3>2, <3>3
    <2>5. QED
        BY <2>3, <2>4 DEF Framed
<1>8. ExecutedInOrder' /\ WriteBounds' /\ ReplyStream'
    BY <1>2 DEF IInv, ExecutedInOrder, WriteBounds, ReplyStream
<1>9. Outgoing'
    <2>1. \A m : WireEnds(m)' <=> WireEnds(m)
        BY <1>2 DEF WireEnds
    <2>2. QED
        BY <1>2, <2>1 DEF IInv, Outgoing
<1>10. QED
    BY <1>5, <1>6, <1>7, <1>8, <1>9 DEF IInv

\* tryOneRequest: the frame is not complete, too long or refused.
LEMMA ParseQuietStep ==
    ASSUME IInv, ParseShort \/ ParseTooLong \/ ParseBad
    PROVE  IInv'
<1> USE DEF ParseShort, ParseTooLong, ParseBad, sockets
<1>1. TypeOK'
    BY DEF IInv, TypeOK
<1>2. Control'
    BY DEF IInv, Control
<1>3. SpareRoom'
    <2>1. CASE ParseTooLong \/ ParseBad
        BY <2>1 DEF SpareRoom
    <2>2. CASE ParseShort
        <3>1. readBufferSize \in Nat /\ HeaderSize \in Nat /\ MaxMessageSize \in Nat
              /\ HeaderSize <= MaxMessageSize
            BY SizesAssumption DEF IInv, TypeOK
        <3>2. state = "REQ"
            BY <2>2 DEF IInv, Control
        <3>3. CASE readBufferSize < HeaderSize
            BY <2>2, <3>1, <3>2, <3>3 DEF SpareRoom
        <3>4. CASE \E k \in Frames : ~TooLong(k) /\ ~Complete(k)
            <4>1. PICK k \in Frames : ~TooLong(k) /\ ~Complete(k)
                BY <3>4
            <4>2. Length[k] \in Nat
                BY StreamAssumption
            <4>3. readBufferSize < Capacity
                BY <3>1, <4>1, <4>2 DEF TooLong, Complete, FrameSize
            <4>4. QED
                BY <2>2, <3>2, <4>3 DEF SpareRoom
        <3>5. QED
            BY <2>2, <3>3, <3>4
    <2>3. QED
        BY <2>1, <2>2
<1>4. state' \in {state, "END"}
    OBVIOUS
<1>5. Framed' /\ ExecutedInOrder' /\ WriteBounds' /\ ReplyStream' /\ Outgoing'
    BY <1>4, BuffersUnchanged
<1>6. QED
    BY <1>1, <1>2, <1>3, <1>5 DEF IInv

\* tryOneRequest: the command runs and its reply is packed.
LEMMA ParseExecuteStep ==
    ASSUME IInv, ParseExecute
    PROVE  IInv'
<1>1. PICK k \in MayParse :
         /\ HeaderIs(k) /\ ~TooLong(k) /\ Complete(k)
         /\ executed' = Append(executed, k)
         /\ writeBuffer' = k
         /\ writeBufferSize' = HeaderSize + ReplySize(k)
         /\ readBuffer' = Moved(k)
         /\ readBufferSize' = Remaining(k)
    BY DEF ParseExecute
<1>2. /\ pc = "parse" /\ readBufferSize >= HeaderSize
      /\ state' = "RES" /\ pc' = "flush" /\ caller' = "tryOneRequest"
      /\ UNCHANGED <<writeBufferSent, sent, received, wire, taken, peer>>
    BY DEF ParseExecute, sockets
<1>3. k \in Frames /\ Length[k] \in Nat
    <2>1. MayParse \subseteq Frames /\ Length \in [Frames -> Nat]
        BY StreamAssumption
    <2>2. k \in Frames
        BY <2>1
    <2>3. QED
        BY <2>1, <2>2
<1>4. k = Len(executed) + 1
    BY <1>1, <1>2, <1>3, FrontFrame DEF IInv
<1>5. /\ executed \in Seq(Frames) /\ Len(executed) \in Nat
      /\ readBufferSize \in 0 .. Capacity /\ HeaderSize \in Nat \ {0}
      /\ MaxMessageSize \in Nat /\ state = "REQ"
    BY <1>2, SizesAssumption DEF IInv, TypeOK, Control
<1>6. FrameSize(k) \in HeaderSize .. readBufferSize
      /\ Remaining(k) \in 0 .. readBufferSize /\ Remaining(k) + HeaderSize <= readBufferSize
      /\ Remaining(k) + FrameSize(k) = readBufferSize
    <2>1. FrameSize(k) <= readBufferSize
        BY <1>1 DEF Complete
    <2>2. readBufferSize \in Nat
        BY <1>5
    <2>3. FrameSize(k) \in Nat /\ FrameSize(k) >= HeaderSize
        BY <1>3, <1>5 DEF FrameSize
    <2>4. Remaining(k) = readBufferSize - FrameSize(k)
        BY DEF Remaining
    <2>5. QED
        BY <1>5, <2>1, <2>2, <2>3, <2>4
<1>7. /\ executed' \in Seq(Frames) /\ Len(executed') = k
      /\ \A i \in 1 .. Len(executed) : executed'[i] = executed[i]
      /\ executed'[k] = k
    <2>1. executed' = Append(executed, k)
        BY <1>1
    <2>2. QED
        BY <1>3, <1>4, <1>5, <2>1, AppendProperties
<1>8. ReplySize(k) \in Nat /\ HeaderSize + ReplySize(k) <= MaxMessageSize
    BY <1>3, ReplySizes
<1>9. TypeOK'
    <2>1. readBuffer' \in [0 .. Capacity - 1 -> Int]
        <3> SUFFICES ASSUME NEW i \in 0 .. Capacity - 1, i < Remaining(k)
                     PROVE  readBuffer[i + FrameSize(k)] \in Int
            BY <1>1 DEF Moved, IInv, TypeOK
        <3>1. i + FrameSize(k) \in 0 .. Capacity - 1
            BY <1>5, <1>6
        <3>2. QED
            BY <3>1 DEF IInv, TypeOK
    <2>2. readBufferSize' \in 0 .. Capacity
        BY <1>1, <1>5, <1>6
    <2>3. writeBuffer' \in 0 .. NumFrames /\ writeBufferSize' \in Nat
        BY <1>1, <1>3, <1>5, <1>8
    <2>4. QED
        BY <1>2, <1>7, <2>1, <2>2, <2>3 DEF IInv, TypeOK
<1>10. Control'
    BY <1>2 DEF Control
<1>11. SpareRoom'
    <2>1. readBufferSize' + HeaderSize <= Capacity
        BY <1>1, <1>5, <1>6
    <2>2. QED
        BY <1>2, <2>1 DEF SpareRoom
<1>12. ExecutedInOrder'
    <2> SUFFICES ASSUME NEW i \in 1 .. Len(executed') PROVE executed'[i] = i
        BY DEF ExecutedInOrder
    <2>1. i = k \/ i \in 1 .. Len(executed)
        BY <1>4, <1>5, <1>7
    <2>2. QED
        BY <1>7, <2>1 DEF IInv, ExecutedInOrder
<1>13. Framed'
    <2>1. /\ FrameStart[Len(executed)] \in Nat /\ FrameStart[k] \in Nat
          /\ FrameStart[k] = FrameStart[Len(executed)] + FrameSize(k)
        <3>1. k - 1 = Len(executed)
            BY <1>4, <1>5
        <3>2. k \in 0 .. NumFrames /\ k - 1 \in 0 .. NumFrames
            BY <1>3, SizesAssumption
        <3>3. FrameStart[k] \in Nat /\ FrameStart[k - 1] \in Nat
            BY <3>2, StreamAssumption
        <3>4. FrameStart[k] = FrameStart[k - 1] + HeaderSize + Length[k]
            BY <1>3, StreamAssumption
        <3>5. FrameSize(k) = HeaderSize + Length[k]
            BY DEF FrameSize
        <3>6. QED
            BY <1>3, <1>5, <3>1, <3>3, <3>4, <3>5
    <2>2. received = FrameStart[Len(executed)] + readBufferSize
          /\ \A i \in 0 .. readBufferSize - 1 :
                readBuffer[i] = FrameStart[Len(executed)] + i
        BY DEF IInv, Framed
    <2>3. FrameSize(k) \in Nat
        BY <1>5, <1>6
    <2>4. received' = FrameStart[k] + Remaining(k)
        BY <1>2, <1>5, <1>6, <2>1, <2>2, <2>3
    <2>5. ASSUME NEW i \in 0 .. Remaining(k) - 1
          PROVE  readBuffer'[i] = FrameStart[k] + i
        <3>1. i \in 0 .. Capacity - 1 /\ i < Remaining(k)
              /\ i + FrameSize(k) \in 0 .. readBufferSize - 1
            BY <1>5, <1>6, <2>3
        <3>2. readBuffer'[i] = readBuffer[i + FrameSize(k)]
            BY <1>1, <3>1 DEF Moved
        <3>3. readBuffer[i + FrameSize(k)] = FrameStart[Len(executed)] + (i + FrameSize(k))
            BY <2>2, <3>1
        <3>4. QED
            BY <2>1, <2>3, <3>2, <3>3
    <2>6. QED
        BY <1>1, <1>7, <2>4, <2>5 DEF Framed
<1>14. /\ writeBufferSent' = 0 /\ writeBuffer' = k
       /\ writeBufferSize' = HeaderSize + ReplySize(k)
    BY <1>1, <1>2, <1>5 DEF IInv, Outgoing
<1>15. WriteBounds'
    <2>1. HeaderSize + ReplySize(k) \in Nat /\ HeaderSize + ReplySize(k) <= HeaderSize + MaxMessageSize
        BY <1>5, <1>8
    <2>2. QED
        BY <1>14, <2>1 DEF WriteBounds
<1>16. ReplyStream'
    BY <1>2 DEF IInv, ReplyStream
<1>17. Outgoing'
    <2>1. WireEnds(Len(executed))
        BY <1>5 DEF IInv, Outgoing
    <2>2. Len(executed') - 1 = Len(executed) /\ Len(executed') > 0
        BY <1>4, <1>5, <1>7
    <2>3. 0 < HeaderSize + ReplySize(k)
        BY <1>5, <1>8
    <2>4. (WireEnds(Len(executed) - 1))'
        BY <1>2, <2>1, <2>2 DEF WireEnds
    <2>5. QED
        BY <1>2, <1>7, <1>14, <2>2, <2>3, <2>4 DEF Outgoing
<1>18. QED
    BY <1>9, <1>10, <1>11, <1>12, <1>13, <1>15, <1>16, <1>17 DEF IInv

\* tryFlushBuffer: the send buffer is full, or the client has reset.
LEMMA FlushQuietStep ==
    ASSUME IInv, FlushAgain \/ FlushError
    PROVE  IInv'
<1> USE DEF FlushAgain, FlushError, sockets
<1>1. TypeOK'
    BY DEF IInv, TypeOK
<1>2. Control' /\ SpareRoom'
    BY DEF IInv, Control, SpareRoom
<1>3. state' \in {state, "END"}
    OBVIOUS
<1>4. Framed' /\ ExecutedInOrder' /\ WriteBounds' /\ ReplyStream' /\ Outgoing'
    BY <1>3, BuffersUnchanged
<1>5. QED
    BY <1>1, <1>2, <1>4 DEF IInv

\* tryFlushBuffer: write() takes n bytes.
LEMMA FlushWriteStep ==
    ASSUME IInv, FlushWrite
    PROVE  IInv'
<1>1. PICK n \in 1 .. Least(writeBufferSize - writeBufferSent, Free) :
         /\ wire' = wire \o [i \in 1 .. n |-> <<writeBuffer, writeBufferSent + i>>]
         /\ writeBufferSent' = SentAfter(n)
         /\ IF Flushed(n)
            THEN /\ state' = "REQ"
                 /\ writeBufferSize' = 0
                 /\ pc' = IF caller = "io" THEN "idle" ELSE "parse"
            ELSE UNCHANGED <<state, writeBufferSize, pc>>
    BY DEF FlushWrite
<1>2. /\ pc = "flush"
      /\ UNCHANGED <<caller, readBuffer, readBufferSize, writeBuffer, executed,
                     sent, received, taken, peer>>
    BY DEF FlushWrite
<1> DEFINE k == Len(executed)
           total == HeaderSize + ReplySize(k)
<1>3. state = "RES"
    BY <1>2 DEF IInv, Control
<1>4. k \in Frames
    <2>1. k \in 0 .. NumFrames
        BY ExecutedCount DEF IInv
    <2>2. k > 0
        BY <1>3 DEF IInv, Outgoing
    <2>3. QED
        BY <2>1, <2>2
<1>5. /\ writeBuffer = k
      /\ writeBufferSize = total
      /\ writeBufferSent < total
      /\ IF writeBufferSent = 0
         THEN WireEnds(k - 1)
         ELSE Len(wire) > 0 /\ wire[Len(wire)] = <<k, writeBufferSent>>
    BY <1>3 DEF IInv, Outgoing
<1>6. total \in Nat /\ total <= Capacity /\ writeBufferSent \in Nat /\ Len(wire) \in Nat
    <2>1. total \in Nat /\ total <= Capacity
        BY <1>4, ReplySizes, SizesAssumption
    <2>2. writeBufferSent \in Nat /\ wire \in Seq(Frames \X Nat)
        BY DEF IInv, TypeOK
    <2>3. QED
        BY <2>1, <2>2
<1> HIDE DEF total
<1>7. n \in Nat \ {0} /\ writeBufferSent + n <= total
    <2>1. Free \in Int
        <3>1. taken \in Int /\ SendSpace \in Int
            BY <1>6, SizesAssumption DEF IInv, TypeOK
        <3>2. QED
            BY <1>6, <3>1 DEF Free
    <2>2. QED
        BY <1>5, <1>6, <2>1 DEF Least
<1>8. /\ wire' \in Seq(Frames \X Nat)
      /\ Len(wire') = Len(wire) + n
      /\ \A p \in 1 .. Len(wire) : wire'[p] = wire[p]
      /\ \A p \in Len(wire) + 1 .. Len(wire) + n :
            wire'[p] = <<k, writeBufferSent + (p - Len(wire))>>
    <2>1. TypeOK /\ writeBuffer \in Frames
        BY <1>4, <1>5 DEF IInv
    <2>2. /\ wire' \in Seq(Frames \X Nat)
          /\ Len(wire') = Len(wire) + n
          /\ \A p \in 1 .. Len(wire) : wire'[p] = wire[p]
          /\ \A p \in Len(wire) + 1 .. Len(wire) + n :
                wire'[p] = <<writeBuffer, writeBufferSent + (p - Len(wire))>>
        BY <1>1, <1>7, <2>1, WireGrows
    <2>3. QED
        BY <1>5, <2>2
<1>9. Flushed(n) <=> writeBufferSent + n = total
    BY <1>5 DEF Flushed
<1>10. /\ Flushed(n) => writeBufferSent' = 0
       /\ ~Flushed(n) => writeBufferSent' = writeBufferSent + n
    BY <1>1 DEF SentAfter
<1>11. wire'[Len(wire')] = <<k, writeBufferSent + n>>
    <2>1. Len(wire) + n \in Len(wire) + 1 .. Len(wire) + n
          /\ (Len(wire) + n) - Len(wire) = n
        BY <1>6, <1>7
    <2>2. QED
        BY <1>8, <2>1
<1>12. TypeOK'
    <2>1. state' \in {"REQ", "RES"} /\ pc' \in {"idle", "parse", "flush"}
        BY <1>1, <1>2, <1>3
    <2>2. writeBufferSize' \in Nat /\ writeBufferSent' \in Nat
        BY <1>1, <1>5, <1>6, <1>7, <1>10
    <2>3. taken' \in 0 .. Len(wire')
        BY <1>2, <1>6, <1>7, <1>8 DEF IInv, TypeOK
    <2>4. QED
        BY <1>2, <1>8, <2>1, <2>2, <2>3 DEF IInv, TypeOK
<1>13. Control' /\ SpareRoom'
    <2>1. readBufferSize \in Nat /\ readBufferSize + HeaderSize <= Capacity
          /\ HeaderSize \in Nat \ {0} /\ Capacity \in Nat
        BY <1>3, SizesAssumption DEF IInv, SpareRoom, TypeOK
    <2>2. readBufferSize < Capacity
        BY <2>1
    <2>3. QED
        BY <1>1, <1>2, <1>3, <2>1, <2>2 DEF Control, SpareRoom
<1>14. Framed' /\ ExecutedInOrder'
    BY <1>2 DEF IInv, Framed, ExecutedInOrder
<1>15. WriteBounds'
    <2>1. CASE Flushed(n)
        BY <1>1, <1>6, <1>10, <2>1, SizesAssumption DEF WriteBounds
    <2>2. CASE ~Flushed(n)
        BY <1>1, <1>5, <1>6, <1>7, <1>10, <2>2 DEF WriteBounds
    <2>3. QED
        BY <2>1, <2>2
<1>16. Outgoing'
    <2>1. CASE Flushed(n)
        <3>1. state' = "REQ" /\ writeBufferSize' = 0 /\ writeBufferSent' = 0
            BY <1>1, <1>10, <2>1
        <3>2. wire'[Len(wire')] = <<k, HeaderSize + ReplySize(k)>>
            BY <1>9, <1>11, <2>1 DEF total
        <3>3. Len(wire') > 0
            BY <1>6, <1>7, <1>8
        <3>4. WireEnds(Len(executed))'
            BY <1>2, <1>4, <3>2, <3>3 DEF WireEnds, ReplySize
        <3>5. QED
            BY <3>1, <3>4 DEF Outgoing
    <2>2. CASE ~Flushed(n)
        <3>1. /\ state' = "RES" /\ writeBufferSize' = total
              /\ writeBufferSent' = writeBufferSent + n
            BY <1>1, <1>3, <1>5, <1>10, <2>2
        <3>2. writeBufferSent + n < total /\ writeBufferSent + n # 0
            BY <1>6, <1>7, <1>9, <2>2
        <3>3. Len(wire') > 0
            BY <1>6, <1>7, <1>8
        <3>4. QED
            BY <1>2, <1>4, <1>5, <1>11, <3>1, <3>2, <3>3
               DEF Outgoing, total, ReplySize
    <2>3. QED
        BY <2>1, <2>2
<1>17. ReplyStream'
    <2>1. /\ wire # <<>> => wire[1] = <<1, 1>>
          /\ \A p \in 1 .. Len(wire) - 1 : wire[p + 1] = NextByte(wire[p])
        BY DEF IInv, ReplyStream
    <2>2. ASSUME Len(wire) > 0
          PROVE  NextByte(wire[Len(wire)]) = <<k, writeBufferSent + 1>>
        <3>1. CASE writeBufferSent = 0
            <4>1. k - 1 # 0
                BY <1>5, <2>2, <3>1 DEF WireEnds
            <4>2. k - 1 \in Frames
                <5>1. k \in Int /\ k >= 1 /\ k <= NumFrames /\ NumFrames \in Int
                    BY <1>4, SizesAssumption
                <5> HIDE DEF k
                <5>2. k # 1
                    BY <4>1
                <5>3. QED
                    BY <5>1, <5>2
            <4>3. wire[Len(wire)] = <<k - 1, HeaderSize + ReplySize(k - 1)>>
                BY <1>5, <3>1, <4>1 DEF WireEnds
            <4>4. HeaderSize + ReplySize(k - 1) \in Nat
                BY <4>2, ReplySizes, SizesAssumption
            <4>5. NextByte(wire[Len(wire)]) = <<(k - 1) + 1, 1>>
                BY <4>3, <4>4 DEF NextByte
            <4>6. (k - 1) + 1 = k /\ writeBufferSent + 1 = 1
                BY <1>4, <3>1
            <4>7. QED
                BY <4>5, <4>6
        <3>2. CASE writeBufferSent # 0
            <4>1. wire[Len(wire)] = <<k, writeBufferSent>>
                BY <1>5, <3>2
            <4>2. QED
                BY <1>5, <4>1 DEF NextByte, total
        <3>3. QED
            BY <3>1, <3>2
    <2>3. ASSUME wire' # <<>> PROVE wire'[1] = <<1, 1>>
        <3>1. CASE Len(wire) > 0
            <4>1. wire # <<>> /\ 1 \in 1 .. Len(wire)
                BY <1>6, <3>1
            <4>2. QED
                BY <1>8, <2>1, <4>1
        <3>2. CASE Len(wire) = 0
            <4>1. writeBufferSent = 0 /\ k - 1 = 0
                BY <1>5, <3>2 DEF WireEnds
            <4>2. 1 \in Len(wire) + 1 .. Len(wire) + n
                BY <1>7, <3>2
            <4>3. wire'[1] = <<k, writeBufferSent + (1 - Len(wire))>>
                BY <1>8, <4>2
            <4>4. QED
                BY <1>4, <3>2, <4>1, <4>3
        <3>3. QED
            BY <1>6, <3>1, <3>2
    <2>4. ASSUME NEW p \in 1 .. Len(wire') - 1
          PROVE  wire'[p + 1] = NextByte(wire'[p])
        <3>1. p \in Nat \ {0} /\ p + 1 <= Len(wire) + n
            BY <1>6, <1>7, <1>8
        <3>2. CASE p < Len(wire)
            <4>1. p \in 1 .. Len(wire) - 1 /\ p \in 1 .. Len(wire) /\ p + 1 \in 1 .. Len(wire)
                BY <1>6, <3>1, <3>2
            <4>2. QED
                BY <1>8, <2>1, <4>1
        <3>3. CASE p = Len(wire)
            <4>1. p \in 1 .. Len(wire) /\ Len(wire) > 0
                  /\ p + 1 \in Len(wire) + 1 .. Len(wire) + n /\ (p + 1) - Len(wire) = 1
                BY <1>6, <1>7, <3>1, <3>3
            <4>2. wire'[p + 1] = <<k, writeBufferSent + 1>>
                BY <1>8, <4>1
            <4>3. QED
                BY <1>8, <2>2, <3>3, <4>1, <4>2
        <3>4. CASE p > Len(wire)
            <4>1. /\ p \in Len(wire) + 1 .. Len(wire) + n
                  /\ p + 1 \in Len(wire) + 1 .. Len(wire) + n
                BY <1>6, <1>7, <3>1, <3>4
            <4>2. /\ wire'[p] = <<k, writeBufferSent + (p - Len(wire))>>
                  /\ wire'[p + 1] = <<k, writeBufferSent + ((p + 1) - Len(wire))>>
                BY <1>8, <4>1
            <4>3. /\ writeBufferSent + (p - Len(wire)) < total
                  /\ writeBufferSent + ((p + 1) - Len(wire))
                        = (writeBufferSent + (p - Len(wire))) + 1
                BY <1>6, <1>7, <3>1
            <4>4. QED
                BY <4>2, <4>3 DEF NextByte, total
        <3>5. QED
            BY <1>6, <3>1, <3>2, <3>3, <3>4
    <2>5. \A b : NextByte(b)' = NextByte(b)
        BY DEF NextByte, ReplySize
    <2>6. QED
        BY <2>3, <2>4, <2>5 DEF ReplyStream, NextByte, ReplySize
<1>18. QED
    BY <1>12, <1>13, <1>14, <1>15, <1>16, <1>17 DEF IInv

\* What the client does.
LEMMA ClientStep ==
    ASSUME IInv, Client
    PROVE  IInv'
<1>1. /\ UNCHANGED conn
      /\ received' = received /\ wire' = wire
      /\ sent' \in sent .. FrameStart[NumFrames]
      /\ taken' \in 0 .. Len(wire)
      /\ peer' \in {"open", "closed", "reset"}
    <2> /\ sent \in 0 .. FrameStart[NumFrames] /\ taken \in 0 .. Len(wire)
        /\ FrameStart[NumFrames] \in Nat /\ Len(wire) \in Nat
        /\ peer \in {"open", "closed", "reset"}
        <3>1. wire \in Seq(Frames \X Nat)
            BY DEF IInv, TypeOK
        <3>2. FrameStart[NumFrames] \in Nat
            BY SizesAssumption, StreamAssumption
        <3>3. QED
            BY <3>1, <3>2 DEF IInv, TypeOK
    <2>1. CASE ClientSend
        BY <2>1 DEF ClientSend
    <2>2. CASE ClientTake
        BY <2>2 DEF ClientTake
    <2>3. CASE ClientLeave
        BY <2>3 DEF ClientLeave
    <2>4. QED
        BY <2>1, <2>2, <2>3 DEF Client
<1> USE <1>1 DEF conn
<1>2. TypeOK'
    <2>1. received' \in 0 .. sent' /\ sent' \in 0 .. FrameStart[NumFrames]
        <3>1. FrameStart[NumFrames] \in Nat
            BY SizesAssumption, StreamAssumption
        <3>2. sent \in Nat /\ received \in 0 .. sent
            BY <3>1 DEF IInv, TypeOK
        <3>3. QED
            BY <3>1, <3>2
    <2>2. QED
        BY <2>1 DEF IInv, TypeOK
<1>3. Control' /\ SpareRoom'
    BY DEF IInv, Control, SpareRoom
<1>4. state' = state
    OBVIOUS
<1>5. Framed' /\ ExecutedInOrder' /\ WriteBounds' /\ ReplyStream' /\ Outgoing'
    BY <1>4, BuffersUnchanged
<1>6. QED
    BY <1>2, <1>3, <1>5 DEF IInv
------------------------------------------------------------------------------
(* The theorems.                                                           *)

LEMMA NextIInv == IInv /\ [Next]_vars => IInv'
<1> SUFFICES ASSUME IInv, [Next]_vars PROVE IInv'
    OBVIOUS
<1>1. CASE IoRequest \/ IoResponse \/ Destroy
    BY <1>1, IoStep
<1>2. CASE tryFillBuffer
    BY <1>2, FillReadStep, FillQuietStep DEF tryFillBuffer
<1>3. CASE tryOneRequest
    BY <1>3, ParseQuietStep, ParseExecuteStep DEF tryOneRequest
<1>4. CASE tryFlushBuffer
    BY <1>4, FlushWriteStep, FlushQuietStep DEF tryFlushBuffer
<1>5. CASE Client
    BY <1>5, ClientStep
<1>6. CASE UNCHANGED vars
    <2> USE <1>6 DEF vars
    <2>1. TypeOK' /\ Control' /\ SpareRoom'
        BY DEF IInv, TypeOK, Control, SpareRoom
    <2>2. state' \in {state, "END"}
        OBVIOUS
    <2>3. Framed' /\ ExecutedInOrder' /\ WriteBounds' /\ ReplyStream' /\ Outgoing'
        BY <2>2, BuffersUnchanged
    <2>4. QED
        BY <2>1, <2>3 DEF IInv
<1>7. QED
    BY <1>1, <1>2, <1>3, <1>4, <1>5, <1>6 DEF Next

\* The inductive invariant holds of every reachable state.
THEOREM Invariance == Spec => []IInv
<1>1. Init => IInv
    BY InitIInv
<1>2. IInv /\ [Next]_vars => IInv'
    BY NextIInv
<1>3. QED
    BY <1>1, <1>2, PTL DEF Spec

\* Every variable of a connection keeps its type; the sizes of the two
\* buffers of conn.cxx stay inside what they reserve.
THEOREM TypeCorrect == Spec => []TypeOK
<1>1. IInv => TypeOK
    BY DEF IInv
<1>2. QED
    BY <1>1, Invariance, PTL

\* conn.cxx never loses its place in the stream, however the bytes of the
\* frames were cut into reads.
THEOREM StreamFramed == Spec => []Framed
<1>1. IInv => Framed
    BY DEF IInv
<1>2. QED
    BY <1>1, Invariance, PTL

\* The assertion of tryFillBuffer on the space left in the read buffer.
THEOREM RoomToRead == Spec => []ReadRoom
<1>1. IInv => ReadRoom
    BY DEF IInv, Control, SpareRoom, ReadRoom
<1>2. QED
    BY <1>1, Invariance, PTL

\* The assertion of tryFlushBuffer on the bytes left to send, and the bounds
\* of what tryOneRequest copies into the write buffer.
THEOREM RoomToWrite == Spec => []WriteBounds
<1>1. IInv => WriteBounds
    BY DEF IInv
<1>2. QED
    BY <1>1, Invariance, PTL

\* tryOneRequest runs the commands in the order of the stream, none twice.
THEOREM CommandsInOrder == Spec => []ExecutedInOrder
<1>1. IInv => ExecutedInOrder
    BY DEF IInv
<1>2. QED
    BY <1>1, Invariance, PTL

\* Partial writes neither lose, repeat nor interleave bytes of the replies.
THEOREM RepliesWhole == Spec => []ReplyStream
<1>1. IInv => ReplyStream
    BY DEF IInv
<1>2. QED
    BY <1>1, Invariance, PTL
------------------------------------------------------------------------------
(* The connection implements a session.                                    *)

\* What is on the wire, in each state, in terms of whole replies.
LEMMA AnsweredCounts ==
    ASSUME IInv
    PROVE  /\ NothingOwed
           /\ Answered \in Nat
           /\ Len(executed) \in 0 .. NumFrames
<1>1. Len(executed) \in 0 .. NumFrames
    BY ExecutedCount DEF IInv
<1>2. wire # <<>> <=> Len(wire) > 0
    <2>1. wire \in Seq(Frames \X Nat)
        BY DEF IInv, TypeOK
    <2>2. QED
        BY <2>1, EmptySeq
<1>3. ASSUME NEW n \in 0 .. NumFrames, WireEnds(n) PROVE Answered = n
    BY <1>2, <1>3 DEF WireEnds, Answered
<1>4. CASE state = "REQ"
    BY <1>1, <1>3, <1>4 DEF NothingOwed, IInv, Outgoing
<1>5. CASE state = "RES"
    <2> DEFINE k == Len(executed)
    <2>1. k \in Frames /\ k - 1 \in 0 .. NumFrames
        BY <1>1, <1>5, SizesAssumption DEF IInv, Outgoing
    <2>2. CASE writeBufferSent = 0
        <3>1. WireEnds(k - 1)
            BY <1>5, <2>2 DEF IInv, Outgoing
        <3>2. QED
            BY <1>1, <1>3, <1>5, <2>1, <3>1 DEF NothingOwed
    <2>3. CASE writeBufferSent # 0
        <3>1. /\ Len(wire) > 0 /\ wire[Len(wire)] = <<k, writeBufferSent>>
              /\ writeBufferSent < HeaderSize + ReplySize(k)
            BY <1>5, <2>3 DEF IInv, Outgoing
        <3>2. writeBufferSent \in Nat /\ HeaderSize + ReplySize(k) \in Nat
            <4>1. writeBufferSent \in Nat
                BY DEF IInv, TypeOK
            <4>2. ReplySize(k) \in Nat
                BY <2>1, ReplySizes
            <4>3. QED
                BY <4>1, <4>2, SizesAssumption
        <3>3. Answered = k - 1
            BY <1>2, <3>1, <3>2 DEF Answered
        <3>4. QED
            BY <1>1, <1>5, <2>1, <3>3 DEF NothingOwed
    <2>4. QED
        BY <2>2, <2>3
<1>6. CASE state = "END"
    <2>1. CASE wire = <<>>
        BY <1>1, <1>6, <2>1 DEF NothingOwed, Answered
    <2>2. CASE wire # <<>>
        <3>1. wire \in Seq(Frames \X Nat) /\ Len(wire) \in 1 .. Len(wire)
            BY <1>2, <2>2 DEF IInv, TypeOK
        <3>2. wire[Len(wire)] \in Frames \X Nat
            BY <3>1, ElementOfSeq
        <3>3. Answered \in Nat
            BY <2>2, <3>2 DEF Answered
        <3>4. QED
            BY <1>1, <1>6, <3>3 DEF NothingOwed
    <2>3. QED
        BY <2>1, <2>2
<1>7. QED
    BY <1>4, <1>5, <1>6 DEF IInv, TypeOK

\* A connection back in state REQ has put every reply on the wire, one in RES
\* all but the last: no reply is forgotten between tryFlushBuffer's returns.
THEOREM RepliesOwed == Spec => []NothingOwed
<1>1. IInv => NothingOwed
    BY AnsweredCounts
<1>2. QED
    BY <1>1, Invariance, PTL

LEMMA AnsweredUnchanged == UNCHANGED wire => UNCHANGED Answered
    BY DEF Answered, ReplySize

\* Each step of the handlers is a step of the session, or none.
LEMMA StepSimulation ==
    ASSUME IInv, IInv', [Next]_vars
    PROVE  [Abstract!Next]_(Abstract!vars)
<1> USE DEF Abstract!vars, Abstract!Next
<1>1. /\ NothingOwed /\ Answered \in Nat /\ Len(executed) \in 0 .. NumFrames
      /\ NothingOwed' /\ Len(executed)' \in 0 .. NumFrames
    <2>1. NothingOwed' /\ (Len(executed) \in 0 .. NumFrames)'
        BY AnsweredCounts, PTL
    <2>2. QED
        BY <2>1, AnsweredCounts
<1>2. CASE UNCHANGED <<state, executed, wire>>
    BY <1>2, AnsweredUnchanged
<1>3. CASE state # "END" /\ state' = "END" /\ UNCHANGED <<executed, wire>>
    BY <1>3, AnsweredUnchanged DEF Abstract!Finish
<1>4. CASE ParseExecute
    <2>1. state = "REQ" /\ state' = "RES" /\ UNCHANGED wire
        BY <1>4 DEF ParseExecute, IInv, Control, sockets
    <2>2. PICK k \in Frames : executed' = Append(executed, k)
        <3>1. MayParse \subseteq Frames
            BY StreamAssumption
        <3>2. QED
            BY <1>4, <3>1 DEF ParseExecute
    <2>3. Len(executed') = Len(executed) + 1
        BY <2>2, AppendProperties DEF IInv, TypeOK
    <2>4. Answered = Len(executed) /\ Answered' = Answered
        BY <1>1, <2>1, AnsweredUnchanged DEF NothingOwed
    <2>5. Len(executed) < NumFrames
        <3>1. Len(executed) \in Nat /\ Len(executed') \in 0 .. NumFrames
            BY <1>1
        <3>2. Len(executed) + 1 <= NumFrames
            BY <2>3, <3>1
        <3>3. QED
            BY <3>1, <3>2, SizesAssumption
    <2>6. QED
        BY <2>1, <2>3, <2>4, <2>5 DEF Abstract!Execute
<1>5. CASE FlushWrite
    <2>1. state = "RES" /\ UNCHANGED executed /\ state' \in {"REQ", "RES"}
        BY <1>5 DEF FlushWrite, IInv, Control
    <2>2. Answered = Len(executed) - 1
        BY <1>1, <2>1 DEF NothingOwed
    <2>3. CASE state' = "REQ"
        <3>1. Answered' = Len(executed)
            BY <1>1, <2>1, <2>3 DEF NothingOwed
        <3>2. Answered' = Answered + 1 /\ Answered < Len(executed)
            BY <1>1, <2>2, <3>1
        <3>3. QED
            BY <2>1, <2>3, <3>2 DEF Abstract!Answer
    <2>4. CASE state' = "RES"
        <3>1. Answered' = Answered
            BY <1>1, <2>1, <2>2, <2>4 DEF NothingOwed
        <3>2. QED
            BY <2>1, <2>4, <3>1
    <2>5. QED
        BY <2>1, <2>3, <2>4
<1>6. CASE IoRequest \/ IoResponse \/ Destroy \/ FillRead \/ FillAgain
           \/ ParseShort \/ FlushAgain
    BY <1>2, <1>6 DEF IoRequest, IoResponse, Destroy, FillRead, FillAgain,
                      ParseShort, FlushAgain, sockets
<1>7. CASE FillEnd \/ ParseTooLong \/ ParseBad \/ FlushError
    BY <1>3, <1>7 DEF FillEnd, ParseTooLong, ParseBad, FlushError, sockets,
                      IInv, Control
<1>8. CASE Client
    BY <1>2, <1>8 DEF Client, ClientSend, ClientTake, ClientLeave, conn
<1>9. CASE UNCHANGED vars
    BY <1>2, <1>9 DEF vars
<1>10. QED
    BY <1>4, <1>5, <1>6, <1>7, <1>8, <1>9
       DEF Next, tryFillBuffer, tryOneRequest, tryFlushBuffer

\* io() and its helpers implement a session that answers one request at a
\* time, in order and in full.
THEOREM ConnectionIsSession == Spec => ImplementsSession
<1>1. Init => Abstract!Init
    BY DEF Init, Abstract!Init, Answered
<1>2. IInv /\ IInv' /\ [Next]_vars => [Abstract!Next]_(Abstract!vars)
    BY StepSimulation
<1>3. QED
    BY <1>1, <1>2, Invariance, PTL DEF Spec, ImplementsSession, Abstract!Spec
==============================================================================
