----------------------------- MODULE IpcProofs -----------------------------
(***************************************************************************)
(* Proofs about Ipc, for headers, payloads, buffers and numbers of packets *)
(* of any size.                                                            *)
(*                                                                         *)
(* The argument: the packets lie in the stream one after the other         *)
(* (LaidOut); the writer is in the last of them, as far along as           *)
(* bytes_written says (WriterPlaced); the reader is in the first one it    *)
(* has not returned, as far along as bytes_read says (ReaderPlaced).  So   *)
(* the header the reader completes is a packet's, and the payload after it *)
(* that packet's payload.                                                  *)
(***************************************************************************)
EXTENDS Ipc, SequenceTheorems, TLAPS

\* The position after the k-th packet.
EndOf(k) == IF k = 0 THEN 0 ELSE packets[k].base + HeaderSize + packets[k].size

LaidOut ==
  /\ \A k \in 1 .. Len(packets) : packets[k].base = EndOf(k - 1)
  /\ \A j, k \in 1 .. Len(packets) : j < k => EndOf(j) <= packets[k].base

WriterPlaced ==
  /\ writing = "header" => written = Current.base + done
  /\ writing = "payload" => written = Current.base + HeaderSize + done
  /\ writing \in {"header", "payload"} => accepted = Len(packets) - 1
  /\ writing = "idle" /\ wfd = "open" =>
       written = EndOf(Len(packets)) /\ accepted = Len(packets)
  /\ written <= EndOf(Len(packets))
  /\ EndOf(accepted) <= written

ReaderPlaced ==
  /\ reading \in {"header", "payload"} => rfd = "open"
  /\ reading = "header" => consumed = EndOf(Len(received)) + got
  /\ reading = "payload" =>
       /\ Len(received) < Len(packets)
       /\ header.type = packets[Len(received) + 1].type
       /\ header.size = packets[Len(received) + 1].size
       /\ consumed = EndOf(Len(received)) + HeaderSize + got
  /\ reading = "idle" /\ rfd = "open" => consumed = EndOf(Len(received))

StreamInv ==
  TypeOK /\ LaidOut /\ WriterPlaced /\ ReaderPlaced /\ PacketsArriveWhole /\ InvalidMeansEnd

------------------------------------------------------------------------------
(***************************************************************************)
(* Packets and headers, as the provers need them.                          *)
(***************************************************************************)
PacketRecords == [type : Types, size : Sizes, base : Nat]

LEMMA SizesAreNumbers == Sizes \subseteq Nat /\ HeaderSize \in Nat /\ HeaderSize > 0
BY IpcAssumption DEF Sizes

LEMMA PacketsTyped ==
  ASSUME TypeOK
  PROVE  /\ packets \in Seq(PacketRecords) /\ Len(packets) \in Nat
         /\ \A k \in 1 .. Len(packets) :
              /\ packets[k] \in PacketRecords
              /\ packets[k].type \in Types
              /\ packets[k].size \in Nat /\ packets[k].size \in Sizes
              /\ packets[k].base \in Nat
<1>1. packets \in Seq(PacketRecords)  BY DEF TypeOK, PacketRecords
<1>2. Len(packets) \in Nat  BY <1>1, LenProperties
<1>3. \A k \in 1 .. Len(packets) : packets[k] \in PacketRecords  BY <1>1, ElementOfSeq
<1> QED  BY <1>1, <1>2, <1>3, SizesAreNumbers DEF PacketRecords

LEMMA EndOfIsNumber ==
  ASSUME TypeOK, NEW k \in 0 .. Len(packets) PROVE EndOf(k) \in Nat
<1>1. CASE k = 0  BY <1>1 DEF EndOf
<1>2. CASE k # 0
  <2>1. k \in 1 .. Len(packets)  BY <1>2, PacketsTyped
  <2>2. packets[k].base \in Nat /\ packets[k].size \in Nat  BY <2>1, PacketsTyped
  <2> QED  BY <1>2, <2>2, SizesAreNumbers DEF EndOf
<1> QED  BY <1>1, <1>2

\* A later packet ends later.
LEMMA EndOfMonotone ==
  ASSUME TypeOK, LaidOut, NEW j \in 0 .. Len(packets), NEW k \in 0 .. Len(packets), j <= k
  PROVE  EndOf(j) <= EndOf(k)
<1>1. EndOf(j) \in Nat /\ EndOf(k) \in Nat  BY EndOfIsNumber
<1>2. CASE j = k  BY <1>1, <1>2
<1>3. CASE j = 0  BY <1>1, <1>3 DEF EndOf
<1>4. CASE j # 0 /\ j < k
  <2>1. j \in 1 .. Len(packets) /\ k \in 1 .. Len(packets) /\ k # 0  BY <1>4, PacketsTyped
  <2>2. packets[k].base \in Nat /\ packets[k].size \in Nat  BY <2>1, PacketsTyped
  <2>3. EndOf(j) <= packets[k].base  BY <1>4, <2>1 DEF LaidOut
  <2>4. EndOf(k) = packets[k].base + HeaderSize + packets[k].size  BY <2>1 DEF EndOf
  <2> QED  BY <1>1, <2>2, <2>3, <2>4, SizesAreNumbers
<1> QED  BY <1>2, <1>3, <1>4

\* A packet begins where the one before it ends, and a header and its payload lie
\* between its ends.
LEMMA EndOfNext ==
  ASSUME TypeOK, LaidOut, NEW k \in 0 .. Len(packets), k < Len(packets)
  PROVE  /\ packets[k + 1].base = EndOf(k)
         /\ packets[k + 1].size \in Nat
         /\ EndOf(k + 1) = EndOf(k) + HeaderSize + packets[k + 1].size
<1>1. k + 1 \in 1 .. Len(packets) /\ k + 1 # 0 /\ (k + 1) - 1 = k  BY PacketsTyped
<1>3. packets[k + 1].size \in Nat  BY <1>1, PacketsTyped
<1>4. packets[k + 1].base = EndOf(k)  BY <1>1 DEF LaidOut
<1>5. EndOf(k + 1) = packets[k + 1].base + HeaderSize + packets[k + 1].size
  BY <1>1 DEF EndOf
<1> QED  BY <1>3, <1>4, <1>5

\* At the end of a packet there is the header of the next one, and no other.
LEMMA HeaderAfterPacket ==
  ASSUME TypeOK, LaidOut, NEW k \in 0 .. Len(packets), k < Len(packets)
  PROVE  HeadersAt(EndOf(k)) = {[type |-> packets[k + 1].type, size |-> packets[k + 1].size]}
<1>1. k + 1 \in 1 .. Len(packets) /\ Len(packets) \in Nat  BY PacketsTyped
<1>2. packets[k + 1].base = EndOf(k)  BY EndOfNext
<1>3. \A i \in 1 .. Len(packets) : packets[i].base = EndOf(k) => i = k + 1
  <2> SUFFICES ASSUME NEW i \in 1 .. Len(packets), packets[i].base = EndOf(k), i # k + 1
               PROVE  FALSE
    OBVIOUS
  <2>2. /\ packets[i].base \in Nat /\ packets[i].size \in Nat
        /\ packets[k + 1].base \in Nat /\ packets[k + 1].size \in Nat
    BY <1>1, PacketsTyped
  <2>3. CASE i < k + 1
    <3>1. EndOf(i) <= packets[k + 1].base  BY <1>1, <2>3 DEF LaidOut
    <3>2. EndOf(i) = packets[i].base + HeaderSize + packets[i].size  BY DEF EndOf
    <3> QED  BY <1>2, <2>2, <3>1, <3>2, SizesAreNumbers
  <2>4. CASE k + 1 < i
    <3>1. EndOf(k + 1) <= packets[i].base  BY <1>1, <2>4 DEF LaidOut
    <3>2. EndOf(k + 1) = packets[k + 1].base + HeaderSize + packets[k + 1].size
      BY <1>1 DEF EndOf
    <3> QED  BY <1>2, <2>2, <3>1, <3>2, SizesAreNumbers
  <2> QED  BY <1>1, <2>3, <2>4
<1> QED  BY <1>1, <1>2, <1>3 DEF HeadersAt

------------------------------------------------------------------------------
(***************************************************************************)
(* The invariant holds in every state.                                     *)
(***************************************************************************)
LEMMA StreamInit == Init => StreamInv
<1> SUFFICES ASSUME Init PROVE StreamInv  OBVIOUS
<1>1. packets = <<>> /\ received = <<>> /\ Len(packets) = 0 /\ Len(received) = 0
  BY DEF Init
<1>2. TypeOK
  <2>1. /\ <<>> \in Seq([type : Types, size : Sizes, base : Nat])
        /\ <<>> \in Seq([type : Types, from : Nat, to : Nat])
    BY EmptySeq
  <2>2. packets \in Seq([type : Types, size : Sizes, base : Nat])  BY <1>1, <2>1
  <2>3. received \in Seq([type : Types, from : Nat, to : Nat])  BY <1>1, <2>1
  <2>4. accepted \in Nat /\ accepted <= Len(packets)  BY <1>1 DEF Init
  <2>5. consumed <= written /\ written <= consumed + Capacity
    BY IpcAssumption DEF Init
  <2> QED  BY <2>2, <2>3, <2>4, <2>5 DEF Init, TypeOK
<1>3. LaidOut /\ PacketsArriveWhole /\ InvalidMeansEnd
  BY <1>1 DEF LaidOut, PacketsArriveWhole, InvalidMeansEnd, Init
<1>4. EndOf(0) = 0  BY DEF EndOf
<1>5. WriterPlaced /\ ReaderPlaced  BY <1>1, <1>4 DEF Init, WriterPlaced, ReaderPlaced
<1> QED  BY <1>2, <1>3, <1>5 DEF StreamInv

\* As long as the packets stay the same, so does everything said about them.
LEMMA SamePackets ==
  ASSUME UNCHANGED packets
  PROVE  /\ \A k : EndOf(k)' = EndOf(k)
         /\ \A k : Written(k)' = Written(k)
         /\ LaidOut' <=> LaidOut
BY DEF EndOf, Written, Packet, LaidOut

LEMMA WriteMessageStep ==
  ASSUME StreamInv, NEW type \in Types, NEW size \in Sizes, WriteMessage(type, size)
  PROVE  StreamInv'
<1> DEFINE new == [type |-> type, size |-> size, base |-> written]
<1> USE DEF StreamInv
<1>0. PICK n \in Nat : n = Len(packets)  BY PacketsTyped
<1>1. new \in PacketRecords  BY DEF TypeOK, PacketRecords
<1>2. packets' = Append(packets, new)  BY DEF WriteMessage
<1>3. /\ packets' \in Seq(PacketRecords)
      /\ Len(packets') = n + 1
      /\ \A k \in 1 .. n : packets'[k] = packets[k]
      /\ packets'[n + 1] = new
  BY <1>0, <1>1, <1>2, PacketsTyped, AppendProperties
<1> HIDE DEF new
<1>4. \A k \in 0 .. n : EndOf(k)' = EndOf(k)  BY <1>3 DEF EndOf
<1>5. EndOf(n + 1)' = written + HeaderSize + size  BY <1>3 DEF EndOf, new
<1>6. written = EndOf(n) /\ accepted = n  BY <1>0 DEF WriterPlaced, WriteMessage
<1>7. size \in Nat /\ written \in Nat  BY SizesAreNumbers DEF TypeOK
<1>8. TypeOK'
  <2>1. accepted' <= Len(packets') /\ packets' # <<>>
    BY <1>3, <1>6, <1>7 DEF WriteMessage
  <2>2. done' < WriteCount'  BY SizesAreNumbers DEF WriteMessage, WriteCount
  <2>3. packets' \in Seq([type : Types, size : Sizes, base : Nat])
    BY <1>3 DEF PacketRecords
  <2>4. ReadCount' = ReadCount  BY DEF WriteMessage, readerVars, ReadCount
  <2> QED  BY <2>1, <2>2, <2>3, <2>4 DEF TypeOK, WriteMessage, readerVars
<1>9. LaidOut'
  <2>1. ASSUME NEW k \in 1 .. n + 1 PROVE packets'[k].base = EndOf(k - 1)'
    <3>1. CASE k = n + 1  BY <1>3, <1>4, <1>6, <1>7, <3>1 DEF new
    <3>2. CASE k \in 1 .. n
      <4>1. packets[k].base = EndOf(k - 1)  BY <1>0, <3>2 DEF LaidOut
      <4> QED  BY <1>3, <1>4, <3>2, <4>1
    <3> QED  BY <1>7, <3>1, <3>2
  <2>2. ASSUME NEW j \in 1 .. n + 1, NEW k \in 1 .. n + 1, j < k
        PROVE  EndOf(j)' <= packets'[k].base
    <3>1. j \in 1 .. n  BY <1>7, <2>2
    <3>2. CASE k = n + 1
      <4>1. EndOf(j) <= EndOf(n)  BY <1>0, <3>1, EndOfMonotone
      <4> QED  BY <1>3, <1>4, <1>6, <3>1, <3>2, <4>1 DEF new
    <3>3. CASE k \in 1 .. n
      <4>1. EndOf(j) <= packets[k].base  BY <1>0, <2>2, <3>1, <3>3 DEF LaidOut
      <4> QED  BY <1>3, <1>4, <3>1, <3>3, <4>1
    <3> QED  BY <1>7, <3>2, <3>3
  <2> QED  BY <1>3, <2>1, <2>2 DEF LaidOut
<1>10. WriterPlaced'
  <2>1. writing' = "header" /\ done' = 0 /\ written' = written /\ accepted' = accepted
    BY DEF WriteMessage
  <2>2. Current'.base = written  BY <1>3 DEF Current, new
  <2>3. EndOf(n)' = written /\ written <= EndOf(n + 1)'
    BY <1>4, <1>5, <1>6, <1>7, SizesAreNumbers
  <2> QED  BY <1>3, <1>6, <1>7, <2>1, <2>2, <2>3 DEF WriterPlaced
<1>11. ReaderPlaced' /\ PacketsArriveWhole'
  <2>1. UNCHANGED <<reading, got, header, received, rfd, consumed>>
    BY DEF WriteMessage, readerVars
  <2>2. Len(received) \in Nat /\ Len(received) <= n  BY <1>0 DEF TypeOK, PacketsArriveWhole
  <2>3. EndOf(Len(received))' = EndOf(Len(received))  BY <1>4, <1>7, <2>1, <2>2
  <2>4. Len(received) < n => packets'[Len(received) + 1] = packets[Len(received) + 1]
    BY <1>3, <1>7, <2>2
  <2>5. ReaderPlaced'  BY <1>0, <1>3, <1>7, <2>1, <2>2, <2>3, <2>4 DEF ReaderPlaced
  <2>6. \A k \in 1 .. Len(received) : Written(k)' = Written(k)
    BY <1>3, <1>7, <2>2 DEF Written
  <2> QED  BY <1>3, <1>7, <2>1, <2>2, <2>5, <2>6 DEF PacketsArriveWhole
<1>12. InvalidMeansEnd'  BY DEF WriteMessage, readerVars, InvalidMeansEnd
<1> QED  BY <1>8, <1>9, <1>10, <1>11, <1>12

\* Facts about an end that is at work on an object.
LEMMA WriterAtWork ==
  ASSUME StreamInv, writing \in {"header", "payload"}
  PROVE  /\ Len(packets) \in Nat \ {0} /\ accepted + 1 = Len(packets)
         /\ Current.size \in Nat /\ Current.base \in Nat
         /\ EndOf(Len(packets)) = Current.base + HeaderSize + Current.size
         /\ WriteCount \in Nat /\ done \in Nat /\ done < WriteCount
         /\ writing = "header" => written = Current.base + done
         /\ writing = "payload" => written = Current.base + HeaderSize + done
         /\ written \in Nat /\ accepted \in Nat
<1> USE DEF StreamInv
<1>1. Len(packets) \in Nat \ {0}  BY PacketsTyped, EmptySeq DEF TypeOK
<1>2. Current.size \in Nat /\ Current.base \in Nat  BY <1>1, PacketsTyped DEF Current
<1>3. EndOf(Len(packets)) = Current.base + HeaderSize + Current.size
  BY <1>1 DEF EndOf, Current
<1>4. WriteCount \in Nat  BY <1>2, SizesAreNumbers DEF WriteCount
<1>5. done \in Nat /\ written \in Nat /\ accepted \in Nat /\ done < WriteCount
  BY DEF TypeOK
<1>6. accepted + 1 = Len(packets)  BY <1>1, <1>5 DEF WriterPlaced
<1> QED  BY <1>1, <1>2, <1>3, <1>4, <1>5, <1>6 DEF WriterPlaced

LEMMA WriteStep ==
  ASSUME StreamInv, NEW n \in Chunks, Write(n)
  PROVE  StreamInv'
<1> USE DEF StreamInv
<1>1. n \in Nat /\ n > 0  BY IpcAssumption DEF Chunks
<1>2. UNCHANGED packets  BY DEF Write
<1>3. UNCHANGED <<reading, got, header, received, ended, rfd, consumed, sigpipe, wfd>>
  BY DEF Write, readerVars
<1>4. writing \in {"header", "payload"} /\ rfd = "open" /\ n <= WriteCount - done
  BY DEF Write
<1>5. written' = written + n /\ written + n <= consumed + Capacity  BY DEF Write
<1>6. UNCHANGED Current /\ UNCHANGED ReadCount
  BY <1>2, <1>3 DEF Current, ReadCount
<1>7. \/ /\ writing' = writing /\ done' = done + n /\ accepted' = accepted
         /\ done + n < WriteCount
      \/ /\ writing = "header" /\ writing' = "payload" /\ done' = 0 /\ accepted' = accepted
         /\ done + n = WriteCount /\ Current.size > 0
      \/ /\ writing' = "idle" /\ done' = 0 /\ accepted' = accepted + 1
         /\ done + n = WriteCount
         /\ writing = "payload" \/ Current.size = 0
  BY DEF Write
<1>8. WriterPlaced' /\ done' \in Nat /\ (writing' \in {"header", "payload"} => done' < WriteCount')
  <2>1. \A k : EndOf(k)' = EndOf(k)  BY <1>2, SamePackets
  <2>2. EndOf(Len(packets))' = EndOf(Len(packets))  BY <1>2, <2>1
  <2>3. accepted + 1 \in Nat /\ accepted + 1 = Len(packets) /\ Len(packets) \in Nat
    BY <1>4, WriterAtWork
  <2>4. EndOf(accepted) <= written /\ written \in Nat /\ EndOf(accepted) \in Nat
    BY <2>3, EndOfIsNumber DEF WriterPlaced, TypeOK
  <2>5. CASE writing' = writing /\ done' = done + n /\ accepted' = accepted /\ done + n < WriteCount
    <3>1. WriteCount' = WriteCount  BY <1>6, <2>5 DEF WriteCount
    <3>2. EndOf(accepted)' = EndOf(accepted)  BY <1>2, <2>5 DEF EndOf
    <3>3. written + n <= EndOf(Len(packets))
      BY <1>1, <1>4, <2>5, WriterAtWork, SizesAreNumbers DEF WriteCount
    <3>4. /\ writing = "header" => written + n = Current.base + (done + n)
          /\ writing = "payload" => written + n = Current.base + HeaderSize + (done + n)
      BY <1>1, <1>4, WriterAtWork, SizesAreNumbers
    <3>5. done + n \in Nat  BY <1>1, <1>4, WriterAtWork
    <3> QED
      BY <1>1, <1>2, <1>4, <1>5, <1>6, <2>2, <2>3, <2>4, <2>5, <3>1, <3>2, <3>3, <3>4, <3>5
      DEF WriterPlaced
  <2>6. CASE /\ writing = "header" /\ writing' = "payload" /\ done' = 0 /\ accepted' = accepted
             /\ done + n = WriteCount /\ Current.size > 0
    <3>1. WriteCount' = Current.size  BY <1>6, <2>6 DEF WriteCount
    <3>2. EndOf(accepted)' = EndOf(accepted)  BY <1>2, <2>6 DEF EndOf
    <3>3. written + n = Current.base + HeaderSize
      BY <1>1, <1>4, <2>6, WriterAtWork, SizesAreNumbers DEF WriteCount
    <3>4. written + n <= EndOf(Len(packets))
      BY <1>4, <3>3, WriterAtWork, SizesAreNumbers
    <3> QED
      BY <1>1, <1>2, <1>4, <1>5, <1>6, <2>2, <2>3, <2>4, <2>6, <3>1, <3>2, <3>3, <3>4,
         WriterAtWork, SizesAreNumbers
      DEF WriterPlaced
  <2>7. CASE /\ writing' = "idle" /\ done' = 0 /\ accepted' = accepted + 1
             /\ done + n = WriteCount
             /\ writing = "payload" \/ Current.size = 0
    <3>1. written + n = EndOf(Len(packets))
      BY <1>1, <1>4, <2>7, WriterAtWork, SizesAreNumbers DEF WriteCount
    <3>2. EndOf(accepted)' = EndOf(Len(packets))  BY <1>2, <2>3, <2>7 DEF EndOf
    <3>3. EndOf(Len(packets)) \in Nat  BY <2>3, EndOfIsNumber
    <3> QED  BY <1>2, <1>5, <2>2, <2>3, <2>7, <3>1, <3>2, <3>3 DEF WriterPlaced
  <2> QED  BY <1>7, <2>5, <2>6, <2>7
<1>9. TypeOK'
  <2>1. accepted' \in Nat /\ accepted' <= Len(packets)  BY <1>4, <1>7, WriterAtWork
  <2>2. writing' \in {"header", "payload", "idle"} /\ packets # <<>>
    BY <1>4, <1>7 DEF TypeOK
  <2>3. written' \in Nat /\ consumed <= written' /\ written' <= consumed + Capacity
    BY <1>1, <1>5 DEF TypeOK
  <2> QED  BY <1>2, <1>3, <1>6, <1>8, <2>1, <2>2, <2>3 DEF TypeOK
<1>10. LaidOut'  BY <1>2, SamePackets
<1>11. ReaderPlaced' /\ PacketsArriveWhole'
  BY <1>2, <1>3 DEF ReaderPlaced, PacketsArriveWhole, EndOf, Written, Packet
<1>12. InvalidMeansEnd'  BY <1>3, <1>4 DEF InvalidMeansEnd
<1> QED  BY <1>8, <1>9, <1>10, <1>11, <1>12

\* The writer stops: nothing moves any more at its end.
LEMMA WriterStopsStep ==
  ASSUME StreamInv, WriteBroken \/ WriteThrows \/ WriterLeaves
  PROVE  StreamInv'
<1> USE DEF StreamInv
<1>1. UNCHANGED <<packets, accepted, sigpipe, written, consumed>>
  BY DEF WriteBroken, WriteThrows, WriterLeaves
<1>2. UNCHANGED <<reading, got, header, received, ended, rfd>>
  BY DEF WriteBroken, WriteThrows, WriterLeaves, readerVars
<1>3. writing' \in {"idle", "thrown", "killed", "gone"} /\ wfd' = "closed" /\ done' \in Nat
  BY DEF WriteBroken, WriteThrows, WriterLeaves, TypeOK
<1>4. TypeOK'  BY <1>1, <1>2, <1>3 DEF TypeOK, ReadCount
<1>5. LaidOut'  BY <1>1, SamePackets
<1>6. WriterPlaced'  BY <1>1, <1>3 DEF WriterPlaced, EndOf
<1>7. ReaderPlaced' /\ PacketsArriveWhole' /\ InvalidMeansEnd'
  BY <1>1, <1>2 DEF ReaderPlaced, PacketsArriveWhole, InvalidMeansEnd, EndOf, Written, Packet
<1> QED  BY <1>4, <1>5, <1>6, <1>7

\* What a step of the reader leaves alone.
LEMMA WriterUntouched ==
  ASSUME StreamInv, UNCHANGED <<writerVars, written>>
  PROVE  /\ LaidOut' /\ WriterPlaced'
         /\ \A k : EndOf(k)' = EndOf(k) /\ Written(k)' = Written(k)
         /\ UNCHANGED <<WriteCount, packets, accepted, writing, done, sigpipe, wfd, written>>
<1>1. UNCHANGED <<packets, accepted, writing, done, sigpipe, wfd, written>>
  BY DEF writerVars
<1>2. WriterPlaced'  BY <1>1 DEF StreamInv, WriterPlaced, EndOf, Current
<1>3. UNCHANGED WriteCount  BY <1>1 DEF WriteCount, Current
<1> QED  BY <1>1, <1>2, <1>3, SamePackets DEF StreamInv

\* The reader is not ahead of the writer's last packet.
LEMMA ReaderBehind ==
  ASSUME StreamInv
  PROVE  /\ Len(received) \in Nat /\ Len(packets) \in Nat
         /\ Len(received) <= Len(packets)
         /\ EndOf(Len(received)) \in Nat
         /\ Len(received) < Len(packets) \/ written <= EndOf(Len(received))
<1> USE DEF StreamInv
<1>1. Len(packets) \in Nat  BY PacketsTyped
<1>2. Len(received) \in Nat /\ Len(received) <= Len(packets)
  BY LenProperties DEF TypeOK, PacketsArriveWhole
<1>3. EndOf(Len(received)) \in Nat  BY <1>1, <1>2, EndOfIsNumber
<1>4. Len(received) < Len(packets) \/ Len(received) = Len(packets)  BY <1>1, <1>2
<1> QED  BY <1>1, <1>2, <1>3, <1>4 DEF WriterPlaced

\* The reader begins with another message, or stops.
LEMMA ReaderMovesStep ==
  ASSUME StreamInv, ReadMessage \/ ReadThrows \/ ReaderLeaves
  PROVE  StreamInv'
<1> USE DEF StreamInv
<1>1. UNCHANGED <<writerVars, written, consumed, header, received, ended>>
  BY DEF ReadMessage, ReadThrows, ReaderLeaves
<1>2. LaidOut' /\ WriterPlaced' /\ \A k : EndOf(k)' = EndOf(k) /\ Written(k)' = Written(k)
  BY <1>1, WriterUntouched
<1>3. UNCHANGED <<WriteCount, packets, accepted, writing, done, sigpipe, wfd, written>>
  BY <1>1, WriterUntouched
<1>4. \/ reading' = "header" /\ got' = 0 /\ rfd' = "open" /\ reading = "idle" /\ rfd = "open"
      \/ reading' \in {"thrown", "gone"} /\ got' \in Nat /\ rfd' = "closed"
  BY DEF ReadMessage, ReadThrows, ReaderLeaves, TypeOK
<1>5. TypeOK'
  <2>1. reading' \in {"header", "payload"} => got' < ReadCount'
    BY <1>4, SizesAreNumbers DEF ReadCount
  <2> QED  BY <1>1, <1>3, <1>4, <2>1 DEF TypeOK
<1>6. ReaderPlaced'
  <2>1. consumed \in Nat  BY DEF TypeOK
  <2>2. EndOf(Len(received))' = EndOf(Len(received))  BY <1>1, <1>3 DEF EndOf
  <2> QED  BY <1>1, <1>4, <2>1, <2>2, ReaderBehind DEF ReaderPlaced
<1>7. PacketsArriveWhole'  BY <1>1, <1>2, <1>3 DEF PacketsArriveWhole
<1>8. InvalidMeansEnd'  BY <1>1, <1>3, <1>4 DEF InvalidMeansEnd
<1> QED  BY <1>2, <1>5, <1>6, <1>7, <1>8

LEMMA ReadPartStep ==
  ASSUME StreamInv, NEW n \in Chunks, ReadPart(n)
  PROVE  StreamInv'
<1> USE DEF StreamInv
<1>1. n \in Nat /\ n > 0  BY IpcAssumption DEF Chunks
<1>2. UNCHANGED <<writerVars, written, reading, header, received, ended, rfd>>
  BY DEF ReadPart
<1>3. LaidOut' /\ WriterPlaced' /\ \A k : EndOf(k)' = EndOf(k) /\ Written(k)' = Written(k)
  BY <1>2, WriterUntouched
<1>4. UNCHANGED <<WriteCount, packets, accepted, writing, done, sigpipe, wfd, written>>
  BY <1>2, WriterUntouched
<1>5. /\ reading \in {"header", "payload"}
      /\ consumed' = consumed + n /\ got' = got + n
      /\ n <= written - consumed /\ got + n < ReadCount
  BY DEF ReadPart
<1>6. consumed \in Nat /\ got \in Nat /\ written \in Nat  BY DEF TypeOK
<1>7. TypeOK'
  <2>1. UNCHANGED ReadCount  BY <1>2 DEF ReadCount
  <2>2. /\ consumed' \in Nat /\ got' \in Nat /\ consumed' <= written'
        /\ written' <= consumed' + Capacity
    BY <1>1, <1>2, <1>5, <1>6, IpcAssumption DEF TypeOK
  <2> QED  BY <1>2, <1>4, <1>5, <2>1, <2>2 DEF TypeOK
<1>8. ReaderPlaced'
  <2>1. EndOf(Len(received))' = EndOf(Len(received))  BY <1>2, <1>4 DEF EndOf
  <2> QED
    BY <1>1, <1>2, <1>4, <1>5, <1>6, <2>1, ReaderBehind, SizesAreNumbers DEF ReaderPlaced
<1>9. PacketsArriveWhole' /\ InvalidMeansEnd'
  BY <1>2, <1>3, <1>4 DEF PacketsArriveWhole, InvalidMeansEnd
<1> QED  BY <1>3, <1>7, <1>8, <1>9

\* read_message returns the packet the reader is in.
LEMMA ReturnStep ==
  ASSUME StreamInv, UNCHANGED <<writerVars, written, rfd>>, rfd = "open", header' \in Headers,
         NEW r \in Nat, r = Len(received), r < Len(packets), Return(Written(r + 1)),
         consumed' \in Nat, consumed' = EndOf(r + 1),
         consumed' <= written, written <= consumed' + Capacity
  PROVE  StreamInv'
<1> USE DEF StreamInv
<1>1. LaidOut' /\ WriterPlaced' /\ \A k : EndOf(k)' = EndOf(k) /\ Written(k)' = Written(k)
  BY WriterUntouched
<1>2. UNCHANGED <<WriteCount, packets, accepted, writing, done, sigpipe, wfd, written>>
  BY WriterUntouched
<1>3. /\ received' = Append(received, Written(r + 1))
      /\ reading' = "idle" /\ got' = 0 /\ ended' = ended
  BY DEF Return
<1>4. r + 1 \in 1 .. Len(packets) /\ Len(packets) \in Nat  BY PacketsTyped
<1>5. Written(r + 1) \in [type : Types, from : Nat, to : Nat]
  <2>1. /\ packets[r + 1].type \in Types
        /\ packets[r + 1].base \in Nat /\ packets[r + 1].size \in Nat
    BY <1>4, PacketsTyped
  <2> QED  BY <2>1, SizesAreNumbers DEF Written, Packet
<1>6. received \in Seq([type : Types, from : Nat, to : Nat])  BY DEF TypeOK
<1>7. /\ received' \in Seq([type : Types, from : Nat, to : Nat])
      /\ Len(received') = r + 1
      /\ \A k \in 1 .. r : received'[k] = received[k]
      /\ received'[r + 1] = Written(r + 1)
  BY <1>3, <1>5, <1>6, AppendProperties
<1>8. TypeOK'  BY <1>2, <1>3, <1>7 DEF TypeOK
<1>9. ReaderPlaced'
  <2>1. EndOf(Len(received))' = EndOf(r + 1)  BY <1>2, <1>7 DEF EndOf
  <2> QED  BY <1>3, <2>1 DEF ReaderPlaced
<1>10. PacketsArriveWhole'
  <2>1. \A k \in 1 .. r + 1 : received'[k] = Written(k)
    <3> SUFFICES ASSUME NEW k \in 1 .. r + 1 PROVE received'[k] = Written(k)  OBVIOUS
    <3>1. k \in 1 .. r \/ k = r + 1  OBVIOUS
    <3> QED  BY <1>7, <3>1 DEF PacketsArriveWhole
  <2> QED  BY <1>1, <1>2, <1>4, <1>7, <2>1 DEF PacketsArriveWhole
<1>11. InvalidMeansEnd'  BY <1>3 DEF InvalidMeansEnd
<1> QED  BY <1>1, <1>8, <1>9, <1>10, <1>11

\* The header the reader completes is the one of the packet it is in: the magic
\* string is always where read_message looks for it.
LEMMA HeaderFound ==
  ASSUME StreamInv, NEW n \in Chunks, ReadHeader(n),
         NEW r \in Nat, r = Len(received)
  PROVE  /\ r < Len(packets) /\ rfd = "open"
         /\ consumed' = EndOf(r) + HeaderSize
         /\ HeadersAt(consumed - got) =
              {[type |-> packets[r + 1].type, size |-> packets[r + 1].size]}
<1> USE DEF StreamInv
<1>1. n \in Nat /\ n > 0  BY IpcAssumption DEF Chunks
<1>2. /\ reading = "header" /\ n <= written - consumed /\ got + n = HeaderSize
      /\ consumed' = consumed + n
  BY DEF ReadHeader
<1>3. consumed \in Nat /\ got \in Nat /\ written \in Nat  BY DEF TypeOK
<1>4. rfd = "open" /\ consumed = EndOf(r) + got  BY <1>2 DEF ReaderPlaced
<1>5. EndOf(r) \in Nat /\ r \in 0 .. Len(packets)  BY ReaderBehind
<1>6. r < Len(packets)
  <2>1. written > EndOf(r)  BY <1>1, <1>2, <1>3, <1>4, <1>5
  <2> QED  BY <1>3, <1>5, <2>1, ReaderBehind
<1>7. consumed - got = EndOf(r) /\ consumed' = EndOf(r) + HeaderSize
  BY <1>1, <1>2, <1>3, <1>4, <1>5, SizesAreNumbers
<1> QED  BY <1>4, <1>5, <1>6, <1>7, HeaderAfterPacket

\* After it comes that packet's payload; without one the message is complete.
LEMMA HeaderCompleted ==
  ASSUME StreamInv, NEW n \in Chunks, ReadHeader(n),
         NEW r \in Nat, r = Len(received)
  PROVE  /\ header' \in Headers
         /\ header'.type = packets[r + 1].type /\ header'.size = packets[r + 1].size
         /\ \/ /\ packets[r + 1].size = 0 /\ consumed' = EndOf(r + 1)
               /\ Return(Written(r + 1))
            \/ /\ packets[r + 1].size > 0
               /\ reading' = "payload" /\ got' = 0 /\ UNCHANGED <<received, ended>>
<1> USE DEF StreamInv
<1> DEFINE h == [type |-> packets[r + 1].type, size |-> packets[r + 1].size]
<1>1. /\ r < Len(packets) /\ consumed' = EndOf(r) + HeaderSize
      /\ HeadersAt(consumed - got) = {h} /\ {h} # {}
  BY HeaderFound
<1>2. r + 1 \in 1 .. Len(packets) /\ r \in 0 .. Len(packets)  BY <1>1, PacketsTyped
<1>3. /\ packets[r + 1].type \in Types
      /\ packets[r + 1].size \in Nat /\ packets[r + 1].size \in Sizes
      /\ packets[r + 1].base \in Nat
  BY <1>2, PacketsTyped
<1>4. /\ packets[r + 1].base = EndOf(r) /\ EndOf(r) \in Nat
      /\ EndOf(r + 1) = EndOf(r) + HeaderSize + packets[r + 1].size
  BY <1>1, <1>2, EndOfNext, EndOfIsNumber
<1>5. h.type = packets[r + 1].type /\ h.size = packets[r + 1].size /\ h \in Headers
  BY <1>3 DEF Headers
<1> HIDE DEF h
<1>6. /\ header' = h /\ consumed' = consumed + n
      /\ \/ h.size = 0 /\ Return(Packet(h.type, consumed + n, consumed + n))
         \/ /\ h.size > 0
            /\ reading' = "payload" /\ got' = 0 /\ UNCHANGED <<received, ended>>
  BY <1>1 DEF ReadHeader
<1>7. ASSUME h.size = 0 PROVE Packet(h.type, consumed + n, consumed + n) = Written(r + 1)
  BY <1>1, <1>3, <1>4, <1>5, <1>6, <1>7, SizesAreNumbers DEF Written, Packet
<1>8. h.size = 0 => consumed' = EndOf(r + 1)
  BY <1>1, <1>4, <1>5, SizesAreNumbers
<1> QED  BY <1>5, <1>6, <1>7, <1>8

LEMMA ReadHeaderStep ==
  ASSUME StreamInv, NEW n \in Chunks, ReadHeader(n)
  PROVE  StreamInv'
<1> USE DEF StreamInv
<1>1. n \in Nat /\ n > 0  BY IpcAssumption DEF Chunks
<1>2. PICK r \in Nat : r = Len(received)  BY ReaderBehind
<1>3. UNCHANGED <<rfd, writerVars, written>>  BY DEF ReadHeader
<1>4. LaidOut' /\ WriterPlaced' /\ \A k : EndOf(k)' = EndOf(k) /\ Written(k)' = Written(k)
  BY <1>3, WriterUntouched
<1>5. UNCHANGED <<WriteCount, packets, accepted, writing, done, sigpipe, wfd, written>>
  BY <1>3, WriterUntouched
<1>6. r < Len(packets) /\ rfd = "open" /\ consumed' = EndOf(r) + HeaderSize
  BY <1>2, HeaderFound
<1>7. n <= written - consumed /\ consumed' = consumed + n  BY DEF ReadHeader
<1>8. /\ consumed' \in Nat /\ consumed' <= written /\ written <= consumed' + Capacity
  BY <1>1, <1>7, IpcAssumption DEF TypeOK
<1>9. /\ header' \in Headers
      /\ header'.type = packets[r + 1].type /\ header'.size = packets[r + 1].size
  BY <1>2, HeaderCompleted
<1>10. CASE consumed' = EndOf(r + 1) /\ Return(Written(r + 1))
  BY <1>2, <1>3, <1>6, <1>8, <1>9, <1>10, ReturnStep
<1>11. CASE /\ packets[r + 1].size > 0
            /\ reading' = "payload" /\ got' = 0 /\ UNCHANGED <<received, ended>>
  <2>1. TypeOK'  BY <1>3, <1>5, <1>8, <1>9, <1>11 DEF TypeOK, ReadCount
  <2>2. ReaderPlaced'
    <3>1. EndOf(Len(received))' = EndOf(r)  BY <1>2, <1>5, <1>11 DEF EndOf
    <3>2. EndOf(r) \in Nat  BY <1>2, ReaderBehind
    <3>3. consumed' = EndOf(r) + HeaderSize + 0  BY <1>6, <3>2, SizesAreNumbers
    <3> QED  BY <1>2, <1>3, <1>5, <1>6, <1>9, <1>11, <3>1, <3>3 DEF ReaderPlaced
  <2>3. PacketsArriveWhole' /\ InvalidMeansEnd'
    BY <1>3, <1>4, <1>5, <1>11 DEF PacketsArriveWhole, InvalidMeansEnd
  <2> QED  BY <1>4, <2>1, <2>2, <2>3
<1> QED  BY <1>2, <1>10, <1>11, HeaderCompleted

\* The payload the reader completes is the one of the packet it is in.
LEMMA PayloadCompleted ==
  ASSUME StreamInv, NEW n \in Chunks, ReadPayload(n),
         NEW r \in Nat, r = Len(received)
  PROVE  /\ r < Len(packets) /\ rfd = "open"
         /\ consumed' = EndOf(r + 1) /\ Return(Written(r + 1))
<1> USE DEF StreamInv
<1>1. n \in Nat /\ n > 0  BY IpcAssumption DEF Chunks
<1>2. /\ reading = "payload" /\ n <= written - consumed /\ got + n = header.size
      /\ consumed' = consumed + n
      /\ Return(Packet(header.type, consumed - got, consumed + n))
  BY DEF ReadPayload
<1>3. consumed \in Nat /\ got \in Nat /\ written \in Nat  BY DEF TypeOK
<1>4. /\ r < Len(packets) /\ rfd = "open"
      /\ header.type = packets[r + 1].type /\ header.size = packets[r + 1].size
      /\ consumed = EndOf(r) + HeaderSize + got
  BY <1>2 DEF ReaderPlaced
<1>5. r + 1 \in 1 .. Len(packets) /\ r \in 0 .. Len(packets)  BY <1>4, PacketsTyped
<1>6. packets[r + 1].size \in Nat /\ packets[r + 1].base \in Nat  BY <1>5, PacketsTyped
<1>7. /\ packets[r + 1].base = EndOf(r) /\ EndOf(r) \in Nat
      /\ EndOf(r + 1) = EndOf(r) + HeaderSize + packets[r + 1].size
  BY <1>4, <1>5, EndOfNext, EndOfIsNumber
<1>8. consumed' = EndOf(r + 1)
  BY <1>1, <1>2, <1>3, <1>4, <1>6, <1>7, SizesAreNumbers
<1>9. /\ consumed - got = packets[r + 1].base + HeaderSize
      /\ consumed + n = packets[r + 1].base + HeaderSize + packets[r + 1].size
  BY <1>1, <1>2, <1>3, <1>4, <1>6, <1>7, SizesAreNumbers
<1>10. Return(Written(r + 1))  BY <1>2, <1>4, <1>9 DEF Written
<1> QED  BY <1>4, <1>8, <1>10

LEMMA ReadPayloadStep ==
  ASSUME StreamInv, NEW n \in Chunks, ReadPayload(n)
  PROVE  StreamInv'
<1> USE DEF StreamInv
<1>1. n \in Nat /\ n > 0  BY IpcAssumption DEF Chunks
<1>2. PICK r \in Nat : r = Len(received)  BY ReaderBehind
<1>3. UNCHANGED <<header, rfd, writerVars, written>>  BY DEF ReadPayload
<1>4. n <= written - consumed /\ consumed' = consumed + n  BY DEF ReadPayload
<1>5. consumed' \in Nat /\ consumed' <= written /\ written <= consumed' + Capacity
  BY <1>1, <1>4, IpcAssumption DEF TypeOK
<1>6. header' \in Headers  BY <1>3 DEF TypeOK
<1> QED  BY <1>2, <1>3, <1>5, <1>6, PayloadCompleted, ReturnStep

\* At the end of the stream every packet that was sent has been returned.
LEMMA EndHasEverything ==
  ASSUME StreamInv, ReadEnd
  PROVE  accepted <= Len(received)
<1> USE DEF StreamInv
<1>1. PICK r \in Nat : r = Len(received)  BY ReaderBehind
<1>2. reading \in {"header", "payload"} /\ written = consumed  BY DEF ReadEnd
<1>3. consumed \in Nat /\ got \in Nat /\ accepted \in Nat /\ accepted <= Len(packets)
  BY DEF TypeOK
<1>4. Len(packets) \in Nat  BY PacketsTyped
<1> SUFFICES ASSUME accepted > r PROVE FALSE  BY <1>1, <1>3
<1>5. r + 1 \in 0 .. Len(packets) /\ r \in 0 .. Len(packets) /\ r < Len(packets)
      /\ accepted \in 0 .. Len(packets) /\ r + 1 <= accepted
  BY <1>3, <1>4
<1>6. EndOf(r + 1) <= EndOf(accepted) /\ EndOf(accepted) <= written
  BY <1>5, EndOfMonotone DEF WriterPlaced
<1>7. /\ packets[r + 1].size \in Nat /\ EndOf(r) \in Nat /\ EndOf(accepted) \in Nat
      /\ EndOf(r + 1) = EndOf(r) + HeaderSize + packets[r + 1].size
  BY <1>5, EndOfNext, EndOfIsNumber
<1>8. CASE reading = "header"
  <2>1. consumed = EndOf(r) + got /\ got < HeaderSize
    BY <1>1, <1>8 DEF ReaderPlaced, TypeOK, ReadCount
  <2> QED  BY <1>2, <1>3, <1>6, <1>7, <2>1, SizesAreNumbers
<1>9. CASE reading = "payload"
  <2>1. consumed = EndOf(r) + HeaderSize + got /\ got < packets[r + 1].size
    BY <1>1, <1>9 DEF ReaderPlaced, TypeOK, ReadCount
  <2> QED  BY <1>2, <1>3, <1>6, <1>7, <2>1, SizesAreNumbers
<1> QED  BY <1>2, <1>8, <1>9

LEMMA ReadEndStep ==
  ASSUME StreamInv, ReadEnd
  PROVE  StreamInv'
<1> USE DEF StreamInv
<1>1. UNCHANGED <<header, received, writerVars, written, consumed>>
  BY DEF ReadEnd, ReturnInvalid
<1>2. LaidOut' /\ WriterPlaced' /\ \A k : EndOf(k)' = EndOf(k) /\ Written(k)' = Written(k)
  BY <1>1, WriterUntouched
<1>3. UNCHANGED <<WriteCount, packets, accepted, writing, done, sigpipe, wfd, written>>
  BY <1>1, WriterUntouched
<1>4. reading' = "idle" /\ got' = 0 /\ ended' = TRUE /\ rfd' = "closed"
  BY DEF ReadEnd, ReturnInvalid
<1>5. TypeOK'  BY <1>1, <1>3, <1>4 DEF TypeOK
<1>6. ReaderPlaced'  BY <1>4 DEF ReaderPlaced
<1>7. PacketsArriveWhole'  BY <1>1, <1>2, <1>3 DEF PacketsArriveWhole
<1>8. InvalidMeansEnd'  BY <1>1, <1>3, <1>4, EndHasEverything DEF InvalidMeansEnd
<1> QED  BY <1>2, <1>5, <1>6, <1>7, <1>8

LEMMA StreamStep == StreamInv /\ [Next]_vars => StreamInv'
<1> SUFFICES ASSUME StreamInv, [Next]_vars PROVE StreamInv'  OBVIOUS
<1>1. ASSUME NEW type \in Types, NEW size \in Sizes, WriteMessage(type, size)
      PROVE  StreamInv'
  BY <1>1, WriteMessageStep
<1>2. ASSUME NEW n \in Chunks, Write(n) PROVE StreamInv'  BY <1>2, WriteStep
<1>3. CASE WriteBroken \/ WriteThrows \/ WriterLeaves  BY <1>3, WriterStopsStep
<1>4. CASE ReadMessage \/ ReadThrows \/ ReaderLeaves  BY <1>4, ReaderMovesStep
<1>5. ASSUME NEW n \in Chunks, ReadPart(n) PROVE StreamInv'  BY <1>5, ReadPartStep
<1>6. ASSUME NEW n \in Chunks, ReadHeader(n) PROVE StreamInv'  BY <1>6, ReadHeaderStep
<1>7. ASSUME NEW n \in Chunks, ReadPayload(n) PROVE StreamInv'  BY <1>7, ReadPayloadStep
<1>8. CASE ReadEnd  BY <1>8, ReadEndStep
<1>9. CASE UNCHANGED vars
  BY <1>9 DEF vars, writerVars, readerVars, StreamInv, TypeOK, LaidOut, WriterPlaced,
     ReaderPlaced, PacketsArriveWhole, InvalidMeansEnd, EndOf, Written, Packet, Current,
     WriteCount, ReadCount
<1> QED  BY <1>1, <1>2, <1>3, <1>4, <1>5, <1>6, <1>7, <1>8, <1>9 DEF Next, Writer, Reader

LEMMA StreamAlways == Spec => []StreamInv
BY StreamInit, StreamStep, PTL DEF Spec

------------------------------------------------------------------------------
(***************************************************************************)
(* Every variable of the stream has its type, and neither end is ever at   *)
(* work on an object that is complete (read_all's and write_all's loops).  *)
(***************************************************************************)
THEOREM StreamTypeCorrect == Spec => []TypeOK
<1>1. StreamInv => TypeOK  BY DEF StreamInv
<1> QED  BY <1>1, StreamAlways, PTL

(***************************************************************************)
(* The k-th message read_message returns is the k-th packet write_message  *)
(* was called with, whatever parts the kernel takes and gives.             *)
(***************************************************************************)
THEOREM PacketsWhole == Spec => []PacketsArriveWhole
<1>1. StreamInv => PacketsArriveWhole  BY DEF StreamInv
<1> QED  BY <1>1, StreamAlways, PTL

(***************************************************************************)
(* read_message reports INVALID_TYPE only once the stream has ended and    *)
(* every packet write_message said it had sent has been returned.          *)
(***************************************************************************)
THEOREM InvalidIsEnd == Spec => []InvalidMeansEnd
<1>1. StreamInv => InvalidMeansEnd  BY DEF StreamInv
<1> QED  BY <1>1, StreamAlways, PTL

------------------------------------------------------------------------------
(***************************************************************************)
(* The stream implements PacketChannel.                                    *)
(***************************************************************************)
Messages == [type : Types, from : Nat, to : Nat]

Sent == [k \in 1 .. Len(packets) |-> Written(k)]

LEMMA SentIsSequence ==
  TypeOK => /\ Sent \in Seq(Messages) /\ Len(Sent) = Len(packets)
            /\ \A k \in 1 .. Len(packets) : Sent[k] = Written(k)
<1> SUFFICES ASSUME TypeOK
             PROVE  /\ Sent \in Seq(Messages) /\ Len(Sent) = Len(packets)
                    /\ \A k \in 1 .. Len(packets) : Sent[k] = Written(k)
  OBVIOUS
<1>1. Len(packets) \in Nat  BY PacketsTyped
<1>2. ASSUME NEW k \in 1 .. Len(packets) PROVE Written(k) \in Messages
  BY <1>2, PacketsTyped, SizesAreNumbers DEF Written, Packet, Messages
<1>3. Sent \in [1 .. Len(packets) -> Messages]  BY <1>2 DEF Sent
<1> QED  BY <1>1, <1>3 DEF Sent

LEMMA ChannelInit == Init => PC!Init
<1> SUFFICES ASSUME Init PROVE PC!Init  OBVIOUS
<1>1. Sent = <<>>
  <2>1. Len(packets) = 0  BY DEF Init
  <2>2. Sent \in Seq(Messages) /\ Len(Sent) = 0
    BY <2>1, StreamInit, SentIsSequence DEF StreamInv
  <2> QED  BY <2>2, EmptySeq
<1> QED  BY <1>1 DEF Init, PC!Init, Sent

LEMMA ChannelStep == StreamInv /\ StreamInv' /\ [Next]_vars => [PC!Next]_(PC!vars)
<1> SUFFICES ASSUME StreamInv, StreamInv', [Next]_vars PROVE [PC!Next]_(PC!vars)  OBVIOUS
<1>1. TypeOK /\ TypeOK'  BY DEF StreamInv
<1>2. UNCHANGED packets => UNCHANGED Sent  BY DEF Sent, Written, Packet
<1>3. ASSUME NEW type \in Types, NEW size \in Sizes, WriteMessage(type, size)
      PROVE  PC!Send
  <2> DEFINE new == [type |-> type, size |-> size, base |-> written]
  <2>1. PICK n \in Nat : n = Len(packets)  BY <1>1, PacketsTyped
  <2>2. new \in PacketRecords  BY <1>1 DEF TypeOK, PacketRecords
  <2>3. packets' = Append(packets, new)  BY <1>3 DEF WriteMessage
  <2>4. Len(packets') = n + 1 /\ \A k \in 1 .. n : packets'[k] = packets[k]
    BY <1>1, <2>1, <2>2, <2>3, PacketsTyped, AppendProperties
  <2>5. /\ Sent \in Seq(Messages) /\ Len(Sent) = n
        /\ \A k \in 1 .. n : Sent[k] = Written(k)
    BY <1>1, <2>1, SentIsSequence
  <2>6. /\ Sent' \in Seq(Messages) /\ Len(Sent') = n + 1
        /\ \A k \in 1 .. n + 1 : Sent'[k] = Written(k)'
    <3>1. (TypeOK => /\ Sent \in Seq(Messages) /\ Len(Sent) = Len(packets)
                     /\ \A k \in 1 .. Len(packets) : Sent[k] = Written(k))'
      BY SentIsSequence, PTL
    <3> QED  BY <1>1, <2>4, <3>1
  <2>7. \A k \in 1 .. n : Sent'[k] = Sent[k]  BY <2>4, <2>5, <2>6 DEF Written
  <2>8. UNCHANGED <<accepted, received, ended>>  BY <1>3 DEF WriteMessage, readerVars
  <2> QED  BY <2>5, <2>6, <2>7, <2>8 DEF PC!Send, Sent, Messages
<1>4. ASSUME NEW n \in Chunks, Write(n)
      PROVE  PC!Accept \/ UNCHANGED PC!vars
  <2>1. UNCHANGED <<packets, received, ended>>  BY <1>4 DEF Write, readerVars
  <2>2. UNCHANGED Sent  BY <1>2, <2>1
  <2>3. accepted' = accepted \/ accepted' = accepted + 1  BY <1>4 DEF Write
  <2>4. accepted' = accepted + 1 => accepted < Len(Sent)
    BY <1>1, <2>1, SentIsSequence, PacketsTyped DEF TypeOK
  <2>5. ~ended  BY <1>4 DEF Write, StreamInv, InvalidMeansEnd
  <2> QED  BY <2>1, <2>2, <2>3, <2>4, <2>5 DEF PC!Accept, PC!vars, Sent
<1>5. ASSUME NEW n \in Chunks, ReadHeader(n) \/ ReadPayload(n)
      PROVE  PC!Receive \/ UNCHANGED PC!vars
  <2>1. UNCHANGED <<packets, accepted>>
    BY <1>5 DEF ReadHeader, ReadPayload, writerVars
  <2>2. UNCHANGED Sent  BY <1>2, <2>1
  <2>3. PICK r \in Nat : r = Len(received)  BY ReaderBehind
  <2>4. rfd = "open" /\ r < Len(packets)
    BY <1>5, <2>3, HeaderFound, PayloadCompleted
  <2>5. \/ UNCHANGED <<received, ended>>
        \/ received' = Append(received, Written(r + 1)) /\ UNCHANGED ended
    BY <1>5, <2>3, HeaderCompleted, PayloadCompleted DEF Return
  <2>6. r < Len(Sent) /\ Sent[r + 1] = Written(r + 1)
    BY <1>1, <2>4, SentIsSequence, PacketsTyped
  <2>7. ~ended  BY <2>4 DEF StreamInv, InvalidMeansEnd
  <2> QED  BY <2>1, <2>2, <2>3, <2>5, <2>6, <2>7 DEF PC!Receive, PC!vars, Sent
<1>6. CASE ReadEnd
  <2>1. UNCHANGED <<packets, accepted, received>> /\ ended' = TRUE /\ rfd = "open"
    BY <1>6 DEF ReadEnd, ReturnInvalid, writerVars, StreamInv, ReaderPlaced
  <2>2. UNCHANGED Sent  BY <1>2, <2>1
  <2>3. ~ended  BY <2>1 DEF StreamInv, InvalidMeansEnd
  <2>4. accepted <= Len(received)  BY <1>6, EndHasEverything
  <2> QED  BY <2>1, <2>2, <2>3, <2>4 DEF PC!Next, PC!End, Sent
<1>7. ASSUME UNCHANGED <<packets, accepted, received, ended>> PROVE UNCHANGED PC!vars
  <2>1. UNCHANGED Sent  BY <1>2, <1>7
  <2> QED  BY <1>7, <2>1 DEF PC!vars, Sent
<1>8. CASE WriteBroken \/ WriteThrows \/ WriterLeaves
  BY <1>7, <1>8 DEF WriteBroken, WriteThrows, WriterLeaves, readerVars
<1>9. CASE ReadMessage \/ ReadThrows \/ ReaderLeaves
  BY <1>7, <1>9 DEF ReadMessage, ReadThrows, ReaderLeaves, writerVars
<1>10. ASSUME NEW n \in Chunks, ReadPart(n) PROVE UNCHANGED PC!vars
  BY <1>7, <1>10 DEF ReadPart, writerVars
<1>11. CASE UNCHANGED vars  BY <1>7, <1>11 DEF vars, writerVars, readerVars
<1> QED
  BY <1>3, <1>4, <1>5, <1>6, <1>8, <1>9, <1>10, <1>11
  DEF Next, Writer, Reader, PC!Next

(***************************************************************************)
(* Every behaviour of the two ends and the kernel between them is one of   *)
(* PacketChannel.                                                          *)
(***************************************************************************)
THEOREM StreamImplementsChannel == Spec => ImplementsChannel
<1>1. StreamInv /\ StreamInv' /\ [Next]_vars => [PC!Next]_(PC!vars)  BY ChannelStep
<1> QED
  BY <1>1, StreamAlways, ChannelInit, PTL DEF Spec, ImplementsChannel, PC!Spec
============================================================================
