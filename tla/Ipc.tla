-------------------------------- MODULE Ipc --------------------------------
(***************************************************************************)
(* i3's packets over one direction of a socket: write_message on top of    *)
(* write_all at one end, read_message on top of read_all at the other, and *)
(* between them the kernel, which takes and gives as many bytes at a time  *)
(* as it likes.  Either end may go away at any byte.                       *)
(*                                                                         *)
(* A byte is its position in the stream: the kernel neither loses nor      *)
(* reorders bytes, so what a position holds is settled by the packet that  *)
(* was written across it.  Interrupted and would-block calls are repeated  *)
(* and change nothing.                                                     *)
(***************************************************************************)
EXTENDS Naturals, Sequences

CONSTANTS
  HeaderSize,   \* HEADER_SIZE
  Types,        \* message types
  MaxPayload,   \* bound: bytes of a payload
  Capacity,     \* bytes the kernel buffers
  MaxPackets    \* bound: packets handed to write_message

ASSUME IpcAssumption ==
  /\ HeaderSize \in Nat \ {0} /\ Capacity \in Nat \ {0}
  /\ MaxPayload \in Nat /\ MaxPackets \in Nat

VARIABLES
  \* -- the writing end
  writing,    \* idle, the object write_all is busy with, or how it ended
  done,       \* bytes_written of write_all
  packets,    \* history: what write_message was called with, and the position
              \* its first byte takes
  accepted,   \* history: calls of write_message that returned true
  sigpipe,    \* "ignored" as in the tests, "default" as in the program
  \* -- the kernel
  written,    \* bytes taken from the writer
  consumed,   \* bytes given to the reader
  wfd, rfd,   \* the ends' descriptors: open or closed
  \* -- the reading end
  reading,    \* idle, the object read_all is busy with, or how it ended
  got,        \* bytes_read of read_all
  header,     \* the header read_message has just read
  received,   \* history: the messages read_message returned
  ended       \* history: read_message returned INVALID_TYPE

writerVars == <<writing, done, packets, accepted, sigpipe, wfd>>
readerVars == <<reading, got, header, received, ended, rfd>>
vars       == <<writerVars, readerVars, written, consumed>>

Sizes   == 0 .. MaxPayload
Headers == [type : Types, size : Sizes]

\* A message read_message returns: its type, and as payload the bytes between two
\* positions.
Packet(type, from, to) == [type |-> type, from |-> from, to |-> to]

------------------------------------------------------------------------------
(* write_message, write_object and write_all *)

Current == packets[Len(packets)]

\* What write_all was asked to write.
WriteCount == IF writing = "header" THEN HeaderSize ELSE Current.size

WriteMessage(type, size) ==
  /\ writing = "idle" /\ wfd = "open" /\ Len(packets) < MaxPackets
  /\ packets' = Append(packets, [type |-> type, size |-> size, base |-> written])
  /\ writing' = "header" /\ done' = 0
  /\ UNCHANGED <<accepted, sigpipe, wfd, readerVars, written, consumed>>

\* Write with the count of the header left in place when the payload's turn comes.
Write_KeepsCount(n) ==
  /\ writing \in {"header", "payload"} /\ rfd = "open"
  /\ n <= WriteCount - done /\ written + n <= consumed + Capacity
  /\ written' = written + n
  /\ \/ /\ done + n < WriteCount
        /\ done' = done + n
        /\ UNCHANGED <<writing, accepted>>
     \/ /\ done + n = WriteCount
        /\ writing = "header" /\ Current.size > 0
        /\ writing' = "payload" /\ done' = done + n
        /\ UNCHANGED accepted
     \/ /\ done + n = WriteCount
        /\ writing = "payload" \/ Current.size = 0
        /\ writing' = "idle" /\ done' = 0
        /\ accepted' = accepted + 1
  /\ UNCHANGED <<packets, sigpipe, wfd, readerVars, consumed>>

\* write takes n bytes.  After the last one of the header comes the payload, if
\* there is one; after that write_message returns true.
Write(n) ==
  /\ writing \in {"header", "payload"} /\ rfd = "open"
  /\ n <= WriteCount - done /\ written + n <= consumed + Capacity
  /\ written' = written + n
  /\ \/ /\ done + n < WriteCount
        /\ done' = done + n
        /\ UNCHANGED <<writing, accepted>>
     \/ /\ done + n = WriteCount
        /\ writing = "header" /\ Current.size > 0
        /\ writing' = "payload" /\ done' = 0
        /\ UNCHANGED accepted
     \/ /\ done + n = WriteCount
        /\ writing = "payload" \/ Current.size = 0
        /\ writing' = "idle" /\ done' = 0
        /\ accepted' = accepted + 1
  /\ UNCHANGED <<packets, sigpipe, wfd, readerVars, consumed>>

\* Nobody will read: EPIPE, after which write_all closes the descriptor and
\* write_message returns false; but first the signal, which ends the process.
WriteBroken ==
  /\ writing \in {"header", "payload"} /\ rfd = "closed"
  /\ writing' = IF sigpipe = "ignored" THEN "idle" ELSE "killed"
  /\ wfd' = "closed" /\ done' = 0
  /\ UNCHANGED <<packets, accepted, sigpipe, readerVars, written, consumed>>

\* write_message on a descriptor that is closed already: EBADF, an exception.
WriteThrows ==
  /\ writing = "idle" /\ wfd = "closed"
  /\ writing' = "thrown"
  /\ UNCHANGED <<done, packets, accepted, sigpipe, wfd, readerVars, written, consumed>>

\* The writing process ends, with a packet half written perhaps.
WriterLeaves ==
  /\ writing \notin {"gone", "killed"}
  /\ writing' = "gone" /\ wfd' = "closed" /\ done' = 0
  /\ UNCHANGED <<packets, accepted, sigpipe, readerVars, written, consumed>>

------------------------------------------------------------------------------
(* read_message, read_object and read_all *)

\* What read_all was asked to read.
ReadCount == IF reading = "header" THEN HeaderSize ELSE header.size

\* The headers whose bytes start at this position: the magic string is in no
\* other place.
HeadersAt(position) ==
  {[type |-> packets[k].type, size |-> packets[k].size] :
     k \in {i \in 1 .. Len(packets) : packets[i].base = position}}

Return(message) ==
  /\ received' = Append(received, message)
  /\ reading' = "idle" /\ got' = 0
  /\ UNCHANGED ended

ReturnInvalid ==
  /\ ended' = TRUE
  /\ reading' = "idle" /\ got' = 0
  /\ UNCHANGED received

ReadMessage ==
  /\ reading = "idle" /\ rfd = "open"
  /\ reading' = "header" /\ got' = 0
  /\ UNCHANGED <<header, received, ended, rfd, writerVars, written, consumed>>

\* ReadPart that waits until all the rest can be read at once.
ReadPart_WaitsForAll(n) ==
  /\ reading \in {"header", "payload"}
  /\ ReadCount - got <= written - consumed
  /\ n <= written - consumed /\ got + n < ReadCount
  /\ consumed' = consumed + n /\ got' = got + n
  /\ UNCHANGED <<reading, header, received, ended, rfd, writerVars, written>>

\* read gives n bytes, and read_all wants more of them.
ReadPart(n) ==
  /\ reading \in {"header", "payload"}
  /\ n <= written - consumed /\ got + n < ReadCount
  /\ consumed' = consumed + n /\ got' = got + n
  /\ UNCHANGED <<reading, header, received, ended, rfd, writerVars, written>>

\* ReadHeader for which a packet with no payload is none.
ReadHeader_SkipsEmpty(n) ==
  /\ reading = "header"
  /\ n <= written - consumed /\ got + n = HeaderSize
  /\ consumed' = consumed + n /\ got' = 0
  /\ \E h \in HeadersAt(consumed - got) :
       /\ header' = h
       /\ reading' = IF h.size = 0 THEN "header" ELSE "payload"
  /\ UNCHANGED <<received, ended, rfd, writerVars, written>>

\* ReadHeader that is content with any number of bytes.
ReadHeader_TakesShort(n) ==
  /\ reading = "header"
  /\ n <= written - consumed /\ got + n <= HeaderSize
  /\ consumed' = consumed + n
  /\ LET found == HeadersAt(consumed - got) IN
       \/ found = {} /\ ReturnInvalid /\ UNCHANGED header
       \/ \E h \in found :
            /\ header' = h
            /\ \/ h.size = 0 /\ Return(Packet(h.type, consumed + n, consumed + n))
               \/ /\ h.size > 0
                  /\ reading' = "payload" /\ got' = 0
                  /\ UNCHANGED <<received, ended>>
  /\ UNCHANGED <<rfd, writerVars, written>>

\* The bytes that complete the header.
ReadHeader(n) ==
  /\ reading = "header"
  /\ n <= written - consumed /\ got + n = HeaderSize
  /\ consumed' = consumed + n
  /\ LET found == HeadersAt(consumed - got) IN
       \/ /\ found = {}
          /\ ReturnInvalid /\ UNCHANGED header
       \/ \E h \in found :
            /\ header' = h
            /\ \/ h.size = 0 /\ Return(Packet(h.type, consumed + n, consumed + n))
               \/ /\ h.size > 0
                  /\ reading' = "payload" /\ got' = 0
                  /\ UNCHANGED <<received, ended>>
  /\ UNCHANGED <<rfd, writerVars, written>>

\* ReadPayload that is content with any number of bytes.
ReadPayload_TakesShort(n) ==
  /\ reading = "payload"
  /\ n <= written - consumed /\ got + n <= header.size
  /\ consumed' = consumed + n
  /\ Return(Packet(header.type, consumed - got, consumed + n))
  /\ UNCHANGED <<header, rfd, writerVars, written>>

\* The bytes that complete the payload.
ReadPayload(n) ==
  /\ reading = "payload"
  /\ n <= written - consumed /\ got + n = header.size
  /\ consumed' = consumed + n
  /\ Return(Packet(header.type, consumed - got, consumed + n))
  /\ UNCHANGED <<header, rfd, writerVars, written>>

\* read returns 0: read_all closes the descriptor, and too little was read.
ReadEnd ==
  /\ reading \in {"header", "payload"}
  /\ written = consumed /\ wfd = "closed"
  /\ rfd' = "closed"
  /\ ReturnInvalid
  /\ UNCHANGED <<header, writerVars, written, consumed>>

\* read_message on a descriptor that is closed already: EBADF, an exception.
ReadThrows ==
  /\ reading = "idle" /\ rfd = "closed"
  /\ reading' = "thrown"
  /\ UNCHANGED <<got, header, received, ended, rfd, writerVars, written, consumed>>

\* The reading process ends.
ReaderLeaves ==
  /\ reading # "gone"
  /\ reading' = "gone" /\ rfd' = "closed" /\ got' = 0
  /\ UNCHANGED <<header, received, ended, writerVars, written, consumed>>

------------------------------------------------------------------------------

Init ==
  /\ writing = "idle" /\ done = 0 /\ packets = <<>> /\ accepted = 0
  /\ sigpipe \in {"ignored", "default"}
  /\ written = 0 /\ consumed = 0 /\ wfd = "open" /\ rfd = "open"
  /\ reading = "idle" /\ got = 0 /\ received = <<>> /\ ended = FALSE
  /\ header \in Headers

Chunks == 1 .. Capacity

Writer ==
  \/ \E type \in Types, size \in Sizes : WriteMessage(type, size)
  \/ \E n \in Chunks : Write(n)
  \/ WriteBroken \/ WriteThrows

Reader ==
  \/ ReadMessage
  \/ \E n \in Chunks : ReadPart(n) \/ ReadHeader(n) \/ ReadPayload(n)
  \/ ReadEnd \/ ReadThrows

Next == Writer \/ Reader \/ WriterLeaves \/ ReaderLeaves

Spec == Init /\ [][Next]_vars

\* The reader calls read_message again and again, and a writer that is busy with
\* a packet goes on with it; whether there is another packet is up to the writer.
WriteOn == \E n \in Chunks : Write(n)

FairSpec == Spec /\ WF_vars(Reader) /\ WF_vars(WriteOn)
------------------------------------------------------------------------------
(* Properties *)

\* Every variable has its type, the kernel holds at most what it can, and
\* write_all and read_all are never at work on an object that is complete.
TypeOK ==
  /\ writing \in {"idle", "header", "payload", "thrown", "killed", "gone"}
  /\ reading \in {"idle", "header", "payload", "thrown", "gone"}
  /\ packets \in Seq([type : Types, size : Sizes, base : Nat])
  /\ writing \in {"header", "payload"} => packets # <<>>
  /\ accepted \in Nat /\ accepted <= Len(packets)
  /\ done \in Nat /\ (writing \in {"header", "payload"} => done < WriteCount)
  /\ got \in Nat /\ (reading \in {"header", "payload"} => got < ReadCount)
  /\ sigpipe \in {"ignored", "default"}
  /\ written \in Nat /\ consumed \in Nat
  /\ consumed <= written /\ written <= consumed + Capacity
  /\ wfd \in {"open", "closed"} /\ rfd \in {"open", "closed"}
  /\ header \in Headers
  /\ received \in Seq([type : Types, from : Nat, to : Nat])
  /\ ended \in BOOLEAN

\* The k-th packet, as it has to be read.
Written(k) ==
  Packet(packets[k].type, packets[k].base + HeaderSize,
         packets[k].base + HeaderSize + packets[k].size)

\* However the kernel cuts the stream, the k-th message that read_message returns
\* is the k-th that was passed to write_message, type and bytes.
PacketsArriveWhole ==
  /\ Len(received) <= Len(packets)
  /\ \A k \in 1 .. Len(received) : received[k] = Written(k)

\* read_message reports INVALID_TYPE for the end of the stream only: it has closed
\* the descriptor, and every packet write_message said it had sent was returned.
InvalidMeansEnd == ended => rfd = "closed" /\ accepted <= Len(received)

\* One direction of a socket implements the promise of PacketChannel.
PC == INSTANCE PacketChannel WITH
        Packets  <- [type : Types, from : Nat, to : Nat],
        sent     <- [k \in 1 .. Len(packets) |-> Written(k)]

ImplementsChannel == PC!Spec

\* A packet handed to write_message reaches the reader, however small the buffer
\* is it has to pass, unless one of the ends leaves; once write_message has said
\* that it is sent, only the reader's end can stop it.
SentArrives ==
  \A k \in 1 .. MaxPackets :
    /\ Len(packets) >= k ~>
         (Len(received) >= k \/ reading = "gone" \/ writing \in {"gone", "killed"})
    /\ accepted >= k ~> (Len(received) >= k \/ reading = "gone")

\* io.hpp:30, "Closes fd when EPIPE is received", and the tests of write_all and
\* query: writing to a peer that is gone returns to the caller.
WriterSurvivesPeer == writing # "killed"
============================================================================
