---------------------- MODULE BufferConnection_proofs ----------------------
(***************************************************************************)
(* Proofs about the buffered connections, with and without an immediate    *)
(* write, for any size of the socket, of the chunks and of the lines, any  *)
(* limit of lines and any number of bytes.                                 *)
(***************************************************************************)
EXTENDS BufferConnection, SequenceTheorems, TLAPS

-----------------------------------------------------------------------------
(***************************************************************************)
(* Bytes that follow each other in the stream                              *)
(***************************************************************************)

\* The bytes of s are the ones after byte k, in order.
Follows(s, k) == \A i \in 1 .. Len(s) : s[i] = k + i

\* Consecutive bytes and the next ones are consecutive.
LEMMA FollowsCat ==
  ASSUME NEW s \in Seq(Nat), NEW t \in Seq(Nat), NEW k \in Int,
         Follows(s, k), Follows(t, k + Len(s))
  PROVE  /\ s \o t \in Seq(Nat)
         /\ Len(s \o t) = Len(s) + Len(t)
         /\ Follows(s \o t, k)
BY DEF Follows

\* A part of consecutive bytes is consecutive.
LEMMA FollowsSub ==
  ASSUME NEW s \in Seq(Nat), NEW k \in Int, Follows(s, k),
         NEW i \in 1 .. Len(s) + 1, NEW j \in i - 1 .. Len(s)
  PROVE  /\ SubSeq(s, i, j) \in Seq(Nat)
         /\ Len(SubSeq(s, i, j)) = j - i + 1
         /\ Follows(SubSeq(s, i, j), k + i - 1)
BY DEF Follows

-----------------------------------------------------------------------------
(***************************************************************************)
(* The inductive invariant                                                 *)
(***************************************************************************)

Types ==
  /\ output \in Seq(Nat) /\ position \in 0 .. Len(output)
  /\ sock \in Seq(Nat) /\ buffer \in Seq(Nat) /\ line \in Seq(Nat)
  /\ count \in Nat /\ pc \in PCs
  /\ written \in Nat /\ read \in Nat /\ cut \in Nat
  /\ \A e \in ends : e \in 1 .. written

\* The three places a byte can be in on its way from write() to the reader
\* are adjacent parts of the stream, up to the last byte written.
InTransit ==
  /\ Follows(buffer, read)
  /\ Follows(sock, read + Len(buffer))
  /\ Follows(output, written - Len(output))
  /\ written = read + Len(buffer) + Len(sock) + Len(output) - position

\* f_line is what was read since the last newline, which is not part of it.
LineSoFar ==
  /\ Follows(line, cut)
  /\ Len(line) = (IF pc = "line" THEN read - cut - 1 ELSE read - cut)
  /\ \A e \in ends : e <= cut \/ e > cut + Len(line)
  /\ pc \notin {"parsing", "line"} => buffer = <<>>

\* Each line of the chunk that remains to be cut counts.
Limit == IF EventLimit = 0 THEN 1 ELSE EventLimit
Counted ==
  /\ count < Chunk + Limit
  /\ pc = "reading" => count < Limit
  /\ pc = "parsing" => count + Len(buffer) < Chunk + Limit
  /\ pc = "line" => count + 1 + Len(buffer) < Chunk + Limit

IInv == Types /\ InTransit /\ LineSoFar /\ Counted

\* What only the reader's flags or the owner's calls change.
bytes == <<output, position, sock, buffer, line, count, pc, written, read, cut, ends>>

\* The arithmetic of the invariant, apart from the sequences.
LEMMA Sizes ==
  ASSUME IInv
  PROVE  /\ written \in Nat /\ read \in Nat /\ cut \in Nat /\ count \in Nat
         /\ Len(buffer) \in Nat /\ Len(sock) \in Nat /\ Len(output) \in Nat
         /\ Len(line) \in Nat
         /\ position \in Nat /\ position <= Len(output)
         /\ written = read + Len(buffer) + Len(sock) + Len(output) - position
         /\ Len(line) = read - cut - 1 \/ Len(line) = read - cut
         /\ cut + Len(line) <= written
<1>1. written \in Nat /\ read \in Nat /\ cut \in Nat /\ count \in Nat
  BY DEF IInv, Types
<1>2. output \in Seq(Nat) /\ sock \in Seq(Nat) /\ buffer \in Seq(Nat) /\ line \in Seq(Nat)
  BY DEF IInv, Types
<1>3. Len(buffer) \in Nat /\ Len(sock) \in Nat /\ Len(output) \in Nat /\ Len(line) \in Nat
  BY <1>2
<1>4. position \in 0 .. Len(output)
  BY DEF IInv, Types
<1>5. written = read + Len(buffer) + Len(sock) + Len(output) - position
  BY DEF IInv, InTransit
<1>6. Len(line) = read - cut - 1 \/ Len(line) = read - cut
  BY DEF IInv, LineSoFar
<1>. QED BY <1>1, <1>3, <1>4, <1>5, <1>6

\* No byte moves.
LEMMA SameBytes == ASSUME IInv, UNCHANGED bytes PROVE IInv'
BY DEF bytes, IInv, Types, InTransit, LineSoFar, Counted, Follows

-----------------------------------------------------------------------------
(***************************************************************************)
(* The sender's steps                                                      *)
(***************************************************************************)

\* The reader's part of the invariant when bytes enter the socket.
readerBytes == <<buffer, line, count, pc, read, cut>>

\* A step of the sender: the bytes of the reader stay.
LEMMA SenderKeeps ==
  ASSUME IInv, UNCHANGED readerBytes,
         written' \in Nat, written' >= written,
         ends' = ends \/ (written' > written /\ ends' = ends \cup {written'}),
         output' \in Seq(Nat), position' \in 0 .. Len(output'), sock' \in Seq(Nat),
         Follows(sock', read + Len(buffer)),
         Follows(output', written' - Len(output')),
         written' = read + Len(buffer) + Len(sock') + Len(output') - position'
  PROVE  IInv'
<1>1. /\ written \in Nat /\ cut \in Nat /\ Len(line) \in Nat
      /\ cut + Len(line) <= written
  BY Sizes
<1>2. \A e \in ends : e \in 1 .. written
  BY DEF IInv, Types
<1>3. /\ buffer' = buffer /\ line' = line /\ count' = count /\ pc' = pc
      /\ read' = read /\ cut' = cut
  BY DEF readerBytes
<1>4. \A e \in ends' : e \in 1 .. written'
  BY <1>1, <1>2
<1>5. \A e \in ends' : e <= cut \/ e > cut + Len(line)
  <2>1. \A e \in ends : e <= cut \/ e > cut + Len(line)
    BY DEF IInv, LineSoFar
  <2>. QED BY <1>1, <2>1
<1>6. Types'
  BY <1>3, <1>4 DEF IInv, Types
<1>7. InTransit'
  BY <1>3 DEF IInv, InTransit, Follows
<1>8. LineSoFar'
  BY <1>3, <1>5 DEF IInv, LineSoFar, Follows
<1>9. Counted'
  BY <1>3 DEF IInv, Counted
<1>. QED BY <1>6, <1>7, <1>8, <1>9 DEF IInv

\* write() sends some bytes and buffers the others.
LEMMA WriteStep ==
  ASSUME IInv, NEW length \in Nat, NEW n \in Nat, length > 0, n <= length, Write(length, n)
  PROVE  IInv'
<1>. DEFINE data == [i \in 1 .. length |-> written + i]
<1>1. sock \in Seq(Nat) /\ output \in Seq(Nat)
  BY DEF IInv, Types
<1>2. /\ written \in Nat /\ read \in Nat
      /\ Len(buffer) \in Nat /\ Len(sock) \in Nat /\ Len(output) \in Nat
      /\ position \in Nat /\ position <= Len(output)
      /\ written = read + Len(buffer) + Len(sock) + Len(output) - position
  BY Sizes
<1>3. data \in Seq(Nat) /\ Len(data) = length /\ Follows(data, written)
  BY <1>2 DEF Follows
<1>4. Follows(output, written - Len(output)) /\ Follows(sock, read + Len(buffer))
  BY DEF IInv, InTransit
<1>5. written' = written + length /\ ends' = ends \cup {written'}
  BY DEF Write
<1>6. /\ n > 0 => output = <<>>
      /\ sock' = sock \o SubSeq(data, 1, n)
      /\ n = length => output' = <<>> /\ position' = 0
      /\ n # length => /\ output' = output \o SubSeq(data, n + 1, Len(data))
                       /\ position' = position
  BY DEF Write, Taken, EmptyBuffer, From
<1>7. UNCHANGED readerBytes
  BY DEF Write, readerVars, readerBytes
<1>8. written' \in Nat /\ written' > written
  BY <1>2, <1>5
<1>9. Len(data) = length
  BY <1>3
<1>. HIDE DEF data
<1>10. CASE n = 0
  <2>1. SubSeq(data, 1, n) = <<>> /\ SubSeq(data, n + 1, Len(data)) = data
    BY <1>3, <1>10
  <2>2. sock' = sock
    BY <1>1, <1>6, <2>1, ConcatEmptySeq
  <2>3. n # length
    BY <1>10
  <2>4. output' = output \o data /\ position' = position
    BY <1>6, <2>1, <2>3
  <2>5. (written - Len(output)) + Len(output) = written /\ written - Len(output) \in Int
    BY <1>2
  <2>6. /\ output' \in Seq(Nat) /\ Len(output') = Len(output) + Len(data)
        /\ Follows(output', written - Len(output))
    BY <1>1, <1>3, <1>4, <2>4, <2>5, FollowsCat
  <2>7. Len(output') = Len(output) + length
    BY <1>9, <2>6
  <2>8. written' - Len(output') = written - Len(output) /\ position' \in 0 .. Len(output')
    BY <1>2, <1>5, <2>4, <2>7
  <2>9. written' = read + Len(buffer) + Len(sock) + Len(output') - position
    BY <1>2, <1>5, <2>7
  <2>10. written' = read + Len(buffer) + Len(sock') + Len(output') - position'
    BY <2>2, <2>4, <2>9
  <2>11. Follows(output', written' - Len(output')) /\ Follows(sock', read + Len(buffer))
    BY <1>4, <2>2, <2>6, <2>8
  <2>12. output' \in Seq(Nat) /\ sock' \in Seq(Nat)
    BY <1>1, <2>2, <2>6
  <2>13. written' >= written /\ ends' = ends \cup {written'}
    BY <1>2, <1>5, <1>8
  <2>. QED BY <1>7, <1>8, <2>8, <2>10, <2>11, <2>12, <2>13, SenderKeeps
<1>11. CASE n > 0
  <2>1. output = <<>>
    BY <1>6, <1>11
  <2>2. position = 0 /\ Len(output) = 0
    BY <1>2, <2>1
  <2>3. /\ 1 \in 1 .. Len(data) + 1 /\ n \in 1 - 1 .. Len(data)
        /\ n - 1 + 1 = n /\ written + 1 - 1 = written /\ written \in Int
    BY <1>2, <1>9
  <2>4. /\ SubSeq(data, 1, n) \in Seq(Nat) /\ Len(SubSeq(data, 1, n)) = n
        /\ Follows(SubSeq(data, 1, n), written)
    BY <1>3, <2>3, FollowsSub
  <2>5. written = read + Len(buffer) + Len(sock) /\ read + Len(buffer) \in Int
    BY <1>2, <2>2
  <2>6. /\ sock' \in Seq(Nat) /\ Len(sock') = Len(sock) + Len(SubSeq(data, 1, n))
        /\ Follows(sock', read + Len(buffer))
    BY <1>1, <1>4, <1>6, <2>4, <2>5, FollowsCat
  <2>7. Len(sock') = Len(sock) + n
    BY <2>4, <2>6
  <2>8. /\ output' \in Seq(Nat) /\ position' = 0 /\ Len(output') = length - n
        /\ Follows(output', written + n)
    <3>1. CASE n = length
      BY <1>2, <1>6, <3>1 DEF Follows
    <3>2. CASE n # length
      <4>1. /\ n + 1 \in 1 .. Len(data) + 1 /\ Len(data) \in (n + 1) - 1 .. Len(data)
            /\ written + (n + 1) - 1 = written + n /\ Len(data) - (n + 1) + 1 = length - n
            /\ written \in Int
        BY <1>2, <1>9
      <4>2. /\ SubSeq(data, n + 1, Len(data)) \in Seq(Nat)
            /\ Len(SubSeq(data, n + 1, Len(data))) = length - n
            /\ Follows(SubSeq(data, n + 1, Len(data)), written + n)
        BY <1>3, <4>1, FollowsSub
      <4>3. output' = SubSeq(data, n + 1, Len(data))
        BY <1>6, <2>1, <3>2, <4>2, ConcatEmptySeq
      <4>. QED BY <1>6, <2>2, <3>2, <4>2, <4>3
    <3>. QED BY <3>1, <3>2
  <2>9. Len(output') = length - n /\ position' = 0
    BY <2>8
  <2>10. written' - Len(output') = written + n /\ position' \in 0 .. Len(output')
    BY <1>2, <1>5, <2>9
  <2>11. written' = read + Len(buffer) + Len(sock') + Len(output') - position'
    BY <1>2, <1>5, <2>5, <2>7, <2>9
  <2>12. Follows(output', written' - Len(output'))
    BY <2>8, <2>10
  <2>13. written' >= written /\ ends' = ends \cup {written'}
    BY <1>2, <1>5, <1>8
  <2>. QED BY <1>7, <1>8, <2>6, <2>8, <2>10, <2>11, <2>12, <2>13, SenderKeeps
<1>. QED BY <1>10, <1>11

\* write() of nothing.
LEMMA WriteNothingStep == ASSUME IInv, WriteNothing PROVE IInv'
<1>1. output' = output /\ position = 0 /\ position' = position
  BY DEF WriteNothing, EmptyBuffer, IInv, Types
<1>. QED BY <1>1, SameBytes DEF WriteNothing, bytes, readerVars

\* process_write() sends a part of the output buffer.
LEMMA ProcessWriteStep == ASSUME IInv, NEW n \in Nat, n > 0, ProcessWrite(n) PROVE IInv'
<1>. DEFINE rest == SubSeq(output, position + 1, Len(output))
<1>1. sock \in Seq(Nat) /\ output \in Seq(Nat)
  BY DEF IInv, Types
<1>2. /\ written \in Nat /\ read \in Nat
      /\ Len(buffer) \in Nat /\ Len(sock) \in Nat /\ Len(output) \in Nat
      /\ position \in Nat /\ position <= Len(output)
      /\ written = read + Len(buffer) + Len(sock) + Len(output) - position
  BY Sizes
<1>3. Follows(output, written - Len(output)) /\ Follows(sock, read + Len(buffer))
  BY DEF IInv, InTransit
<1>4. /\ rest \in Seq(Nat) /\ Len(rest) = Len(output) - position
      /\ Follows(rest, read + Len(buffer) + Len(sock))
  <2>1. /\ position + 1 \in 1 .. Len(output) + 1
        /\ Len(output) \in (position + 1) - 1 .. Len(output)
        /\ (written - Len(output)) + (position + 1) - 1 = read + Len(buffer) + Len(sock)
        /\ Len(output) - (position + 1) + 1 = Len(output) - position
        /\ written - Len(output) \in Int
    BY <1>2
  <2>. QED BY <1>1, <1>3, <2>1, FollowsSub
<1>5. /\ n <= Min(Len(rest), Room - Len(sock))
      /\ sock' = sock \o SubSeq(rest, 1, n)
      /\ position + n >= Len(output) => output' = <<>> /\ position' = 0
      /\ ~(position + n >= Len(output)) => position' = position + n /\ output' = output
  BY DEF ProcessWrite, Taken, From, EmptyBuffer
<1>6. UNCHANGED <<written, ends>> /\ UNCHANGED readerBytes
  BY DEF ProcessWrite, readerVars, readerBytes
<1>. HIDE DEF rest
<1>7. Len(rest) = Len(output) - position
  BY <1>4
<1>8. n <= Len(rest)
  <2>1. Len(rest) \in Int /\ Room - Len(sock) \in Int
    BY <1>2, <1>7, BufferAssumption
  <2>2. n <= Min(Len(rest), Room - Len(sock))
    BY <1>5
  <2>. QED BY <2>1, <2>2 DEF Min
<1>9. /\ SubSeq(rest, 1, n) \in Seq(Nat) /\ Len(SubSeq(rest, 1, n)) = n
      /\ Follows(SubSeq(rest, 1, n), read + Len(buffer) + Len(sock))
  <2>1. /\ 1 \in 1 .. Len(rest) + 1 /\ n \in 1 - 1 .. Len(rest) /\ n - 1 + 1 = n
        /\ read + Len(buffer) + Len(sock) + 1 - 1 = read + Len(buffer) + Len(sock)
        /\ read + Len(buffer) + Len(sock) \in Int
    BY <1>2, <1>7, <1>8
  <2>. QED BY <1>4, <2>1, FollowsSub
<1>10. /\ sock' \in Seq(Nat) /\ Len(sock') = Len(sock) + Len(SubSeq(rest, 1, n))
       /\ Follows(sock', read + Len(buffer))
  <2>1. read + Len(buffer) \in Int
    BY <1>2
  <2>. QED BY <1>1, <1>3, <1>5, <1>9, <2>1, FollowsCat
<1>11. Len(sock') = Len(sock) + n
  BY <1>9, <1>10
<1>12. /\ output' \in Seq(Nat) /\ position' \in 0 .. Len(output')
       /\ Len(output') - position' = Len(output) - position - n
       /\ Follows(output', written - Len(output'))
  <2>1. CASE position + n >= Len(output)
    <3>1. position + n = Len(output)
      BY <1>2, <1>7, <1>8, <2>1
    <3>2. output' = <<>> /\ position' = 0
      BY <1>5, <2>1
    <3>3. Len(output) - position - n = 0
      BY <1>2, <3>1
    <3>. QED BY <3>2, <3>3 DEF Follows
  <2>2. CASE ~(position + n >= Len(output))
    <3>1. position' = position + n /\ output' = output
      BY <1>5, <2>2
    <3>2. /\ position + n \in 0 .. Len(output)
          /\ Len(output) - (position + n) = Len(output) - position - n
      BY <1>2, <2>2
    <3>. QED BY <1>1, <1>3, <3>1, <3>2
  <2>. QED BY <2>1, <2>2
<1>13. Len(output') - position' = Len(output) - position - n
  BY <1>12
<1>14. Len(output') \in Nat /\ position' \in Nat
  BY <1>12
<1>15. written' = written /\ ends' = ends
  BY <1>6
<1>16. written' = read + Len(buffer) + Len(sock') + Len(output') - position'
  BY <1>2, <1>11, <1>13, <1>14, <1>15
<1>17. written' \in Nat /\ written' >= written
  BY <1>2, <1>15
<1>. QED BY <1>6, <1>10, <1>12, <1>15, <1>16, <1>17, SenderKeeps

-----------------------------------------------------------------------------
(***************************************************************************)
(* The reader's steps                                                      *)
(***************************************************************************)

\* The reader is told that there is something to read.
LEMMA ReaderPolledStep == ASSUME IInv, ReaderPolled PROVE IInv'
<1>1. /\ pc = "loop" /\ pc' = "reading" /\ count' = 0
      /\ UNCHANGED <<output, position, sock, buffer, line, written, read, cut, ends>>
  BY DEF ReaderPolled, senderVars
<1>2. Counted'
  BY <1>1, BufferAssumption DEF Counted, Limit
<1>3. Types' /\ InTransit' /\ LineSoFar'
  BY <1>1 DEF IInv, Types, InTransit, LineSoFar, Follows, PCs
<1>. QED BY <1>2, <1>3 DEF IInv

\* process_read() reads a chunk.
LEMMA ReadChunkStep == ASSUME IInv, ReadChunk PROVE IInv'
<1>. DEFINE r == Min(Chunk, Len(sock))
<1>1. sock \in Seq(Nat) /\ Follows(sock, read + Len(buffer))
  BY DEF IInv, Types, InTransit
<1>2. /\ pc = "reading" /\ pc' = "parsing"
      /\ buffer' = SubSeq(sock, 1, r) /\ sock' = SubSeq(sock, r + 1, Len(sock))
      /\ UNCHANGED <<output, position, line, count, written, read, cut, ends>>
  BY DEF ReadChunk, senderVars, From
<1>3. buffer = <<>> /\ Len(buffer) = 0
  BY <1>2 DEF IInv, LineSoFar
<1>4. /\ written \in Nat /\ read \in Nat /\ count \in Nat
      /\ Len(sock) \in Nat /\ Len(output) \in Nat /\ position \in Nat
      /\ written = read + Len(buffer) + Len(sock) + Len(output) - position
  BY Sizes
<1>5. r \in Nat /\ r <= Len(sock) /\ r <= Chunk
  BY <1>4, BufferAssumption DEF Min
<1>. HIDE DEF r
<1>6. /\ 1 \in 1 .. Len(sock) + 1 /\ r \in 1 - 1 .. Len(sock) /\ r - 1 + 1 = r
      /\ r + 1 \in 1 .. Len(sock) + 1 /\ Len(sock) \in (r + 1) - 1 .. Len(sock)
      /\ Len(sock) - (r + 1) + 1 = Len(sock) - r
      /\ read + Len(buffer) = read /\ read \in Int
      /\ read + 1 - 1 = read /\ read + (r + 1) - 1 = read + r
  BY <1>3, <1>4, <1>5
<1>7. buffer' \in Seq(Nat) /\ Len(buffer') = r /\ Follows(buffer', read)
  BY <1>1, <1>2, <1>6, FollowsSub
<1>8. sock' \in Seq(Nat) /\ Len(sock') = Len(sock) - r /\ Follows(sock', read + r)
  BY <1>1, <1>2, <1>6, FollowsSub
<1>9. Len(buffer') = r /\ Len(sock') = Len(sock) - r
  BY <1>7, <1>8
<1>10. written' = read' + Len(buffer') + Len(sock') + Len(output') - position'
  <2>1. written = read + r + (Len(sock) - r) + Len(output) - position
    BY <1>3, <1>4, <1>5
  <2>. QED BY <1>2, <1>9, <2>1
<1>11. Types'
  BY <1>2, <1>7, <1>8 DEF IInv, Types, PCs
<1>12. InTransit'
  BY <1>2, <1>7, <1>8, <1>9, <1>10 DEF IInv, InTransit, Follows
<1>13. LineSoFar'
  BY <1>2 DEF IInv, LineSoFar, Follows
<1>14. Counted'
  <2>1. count < Limit
    BY <1>2 DEF IInv, Counted
  <2>2. Limit \in Nat
    BY BufferAssumption DEF Limit
  <2>3. count + r < Chunk + Limit /\ count < Chunk + Limit
    BY <1>4, <1>5, <2>1, <2>2, BufferAssumption
  <2>. QED BY <1>2, <1>9, <2>3 DEF Counted, Limit
<1>. QED BY <1>11, <1>12, <1>13, <1>14 DEF IInv

\* Nothing is left to read, read() fails, or the pass ends.
LEMMA EndReadingStep ==
  ASSUME IInv, ReadNothing \/ ReadError \/ EndRead
  PROVE  IInv'
<1>1. /\ pc \in {"reading", "hup"} /\ pc' \in {"hup", "loop"}
      /\ UNCHANGED <<output, position, sock, buffer, line, count, written, read, cut, ends>>
  BY DEF ReadNothing, ReadError, EndRead, senderVars
<1>. QED BY <1>1 DEF IInv, Types, InTransit, LineSoFar, Counted, Limit, Follows, PCs

\* A line ends in what was read.
LEMMA FoundLineStep == ASSUME IInv, FoundLine PROVE IInv'
<1>1. PICK i \in Nat :
        /\ 1 <= i /\ i <= Len(buffer)
        /\ buffer[i] \in ends
        /\ \A j \in 1 .. i - 1 : buffer[j] \notin ends
        /\ line' = line \o SubSeq(buffer, 1, i - 1)
        /\ buffer' = SubSeq(buffer, i + 1, Len(buffer))
        /\ read' = buffer[i]
  <2>1. Len(buffer) \in Nat /\ DOMAIN buffer = 1 .. Len(buffer)
    BY DEF IInv, Types
  <2>2. \A i \in DOMAIN buffer : i \in Nat /\ 1 <= i /\ i <= Len(buffer)
    BY <2>1
  <2>. QED BY <2>2 DEF FoundLine, From
<1>2. /\ pc = "parsing" /\ pc' = "line"
      /\ UNCHANGED <<output, position, sock, count, written, cut, ends>>
  BY DEF FoundLine, senderVars
<1>3. buffer \in Seq(Nat) /\ line \in Seq(Nat) /\ Follows(buffer, read) /\ Follows(line, cut)
  BY DEF IInv, Types, InTransit, LineSoFar
<1>4. /\ written \in Nat /\ read \in Nat /\ cut \in Nat /\ count \in Nat
      /\ Len(buffer) \in Nat /\ Len(sock) \in Nat /\ Len(output) \in Nat
      /\ position \in Nat /\ Len(line) \in Nat
      /\ written = read + Len(buffer) + Len(sock) + Len(output) - position
  BY Sizes
<1>5. Len(line) = read - cut
  BY <1>2 DEF IInv, LineSoFar
<1>6. i \in Nat /\ 1 <= i /\ i <= Len(buffer)
  BY <1>1
<1>7. read' = read + i
  BY <1>1, <1>3, <1>6 DEF Follows
<1>8. /\ 1 \in 1 .. Len(buffer) + 1 /\ i - 1 \in 1 - 1 .. Len(buffer)
      /\ (i - 1) - 1 + 1 = i - 1 /\ read + 1 - 1 = read /\ read = cut + Len(line)
      /\ i + 1 \in 1 .. Len(buffer) + 1 /\ Len(buffer) \in (i + 1) - 1 .. Len(buffer)
      /\ Len(buffer) - (i + 1) + 1 = Len(buffer) - i /\ read + (i + 1) - 1 = read + i
      /\ read \in Int /\ cut \in Int
  BY <1>4, <1>5, <1>6
<1>9. /\ SubSeq(buffer, 1, i - 1) \in Seq(Nat) /\ Len(SubSeq(buffer, 1, i - 1)) = i - 1
      /\ Follows(SubSeq(buffer, 1, i - 1), read)
  BY <1>3, <1>8, FollowsSub
<1>10. /\ line' \in Seq(Nat) /\ Len(line') = Len(line) + Len(SubSeq(buffer, 1, i - 1))
       /\ Follows(line', cut)
  BY <1>1, <1>3, <1>8, <1>9, FollowsCat
<1>11. /\ buffer' \in Seq(Nat) /\ Len(buffer') = Len(buffer) - i
       /\ Follows(buffer', read + i)
  BY <1>1, <1>3, <1>8, FollowsSub
<1>12. Len(line') = Len(line) + (i - 1) /\ Len(buffer') = Len(buffer) - i
  BY <1>9, <1>10, <1>11
<1>13. Len(line') = read' - cut - 1
  BY <1>4, <1>5, <1>6, <1>7, <1>12
<1>14. read' \in Nat /\ read' + Len(buffer') = read + Len(buffer)
  BY <1>4, <1>6, <1>7, <1>12
<1>15. \A e \in ends : e <= cut \/ e > cut + Len(line')
  <2>. SUFFICES ASSUME NEW e \in ends, e > cut, e <= cut + Len(line')
                PROVE  FALSE
    <3>1. \A e \in ends : e \in Int
      BY DEF IInv, Types
    <3>. QED BY <1>4, <1>6, <1>12, <3>1
  <2>1. e \in Int
    BY DEF IInv, Types
  <2>2. e <= cut \/ e > cut + Len(line)
    BY DEF IInv, LineSoFar
  <2>3. e - read \in 1 .. i - 1
    BY <1>4, <1>5, <1>6, <1>12, <2>1, <2>2
  <2>4. e - read \in 1 .. Len(buffer) /\ read + (e - read) = e
    BY <1>4, <1>6, <2>1, <2>3
  <2>5. buffer[e - read] = e
    BY <1>3, <2>4 DEF Follows
  <2>. QED BY <1>1, <2>3, <2>5
<1>16. Types'
  BY <1>2, <1>10, <1>11, <1>14 DEF IInv, Types, PCs
<1>17. InTransit'
  <2>1. written = read' + Len(buffer') + Len(sock) + Len(output) - position
    <3>1. Len(buffer') \in Nat
      BY <1>4, <1>6, <1>12
    <3>. QED BY <1>4, <1>14, <3>1
  <2>2. Follows(buffer', read') /\ Follows(sock', read' + Len(buffer'))
    BY <1>2, <1>7, <1>11, <1>14 DEF IInv, InTransit
  <2>. QED BY <1>2, <2>1, <2>2 DEF IInv, InTransit
<1>18. LineSoFar'
  BY <1>2, <1>10, <1>13, <1>15 DEF LineSoFar
<1>19. Counted'
  <2>1. count + Len(buffer) < Chunk + Limit
    BY <1>2 DEF IInv, Counted
  <2>2. Limit \in Nat
    BY BufferAssumption DEF Limit
  <2>3. count + 1 + Len(buffer') < Chunk + Limit /\ count < Chunk + Limit
    BY <1>4, <1>6, <1>12, <2>1, <2>2, BufferAssumption
  <2>. QED BY <1>2, <2>3 DEF Counted, Limit
<1>. QED BY <1>16, <1>17, <1>18, <1>19 DEF IInv

\* process_line() was called with it.
LEMMA EndLineStep == ASSUME IInv, EndLine PROVE IInv'
<1>1. /\ pc = "line" /\ pc' = "parsing" /\ count' = count + 1 /\ line' = <<>> /\ cut' = read
      /\ UNCHANGED <<output, position, sock, buffer, written, read, ends>>
  BY DEF EndLine, senderVars
<1>2. read \in Nat /\ count \in Nat /\ Len(buffer) \in Nat
  BY Sizes
<1>3. Types'
  BY <1>1, <1>2 DEF IInv, Types, PCs
<1>4. InTransit'
  BY <1>1 DEF IInv, InTransit, Follows
<1>5. LineSoFar'
  <2>1. Len(line') = 0 /\ Follows(line', cut') /\ read - read = 0
    BY <1>1, <1>2 DEF Follows
  <2>2. \A e \in ends : e <= read \/ e > read + 0
    <3>1. \A e \in ends : e \in Int
      BY DEF IInv, Types
    <3>. QED BY <1>2, <3>1
  <2>. QED BY <1>1, <2>1, <2>2 DEF LineSoFar
<1>6. Counted'
  <2>1. count + 1 + Len(buffer) < Chunk + Limit
    BY <1>1 DEF IInv, Counted
  <2>2. Limit \in Nat
    BY BufferAssumption DEF Limit
  <2>3. count + 1 < Chunk + Limit
    BY <1>2, <2>1, <2>2, BufferAssumption
  <2>. QED BY <1>1, <2>1, <2>3 DEF Counted, Limit
<1>. QED BY <1>3, <1>4, <1>5, <1>6 DEF IInv

\* The chunk has no other line.
LEMMA EndChunkStep == ASSUME IInv, NEW late \in BOOLEAN, EndChunk(late) PROVE IInv'
<1>1. /\ pc = "parsing" /\ pc' \in {"hup", "reading"} /\ (pc' = "reading" => count < EventLimit)
      /\ line' = line \o buffer /\ buffer' = <<>> /\ read' = read + Len(buffer)
      /\ UNCHANGED <<output, position, sock, count, written, cut, ends>>
  <2>1. pc' = "reading" => ~(count >= EventLimit)
    BY DEF EndChunk, StopReading
  <2>2. count \in Nat /\ EventLimit \in Nat
    BY Sizes, BufferAssumption
  <2>3. pc' = "reading" => count < EventLimit
    BY <2>1, <2>2
  <2>. QED BY <2>3 DEF EndChunk, senderVars
<1>2. \A j \in DOMAIN buffer : buffer[j] \notin ends
  BY DEF EndChunk
<1>3. buffer \in Seq(Nat) /\ line \in Seq(Nat) /\ Follows(buffer, read) /\ Follows(line, cut)
  BY DEF IInv, Types, InTransit, LineSoFar
<1>4. /\ written \in Nat /\ read \in Nat /\ cut \in Nat /\ count \in Nat
      /\ Len(buffer) \in Nat /\ Len(sock) \in Nat /\ Len(output) \in Nat
      /\ position \in Nat /\ Len(line) \in Nat
      /\ written = read + Len(buffer) + Len(sock) + Len(output) - position
  BY Sizes
<1>5. Len(line) = read - cut
  BY <1>1 DEF IInv, LineSoFar
<1>6. read = cut + Len(line) /\ cut \in Int
  BY <1>4, <1>5
<1>7. line' \in Seq(Nat) /\ Len(line') = Len(line) + Len(buffer) /\ Follows(line', cut)
  BY <1>1, <1>3, <1>6, FollowsCat
<1>8. Len(line') = Len(line) + Len(buffer)
  BY <1>7
<1>9. Len(line') = read' - cut /\ read' \in Nat /\ read' + 0 = read + Len(buffer)
  BY <1>1, <1>4, <1>5, <1>8
<1>10. \A e \in ends : e <= cut \/ e > cut + Len(line')
  <2>. SUFFICES ASSUME NEW e \in ends, e > cut, e <= cut + Len(line')
                PROVE  FALSE
    <3>1. \A e \in ends : e \in Int
      BY DEF IInv, Types
    <3>. QED BY <1>4, <1>8, <3>1
  <2>1. e \in Int
    BY DEF IInv, Types
  <2>2. e <= cut \/ e > cut + Len(line)
    BY DEF IInv, LineSoFar
  <2>3. e - read \in 1 .. Len(buffer) /\ read + (e - read) = e
    BY <1>4, <1>5, <1>8, <2>1, <2>2
  <2>4. buffer[e - read] = e /\ e - read \in DOMAIN buffer
    BY <1>3, <2>3 DEF Follows
  <2>. QED BY <1>2, <2>4
<1>11. Types'
  BY <1>1, <1>7, <1>9 DEF IInv, Types, PCs
<1>12. InTransit'
  <2>1. Len(buffer') = 0 /\ Follows(buffer', read')
    BY <1>1 DEF Follows
  <2>2. written = read' + Len(buffer') + Len(sock) + Len(output) - position
    BY <1>1, <1>4, <2>1
  <2>3. Follows(sock', read' + Len(buffer'))
    BY <1>1, <1>9, <2>1 DEF IInv, InTransit
  <2>. QED BY <1>1, <2>1, <2>2, <2>3 DEF IInv, InTransit
<1>13. LineSoFar'
  BY <1>1, <1>7, <1>9, <1>10 DEF LineSoFar
<1>14. Counted'
  <2>1. count < Chunk + Limit
    BY DEF IInv, Counted
  <2>2. pc' = "reading" => count < Limit
    BY <1>1, <1>4, BufferAssumption DEF Limit
  <2>. QED BY <1>1, <2>1, <2>2 DEF Counted, Limit
<1>. QED BY <1>11, <1>12, <1>13, <1>14 DEF IInv

-----------------------------------------------------------------------------
(***************************************************************************)
(* The theorems                                                            *)
(***************************************************************************)

\* The invariant holds at first.
LEMMA InitIInv == Init => IInv
<1>. SUFFICES ASSUME Init PROVE IInv
  OBVIOUS
<1>1. Types /\ InTransit /\ LineSoFar
  BY DEF Init, Types, InTransit, LineSoFar, Follows, PCs
<1>2. Counted
  BY BufferAssumption DEF Init, Counted, Limit
<1>. QED BY <1>1, <1>2 DEF IInv

\* Every step keeps the invariant.
LEMMA NextIInv == IInv /\ [Next]_vars => IInv'
<1>. SUFFICES ASSUME IInv, [Next]_vars PROVE IInv'
  OBVIOUS
<1>1. CASE Sender
  <2>1. ASSUME NEW length \in 1 .. MaxLength, NEW n \in 0 .. length, Write(length, n)
        PROVE  IInv'
    <3>1. length \in Nat /\ length > 0 /\ n \in Nat /\ n <= length
      BY BufferAssumption
    <3>. QED BY <2>1, <3>1, WriteStep
  <2>2. CASE MarkDone \/ SenderClose
    BY <2>2, SameBytes DEF MarkDone, SenderClose, bytes, readerVars
  <2>. QED BY <1>1, <2>1, <2>2, WriteNothingStep DEF Sender
<1>2. CASE SenderWrites
  <2>1. PICK n \in 1 .. Room : ProcessWrite(n)
    BY <1>2 DEF SenderWrites
  <2>2. n \in Nat /\ n > 0
    BY BufferAssumption
  <2>. QED BY <2>1, <2>2, ProcessWriteStep
<1>3. CASE SenderError \/ SenderHup
  BY <1>3, SameBytes DEF SenderError, SenderHup, bytes, readerVars
<1>4. CASE ReaderLoop
  BY <1>4, ReaderPolledStep, ReadChunkStep, EndReadingStep, FoundLineStep, EndLineStep,
     EndChunkStep DEF ReaderLoop
<1>5. CASE ReaderClose \/ ReaderRemove
  BY <1>5, SameBytes DEF ReaderClose, ReaderRemove, bytes, senderVars
<1>6. CASE UNCHANGED vars
  BY <1>6, SameBytes DEF vars, bytes, senderVars, readerVars
<1>. QED BY <1>1, <1>2, <1>3, <1>4, <1>5, <1>6 DEF Next

\* The bytes in the reader's chunk, in the socket and in f_output are
\* consecutive parts of the stream, and f_line what precedes them.
THEOREM Invariance == Spec => []IInv
BY InitIInv, NextIInv, PTL DEF Spec

\* Bytes and lines arrive once, in order and whole, however write() and
\* process_read() cut them.
THEOREM StreamSafe == Spec => []StreamIntact
<1>1. IInv => StreamIntact
  <2>. SUFFICES ASSUME IInv PROVE StreamIntact
    OBVIOUS
  <2>1. /\ buffer \in Seq(Nat) /\ sock \in Seq(Nat) /\ output \in Seq(Nat)
        /\ Follows(buffer, read) /\ Follows(sock, read + Len(buffer))
        /\ Follows(output, written - Len(output))
    BY DEF IInv, Types, InTransit
  <2>2. /\ written \in Nat /\ read \in Nat
        /\ Len(buffer) \in Nat /\ Len(sock) \in Nat /\ Len(output) \in Nat
        /\ position \in Nat /\ position <= Len(output)
        /\ written = read + Len(buffer) + Len(sock) + Len(output) - position
    BY Sizes
  <2>3. /\ position + 1 \in 1 .. Len(output) + 1
        /\ Len(output) \in (position + 1) - 1 .. Len(output)
        /\ (written - Len(output)) + (position + 1) - 1 = read + (Len(buffer) + Len(sock))
        /\ Len(output) - (position + 1) + 1 = Len(output) - position
        /\ written - Len(output) \in Int /\ read \in Int
        /\ read + Len(buffer) + Len(sock) = read + (Len(buffer) + Len(sock))
    BY <2>2
  <2>4. /\ Unsent \in Seq(Nat) /\ Len(Unsent) = Len(output) - position
        /\ Follows(Unsent, read + (Len(buffer) + Len(sock)))
    BY <2>1, <2>3, FollowsSub DEF Unsent, From
  <2>5. /\ buffer \o sock \in Seq(Nat) /\ Len(buffer \o sock) = Len(buffer) + Len(sock)
        /\ Follows(buffer \o sock, read)
    BY <2>1, <2>3, FollowsCat
  <2>6. /\ Stream \in Seq(Nat) /\ Len(Stream) = Len(buffer \o sock) + Len(Unsent)
        /\ Follows(Stream, read)
    BY <2>3, <2>4, <2>5, FollowsCat DEF Stream
  <2>7. Len(buffer \o sock) = Len(buffer) + Len(sock) /\ Len(Unsent) = Len(output) - position
    BY <2>4, <2>5
  <2>8. Len(Stream) = Len(buffer \o sock) + Len(Unsent)
    BY <2>6
  <2>9. Len(Stream) = written - read
    BY <2>2, <2>7, <2>8
  <2>10. \A i \in DOMAIN Stream : Stream[i] = read + i
    BY <2>6 DEF Follows
  <2>11. ASSUME pc = "line"
         PROVE  /\ Len(line) = read - cut - 1
                /\ \A i \in DOMAIN line : line[i] = cut + i /\ line[i] \notin ends
    <3>1. Len(line) = read - cut - 1 /\ line \in Seq(Nat) /\ Follows(line, cut)
      BY <2>11 DEF IInv, LineSoFar, Types
    <3>2. \A i \in DOMAIN line : i \in 1 .. Len(line) /\ line[i] = cut + i
      BY <3>1 DEF Follows
    <3>3. cut \in Nat /\ Len(line) \in Nat
      BY Sizes
    <3>4. \A i \in 1 .. Len(line) : cut + i \notin ends
      <4>1. \A e \in ends : e <= cut \/ e > cut + Len(line)
        BY DEF IInv, LineSoFar
      <4>. QED BY <3>3, <4>1
    <3>. QED BY <3>1, <3>2, <3>4
  <2>. QED BY <2>9, <2>10, <2>11 DEF StreamIntact
<1>. QED BY <1>1, Invariance, PTL

\* One call of process_read() handles a bounded number of lines, whatever the
\* peer sends.
THEOREM TurnIsBounded == Spec => []TurnBounded
<1>1. IInv => TurnBounded
  BY DEF IInv, Counted, Limit, TurnBounded
<1>. QED BY <1>1, Invariance, PTL

\* mark_done() never drops what write() was given: the connection leaves the
\* communicator by itself only with an empty f_output.
THEOREM DrainedFirst == Spec => DoneDrainsFirst
<1>1. [Next]_vars => [sIn /\ ~sIn' /\ ~dropped' => Unsent' = <<>>]_vars
  <2>. SUFFICES ASSUME Next, sIn, ~sIn', ~dropped' PROVE Unsent' = <<>>
    OBVIOUS
  <2>1. output' = <<>> /\ position' = 0
    <3>1. CASE Sender
      BY <3>1 DEF Sender, Write, WriteNothing, MarkDone, SenderClose, EmptyBuffer
    <3>2. CASE SenderWrites
      BY <3>2 DEF SenderWrites, ProcessWrite, EmptyBuffer
    <3>3. CASE SenderError \/ SenderHup
      BY <3>3 DEF SenderError, SenderHup
    <3>4. CASE ReaderLoop
      BY <3>4 DEF ReaderLoop, ReaderPolled, ReadChunk, ReadNothing, ReadError, FoundLine,
         EndLine, EndChunk, EndRead, senderVars
    <3>5. CASE ReaderClose \/ ReaderRemove
      BY <3>5 DEF ReaderClose, ReaderRemove, senderVars
    <3>. QED BY <3>1, <3>2, <3>3, <3>4, <3>5 DEF Next
  <2>. QED BY <2>1 DEF Unsent, From
<1>. QED BY <1>1, PTL DEF Spec, DoneDrainsFirst

=============================================================================
