-------------------------- MODULE BufferConnection --------------------------
(***************************************************************************)
(* Two buffered connections (tcp_server_client_buffer_connection and its   *)
(* variants for TCP clients, local streams, pipes and files) at the two    *)
(* ends of a socket: the sender's output buffer, the socket, and the       *)
(* reader, which cuts the stream into lines.                               *)
(*                                                                         *)
(* A byte is named by its position in the stream; `ends` holds the         *)
(* positions of the newlines.  The two ends are in different processes     *)
(* and interleave freely; what each does is driven by its own run().       *)
(***************************************************************************)
EXTENDS Integers, Sequences

CONSTANTS
  Room,         \* bytes the socket holds
  Chunk,        \* size of the buffer of process_read() (1024)
  EventLimit,   \* connection::f_event_limit
  MaxLength,    \* bound: bytes of one line, with its newline
  MaxBytes      \* bound: bytes written to the connection

ASSUME BufferAssumption ==
  /\ Room \in Nat \ {0}
  /\ Chunk \in Nat \ {0}
  /\ EventLimit \in Nat
  /\ MaxLength \in Nat
  /\ MaxBytes \in Nat

VARIABLES
  immediate,    \* sender: write() tries the socket first (TCP connections)
  output,       \* sender: f_output
  position,     \* sender: f_position
  sOpen,        \* sender: valid_socket()
  sIn,          \* sender: in the communicator of its process
  sDone,        \* sender: connection::f_done
  sock,         \* the bytes in the socket
  line,         \* reader: f_line
  buffer,       \* reader: the bytes of `buffer` from `position` on
  count,        \* reader: count_lines
  hup,          \* reader: poll() reported a hang up for this pass
  rOpen,        \* reader: valid_socket()
  rIn,          \* reader: in the communicator of its process
  pc,           \* reader: where its process is (see PCs)
  written,      \* history: bytes accepted by write()
  ends,         \* history: the positions of the newlines among them
  read,         \* history: the position of the last byte of `line` or newline cut off
  cut,          \* history: the newline that ended the last line processed
  dropped       \* history: the sender failed, was closed or removed by its owner

senderVars == <<immediate, output, position, sOpen, sIn, sDone>>
readerVars == <<line, buffer, count, hup, rOpen, rIn, pc>>
vars == <<senderVars, sock, readerVars, written, ends, read, cut, dropped>>

(***************************************************************************)
(* loop      in run(), elsewhere                                           *)
(* reading   process_read(): top of the for(;;)                            *)
(* parsing   process_read(): looking for a newline                         *)
(* line      in process_line()                                             *)
(* hup       process_read() returned                                       *)
(***************************************************************************)
PCs == {"loop", "reading", "parsing", "line", "hup"}

Init ==
  /\ immediate \in BOOLEAN
  /\ output = <<>> /\ position = 0
  /\ sOpen = TRUE /\ sIn = TRUE /\ sDone = FALSE
  /\ sock = <<>>
  /\ line = <<>> /\ buffer = <<>> /\ count = 0
  /\ hup = FALSE /\ rOpen = TRUE /\ rIn = TRUE /\ pc = "loop"
  /\ written = 0 /\ ends = {} /\ read = 0 /\ cut = 0
  /\ dropped = FALSE

Min(a, b) == IF a < b THEN a ELSE b

From(s, i) == SubSeq(s, i, Len(s))

\* The socket takes n of the bytes s.
Taken(s, n) ==
  /\ n <= Min(Len(s), Room - Len(sock))
  /\ sock' = sock \o SubSeq(s, 1, n)

-----------------------------------------------------------------------------
(***************************************************************************)
(* The sender                                                              *)
(***************************************************************************)

\* process_write() and write() are done with f_output: process_empty_buffer().
EmptyBuffer ==
  /\ output' = <<>>
  /\ position' = 0
  /\ sIn' = (sIn /\ ~sDone)

\* Mutant: the bytes that left at once are buffered too.
WriteAgain(length, n) ==
  LET data == [i \in 1 .. length |-> written + i] IN
  /\ sOpen
  /\ written + length <= MaxBytes
  /\ written' = written + length
  /\ ends' = ends \cup {written + length}
  /\ n > 0 => immediate /\ output = <<>> /\ rOpen
  /\ Taken(data, n)
  /\ IF n = length
     THEN EmptyBuffer
     ELSE output' = output \o data /\ UNCHANGED <<position, sIn>>
  /\ UNCHANGED <<immediate, sOpen, sDone, readerVars, read, cut, dropped>>

\* write() of a line; n bytes of it leave at once.  A write that fails is
\* found out later, by process_write().
Write(length, n) ==
  LET data == [i \in 1 .. length |-> written + i] IN
  /\ sOpen
  /\ written + length <= MaxBytes
  /\ written' = written + length
  /\ ends' = ends \cup {written + length}
  /\ n > 0 => immediate /\ output = <<>> /\ rOpen
  /\ Taken(data, n)
  /\ IF n = length
     THEN EmptyBuffer
     ELSE output' = output \o From(data, n + 1) /\ UNCHANGED <<position, sIn>>
  /\ UNCHANGED <<immediate, sOpen, sDone, readerVars, read, cut, dropped>>

\* write() of nothing.
WriteNothing ==
  /\ sOpen
  /\ output = <<>>
  /\ EmptyBuffer
  /\ UNCHANGED <<immediate, sOpen, sDone, sock, readerVars, written, ends, read, cut, dropped>>

\* Mutant: process_empty_buffer() after every write.
ProcessWriteEmpties(n) ==
  /\ sIn /\ sOpen /\ output # <<>>
  /\ rOpen
  /\ Taken(From(output, position + 1), n)
  /\ IF position + n >= Len(output)
     THEN EmptyBuffer
     ELSE position' = position + n /\ output' = output /\ sIn' = (sIn /\ ~sDone)
  /\ UNCHANGED <<immediate, sOpen, sDone, readerVars, written, ends, read, cut, dropped>>

\* Mutant: a buffer written in part is not written again.
ProcessWriteOnce(n) ==
  /\ sIn /\ sOpen /\ output # <<>>
  /\ rOpen /\ position = 0
  /\ Taken(output, n)
  /\ IF n >= Len(output)
     THEN EmptyBuffer
     ELSE position' = n /\ UNCHANGED <<output, sIn>>
  /\ UNCHANGED <<immediate, sOpen, sDone, readerVars, written, ends, read, cut, dropped>>

\* process_write(): the socket takes n bytes of what is left.
ProcessWrite(n) ==
  /\ sIn /\ sOpen /\ output # <<>>
  /\ rOpen
  /\ Taken(From(output, position + 1), n)
  /\ IF position + n >= Len(output)
     THEN EmptyBuffer
     ELSE position' = position + n /\ UNCHANGED <<output, sIn>>
  /\ UNCHANGED <<immediate, sOpen, sDone, readerVars, written, ends, read, cut, dropped>>

\* The sender's process_error(), reported by poll() or by the write() of
\* process_write(): the connection is reset.
SenderError ==
  /\ sIn /\ sOpen
  /\ sIn' = FALSE
  /\ dropped' = TRUE
  /\ UNCHANGED <<immediate, output, position, sOpen, sDone, sock, readerVars, written, ends, read, cut>>

\* The sender's process_hup() closes the socket.
SenderHup ==
  /\ sIn /\ sOpen
  /\ ~rOpen
  /\ sIn' = FALSE
  /\ sOpen' = FALSE
  /\ dropped' = TRUE
  /\ UNCHANGED <<immediate, output, position, sDone, sock, readerVars, written, ends, read, cut>>

MarkDone ==
  /\ ~sDone
  /\ sDone' = TRUE
  /\ UNCHANGED <<immediate, output, position, sOpen, sIn, sock, readerVars, written, ends, read, cut, dropped>>

\* close() by the owner of the sender, or the destructor once it was removed
\* and released.
SenderClose ==
  /\ sOpen
  /\ sOpen' = FALSE
  /\ dropped' = (dropped \/ sIn)
  /\ UNCHANGED <<immediate, output, position, sIn, sDone, sock, readerVars, written, ends, read, cut>>

-----------------------------------------------------------------------------
(***************************************************************************)
(* The reader                                                              *)
(***************************************************************************)

\* poll() reports data and, once the sender closed, a hang up: in one pass
\* run() calls process_read() and then process_hup().
ReaderPolled ==
  /\ pc = "loop"
  /\ rIn /\ rOpen
  /\ sock # <<>> \/ ~sOpen
  /\ hup' = ~sOpen
  /\ count' = 0
  /\ pc' = "reading"
  /\ UNCHANGED <<senderVars, sock, line, buffer, rOpen, rIn, written, ends, read, cut, dropped>>

\* read() returned data.
ReadChunk ==
  LET r == Min(Chunk, Len(sock)) IN
  /\ pc = "reading"
  /\ rOpen /\ sock # <<>>
  /\ buffer' = SubSeq(sock, 1, r)
  /\ sock' = From(sock, r + 1)
  /\ pc' = "parsing"
  /\ UNCHANGED <<senderVars, line, count, hup, rOpen, rIn, written, ends, read, cut, dropped>>

\* read() returned 0 or EAGAIN.
ReadNothing ==
  /\ pc = "reading"
  /\ rOpen /\ sock = <<>>
  /\ pc' = "hup"
  /\ UNCHANGED <<senderVars, sock, line, buffer, count, hup, rOpen, rIn, written, ends, read, cut, dropped>>

\* read() failed: the connection is reset, or process_line() closed it.
ReadError ==
  /\ pc = "reading"
  /\ rIn' = FALSE
  /\ pc' = "hup"
  /\ UNCHANGED <<senderVars, sock, line, buffer, count, hup, rOpen, written, ends, read, cut, dropped>>

\* The bytes up to the first newline, then process_line().
FoundLine ==
  /\ pc = "parsing"
  /\ \E i \in DOMAIN buffer :
       /\ buffer[i] \in ends
       /\ \A j \in 1 .. i - 1 : buffer[j] \notin ends
       /\ line' = line \o SubSeq(buffer, 1, i - 1)
       /\ buffer' = From(buffer, i + 1)
       /\ read' = buffer[i]
  /\ pc' = "line"
  /\ UNCHANGED <<senderVars, sock, count, hup, rOpen, rIn, written, ends, cut, dropped>>

\* process_line() returns.
EndLine ==
  /\ pc = "line"
  /\ count' = count + 1
  /\ line' = <<>>
  /\ cut' = read
  /\ pc' = "parsing"
  /\ UNCHANGED <<senderVars, sock, buffer, hup, rOpen, rIn, written, ends, read, dropped>>

\* Mutant: no limit to the number of lines.
StopIfLate(late) == late

\* After every chunk process_read() returns if it reached the limit of lines
\* or of time.
StopReading(late) == late \/ count >= EventLimit

EndChunk(late) ==
  /\ pc = "parsing"
  /\ \A i \in DOMAIN buffer : buffer[i] \notin ends
  /\ line' = line \o buffer
  /\ buffer' = <<>>
  /\ read' = read + Len(buffer)
  /\ pc' = IF StopReading(late) THEN "hup" ELSE "reading"
  /\ UNCHANGED <<senderVars, sock, count, hup, rOpen, rIn, written, ends, cut, dropped>>

\* The rest of the pass: process_hup() closes the socket and removes the
\* connection.
EndRead ==
  /\ pc = "hup"
  /\ rOpen' = (rOpen /\ ~hup)
  /\ rIn' = (rIn /\ ~hup)
  /\ hup' = FALSE
  /\ pc' = "loop"
  /\ UNCHANGED <<senderVars, sock, line, buffer, count, written, ends, read, cut, dropped>>

\* Calls of the reader's owner, from process_line() or elsewhere.
ReaderClose ==
  /\ pc \in {"loop", "line"}
  /\ rOpen
  /\ rOpen' = FALSE
  /\ UNCHANGED <<senderVars, sock, line, buffer, count, hup, rIn, pc, written, ends, read, cut, dropped>>

ReaderRemove ==
  /\ pc \in {"loop", "line"}
  /\ rIn
  /\ rIn' = FALSE
  /\ UNCHANGED <<senderVars, sock, line, buffer, count, hup, rOpen, pc, written, ends, read, cut, dropped>>

-----------------------------------------------------------------------------
Sender ==
  \/ \E length \in 1 .. MaxLength : \E n \in 0 .. length : Write(length, n)
  \/ WriteNothing
  \/ MarkDone
  \/ SenderClose

SenderWrites == \E n \in 1 .. Room : ProcessWrite(n)

ReaderLoop ==
  \/ ReaderPolled
  \/ ReadChunk
  \/ ReadNothing
  \/ ReadError
  \/ FoundLine
  \/ EndLine
  \/ \E late \in BOOLEAN : EndChunk(late)
  \/ EndRead

Next == Sender \/ SenderWrites \/ SenderError \/ SenderHup \/ ReaderLoop \/ ReaderClose \/ ReaderRemove

Spec == Init /\ [][Next]_vars

(***************************************************************************)
(* Fairness: each process goes through its run() loop again and again.     *)
(***************************************************************************)
FairSpec == Spec /\ WF_vars(SenderWrites) /\ WF_vars(ReaderLoop)

-----------------------------------------------------------------------------
(***************************************************************************)
(* Properties                                                              *)
(***************************************************************************)
Unsent == From(output, position + 1)

\* What is between the newline or byte last taken by the reader and the last
\* byte accepted by write(), in the order in which the reader gets it.
Stream == buffer \o sock \o Unsent

\* No byte is lost, doubled or reordered between write() and the reader,
\* however the writes are cut by the socket and by process_read(): the
\* stream in transit is all of what was written and not read; and
\* process_line() gets exactly the bytes between two newlines, none left over
\* from the line before, none missing, whatever chunks they came in.
StreamIntact ==
  /\ Len(Stream) = written - read
  /\ \A i \in DOMAIN Stream : Stream[i] = read + i
  /\ pc = "line" =>
       /\ Len(line) = read - cut - 1
       /\ \A i \in DOMAIN line : line[i] = cut + i /\ line[i] \notin ends

\* mark_done() removes the sender only once all it was given to write has
\* left for the socket: what is still buffered is not dropped.
DoneDrainsFirst == [][sIn /\ ~sIn' /\ ~dropped' => Unsent' = <<>>]_vars

\* One call of process_read() handles a bounded number of lines, so that the
\* other connections get their turn although the peer never stops sending. A
\* limit of 0 acts like a limit of 1: the limit is looked at after a chunk
\* (tcp_server_client_buffer_connection.cpp:236-303).
TurnBounded == count < Chunk + (IF EventLimit = 0 THEN 1 ELSE EventLimit)

\* A line that was written is processed, as long as neither end closes, the
\* reader is not removed, and the sender not removed with data buffered.
LineProcessed ==
  \A n \in 1 .. MaxBytes :
    (n \in ends /\ rOpen /\ rIn)
      ~> (\/ cut >= n
          \/ ~rOpen \/ ~rIn \/ ~sOpen
          \/ ~sIn /\ Unsent # <<>>)

=============================================================================
