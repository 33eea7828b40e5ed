-------------------------- MODULE InterruptedWrites --------------------------
(***************************************************************************)
(* c/eintr/eintr.c: a writer thread sends blocks of equal bytes down a     *)
(* socket pair, a reader thread takes them off, and the main thread raises *)
(* signals, closes both ends while they are in use and joins the threads.  *)
(* A call holds its end of the pair open after its descriptor is closed.   *)
(*                                                                         *)
(* A byte is known by the data it holds and by its index in the writer's   *)
(* buf; an index past the block is memory the writer does not own.         *)
(***************************************************************************)
EXTENDS Integers, Sequences

CONSTANTS
  Length,     \* sizeof(buf) of the writer, 4096
  BufSize,    \* sizeof(buf) of the reader, 8
  Data,       \* the values of a uint8_t, 256
  Capacity,   \* bytes the socket pair holds
  Raises      \* rounds of the loop that raises SIGUSR1, 1000000

ASSUME SizesArePositive ==
  /\ Length \in Nat \ {0} /\ BufSize \in Nat \ {0} /\ Data \in Nat \ {0}
  /\ Capacity \in Nat \ {0} /\ Raises \in Nat

VARIABLES
  main, raised,             \* where main is, and how often it has raised
  signalled,                \* the threads whose call a signal interrupts
  open,                     \* the ends, 0 and 1, whose descriptor is open
  writer, data, offset, sent,   \* sent: what the write under way has sent so far
  reader,
  buffer, last              \* the bytes in the socket, and the last byte read

mainVars == <<main, raised>>
writerVars == <<writer, data, offset, sent>>
socketVars == <<buffer, last>>
vars == <<mainVars, signalled, open, writerVars, reader, socketVars>>

Running == main # "killed"
InUse(end) == end \in open \/ (IF end = 0 THEN writer = "write" ELSE reader = "read")
Byte(d, i) == [data |-> d, at |-> i]

\* As if a block of the highest value had just been read.
Init ==
  /\ main = "raise" /\ raised = 0
  /\ signalled = {}
  /\ open = {0, 1}
  /\ writer = "loop" /\ data = 0 /\ offset = 0 /\ sent = 0
  /\ reader = "loop"
  /\ buffer = << >> /\ last = Byte(Data - 1, Length - 1)

-----------------------------------------------------------------------------
\* A slip: kill(getpid(), SIGUSR1), which any thread may be given.
AnyThread == {"main", "writer", "reader"}

\* raise signals the thread that calls it.
SignalTargets == {"main"}

\* The handler does nothing: a signal shows only in a call it interrupts.
InCall == {t \in {"writer", "reader"} :
             IF t = "writer" THEN writer = "write" ELSE reader = "read"}

MainRaise ==
  /\ main = "raise" /\ raised < Raises
  /\ raised' = raised + 1
  /\ \E t \in SignalTargets : signalled' = signalled \union ({t} \intersect InCall)
  /\ UNCHANGED <<main, open, writerVars, reader, socketVars>>

\* A slip: the reader's end stays open.
MainCloseOneEnd ==
  /\ main = "raise" /\ raised = Raises
  /\ main' = "close"
  /\ UNCHANGED <<raised, signalled, open, writerVars, reader, socketVars>>

MainCloseReaderEnd ==
  /\ main = "raise" /\ raised = Raises
  /\ open' = open \ {1}
  /\ main' = "close"
  /\ UNCHANGED <<raised, signalled, writerVars, reader, socketVars>>

MainCloseWriterEnd ==
  /\ main = "close"
  /\ open' = open \ {0}
  /\ main' = "join"
  /\ UNCHANGED <<raised, signalled, writerVars, reader, socketVars>>

\* The process returns from main once both threads have ended.
MainJoin ==
  /\ main = "join"
  /\ writer = "ended" /\ reader = "ended"
  /\ main' = "returned"
  /\ UNCHANGED <<raised, signalled, open, writerVars, reader, socketVars>>

-----------------------------------------------------------------------------
WriterEnds ==
  /\ writer' = "ended"
  /\ UNCHANGED <<data, offset, sent>>

\* A closed descriptor is an error that ends the thread.
WriteCall ==
  /\ Running /\ writer = "loop"
  /\ IF 0 \in open
       THEN writer' = "write" /\ sent' = 0 /\ UNCHANGED <<data, offset>>
       ELSE WriterEnds
  /\ UNCHANGED <<mainVars, signalled, open, reader, socketVars>>

\* The kernel takes the bytes of &buf[offset], waiting for room.
WriteByte ==
  /\ Running /\ writer = "write" /\ InUse(1)
  /\ sent < Length /\ Len(buffer) < Capacity
  /\ buffer' = Append(buffer, Byte(data, offset + sent))
  /\ sent' = sent + 1
  /\ UNCHANGED <<mainVars, signalled, open, writer, data, offset, reader, last>>

\* A signal and the death of the peer cut a write short.
CutShort == ~InUse(1) \/ "writer" \in signalled

\* Then comes the next block or, after a short count, the rest of this one: the
\* offset moves by what was not sent, and as many bytes as ever are asked for.
\* A signal before the first byte is EINTR, and the call is made again.
WriteReturns ==
  /\ Running /\ writer = "write"
  /\ \/ sent = Length /\ data' = (data + 1) % Data /\ offset' = 0
     \/ sent \in 1 .. Length - 1 /\ CutShort /\ offset' = offset + (Length - sent) /\ UNCHANGED data
     \/ sent = 0 /\ "writer" \in signalled /\ UNCHANGED <<data, offset>>
  /\ writer' = "loop"
  /\ signalled' = signalled \ {"writer"}
  /\ UNCHANGED <<mainVars, open, sent, reader, socketVars>>

\* With no one to read and nothing sent, SIGPIPE ends the process, or the error
\* (a connection reset, where bytes were left unread) ends the thread.
WriteBroken ==
  /\ Running /\ writer = "write" /\ sent = 0 /\ ~InUse(1)
  /\ \/ main' = "killed" /\ UNCHANGED writerVars
     \/ WriterEnds /\ UNCHANGED main
  /\ UNCHANGED <<raised, signalled, open, reader, socketVars>>

-----------------------------------------------------------------------------
ReadCall ==
  /\ Running /\ reader = "loop"
  /\ reader' = IF 1 \in open THEN "read" ELSE "ended"
  /\ UNCHANGED <<mainVars, signalled, open, writerVars, socketVars>>

ReadBytes ==
  /\ Running /\ reader = "read"
  /\ \E n \in 1 .. BufSize :
       /\ n <= Len(buffer)
       /\ last' = buffer[n]
       /\ buffer' = SubSeq(buffer, n + 1, Len(buffer))
  /\ reader' = "loop"
  /\ signalled' = signalled \ {"reader"}
  /\ UNCHANGED <<mainVars, open, writerVars>>

\* The end of the stream is read like any other bytes, and EINTR is no more of
\* an event: the loop goes on.
ReadNothing ==
  /\ Running /\ reader = "read"
  /\ (buffer = << >> /\ ~InUse(0)) \/ "reader" \in signalled
  /\ reader' = "loop"
  /\ signalled' = signalled \ {"reader"}
  /\ UNCHANGED <<mainVars, open, writerVars, socketVars>>

-----------------------------------------------------------------------------
Main == MainRaise \/ MainCloseReaderEnd \/ MainCloseWriterEnd \/ MainJoin
Writer == WriteCall \/ WriteByte \/ WriteReturns \/ WriteBroken
Reader == ReadCall \/ ReadBytes \/ ReadNothing
Next == Main \/ Writer \/ Reader

\* The scheduler runs every thread, and the kernel finishes what it can.
Spec == Init /\ [][Next]_vars /\ WF_vars(Main) /\ WF_vars(Writer) /\ WF_vars(Reader)

-----------------------------------------------------------------------------
Bytes == [data : 0 .. Data - 1, at : Nat]

TypeOK ==
  /\ main \in {"raise", "close", "join", "returned", "killed"}
  /\ raised \in 0 .. Raises
  /\ signalled \subseteq AnyThread /\ open \subseteq {0, 1}
  /\ writer \in {"loop", "write", "ended"} /\ reader \in {"loop", "read", "ended"}
  /\ data \in 0 .. Data - 1 /\ offset \in Nat /\ sent \in 0 .. Length
  /\ buffer \in Seq(Bytes) /\ last \in Bytes

Follows(x, y) ==
  IF x.at < Length - 1 THEN y = Byte(x.data, x.at + 1)
  ELSE y = Byte((x.data + 1) % Data, 0)

(* What comes out of the socket is whole blocks of equal bytes, one after  *)
(* another, and no byte of it lies past the writer's buf: although a short *)
(* count makes the loop ask for bytes past the end (line 90), it is only   *)
(* returned when nobody is left to read them, because raise interrupts the *)
(* main thread alone.                                                      *)
StreamIsBlocks ==
  /\ buffer # << >> => Follows(last, buffer[1])
  /\ \A i \in 1 .. Len(buffer) - 1 : Follows(buffer[i], buffer[i + 1])

(* Closing the ends under the two threads (line 175) leaves neither of     *)
(* them in a call for ever, and the program ends: main joins both, or      *)
(* SIGPIPE, which nothing handles, kills it.                               *)
Terminates == <>(main \in {"returned", "killed"})
=============================================================================
