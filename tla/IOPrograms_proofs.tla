--------------------------- MODULE IOPrograms_proofs ---------------------------
(***************************************************************************)
(* The programs that do their work in calls another program or thread can  *)
(* disturb: eintr.c (InterruptedWrites), the traceroute and the wiki.      *)
(***************************************************************************)
EXTENDS InterruptedWrites, Traceroute, WikiPages, SequenceTheorems, FiniteSetTheorems, TLAPS

-----------------------------------------------------------------------------
(***************************************************************************)
(* eintr.c, for buffers, sockets and values of any size: what comes out of *)
(* the socket is whole blocks.  While anyone can read, the writer is at    *)
(* the start of its buf (no write was cut short) and its next byte follows *)
(* the newest one in the stream; once nobody can, nothing more is written. *)
(***************************************************************************)
Newest == IF buffer = << >> THEN last ELSE buffer[Len(buffer)]

WriterFollows ==
  InUse(1) =>
    /\ offset = 0
    /\ writer = "write" /\ sent > 0 => Newest = Byte(data, sent - 1)
    /\ writer = "loop" \/ (writer = "write" /\ sent = 0) => Follows(Newest, Byte(data, 0))

IInv == TypeOK /\ StreamIsBlocks /\ signalled = {} /\ WriterFollows

\* A round of the values is as long as there are values.
LEMMA RoundOfValues ==
  /\ (Data - 1 + 1) % Data = 0
  /\ \A d \in 0 .. Data - 1 : (d + 1) % Data \in 0 .. Data - 1
  BY SizesArePositive

\* A byte follows by its index within the block, and by its value after it.
LEMMA ByteFollows ==
  ASSUME NEW d \in 0 .. Data - 1
  PROVE  /\ \A i \in 0 .. Length - 2 : Follows(Byte(d, i), Byte(d, i + 1))
         /\ Follows(Byte(d, Length - 1), Byte((d + 1) % Data, 0))
  BY SizesArePositive DEF Follows, Byte

\* The writer starts as if a round of values had just been read.
LEMMA InitIInv == Init => IInv
<1> SUFFICES ASSUME Init PROVE IInv
  OBVIOUS
<1>1. last = Byte(Data - 1, Length - 1) /\ last \in Bytes
  BY SizesArePositive DEF Init, Byte, Bytes
<1>2. Follows(last, Byte(0, 0))
  BY <1>1, RoundOfValues, ByteFollows, SizesArePositive
<1>3. TypeOK
  BY <1>1, SizesArePositive DEF Init, TypeOK
<1>4. StreamIsBlocks
  BY DEF Init, StreamIsBlocks
<1>5. WriterFollows
  BY <1>2 DEF Init, WriterFollows, Newest
<1> QED
  BY <1>3, <1>4, <1>5 DEF Init, IInv

\* The byte a writer sends follows the stream.
LEMMA WriteByteKeepsStream ==
  ASSUME IInv, WriteByte
  PROVE  IInv'
<1> DEFINE b == Byte(data, offset + sent)
<1>t. TypeOK /\ StreamIsBlocks /\ WriterFollows /\ signalled = {}
  BY DEF IInv
<1>1. /\ writer = "write" /\ InUse(1) /\ sent < Length
      /\ buffer' = Append(buffer, b) /\ sent' = sent + 1
      /\ main' = main /\ raised' = raised /\ signalled' = signalled /\ open' = open
      /\ writer' = writer /\ data' = data /\ offset' = offset /\ reader' = reader /\ last' = last
  BY DEF WriteByte, mainVars
<1>2. offset = 0 /\ data \in 0 .. Data - 1 /\ sent \in 0 .. Length
  BY <1>t, <1>1 DEF WriterFollows, TypeOK
<1>3. b = Byte(data, sent) /\ b \in Bytes
  BY <1>2 DEF Byte, Bytes
<1>4. Follows(Newest, b)
  <2>1. CASE sent = 0
    BY <1>t, <1>1, <1>3, <2>1 DEF WriterFollows
  <2>2. CASE sent > 0
    <3>1. Newest = Byte(data, sent - 1) /\ sent - 1 \in 0 .. Length - 2
      BY <1>t, <1>1, <1>2, <2>2, SizesArePositive DEF WriterFollows
    <3>2. Follows(Byte(data, sent - 1), Byte(data, sent - 1 + 1)) /\ sent - 1 + 1 = sent
      BY <1>2, <3>1, ByteFollows
    <3> QED
      BY <1>3, <3>1, <3>2
  <2> QED
    BY <1>2, <2>1, <2>2
<1>5. buffer \in Seq(Bytes)
  BY <1>t DEF TypeOK
<1>6. /\ buffer' \in Seq(Bytes) /\ Len(buffer') = Len(buffer) + 1
      /\ buffer'[Len(buffer) + 1] = b
      /\ \A i \in 1 .. Len(buffer) : buffer'[i] = buffer[i]
  BY <1>1, <1>3, <1>5
<1>7. StreamIsBlocks'
  <2>1. Follows(last, buffer'[1])
    <3>1. CASE buffer = << >>
      BY <1>4, <1>6, <3>1 DEF Newest
    <3>2. CASE buffer # << >>
      BY <1>t, <1>5, <1>6, <3>2 DEF StreamIsBlocks
    <3> QED
      BY <3>1, <3>2
  <2>2. ASSUME NEW i \in 1 .. Len(buffer') - 1
        PROVE  Follows(buffer'[i], buffer'[i + 1])
    <3>1. CASE i = Len(buffer)
      BY <1>4, <1>5, <1>6, <2>2, <3>1 DEF Newest
    <3>2. CASE i \in 1 .. Len(buffer) - 1
      BY <1>t, <1>5, <1>6, <3>2 DEF StreamIsBlocks
    <3> QED
      BY <1>5, <1>6, <2>2, <3>1, <3>2
  <2> QED
    BY <1>1, <2>1, <2>2 DEF StreamIsBlocks, Follows, Byte
<1>8. Newest' = Byte(data, sent) /\ sent' - 1 = sent /\ sent' > 0
  BY <1>1, <1>2, <1>3, <1>5, <1>6 DEF Newest
<1>9. WriterFollows'
  BY <1>1, <1>2, <1>8 DEF WriterFollows, Byte, Follows
<1>10. TypeOK'
  <2>1. sent' \in 0 .. Length
    BY <1>1, <1>2, SizesArePositive
  <2> QED
    BY <1>t, <1>1, <1>6, <2>1 DEF TypeOK, AnyThread
<1> QED
  BY <1>t, <1>1, <1>7, <1>9, <1>10 DEF IInv

\* What is read is the front of the stream; its end stays where it was.
LEMMA ReadBytesKeepsStream ==
  ASSUME IInv, ReadBytes
  PROVE  IInv'
<1>t. TypeOK /\ StreamIsBlocks /\ WriterFollows /\ signalled = {}
  BY DEF IInv
<1>1. PICK n \in 1 .. BufSize :
        /\ n <= Len(buffer)
        /\ last' = buffer[n]
        /\ buffer' = SubSeq(buffer, n + 1, Len(buffer))
  BY DEF ReadBytes
<1>2. /\ reader = "read" /\ reader' = "loop" /\ signalled' = {}
      /\ main' = main /\ raised' = raised /\ open' = open
      /\ writer' = writer /\ data' = data /\ offset' = offset /\ sent' = sent
  BY <1>t DEF ReadBytes, mainVars, writerVars
<1>3. buffer \in Seq(Bytes) /\ n \in 1 .. Len(buffer) /\ Len(buffer) \in Nat
  BY <1>1, <1>t, SizesArePositive DEF TypeOK
<1>4. /\ buffer' \in Seq(Bytes) /\ Len(buffer') = Len(buffer) - n
      /\ \A i \in 1 .. Len(buffer) - n : buffer'[i] = buffer[i + n]
  BY <1>1, <1>3
<1>5. StreamIsBlocks'
  <2>1. buffer' # << >> => Follows(buffer[n], buffer'[1])
    BY <1>t, <1>3, <1>4 DEF StreamIsBlocks
  <2>2. ASSUME NEW i \in 1 .. Len(buffer') - 1
        PROVE  Follows(buffer'[i], buffer'[i + 1])
    <3>1. i + n \in 1 .. Len(buffer) - 1 /\ i + n + 1 = i + 1 + n
      BY <1>3, <1>4, <2>2
    <3>2. Follows(buffer[i + n], buffer[i + n + 1])
      BY <1>t, <3>1 DEF StreamIsBlocks
    <3>3. buffer'[i] = buffer[i + n] /\ buffer'[i + 1] = buffer[i + n + 1]
      BY <1>3, <1>4, <2>2, <3>1
    <3> QED
      BY <3>2, <3>3
  <2> QED
    BY <1>1, <2>1, <2>2 DEF StreamIsBlocks, Follows, Byte
<1>6. Newest' = Newest
  <2>1. CASE n = Len(buffer)
    <3>1. buffer' = << >> /\ buffer # << >>
      BY <1>3, <1>4, <2>1
    <3> QED
      BY <1>1, <2>1, <3>1 DEF Newest
  <2>2. CASE n # Len(buffer)
    <3>1. Len(buffer) - n \in 1 .. Len(buffer) - n /\ Len(buffer) - n + n = Len(buffer)
      BY <1>3, <2>2
    <3>2. buffer'[Len(buffer')] = buffer[Len(buffer)]
      BY <1>4, <3>1
    <3>3. buffer' # << >> /\ buffer # << >>
      BY <1>3, <1>4, <3>1
    <3> QED
      BY <3>2, <3>3 DEF Newest
  <2> QED
    BY <2>1, <2>2
<1>7. InUse(1)' => InUse(1)
  BY <1>2 DEF InUse
<1>8. WriterFollows'
  BY <1>t, <1>2, <1>6, <1>7 DEF WriterFollows, Byte, Follows
<1>9. last' \in Bytes
  BY <1>1, <1>3
<1>10. TypeOK'
  BY <1>t, <1>2, <1>4, <1>9 DEF TypeOK, Bytes, AnyThread
<1> QED
  BY <1>2, <1>5, <1>8, <1>10 DEF IInv

\* A step that leaves the socket alone keeps the stream.
LEMMA SameSocketKeepsStream ==
  ASSUME StreamIsBlocks, UNCHANGED socketVars
  PROVE  StreamIsBlocks' /\ Newest' = Newest
  BY DEF StreamIsBlocks, Newest, socketVars, Follows, Byte

\* Every step keeps the invariant.
LEMMA NextIInv == IInv /\ [Next]_vars => IInv'
<1> SUFFICES ASSUME IInv, [Next]_vars PROVE IInv'
  OBVIOUS
<1>t. TypeOK /\ StreamIsBlocks /\ WriterFollows /\ signalled = {}
  BY DEF IInv
<1>1. CASE MainRaise
  <2>1. /\ raised' \in 0 .. Raises /\ main' = main /\ open' = open /\ UNCHANGED socketVars
        /\ writer' = writer /\ data' = data /\ offset' = offset /\ sent' = sent
        /\ reader' = reader /\ buffer' = buffer /\ last' = last
    BY <1>1, <1>t, SizesArePositive DEF MainRaise, TypeOK, writerVars, socketVars
  <2>2. signalled' = {}
    BY <1>1, <1>t DEF MainRaise, SignalTargets, InCall
  <2>3. InUse(1)' = InUse(1)
    BY <2>1 DEF InUse
  <2> QED
    BY <1>t, <2>1, <2>2, <2>3, SameSocketKeepsStream
    DEF IInv, TypeOK, WriterFollows, Bytes, AnyThread, Follows, Byte
<1>2. CASE MainCloseReaderEnd \/ MainCloseWriterEnd \/ MainJoin
  <2>1. /\ raised' = raised /\ UNCHANGED socketVars /\ signalled' = signalled
        /\ writer' = writer /\ data' = data /\ offset' = offset /\ sent' = sent
        /\ reader' = reader /\ buffer' = buffer /\ last' = last
        /\ open' \subseteq open /\ main' \in {"close", "join", "returned"}
    BY <1>2 DEF MainCloseReaderEnd, MainCloseWriterEnd, MainJoin, writerVars, socketVars
  <2>2. InUse(1)' => InUse(1)
    BY <2>1 DEF InUse
  <2> QED
    BY <1>t, <2>1, <2>2, SameSocketKeepsStream
    DEF IInv, TypeOK, WriterFollows, Bytes, AnyThread, Follows, Byte
<1>3. CASE WriteCall
  <2>1. /\ main' = main /\ raised' = raised /\ UNCHANGED socketVars /\ signalled' = signalled
        /\ data' = data /\ offset' = offset /\ open' = open
        /\ reader' = reader /\ buffer' = buffer /\ last' = last
        /\ writer = "loop"
    BY <1>3 DEF WriteCall, WriterEnds, mainVars, socketVars
  <2>2. (writer' = "write" /\ sent' = 0) \/ (writer' = "ended" /\ sent' = sent)
    BY <1>3 DEF WriteCall, WriterEnds
  <2>3. InUse(1)' = InUse(1)
    BY <2>1 DEF InUse
  <2> QED
    BY <1>t, <2>1, <2>2, <2>3, SameSocketKeepsStream, SizesArePositive
    DEF IInv, TypeOK, WriterFollows, Bytes, AnyThread, Follows, Byte
<1>4. CASE WriteByte
  BY <1>4, WriteByteKeepsStream
<1>5. CASE WriteReturns
  <2>1. /\ main' = main /\ raised' = raised /\ UNCHANGED socketVars
        /\ sent' = sent /\ open' = open /\ signalled' = {}
        /\ reader' = reader /\ buffer' = buffer /\ last' = last
        /\ writer = "write" /\ writer' = "loop"
    BY <1>5, <1>t DEF WriteReturns, mainVars, socketVars
  <2>2. InUse(1)' = InUse(1)
    BY <2>1 DEF InUse
  <2>3. CASE sent = Length
    <3>1. data' = (data + 1) % Data /\ offset' = 0
      BY <1>5, <1>t, <2>3, SizesArePositive DEF WriteReturns
    <3>2. data \in 0 .. Data - 1 /\ data' \in 0 .. Data - 1
      BY <1>t, <3>1, RoundOfValues DEF TypeOK
    <3>3. InUse(1) => Newest = Byte(data, Length - 1)
      BY <1>t, <2>1, <2>3, SizesArePositive DEF WriterFollows
    <3>4. InUse(1) => Follows(Newest, Byte(data', 0))
      BY <3>1, <3>2, <3>3, ByteFollows
    <3> QED
      BY <1>t, <2>1, <2>2, <3>1, <3>2, <3>4, SameSocketKeepsStream
      DEF IInv, TypeOK, WriterFollows, Bytes, AnyThread, Follows, Byte
  <2>4. CASE sent # Length
    <3>1. ~InUse(1) /\ data' = data /\ offset' = offset + (Length - sent) /\ sent \in 1 .. Length - 1
      BY <1>5, <1>t, <2>4 DEF WriteReturns, CutShort
    <3>2. offset' \in Nat
      BY <1>t, <3>1, SizesArePositive DEF TypeOK
    <3> QED
      BY <1>t, <2>1, <2>2, <3>1, <3>2, SameSocketKeepsStream
      DEF IInv, TypeOK, WriterFollows, Bytes, AnyThread
  <2> QED
    BY <2>3, <2>4
<1>6. CASE WriteBroken
  <2>1. /\ raised' = raised /\ UNCHANGED socketVars /\ signalled' = signalled
        /\ data' = data /\ offset' = offset /\ sent' = sent /\ open' = open
        /\ reader' = reader /\ buffer' = buffer /\ last' = last
        /\ ~InUse(1)
    BY <1>6 DEF WriteBroken, WriterEnds, writerVars, socketVars
  <2>2. main' \in {main, "killed"} /\ writer' \in {writer, "ended"}
    BY <1>6 DEF WriteBroken, WriterEnds, writerVars
  <2>3. InUse(1)' = InUse(1)
    BY <2>1 DEF InUse
  <2> QED
    BY <1>t, <2>1, <2>2, <2>3, SameSocketKeepsStream
    DEF IInv, TypeOK, WriterFollows, Bytes, AnyThread
<1>7. CASE ReadCall \/ ReadNothing
  <2>1. /\ main' = main /\ raised' = raised /\ UNCHANGED socketVars /\ signalled' = {}
        /\ writer' = writer /\ data' = data /\ offset' = offset /\ sent' = sent /\ open' = open
        /\ buffer' = buffer /\ last' = last
        /\ reader' \in {"loop", "read", "ended"} /\ (reader' = "read" => 1 \in open)
    BY <1>7, <1>t DEF ReadCall, ReadNothing, mainVars, writerVars, socketVars
  <2>2. InUse(1)' => InUse(1)
    BY <2>1 DEF InUse
  <2> QED
    BY <1>t, <2>1, <2>2, SameSocketKeepsStream
    DEF IInv, TypeOK, WriterFollows, Bytes, AnyThread, Follows, Byte
<1>8. CASE ReadBytes
  BY <1>8, ReadBytesKeepsStream
<1>9. CASE UNCHANGED vars
  <2>1. InUse(1)' = InUse(1) /\ UNCHANGED socketVars
    BY <1>9 DEF InUse, vars, writerVars, socketVars
  <2> QED
    BY <1>t, <1>9, <2>1, SameSocketKeepsStream
    DEF vars, mainVars, writerVars, socketVars, IInv, TypeOK, WriterFollows, Bytes, AnyThread, Follows, Byte
<1> QED
  BY <1>1, <1>2, <1>3, <1>4, <1>5, <1>6, <1>7, <1>8, <1>9 DEF Next, Main, Writer, Reader

\* The inductive invariant holds of every reachable state.
THEOREM WritesInductive == Spec => []IInv
<1> QED
  BY InitIInv, NextIInv, PTL DEF Spec

\* The threads, the counts and the bytes of the socket are what they should be.
THEOREM WritesTypeOK == Spec => []TypeOK
<1>1. IInv => TypeOK
  BY DEF IInv
<1> QED
  BY <1>1, WritesInductive, PTL

\* What comes out of the socket is whole blocks of equal bytes, in order.
THEOREM WritesAreBlocks == Spec => []StreamIsBlocks
<1>1. IInv => StreamIsBlocks
  BY DEF IInv
<1> QED
  BY <1>1, WritesInductive, PTL

-----------------------------------------------------------------------------
(***************************************************************************)
(* The traceroute, for routes of any length.                               *)
(***************************************************************************)
\* The router that answers the echo sent with this time to live, the answers to
\* the echoes up to the n-th, and the first n of the foreign messages.
Nearer(ttl) == IF ttl < Distance THEN ttl ELSE Distance
AnswersTo(n) == {AnswerTo(ttl) : ttl \in 1 .. n}
FirstForeign(n) ==
  {Other} \union {Exceeded(r, -m) : r \in (1 .. Distance) \union {Stranger}, m \in 1 .. n}
Echoes == IF searching = "send" THEN hop - 1 ELSE hop
Names == (0 .. Distance) \union {Stranger}

\* told[k] is the number of the message that the k-th path was named by: that of an
\* echo, that of a foreign message (negative), or 0 if the hop timed out.
Accounted(told) ==
  /\ told \in Seq(Int) /\ Len(told) = Len(paths)
  /\ \A k \in DOMAIN paths :
       /\ told[k] <= k /\ -foreign <= told[k]
       /\ told[k] = 0 => paths[k] = 0
       /\ told[k] > 0 => paths[k] = Nearer(told[k])
       /\ told[k] = k \/ \E i \in 1 .. k : told[i] <= 0
       /\ \A i \in DOMAIN paths : told[i] = told[k] => i = k \/ told[i] = 0
       /\ paths[k] = Distance => k = Len(paths)

\* While the search is under way, only answers to echoes already sent and foreign
\* messages that have come can be read, each once, and none that was read already;
\* and no path names the destination, which would have ended the search.
Unread(told) ==
  /\ Len(paths) = hop - 1 /\ \A k \in DOMAIN paths : paths[k] # Distance
  /\ network \subseteq AnswersTo(Echoes)
  /\ socket \in Seq(AnswersTo(Echoes) \union FirstForeign(foreign))
  /\ \A a \in network : /\ \A k \in DOMAIN paths : told[k] # a.seq
                        /\ \A i \in DOMAIN socket : socket[i].seq # a.seq
  /\ \A i \in DOMAIN socket : socket[i].seq # 0 =>
       /\ \A k \in DOMAIN paths : told[k] # socket[i].seq
       /\ \A j \in DOMAIN socket : socket[j].seq = socket[i].seq => j = i

Traced(told) ==
  /\ SearchTypeOK /\ Accounted(told)
  /\ searching \in {"send", "wait"} => Unread(told)

TracingInv == \E told : Traced(told)

\* A message is known by its number.
LEMMA NumbersOfMessages ==
  /\ \A ttl \in Int : AnswerTo(ttl).seq = ttl /\ AnswerTo(ttl).from = Nearer(ttl)
  /\ \A r, n : Exceeded(r, n).seq = n /\ Exceeded(r, n).from = r
  /\ Other.seq = 0 /\ Other.type = "other"
  /\ \A ttl \in Nat : Nearer(ttl) \in 0 .. Distance
<1>1. Distance \in Nat
  BY ThereAreHops
<1> QED
  BY <1>1 DEF AnswerTo, Exceeded, Reply, Other, Nearer

\* The numbers of echoes are positive, those of foreign messages are not.
LEMMA NumbersAreBounded ==
  ASSUME NEW n \in Nat, NEW f \in Nat, NEW a \in AnswersTo(n) \union FirstForeign(f)
  PROVE  /\ a.seq \in Int /\ -f <= a.seq /\ a.seq <= n
         /\ a \in AnswersTo(n) => a.seq \in 1 .. n /\ a = AnswerTo(a.seq)
         /\ a \notin AnswersTo(n) => a.seq <= 0
<1>1. CASE a \in AnswersTo(n)
  <2>1. PICK ttl \in 1 .. n : a = AnswerTo(ttl)
    BY <1>1 DEF AnswersTo
  <2>2. a.seq = ttl
    BY <2>1, NumbersOfMessages
  <2> QED
    BY <1>1, <2>1, <2>2
<1>2. CASE a \notin AnswersTo(n)
  <2>1. a = Other \/ \E r \in (1 .. Distance) \union {Stranger}, m \in 1 .. f : a = Exceeded(r, -m)
    BY <1>2 DEF FirstForeign
  <2>2. a.seq = 0 \/ \E m \in 1 .. f : a.seq = -m
    BY <2>1, NumbersOfMessages
  <2> QED
    BY <1>2, <2>2
<1> QED
  BY <1>1, <1>2

\* Later there are more of them.
LEMMA MessagesGrow ==
  ASSUME NEW m \in Nat, NEW n \in Nat, m <= n
  PROVE  AnswersTo(m) \subseteq AnswersTo(n) /\ FirstForeign(m) \subseteq FirstForeign(n)
BY DEF AnswersTo, FirstForeign

\* Nothing was sent.
LEMMA TracingInit == ASSUME SearchInit PROVE TracingInv
<1>1. SearchTypeOK
  BY ThereAreHops DEF SearchInit, SearchTypeOK
<1>2. Accounted(<< >>)
  BY DEF SearchInit, Accounted
<1>3. Unread(<< >>)
  BY DEF SearchInit, Unread
<1> QED
  BY <1>1, <1>2, <1>3 DEF TracingInv, Traced

\* What is known of a search that is not over.
LEMMA TracingFacts ==
  ASSUME NEW told, Traced(told), searching \in {"send", "wait"}
  PROVE  /\ Unread(told) /\ SearchTypeOK /\ Accounted(told)
         /\ hop \in Nat \ {0} /\ hop <= MaxHop /\ MaxHop \in Nat /\ Distance \in Nat \ {0}
         /\ foreign \in Nat /\ paths \in Seq(Names) /\ told \in Seq(Int) /\ Echoes \in Nat
         /\ DOMAIN paths = 1 .. hop - 1 /\ DOMAIN told = 1 .. hop - 1
         /\ Len(paths) = hop - 1 /\ Len(told) = hop - 1
         /\ \A k \in 1 .. hop - 1 : told[k] \in Int
<1>1. Unread(told) /\ SearchTypeOK /\ Accounted(told)
  BY DEF Traced
<1>2. /\ hop \in Nat \ {0} /\ hop <= MaxHop /\ MaxHop \in Nat /\ Distance \in Nat \ {0}
      /\ foreign \in Nat
  BY <1>1, ThereAreHops DEF SearchTypeOK
<1>3. paths \in Seq(Names) /\ Len(paths) = hop - 1 /\ told \in Seq(Int) /\ Len(told) = hop - 1
  BY <1>1 DEF SearchTypeOK, Names, Unread, Accounted
<1>4. DOMAIN paths = 1 .. hop - 1 /\ DOMAIN told = 1 .. hop - 1 /\ \A k \in DOMAIN told : told[k] \in Int
  <2> HIDE DEF Names
  <2> QED
    BY <1>2, <1>3
<1> QED
  BY <1>1, <1>2, <1>3, <1>4 DEF Echoes

\* The echo that is sent has a number of its own.
LEMMA SendKeeps ==
  ASSUME NEW told, Traced(told), SendEcho \/ SendUnanswered
  PROVE  Traced(told)'
<1>1. /\ searching = "send" /\ searching' = "wait" /\ UNCHANGED <<hop, paths, socket, replyTTL, foreign>>
      /\ network' \in {network, network \union {AnswerTo(hop)}}
  BY DEF SendEcho, SendUnanswered
<1>2. Echoes = hop - 1 /\ Echoes' = hop
  BY <1>1 DEF Echoes
<1>3. /\ AnswersTo(hop - 1) \subseteq AnswersTo(hop) /\ AnswerTo(hop) \in AnswersTo(hop)
      /\ AnswerTo(hop).seq = hop /\ hop \in 1 .. MaxHop
  BY <1>1, TracingFacts, MessagesGrow, NumbersOfMessages DEF AnswersTo
<1>4. \A k \in DOMAIN paths : told[k] # hop
  BY <1>1, TracingFacts DEF Accounted
<1>5. socket \in Seq(AnswersTo(hop - 1) \union FirstForeign(foreign)) /\ network \subseteq AnswersTo(hop - 1)
  BY <1>1, <1>2, TracingFacts DEF Unread
<1>6. \A i \in DOMAIN socket : socket[i].seq # hop
  <2>1. \A i \in DOMAIN socket : socket[i] \in AnswersTo(hop - 1) \union FirstForeign(foreign)
    BY <1>5
  <2>2. hop - 1 \in Nat /\ foreign \in Nat
    BY <1>1, TracingFacts
  <2>3. \A i \in DOMAIN socket : socket[i].seq \in Int /\ socket[i].seq <= hop - 1
    BY <2>1, <2>2, NumbersAreBounded
  <2> QED
    BY <2>2, <2>3
<1>7. Unread(told)'
  <2>1. \A a \in network' : /\ \A k \in DOMAIN paths : told[k] # a.seq
                            /\ \A i \in DOMAIN socket : socket[i].seq # a.seq
    BY <1>1, <1>3, <1>4, <1>6, TracingFacts DEF Unread
  <2>2. network' \subseteq AnswersTo(hop)
    BY <1>1, <1>3, <1>5
  <2>3. socket \in Seq(AnswersTo(hop) \union FirstForeign(foreign))
    BY <1>3, <1>5
  <2>4. AnswersTo(Echoes)' = AnswersTo(hop) /\ FirstForeign(foreign)' = FirstForeign(foreign)
    BY <1>1, <1>2 DEF AnswersTo, FirstForeign
  <2> QED
    BY <1>1, <2>1, <2>2, <2>3, <2>4, TracingFacts DEF Unread
<1>8. SearchTypeOK'
  <2>1. AnswerTo(hop) \in {AnswerTo(ttl) : ttl \in 1 .. MaxHop}
    BY <1>3
  <2> QED
    BY <1>1, <2>1, TracingFacts DEF SearchTypeOK
<1>9. Accounted(told)'
  BY <1>1, TracingFacts DEF Accounted
<1> QED
  BY <1>7, <1>8, <1>9 DEF Traced

\* A message that arrives was on its way, or is a foreign one with a number of its own.
LEMMA ArriveKeeps ==
  ASSUME NEW told, Traced(told), Arrive \/ ArriveForeign
  PROVE  Traced(told)'
<1> DEFINE Before == AnswersTo(Echoes) \union FirstForeign(foreign)
           After == AnswersTo(Echoes) \union FirstForeign(foreign')
<1>1. /\ searching \in {"send", "wait"} /\ UNCHANGED <<searching, hop, paths, replyTTL>>
      /\ foreign' \in {foreign, foreign + 1} /\ foreign' \in 0 .. MaxForeign
  BY TracingFacts, ThereAreHops DEF Arrive, ArriveForeign, Traced, SearchTypeOK
<1>2. PICK a : /\ socket' = Append(socket, a)
               /\ \/ a \in network /\ network' = network \ {a} /\ foreign' = foreign
                  \/ /\ network' = network /\ foreign' = foreign + 1
                     /\ \/ a = Other
                        \/ \E r \in (1 .. Distance) \union {Stranger} : a = Exceeded(r, -foreign')
  <2>1. CASE Arrive
    BY <2>1 DEF Arrive
  <2>2. CASE ArriveForeign
    BY <2>2 DEF ArriveForeign
  <2> QED
    BY <2>1, <2>2
<1>3. /\ foreign \in Nat /\ foreign' \in Nat /\ foreign <= foreign' /\ Echoes \in Nat /\ Echoes' = Echoes
      /\ socket \in Seq(Before) /\ network \subseteq AnswersTo(Echoes) /\ DOMAIN paths = 1 .. hop - 1
  BY <1>1, TracingFacts DEF Unread, Echoes
<1>4. Before \subseteq After
  BY <1>3, MessagesGrow
<1>5. /\ a \in After
      /\ \/ a \in network /\ network' = network \ {a}
         \/ a.seq = 0 \/ a.seq = -(foreign + 1)
  <2>1. CASE a \in network /\ network' = network \ {a}
    BY <1>3, <1>4, <2>1
  <2>2. CASE a = Other
    BY <2>2, NumbersOfMessages DEF FirstForeign
  <2>3. ASSUME foreign' = foreign + 1, NEW r \in (1 .. Distance) \union {Stranger}, a = Exceeded(r, -foreign')
        PROVE  a \in After /\ a.seq = -(foreign + 1)
    <3>1. foreign' \in 1 .. foreign'
      BY <1>3, <2>3
    <3> QED
      BY <2>3, <3>1, NumbersOfMessages DEF FirstForeign
  <2> QED
    BY <1>2, <2>1, <2>2, <2>3
<1>6. /\ socket' \in Seq(After)
      /\ DOMAIN socket = 1 .. Len(socket) /\ Len(socket) \in Nat
      /\ DOMAIN socket' = DOMAIN socket \union {Len(socket) + 1} /\ Len(socket) + 1 \notin DOMAIN socket
      /\ socket'[Len(socket) + 1] = a
      /\ \A i \in DOMAIN socket : socket'[i] = socket[i] /\ socket[i] \in Before
  <2> HIDE DEF Before, After
  <2>1. a \in After /\ socket \in Seq(After) /\ socket \in Seq(Before)
    BY <1>3, <1>4, <1>5
  <2>2. /\ Append(socket, a) \in Seq(After) /\ Len(Append(socket, a)) = Len(socket) + 1
        /\ \A i \in 1 .. Len(socket) : Append(socket, a)[i] = socket[i]
        /\ Append(socket, a)[Len(socket) + 1] = a
    BY <2>1, AppendProperties
  <2>3. DOMAIN socket = 1 .. Len(socket) /\ Len(socket) \in Nat /\ \A i \in DOMAIN socket : socket[i] \in Before
    BY <2>1
  <2>4. DOMAIN Append(socket, a) = 1 .. Len(socket) + 1
    BY <2>2
  <2> QED
    BY <1>2, <2>2, <2>3, <2>4
<1>7. \A i \in DOMAIN socket : socket[i].seq \in Int /\ -foreign <= socket[i].seq
  BY <1>3, <1>6, NumbersAreBounded
<1>8. \A b \in network : b.seq \in 1 .. Echoes /\ b = AnswerTo(b.seq)
  BY <1>3, NumbersAreBounded
<1>9. \A k \in DOMAIN paths : told[k] \in Int /\ -foreign <= told[k]
  BY <1>1, TracingFacts DEF Accounted
<1>10. ASSUME a.seq # 0
       PROVE  /\ \A k \in DOMAIN paths : told[k] # a.seq
              /\ \A i \in DOMAIN socket : socket[i].seq # a.seq
  <2>1. CASE a \in network
    BY <1>1, <2>1, TracingFacts DEF Unread
  <2>2. CASE a.seq = -(foreign + 1)
    BY <1>3, <1>7, <1>9, <2>2
  <2> QED
    BY <1>5, <1>10, <2>1, <2>2
<1>11. ASSUME NEW b \in network'
       PROVE  /\ \A k \in DOMAIN paths : told[k] # b.seq
              /\ \A i \in DOMAIN socket' : socket'[i].seq # b.seq
  <2>1. b \in network /\ b.seq \in 1 .. Echoes /\ b = AnswerTo(b.seq)
    BY <1>2, <1>8
  <2>2. a.seq # b.seq
    <3>1. CASE a \in network /\ network' = network \ {a}
      BY <1>8, <1>11, <2>1, <3>1
    <3>2. CASE a.seq = 0 \/ a.seq = -(foreign + 1)
      BY <1>3, <2>1, <3>2
    <3> QED
      BY <1>5, <3>1, <3>2
  <2>3. /\ \A k \in DOMAIN paths : told[k] # b.seq
        /\ \A i \in DOMAIN socket : socket[i].seq # b.seq
    BY <1>1, <2>1, TracingFacts DEF Unread
  <2> QED
    BY <1>6, <2>2, <2>3
<1>12. ASSUME NEW i \in DOMAIN socket', socket'[i].seq # 0
       PROVE  /\ \A k \in DOMAIN paths : told[k] # socket'[i].seq
              /\ \A j \in DOMAIN socket' : socket'[j].seq = socket'[i].seq => j = i
  <2>1. CASE i \in DOMAIN socket
    <3>1. /\ socket'[i] = socket[i]
          /\ \A k \in DOMAIN paths : told[k] # socket[i].seq
          /\ \A j \in DOMAIN socket : socket[j].seq = socket[i].seq => j = i
      BY <1>1, <1>6, <1>12, <2>1, TracingFacts DEF Unread
    <3>2. a.seq # socket[i].seq
      BY <1>10, <1>12, <2>1, <3>1
    <3> QED
      BY <1>6, <3>1, <3>2
  <2>2. CASE i = Len(socket) + 1
    BY <1>6, <1>10, <1>12, <2>2
  <2> QED
    BY <1>6, <2>1, <2>2
<1>13. Unread(told)'
  <2>1. AnswersTo(Echoes)' = AnswersTo(Echoes) /\ FirstForeign(foreign)' = FirstForeign(foreign')
    BY <1>3 DEF AnswersTo, FirstForeign
  <2>2. network' \subseteq AnswersTo(Echoes)
    BY <1>2, <1>3
  <2> QED
    BY <1>1, <1>6, <1>11, <1>12, <2>1, <2>2, TracingFacts DEF Unread
<1>14. Accounted(told)'
  <2>1. \A k \in DOMAIN paths : -foreign' <= told[k]
    BY <1>3, <1>9
  <2> QED
    BY <1>1, <2>1, TracingFacts DEF Accounted
<1>15. SearchTypeOK'
  <2>1. network' \subseteq network
    BY <1>2
  <2> QED
    BY <1>1, <2>1, TracingFacts DEF SearchTypeOK
<1> QED
  BY <1>13, <1>14, <1>15 DEF Traced

\* What a path is named after: the number of the message is new, unless the hop timed
\* out, so that the echoes before it cannot all have had their own answers.
LEMMA FoundKeeps ==
  ASSUME NEW told, Traced(told), searching = "wait", NEW from \in Names, NEW m \in Int,
         Found(from), foreign' = foreign, -foreign <= m, m <= hop,
         m = 0 => from = 0, m > 0 => from = Nearer(m),
         m # 0 => \A k \in DOMAIN paths : told[k] # m
  PROVE  /\ Accounted(Append(told, m))'
         /\ paths' \in Seq(Names) /\ hop' \in 1 .. MaxHop /\ searching' \in {"send", "returned"}
         /\ searching' = "send" => /\ Len(paths') = hop' - 1 /\ hop' - 1 = hop
                                   /\ \A k \in DOMAIN paths' : paths'[k] # Distance
         /\ \A k \in DOMAIN paths' : \/ Append(told, m)[k] = m
                                     \/ k \in DOMAIN paths /\ Append(told, m)[k] = told[k]
<1> DEFINE t == Append(told, m)
<1>1. /\ paths' = Append(paths, from) /\ Len(paths) = hop - 1 /\ hop \in Nat \ {0}
      /\ DOMAIN paths = 1 .. hop - 1 /\ paths \in Seq(Names)
      /\ told \in Seq(Int) /\ Len(told) = hop - 1 /\ \A k \in 1 .. hop - 1 : told[k] \in Int
      /\ hop <= MaxHop /\ MaxHop \in Nat /\ foreign \in Nat
      /\ \A k \in DOMAIN paths : paths[k] # Distance
  BY TracingFacts DEF Found, Unread
<1>2. /\ paths' \in Seq(Names) /\ Len(paths') = hop /\ DOMAIN paths' = 1 .. hop /\ paths'[hop] = from
      /\ \A k \in 1 .. hop - 1 : paths'[k] = paths[k]
  <2> HIDE DEF Names
  <2>1. /\ Append(paths, from) \in Seq(Names) /\ Len(Append(paths, from)) = Len(paths) + 1
        /\ \A i \in 1 .. Len(paths) : Append(paths, from)[i] = paths[i]
        /\ Append(paths, from)[Len(paths) + 1] = from
    BY <1>1, AppendProperties
  <2>2. DOMAIN Append(paths, from) = 1 .. hop
    BY <1>1, <2>1
  <2> QED
    BY <1>1, <2>1, <2>2
<1>3. /\ t \in Seq(Int) /\ Len(t) = hop /\ t[hop] = m /\ \A k \in 1 .. hop - 1 : t[k] = told[k]
  <2>1. /\ t \in Seq(Int) /\ Len(t) = Len(told) + 1
        /\ \A i \in 1 .. Len(told) : t[i] = told[i]
        /\ t[Len(told) + 1] = m
    BY <1>1, AppendProperties
  <2> QED
    BY <1>1, <2>1
<1> HIDE DEF t, Names
<1>4. \A k \in 1 .. hop - 1 :
         /\ told[k] <= k /\ -foreign <= told[k]
         /\ told[k] = 0 => paths[k] = 0
         /\ told[k] > 0 => paths[k] = Nearer(told[k])
         /\ told[k] = k \/ \E i \in 1 .. k : told[i] <= 0
         /\ \A i \in 1 .. hop - 1 : told[i] = told[k] => i = k \/ told[i] = 0
  BY <1>1, TracingFacts DEF Accounted
<1>5. m = hop \/ \E i \in 1 .. hop : t[i] <= 0
  <2>1. CASE m <= 0
    <3>1. hop \in 1 .. hop
      BY <1>1
    <3> QED
      BY <1>3, <2>1, <3>1
  <2>2. CASE m > 0 /\ m # hop
    <3>1. m \in 1 .. hop - 1 /\ told[m] # m
      BY <1>1, <2>2
    <3>2. PICK i \in 1 .. m : told[i] <= 0
      BY <1>4, <3>1
    <3>3. i \in 1 .. hop - 1 /\ i \in 1 .. hop
      BY <1>1, <3>1
    <3> QED
      BY <1>3, <3>2, <3>3
  <2> QED
    BY <2>1, <2>2
<1>6. ASSUME NEW k \in 1 .. hop
      PROVE  /\ t[k] <= k /\ -foreign <= t[k]
             /\ t[k] = 0 => paths'[k] = 0
             /\ t[k] > 0 => paths'[k] = Nearer(t[k])
             /\ t[k] = k \/ \E i \in 1 .. k : t[i] <= 0
             /\ paths'[k] = Distance => k = hop
  <2>1. CASE k = hop
    BY <1>2, <1>3, <1>5, <2>1
  <2>2. CASE k # hop
    <3>1. k \in 1 .. hop - 1 /\ \A i \in 1 .. k : i \in 1 .. hop - 1
      BY <1>1, <2>2
    <3>2. t[k] = k \/ \E i \in 1 .. k : t[i] <= 0
      BY <1>3, <1>4, <3>1
    <3> QED
      BY <1>1, <1>2, <1>3, <1>4, <3>1, <3>2
  <2> QED
    BY <2>1, <2>2
<1>7. ASSUME NEW k \in 1 .. hop, NEW i \in 1 .. hop, t[i] = t[k]
      PROVE  i = k \/ t[i] = 0
  <2>1. \A j \in 1 .. hop : j = hop \/ j \in 1 .. hop - 1
    BY <1>1
  <2> QED
    BY <1>1, <1>3, <1>4, <1>7, <2>1
<1>8. Accounted(t)'
  <2>1. \A e : Nearer(e)' = Nearer(e)
    BY DEF Nearer
  <2> QED
    BY <1>2, <1>3, <1>6, <1>7, <2>1 DEF Accounted
<1>9. /\ hop' \in 1 .. MaxHop /\ searching' \in {"send", "returned"}
      /\ searching' = "send" => hop' = hop + 1 /\ from # Distance
  BY <1>1 DEF Found
<1>10. searching' = "send" => \A k \in 1 .. hop : paths'[k] # Distance
  BY <1>1, <1>2, <1>9
<1>11. \A k \in DOMAIN paths' : t[k] = m \/ (k \in DOMAIN paths /\ t[k] = told[k])
  BY <1>1, <1>2, <1>3
<1>12. searching' = "send" => /\ Len(paths') = hop' - 1 /\ hop' - 1 = hop
                              /\ \A k \in DOMAIN paths' : paths'[k] # Distance
  BY <1>1, <1>2, <1>9, <1>10
<1> QED
  BY <1>2, <1>8, <1>9, <1>11, <1>12 DEF t

\* The message read is the first that has come, and is not read again.
LEMMA ReadKeeps ==
  ASSUME NEW told, Traced(told), ReadAnswer, Valid(Head(socket))
  PROVE  \E t : Traced(t)'
<1> DEFINE Known == AnswersTo(hop) \union FirstForeign(foreign)
<1>0. PICK a : a = Head(socket)
  OBVIOUS
<1> DEFINE m == a.seq
           t == Append(told, m)
<1>1. /\ searching = "wait" /\ socket # << >> /\ socket' = Tail(socket) /\ Found(a.from)
      /\ UNCHANGED <<network, replyTTL, foreign>> /\ Valid(a)
  BY <1>0 DEF ReadAnswer
<1>2. /\ Echoes = hop /\ hop \in Nat \ {0} /\ foreign \in Nat /\ DOMAIN paths = 1 .. hop - 1
      /\ Unread(told) /\ SearchTypeOK
  BY <1>1, TracingFacts DEF Echoes
<1>3. socket \in Seq(Known) /\ network \subseteq AnswersTo(hop)
  BY <1>2 DEF Unread
<1>4. /\ a \in Known /\ a = socket[1] /\ 1 \in DOMAIN socket /\ Tail(socket) \in Seq(Known)
      /\ \A i \in DOMAIN Tail(socket) : /\ i \in Nat /\ i + 1 \in DOMAIN socket /\ i + 1 # 1
                                        /\ Tail(socket)[i] = socket[i + 1]
  <2> HIDE DEF Known
  <2> QED
    BY <1>0, <1>1, <1>3
<1>5. /\ m \in Int /\ -foreign <= m /\ m <= hop /\ m # 0
      /\ a.from \in Names /\ (m > 0 => a.from = Nearer(m))
  <2>1. m \in Int /\ -foreign <= m /\ m <= hop
    BY <1>2, <1>4, NumbersAreBounded
  <2>2. CASE a \in AnswersTo(hop)
    <3>1. m \in 1 .. hop /\ a = AnswerTo(m)
      BY <1>2, <1>4, <2>2, NumbersAreBounded
    <3>2. a.from = Nearer(m) /\ Nearer(m) \in 0 .. Distance
      BY <2>1, <3>1, NumbersOfMessages
    <3> QED
      BY <2>1, <3>1, <3>2 DEF Names
  <2>3. CASE a \notin AnswersTo(hop)
    <3>1. a # Other
      BY <1>1, NumbersOfMessages DEF Valid
    <3>2. PICK r \in (1 .. Distance) \union {Stranger}, n \in 1 .. foreign : a = Exceeded(r, -n)
      BY <1>4, <2>3, <3>1 DEF FirstForeign
    <3>3. a.from = r /\ m = -n
      BY <3>2, NumbersOfMessages
    <3> QED
      BY <2>1, <3>3 DEF Names
  <2> QED
    BY <2>2, <2>3
<1>6. /\ \A k \in DOMAIN paths : told[k] # m
      /\ \A j \in DOMAIN socket : socket[j].seq = m => j = 1
      /\ \A b \in network : b.seq # m
  BY <1>2, <1>4, <1>5 DEF Unread
<1> HIDE DEF m
<1>7. /\ Accounted(t)'
      /\ paths' \in Seq(Names) /\ hop' \in 1 .. MaxHop /\ searching' \in {"send", "returned"}
      /\ searching' = "send" => /\ Len(paths') = hop' - 1 /\ hop' - 1 = hop
                                /\ \A k \in DOMAIN paths' : paths'[k] # Distance
      /\ \A k \in DOMAIN paths' : t[k] = m \/ (k \in DOMAIN paths /\ t[k] = told[k])
  BY <1>1, <1>5, <1>6, FoundKeeps
<1>8. SearchTypeOK'
  BY <1>1, <1>2, <1>7 DEF SearchTypeOK, Names
<1>9. ASSUME searching' = "send" PROVE Unread(t)'
  <2>1. Echoes' = hop
    BY <1>7, <1>9 DEF Echoes
  <2>2. /\ AnswersTo(Echoes)' = AnswersTo(hop) /\ FirstForeign(foreign)' = FirstForeign(foreign)
        /\ socket' \in Seq(Known)
    BY <1>1, <1>4, <2>1 DEF AnswersTo, FirstForeign
  <2> HIDE DEF t
  <2>3. \A i \in DOMAIN socket' : /\ i \in Nat /\ i + 1 \in DOMAIN socket /\ i + 1 # 1
                                  /\ socket'[i] = socket[i + 1]
    BY <1>1, <1>4
  <2>4. ASSUME NEW b \in network
        PROVE  /\ \A k \in DOMAIN paths' : t[k] # b.seq
               /\ \A i \in DOMAIN socket' : socket'[i].seq # b.seq
    BY <1>2, <1>6, <1>7, <2>3 DEF Unread
  <2>5. ASSUME NEW i \in DOMAIN socket', socket'[i].seq # 0
        PROVE  /\ \A k \in DOMAIN paths' : t[k] # socket'[i].seq
               /\ \A j \in DOMAIN socket' : socket'[j].seq = socket'[i].seq => j = i
    <3>1. i + 1 \in DOMAIN socket /\ i + 1 # 1 /\ socket'[i] = socket[i + 1] /\ i \in Nat
      BY <2>3
    <3>2. /\ \A k \in DOMAIN paths : told[k] # socket[i + 1].seq
          /\ \A j \in DOMAIN socket : socket[j].seq = socket[i + 1].seq => j = i + 1
      BY <1>2, <2>5, <3>1 DEF Unread
    <3>3. socket[i + 1].seq # m
      BY <1>6, <3>1
    <3>4. \A j \in DOMAIN socket' : socket'[j].seq = socket'[i].seq => j = i
      BY <2>3, <3>1, <3>2
    <3> QED
      BY <1>7, <3>1, <3>2, <3>3, <3>4
  <2> QED
    BY <1>1, <1>3, <1>7, <1>9, <2>2, <2>4, <2>5 DEF Unread
<1> QED
  BY <1>7, <1>8, <1>9 DEF Traced

LEMMA TimeoutKeeps ==
  ASSUME NEW told, Traced(told), Timeout
  PROVE  Traced(Append(told, 0))'
<1> DEFINE t == Append(told, 0)
<1>1. /\ searching = "wait" /\ socket = << >> /\ Found(0)
      /\ UNCHANGED <<network, socket, replyTTL, foreign>>
  BY DEF Timeout, Nameless
<1>2. /\ Echoes = hop /\ hop \in Nat \ {0} /\ foreign \in Nat /\ Distance \in Nat
      /\ Unread(told) /\ SearchTypeOK
  BY <1>1, TracingFacts DEF Echoes
<1>3. /\ Accounted(t)'
      /\ paths' \in Seq(Names) /\ hop' \in 1 .. MaxHop /\ searching' \in {"send", "returned"}
      /\ searching' = "send" => /\ Len(paths') = hop' - 1 /\ hop' - 1 = hop
                                /\ \A k \in DOMAIN paths' : paths'[k] # Distance
      /\ \A k \in DOMAIN paths' : t[k] = 0 \/ (k \in DOMAIN paths /\ t[k] = told[k])
  <2>1. PICK m \in Int : m = 0
    OBVIOUS
  <2>2. 0 \in Names /\ -foreign <= m /\ m <= hop /\ ~(m > 0)
    BY <1>2, <2>1 DEF Names
  <2> QED
    BY <1>1, <2>1, <2>2, FoundKeeps
<1>4. SearchTypeOK'
  BY <1>1, <1>2, <1>3 DEF SearchTypeOK, Names
<1> HIDE DEF t
<1>5. ASSUME searching' = "send" PROVE Unread(t)'
  <2>1. /\ AnswersTo(Echoes)' = AnswersTo(hop) /\ FirstForeign(foreign)' = FirstForeign(foreign)
        /\ AnswersTo(Echoes) = AnswersTo(hop)
    BY <1>1, <1>2, <1>3, <1>5 DEF AnswersTo, FirstForeign, Echoes
  <2>2. \A b \in network : b.seq # 0 /\ \A k \in DOMAIN paths : told[k] # b.seq
    <3>1. network \subseteq AnswersTo(hop)
      BY <1>2, <2>1 DEF Unread
    <3>2. \A b \in network : b.seq \in 1 .. hop
      BY <1>2, <3>1, NumbersAreBounded
    <3> QED
      BY <1>2, <3>2 DEF Unread
  <2>3. \A b \in network : \A k \in DOMAIN paths' : t[k] # b.seq
    BY <1>3, <2>2
  <2>4. DOMAIN socket' = {} /\ socket' \in Seq(AnswersTo(hop) \union FirstForeign(foreign))
    BY <1>1
  <2> QED
    BY <1>1, <1>2, <1>3, <1>5, <2>1, <2>3, <2>4 DEF Unread
<1> QED
  BY <1>3, <1>4, <1>5 DEF Traced, t

\* A search that fails returns nothing.
LEMMA FailKeeps ==
  ASSUME NEW told, Traced(told), searching \in {"send", "wait"}, Fail,
         UNCHANGED <<network, replyTTL, foreign>>
  PROVE  Traced(<< >>)'
<1>1. paths' = << >> /\ searching' = "failed" /\ UNCHANGED <<hop, network, replyTTL, foreign>>
  BY DEF Fail
<1>2. SearchTypeOK'
  BY <1>1, TracingFacts DEF SearchTypeOK
<1>3. Accounted(<< >>)'
  BY <1>1 DEF Accounted
<1> QED
  BY <1>1, <1>2, <1>3 DEF Traced

LEMMA TracingStutters ==
  ASSUME NEW told, Traced(told), UNCHANGED searchVars PROVE Traced(told)'
<1>1. UNCHANGED <<searching, hop, paths, network, socket, replyTTL, foreign>>
  BY DEF searchVars
<1>2. SearchTypeOK' <=> SearchTypeOK
  BY <1>1 DEF SearchTypeOK
<1>3. Accounted(told)' <=> Accounted(told)
  BY <1>1 DEF Accounted, Nearer
<1>4. Unread(told)' <=> Unread(told)
  BY <1>1 DEF Unread, Echoes, AnswersTo, FirstForeign
<1> QED
  BY <1>1, <1>2, <1>3, <1>4 DEF Traced

LEMMA TracingNext ==
  ASSUME TracingInv, [SearchNext]_(searchVars) PROVE TracingInv'
<1>1. PICK told : Traced(told)
  BY DEF TracingInv
<1>2. SUFFICES \E t : Traced(t)'
  BY DEF TracingInv
<1>3. CASE SendEcho \/ SendUnanswered
  BY <1>1, <1>3, SendKeeps
<1>4. CASE CallFails
  BY <1>1, <1>4, FailKeeps DEF CallFails
<1>5. CASE Arrive \/ ArriveForeign
  BY <1>1, <1>5, ArriveKeeps
<1>6. CASE ReadAnswer
  <2>1. CASE Valid(Head(socket))
    BY <1>1, <1>6, <2>1, ReadKeeps
  <2>2. CASE ~Valid(Head(socket))
    <3>1. searching = "wait" /\ Fail /\ UNCHANGED <<network, replyTTL, foreign>>
      BY <1>6, <2>2 DEF ReadAnswer
    <3> QED
      BY <1>1, <3>1, FailKeeps
  <2> QED
    BY <2>1, <2>2
<1>7. CASE Timeout
  BY <1>1, <1>7, TimeoutKeeps
<1>8. CASE UNCHANGED searchVars
  BY <1>1, <1>8, TracingStutters
<1> QED
  BY <1>3, <1>4, <1>5, <1>6, <1>7, <1>8 DEF SearchNext

(* Everything the proof needs of a search is true of it at every step.     *)
THEOREM TracingInductive == SearchSpec => []TracingInv
<1> QED
  BY TracingInit, TracingNext, PTL DEF SearchSpec

(* The hop, the paths and the messages under way keep their types, for a   *)
(* destination at any distance.                                            *)
THEOREM TracingTypeOK == SearchSpec => []SearchTypeOK
<1>1. TracingInv => SearchTypeOK
  BY DEF TracingInv, Traced
<1> QED
  BY TracingInductive, <1>1, PTL

\* As many paths at most are named by foreign messages as have come: two of them
\* would have to be named by the same one.
LEMMA FewAreSpoilt ==
  ASSUME NEW n \in Nat, NEW f \in Nat, NEW told \in [1 .. n -> Int],
         \A k \in 1 .. n : -f <= told[k],
         \A i, k \in 1 .. n : told[i] = told[k] => i = k \/ told[i] = 0
  PROVE  Cardinality({k \in 1 .. n : told[k] < 0}) <= f
<1> DEFINE S == {k \in 1 .. n : told[k] < 0}
           g == [k \in S |-> -told[k]]
<1>1. IsFiniteSet(S) /\ Cardinality(S) \in Nat
  <2>1. IsFiniteSet(1 .. n) /\ S \in SUBSET (1 .. n)
    BY FS_Interval
  <2>2. IsFiniteSet(S)
    BY <2>1, FS_Subset
  <2> QED
    BY <2>2, FS_CardinalityType
<1>2. IsFiniteSet(1 .. f) /\ Cardinality(1 .. f) = f
  BY FS_Interval
<1>3. \A k \in S : k \in 1 .. n /\ told[k] \in Int /\ told[k] < 0 /\ -told[k] \in 1 .. f
  OBVIOUS
<1>4. g \in [S -> 1 .. f]
  BY <1>3
<1>5. ASSUME Cardinality(1 .. f) < Cardinality(S) PROVE FALSE
  <2> HIDE DEF S
  <2>1. PICK i, k \in S : i # k /\ g[i] = g[k]
    <3> HIDE DEF g
    <3> QED
      BY <1>1, <1>2, <1>4, <1>5, FS_PigeonHole
  <2>2. told[i] = told[k] /\ told[i] # 0
    BY <1>3, <2>1
  <2> QED
    BY <1>3, <2>1, <2>2
<1> QED
  BY <1>1, <1>2, <1>5

(* Leave out as many paths at most as foreign messages have come: each of  *)
(* the others names a router no farther than its hop, no two the same, and *)
(* that of its own hop until a hop has timed out or a path was spoilt.     *)
(* This is so for a destination at any distance, answers that arrive in    *)
(* any order, and any number of foreign messages, of any router.           *)
THEOREM TracingNamesRoutersInReach ==
  SearchSpec => []PathsNameRoutersInReach
<1>1. ASSUME TracingInv PROVE PathsNameRoutersInReach
  <2>1. PICK told : SearchTypeOK /\ Accounted(told)
    BY <1>1 DEF TracingInv, Traced
  <2> DEFINE n == Len(paths)
             spoilt == {k \in 1 .. n : told[k] < 0}
  <2>2. /\ n \in Nat /\ DOMAIN paths = 1 .. n /\ foreign \in Nat /\ Distance \in Nat \ {0}
        /\ told \in [1 .. n -> Int]
    BY <2>1, ThereAreHops DEF SearchTypeOK, Accounted
  <2> HIDE DEF n
  <2>3. \A k \in 1 .. n :
          /\ told[k] \in Int /\ told[k] <= k /\ -foreign <= told[k]
          /\ told[k] = 0 => paths[k] = 0
          /\ told[k] > 0 => paths[k] = Nearer(told[k])
          /\ told[k] = k \/ \E i \in 1 .. k : told[i] <= 0
          /\ \A i \in 1 .. n : told[i] = told[k] => i = k \/ told[i] = 0
          /\ paths[k] = Distance => k = n
    BY <2>1, <2>2 DEF Accounted, n
  <2>4. Cardinality(spoilt) <= foreign
    BY <2>2, <2>3, FewAreSpoilt
  <2>5. \A k \in 1 .. n : k \notin spoilt => told[k] >= 0
    BY <2>3
  <2>6. \A k \in 1 .. n : told[k] < 0 => k \in spoilt
    OBVIOUS
  <2> HIDE DEF spoilt
  <2>7. ASSUME NEW k \in 1 .. n, k \notin spoilt
        PROVE  /\ paths[k] \in 0 .. k
               /\ paths[k] \in {k, Distance} \/ \E i \in 1 .. k : i \in spoilt \/ paths[i] = 0
    <3>1. told[k] \in 0 .. k
      BY <2>2, <2>3, <2>5, <2>7
    <3>2. paths[k] \in 0 .. k
      BY <2>2, <2>3, <3>1 DEF Nearer
    <3>3. CASE told[k] = k
      BY <2>2, <2>3, <3>2, <3>3 DEF Nearer
    <3>4. CASE told[k] # k
      <4>1. PICK i \in 1 .. k : told[i] <= 0
        BY <2>3, <3>4
      <4>2. i \in 1 .. n /\ told[i] \in Int
        BY <2>2, <2>3
      <4>3. i \in spoilt \/ paths[i] = 0
        BY <2>3, <2>6, <4>1, <4>2
      <4> QED
        BY <3>2, <4>3
    <3> QED
      BY <3>3, <3>4
  <2>8. ASSUME NEW k \in 1 .. n, k \notin spoilt, NEW i \in 1 .. n, i \notin spoilt, paths[i] = paths[k]
        PROVE  i = k \/ paths[i] = 0
    <3>1. SUFFICES ASSUME i # k, paths[i] # 0 PROVE FALSE
      OBVIOUS
    <3>2. told[i] \in Nat /\ told[i] > 0 /\ told[k] \in Nat /\ told[k] > 0
      BY <2>3, <2>5, <2>8, <3>1
    <3>3. paths[i] = Nearer(told[i]) /\ paths[k] = Nearer(told[k]) /\ told[i] # told[k]
      BY <2>3, <3>1, <3>2
    <3>4. paths[i] = Distance /\ paths[k] = Distance
      BY <2>2, <2>8, <3>2, <3>3 DEF Nearer
    <3> QED
      BY <2>3, <3>1, <3>4
  <2>9. \A k \in 1 .. n : paths[k] = Distance => k = Len(paths)
    BY <2>3 DEF n
  <2>10. spoilt \in SUBSET DOMAIN paths
    BY <2>2 DEF spoilt
  <2> QED
    BY <2>2, <2>4, <2>7, <2>8, <2>9, <2>10 DEF PathsNameRoutersInReach, Nameless
<1> QED
  BY TracingInductive, <1>1, PTL

-----------------------------------------------------------------------------
(***************************************************************************)
(* The wiki, for any requests: what is known of the files, of the reads    *)
(* and of the writes under way, and of the page a lone save is owed.       *)
(***************************************************************************)
Shows == Blocks \union {Absent}

\* A block in the place it has in the body of some save of the page.
OfSomeBody(t, i, block) ==
  \E s \in Requests : /\ IsSave(s) /\ Title(s) = t
                      /\ i \in DOMAIN Body(s) /\ block \in {Body(s)[i], Absent}

Placed(t, body) == body \in Seq(Shows) /\ \A i \in DOMAIN body : OfSomeBody(t, i, body[i])

FilesInv == \A t \in Titles : file[t] = Absent \/ Placed(t, file[t])

RequestsInv ==
  \A r \in Requests :
    /\ pc[r] = "asked" => at[r] = 0 /\ page[r] = << >>
    /\ pc[r] \in {"read", "write"} => Placed(Title(r), file[Title(r)])
    /\ pc[r] = "write" => IsSave(r) /\ at[r] <= Len(Body(r))
    /\ pc[r] = "read" => /\ ~IsSave(r) /\ Len(page[r]) = at[r]
                         /\ Placed(Title(r), page[r])

\* The page a lone save is owed: no other save of it is under way.
LoneInv ==
  \A t \in Titles : lone[t] # Nobody =>
    /\ Title(lone[t]) = t /\ IsSave(lone[t])
    /\ pc[lone[t]] \in {"write", "answered"}
    /\ \A w \in Requests : pc[w] = "write" /\ Title(w) = t => w = lone[t]
    /\ at[lone[t]] <= Len(Body(lone[t]))
    /\ file[t] = SubSeq(Body(lone[t]), 1, at[lone[t]])

\* A read that no save has been in the way of has a prefix of the file.
StillInv ==
  \A r \in still : pc[r] = "read" =>
    /\ \A w \in Requests : pc[w] = "write" => Title(w) # Title(r)
    /\ at[r] <= Len(file[Title(r)])
    /\ page[r] = SubSeq(file[Title(r)], 1, at[r])

WikiInv == WikiTypeOK /\ FilesInv /\ RequestsInv /\ LoneInv /\ StillInv

\* What a request asks never changes.
LEMMA WikiInputs ==
  ASSUME WikiTypeOK
  PROVE  \A r \in Requests : /\ Title(r) \in Titles /\ Body(r) \in Seq(Blocks)
                             /\ input[r].handler \in {"view", "edit", "save"}
<1>1. \A r \in Requests :
        input[r] \in [handler : {"view", "edit", "save"}, title : Titles, body : Seq(Blocks)]
  BY InputsAreRequests DEF WikiTypeOK
<1> QED
  BY <1>1 DEF Title, Body

LEMMA WikiSameInputs ==
  ASSUME UNCHANGED input
  PROVE  /\ \A r \in Requests : /\ Title(r)' = Title(r) /\ Body(r)' = Body(r)
                                /\ IsSave(r)' = IsSave(r)
         /\ \A t, i, block : OfSomeBody(t, i, block)' <=> OfSomeBody(t, i, block)
         /\ \A t, body : Placed(t, body)' <=> Placed(t, body)
<1>1. \A r \in Requests : /\ Title(r)' = Title(r) /\ Body(r)' = Body(r)
                          /\ IsSave(r)' = IsSave(r)
  BY DEF Title, Body, IsSave
<1>2. \A t, i, block : OfSomeBody(t, i, block)' <=> OfSomeBody(t, i, block)
  BY <1>1 DEF OfSomeBody
<1>3. \A t, body : Placed(t, body)' <=> Placed(t, body)
  BY <1>2 DEF Placed, Shows
<1> QED
  BY <1>1, <1>2, <1>3

\* A page one block longer.
LEMMA PlacedLonger ==
  ASSUME NEW t, NEW body, Placed(t, body), NEW block \in Shows, OfSomeBody(t, Len(body) + 1, block)
  PROVE  /\ Placed(t, Append(body, block)) /\ Len(Append(body, block)) = Len(body) + 1
<1>1. body \in Seq(Shows) /\ \A i \in DOMAIN body : OfSomeBody(t, i, body[i])
  BY DEF Placed
<1>2. /\ Append(body, block) \in Seq(Shows) /\ Len(Append(body, block)) = Len(body) + 1
      /\ \A i \in 1 .. Len(body) : Append(body, block)[i] = body[i]
      /\ Append(body, block)[Len(body) + 1] = block
  BY <1>1, AppendProperties
<1>3. DOMAIN Append(body, block) = 1 .. Len(body) + 1 /\ DOMAIN body = 1 .. Len(body) /\ Len(body) \in Nat
  BY <1>1, <1>2
<1>4. \A i \in DOMAIN Append(body, block) : i \in DOMAIN body \/ i = Len(body) + 1
  BY <1>3
<1> QED
  BY <1>1, <1>2, <1>3, <1>4 DEF Placed

\* The prefix one block longer.
LEMMA LongerPrefix ==
  ASSUME NEW S, NEW body \in Seq(S), NEW n \in Nat, n < Len(body)
  PROVE  SubSeq(body, 1, n + 1) = Append(SubSeq(body, 1, n), body[n + 1])
  OBVIOUS

LEMMA EmptyPrefix == ASSUME NEW S, NEW body \in Seq(S) PROVE SubSeq(body, 1, 0) = << >>
  OBVIOUS

\* After a write at i every other block is that of the file or, in a gap, zero.
OthersKept(after, body, i) ==
  \A j \in DOMAIN after : j = i \/ (j \in DOMAIN body /\ after[j] = body[j])
                               \/ (j < i /\ j \in Nat \ {0} /\ after[j] = Absent)

\* What a write makes of a file: it keeps every block in its place, fills a gap
\* with zeros, and continues the prefix a lone save has written.
LEMMA OverwrittenKeeps ==
  ASSUME NEW body \in Seq(Shows), NEW i \in Nat \ {0}, NEW block \in Shows,
         NEW after, after = Overwritten(body, i, block)
  PROVE  after \in Seq(Shows) /\ after[i] = block /\ OthersKept(after, body, i)
<1> DEFINE n == IF Len(body) < i THEN i ELSE Len(body)
<1>1. after = [j \in 1 .. n |-> IF j = i THEN block ELSE IF j <= Len(body) THEN body[j] ELSE Absent]
  BY DEF Overwritten
<1>2. n \in Nat /\ i \in 1 .. n /\ Len(body) \in Nat /\ DOMAIN body = 1 .. Len(body)
  OBVIOUS
<1>3. \A j \in 1 .. n : j = i \/ (j \in DOMAIN body /\ after[j] = body[j])
                              \/ (j < i /\ j \in Nat \ {0} /\ after[j] = Absent)
  BY <1>1, <1>2
<1>4. \A j \in 1 .. n : after[j] \in Shows
  BY <1>1, <1>2 DEF Shows
<1>5. after \in [1 .. n -> Shows]
  BY <1>1, <1>4
<1>6. after \in Seq(Shows)
  <2> HIDE DEF n
  <2> QED
    BY <1>2, <1>5, SeqDef
<1>7. after[i] = block /\ DOMAIN after = 1 .. n
  BY <1>1, <1>2
<1> HIDE DEF n
<1> QED
  BY <1>3, <1>6, <1>7 DEF OthersKept

LEMMA OverwrittenContinues ==
  ASSUME NEW body \in Seq(Blocks), NEW n \in Nat, n < Len(body)
  PROVE  Overwritten(SubSeq(body, 1, n), n + 1, body[n + 1]) = SubSeq(body, 1, n + 1)
  BY DEF Overwritten

LEMMA WikiBegins == ASSUME WikiInit PROVE WikiInv
<1>1. WikiTypeOK
  BY DEF WikiInit, WikiTypeOK
<1>2. FilesInv
  BY DEF WikiInit, FilesInv
<1>3. RequestsInv
  BY DEF WikiInit, RequestsInv
<1>4. LoneInv
  BY DEF WikiInit, LoneInv
<1>5. StillInv
  BY DEF WikiInit, StillInv
<1> QED
  BY <1>1, <1>2, <1>3, <1>4, <1>5 DEF WikiInv

\* A request that is answered reads and writes no more.
LEMMA AnsweredKeeps ==
  ASSUME WikiInv, NEW r \in Requests, pc[r] # "answered",
         NEW a \in {"404", "view", "edit", "redirect to view", "redirect to edit"}, Answer(r, a),
         input' = input, file' = file, at' = at, lone' = lone,
         page' = page \/ page' = [page EXCEPT ![r] = << >>], still' \subseteq still
  PROVE  WikiInv'
<1>1. /\ WikiTypeOK /\ FilesInv /\ RequestsInv /\ LoneInv /\ StillInv
      /\ pc' = [pc EXCEPT ![r] = "answered"] /\ answer' = [answer EXCEPT ![r] = a]
  BY DEF WikiInv, Answer
<1>2. WikiTypeOK'
  <2>1. page' \in [Requests -> Seq(Blocks \union {Absent})]
    <3> DEFINE S == Seq(Blocks \union {Absent})
    <3>1. << >> \in S
      BY EmptySeq
    <3>2. page \in [Requests -> S]
      BY <1>1 DEF WikiTypeOK
    <3> HIDE DEF S
    <3>3. page' \in [Requests -> S]
      BY <3>1, <3>2
    <3> QED
      BY <3>3 DEF S
  <2>2. pc' \in [Requests -> {"asked", "read", "write", "answered"}]
    BY <1>1 DEF WikiTypeOK
  <2>3. answer' \in [Requests -> {"none", "404", "view", "edit", "redirect to view", "redirect to edit"}]
    BY <1>1 DEF WikiTypeOK
  <2> QED
    BY <1>1, <2>1, <2>2, <2>3 DEF WikiTypeOK
<1>3. \A q \in Requests : /\ pc'[q] = IF q = r THEN "answered" ELSE pc[q]
                          /\ q # r => page'[q] = page[q]
  BY <1>1 DEF WikiTypeOK
<1>4. \A w \in Requests : pc'[w] = "write" => pc[w] = "write"
  BY <1>3
<1>5. FilesInv'
  BY <1>1, WikiSameInputs DEF FilesInv
<1>6. RequestsInv'
  <2>1. SUFFICES ASSUME NEW q \in Requests
                 PROVE  /\ pc'[q] = "asked" => at[q] = 0 /\ page'[q] = << >>
                        /\ pc'[q] \in {"read", "write"} => Placed(Title(q), file[Title(q)])
                        /\ pc'[q] = "write" => IsSave(q) /\ at[q] <= Len(Body(q))
                        /\ pc'[q] = "read" => /\ ~IsSave(q) /\ Len(page'[q]) = at[q]
                                              /\ Placed(Title(q), page'[q])
    BY DEF RequestsInv, Placed, OfSomeBody, Title, Body, IsSave
  <2>2. CASE q = r
    BY <1>3, <2>2
  <2>3. CASE q # r
    <3>1. pc'[q] = pc[q] /\ page'[q] = page[q]
      BY <1>3, <2>3
    <3> QED
      BY <1>1, <3>1 DEF RequestsInv
  <2> QED
    BY <2>2, <2>3
<1>7. LoneInv'
  <2>1. SUFFICES ASSUME NEW t \in Titles, lone[t] # Nobody, lone[t] \in Requests
                 PROVE  /\ Title(lone[t]) = t /\ IsSave(lone[t])
                        /\ pc'[lone[t]] \in {"write", "answered"}
                        /\ \A w \in Requests : pc'[w] = "write" /\ Title(w) = t => w = lone[t]
                        /\ at[lone[t]] <= Len(Body(lone[t]))
                        /\ file[t] = SubSeq(Body(lone[t]), 1, at[lone[t]])
    <3>1. \A t \in Titles : lone[t] # Nobody => lone[t] \in Requests
      BY <1>1 DEF WikiTypeOK
    <3> QED
      BY <3>1 DEF LoneInv, Title, Body, IsSave
  <2> QED
    BY <1>1, <1>3, <1>4, <2>1 DEF LoneInv
<1>8. StillInv'
  <2>1. SUFFICES ASSUME NEW q \in still', pc'[q] = "read"
                 PROVE  /\ \A w \in Requests : pc'[w] = "write" => Title(w) # Title(q)
                        /\ at[q] <= Len(file[Title(q)])
                        /\ page'[q] = SubSeq(file[Title(q)], 1, at[q])
    BY <1>1, <1>2 DEF StillInv, WikiTypeOK, Title
  <2>2. q \in still /\ q \in Requests /\ q # r /\ pc[q] = "read" /\ page'[q] = page[q]
    BY <1>1, <1>3, <2>1 DEF WikiTypeOK
  <2> QED
    BY <1>1, <1>4, <2>2 DEF StillInv
<1> QED
  BY <1>2, <1>5, <1>6, <1>7, <1>8 DEF WikiInv

\* An empty page is in place.
LEMMA PlacedEmpty == \A t : Placed(t, << >>)
  BY EmptySeq DEF Placed

\* A save that opens the file leaves it empty.
LEMMA SaveOpenKeeps ==
  ASSUME WikiInv, NEW r \in Requests, SaveOpen(r)
  PROVE  WikiInv'
<1> DEFINE T == Title(r)
<1>1. WikiTypeOK /\ FilesInv /\ RequestsInv /\ LoneInv /\ StillInv
  BY DEF WikiInv
<1>2. /\ pc[r] = "asked" /\ IsSave(r) /\ input' = input /\ at' = at /\ page' = page /\ answer' = answer
      /\ file' = [file EXCEPT ![T] = << >>] /\ pc' = [pc EXCEPT ![r] = "write"]
      /\ lone' = [lone EXCEPT ![T] = IF Writing(T) = {} THEN r ELSE Nobody]
      /\ still' = {q \in still : Title(q) # T}
  BY DEF SaveOpen, Start
<1>3. /\ T \in Titles /\ Body(r) \in Seq(Blocks) /\ at[r] = 0
      /\ \A q \in Requests : Title(q) \in Titles
  BY <1>1, <1>2, WikiInputs DEF RequestsInv
<1>4. /\ \A q \in Requests : pc'[q] = IF q = r THEN "write" ELSE pc[q]
      /\ \A t \in Titles : file'[t] = IF t = T THEN << >> ELSE file[t]
      /\ \A t \in Titles : lone'[t] = IF t # T THEN lone[t] ELSE IF Writing(T) = {} THEN r ELSE Nobody
  BY <1>1, <1>2 DEF WikiTypeOK
<1>5. WikiTypeOK'
  <2>1. file' \in [Titles -> {Absent} \union Seq(Blocks \union {Absent})]
    <3> DEFINE S == {Absent} \union Seq(Blocks \union {Absent})
    <3>1. file \in [Titles -> S] /\ << >> \in S
      BY <1>1, EmptySeq DEF WikiTypeOK
    <3> HIDE DEF S
    <3>2. file' \in [Titles -> S]
      BY <1>2, <3>1
    <3> QED
      BY <3>2 DEF S
  <2>2. pc' \in [Requests -> {"asked", "read", "write", "answered"}]
    BY <1>1, <1>2 DEF WikiTypeOK
  <2>3. lone' \in [Titles -> Requests \union {Nobody}] /\ still' \subseteq Requests
    BY <1>1, <1>2 DEF WikiTypeOK
  <2> QED
    BY <1>1, <1>2, <2>1, <2>2, <2>3 DEF WikiTypeOK
<1>6. FilesInv'
  <2>1. SUFFICES ASSUME NEW t \in Titles PROVE file'[t] = Absent \/ Placed(t, file'[t])
    BY <1>2 DEF FilesInv, Placed, OfSomeBody, Title, Body, IsSave
  <2> QED
    BY <1>1, <1>4, PlacedEmpty DEF FilesInv
<1>7. RequestsInv'
  <2>1. SUFFICES ASSUME NEW q \in Requests
                 PROVE  /\ pc'[q] = "asked" => at[q] = 0 /\ page[q] = << >>
                        /\ pc'[q] \in {"read", "write"} => Placed(Title(q), file'[Title(q)])
                        /\ pc'[q] = "write" => IsSave(q) /\ at[q] <= Len(Body(q))
                        /\ pc'[q] = "read" => /\ ~IsSave(q) /\ Len(page[q]) = at[q]
                                              /\ Placed(Title(q), page[q])
    BY <1>2 DEF RequestsInv, Placed, OfSomeBody, Title, Body, IsSave
  <2>2. CASE q = r
    BY <1>2, <1>3, <1>4, <2>2, PlacedEmpty
  <2>3. CASE q # r
    <3>1. pc'[q] = pc[q] /\ (file'[Title(q)] = << >> \/ file'[Title(q)] = file[Title(q)])
      BY <1>3, <1>4, <2>3
    <3> QED
      BY <1>1, <3>1, PlacedEmpty DEF RequestsInv
  <2> QED
    BY <2>2, <2>3
<1>8. LoneInv'
  <2>1. SUFFICES ASSUME NEW t \in Titles, NEW q \in Requests, lone'[t] = q, q # Nobody
                 PROVE  /\ Title(q) = t /\ IsSave(q) /\ pc'[q] \in {"write", "answered"}
                        /\ \A w \in Requests : pc'[w] = "write" /\ Title(w) = t => w = q
                        /\ at[q] <= Len(Body(q)) /\ file'[t] = SubSeq(Body(q), 1, at[q])
    <3>1. \A t \in Titles : lone'[t] # Nobody => lone'[t] \in Requests
      BY <1>5 DEF WikiTypeOK
    <3> QED
      BY <1>2, <3>1 DEF LoneInv, Title, Body, IsSave
  <2>2. CASE t = T
    <3>1. q = r /\ \A w \in Requests : pc[w] = "write" => Title(w) # T
      BY <1>4, <2>1, <2>2 DEF Writing
    <3>2. SubSeq(Body(r), 1, 0) = << >>
      BY <1>3, EmptyPrefix
    <3>3. at[q] = 0 /\ file'[t] = << >> /\ pc'[q] = "write" /\ 0 <= Len(Body(r))
      BY <1>3, <1>4, <2>2, <3>1
    <3>4. \A w \in Requests : pc'[w] = "write" /\ Title(w) = t => w = q
      BY <1>4, <2>2, <3>1
    <3> QED
      BY <1>2, <2>2, <3>1, <3>2, <3>3, <3>4
  <2>3. CASE t # T
    <3>1. lone[t] = q /\ file'[t] = file[t]
      BY <1>4, <2>1, <2>3
    <3>2. Title(q) = t /\ q # r
      BY <1>1, <2>1, <2>3, <3>1 DEF LoneInv
    <3> QED
      BY <1>1, <1>4, <2>1, <2>3, <3>1, <3>2 DEF LoneInv
  <2> QED
    BY <2>2, <2>3
<1>9. StillInv'
  <2>1. SUFFICES ASSUME NEW q \in still', pc'[q] = "read"
                 PROVE  /\ \A w \in Requests : pc'[w] = "write" => Title(w) # Title(q)
                        /\ at[q] <= Len(file'[Title(q)])
                        /\ page[q] = SubSeq(file'[Title(q)], 1, at[q])
    BY <1>2 DEF StillInv, Title
  <2>2. q \in still /\ q \in Requests /\ Title(q) # T /\ pc[q] = "read"
    BY <1>1, <1>2, <1>4, <2>1 DEF WikiTypeOK
  <2>3. file'[Title(q)] = file[Title(q)]
    BY <1>3, <1>4, <2>2
  <2> QED
    BY <1>1, <1>4, <2>2, <2>3 DEF StillInv
<1> QED
  BY <1>5, <1>6, <1>7, <1>8, <1>9 DEF WikiInv

\* A write puts the next block of the body in its place.
LEMMA SaveWriteKeeps ==
  ASSUME WikiInv, NEW r \in Requests, SaveWrite(r)
  PROVE  WikiInv'
<1> DEFINE T == Title(r)
           n == at[r]
           after == Overwritten(file[T], n + 1, Body(r)[n + 1])
<1>1. WikiTypeOK /\ FilesInv /\ RequestsInv /\ LoneInv /\ StillInv
  BY DEF WikiInv
<1>2. /\ pc[r] = "write" /\ n < Len(Body(r)) /\ input' = input /\ pc' = pc /\ page' = page
      /\ answer' = answer /\ lone' = lone /\ still' = still
      /\ at' = [at EXCEPT ![r] = n + 1] /\ file' = [file EXCEPT ![T] = after]
  BY DEF SaveWrite, history
<1>3. /\ T \in Titles /\ Body(r) \in Seq(Blocks) /\ n \in Nat /\ IsSave(r)
      /\ Placed(T, file[T]) /\ \A q \in Requests : Title(q) \in Titles
  BY <1>1, <1>2, WikiInputs DEF RequestsInv, WikiTypeOK
<1>4. /\ Body(r)[n + 1] \in Shows /\ n + 1 \in DOMAIN Body(r) /\ n + 1 \in Nat \ {0}
      /\ \A j \in Nat \ {0} : j < n + 1 => j \in DOMAIN Body(r)
  BY <1>2, <1>3 DEF Shows
<1> HIDE DEF T, n
<1>5. Placed(T, after)
  <2>1. file[T] \in Seq(Shows) /\ \A j \in DOMAIN file[T] : OfSomeBody(T, j, file[T][j])
    BY <1>3 DEF Placed
  <2>2. /\ after \in Seq(Shows)
        /\ after[n + 1] = Body(r)[n + 1]
        /\ \A j \in DOMAIN after : j = n + 1 \/ (j \in DOMAIN file[T] /\ after[j] = file[T][j])
                                             \/ (j < n + 1 /\ j \in Nat \ {0} /\ after[j] = Absent)
    <3> DEFINE body == file[T]
               block == Body(r)[n + 1]
               i == n + 1
    <3>1. body \in Seq(Shows) /\ block \in Shows /\ i \in Nat \ {0} /\ after = Overwritten(body, i, block)
      BY <1>4, <2>1
    <3> HIDE DEF after, body, block, i
    <3>2. after \in Seq(Shows) /\ after[i] = block /\ OthersKept(after, body, i)
      BY <3>1, OverwrittenKeeps
    <3> QED
      BY <3>2 DEF body, block, i, OthersKept
  <2> HIDE DEF after
  <2>3. ASSUME NEW j \in DOMAIN after PROVE OfSomeBody(T, j, after[j])
    <3>1. CASE j = n + 1
      BY <1>3, <1>4, <2>2, <3>1 DEF OfSomeBody, T
    <3>2. CASE j \in DOMAIN file[T] /\ after[j] = file[T][j]
      BY <2>1, <3>2
    <3>3. CASE j < n + 1 /\ j \in Nat \ {0} /\ after[j] = Absent
      BY <1>3, <1>4, <3>3 DEF OfSomeBody, T
    <3> QED
      BY <2>2, <3>1, <3>2, <3>3
  <2> QED
    BY <2>2, <2>3 DEF Placed
<1> HIDE DEF after
<1>6. /\ \A q \in Requests : at'[q] = IF q = r THEN n + 1 ELSE at[q]
      /\ \A t \in Titles : file'[t] = IF t = T THEN after ELSE file[t]
  BY <1>1, <1>2, <1>3 DEF WikiTypeOK
<1>7. WikiTypeOK'
  <2>1. file' \in [Titles -> {Absent} \union Seq(Blocks \union {Absent})]
    <3> DEFINE S == {Absent} \union Seq(Blocks \union {Absent})
    <3>1. file \in [Titles -> S] /\ after \in S
      BY <1>1, <1>5 DEF WikiTypeOK, Placed, Shows
    <3> HIDE DEF S
    <3>2. file' \in [Titles -> S]
      BY <1>2, <3>1
    <3> QED
      BY <3>2 DEF S
  <2>2. at' \in [Requests -> Nat]
    BY <1>1, <1>2, <1>4 DEF WikiTypeOK
  <2> QED
    BY <1>1, <1>2, <2>1, <2>2 DEF WikiTypeOK
<1>8. FilesInv'
  <2>1. SUFFICES ASSUME NEW t \in Titles PROVE file'[t] = Absent \/ Placed(t, file'[t])
    BY <1>2 DEF FilesInv, Placed, OfSomeBody, Title, Body, IsSave
  <2> QED
    BY <1>1, <1>5, <1>6 DEF FilesInv
<1>9. RequestsInv'
  <2>1. SUFFICES ASSUME NEW q \in Requests
                 PROVE  /\ pc[q] = "asked" => at'[q] = 0 /\ page[q] = << >>
                        /\ pc[q] \in {"read", "write"} => Placed(Title(q), file'[Title(q)])
                        /\ pc[q] = "write" => IsSave(q) /\ at'[q] <= Len(Body(q))
                        /\ pc[q] = "read" => /\ ~IsSave(q) /\ Len(page[q]) = at'[q]
                                             /\ Placed(Title(q), page[q])
    BY <1>2 DEF RequestsInv, Placed, OfSomeBody, Title, Body, IsSave
  <2>2. pc[q] \in {"read", "write"} => Placed(Title(q), file'[Title(q)])
    BY <1>1, <1>3, <1>5, <1>6 DEF RequestsInv
  <2>3. CASE q = r
    BY <1>2, <1>3, <1>6, <2>2, <2>3
  <2>4. CASE q # r
    <3>1. at'[q] = at[q]
      BY <1>6, <2>4
    <3> QED
      BY <1>1, <2>2, <3>1 DEF RequestsInv
  <2> QED
    BY <2>3, <2>4
<1>10. LoneInv'
  <2>1. SUFFICES ASSUME NEW t \in Titles, NEW q \in Requests, lone[t] = q, q # Nobody
                 PROVE  /\ Title(q) = t /\ IsSave(q) /\ pc[q] \in {"write", "answered"}
                        /\ \A w \in Requests : pc[w] = "write" /\ Title(w) = t => w = q
                        /\ at'[q] <= Len(Body(q)) /\ file'[t] = SubSeq(Body(q), 1, at'[q])
    <3>1. \A t \in Titles : lone[t] # Nobody => lone[t] \in Requests
      BY <1>1 DEF WikiTypeOK
    <3> QED
      BY <1>2, <3>1 DEF LoneInv, Title, Body, IsSave
  <2>2. /\ Title(q) = t /\ IsSave(q) /\ pc[q] \in {"write", "answered"}
        /\ \A w \in Requests : pc[w] = "write" /\ Title(w) = t => w = q
        /\ at[q] <= Len(Body(q)) /\ file[t] = SubSeq(Body(q), 1, at[q])
    BY <1>1, <2>1 DEF LoneInv
  <2>3. CASE t = T
    <3>1. q = r
      BY <1>2, <2>2, <2>3 DEF T
    <3>2. after = SubSeq(Body(r), 1, n + 1)
      <4>1. file[T] = SubSeq(Body(r), 1, n)
        BY <2>2, <2>3, <3>1 DEF n
      <4> QED
        BY <1>2, <1>3, <4>1, OverwrittenContinues DEF after
    <3>3. at'[q] = n + 1 /\ file'[t] = after /\ n + 1 <= Len(Body(r))
      BY <1>2, <1>3, <1>6, <2>3, <3>1
    <3> QED
      BY <2>2, <3>1, <3>2, <3>3
  <2>4. CASE t # T
    <3>1. q # r
      BY <2>2, <2>4 DEF T
    <3>2. at'[q] = at[q] /\ file'[t] = file[t]
      BY <1>6, <2>4, <3>1
    <3> QED
      BY <2>2, <3>2
  <2> QED
    BY <2>3, <2>4
<1>11. StillInv'
  <2>1. SUFFICES ASSUME NEW q \in still, pc[q] = "read"
                 PROVE  /\ \A w \in Requests : pc[w] = "write" => Title(w) # Title(q)
                        /\ at'[q] <= Len(file'[Title(q)])
                        /\ page[q] = SubSeq(file'[Title(q)], 1, at'[q])
    BY <1>2 DEF StillInv, Title
  <2>2. q \in Requests /\ Title(q) # T /\ q # r
    BY <1>1, <1>2, <2>1 DEF WikiTypeOK, StillInv, T
  <2>3. file'[Title(q)] = file[Title(q)] /\ at'[q] = at[q]
    BY <1>3, <1>6, <2>2
  <2> QED
    BY <1>1, <2>1, <2>3 DEF StillInv
<1> QED
  BY <1>7, <1>8, <1>9, <1>10, <1>11 DEF WikiInv

LEMMA LoadOpenKeeps ==
  ASSUME WikiInv, NEW r \in Requests, LoadOpen(r)
  PROVE  WikiInv'
<1> DEFINE T == Title(r)
<1>1. WikiTypeOK /\ FilesInv /\ RequestsInv /\ LoneInv /\ StillInv
  BY DEF WikiInv
<1>2. /\ pc[r] = "asked" /\ ~IsSave(r) /\ file[T] # Absent
      /\ input' = input /\ file' = file /\ at' = at /\ page' = page /\ answer' = answer /\ lone' = lone
      /\ pc' = [pc EXCEPT ![r] = "read"]
      /\ still' = IF Writing(T) = {} THEN still \union {r} ELSE still \ {r}
  BY DEF LoadOpen, Start
<1>3. /\ T \in Titles /\ at[r] = 0 /\ page[r] = << >> /\ Placed(T, file[T])
      /\ \A q \in Requests : Title(q) \in Titles
  BY <1>1, <1>2, WikiInputs DEF RequestsInv, FilesInv
<1>4. \A q \in Requests : pc'[q] = IF q = r THEN "read" ELSE pc[q]
  BY <1>1, <1>2 DEF WikiTypeOK
<1>5. WikiTypeOK'
  <2>1. pc' \in [Requests -> {"asked", "read", "write", "answered"}] /\ still' \subseteq Requests
    BY <1>1, <1>2 DEF WikiTypeOK
  <2> QED
    BY <1>1, <1>2, <2>1 DEF WikiTypeOK
<1>6. FilesInv'
  <2>1. SUFFICES ASSUME NEW t \in Titles PROVE file[t] = Absent \/ Placed(t, file[t])
    BY <1>2 DEF FilesInv, Placed, OfSomeBody, Title, Body, IsSave
  <2> QED
    BY <1>1 DEF FilesInv
<1>7. RequestsInv'
  <2>1. SUFFICES ASSUME NEW q \in Requests
                 PROVE  /\ pc'[q] = "asked" => at[q] = 0 /\ page[q] = << >>
                        /\ pc'[q] \in {"read", "write"} => Placed(Title(q), file[Title(q)])
                        /\ pc'[q] = "write" => IsSave(q) /\ at[q] <= Len(Body(q))
                        /\ pc'[q] = "read" => /\ ~IsSave(q) /\ Len(page[q]) = at[q]
                                              /\ Placed(Title(q), page[q])
    BY <1>2 DEF RequestsInv, Placed, OfSomeBody, Title, Body, IsSave
  <2>2. CASE q = r
    <3>1. Placed(T, page[r]) /\ Len(page[r]) = at[r]
      BY <1>3, PlacedEmpty, EmptySeq
    <3> QED
      BY <1>2, <1>3, <1>4, <2>2, <3>1
  <2>3. CASE q # r
    <3>1. pc'[q] = pc[q]
      BY <1>4, <2>3
    <3> QED
      BY <1>1, <3>1 DEF RequestsInv
  <2> QED
    BY <2>2, <2>3
<1>8. LoneInv'
  <2>1. SUFFICES ASSUME NEW t \in Titles, NEW q \in Requests, lone[t] = q, q # Nobody
                 PROVE  /\ Title(q) = t /\ IsSave(q) /\ pc'[q] \in {"write", "answered"}
                        /\ \A w \in Requests : pc'[w] = "write" /\ Title(w) = t => w = q
                        /\ at[q] <= Len(Body(q)) /\ file[t] = SubSeq(Body(q), 1, at[q])
    <3>1. \A t \in Titles : lone[t] # Nobody => lone[t] \in Requests
      BY <1>1 DEF WikiTypeOK
    <3> QED
      BY <1>2, <3>1 DEF LoneInv, Title, Body, IsSave
  <2>2. q # r
    BY <1>1, <1>2, <2>1 DEF LoneInv
  <2> QED
    BY <1>1, <1>4, <2>1, <2>2 DEF LoneInv
<1>9. StillInv'
  <2>1. SUFFICES ASSUME NEW q \in still', pc'[q] = "read"
                 PROVE  /\ \A w \in Requests : pc'[w] = "write" => Title(w) # Title(q)
                        /\ at[q] <= Len(file[Title(q)])
                        /\ page[q] = SubSeq(file[Title(q)], 1, at[q])
    BY <1>2 DEF StillInv, Title
  <2>2. q \in Requests
    BY <1>5 DEF WikiTypeOK
  <2>3. CASE q = r
    <3>1. \A w \in Requests : pc[w] = "write" => Title(w) # T
      BY <1>2, <2>3 DEF Writing
    <3>2. SubSeq(file[T], 1, 0) = << >> /\ 0 <= Len(file[T])
      <4>1. file[T] \in Seq(Shows)
        BY <1>3 DEF Placed
      <4> QED
        BY <4>1, EmptyPrefix
    <3>3. \A w \in Requests : pc'[w] = "write" => Title(w) # T
      BY <1>4, <3>1
    <3> QED
      BY <1>3, <2>3, <3>2, <3>3
  <2>4. CASE q # r
    <3>1. q \in still /\ pc[q] = "read"
      BY <1>2, <1>4, <2>1, <2>2, <2>4
    <3> QED
      BY <1>1, <1>4, <3>1 DEF StillInv
  <2> QED
    BY <2>3, <2>4
<1> QED
  BY <1>5, <1>6, <1>7, <1>8, <1>9 DEF WikiInv

\* A read takes the next block of the file, in the place it has there.
LEMMA LoadReadKeeps ==
  ASSUME WikiInv, NEW r \in Requests, LoadRead(r)
  PROVE  WikiInv'
<1> DEFINE T == Title(r)
           n == at[r]
           longer == Append(page[r], file[T][n + 1])
<1>1. WikiTypeOK /\ FilesInv /\ RequestsInv /\ LoneInv /\ StillInv
  BY DEF WikiInv
<1>2. /\ pc[r] = "read" /\ n < Len(file[T]) /\ input' = input /\ pc' = pc /\ file' = file
      /\ answer' = answer /\ lone' = lone /\ still' = still
      /\ at' = [at EXCEPT ![r] = n + 1] /\ page' = [page EXCEPT ![r] = longer]
  BY DEF LoadRead, history
<1>3. /\ T \in Titles /\ n \in Nat /\ ~IsSave(r) /\ Len(page[r]) = n
      /\ Placed(T, file[T]) /\ Placed(T, page[r])
  BY <1>1, <1>2, WikiInputs DEF RequestsInv, WikiTypeOK
<1> HIDE DEF T, n
<1>4. Placed(T, longer) /\ Len(longer) = n + 1
  <2>1. file[T] \in Seq(Shows) /\ \A i \in DOMAIN file[T] : OfSomeBody(T, i, file[T][i])
    BY <1>3 DEF Placed
  <2>2. n + 1 \in DOMAIN file[T] /\ file[T][n + 1] \in Shows
    BY <1>2, <1>3, <2>1
  <2> QED
    BY <1>3, <2>1, <2>2, PlacedLonger
<1>5. page[r] = SubSeq(file[T], 1, n) => longer = SubSeq(file[T], 1, n + 1)
  <2>1. file[T] \in Seq(Shows)
    BY <1>3 DEF Placed
  <2> QED
    BY <1>2, <1>3, <2>1, LongerPrefix
<1> HIDE DEF longer
<1>6. \A q \in Requests : /\ at'[q] = IF q = r THEN n + 1 ELSE at[q]
                          /\ page'[q] = IF q = r THEN longer ELSE page[q]
  BY <1>1, <1>2 DEF WikiTypeOK
<1>7. WikiTypeOK'
  <2>1. page' \in [Requests -> Seq(Blocks \union {Absent})]
    <3> DEFINE S == Seq(Blocks \union {Absent})
    <3>1. page \in [Requests -> S] /\ longer \in S
      BY <1>1, <1>4 DEF WikiTypeOK, Placed, Shows
    <3> HIDE DEF S
    <3>2. page' \in [Requests -> S]
      BY <1>2, <3>1
    <3> QED
      BY <3>2 DEF S
  <2>2. at' \in [Requests -> Nat]
    <3>1. n + 1 \in Nat
      BY <1>3
    <3>2. at \in [Requests -> Nat]
      BY <1>1 DEF WikiTypeOK
    <3> QED
      BY <1>2, <3>1, <3>2
  <2> QED
    BY <1>1, <1>2, <2>1, <2>2 DEF WikiTypeOK
<1>8. FilesInv'
  <2>1. SUFFICES ASSUME NEW t \in Titles PROVE file[t] = Absent \/ Placed(t, file[t])
    BY <1>2 DEF FilesInv, Placed, OfSomeBody, Title, Body, IsSave
  <2> QED
    BY <1>1 DEF FilesInv
<1>9. RequestsInv'
  <2>1. SUFFICES ASSUME NEW q \in Requests
                 PROVE  /\ pc[q] = "asked" => at'[q] = 0 /\ page'[q] = << >>
                        /\ pc[q] \in {"read", "write"} => Placed(Title(q), file[Title(q)])
                        /\ pc[q] = "write" => IsSave(q) /\ at'[q] <= Len(Body(q))
                        /\ pc[q] = "read" => /\ ~IsSave(q) /\ Len(page'[q]) = at'[q]
                                             /\ Placed(Title(q), page'[q])
    BY <1>2 DEF RequestsInv, Placed, OfSomeBody, Title, Body, IsSave
  <2>2. CASE q = r
    <3>1. at'[q] = n + 1 /\ page'[q] = longer /\ Title(q) = T
      BY <1>6, <2>2 DEF T
    <3> QED
      BY <1>2, <1>3, <1>4, <2>2, <3>1
  <2>3. CASE q # r
    <3>1. at'[q] = at[q] /\ page'[q] = page[q]
      BY <1>6, <2>3
    <3> QED
      BY <1>1, <3>1 DEF RequestsInv
  <2> QED
    BY <2>2, <2>3
<1>10. LoneInv'
  <2>1. SUFFICES ASSUME NEW t \in Titles, NEW q \in Requests, lone[t] = q, q # Nobody
                 PROVE  /\ Title(q) = t /\ IsSave(q) /\ pc[q] \in {"write", "answered"}
                        /\ \A w \in Requests : pc[w] = "write" /\ Title(w) = t => w = q
                        /\ at'[q] <= Len(Body(q)) /\ file[t] = SubSeq(Body(q), 1, at'[q])
    <3>1. \A t \in Titles : lone[t] # Nobody => lone[t] \in Requests
      BY <1>1 DEF WikiTypeOK
    <3> QED
      BY <1>2, <3>1 DEF LoneInv, Title, Body, IsSave
  <2>2. q # r
    BY <1>1, <1>2, <2>1 DEF LoneInv
  <2>3. at'[q] = at[q]
    BY <1>6, <2>2
  <2> QED
    BY <1>1, <2>1, <2>3 DEF LoneInv
<1>11. StillInv'
  <2>1. SUFFICES ASSUME NEW q \in still, pc[q] = "read"
                 PROVE  /\ \A w \in Requests : pc[w] = "write" => Title(w) # Title(q)
                        /\ at'[q] <= Len(file[Title(q)])
                        /\ page'[q] = SubSeq(file[Title(q)], 1, at'[q])
    BY <1>2 DEF StillInv, Title
  <2>2. /\ q \in Requests /\ \A w \in Requests : pc[w] = "write" => Title(w) # Title(q)
        /\ at[q] <= Len(file[Title(q)]) /\ page[q] = SubSeq(file[Title(q)], 1, at[q])
    BY <1>1, <2>1 DEF WikiTypeOK, StillInv
  <2>3. CASE q = r
    <3>1. at'[q] = n + 1 /\ page'[q] = longer /\ Title(q) = T /\ page[r] = SubSeq(file[T], 1, n)
      BY <1>6, <2>2, <2>3 DEF T, n
    <3>2. n + 1 <= Len(file[T])
      <4>1. file[T] \in Seq(Shows)
        BY <1>3 DEF Placed
      <4> QED
        BY <1>2, <1>3, <4>1
    <3> QED
      BY <1>5, <2>2, <3>1, <3>2
  <2>4. CASE q # r
    BY <1>6, <2>2, <2>4
  <2> QED
    BY <2>3, <2>4
<1> QED
  BY <1>7, <1>8, <1>9, <1>10, <1>11 DEF WikiInv

LEMMA WikiStutters == ASSUME WikiInv, UNCHANGED wikiVars PROVE WikiInv'
<1>1. /\ input' = input /\ file' = file /\ pc' = pc /\ at' = at /\ page' = page
      /\ answer' = answer /\ lone' = lone /\ still' = still
  BY DEF wikiVars
<1>2. WikiTypeOK'
  BY <1>1 DEF WikiInv, WikiTypeOK
<1>3. FilesInv' /\ RequestsInv' /\ LoneInv' /\ StillInv'
  BY <1>1 DEF WikiInv, FilesInv, RequestsInv, LoneInv, StillInv, Placed, OfSomeBody, Title, Body, IsSave
<1> QED
  BY <1>2, <1>3 DEF WikiInv

LEMMA WikiStep == ASSUME WikiInv, [WikiNext]_wikiVars PROVE WikiInv'
<1>1. CASE UNCHANGED wikiVars
  BY <1>1, WikiStutters
<1>2. ASSUME NEW r \in Requests, Serve(r) PROVE WikiInv'
  <2>1. CASE NotFound(r)
    <3>1. /\ pc[r] # "answered" /\ Answer(r, "404") /\ still' = still /\ page' = page
          /\ input' = input /\ file' = file /\ at' = at /\ lone' = lone
      BY <2>1 DEF NotFound, history
    <3> QED
      BY <3>1, AnsweredKeeps
  <2>2. CASE SaveOpen(r)
    BY <2>2, SaveOpenKeeps
  <2>3. CASE SaveWrite(r)
    BY <2>3, SaveWriteKeeps
  <2>4. CASE SaveAnswer(r)
    <3>1. /\ pc[r] # "answered" /\ Answer(r, "redirect to view") /\ still' = still /\ page' = page
          /\ input' = input /\ file' = file /\ at' = at /\ lone' = lone
      BY <2>4 DEF SaveAnswer, Start, history
    <3> QED
      BY <3>1, AnsweredKeeps
  <2>5. CASE LoadOpen(r)
    BY <2>5, LoadOpenKeeps
  <2>6. CASE LoadRead(r)
    BY <2>6, LoadReadKeeps
  <2>7. CASE LoadFails(r)
    <3>1. /\ pc[r] # "answered" /\ (Answer(r, "redirect to edit") \/ Answer(r, "edit"))
          /\ still' \subseteq still /\ page' = [page EXCEPT ![r] = << >>]
          /\ input' = input /\ file' = file /\ at' = at /\ lone' = lone
      BY <2>7 DEF LoadFails, Start
    <3> QED
      BY <3>1, AnsweredKeeps
  <2>8. CASE Render(r)
    <3>1. /\ pc[r] = "read" /\ Answer(r, input[r].handler) /\ still' = still /\ page' = page
          /\ input' = input /\ file' = file /\ at' = at /\ lone' = lone
      BY <2>8 DEF Render, history
    <3>2. input[r].handler \in {"view", "edit"}
      BY <3>1, WikiInputs DEF WikiInv, RequestsInv, IsSave
    <3> QED
      BY <3>1, <3>2, AnsweredKeeps
  <2> QED
    BY <1>2, <2>1, <2>2, <2>3, <2>4, <2>5, <2>6, <2>7, <2>8 DEF Serve
<1> QED
  BY <1>1, <1>2 DEF WikiNext

(* Everything the proofs need of the wiki is true of it at every step.     *)
THEOREM WikiInductive == WikiSpec => []WikiInv
<1> QED
  BY WikiBegins, WikiStep, PTL DEF WikiSpec

(* The files, the pages and the answers keep their types, for any requests *)
(* (makeHandler and what it calls).                                        *)
THEOREM WikiKeepsTypes == WikiSpec => []WikiTypeOK
<1>1. WikiInv => WikiTypeOK
  BY DEF WikiInv
<1> QED
  BY WikiInductive, <1>1, PTL

(* The save no other was in the way of has its page as far as it has       *)
(* written it, for any number of requests and bodies of any length.        *)
THEOREM WikiKeepsLoneSaves == WikiSpec => []LoneSaveIsKept
<1>1. WikiInv => LoneSaveIsKept
  BY DEF WikiInv, LoneInv, LoneSaveIsKept
<1> QED
  BY WikiInductive, <1>1, PTL

\* Only an answer to a read shows a page: what it has read, or, if the read
\* failed, the empty page, and then it is no longer one of the still.
LEMMA ShownKeeps ==
  ASSUME WikiInv, WikiInv', [WikiNext]_wikiVars, NEW r \in Requests, Shown(r)
  PROVE  InPlace(r)' /\ (r \in still' => page'[r] = file[Title(r)])
<1>1. /\ WikiTypeOK /\ RequestsInv /\ StillInv
      /\ pc[r] = "read" /\ pc'[r] = "answered" /\ answer'[r] # "redirect to edit"
  BY DEF WikiInv, Shown
<1>2. PICK q \in Requests : Serve(q)
  BY <1>1 DEF WikiNext, wikiVars
<1>3. q = r
  <2>1. \E c \in {"answered", "write", "read"} : pc' = [pc EXCEPT ![q] = c] \/ pc' = pc
    BY <1>2 DEF Serve, NotFound, SaveOpen, SaveWrite, SaveAnswer, LoadOpen, LoadRead, LoadFails, Render, Answer
  <2> QED
    BY <1>1, <2>1 DEF WikiTypeOK
<1>4. LoadFails(r) \/ Render(r)
  BY <1>1, <1>2, <1>3 DEF Serve, NotFound, SaveOpen, SaveWrite, SaveAnswer, LoadOpen, LoadRead, Start, RequestsInv, WikiTypeOK
<1>5. CASE LoadFails(r)
  <2>1. page'[r] = << >> /\ still' = still \ {r}
    BY <1>1, <1>5 DEF LoadFails, WikiTypeOK
  <2>2. DOMAIN page'[r] = {}
    BY <2>1
  <2> QED
    BY <2>1, <2>2 DEF InPlace
<1>6. CASE Render(r)
  <2>1. input' = input /\ page' = page /\ still' = still /\ at[r] >= Len(file[Title(r)])
    BY <1>6 DEF Render, history
  <2>2. InPlace(r)
    BY <1>1 DEF RequestsInv, Placed, OfSomeBody, InPlace
  <2>3. InPlace(r)'
    BY <2>1, <2>2 DEF InPlace, Title, Body, IsSave
  <2>4. ASSUME r \in still PROVE page[r] = file[Title(r)]
    <3>1. /\ at[r] <= Len(file[Title(r)]) /\ page[r] = SubSeq(file[Title(r)], 1, at[r])
          /\ file[Title(r)] \in Seq(Shows) /\ at[r] \in Nat
      BY <1>1, <2>4 DEF StillInv, RequestsInv, Placed, WikiTypeOK
    <3>2. at[r] = Len(file[Title(r)])
      BY <2>1, <3>1
    <3>3. \A f \in Seq(Shows) : SubSeq(f, 1, Len(f)) = f
      OBVIOUS
    <3> QED
      BY <3>1, <3>2, <3>3
  <2> QED
    BY <2>1, <2>3, <2>4
<1> QED
  BY <1>4, <1>5, <1>6

(* A page is shown whole and as it is, if no save was in the way of its    *)
(* read, and in any case nothing but blocks of saves in their places, for  *)
(* any number of requests and bodies of any length.                        *)
THEOREM WikiShowsPagesWhole == WikiSpec => PagesAreShownWhole
<1>1. WikiInv /\ WikiInv' /\ [WikiNext]_wikiVars =>
        [\A r \in Requests : Shown(r) => InPlace(r)' /\ (r \in still' => page'[r] = file[Title(r)])]_wikiVars
  BY ShownKeeps
<1> QED
  BY WikiInductive, <1>1, PTL DEF WikiSpec, PagesAreShownWhole
==============================================================================
