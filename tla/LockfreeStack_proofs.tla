------------------------- MODULE LockfreeStack_proofs -------------------------
(***************************************************************************)
(* For any number of nodes: the links from the top are the stack after     *)
(* every step, the init process's assertions hold, and the two processes   *)
(* implement AbstractStack.                                                *)
(***************************************************************************)
EXTENDS LockfreeStack, SequenceTheorems, TLAPS

\* The nodes the push process has put on the stack: 0 .. Linked - 1.
Linked == pushIndex + (IF pushPc \in {"count", "end", "done"} THEN 1 ELSE 0)

\* One if a node was taken and is not yet counted.
Uncounted == IF popPc = "count" /\ nodePointer # NULL THEN 1 ELSE 0

(***************************************************************************)
(* The inductive invariant, in named parts.                                *)
(***************************************************************************)

\* The stack holds distinct nodes, all of them already pushed.
FreshInv ==
  /\ \A i \in 1 .. Len(chain) : chain[i] < Linked
  /\ \A i, j \in 1 .. Len(chain) : i # j => chain[i] # chain[j]

\* A pop past its test finds a node: only it takes nodes off the stack.
PopInv ==
  /\ popPc = "read" => top # NULL
  /\ popPc = "cas" => top # NULL /\ nodePointer # NULL

\* The counters lag behind the stack by the step each process has to go.
CountInv ==
  /\ Len(chain) + Len(popped) = Linked
  /\ gNumofPushed = pushIndex + (IF pushPc \in {"end", "done"} THEN 1 ELSE 0)
  /\ gNumofPopped + Uncounted = Len(popped)
  /\ pushPc \in {"end", "done"} => pushIndex = MAX_OF_NODES - 1

EndInv ==
  gEndCount = (IF pushPc = "done" THEN 1 ELSE 0) + (IF popPc = "done" THEN 1 ELSE 0)

\* The init process walks the stack, which no longer changes.
WalkInv ==
  initPc # "wait" =>
    /\ pushPc = "done" /\ popPc = "done"
    /\ gNumofRemained = Len(chain)
    /\ walkIndex <= Len(chain)
    /\ walkPointer = IF walkIndex = Len(chain) THEN NULL ELSE chain[walkIndex + 1]

\* The pop process has made popIndex attempts, or popIndex + 1.
AttemptInv ==
  /\ gNumofPopped <= popIndex + (IF popPc \in {"end", "done"} THEN 1 ELSE 0)

IInv ==
  /\ TypeOK
  /\ ChainIsReachable
  /\ FreshInv
  /\ PopInv
  /\ CountInv
  /\ AttemptInv
  /\ EndInv
  /\ WalkInv

-----------------------------------------------------------------------------
\* A node put on top of a sequence shifts the others by one.
LEMMA ConsProperties ==
  ASSUME NEW S, NEW e \in S, NEW seq \in Seq(S)
  PROVE  /\ <<e>> \o seq \in Seq(S)
         /\ Len(<<e>> \o seq) = Len(seq) + 1
         /\ (<<e>> \o seq)[1] = e
         /\ \A i \in 2 .. Len(seq) + 1 : (<<e>> \o seq)[i] = seq[i - 1]
         /\ <<e>> \o seq # << >>
  <1>1. <<e>> \in Seq(S) /\ Len(<<e>>) = 1 /\ <<e>>[1] = e
    OBVIOUS
  <1>2. /\ <<e>> \o seq \in Seq(S)
        /\ Len(<<e>> \o seq) = 1 + Len(seq)
        /\ \A i \in 1 .. Len(seq) + 1 :
             (<<e>> \o seq)[i] = IF i <= 1 THEN <<e>>[i] ELSE seq[i - 1]
    BY <1>1, ConcatProperties
  <1>3. Len(seq) \in Nat
    OBVIOUS
  <1>4. QED
    BY <1>1, <1>2, <1>3

(***************************************************************************)
(* What a push and a pop do to a linked list, apart from the processes.    *)
(***************************************************************************)

\* The links nx from the node tp run through the sequence seq.
Represents(seq, nx, tp) ==
  /\ tp = IF seq = << >> THEN NULL ELSE seq[1]
  /\ \A i \in 1 .. Len(seq) : nx[seq[i]] = IF i = Len(seq) THEN NULL ELSE seq[i + 1]

\* The nodes of seq are distinct and below k.
Fresh(seq, k) ==
  /\ \A i \in 1 .. Len(seq) : seq[i] < k
  /\ \A i, j \in 1 .. Len(seq) : i # j => seq[i] # seq[j]

LEMMA PushRepresents ==
  ASSUME NEW seq \in Seq(Nodes), NEW nx, NEW n \in Nodes, Represents(seq, nx, nx[n])
  PROVE  Represents(<<n>> \o seq, nx, n)
  <1> DEFINE new == <<n>> \o seq
  <1>1. /\ new \in Seq(Nodes) /\ Len(new) = Len(seq) + 1 /\ new[1] = n /\ new # << >>
        /\ \A i \in 2 .. Len(seq) + 1 : new[i] = seq[i - 1]
        /\ Len(seq) \in Nat
    BY ConsProperties
  <1> HIDE DEF new
  <1>2. ASSUME NEW i \in 1 .. Len(new)
        PROVE  nx[new[i]] = IF i = Len(new) THEN NULL ELSE new[i + 1]
    <2>1. CASE i = 1 /\ seq = << >>
      BY <1>1, <2>1 DEF Represents
    <2>2. CASE i = 1 /\ seq # << >>
      <3>1. Len(seq) >= 1 /\ new[2] = seq[1]
        BY <1>1, <2>2, EmptySeq
      <3>2. QED
        BY <1>1, <2>2, <3>1 DEF Represents
    <2>3. CASE i # 1
      <3>1. i - 1 \in 1 .. Len(seq) /\ new[i] = seq[i - 1]
        BY <1>1, <2>3
      <3>2. nx[seq[i - 1]] = IF i - 1 = Len(seq) THEN NULL ELSE seq[(i - 1) + 1]
        BY <3>1 DEF Represents
      <3>3. ASSUME i # Len(new)
            PROVE  new[i + 1] = seq[i]
        <4>1. i + 1 \in 2 .. Len(seq) + 1 /\ (i + 1) - 1 = i
          BY <1>1, <3>3
        <4>2. new[i + 1] = seq[(i + 1) - 1]
          BY <1>1, <4>1
        <4>3. QED
          BY <4>1, <4>2
      <3>4. (i - 1) + 1 = i /\ (i - 1 = Len(seq) <=> i = Len(new))
        BY <1>1
      <3>5. QED
        BY <3>1, <3>2, <3>3, <3>4
    <2>4. QED
      BY <2>1, <2>2, <2>3
  <1>3. Represents(new, nx, n)
    BY <1>1, <1>2 DEF Represents
  <1>4. QED
    BY <1>3 DEF new

LEMMA PushFresh ==
  ASSUME NEW seq \in Seq(Nodes), NEW n \in Nodes, Fresh(seq, n)
  PROVE  Fresh(<<n>> \o seq, n + 1)
  <1> DEFINE new == <<n>> \o seq
  <1>1. /\ new \in Seq(Nodes) /\ Len(new) = Len(seq) + 1 /\ new[1] = n
        /\ \A i \in 2 .. Len(seq) + 1 : new[i] = seq[i - 1]
        /\ Len(seq) \in Nat
    BY ConsProperties
  <1> HIDE DEF new
  <1>2. \A i \in 1 .. Len(new) : i # 1 => i - 1 \in 1 .. Len(seq) /\ new[i] = seq[i - 1]
    BY <1>1
  <1>3. ASSUME NEW i \in 1 .. Len(new)
        PROVE  new[i] < n + 1 /\ (i # 1 => new[i] < n)
    <2>1. CASE i = 1
      BY <1>1, <2>1 DEF Nodes
    <2>2. CASE i # 1
      <3>1. i - 1 \in 1 .. Len(seq) /\ new[i] = seq[i - 1]
        BY <1>2, <2>2
      <3>2. seq[i - 1] < n
        BY <3>1 DEF Fresh
      <3>3. seq[i - 1] \in Nodes
        BY <3>1, ElementOfSeq
      <3>4. QED
        BY <2>2, <3>1, <3>2, <3>3, MaxOfNodesIsPositive DEF Nodes
    <2>3. QED
      BY <2>1, <2>2
  <1>4. ASSUME NEW i \in 1 .. Len(new), NEW j \in 1 .. Len(new), i # j
        PROVE  new[i] # new[j]
    <2>1. CASE i = 1 \/ j = 1
      BY <1>1, <1>3, <1>4, <2>1 DEF Nodes
    <2>2. CASE i # 1 /\ j # 1
      <3>1. i - 1 # j - 1
        BY <1>4
      <3>2. QED
        BY <1>2, <2>2, <3>1 DEF Fresh
    <2>3. QED
      BY <2>1, <2>2
  <1>5. Fresh(new, n + 1)
    BY <1>3, <1>4 DEF Fresh
  <1>6. QED
    BY <1>5 DEF new

LEMMA PopRepresents ==
  ASSUME NEW seq \in Seq(Nodes), seq # << >>, NEW nx, NEW k,
         Represents(seq, nx, seq[1]), Fresh(seq, k)
  PROVE  Represents(Tail(seq), nx, nx[seq[1]]) /\ Fresh(Tail(seq), k)
  <1> DEFINE rest == Tail(seq)
  <1>1. /\ rest \in Seq(Nodes) /\ Len(rest) = Len(seq) - 1 /\ Len(seq) \in Nat \ {0}
        /\ \A i \in 1 .. Len(rest) : rest[i] = seq[i + 1]
    BY HeadTailProperties, EmptySeq
  <1> HIDE DEF rest
  <1>2. \A i \in 1 .. Len(rest) : i \in 1 .. Len(seq) /\ i + 1 \in 1 .. Len(seq)
    BY <1>1
  <1>3. nx[seq[1]] = IF rest = << >> THEN NULL ELSE rest[1]
    <2>1. nx[seq[1]] = IF Len(seq) = 1 THEN NULL ELSE seq[2]
      BY <1>1 DEF Represents
    <2>2. CASE Len(seq) = 1
      BY <1>1, <2>1, <2>2, EmptySeq
    <2>3. CASE Len(seq) # 1
      <3>1. rest # << >> /\ rest[1] = seq[2]
        BY <1>1, <2>3
      <3>2. QED
        BY <2>1, <2>3, <3>1
    <2>4. QED
      BY <2>2, <2>3
  <1>4. ASSUME NEW i \in 1 .. Len(rest)
        PROVE  nx[rest[i]] = IF i = Len(rest) THEN NULL ELSE rest[i + 1]
    <2>1. nx[seq[i + 1]] = IF i + 1 = Len(seq) THEN NULL ELSE seq[(i + 1) + 1]
      BY <1>2 DEF Represents
    <2>2. rest[i] = seq[i + 1] /\ (i # Len(rest) => rest[i + 1] = seq[(i + 1) + 1])
      BY <1>1
    <2>3. i + 1 = Len(seq) <=> i = Len(rest)
      BY <1>1
    <2>4. QED
      BY <2>1, <2>2, <2>3
  <1>5. Fresh(rest, k)
    <2>1. ASSUME NEW i \in 1 .. Len(rest)
          PROVE  rest[i] < k
      BY <1>1, <1>2 DEF Fresh
    <2>2. ASSUME NEW i \in 1 .. Len(rest), NEW j \in 1 .. Len(rest), i # j
          PROVE  rest[i] # rest[j]
      <3>1. i + 1 # j + 1
        BY <2>2
      <3>2. QED
        BY <1>1, <1>2, <3>1 DEF Fresh
    <2>3. QED
      BY <2>1, <2>2 DEF Fresh
  <1>6. Represents(rest, nx, nx[seq[1]]) /\ Fresh(rest, k)
    BY <1>3, <1>4, <1>5 DEF Represents
  <1>7. QED
    BY <1>6 DEF rest

(***************************************************************************)
(* Every action preserves the invariant.                                   *)
(***************************************************************************)

LEMMA PushLinkStep == IInv /\ PushLink => IInv'
  <1> SUFFICES ASSUME IInv, PushLink
               PROVE  IInv'
    OBVIOUS
  <1> USE MaxOfNodesIsPositive DEF IInv, PushLink, TypeOK, Nodes, Pointers, NULL,
          sharedVars, pushVars, popVars, initVars, historyVars
  <1>1. TypeOK'
    BY DEF CountInv, Uncounted, PopInv, AttemptInv, EndInv, WalkInv, ChainIsReachable
  <1>2. ChainIsReachable'
    BY DEF ChainIsReachable, FreshInv, Linked, PopInv
  <1>3. FreshInv'
    BY DEF FreshInv, Linked
  <1>4. PopInv'
    BY DEF PopInv
  <1>5. CountInv'
    BY DEF CountInv, Linked, Uncounted, PopInv
  <1>6. AttemptInv'
    BY DEF AttemptInv
  <1>7. EndInv'
    BY DEF EndInv
  <1>8. WalkInv'
    BY DEF WalkInv, EndInv, CountInv, ChainIsReachable, Linked, Uncounted
  <1>9. QED
    BY <1>1, <1>2, <1>3, <1>4, <1>5, <1>6, <1>7, <1>8

LEMMA PushCasStep == IInv /\ PushCas => IInv'
  <1> SUFFICES ASSUME IInv, PushCas
               PROVE  IInv'
    OBVIOUS
  <1> USE MaxOfNodesIsPositive DEF IInv, PushCas, TypeOK, Nodes, Pointers, NULL,
          sharedVars, pushVars, popVars, initVars, historyVars
  <1>1. CASE top # next[pushIndex]
    BY <1>1 DEF ChainIsReachable, FreshInv, PopInv, CountInv, AttemptInv, EndInv, WalkInv,
       Linked, Uncounted
  <1>2. CASE top = next[pushIndex]
    <2>1. /\ top' = pushIndex /\ chain' = <<pushIndex>> \o chain /\ pushPc' = "count"
          /\ Linked = pushIndex /\ Linked' = pushIndex + 1
      BY <1>2 DEF Linked
    <2>2. chain' \in Seq(Nodes) /\ Len(chain') = Len(chain) + 1
      BY <2>1, ConsProperties
    <2>3. TypeOK'
      BY <2>1, <2>2
    <2>4. ChainIsReachable'
      <3>1. Represents(chain, next, next[pushIndex])
        BY <1>2 DEF ChainIsReachable, Represents
      <3>2. Represents(<<pushIndex>> \o chain, next, pushIndex)
        BY <3>1, PushRepresents
      <3>3. next' = next
        OBVIOUS
      <3>4. QED
        BY <2>1, <3>2, <3>3 DEF ChainIsReachable, Represents
    <2>5. FreshInv'
      <3>1. Fresh(chain, pushIndex)
        BY <2>1 DEF FreshInv, Fresh
      <3>2. Fresh(<<pushIndex>> \o chain, pushIndex + 1)
        BY <3>1, PushFresh
      <3>3. QED
        BY <2>1, <3>2 DEF FreshInv, Fresh
    <2>6. PopInv' /\ AttemptInv' /\ EndInv' /\ WalkInv'
      BY <1>2, <2>1 DEF PopInv, AttemptInv, EndInv, WalkInv
    <2>7. CountInv'
      BY <2>1, <2>2 DEF CountInv, Uncounted
    <2>8. QED
      BY <2>3, <2>4, <2>5, <2>6, <2>7
  <1>3. QED
    BY <1>1, <1>2

LEMMA PushCountStep == IInv /\ PushCount => IInv'
  <1> SUFFICES ASSUME IInv, PushCount
               PROVE  IInv'
    OBVIOUS
  <1> USE MaxOfNodesIsPositive DEF IInv, PushCount, TypeOK, Nodes, Pointers, NULL,
          sharedVars, pushVars, popVars, initVars, historyVars
  <1>1. TypeOK'
    BY DEF CountInv, Uncounted, PopInv, AttemptInv, EndInv, WalkInv, ChainIsReachable
  <1>2. ChainIsReachable'
    BY DEF ChainIsReachable, FreshInv, Linked, PopInv
  <1>3. FreshInv'
    BY DEF FreshInv, Linked
  <1>4. PopInv'
    BY DEF PopInv
  <1>5. CountInv'
    <2>1. Linked' = Linked /\ Uncounted' = Uncounted
      BY DEF Linked, Uncounted
    <2>2. CASE pushIndex < MAX_OF_NODES - 1
      BY <2>1, <2>2 DEF CountInv
    <2>3. CASE ~(pushIndex < MAX_OF_NODES - 1)
      <3>1. pushIndex = MAX_OF_NODES - 1 /\ pushPc' = "end" /\ pushIndex' = pushIndex
        BY <2>3
      <3>2. QED
        BY <2>1, <3>1 DEF CountInv
    <2>4. QED
      BY <2>2, <2>3
  <1>6. AttemptInv'
    BY DEF AttemptInv
  <1>7. EndInv'
    BY DEF EndInv
  <1>8. WalkInv'
    BY DEF WalkInv, EndInv, CountInv, ChainIsReachable, Linked, Uncounted
  <1>9. QED
    BY <1>1, <1>2, <1>3, <1>4, <1>5, <1>6, <1>7, <1>8

LEMMA PushEndStep == IInv /\ PushEnd => IInv'
  <1> SUFFICES ASSUME IInv, PushEnd
               PROVE  IInv'
    OBVIOUS
  <1> USE MaxOfNodesIsPositive DEF IInv, PushEnd, TypeOK, Nodes, Pointers, NULL,
          sharedVars, pushVars, popVars, initVars, historyVars
  <1>1. TypeOK'
    BY DEF CountInv, Uncounted, PopInv, AttemptInv, EndInv, WalkInv, ChainIsReachable
  <1>2. ChainIsReachable'
    BY DEF ChainIsReachable, FreshInv, Linked, PopInv
  <1>3. FreshInv'
    BY DEF FreshInv, Linked
  <1>4. PopInv'
    BY DEF PopInv
  <1>5. CountInv'
    BY DEF CountInv, Linked, Uncounted, PopInv
  <1>6. AttemptInv'
    BY DEF AttemptInv
  <1>7. EndInv'
    BY DEF EndInv
  <1>8. WalkInv'
    BY DEF WalkInv, EndInv, CountInv, ChainIsReachable, Linked, Uncounted
  <1>9. QED
    BY <1>1, <1>2, <1>3, <1>4, <1>5, <1>6, <1>7, <1>8

LEMMA PopTestStep == IInv /\ PopTest => IInv'
  <1> SUFFICES ASSUME IInv, PopTest
               PROVE  IInv'
    OBVIOUS
  <1> USE MaxOfNodesIsPositive DEF IInv, PopTest, TypeOK, Nodes, Pointers, NULL,
          sharedVars, pushVars, popVars, initVars, historyVars
  <1>1. TypeOK'
    BY DEF CountInv, Uncounted, PopInv, AttemptInv, EndInv, WalkInv, ChainIsReachable
  <1>2. ChainIsReachable'
    BY DEF ChainIsReachable, FreshInv, Linked, PopInv
  <1>3. FreshInv'
    BY DEF FreshInv, Linked
  <1>4. PopInv'
    BY DEF PopInv
  <1>5. CountInv'
    BY DEF CountInv, Linked, Uncounted, PopInv
  <1>6. AttemptInv'
    BY DEF AttemptInv
  <1>7. EndInv'
    BY DEF EndInv
  <1>8. WalkInv'
    BY DEF WalkInv, EndInv, CountInv, ChainIsReachable, Linked, Uncounted
  <1>9. QED
    BY <1>1, <1>2, <1>3, <1>4, <1>5, <1>6, <1>7, <1>8

LEMMA PopReadStep == IInv /\ PopRead => IInv'
  <1> SUFFICES ASSUME IInv, PopRead
               PROVE  IInv'
    OBVIOUS
  <1> USE MaxOfNodesIsPositive DEF IInv, PopRead, TypeOK, Nodes, Pointers, NULL,
          sharedVars, pushVars, popVars, initVars, historyVars
  <1>1. TypeOK'
    BY DEF CountInv, Uncounted, PopInv, AttemptInv, EndInv, WalkInv, ChainIsReachable
  <1>2. ChainIsReachable'
    BY DEF ChainIsReachable, FreshInv, Linked, PopInv
  <1>3. FreshInv'
    BY DEF FreshInv, Linked
  <1>4. PopInv'
    BY DEF PopInv
  <1>5. CountInv'
    BY DEF CountInv, Linked, Uncounted, PopInv
  <1>6. AttemptInv'
    BY DEF AttemptInv
  <1>7. EndInv'
    BY DEF EndInv
  <1>8. WalkInv'
    BY DEF WalkInv, EndInv, CountInv, ChainIsReachable, Linked, Uncounted
  <1>9. QED
    BY <1>1, <1>2, <1>3, <1>4, <1>5, <1>6, <1>7, <1>8

LEMMA PopCasStep == IInv /\ PopCas => IInv'
  <1> SUFFICES ASSUME IInv, PopCas
               PROVE  IInv'
    OBVIOUS
  <1> USE MaxOfNodesIsPositive DEF IInv, PopCas, TypeOK, Nodes, Pointers, NULL,
          sharedVars, pushVars, popVars, initVars, historyVars
  <1>1. CASE top # nodePointer
    BY <1>1 DEF ChainIsReachable, FreshInv, PopInv, CountInv, AttemptInv, EndInv, WalkInv,
       Linked, Uncounted
  <1>2. CASE top = nodePointer
    <2>1. chain # << >> /\ top = chain[1] /\ nodePointer = chain[1] /\ nodePointer # NULL
      BY <1>2 DEF PopInv, ChainIsReachable
    <2>2. /\ top' = next[chain[1]] /\ popPc' = "count" /\ chain' = Tail(chain)
          /\ popped' = Append(popped, nodePointer) /\ Linked' = Linked
      BY <1>2, <2>1 DEF Linked
    <2>3. chain' \in Seq(Nodes) /\ Len(chain') = Len(chain) - 1 /\ nodePointer \in Nodes
      BY <2>1, <2>2, HeadTailProperties
    <2>4. TypeOK'
      BY <2>1, <2>2, <2>3
    <2>5. ChainIsReachable' /\ FreshInv'
      <3>1. Represents(chain, next, chain[1]) /\ Fresh(chain, Linked)
        BY <2>1 DEF ChainIsReachable, FreshInv, Represents, Fresh
      <3>2. Represents(Tail(chain), next, next[chain[1]]) /\ Fresh(Tail(chain), Linked)
        BY <2>1, <3>1, PopRepresents
      <3>3. next' = next
        OBVIOUS
      <3>4. QED
        BY <2>2, <3>2, <3>3 DEF ChainIsReachable, FreshInv, Represents, Fresh
    <2>6. PopInv' /\ AttemptInv' /\ EndInv' /\ WalkInv'
      BY <1>2, <2>2 DEF PopInv, AttemptInv, EndInv, WalkInv
    <2>7. CountInv'
      <3>1. Len(popped') = Len(popped) + 1 /\ Len(popped) \in Nat /\ Len(chain) \in Nat
        BY <2>2, <2>3, AppendProperties
      <3>2. Uncounted = 0 /\ Uncounted' = 1
        BY <2>1, <2>2 DEF Uncounted
      <3>3. QED
        BY <2>2, <2>3, <3>1, <3>2 DEF CountInv
    <2>8. QED
      BY <2>4, <2>5, <2>6, <2>7
  <1>3. QED
    BY <1>1, <1>2

LEMMA PopCountStep == IInv /\ PopCount => IInv'
  <1> SUFFICES ASSUME IInv, PopCount
               PROVE  IInv'
    OBVIOUS
  <1> USE MaxOfNodesIsPositive DEF IInv, PopCount, TypeOK, Nodes, Pointers, NULL,
          sharedVars, pushVars, popVars, initVars, historyVars
  <1>1. TypeOK'
    BY DEF CountInv, Uncounted, PopInv, AttemptInv, EndInv, WalkInv, ChainIsReachable
  <1>2. ChainIsReachable'
    BY DEF ChainIsReachable, FreshInv, Linked, PopInv
  <1>3. FreshInv'
    BY DEF FreshInv, Linked
  <1>4. PopInv'
    BY DEF PopInv
  <1>5. CountInv'
    BY DEF CountInv, Linked, Uncounted, PopInv
  <1>6. AttemptInv'
    BY DEF AttemptInv
  <1>7. EndInv'
    BY DEF EndInv
  <1>8. WalkInv'
    BY DEF WalkInv, EndInv, CountInv, ChainIsReachable, Linked, Uncounted
  <1>9. QED
    BY <1>1, <1>2, <1>3, <1>4, <1>5, <1>6, <1>7, <1>8

LEMMA PopEndStep == IInv /\ PopEnd => IInv'
  <1> SUFFICES ASSUME IInv, PopEnd
               PROVE  IInv'
    OBVIOUS
  <1> USE MaxOfNodesIsPositive DEF IInv, PopEnd, TypeOK, Nodes, Pointers, NULL,
          sharedVars, pushVars, popVars, initVars, historyVars
  <1>1. TypeOK'
    BY DEF CountInv, Uncounted, PopInv, AttemptInv, EndInv, WalkInv, ChainIsReachable
  <1>2. ChainIsReachable'
    BY DEF ChainIsReachable, FreshInv, Linked, PopInv
  <1>3. FreshInv'
    BY DEF FreshInv, Linked
  <1>4. PopInv'
    BY DEF PopInv
  <1>5. CountInv'
    BY DEF CountInv, Linked, Uncounted, PopInv
  <1>6. AttemptInv'
    BY DEF AttemptInv
  <1>7. EndInv'
    BY DEF EndInv
  <1>8. WalkInv'
    BY DEF WalkInv, EndInv, CountInv, ChainIsReachable, Linked, Uncounted
  <1>9. QED
    BY <1>1, <1>2, <1>3, <1>4, <1>5, <1>6, <1>7, <1>8

LEMMA InitCountStep == IInv /\ InitCount => IInv'
  <1> SUFFICES ASSUME IInv, InitCount
               PROVE  IInv'
    OBVIOUS
  <1> USE MaxOfNodesIsPositive DEF IInv, InitCount, TypeOK, Nodes, Pointers, NULL,
          sharedVars, pushVars, popVars, initVars, historyVars
  <1>1. TypeOK'
    BY DEF CountInv, Uncounted, PopInv, AttemptInv, EndInv, WalkInv, ChainIsReachable
  <1>2. ChainIsReachable'
    BY DEF ChainIsReachable, FreshInv, Linked, PopInv
  <1>3. FreshInv'
    BY DEF FreshInv, Linked
  <1>4. PopInv'
    BY DEF PopInv
  <1>5. CountInv'
    BY DEF CountInv, Linked, Uncounted, PopInv
  <1>6. AttemptInv'
    BY DEF AttemptInv
  <1>7. EndInv'
    BY DEF EndInv
  <1>8. WalkInv'
    <2>1. pushPc = "done" /\ popPc = "done"
      BY DEF EndInv
    <2>2. gNumofRemained' = Len(chain) /\ Len(chain) \in Nat
      BY <2>1 DEF CountInv, Linked, Uncounted
    <2>3. walkPointer' = IF Len(chain) = 0 THEN NULL ELSE chain[1]
      BY EmptySeq DEF ChainIsReachable
    <2>4. pushPc' = "done" /\ popPc' = "done" /\ walkIndex' = 0 /\ chain' = chain
      BY <2>1
    <2>5. gNumofRemained' = Len(chain') /\ walkIndex' <= Len(chain')
      BY <2>2, <2>4
    <2>6. walkPointer' = IF walkIndex' = Len(chain') THEN NULL ELSE chain'[walkIndex' + 1]
      BY <2>3, <2>4
    <2>7. QED
      BY <2>4, <2>5, <2>6 DEF WalkInv
  <1>9. QED
    BY <1>1, <1>2, <1>3, <1>4, <1>5, <1>6, <1>7, <1>8

LEMMA InitWalkStep == IInv /\ InitWalk => IInv'
  <1> SUFFICES ASSUME IInv, InitWalk
               PROVE  IInv'
    OBVIOUS
  <1> USE MaxOfNodesIsPositive DEF IInv, InitWalk, TypeOK, Nodes, Pointers, NULL,
          sharedVars, pushVars, popVars, initVars, historyVars
  <1>1. TypeOK'
    BY DEF CountInv, Uncounted, PopInv, AttemptInv, EndInv, WalkInv, ChainIsReachable
  <1>2. ChainIsReachable'
    BY DEF ChainIsReachable, FreshInv, Linked, PopInv
  <1>3. FreshInv'
    BY DEF FreshInv, Linked
  <1>4. PopInv'
    BY DEF PopInv
  <1>5. CountInv'
    BY DEF CountInv, Linked, Uncounted, PopInv
  <1>6. AttemptInv'
    BY DEF AttemptInv
  <1>7. EndInv'
    BY DEF EndInv
  <1>8. WalkInv'
    <2>1. /\ gNumofRemained = Len(chain) /\ walkIndex < Len(chain)
          /\ walkPointer = chain[walkIndex + 1]
          /\ walkIndex + 1 \in 1 .. Len(chain)
      BY DEF WalkInv
    <2>2. next[chain[walkIndex + 1]] =
            IF walkIndex + 1 = Len(chain) THEN NULL ELSE chain[(walkIndex + 1) + 1]
      BY <2>1 DEF ChainIsReachable
    <2>3. QED
      BY <2>1, <2>2 DEF WalkInv
  <1>9. QED
    BY <1>1, <1>2, <1>3, <1>4, <1>5, <1>6, <1>7, <1>8

LEMMA InitEndStep == IInv /\ InitEnd => IInv'
  <1> SUFFICES ASSUME IInv, InitEnd
               PROVE  IInv'
    OBVIOUS
  <1> USE MaxOfNodesIsPositive DEF IInv, InitEnd, TypeOK, Nodes, Pointers, NULL,
          sharedVars, pushVars, popVars, initVars, historyVars
  <1>1. TypeOK'
    BY DEF CountInv, Uncounted, PopInv, AttemptInv, EndInv, WalkInv, ChainIsReachable
  <1>2. ChainIsReachable'
    BY DEF ChainIsReachable, FreshInv, Linked, PopInv
  <1>3. FreshInv'
    BY DEF FreshInv, Linked
  <1>4. PopInv'
    BY DEF PopInv
  <1>5. CountInv'
    BY DEF CountInv, Linked, Uncounted, PopInv
  <1>6. AttemptInv'
    BY DEF AttemptInv
  <1>7. EndInv'
    BY DEF EndInv
  <1>8. WalkInv'
    BY DEF WalkInv, EndInv, CountInv, ChainIsReachable, Linked, Uncounted
  <1>9. QED
    BY <1>1, <1>2, <1>3, <1>4, <1>5, <1>6, <1>7, <1>8

-----------------------------------------------------------------------------
(***************************************************************************)
(* The theorems.                                                           *)
(***************************************************************************)

LEMMA InitIInv == Init => IInv
  BY MaxOfNodesIsPositive DEF Init, IInv, TypeOK, ChainIsReachable, FreshInv, PopInv,
     CountInv, AttemptInv, EndInv, WalkInv, Linked, Uncounted, Nodes, Pointers, NULL

LEMMA StepIInv == IInv /\ [Next]_vars => IInv'
  <1>1. IInv /\ UNCHANGED vars => IInv'
    BY DEF vars, sharedVars, pushVars, popVars, initVars, historyVars, IInv, TypeOK,
       ChainIsReachable, FreshInv, PopInv, CountInv, AttemptInv, EndInv, WalkInv,
       Linked, Uncounted
  <1>2. QED
    BY <1>1, PushLinkStep, PushCasStep, PushCountStep, PushEndStep, PopTestStep,
       PopReadStep, PopCasStep, PopCountStep, PopEndStep, InitCountStep, InitWalkStep,
       InitEndStep
    DEF Next, Push, Pop, PostCondition

\* The inductive invariant, with the types of the variables, holds throughout.
THEOREM StackIInv == Spec => []IInv
  BY InitIInv, StepIInv, PTL DEF Spec

\* Every variable of the two stack processes keeps its type: the indices of
\* both processes stay within the node array.
THEOREM StackTypeOK == Spec => []TypeOK
  <1>1. IInv => TypeOK
    BY DEF IInv
  <1>2. QED
    BY <1>1, StackIInv, PTL

\* No interleaving of the compare-and-swaps loses or repeats a node.
THEOREM StackChainIsReachable == Spec => []ChainIsReachable
  <1>1. IInv => ChainIsReachable
    BY DEF IInv
  <1>2. QED
    BY <1>1, StackIInv, PTL

\* The assertions of the init process never fail.
THEOREM StackPostCondition == Spec => []PostConditionHolds
  <1>1. IInv => PostConditionHolds
    <2> SUFFICES ASSUME IInv, initPc # "wait"
                 PROVE  /\ gNumofPushed = MAX_OF_NODES
                        /\ walkIndex < gNumofRemained => walkPointer # NULL
                        /\ walkIndex >= gNumofRemained => walkPointer = NULL
      BY DEF PostConditionHolds
    <2>1. gNumofPushed = MAX_OF_NODES
      BY MaxOfNodesIsPositive DEF IInv, WalkInv, CountInv
    <2>2. ASSUME walkIndex < gNumofRemained
          PROVE  walkPointer # NULL
      <3>1. walkIndex + 1 \in 1 .. Len(chain) /\ walkPointer = chain[walkIndex + 1]
        BY <2>2 DEF IInv, WalkInv, TypeOK
      <3>2. walkPointer \in Nodes
        BY <3>1, ElementOfSeq DEF IInv, TypeOK
      <3>3. QED
        BY <3>2 DEF Nodes, NULL
    <2>3. walkIndex >= gNumofRemained => walkPointer = NULL
      BY DEF IInv, WalkInv, TypeOK
    <2>4. QED
      BY <2>1, <2>2, <2>3
  <1>2. QED
    BY <1>1, StackIInv, PTL

-----------------------------------------------------------------------------
(***************************************************************************)
(* Refinement of AbstractStack.                                            *)
(***************************************************************************)

LEMMA InitStack == Init => Stack!Init
  BY DEF Init, Stack!Init

LEMMA StepStack ==
  ASSUME IInv, [Next]_vars
  PROVE  [Stack!Push \/ Stack!Pop]_<<Linked, chain, popped>>
  <1> USE DEF IInv, TypeOK, sharedVars, pushVars, popVars, initVars, historyVars
  <1>1. CASE PushCas
    <2>1. CASE top = next[pushIndex]
      <3>1. Stack!Push
        <4>1. pushPc = "cas" /\ pushPc' = "count" /\ UNCHANGED <<pushIndex, popped>>
              /\ chain' = <<pushIndex>> \o chain
          BY <1>1, <2>1 DEF PushCas
        <4>2. Linked = pushIndex /\ Linked' = pushIndex + 1 /\ pushIndex < MAX_OF_NODES
          BY <4>1, MaxOfNodesIsPositive DEF Linked, Nodes
        <4>3. QED
          BY <4>1, <4>2 DEF Stack!Push, Linked
      <3>2. QED
        BY <3>1
    <2>2. CASE top # next[pushIndex]
      BY <1>1, <2>2 DEF PushCas, Linked
    <2>3. QED
      BY <2>1, <2>2
  <1>2. CASE PopCas
    <2>1. CASE top = nodePointer
      <3>1. chain # << >> /\ nodePointer = Head(chain)
        BY <1>2, <2>1 DEF PopCas, PopInv, ChainIsReachable
      <3>2. Stack!Pop
        BY <1>2, <2>1, <3>1 DEF PopCas, Stack!Pop
      <3>3. QED
        BY <3>2
    <2>2. CASE top # nodePointer
      BY <1>2, <2>2 DEF PopCas, Linked
    <2>3. QED
      BY <2>1, <2>2
  <1>3. CASE PushLink \/ PushCount \/ PushEnd
    BY <1>3 DEF PushLink, PushCount, PushEnd, Linked, CountInv, Nodes
  <1>4. CASE PopTest \/ PopRead \/ PopCount \/ PopEnd
    BY <1>4 DEF PopTest, PopRead, PopCount, PopEnd, Linked
  <1>5. CASE PostCondition
    BY <1>5 DEF PostCondition, InitCount, InitWalk, InitEnd, Linked
  <1>6. CASE UNCHANGED vars
    BY <1>6 DEF vars, Linked
  <1>7. QED
    BY <1>1, <1>2, <1>3, <1>4, <1>5, <1>6 DEF Next, Push, Pop

\* Every behaviour of the two processes is one of the abstract stack.
THEOREM StackImplementsStack == Spec => ImplementsStack
  <1>1. IInv /\ [Next]_vars => [Stack!Push \/ Stack!Pop]_<<Linked, chain, popped>>
    BY StepStack
  <1>2. QED
    BY <1>1, InitStack, StackIInv, PTL
    DEF Spec, ImplementsStack, Stack!StackSpec, Stack!stackVars, Linked

=============================================================================
