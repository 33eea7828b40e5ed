---------------------------- MODULE LockfreeStack ----------------------------
(***************************************************************************)
(* spin/lockfree-stack/lockfree-stack.prom: one process pushes every node  *)
(* of gNodes, one tries to pop as often, and the init process checks the   *)
(* stack once both have ended.  An action is a Promela statement, or an    *)
(* atomic block, with the local tests before it.                           *)
(*                                                                         *)
(* chain and popped are history variables, which no guard reads: the nodes *)
(* reachable from gStack.top and the nodes taken off it, in order.         *)
(***************************************************************************)
EXTENDS Integers, Sequences

CONSTANT MAX_OF_NODES

\* The array gNodes has a node.
ASSUME MaxOfNodesIsPositive == MAX_OF_NODES \in Nat \ {0}

VARIABLES
  top,                                      \* gStack.top
  next,                                     \* next[n] is gNodes[n].next
  gNumofPushed, gNumofPopped, gEndCount,
  pushPc, pushIndex,                        \* proctype push
  popPc, popIndex, nodePointer,             \* proctype pop
  initPc, gNumofRemained, walkIndex, walkPointer,   \* init, after the run
  chain, popped

sharedVars == <<top, next, gNumofPushed, gNumofPopped, gEndCount>>
pushVars == <<pushPc, pushIndex>>
popVars == <<popPc, popIndex, nodePointer>>
initVars == <<initPc, gNumofRemained, walkIndex, walkPointer>>
historyVars == <<chain, popped>>
vars == <<sharedVars, pushVars, popVars, initVars, historyVars>>

NULL == -1
Nodes == 0 .. MAX_OF_NODES - 1
Pointers == Nodes \union {NULL}

Init ==
  /\ top = NULL
  /\ next = [n \in Nodes |-> NULL]
  /\ gNumofPushed = 0 /\ gNumofPopped = 0 /\ gEndCount = 0
  /\ pushPc = "link" /\ pushIndex = 0
  /\ popPc = "test" /\ popIndex = 0 /\ nodePointer = 0
  /\ initPc = "wait" /\ gNumofRemained = 0 /\ walkIndex = 0 /\ walkPointer = 0
  /\ chain = << >> /\ popped = << >>

-----------------------------------------------------------------------------
\* gNodes[index].next = gStack.top
PushLink ==
  /\ pushPc = "link"
  /\ next' = [next EXCEPT ![pushIndex] = top]
  /\ pushPc' = "cas"
  /\ UNCHANGED <<top, gNumofPushed, gNumofPopped, gEndCount, pushIndex,
                 popVars, initVars, historyVars>>

\* A slip: a swap that does not compare.
PushCasBlind ==
  /\ pushPc = "cas"
  /\ top' = pushIndex
  /\ chain' = <<pushIndex>> \o chain
  /\ pushPc' = "count"
  /\ UNCHANGED <<next, gNumofPushed, gNumofPopped, gEndCount, pushIndex,
                 popVars, initVars, popped>>

\* A slip: the retry compares the old link again.
PushCasStale ==
  /\ pushPc = "cas"
  /\ IF top = next[pushIndex]
       THEN /\ top' = pushIndex
            /\ chain' = <<pushIndex>> \o chain
            /\ pushPc' = "count"
       ELSE UNCHANGED <<top, chain, pushPc>>
  /\ UNCHANGED <<next, gNumofPushed, gNumofPopped, gEndCount, pushIndex,
                 popVars, initVars, popped>>

\* The compare-and-swap, which sends the loop back when the top has moved.
PushCas ==
  /\ pushPc = "cas"
  /\ IF top = next[pushIndex]
       THEN /\ top' = pushIndex
            /\ chain' = <<pushIndex>> \o chain
            /\ pushPc' = "count"
       ELSE /\ pushPc' = "link"
            /\ UNCHANGED <<top, chain>>
  /\ UNCHANGED <<next, gNumofPushed, gNumofPopped, gEndCount, pushIndex,
                 popVars, initVars, popped>>

PushCount ==
  /\ pushPc = "count"
  /\ gNumofPushed' = gNumofPushed + 1
  /\ IF pushIndex < MAX_OF_NODES - 1
       THEN pushPc' = "link" /\ pushIndex' = pushIndex + 1
       ELSE pushPc' = "end" /\ UNCHANGED pushIndex
  /\ UNCHANGED <<top, next, gNumofPopped, gEndCount, popVars, initVars, historyVars>>

PushEnd ==
  /\ pushPc = "end"
  /\ gEndCount' = gEndCount + 1
  /\ pushPc' = "done"
  /\ UNCHANGED <<top, next, gNumofPushed, gNumofPopped, pushIndex,
                 popVars, initVars, historyVars>>

-----------------------------------------------------------------------------
\* An empty stack ends the attempt with NULL.
PopTest ==
  /\ popPc = "test"
  /\ IF top # NULL
       THEN popPc' = "read" /\ UNCHANGED nodePointer
       ELSE popPc' = "count" /\ nodePointer' = NULL
  /\ UNCHANGED <<sharedVars, pushVars, popIndex, initVars, historyVars>>

PopRead ==
  /\ popPc = "read"
  /\ nodePointer' = top
  /\ popPc' = "cas"
  /\ UNCHANGED <<sharedVars, pushVars, popIndex, initVars, historyVars>>

\* A slip: a swap that does not compare.
PopCasBlind ==
  /\ popPc = "cas"
  /\ top' = next[nodePointer]
  /\ popped' = Append(popped, nodePointer)
  /\ chain' = IF chain = << >> THEN chain ELSE Tail(chain)
  /\ popPc' = "count"
  /\ UNCHANGED <<next, gNumofPushed, gNumofPopped, gEndCount, pushVars,
                 popIndex, nodePointer, initVars>>

\* A slip: the loop is left whether or not the swap was made.
PopCasOnce ==
  /\ popPc = "cas"
  /\ IF top = nodePointer
       THEN /\ top' = next[nodePointer]
            /\ popped' = Append(popped, nodePointer)
            /\ chain' = IF chain = << >> THEN chain ELSE Tail(chain)
       ELSE UNCHANGED <<top, historyVars>>
  /\ popPc' = "count"
  /\ UNCHANGED <<next, gNumofPushed, gNumofPopped, gEndCount, pushVars,
                 popIndex, nodePointer, initVars>>

\* The compare-and-swap reads the link of the top inside the atomic block.
PopCas ==
  /\ popPc = "cas"
  /\ IF top = nodePointer
       THEN /\ top' = next[nodePointer]
            /\ popped' = Append(popped, nodePointer)
            /\ chain' = IF chain = << >> THEN chain ELSE Tail(chain)
            /\ popPc' = "count"
       ELSE /\ popPc' = "test"
            /\ UNCHANGED <<top, historyVars>>
  /\ UNCHANGED <<next, gNumofPushed, gNumofPopped, gEndCount, pushVars,
                 popIndex, nodePointer, initVars>>

PopCount ==
  /\ popPc = "count"
  /\ gNumofPopped' = IF nodePointer # NULL THEN gNumofPopped + 1 ELSE gNumofPopped
  /\ IF popIndex < MAX_OF_NODES - 1
       THEN popPc' = "test" /\ popIndex' = popIndex + 1
       ELSE popPc' = "end" /\ UNCHANGED popIndex
  /\ UNCHANGED <<top, next, gNumofPushed, gEndCount, pushVars, nodePointer,
                 initVars, historyVars>>

PopEnd ==
  /\ popPc = "end"
  /\ gEndCount' = gEndCount + 1
  /\ popPc' = "done"
  /\ UNCHANGED <<top, next, gNumofPushed, gNumofPopped, pushVars, popIndex,
                 nodePointer, initVars, historyVars>>

-----------------------------------------------------------------------------
\* The post-condition: the init process waits for both and counts what is left.
InitCount ==
  /\ initPc = "wait"
  /\ gEndCount = 2
  /\ gNumofRemained' = gNumofPushed - gNumofPopped
  /\ walkPointer' = top
  /\ walkIndex' = 0
  /\ initPc' = "walk"
  /\ UNCHANGED <<sharedVars, pushVars, popVars, historyVars>>

\* One round of its loop over the nodes left.  A failed assertion stops it.
InitWalk ==
  /\ initPc = "walk"
  /\ walkIndex < gNumofRemained
  /\ walkPointer # NULL
  /\ walkPointer' = next[walkPointer]
  /\ walkIndex' = walkIndex + 1
  /\ UNCHANGED <<sharedVars, pushVars, popVars, initPc, gNumofRemained, historyVars>>

InitEnd ==
  /\ initPc = "walk"
  /\ walkIndex >= gNumofRemained
  /\ initPc' = "done"
  /\ UNCHANGED <<sharedVars, pushVars, popVars, gNumofRemained, walkIndex,
                 walkPointer, historyVars>>

Push == PushLink \/ PushCas \/ PushCount \/ PushEnd
Pop == PopTest \/ PopRead \/ PopCas \/ PopCount \/ PopEnd
PostCondition == InitCount \/ InitWalk \/ InitEnd

Next == Push \/ Pop \/ PostCondition

Spec == Init /\ [][Next]_vars

\* Each process that can move does so in the end (the -f option of SPIN).
FairSpec == Spec /\ WF_vars(Push) /\ WF_vars(Pop) /\ WF_vars(PostCondition)

-----------------------------------------------------------------------------
(***************************************************************************)
(* Properties.                                                             *)
(***************************************************************************)

\* The variables have their types.
TypeOK ==
  /\ top \in Pointers
  /\ next \in [Nodes -> Pointers]
  /\ gNumofPushed \in 0 .. MAX_OF_NODES /\ gNumofPopped \in 0 .. MAX_OF_NODES
  /\ gEndCount \in 0 .. 2
  /\ pushPc \in {"link", "cas", "count", "end", "done"} /\ pushIndex \in Nodes
  /\ popPc \in {"test", "read", "cas", "count", "end", "done"} /\ popIndex \in Nodes
  /\ nodePointer \in Pointers
  /\ initPc \in {"wait", "walk", "done"}
  /\ gNumofRemained \in Int /\ walkIndex \in Nat /\ walkPointer \in Pointers
  /\ chain \in Seq(Nodes) /\ popped \in Seq(Nodes)

\* After every step of either process the links from gStack.top run through
\* exactly the nodes pushed and not popped, and end in NULL: no interleaving
\* of the two compare-and-swaps cuts the list or ties a node in twice.
ChainIsReachable ==
  /\ top = IF chain = << >> THEN NULL ELSE chain[1]
  /\ \A i \in 1 .. Len(chain) :
       next[chain[i]] = IF i = Len(chain) THEN NULL ELSE chain[i + 1]

\* The assertions of the init process: every node was pushed, and the walk
\* from the top meets gNumofPushed - gNumofPopped nodes and then NULL.
PostConditionHolds ==
  initPc # "wait" =>
    /\ gNumofPushed = MAX_OF_NODES
    /\ walkIndex < gNumofRemained => walkPointer # NULL
    /\ walkIndex >= gNumofRemained => walkPointer = NULL

\* The run ends: neither compare-and-swap loop goes round for ever, and the
\* init process gets through its assertions.
Terminates == <>(initPc = "done")

Stack == INSTANCE AbstractStack
           WITH pushed <- pushIndex + (IF pushPc \in {"count", "end", "done"} THEN 1 ELSE 0),
                items <- chain

\* The two processes implement a stack: every successful compare-and-swap is
\* the push of the next node or the pop of the top one.
ImplementsStack == Stack!StackSpec

=============================================================================
