---------------------------- MODULE AbstractStack ----------------------------
(***************************************************************************)
(* The promise of spin/lockfree-stack: a last-in first-out stack to which  *)
(* the nodes 0, 1, 2, ... are pushed once each, in that order, and from    *)
(* which each pop takes the top node in one step.                          *)
(***************************************************************************)
EXTENDS Integers, Sequences

CONSTANT MAX_OF_NODES

VARIABLES
  pushed,   \* how many nodes have been pushed
  items,    \* the stack, top first
  popped    \* the nodes popped so far, in order

stackVars == <<pushed, items, popped>>

Init ==
  /\ pushed = 0
  /\ items = << >>
  /\ popped = << >>

Push ==
  /\ pushed < MAX_OF_NODES
  /\ items' = <<pushed>> \o items
  /\ pushed' = pushed + 1
  /\ UNCHANGED popped

Pop ==
  /\ items # << >>
  /\ popped' = Append(popped, Head(items))
  /\ items' = Tail(items)
  /\ UNCHANGED pushed

StackSpec == Init /\ [][Push \/ Pop]_stackVars

=============================================================================
