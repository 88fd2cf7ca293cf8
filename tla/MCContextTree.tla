--------------------------- MODULE MCContextTree ---------------------------
(* Instances of ContextTree for TLC: node kinds, deadlines, first trees.   *)
EXTENDS ContextTree, TLC

CONSTANTS c1, c2, v1, d1, d2

\* Root <- c1 <- v1, and c2 to be created
CancelKinds == (c1 :> "cancel") @@ (v1 :> "value") @@ (c2 :> "cancel")
CancelTree  == (c1 :> Root) @@ (v1 :> c1) @@ (c2 :> None)
NoDeadlines == [n \in Nodes |-> 0]

\* Root <- d1, d1's timer running, and d2 to be created
PairKinds     == (d1 :> "deadline") @@ (d2 :> "deadline")
PairDeadlines == (d1 :> 1) @@ (d2 :> 2)
PairTree      == (d1 :> Root) @@ (d2 :> None)

\* Root <- d1 <- c1
WaitKinds     == (d1 :> "deadline") @@ (c1 :> "cancel")
WaitDeadlines == (d1 :> 1) @@ (c1 :> 0)
WaitTree      == (d1 :> Root) @@ (c1 :> d1)

=============================================================================
