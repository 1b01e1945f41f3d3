---------------------------- MODULE AtomicMulMat ----------------------------
(***************************************************************************)
(* What a ggml graph promises of its I2_S mul_mat nodes, whatever engine   *)
(* computes them: the nodes are computed one after the other, and a node's *)
(* output appears whole and right.  Nothing of threads, barriers, the NPU  *)
(* or its failures is visible.  Offload implements it.                     *)
(***************************************************************************)
EXTENDS Integers

CONSTANTS
    NumNodes,     \* I2_S mul_mat nodes of the graph
    Cells(_)      \* the cells of a node's output

VARIABLE out      \* node -> cell -> "none" (not computed) or "right"

Nodes == 1 .. NumNodes

Filled(n, v) == [c \in Cells(n) |-> v]

Computed(n) == out[n] = Filled(n, "right")

Init == out = [n \in Nodes |-> Filled(n, "none")]

\* The next node in graph order is computed, all of its cells at once.
Compute(n) == /\ ~Computed(n)
              /\ \A m \in 1 .. n - 1 : Computed(m)
              /\ out' = [out EXCEPT ![n] = Filled(n, "right")]

Next == \E n \in Nodes : Compute(n)

Spec == Init /\ [][Next]_out /\ WF_out(Next)

=============================================================================
