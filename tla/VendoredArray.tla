--------------------------- MODULE VendoredArray ----------------------------
(***************************************************************************)
(* npu/ref/whole_array.py, the upstream design the tuned one was made      *)
(* from.  Its text is that of whole_array_tuned.py but for what the two    *)
(* environment variables set: C in a core is as deep as the other FIFOs,   *)
(* and the transfer block has the size that _validate_shape_args assumes.  *)
(* So it is WholeArray with both variables unset, whatever they are.       *)
(***************************************************************************)
EXTENDS WholeArray

VendoredValidates(o) == ValidateShapeArgs(o)
VendoredAsserts(o) == BuildAsserts(o)

VendoredBuild(o) ==
    [Build([o EXCEPT !.TB_MAX_N_ROWS = 0]) EXCEPT !.c_fifo_depth = fifo_depth]

\* The command lines the design is made for: its transfer block fits them all.
VendoredLinesFit ==
    /\ n_aie_rows \in Positive /\ fifo_depth \in Positive
    /\ \A o \in CommandLines : o \in Options /\ (VendoredValidates(o) => ShimsFit(o))

VendoredInit ==
    /\ design \in {VendoredBuild(o) :
                     o \in {x \in CommandLines : VendoredValidates(x) /\ VendoredAsserts(x)}}
    /\ Idle

\* sequence, with the taps it fills and drains by.
VendoredSequence == Issue \/ Skip \/ Finish \/ Complete

VendoredFifos == \/ \E i \in Shims : FillA(i)
                 \/ \E c \in Cols : FillB(c) \/ SendB(c) \/ Drain(c)
                 \/ \E r \in Rows : SendA(r)
                 \/ \E x \in Cores : SendC(x)

\* core_fn, on the grid of workers.
VendoredCores == \E x \in Cores : Acquire(x) \/ MatMul(x)

VendoredNext == Begin \/ VendoredSequence \/ VendoredFifos \/ VendoredCores \/ Finished

VendoredSpec ==
    /\ VendoredInit /\ [][VendoredNext]_vars
    /\ WF_vars(VendoredSequence \/ VendoredFifos \/ VendoredCores)

=============================================================================
