# TLA+ models of the BitNet / XDNA2 offload

The repository runs the ternary (I2_S) linear layers of BitNet-b1.58 on an AMD XDNA2 NPU and on
the CPU at the same time. A patch to ggml (`patches/001-bitnet-xdna.patch`) puts a hook into
`ggml_compute_forward_mul_mat`; the hook calls a shim (`runtime/bitnet_xdna.cpp`) that keeps the
weights resident on the NPU and dispatches one compiled GEMM program through XRT
(`runtime/xdna_gemm.cpp`); the program itself is an IRON design (`npu/whole_array_tuned.py`). Two Python
programs (`tools/sweep.py`, `tools/whole_system.py`) measure the result.

These modules model the parts where a mistake would be silent: a wrong number in the output, a
pool that hangs at a barrier, a tensor served from the wrong weights, an array whose FIFOs block each
other, a measurement of something else than it says. TLC checks them on small
instances; TLAPS proves the safety properties for every number of threads, every graph, array, shape and
configuration.

## 1. Inventory

| Component | Source | State it keeps | Operations | Interacts with |
|---|---|---|---|---|
| Token split, chunk plan, shards | `bitnet_xdna.cpp:52-61, 296-323`; patch `:74, :87-92, :136-137` | none | `plan_for`, `worth_it`, `token_split`, `s0/s1`, `rb/re` | used by the hook and by `accumulate` |
| Offload hook | patch `:56-149` | `static xdna_result`, program counters of the threads, `params->wdata`, `dst` | quantize, accumulate (thread 0), CPU share (the others), barrier, epilogue, barrier, fall-through | all threads of one ggml pool; the shim |
| Residency | `bitnet_xdna.cpp:88-113, 146-218`, `xdna_gemm.cpp:61-98` | `g_resident`, `g_failed`, `g_programs`, `g_resident_bytes` | `get_resident_logged` and what it calls | under `g_mu`, from `accumulate` |
| Accumulate / epilogue | `bitnet_xdna.cpp:325-434`, `xdna_gemm.cpp:100-147` | `g_mu`, `g_acc`, the A and C staging buffers, `part` | `mul_mat`, `accumulate`, `epilogue` | every thread that calls the shim |
| Availability and knobs | `bitnet_xdna.cpp:115-134, 261-296` | `g_state`, `g_state_fast`, `g_min_tokens`, `g_split_frac`, `g_force_tiles` | `available`, `worth_it`, `token_split` | every thread, lock-free after the first |
| XRT runtime | `xdna_gemm.cpp` | device, hardware context, buffers, counters | construct, `upload`, `sync_a`, `run_mapped_presynced` | the shim, tests, benchmarks |
| I2_S codec | `bitnet_i2s.[ch]` | none | unpack, quantize activations, scalar reference | the shim (unpack), tests |
| Coordinates | `bitnet_coord.[ch]` | last mismatch reason | equality, compatibility, digest | tests, tools |
| NPU array designs | `npu/whole_array_tuned.py`, `npu/ref/whole_array.py`, `npu/ref/single_core.py` | object FIFOs, output tiles of the cores, shim transfers, task groups | validation and assertions, `sequence` (fills, drains, `finish`), `core_fn`, the access patterns | the program a dispatch runs |
| int8 x int4 kernel | `npu/kernels/mm_i8_i4.cc` | none | blocked microkernel | an experiment's core function |
| Measurement | `tools/sweep.py`, `tools/whole_system.py`, `tools/analyze_sweep.py` | the list of runs, the CSV file and its buffer, background tenants | `run_one`, `controller`, `CpuLoad.__enter__` / `__exit__`, the loops | `llama-bench` processes, the shim's environment |
| Experiments, C++ probes, extraction, tests, evidence | `npu/experiments`, `tools/*.cpp`, `tools/gguf_extract.py`, `tests`, `artifacts` | none of the program's | timing, reading | -- |

What is hard in them, and what makes each correct:

* **Hook.** Up to `nth` threads, one process-wide result flag for all nodes, a work buffer that the next
  node overwrites, one shared accumulator, and a number of barriers per node that *depends on the flag*.
  Correct if all threads take the same path, nobody reads what another is overwriting, every output cell is
  written by one thread from its own node's data, and every node completes on every path.
* **Accumulate.** Triple loop with K outside N, a staging buffer that is cleared only when a tile or slice
  is short and synced once per K slice, partial sums, an accumulator that only grows, exceptions in the
  middle. Correct if after a return of 1 the accumulator holds the exact sums, and if no failure leaves
  the lock held.
* **Residency.** Partial uploads, a cache keyed by pointer, failures that must be final. Correct if what is
  served is whole and of the shape asked for, and nothing is uploaded twice.
* **Availability.** Double-checked locking around plain globals. Correct if all threads of the pool decide
  alike, which the hook needs.
* **Shards and split.** Rounding at boundaries. Correct if they partition, and if the NPU's share is the
  one asked for, to the nearest tile.
* **Array.** A network of bounded FIFOs fed in transfer-block order, by cores that do not stop between
  dispatches. Correct if it never stalls, if each output block is the sum over the right A and B tiles, if
  a task group is given up only when all of it is used, and if the strided patterns that take
  elements into tiles and back undo each other.
* **Measurement.** Hours of runs on a machine that drifts, with runs that fail or hang, interrupts, and
  background processes that outlive what started them. Correct if what is in the file is what was measured, if
  what is compared ran in the same rounds and under the load it names, and if nothing is left running.
* **Codec, coordinates, microkernel.** Index arithmetic and field lists; correct if they agree with their
  reference definitions.

`PROJECT.json` lists the hazards one by one with the line at which each bites.

## 2. Modules

| Module | Models | Variables and actions |
|---|---|---|
| `TokenSplit` | the arithmetic, as operators | none |
| `Batches` | a process with fixed knobs to which batches arrive; the properties of the arithmetic | `pool`, `setting`, `batch`; `NextBatch` |
| `Offload` | the hook, one ggml pool, a graph of `NumNodes` mul_mats | one action per stretch of code between two points where threads can meet or differ |
| `AtomicMulMat` | what a graph promises: nodes computed in order, each whole and right | `out` |
| `Residency` | one lookup under `g_mu`, with its uploads | `Lookup` = failed / hit / rejected / loads / throws |
| `Accumulate` | concurrent `bitnet_xdna_mul_mat` callers, on top of `Residency` | one action per loop iteration of `accumulate` |
| `Availability` | concurrent first calls of `bitnet_xdna_available` | one action per shared access |
| `AieArray` | what the GEMM designs share: FIFOs, cores, drains, task groups | `dispatch` .. `freed` the sequence; `streamX`, `filledX`, `sentX`, `used`, `drained` the FIFOs; `holds`, `acc`, `results` the cores; `mem` |
| `WholeArray` | the tuned design: what command lines it accepts, what it builds, its access patterns and its `sequence` | `Issue`, `Skip`, `Finish`, `Complete` |
| `VendoredArray` | the upstream design, by where it differs from `WholeArray` | the same |
| `SingleCore` | the single-core design, with two task groups in flight | the same, of its own |
| `Gemm` | what a dispatch promises: blocks stored right, all of them by its completion, and it completes | `begun`, `ended`, `out` |
| `I2S` | packing, unpacking, quantization of activations, the sums of both engines, as operators | none |
| `MmKernel` | the int8 x int4 microkernel and the host's packing for it, as operators | none |
| `Layout` | where each element of A, B and C is in the objects `AieArray` moves, as operators | none |
| `Kernels` | one call of a function of `I2S`, `MmKernel` or `Layout` at a time; their properties | `call`; `Call`, `Return` |
| `Campaign` | what the measurement programs share: a list of runs, rows, the file | one action per run started or ended, per row written or flushed, and per way the program can end |
| `Sweep` | `sweep.py` and what `analyze_sweep.py` compares | the list and `Timeout` |
| `WholeSystem` | `whole_system.py`: blocks of runs inside a `CpuLoad` | `Enter`, `Spawn`, `Measure`, `Return`, `Raise`, `Kill`, ... |
| `Bench` | the two programs, one of which is run; their properties | `program` |
| `TokenSplitProofs`, `OffloadProofs`, `AvailabilityProofs`, `ResidencyProofs`, `AccumulateProofs`, `ArrayProofs`, `CampaignProofs`, `KernelsProofs` | theorems | |
| `MC*` | instances for TLC | |

`TokenSplit` is extended by the modules of the hook and the shim. `Accumulate` extends `Residency` and takes a `Lookup` as part of its own
steps. `Offload` abstracts what the other two show in detail: its `AccumulateStarts`, `Tile`,
`AccumulateReturns` and `AccumulateFails` are what `Accumulate` establishes for one call at a time
(`AccumulatorValid`: after a return of 1 the accumulator holds the call's sums; until then it is not to
be used), and its assumption that every thread evaluates `Hooked` with the same result is what
`Availability` establishes (`OneDecision`, `ConfigFrozen`). `Accumulate` takes for granted that a dispatch
computes the product of what it is given (`DispatchSum`); that the dataflow of the design does so is what
`AieArray` shows by implementing `Gemm`, with the sequence of any of the three designs, and `Layout` for
what happens inside the objects it moves. `MCDesigns` puts the three designs on one array, `Bench` the two
measurement programs on one campaign, and asks `TokenSplit` what the labels of their rows mean.

### How data is abstracted

* `Offload`: a part of the work buffer, and the accumulator, record the *node* they belong to; an output cell
  is `"none"`, `"right"` or `"wrong"`, wrong meaning computed from something that was not its node's.
* `Accumulate`: an activation is `<<caller, call, token, k>>`, a weight `<<tensor, row, k>>`, an
  int32 sum the *bag* of the products added to it. Two sums are equal only if exactly the same
  products were added, so a stale, missing, doubled or misplaced one always shows. `DispatchSum` is
  what the compiled GEMM promises (external: an xclbin).
* `Residency`: a slab is a function from its offsets to weights or padding.
* `g_split_frac` is a fraction with a power of two as denominator, which a double holds exactly, so the
  code's floating-point product is the rational one at the magnitudes that occur.
* `AieArray`: a tile is a name, `<<dispatch, row or column tile, step in K>>`, an output tile the sequence of
  the pairs multiplied into it; so a tile of the wrong block, step or dispatch shows, and so does a
  second result added to a first. What ObjectFifo promises is external and modelled as such: objects
  arrive whole and in order, and a sender is at most the depth ahead of the slowest receiver. A FIFO is then the
  stream of all objects ever issued on it and a counter per end. What a task group occupies is how far in
  the streams its transfers go.
* `Layout`: an element is its offset in its matrix; the output at an offset is the set of pairs of
  offsets multiplied into it. How a kernel of the mlir-aie library orders the elements of a tile is external,
  taken from `mm_i8_i4.cc`, which is written after it, and transposed for column-major operands.
* `Campaign`: a row is the run it is of; throughput, wall time and statistics are left out. Time exists only
  inside a block of `WholeSystem`, where it decides whether tenants are still alive. The file is what the kernel shows
  of it. How much of it is on the disk is seen only when the machine goes down (`GoDown`), and can then be any
  beginning of it: the programs never call `fsync`. That a file system loses a file from its end, and not a row in the
  middle or a part of one, is taken for granted.
* `I2S`: an activation is a whole multiple of 1e-5, the floor of the absmax, so that the scale 127 / absmax is a
  fraction; what a 24-bit mantissa makes of it is not modelled. `Pack` is external to the program (BitNet's
  quantizer) and translated from its transcription in `tests/test_i2s_packing.c`.
* `MmKernel`: a pointer is an offset, in values for A and C and in bytes for B; a byte is the pair of its nibbles.
* Statistics (`g_shape_stats`, timings, dispatch counts) and log text are left out, except
  `g_resident_bytes`, about which there is a property.

### Granularity

In `Offload` a step is a barrier exit, one group of tokens, one token of an epilogue or one token tile.
Within such a step a thread touches only cells that no other thread touches (`OneWriter`) and reads
buffers that nobody changes (`ResultHeld`, `WorkBufferHeld`), so a finer grain would add no behaviour;
these three are checked and proved, not assumed. `Barrier` does not presuppose that the threads wait at
the same call site: `ggml_barrier` counts arrivals and nothing else, and that they meet at the same one is
the property `SameBarrier`.

In `Accumulate` a step is one dispatch, or what lies between two under the lock. The unlocked `epilogue`
goes token by token and interleaves with another caller's dispatches. Reading `g_acc` while
`resize` moves it is undefined in the code; the model reads the values instead, which already refutes
`DstRight`. `AccumulatorValid` and `DstRightIfValid` claim nothing about that overlap.

In `AieArray` a step moves one object one hop, or multiplies one pair of tiles. Every iteration of
`sequence` is one step, with its `break` (`Skip`) and the wait in `finish()` (`Finish`,
`Complete`): issuing transfers only lengthens streams, so the order within an iteration cannot be seen
except through the order per stream, which is kept. The endless loop around `core_fn` is the runtime's: a core acquires
its next output tile as soon as it may, also between two dispatches.

In `Campaign` the start of a run, its end, writing a row and flushing it are separate steps, and an
interrupt, the death of the process (`Die`: what it has not flushed is lost) or that of the machine (`GoDown`: what the kernel
has not written, too) may come between any two; so may each `Popen` and each `killpg` of a
`CpuLoad`.

## 3. Runs

Constants of the source (tile 1024, chunks 2560, dimensions 2560 and 6912) are scaled down so that the same
cases occur: a dimension that is one chunk and one that is not a whole number of chunks, a full and a short
tile.

| Run | Instance | Shows |
|---|---|---|
| `token_split` | source constants / 16; 19 batch sizes around each tile boundary; 1, 2, 3, 5 and 16 threads; forced tiles and fractions in eighths | shards partition; the split is the nearest whole number of tiles |
| `offload` | 4 threads, 3 nodes: a batch the NPU and the CPU share (two tiles, a group, a tail), one that is not offloaded, one wholly offloaded with a short tile; accumulate may fail at every tile | type, barriers, no foreign data, single writer, held buffers, refinement of `AtomicMulMat` with liveness |
| `residency` | 2 tensors, 5 shapes (one not served), chunks of 2 x 2, failures after any chunk | whole, once, failures final |
| `accumulate` | 2 callers, 3 calls in all, of 3 kinds: K slices, N chunks and tiles of which the last is short; failures anywhere | exact sums, staging, lock released |
| `availability` | 3 threads, 360 environments | one decision, frozen knobs, one probe |
| `designs` | tuned, 2 rows: 2 x 2 cores with 2 row blocks (one dispatch), 2 x 1 with A tiles split over the rows and C in both layouts; tuned, 1 x 2 cores (more columns than rows, as 4 x 8) with transfer blocks of 2 and 4; vendored, 1 x 1 with 4 row blocks and the environment set; single core with 2 and 6 rows of tiles. FIFOs of depth 1 in the tuned design, 2 in the others; 2 dispatches. One size of each kind that is refused | no blocking, every tile of every finished group used, output stored right and whole, on the second dispatch too |
| `bench` | sweep of 2 prompts, 2 microbatches, 2 rounds (4 shares of the larger; a microbatch larger than both prompts is left out); whole_system of 2 rounds of a block with 2 tenants and one with none, 2 runs each, tenants that live as long as a run and a half; any run fails or hangs; interrupts, death of the program and of the machine anywhere | rows survive, rounds comparable, load as labelled, tenants killed, shares as labelled, the campaign ends, the sweep with all its runs made |
| `kernels` | 2 lanes, tiles of 2 x 2 x 2; 2 rows of 2 blocks with any two codes set; 3 activations of 8 magnitudes with all codes; products of 1-2 x 1-3 x 1-2 tiles; a 16 x 4 x 12 product on 2 x 2 objects, all layouts | packing inverted, nearest quantization, engines agree, blocked loops compute the product, the array's access patterns compose to it |
| `split_doc`, `overlap`, `resident_bytes`, `designs_odd` | the same instances; `designs_odd` with 4 row blocks and a transfer block of 3 | violations, see section 5 |

The bounds: three nodes are enough for the flag, the accumulator and the work buffer to be left over from
a node of another kind, and two successive offloaded nodes to be apart by a skipped one; the theorems remove
the bound. Four threads give the CPU share three members, of which, with two or four rows in groups
of two, one or two have no rows -- the threads that go straight to the barrier. Three calls are the least
number with which a call meets what an overlapped or a failed one left, in a buffer grown by a larger one.
`MaxCalls`, a guard of `Call`, and `Dispatches`, a guard of `Begin`, are the only bounds that are not sizes of the
instance. Blocking in the array needs two rows and two columns, so that a pair of cores can wait for each
other's tiles crosswise; depth 1 leaves less room than any depth the code uses. Two dispatches are
enough for one to find what another left, since after each the streams are used up (`FreedMeansUsed`). The square array is
the largest and is dispatched once; the others twice.

`BlockedIsProduct` is tried on matrices with a single 1 each, in every place: both sides are linear in either
operand. The tiles of `LayoutIsProduct` have two blocks each way, of three different
sizes, so that no two strides of a pattern are equal by chance. For `UnpackInvertsPack` two codes are enough for any two groups of a byte to disturb each other.

### Fairness

* `Offload`: weak fairness of each thread's steps. ggml's barrier spins and the operating system schedules
  all the threads of the pool; a dispatch ends because `run.wait()` returns or throws (a firmware that
  never answers is outside the code). Every action stays enabled until it is taken, so weak fairness is enough.
* `Accumulate`, `Availability`: weak fairness of each thread's steps once it is in a call; calling is not
  required. `std::mutex` promises no order, so waiting for `g_mu` has only weak fairness; callers make
  finitely many calls, and in `Availability` each thread takes the lock at most once, so that a waiting
  thread finds the lock free for good in the end.
* `AieArray` and its designs: weak fairness of everything but `Begin`, taken together. Within a dispatch every
  step gets some stream further or the sequence on, and there are finitely many, so that progress of the
  whole is progress of each part; the DMA engines and cores run whenever their locks let them.
* `Sweep`, `WholeSystem`: weak fairness of the program's own steps, timeouts and the end of a tenant's loop
  included, together; there are finitely many of them, and no fairness of `GiveRow`: a run may hang until its
  timeout. Interrupts and death are never required.
* `Batches`, `Residency`, `Kernels`: safety only.

Deadlock is checked in every run but `bench`, where the program is over at the end (`CampaignEnds` says that it
gets there); `Finished` marks the state in which everything asked for is done.

## 4. Proofs

Every invariant that a passing run checks is a theorem for all values of the constants, and so are the safety
action properties; what stays with TLC is listed at the end of this section. Each component's theorems follow from
one inductive invariant, and TLC was asked before each proof whether what was to be proved holds.

`TokenSplitProofs` proves about the arithmetic, for all values: the row shards, both ends rounded up to
`kCols`, partition the rows (`RowShardsPartitionRows`, from the assumption that the number of rows is a
multiple of `kCols`, which `plan_for`'s test by 64 gives for served tensors and the I2_S packing for
the others); the epilogue shards partition the tokens (`EpiShardsPartitionTokens`); the split is a
whole number of tiles or the whole batch (`SplitIsWholeTilesOrAll`); and no number of tiles that fits is nearer to
the fraction asked for (`SplitIsNearest`): the two clamps only move the result to where the nearest number that
fits is. From these follow the invariants of `Batches`, for any pool, knobs and batches (`ShareInBatch`, `RowsPartitioned`,
`TokensPartitioned`, `ShareIsNearest`).

`OffloadProofs` proves `Spec => []IInv` (`Invariance`), and from it `TypeCorrect`, `BarriersMatch`,
`NeverWrong`, `WritesAreDisjoint`, `ResultIsHeld`, `WorkBufferIsHeld`, and `RefinesAtomic`:
the initial states and the steps of the pool are those of `AtomicMulMat` under the mapping `Visible`, or
stutter. The property `ImplementsAtomic` is this and liveness; the liveness half is checked by TLC.

None of these is inductive by itself. Barriers match only because all threads read the same value of
`xdna_result`, which holds only because thread 0 cannot store the next one before all have left the
node, which holds because barriers match. `IInv` breaks the circle:

* `SyncInv`: types; what each location implies about the node and the thread (`Local`); and `Lockstep`:
  the barriers divide a node into sections, any two threads' sections and barrier counts
  differ by at most one, in step. Which section `"end"` is in depends on the path taken.
* `DataInv`: from the section a thread is in follows whose activations each part of the work buffer holds,
  and which rows the accumulator holds (`Activated`, `Accumulated`), hence `DstNeverWrong`.
* `Written`: the cells a thread has written so far, in terms of its location and position.
* `Complete`: a node is right in every cell as soon as one thread has left it. It follows at the last
  barrier from `Written` of all threads and the partition theorems.

`AvailabilityProofs` proves, for any number of threads, batch and environment, that all threads decide alike
(`DecideAlike`), the device is probed at most once (`ProbeOnce`) and the knobs are frozen once
anyone may read them without the lock (`KnobsFrozen`). Neither of the first two is inductive: that a thread's
decision is still what the knobs make of it needs that nobody changes them any more, which needs that
only the thread that finds out does so, while the mirror is still -1, and that there is one such thread at most
(`Exclusion`, from the lock; `Known`; `Told`). The types (`TypeCorrect`) say that the knobs are never outside what the
parser's clamps leave (`KnobTypes`). Assumed: `NoThread`, the free lock's owner, is no thread, and the variables that are set
parse as numbers.

`ResidencyProofs` proves, for any tensors, shapes and sizes of chunks, that what a lookup returns is whole
(`ServeWhole`), that nothing is uploaded twice (`UploadOnce`), and that a failure is final (`FailureIsFinal`). The
invariant: what is resident, and what was served, is what `LookupLoads` builds for that shape; what has
chunks uploaded is resident or has failed; what was refused has failed. `ServeWhole` rests on the arithmetic of
`ChunkAt` -- `nc * KChunks + kc`, divided again by `KChunks`, is `nc` and `kc` (`DivModUnique`, `ChunkOf`). (`ResidencyTypeCorrect`: a resident tensor has all its chunks. That one program is loaded at most is built into `Upload`, as the one
name `single_stem` returns is into the code.) Assumed:
no served dimension is 0, and `NoTensor` is no tensor.

`AccumulateProofs` proves, for any callers, calls, tensors and sizes of tiles and chunks, that a dispatch sees
the slice of its own tile (`StagedSlice`), that `g_acc` holds the exact sums of the call that filled it until
the next begins (`AccumulatorHolds`), and that the rows written before that are right (`RowsRight`). None is
inductive; the invariant `AccInv` says of the caller that holds `g_mu` (`Mutex`) what it relies on (`Ready`), what the
device sees (`Slice`), that the tiles before `t0` are exact (`Before`), and that column `n` of the current
tile is summed over the first `Upto(c, n)` of K, in `part` or in `g_acc` (`Current`). It builds on the invariant of
`ResidencyProofs`, for what the chunk of a dispatch holds. Three lemmas carry the loops: `BlockAt`
(a block written with a stride touches its own rows and columns only), `DispatchOf` (a dispatch sums the
products of its slice of K) and `PartialAdd` (sums over adjacent slices add up to the sum over both). The types (`TypeCorrect`)
say that no loop runs past its tiles and chunks and no buffer is smaller than what is written to it (`Bounded`). Assumed, beyond
`Residency`'s: calls are of known tensors and served shapes, callers are finitely many, and `NoCaller`, the free lock's
owner, is no caller.

`ArrayProofs` proves of the tuned and the vendored design, for any array, shape, FIFO depth and number of dispatches,
that the FIFOs keep their bounds (`TypeCorrect`), that what a finished task group had filled is used up
(`FinishedMeansUsed`), that what is stored is the right product (`StoresProducts`), and that a dispatch refines `Gemm`
(`ComputesGemm`, `VendoredComputesGemm`: initial states and steps; that it completes is checked by TLC). The invariant
follows a tile through the array. `ArrayInv` is about the FIFOs and cores and holds for any sequence:

* `Fifos`: each end of a FIFO is behind the one before it, by its depth at most.
* `Summed`: the `j`-th output tile of a core is made of the `j`-th group of `K` pairs of what its two streams deliver,
  whatever those are; the one it holds, of the first of them.
* `Matched`, `Aligned`: the streams of all shims and columns are equally long, in output tiles, and the pairs filled
  for a block that is still to be drained are those of its product in this dispatch.
* `Memory`, `Quiet`: a place of C holds this dispatch's product or the last one's; between dispatches nothing is due.

`HostInv` is about the sequence: where it is (`Phases`), what its task groups hold (`InFlight`), that what they
had filled is used (`FreedUsed`), and that what it has issued covers the row blocks it has passed (`Covered`). The
heart of `FinishedMeansUsed` is that `finish()` waits for the drains of a group only, while the group's fills lose their
descriptors too: it is right because the last block drained needs the last pair of *every* stream (`DrainedMeansUsed`),
which is what `Matched` is for. `SingleCore` reuses `ArrayInv` with a host invariant of its own (`SingleIInv`):
two task groups are in flight, and the older one's fills are used up before it is given up because its drains precede those
of the younger (`GroupUsed`; `SingleInvariance`, `SingleComputesGemm`).

The theorems assume that the command lines fit the design (`FittingLines`): the rows of cores are split evenly over the
shims (`ShimsFit`), and the transfer block is unset, or even, with halves that divide the row blocks and, for a
column-major C, of one row block (`BlocksFit`). The last is what the code fails to ask for: an odd block is refuted by
`designs_odd`. The vendored design's block is fixed and fits everything it accepts, so that only the shims are
left to assume (`VendoredLinesFit`); the single core needs positive sizes (`LinesFit`). `MCDesigns` has TLC evaluate each of
them (`LinesAssumption`): they hold of the lines of `designs`, and `FittingLines` does not of those of `designs_odd`.

`CampaignProofs` proves of both measurement programs, for any options, wherever runs fail or hang and however the program
ends: the file has a row for every run that gave one, the death of the process included, and if the machine goes down, for those of the first
so many runs (`Survive`); a share and its CPU-only reference have rows of the same rounds, but for the last one there
(`SameRoundsCompared`); the number of tiles in a row is what the NPU gets of a microbatch (`LabelsMean`); a row
names the tenants it was measured under (`UnderLoad`); no tenant is alive between two blocks (`KilledBetween`). The invariant
tells the rows written, of the run that is still writing its own too (`Rows`), from those in the file, which are the first
of them (`Lag`), all but that one while the machine is up (`Flushed`), and the first rows are of the first runs
(`Firsts`). For the sweep it
adds that rows come in the order of the rounds (`SweepInv`): a round is over for all configurations before the
next begins, which is a fact about the position of a configuration in the list. For `whole_system.py` it adds which runs belong to the
block (`InBlock`), who its tenants are until their time is over (`Load`), that none is off the list that `__exit__` goes
through (`Tenants`), and what past rows were measured under (`Loaded`).

`KernelsProofs` proves of the pure functions, in every call: unpacking inverts packing (`EveryTensorUnpacked`), for any
number of lanes, blocks and rows, because the byte in which `Pack` puts a code and the one where `UnpackedCode` looks are the same
(`Position`) and the four codes of a byte can be taken apart (`CodeInByte`); no activation is further than half a step from
what it is quantized to (`TokensQuantizedToNearest`); both engines get the same sum (`TokensSummedAlike`); the int8 x int4
kernel on packed operands computes their product, for every size and number of tiles (`EveryProductBlocked`); and so
does the array as far as its access patterns go, for all options that `my_matmul` accepts and all four layouts, every
element of the output at a place of its own (`EveryLayoutIsProduct`).

Sums are folds, which are recursive functions on subsets; what is claimed of them is shown by the smallest
subset that would refute it (`BySmaller`, from the well-foundedness of the strict subset ordering on finite sets), and of loops by
the smallest number of iterations (`ByCounting`). So: a sum does not depend on the order (`TotalWithout`), a sum over `m * n` is the sum of `m` sums
over `n` (`TotalRows`), and the blocked loops add up a row times a column (`ElementOfProduct`). An access pattern is a place in
mixed radix whose digits are given new weights (`Digits`, `StreamedAt`); the proof of the layouts is that reading
where the kernel left an element (`KernelReadsA`, `KernelReadsB`, `JoinReadsC`) cancels the blocks, and reading across the tiles
(`ReadsRowOfA`, `ReadsColumnOfB`, `StoredAt`) gives its row and column. Assumed (`CallsAssumption`): tensors and
operands of whole blocks and tiles, as the callers have them, and for the layouts what `my_matmul` asserts (`Tiled`,
`whole_array_tuned.py:112-121`).

The proofs have one lemma per part of an invariant, or per action, and one step per action or conjunct. Assumptions used are the named
`ASSUME`s of `TokenSplit`, `Batches`, `I2S`, `MmKernel`, `Kernels`, `Offload`, `Availability`, `Residency`, `Accumulate`, `AieArray` and
`Bench`, and the fitting command lines above; TLC evaluates each of them in the runs.

Only model-checked: all liveness (the second half of `ImplementsAtomic` and `ImplementsGemm`, `EveryCallReturns`, `EveryoneDecides`,
`CampaignEnds`) and the absence of deadlock, which are about fairness and `ENABLED`.

## 5. What the models showed about the code

* `split_doc`. The header says that `token_split` returns a multiple of the tile or, when it is too small
  to divide, the whole batch. The code rounds and then clamps to the batch: 2000 tokens with a fraction of
  7/8 become two tiles, cut to 2000. The dispatch is padded and the CPU gets no share.
* `overlap`. `g_acc` is read by `epilogue` after `accumulate` released `g_mu`. The comment at its
  declaration argues that the NPU is single-tenant; the buffer is not. With two contexts in one process,
  or two callers of `bitnet_xdna_mul_mat`, one converts the other's sums. Within one ggml
  pool this cannot happen (`ResultIsHeld`).
* `resident_bytes`. The bytes of an upload that fails half-way stay in the figure printed as resident weights.
* `designs_odd`. `TB_MAX_N_ROWS` is called overridable, but only even values work: two groups fill and
  drain `2 * (tb // 2)` row blocks while `row_base` advances by `tb`. With 3 and four row blocks the output's
  block 2 is given the product of block 3, and the last drain is never fed. The default (4, or 2 for
  C column-major) is even; nothing rejects the others. (Of a column-major C a drain covers one row block
  whatever `TB_MAX_N_ROWS` is, so there only the default stores all of C.)

Noticed while reading, without a run: `bitnet_xdna.h:9` gives the default of `BITNET_XDNA_MIN_TOKENS` as 64,
the code clamps it to 1024; the comment at `bitnet_xdna.cpp:265` says relaxed where the code uses acquire
(and needs it); a tensor asked for once in another shape goes onto `g_failed` and is never served again,
though it is resident; `bitnet_i2s.c:27-29` says "Assert" and there is no assert;
`bitnet_model_coord_digest` hashes padding bytes; `bitnet_i2s.h:42` ("The NPU computes acc_u only") and `:90-93` (the
unsigned accumulator as what "the NPU must match") are from before `build_b_kn` made the weights signed
(`bitnet_xdna.cpp:144-145`): the NPU's sums need no correction, and what agrees with the CPU's are the corrected ones (`EnginesAgree`).

And in the measurement programs: neither calls `fsync`, so that a machine that goes down with the NPU takes the rows with it
that the kernel had not written, which at the sweep's runs of seconds may be several (`GoDown`); tenants of a `CpuLoad` are sessions of their own, so an interrupt inside
`__enter__` or `__exit__` leaves them running for up to an hour (`TenantsKilled` holds for every other way out, a
timeout included); a block of `whole_system.py`, of twelve runs with the default
options, may take longer than they live, and nothing notices (`RowsUnderLoad` excepts its late rows);
`sweep.py`'s label `tiles=2` for a prompt of 3968 in microbatches of 2048 is one full tile and a padded one for the
last 1920 tokens; `analyze_sweep.py` counts `tiles=0`, which is the CPU alone with the hook switched on, among the NPU
shares when it looks for the best (`:37`) and not among the hybrids when it looks at stability (`:70`).

## 6. Not modelled, and the plan

Next, in this order:

1. That the array does not stall, as an invariant: while a dispatch is running the guard of some step holds. With the guards
   of `AieArray` as operators of their own it needs neither `ENABLED` nor fairness, and follows from `Fifos`, `Summed` and
   `Matched` for the core that has used the fewest pairs.
2. `MmKernel`: the int8 x int8 twin of the microkernel and its zeroing; the lemmas of `KernelsProofs` about tiles carry over.
3. `Layout` for the vendored design, whose layouts are the row-major ones of the tuned one.

Out of reach and staying with TLC: liveness under fairness.
Not to be modelled: `bitnet_coord` (comparisons field by field, used by its test only; a model would repeat the
list of fields), the experiments under `npu/experiments` and the C++ probes (a compiled design run in a timing loop; no
decision depends on a state), `gguf_extract.py` (one sequential read of a file), tests, artifacts (measurements and
binaries), floating-point rounding of activations and of the final scaling.
