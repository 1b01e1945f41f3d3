----------------------------- MODULE Residency ------------------------------
(***************************************************************************)
(* Which weight tensors are resident on the NPU: get_resident_logged and   *)
(* everything below it in runtime/bitnet_xdna.cpp and runtime/xdna_gemm.cpp *)
(* (the program cache, the slabs, the uploads, the list of failed tensors). *)
(*                                                                         *)
(* All of it runs under g_mu, so one lookup is one step, whatever it       *)
(* uploads; Accumulate.tla takes such a step when it has the lock.  A      *)
(* weight is named <<tensor, row, k>>: a slab is known by what it holds.   *)
(***************************************************************************)
EXTENDS TokenSplit, Sequences, FiniteSetsExt

CONSTANTS
    Tensors,   \* data pointers of weight tensors: the keys of the caches
    Shapes     \* the pairs <<K, N>> lookups are made with

ASSUME ShapesAssumption == Shapes \subseteq Nat \X Nat

VARIABLES
    resident,       \* g_resident: a function on the resident tensors
    failed,         \* the keys of g_failed
    programs,       \* the keys of g_programs: each owns one hardware context
    residentBytes,  \* g_resident_bytes, in chunks
    uploads,        \* tensor -> weight chunks uploaded for it (history)
    served,         \* the last lookup and its result (history)
    refused         \* the tensors of which a lookup returned nullptr (history)

resVars == <<resident, failed, programs, residentBytes, uploads, served, refused>>

\* nullptr, and the name of no tensor.
NoResident == [K |-> 0, N |-> 0, chunks |-> <<>>]
NoTensor == "no tensor"

ASSUME TensorsAssumption == NoTensor \notin Tensors

Pad == <<NoTensor, 0, 0>>
SingleStem == "single_stem"

-----------------------------------------------------------------------------
(* Slabs *)

\* build_b_kn: the slab of the chunk that starts at row nBegin and column kBegin.
Slab(s, K, N, nBegin, kBegin) ==
    [j \in 0 .. kNChunk - 1 |-> [i \in 0 .. kKChunk - 1 |->
        IF nBegin + j < N /\ i < Least(kKChunk, K - kBegin)
            THEN <<s, nBegin + j, kBegin + i>> ELSE Pad]]

\* A chunk per (nc, kc), row-major.
ChunksSwapped(s, K, N) ==   \* mutation
    [i \in 1 .. NChunks(N) * KChunks(K) |->
        Slab(s, K, N, ((i - 1) % NChunks(N)) * kNChunk, ((i - 1) \div NChunks(N)) * kKChunk)]

ChunksFirstK(s, K, N) ==   \* mutation
    [i \in 1 .. NChunks(N) |-> Slab(s, K, N, (i - 1) * kNChunk, 0)]

Chunks(s, K, N) ==
    [i \in 1 .. NChunks(N) * KChunks(K) |->
        Slab(s, K, N, ((i - 1) \div KChunks(K)) * kNChunk, ((i - 1) % KChunks(K)) * kKChunk)]

\* The chunk accumulate dispatches for (nc, kc).
ChunkAt(r, nc, kc) == r.chunks[nc * KChunks(r.K) + kc + 1]

-----------------------------------------------------------------------------
(* The lookup *)

ResidencyTypeOK ==
    /\ DOMAIN resident \subseteq Tensors
    /\ \A s \in DOMAIN resident :
          /\ <<resident[s].K, resident[s].N>> \in Shapes
          /\ Len(resident[s].chunks) = NChunks(resident[s].N) * KChunks(resident[s].K)
    /\ failed \subseteq Tensors
    /\ programs \subseteq {SingleStem}
    /\ residentBytes \in Nat
    /\ uploads \in [Tensors -> Nat]
    /\ refused \subseteq Tensors

InitResidency ==
    /\ resident = <<>>
    /\ failed = {}
    /\ programs = {}
    /\ residentBytes = 0
    /\ uploads = [s \in Tensors |-> 0]
    /\ served = [s |-> NoTensor, K |-> 0, N |-> 0, result |-> NoResident]
    /\ refused = {}

Serve(s, K, N, r) ==
    /\ served' = [s |-> s, K |-> K, N |-> N, result |-> r]
    /\ refused' = IF r = NoResident THEN refused \cup {s} ELSE refused

\* A tensor that failed once is not tried again.
LookupFailed(s, K, N) ==
    /\ s \in failed
    /\ Serve(s, K, N, NoResident)
    /\ UNCHANGED <<resident, failed, programs, residentBytes, uploads>>

\* A resident tensor is served if the shape is the one it was built for, and is
\* a failed one from then on if not.
LookupHitUnguarded(s, K, N) ==   \* mutation
    /\ s \notin failed
    /\ s \in DOMAIN resident
    /\ Serve(s, K, N, resident[s])
    /\ UNCHANGED <<resident, failed, programs, residentBytes, uploads>>

LookupHit(s, K, N) ==
    LET same == resident[s].K = K /\ resident[s].N = N IN
    /\ s \notin failed
    /\ s \in DOMAIN resident
    /\ Serve(s, K, N, IF same THEN resident[s] ELSE NoResident)
    /\ failed' = IF same THEN failed ELSE failed \cup {s}
    /\ UNCHANGED <<resident, programs, residentBytes, uploads>>

\* plan_for rejects the shape of a tensor not seen before.
LookupRejected(s, K, N) ==
    /\ s \notin failed \cup DOMAIN resident
    /\ ~Supports(K, N)
    /\ Serve(s, K, N, NoResident)
    /\ failed' = failed \cup {s}
    /\ UNCHANGED <<resident, programs, residentBytes, uploads>>

\* The program is built if this is the first tensor, and n chunks are uploaded.
Upload(s, n) ==
    /\ programs' = programs \cup {SingleStem}
    /\ uploads' = [uploads EXCEPT ![s] = @ + n]
    /\ residentBytes' = residentBytes + n

\* A tensor not seen before: every chunk of it is uploaded and kept.
LookupLoadsUnkept(s, K, N) ==   \* mutation
    LET r == [K |-> K, N |-> N, chunks |-> Chunks(s, K, N)] IN
    /\ s \notin failed \cup DOMAIN resident
    /\ Supports(K, N)
    /\ Upload(s, Len(r.chunks))
    /\ Serve(s, K, N, r)
    /\ UNCHANGED <<failed, resident>>

LookupLoads(s, K, N) ==
    LET r == [K |-> K, N |-> N, chunks |-> Chunks(s, K, N)] IN
    /\ s \notin failed \cup DOMAIN resident
    /\ Supports(K, N)
    /\ Upload(s, Len(r.chunks))
    /\ resident' = [x \in DOMAIN resident \cup {s} |-> IF x = s THEN r ELSE resident[x]]
    /\ Serve(s, K, N, r)
    /\ UNCHANGED failed

\* A tensor not seen before: the program cannot be built, or the upload after n
\* chunks throws.  Those n are freed, and the exception puts it on the list.
LookupThrowsUnlisted(s, K, N) ==   \* mutation
    /\ s \notin failed \cup DOMAIN resident
    /\ Supports(K, N)
    /\ \/ programs = {} /\ UNCHANGED <<programs, uploads, residentBytes>>
       \/ \E n \in 0 .. NChunks(N) * KChunks(K) - 1 : Upload(s, n)
    /\ Serve(s, K, N, NoResident)
    /\ UNCHANGED <<resident, failed>>

LookupThrows(s, K, N) ==
    /\ s \notin failed \cup DOMAIN resident
    /\ Supports(K, N)
    /\ \/ programs = {} /\ UNCHANGED <<programs, uploads, residentBytes>>
       \/ \E n \in 0 .. NChunks(N) * KChunks(K) - 1 : Upload(s, n)
    /\ Serve(s, K, N, NoResident)
    /\ failed' = failed \cup {s}
    /\ UNCHANGED resident

\* get_resident_logged.
Lookup(s, K, N) ==
    \/ LookupFailed(s, K, N) \/ LookupHit(s, K, N) \/ LookupRejected(s, K, N)
    \/ LookupLoads(s, K, N) \/ LookupThrows(s, K, N)

NextResidency == \E s \in Tensors : \E shape \in Shapes : Lookup(s, shape[1], shape[2])

SpecResidency == InitResidency /\ [][NextResidency]_resVars

-----------------------------------------------------------------------------
(* Properties *)

\* What a lookup returns is the tensor asked for, in the shape asked for, whole:
\* the chunk accumulate takes for (nc, kc) holds exactly the weights of that
\* corner of the matrix, and every weight of the matrix is in exactly one chunk.
ServedIsWhole ==
    served.result # NoResident =>
        LET K == served.K
            N == served.N
            r == served.result
        IN
        /\ r.K = K /\ r.N = N
        /\ \A row \in 0 .. N - 1, k \in 0 .. K - 1 :
              \A nc \in 0 .. NChunks(N) - 1, kc \in 0 .. KChunks(K) - 1 :
                 \A j \in 0 .. kNChunk - 1, i \in 0 .. kKChunk - 1 :
                    ChunkAt(r, nc, kc)[j][i] = <<served.s, row, k>> <=>
                        row = nc * kNChunk + j /\ k = kc * kKChunk + i

\* "Weights (the per-tensor part) are uploaded once and stay resident": however
\* often and with whatever shapes a tensor is asked for, no chunk of it is
\* uploaded twice, and a resident tensor keeps the chunks it has.
UploadedOnce ==
    [][\A s \in Tensors :
          /\ uploads[s] > 0 => uploads'[s] = uploads[s]
          /\ s \in DOMAIN resident =>
                s \in DOMAIN resident' /\ resident'[s] = resident[s]]_resVars

\* "Without this, a failure is retried on every prefill forever": a lookup that
\* failed is the last one that does any work for its tensor.
NeverRetried ==
    [][\A s \in refused :
          /\ uploads'[s] = uploads[s]
          /\ served'.s = s => served'.result = NoResident]_resVars

\* print_stats reports g_resident_bytes as "resident int8 weights": one chunk's
\* bytes for each chunk that is resident.  The code counts the chunks of an upload
\* that failed half-way too.
ResidentBytesAreResident ==
    LET ChunkCount(s) == Len(resident[s].chunks) IN
    residentBytes = MapThenSumSet(ChunkCount, DOMAIN resident)

=============================================================================
