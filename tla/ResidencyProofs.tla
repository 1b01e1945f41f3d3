-------------------------- MODULE ResidencyProofs ---------------------------
(***************************************************************************)
(* For any tensors, shapes and chunk sizes: what a lookup returns is the   *)
(* whole of the tensor asked for, no chunk is uploaded twice, and a        *)
(* tensor that failed is never tried again.                                *)
(*                                                                         *)
(* The invariant says that what is resident, and what was served last, is  *)
(* what LookupLoads builds for that tensor and shape; that a tensor of     *)
(* which chunks were uploaded is resident or has failed; and that one that *)
(* was refused has failed.                                                 *)
(***************************************************************************)
EXTENDS Residency, TLAPS

\* What LookupLoads builds.
Built(s, K, N) == [K |-> K, N |-> N, chunks |-> Chunks(s, K, N)]

Whole(s, r) == \E K, N \in Nat : Supports(K, N) /\ r = Built(s, K, N)

Types ==
    /\ DOMAIN resident \subseteq Tensors
    /\ uploads \in [Tensors -> Nat]
    /\ refused \subseteq failed /\ failed \subseteq Tensors

Kept == \A s \in DOMAIN resident : Whole(s, resident[s])

Seen == \A s \in Tensors : uploads[s] > 0 => s \in DOMAIN resident \cup failed

Right == served.result # NoResident =>
            /\ served.s \in Tensors /\ served.K \in Nat /\ served.N \in Nat
            /\ Supports(served.K, served.N)
            /\ served.result = Built(served.s, served.K, served.N)

IInv == Types /\ Kept /\ Seen /\ Right

-----------------------------------------------------------------------------
\* At the start nothing is resident, listed or served.
LEMMA InitIInv == InitResidency => IInv
BY DEF InitResidency, IInv, Types, Kept, Seen, Right

\* The sizes of chunks are not negative: what is added to uploads is a number.
LEMMA ChunkCount ==
    ASSUME NEW s, NEW K \in Nat, NEW N \in Nat
    PROVE  /\ NChunks(N) \in Nat /\ KChunks(K) \in Nat
           /\ Len(Chunks(s, K, N)) = NChunks(N) * KChunks(K)
           /\ NChunks(N) * KChunks(K) \in Nat
<1>1. NChunks(N) \in Nat /\ KChunks(K) \in Nat
  BY kChunkAssumption DEF NChunks, KChunks
<1> DEFINE size == NChunks(N) * KChunks(K)
<1>2. size \in Nat
  BY <1>1
<1>3. \A f : DOMAIN f = 1 .. size /\ f = [i \in 1 .. size |-> f[i]] => Len(f) = size
  BY <1>2
<1>. QED BY <1>1, <1>2, <1>3 DEF Chunks

\* A shape lookups are made with.
LEMMA ShapeNat == ASSUME NEW shape \in Shapes PROVE shape[1] \in Nat /\ shape[2] \in Nat
BY ShapesAssumption

\* What is built can be told from nullptr, because no dimension that is served is 0.
LEMMA BuiltIsSomething ==
    ASSUME NEW s, NEW K \in Nat, NEW N \in Nat
    PROVE  /\ Built(s, K, N).K = K /\ Built(s, K, N).N = N
           /\ Supports(K, N) => Built(s, K, N) # NoResident
BY ServedDimsAssumption DEF Built, NoResident, Supports

\* Lookups that find the tensor on the list of failures, or refuse its shape.
LEMMA RefusedIInv ==
    ASSUME IInv, NEW s \in Tensors, NEW K \in Nat, NEW N \in Nat,
           LookupFailed(s, K, N) \/ LookupRejected(s, K, N)
    PROVE  IInv'
BY DEF IInv, Types, Kept, Seen, Right, LookupFailed, LookupRejected, Serve, Whole

\* A lookup of a resident tensor: of the same shape, it serves what is kept.
LEMMA HitIInv ==
    ASSUME IInv, NEW s \in Tensors, NEW K \in Nat, NEW N \in Nat, LookupHit(s, K, N)
    PROVE  IInv'
<1>. USE DEF IInv
<1>1. resident[s].K = K /\ resident[s].N = N =>
          Supports(K, N) /\ resident[s] = Built(s, K, N)
  BY BuiltIsSomething DEF Kept, Whole, LookupHit
<1>2. resident[s] # NoResident
  BY BuiltIsSomething DEF Kept, Whole, LookupHit
<1>3. Types' /\ Kept' /\ Seen'
  BY <1>2 DEF Types, Kept, Seen, LookupHit, Serve, Whole
<1>4. Right'
  BY <1>1 DEF Right, LookupHit, Serve
<1>. QED BY <1>3, <1>4

\* A lookup that uploads the tensor.
LEMMA LoadsIInv ==
    ASSUME IInv, NEW s \in Tensors, NEW K \in Nat, NEW N \in Nat, LookupLoads(s, K, N)
    PROVE  IInv'
<1>. USE DEF IInv
<1> DEFINE r == Built(s, K, N)
<1>1. /\ Supports(K, N)
      /\ resident' = [x \in DOMAIN resident \cup {s} |-> IF x = s THEN r ELSE resident[x]]
      /\ uploads' = [uploads EXCEPT ![s] = @ + Len(Chunks(s, K, N))]
      /\ Serve(s, K, N, r) /\ UNCHANGED failed /\ s \notin failed
  BY DEF LookupLoads, Upload, Built
<1>2. Len(Chunks(s, K, N)) \in Nat
  BY ChunkCount
<1>3. r # NoResident
  BY <1>1, BuiltIsSomething
<1>4. Types'
  BY <1>1, <1>2, <1>3 DEF Types, Serve
<1>5. Kept'
  BY <1>1 DEF Kept, Whole
<1>6. Seen'
  BY <1>1, <1>2 DEF Types, Seen
<1>7. Right'
  BY <1>1 DEF Right, Serve
<1>. QED BY <1>4, <1>5, <1>6, <1>7

\* A lookup that fails: the chunks it may have uploaded are gone, and the tensor is on
\* the list.
LEMMA ThrowsIInv ==
    ASSUME IInv, NEW s \in Tensors, NEW K \in Nat, NEW N \in Nat, LookupThrows(s, K, N)
    PROVE  IInv'
<1>. USE DEF IInv
<1>1. uploads' \in [Tensors -> Nat] /\ \A x \in Tensors \ {s} : uploads'[x] = uploads[x]
  <2>1. NChunks(N) * KChunks(K) \in Nat
    BY ChunkCount
  <2>. HIDE DEF IInv
  <2>2. uploads \in [Tensors -> Nat]
    BY DEF IInv, Types
  <2>. QED BY <2>1, <2>2 DEF LookupThrows, Upload
<1>2. Types' /\ Kept' /\ Seen'
  BY <1>1 DEF Types, Kept, Seen, LookupThrows, Serve, Whole
<1>3. Right'
  BY DEF Right, LookupThrows, Serve
<1>. QED BY <1>2, <1>3

\* Every lookup keeps the invariant.
LEMMA NextIInv == IInv /\ [NextResidency]_resVars => IInv'
<1>. SUFFICES ASSUME IInv, [NextResidency]_resVars PROVE IInv'
  OBVIOUS
<1>1. CASE UNCHANGED resVars
  BY <1>1 DEF resVars, IInv, Types, Kept, Seen, Right
<1>2. CASE NextResidency
  <2>1. PICK s \in Tensors, shape \in Shapes : Lookup(s, shape[1], shape[2])
    BY <1>2 DEF NextResidency
  <2>. QED BY <2>1, ShapeNat, RefusedIInv, HitIInv, LoadsIInv, ThrowsIInv DEF Lookup
<1>. QED BY <1>1, <1>2

\* The inductive invariant.
THEOREM ResidencyInvariance == SpecResidency => []IInv
BY InitIInv, NextIInv, PTL DEF SpecResidency

-----------------------------------------------------------------------------
\* A tensor of which chunks were uploaded is resident or on the list, and is not
\* uploaded again in either case; what is resident stays as it is.
THEOREM UploadOnce == SpecResidency => UploadedOnce
<1>1. ASSUME IInv, NEW s \in Tensors, NEW shape \in Shapes, Lookup(s, shape[1], shape[2]),
             NEW x \in Tensors
      PROVE  /\ uploads[x] > 0 => uploads'[x] = uploads[x]
             /\ x \in DOMAIN resident => x \in DOMAIN resident' /\ resident'[x] = resident[x]
  <2>1. CASE s \in failed \cup DOMAIN resident
    BY <1>1, <2>1 DEF Lookup, LookupFailed, LookupHit, LookupRejected, LookupLoads, LookupThrows
  <2>2. CASE s \notin failed \cup DOMAIN resident
    <3>1. ~(uploads[s] > 0) /\ s \notin DOMAIN resident
      BY <1>1, <2>2 DEF IInv, Seen
    <3>2. x # s => uploads'[x] = uploads[x]
      BY <1>1, <2>2 DEF IInv, Types, Lookup, LookupFailed, LookupHit, LookupRejected,
                        LookupLoads, LookupThrows, Upload
    <3>3. x # s /\ x \in DOMAIN resident =>
              x \in DOMAIN resident' /\ resident'[x] = resident[x]
      BY <1>1, <2>2 DEF Lookup, LookupFailed, LookupHit, LookupRejected,
                        LookupLoads, LookupThrows
    <3>. QED BY <3>1, <3>2, <3>3
  <2>. QED BY <2>1, <2>2
<1>2. IInv /\ [NextResidency]_resVars =>
          [\A s \in Tensors :
              /\ uploads[s] > 0 => uploads'[s] = uploads[s]
              /\ s \in DOMAIN resident =>
                    s \in DOMAIN resident' /\ resident'[s] = resident[s]]_resVars
  BY <1>1 DEF NextResidency
<1>. QED BY <1>2, ResidencyInvariance, PTL DEF SpecResidency, UploadedOnce

\* A tensor that was refused once is on the list for good.
THEOREM FailureIsFinal == SpecResidency => NeverRetried
<1>1. ASSUME IInv, NEW s \in Tensors, NEW shape \in Shapes, Lookup(s, shape[1], shape[2]),
             NEW x \in refused
      PROVE  uploads'[x] = uploads[x] /\ (served'.s = x => served'.result = NoResident)
  <2>1. x \in failed /\ x \in Tensors
    BY <1>1 DEF IInv, Types
  <2>2. served'.s = s
    BY <1>1 DEF Lookup, LookupFailed, LookupHit, LookupRejected, LookupLoads, LookupThrows, Serve
  <2>3. CASE x = s
    BY <1>1, <2>1, <2>3
       DEF Lookup, LookupFailed, LookupHit, LookupRejected, LookupLoads, LookupThrows, Serve
  <2>4. CASE x # s
    <3>1. uploads'[x] = uploads[x]
      BY <1>1, <2>1, <2>4 DEF IInv, Types, Lookup, LookupFailed, LookupHit, LookupRejected,
                              LookupLoads, LookupThrows, Upload
    <3>. QED BY <2>2, <2>4, <3>1
  <2>. QED BY <2>3, <2>4
<1>2. IInv /\ [NextResidency]_resVars =>
          [\A s \in refused :
              /\ uploads'[s] = uploads[s]
              /\ served'.s = s => served'.result = NoResident]_resVars
  BY <1>1 DEF NextResidency
<1>. QED BY <1>2, ResidencyInvariance, PTL DEF SpecResidency, NeverRetried

-----------------------------------------------------------------------------
(* What is in the chunks *)

\* A quotient and a remainder determine each other.
LEMMA DivMod ==
    ASSUME NEW a \in Int, NEW b \in Nat \ {0}
    PROVE  /\ a \div b \in Int
           /\ a % b \in 0 .. b - 1
           /\ a = b * (a \div b) + (a % b)
  OBVIOUS

LEMMA DivModUnique ==
    ASSUME NEW b \in Nat \ {0}, NEW q \in Int, NEW r \in 0 .. b - 1
    PROVE  /\ (b * q + r) \div b = q
           /\ (b * q + r) % b = r
<1> DEFINE a == b * q + r
           d == a \div b - q
<1>1. b * q \in Int /\ a \in Int
  OBVIOUS
<1>2. /\ a \div b \in Int
      /\ a % b \in 0 .. b - 1
      /\ a = b * (a \div b) + (a % b)
  BY <1>1, DivMod
<1>3. b * (a \div b) = b * q + b * d /\ d \in Int
  BY <1>2
<1>4. b * d = r - (a % b)
  BY <1>1, <1>2, <1>3
<1>5. b * d < b /\ -b < b * d
  BY <1>2, <1>4
<1>6. d = 0
  <2>1. CASE d >= 1
    <3>1. b * d >= b
      BY <1>3, <2>1
    <3> QED
      BY <1>5, <3>1
  <2>2. CASE d <= -1
    <3>1. b * d <= -b
      BY <1>3, <2>2
    <3> QED
      BY <1>5, <3>1
  <2> HIDE DEF d
  <2> QED
    BY <1>3, <2>1, <2>2
<1>7. a \div b = q
  BY <1>2, <1>6
<1>8. a % b = r
  BY <1>1, <1>2, <1>7
<1> QED
  BY <1>7, <1>8

\* The chunk accumulate takes for (nc, kc) is the one that was built for it.
LEMMA ChunkOf ==
    ASSUME NEW s, NEW K \in Nat, NEW N \in Nat,
           NEW nc \in 0 .. NChunks(N) - 1, NEW kc \in 0 .. KChunks(K) - 1
    PROVE  ChunkAt(Built(s, K, N), nc, kc) = Slab(s, K, N, nc * kNChunk, kc * kKChunk)
<1>1. NChunks(N) \in Nat \ {0} /\ KChunks(K) \in Nat \ {0}
  <2>1. NChunks(N) \in Nat /\ KChunks(K) \in Nat
    BY ChunkCount
  <2>. QED BY <2>1
<1> DEFINE C == NChunks(N)
           D == KChunks(K)
           x == D * nc + kc
<1>. HIDE DEF C, D
<1>2. C \in Nat \ {0} /\ D \in Nat \ {0} /\ nc \in 0 .. C - 1 /\ kc \in 0 .. D - 1
  BY <1>1 DEF C, D
<1>3. x \div D = nc /\ x % D = kc
  <2>1. nc \in Int
    BY <1>2
  <2>. QED BY <1>2, <2>1, DivModUnique, Zenon DEF x
<1>4. x \in Int /\ nc * D + kc + 1 = x + 1 /\ x + 1 \in 1 .. C * D
  <2>1. D * nc \in Nat /\ D * nc = nc * D /\ C * D \in Nat
    BY <1>2
  <2>2. (nc + 1) * D = nc * D + D /\ (nc + 1) * D <= C * D
    <3>1. (nc + 1) * D = nc * D + D
      BY <1>2
    <3>2. C * D = (nc + 1) * D + (C - (nc + 1)) * D
      BY <1>2
    <3>3. (C - (nc + 1)) * D \in Nat
      BY <1>2
    <3>. QED BY <1>2, <2>1, <3>1, <3>2, <3>3
  <2>. QED BY <1>2, <2>1, <2>2
<1>5. ChunkAt(Built(s, K, N), nc, kc) = Chunks(s, K, N)[x + 1]
  BY <1>4 DEF ChunkAt, Built, D
<1>. HIDE DEF x
<1>6. Chunks(s, K, N)[x + 1] =
          Slab(s, K, N, ((x + 1 - 1) \div D) * kNChunk, ((x + 1 - 1) % D) * kKChunk)
  BY <1>4 DEF Chunks, C, D
<1>7. x + 1 - 1 = x
  BY <1>4
<1>. QED BY <1>3, <1>5, <1>6, <1>7

\* The tensor asked for, whole.
THEOREM ServeWhole == SpecResidency => []ServedIsWhole
<1>1. ASSUME IInv PROVE ServedIsWhole
  <2>. SUFFICES ASSUME served.result # NoResident PROVE ServedIsWhole
    BY DEF ServedIsWhole
  <2> DEFINE s == served.s
             K == served.K
             N == served.N
  <2>1. s \in Tensors /\ K \in Nat /\ N \in Nat /\ served.result = Built(s, K, N)
    BY <1>1 DEF IInv, Right
  <2>2. served.result.K = K /\ served.result.N = N
    BY <2>1, BuiltIsSomething
  <2>3. ASSUME NEW row \in 0 .. N - 1, NEW k \in 0 .. K - 1,
               NEW nc \in 0 .. NChunks(N) - 1, NEW kc \in 0 .. KChunks(K) - 1,
               NEW j \in 0 .. kNChunk - 1, NEW i \in 0 .. kKChunk - 1
        PROVE  ChunkAt(served.result, nc, kc)[j][i] = <<s, row, k>> <=>
                   row = nc * kNChunk + j /\ k = kc * kKChunk + i
    <3> DEFINE nBegin == nc * kNChunk
               kBegin == kc * kKChunk
    <3>1. nBegin \in Nat /\ kBegin \in Nat
      BY <2>1, kChunkAssumption, ChunkCount
    <3>2. ChunkAt(served.result, nc, kc) = Slab(s, K, N, nBegin, kBegin)
      BY <2>1, ChunkOf
    <3>. HIDE DEF nBegin, kBegin, s, K, N
    <3>3. Slab(s, K, N, nBegin, kBegin)[j][i] =
              IF nBegin + j < N /\ i < Least(kKChunk, K - kBegin)
                 THEN <<s, nBegin + j, kBegin + i>> ELSE Pad
      BY DEF Slab
    <3>4. Pad # <<s, row, k>>
      BY <2>1, TensorsAssumption DEF Pad, s
    <3>5. s \in Tensors /\ K \in Nat /\ N \in Nat /\ row \in 0 .. N - 1 /\ k \in 0 .. K - 1
      BY <2>1, <2>3
    <3>6. row = nBegin + j /\ k = kBegin + i => nBegin + j < N /\ i < Least(kKChunk, K - kBegin)
      BY <3>1, <3>5, kChunkAssumption DEF Least
    <3>7. <<s, nBegin + j, kBegin + i>> = <<s, row, k>> <=> row = nBegin + j /\ k = kBegin + i
      OBVIOUS
    <3>8. ChunkAt(served.result, nc, kc)[j][i] = <<s, row, k>> <=>
              row = nBegin + j /\ k = kBegin + i
      BY <3>2, <3>3, <3>4, <3>6, <3>7, Zenon
    <3>. QED BY <3>8, Zenon DEF nBegin, kBegin
  <2>. QED BY <2>2, <2>3, Zenon DEF ServedIsWhole
<1>. QED BY <1>1, ResidencyInvariance, PTL

-----------------------------------------------------------------------------
(* Types *)

\* A lookup adds at most what it serves, of the shape it was asked for.
LEMMA LookupTypes ==
    ASSUME ResidencyTypeOK, NEW s \in Tensors, NEW shape \in Shapes,
           Lookup(s, shape[1], shape[2])
    PROVE  ResidencyTypeOK'
<1> DEFINE K == shape[1]
           N == shape[2]
           size == NChunks(N) * KChunks(K)
<1>1. K \in Nat /\ N \in Nat /\ <<K, N>> \in Shapes
  BY ShapesAssumption
<1>2. size \in Nat /\ Len(Chunks(s, K, N)) = size
  BY <1>1, ChunkCount
<1>3. CASE LookupFailed(s, K, N) \/ LookupHit(s, K, N) \/ LookupRejected(s, K, N)
  BY <1>3 DEF ResidencyTypeOK, LookupFailed, LookupHit, LookupRejected, Serve
<1>4. ASSUME NEW n \in Nat, Upload(s, n)
      PROVE  programs' \subseteq {SingleStem} /\ residentBytes' \in Nat /\ uploads' \in [Tensors -> Nat]
  BY <1>4 DEF ResidencyTypeOK, Upload
<1>5. CASE LookupLoads(s, K, N)
  <2>1. Upload(s, size)
    BY <1>2, <1>5 DEF LookupLoads
  <2>2. /\ resident' = [x \in DOMAIN resident \cup {s} |->
                            IF x = s THEN Built(s, K, N) ELSE resident[x]]
        /\ failed' = failed /\ refused' \subseteq refused \cup {s}
    BY <1>5 DEF LookupLoads, Serve, Built
  <2>3. Built(s, K, N).K = K /\ Built(s, K, N).N = N /\ Len(Built(s, K, N).chunks) = size
    BY <1>2 DEF Built
  <2>4. \A x \in DOMAIN resident' :
            /\ <<resident'[x].K, resident'[x].N>> \in Shapes
            /\ Len(resident'[x].chunks) = NChunks(resident'[x].N) * KChunks(resident'[x].K)
    <3>. HIDE DEF size
    <3>. SUFFICES ASSUME NEW x \in DOMAIN resident \cup {s}
                  PROVE  /\ <<resident'[x].K, resident'[x].N>> \in Shapes
                         /\ Len(resident'[x].chunks) =
                                NChunks(resident'[x].N) * KChunks(resident'[x].K)
      BY <2>2
    <3>1. CASE x = s
      <4>1. resident'[x] = Built(s, K, N)
        BY <2>2, <3>1
      <4>. QED BY <1>1, <2>3, <4>1 DEF size
    <3>2. CASE x # s
      <4>1. x \in DOMAIN resident /\ resident'[x] = resident[x]
        BY <2>2, <3>2
      <4>. QED BY <4>1 DEF ResidencyTypeOK
    <3>. QED BY <3>1, <3>2
  <2>5. DOMAIN resident' \subseteq Tensors /\ failed' \subseteq Tensors /\ refused' \subseteq Tensors
    BY <2>2 DEF ResidencyTypeOK
  <2>. QED BY <1>2, <1>4, <2>1, <2>4, <2>5 DEF ResidencyTypeOK
<1>6. CASE LookupThrows(s, K, N)
  <2>1. \/ UNCHANGED <<programs, uploads, residentBytes>>
        \/ \E n \in Nat : Upload(s, n)
    BY <1>2, <1>6 DEF LookupThrows
  <2>2. programs' \subseteq {SingleStem} /\ residentBytes' \in Nat /\ uploads' \in [Tensors -> Nat]
    BY <1>4, <2>1 DEF ResidencyTypeOK
  <2>3. resident' = resident /\ failed' \subseteq Tensors /\ refused' \subseteq Tensors
    BY <1>6 DEF ResidencyTypeOK, LookupThrows, Serve
  <2>. QED BY <2>2, <2>3 DEF ResidencyTypeOK
<1>. QED BY <1>3, <1>5, <1>6 DEF Lookup

\* The caches are keyed by tensors; what is resident has as many chunks as its shape
\* needs, and one program serves all of it.
THEOREM ResidencyTypeCorrect == SpecResidency => []ResidencyTypeOK
<1>1. InitResidency => ResidencyTypeOK
  BY DEF InitResidency, ResidencyTypeOK
<1>2. ResidencyTypeOK /\ [NextResidency]_resVars => ResidencyTypeOK'
  <2>1. ResidencyTypeOK /\ UNCHANGED resVars => ResidencyTypeOK'
    BY DEF ResidencyTypeOK, resVars
  <2>. QED BY <2>1, LookupTypes DEF NextResidency
<1>. QED BY <1>1, <1>2, PTL DEF SpecResidency

=============================================================================
