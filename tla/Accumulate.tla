----------------------------- MODULE Accumulate -----------------------------
(***************************************************************************)
(* bitnet_xdna_mul_mat, _accumulate and _epilogue (runtime/bitnet_xdna.cpp) *)
(* on top of Program (runtime/xdna_gemm.cpp), called by several threads.    *)
(*                                                                         *)
(* accumulate holds g_mu from the lookup of the weights to its return and  *)
(* runs the loop over token tiles, K chunks and N chunks; all dispatches   *)
(* share one activation buffer, of which the device sees what was there at *)
(* the last sync.  The result is left in the process-wide g_acc, which     *)
(* epilogue reads without the lock.                                        *)
(*                                                                         *)
(* Numbers are formal.  An activation is <<caller, call, token, k>>, a     *)
(* weight is what Residency says a slab holds, and an int32 accumulator is *)
(* the bag of the products <<activation, weight>> summed in it; a product  *)
(* with a zero or with a padded weight vanishes.                           *)
(***************************************************************************)
EXTENDS Residency, Bags

CONSTANTS
    Callers,    \* threads that call bitnet_xdna_mul_mat
    CallSet,    \* the calls they may make: records with s, K, N and T
    MaxCalls    \* how many they make in all (bound)

ASSUME CallSetAssumption ==
    \A x \in CallSet : x.s \in Tensors /\ <<x.K, x.N>> \in Shapes /\ x.T \in Nat
ASSUME MaxCallsAssumption == MaxCalls \in Nat

VARIABLES
    pc,      \* where each caller is
    call,    \* the call each caller makes, or made last
    count,   \* how many calls each caller has begun
    mu,      \* g_mu: its holder, or NoCaller
    t0,      \* loop variables of accumulate (locals of the holder of g_mu):
    kc,      \*   first token of the tile, K chunk, N chunk
    nc,
    part,    \* its sums over the K chunks of a tile, kMTile x N, flat
    aHost,   \* the activation staging buffer as the CPU sees it ...
    aDev,    \* ... and as the device does
    gAcc,    \* g_acc, T x N, flat
    accOf,   \* the call that filled g_acc, if none has begun since (history)
    dst      \* rows written to the output of each caller's call

accVars == <<pc, call, count, mu, t0, kc, nc, part, aHost, aDev, gAcc, accOf, dst>>
vars == <<resVars, accVars>>

NoCaller == "no caller"

ASSUME CallersAssumption == IsFiniteSet(Callers) /\ NoCaller \notin Callers

NoCall == [by |-> NoCaller, nth |-> 0, x |-> [s |-> NoTensor, K |-> 0, N |-> 0, T |-> 0]]

Activation(c, n, t, k) == <<c, n, t, k>>
Zero == <<NoCaller, 0, 0, 0>>

Locations == {"idle", "lock", "tile", "stage", "dispatch", "copyout", "epilogue"}

-----------------------------------------------------------------------------
(* Sums and flat arrays *)

\* Row r, column j of what one dispatch computes: kKChunk products, the weights
\* of which are all different.
DispatchSum(a, slab, r, j) ==
    SetToBag({<<a[r][i], slab[j][i]>> :
                 i \in {e \in 0 .. kKChunk - 1 : a[r][e] # Zero /\ slab[j][e] # Pad}})

\* The sum the call stands for, token t and output feature n.
ExactSum(c, nth, x, t, n) ==
    SetToBag({<<Activation(c, nth, t, k), <<x.s, n, k>>>> : k \in 0 .. x.K - 1})

Size(a) == Cardinality(DOMAIN a)

\* std::vector::resize, and only to grow: new elements are 0.
GrowOnce(a, n) == IF a = <<>> THEN [i \in 0 .. n - 1 |-> EmptyBag] ELSE a   \* mutation
Grow(a, n) == [i \in 0 .. (IF Size(a) < n THEN n ELSE Size(a)) - 1 |->
                  IF i < Size(a) THEN a[i] ELSE EmptyBag]

\* A block of rows by cols numbers at offset off, rows stride apart, of a flat
\* array is replaced by new.
WithBlock(a, off, stride, rows, cols, new) ==
    LET r(i) == (i - off) \div stride
        j(i) == (i - off) % stride
    IN  [i \in DOMAIN a |->
            IF i >= off /\ r(i) < rows /\ j(i) < cols THEN new[r(i)][j(i)] ELSE a[i]]

-----------------------------------------------------------------------------
TypeOK ==
    /\ pc \in [Callers -> Locations]
    /\ call \in [Callers -> CallSet \cup {NoCall.x}]
    /\ count \in [Callers -> 0 .. MaxCalls]
    /\ mu \in Callers \cup {NoCaller}
    /\ mu # NoCaller =>
          /\ t0 % kMTile = 0
          /\ pc[mu] = "dispatch" => /\ kc < KChunks(call[mu].K)
                                    /\ nc < NChunks(call[mu].N)
          /\ Size(gAcc) >= call[mu].T * call[mu].N
    /\ \A c \in Callers : Len(dst[c]) <= call[c].T

Init ==
    /\ InitResidency
    /\ pc = [c \in Callers |-> "idle"]
    /\ call = [c \in Callers |-> NoCall.x]
    /\ count = [c \in Callers |-> 0]
    /\ mu = NoCaller
    /\ t0 = 0 /\ kc = 0 /\ nc = 0
    /\ part = <<>>
    /\ aHost = [r \in 0 .. kMTile - 1 |-> [i \in 0 .. kKChunk - 1 |-> Zero]]
    /\ aDev = aHost
    /\ gAcc = <<>>
    /\ accOf = NoCall
    /\ dst = [c \in Callers |-> <<>>]

\* By whom, and which of the caller's.
CallsMade == {x \in Callers \X (1 .. MaxCalls) : x[2] <= count[x[1]]}

Goto(c, loc) == pc' = [pc EXCEPT ![c] = loc]

-----------------------------------------------------------------------------
(* accumulate *)

\* bitnet_xdna_mul_mat is called, and calls accumulate.
Call(c) ==
    /\ pc[c] = "idle"
    /\ Cardinality(CallsMade) < MaxCalls
    /\ \E x \in CallSet : call' = [call EXCEPT ![c] = x]
    /\ count' = [count EXCEPT ![c] = @ + 1]
    /\ dst' = [dst EXCEPT ![c] = <<>>]
    /\ Goto(c, "lock")
    /\ UNCHANGED <<resVars, mu, t0, kc, nc, part, aHost, aDev, gAcc, accOf>>

\* g_mu is taken; the tensor is not resident, or g_acc has to grow and cannot:
\* accumulate returns 0.
Refuse(c) ==
    LET x == call[c] IN
    /\ pc[c] = "lock"
    /\ mu = NoCaller
    /\ Lookup(x.s, x.K, x.N)
    /\ served'.result = NoResident \/ Size(gAcc) < x.T * x.N
    /\ Goto(c, "idle")
    /\ UNCHANGED <<call, count, mu, t0, kc, nc, part, aHost, aDev, gAcc, accOf, dst>>

\* g_mu is taken and the tensor is resident: g_acc is grown to the call.
Begin(c) ==
    LET x == call[c] IN
    /\ pc[c] = "lock"
    /\ mu = NoCaller
    /\ Lookup(x.s, x.K, x.N)
    /\ served'.result # NoResident
    /\ mu' = c
    /\ t0' = 0
    /\ gAcc' = Grow(gAcc, x.T * x.N)
    /\ accOf' = NoCall
    /\ Goto(c, "tile")
    /\ UNCHANGED <<call, count, kc, nc, part, aHost, aDev, dst>>

\* The next token tile: partial sums start from 0.
BeginTileKeepsPart(c) ==   \* mutation
    LET x == call[c] IN
    /\ pc[c] = "tile"
    /\ t0 < x.T
    /\ part' = IF KChunks(x.K) > 1 /\ t0 = 0 THEN [i \in 0 .. kMTile * x.N - 1 |-> EmptyBag]
                                             ELSE part
    /\ kc' = 0
    /\ Goto(c, "stage")
    /\ UNCHANGED <<resVars, call, count, mu, t0, nc, aHost, aDev, gAcc, accOf, dst>>

BeginTile(c) ==
    LET x == call[c] IN
    /\ pc[c] = "tile"
    /\ t0 < x.T
    /\ part' = IF KChunks(x.K) > 1 THEN [i \in 0 .. kMTile * x.N - 1 |-> EmptyBag] ELSE <<>>
    /\ kc' = 0
    /\ Goto(c, "stage")
    /\ UNCHANGED <<resVars, call, count, mu, t0, nc, aHost, aDev, gAcc, accOf, dst>>

Rows(x) == Least(kMTile, x.T - t0)

\* One K slice of the tile's activations is copied to the staging buffer, which
\* is zeroed before if the slice does not fill it, and synced to the device.
StageUncleared(c) ==   \* mutation
    LET x == call[c]
        kept(r, i) == r < Rows(x) /\ i < KKeep(x.K, kc)
    IN
    /\ pc[c] = "stage"
    /\ aHost' = [r \in 0 .. kMTile - 1 |-> [i \in 0 .. kKChunk - 1 |->
                    IF kept(r, i) THEN Activation(c, count[c], t0 + r, kc * kKChunk + i)
                                  ELSE aHost[r][i]]]
    /\ aDev' = aHost'
    /\ nc' = 0
    /\ Goto(c, "dispatch")
    /\ UNCHANGED <<resVars, call, count, mu, t0, kc, part, gAcc, accOf, dst>>

Stage(c) ==
    LET x == call[c]
        kept(r, i) == r < Rows(x) /\ i < KKeep(x.K, kc)
    IN
    /\ pc[c] = "stage"
    /\ aHost' = [r \in 0 .. kMTile - 1 |-> [i \in 0 .. kKChunk - 1 |->
                    IF kept(r, i) THEN Activation(c, count[c], t0 + r, kc * kKChunk + i)
                    ELSE IF Rows(x) < kMTile \/ KKeep(x.K, kc) < kKChunk THEN Zero
                    ELSE aHost[r][i]]]
    /\ aDev' = aHost'
    /\ nc' = 0
    /\ Goto(c, "dispatch")
    /\ UNCHANGED <<resVars, call, count, mu, t0, kc, part, gAcc, accOf, dst>>

\* The chunk (nc, kc) is dispatched and completes.  Of what comes back, the rows
\* of the tile and the columns of the chunk that carry data are kept: in g_acc, or
\* added to the partial sums if there are several K chunks.
Dispatch(c) ==
    LET x == call[c]
        slab == ChunkAt(resident[x.s], nc, kc)
        nOff == nc * kNChunk
        sums == [r \in 0 .. Rows(x) - 1 |-> [j \in 0 .. NKeep(x.N, nc) - 1 |->
                    DispatchSum(aDev, slab, r, j)]]
        added == [r \in 0 .. Rows(x) - 1 |-> [j \in 0 .. NKeep(x.N, nc) - 1 |->
                    part[r * x.N + nOff + j] (+) sums[r][j]]]
    IN
    /\ pc[c] = "dispatch"
    /\ IF KChunks(x.K) = 1
          THEN /\ gAcc' = WithBlock(gAcc, t0 * x.N + nOff, x.N, Rows(x), NKeep(x.N, nc), sums)
               /\ UNCHANGED part
          ELSE /\ part' = WithBlock(part, nOff, x.N, Rows(x), NKeep(x.N, nc), added)
               /\ UNCHANGED gAcc
    /\ IF nc + 1 < NChunks(x.N)
          THEN nc' = nc + 1 /\ UNCHANGED <<kc, pc>>
          ELSE /\ kc' = kc + 1
               /\ UNCHANGED nc
               /\ Goto(c, IF kc + 1 < KChunks(x.K) THEN "stage" ELSE "copyout")
    /\ UNCHANGED <<resVars, call, count, mu, t0, aHost, aDev, accOf, dst>>

\* run.wait does not return COMPLETED, or the partial sums cannot be allocated:
\* the exception releases g_mu, accumulate returns 0, and the tiles done before
\* stay in g_acc.
MayThrow(c) == \/ pc[c] = "dispatch"
               \/ pc[c] = "tile" /\ t0 = 0 /\ KChunks(call[c].K) > 1

ThrowLocked(c) ==   \* mutation
    /\ MayThrow(c)
    /\ Goto(c, "idle")
    /\ UNCHANGED <<resVars, call, count, mu, t0, kc, nc, part, aHost, aDev, gAcc, accOf, dst>>

Throw(c) ==
    /\ MayThrow(c)
    /\ mu' = NoCaller
    /\ Goto(c, "idle")
    /\ UNCHANGED <<resVars, call, count, t0, kc, nc, part, aHost, aDev, gAcc, accOf, dst>>

\* The K chunks of the tile are summed: on to the next tile.
CopyOut(c) ==
    LET x == call[c]
        summed == [r \in 0 .. Rows(x) - 1 |-> [j \in 0 .. x.N - 1 |-> part[r * x.N + j]]]
    IN
    /\ pc[c] = "copyout"
    /\ gAcc' = IF KChunks(x.K) > 1
                  THEN WithBlock(gAcc, t0 * x.N, x.N, Rows(x), x.N, summed)
                  ELSE gAcc
    /\ t0' = t0 + kMTile
    /\ Goto(c, "tile")
    /\ UNCHANGED <<resVars, call, count, mu, kc, nc, part, aHost, aDev, accOf, dst>>

\* accumulate releases g_mu and returns 1.
Return(c) ==
    /\ pc[c] = "tile"
    /\ t0 >= call[c].T
    /\ mu' = NoCaller
    /\ accOf' = [by |-> c, nth |-> count[c], x |-> call[c]]
    /\ Goto(c, "epilogue")
    /\ UNCHANGED <<resVars, call, count, t0, kc, nc, part, aHost, aDev, gAcc, dst>>

-----------------------------------------------------------------------------
(* epilogue, without the lock *)

\* One token: its row of g_acc is scaled into dst.
EpilogueChunkStride(c) ==   \* mutation
    LET x == call[c] IN
    /\ pc[c] = "epilogue"
    /\ Len(dst[c]) < x.T
    /\ dst' = [dst EXCEPT ![c] = Append(@, [n \in 0 .. x.N - 1 |-> gAcc[Len(@) * kNChunk + n]])]
    /\ UNCHANGED <<resVars, pc, call, count, mu, t0, kc, nc, part, aHost, aDev, gAcc, accOf>>

Epilogue(c) ==
    LET x == call[c] IN
    /\ pc[c] = "epilogue"
    /\ Len(dst[c]) < x.T
    /\ dst' = [dst EXCEPT ![c] = Append(@, [n \in 0 .. x.N - 1 |-> gAcc[Len(@) * x.N + n]])]
    /\ UNCHANGED <<resVars, pc, call, count, mu, t0, kc, nc, part, aHost, aDev, gAcc, accOf>>

\* mul_mat returns 1.
Done(c) ==
    /\ pc[c] = "epilogue"
    /\ Len(dst[c]) = call[c].T
    /\ Goto(c, "idle")
    /\ UNCHANGED <<resVars, call, count, mu, t0, kc, nc, part, aHost, aDev, gAcc, accOf, dst>>

-----------------------------------------------------------------------------
Step(c) == \/ Refuse(c) \/ Begin(c)
           \/ BeginTile(c) \/ Stage(c) \/ Dispatch(c) \/ Throw(c) \/ CopyOut(c)
           \/ Return(c) \/ Epilogue(c) \/ Done(c)

\* All calls are made.
Finished == /\ Cardinality(CallsMade) = MaxCalls
            /\ \A c \in Callers : pc[c] = "idle"
            /\ UNCHANGED vars

Next == (\E c \in Callers : Call(c) \/ Step(c)) \/ Finished

\* A thread in a call is scheduled, and a dispatch ends.  The callers make finitely
\* many calls, so a thread that waits for g_mu gets it without more fairness.
Spec == Init /\ [][Next]_vars /\ \A c \in Callers : WF_vars(Step(c))

-----------------------------------------------------------------------------
(* Properties *)

\* "[accumulate] leaves a [T,N] int32 buffer owned by the shim; it stays valid
\* until the next accumulate call": whatever came before in the staging buffer,
\* the partial sums and the accumulator, and whichever calls failed half-way, it
\* holds the T x N exact sums, and so it does until an accumulate of a resident
\* tensor begins -- not only until its own caller returns.
AccumulatorValid ==
    \A t \in 0 .. accOf.x.T - 1, n \in 0 .. accOf.x.N - 1 :
        gAcc[t * accOf.x.N + n] = ExactSum(accOf.by, accOf.nth, accOf.x, t, n)

\* The rows epilogue has written are right as long as its accumulator is valid:
\* mul_mat is right when its calls do not overlap.
DstRightIfValid ==
    \A c \in Callers :
        accOf.by = c /\ accOf.nth = count[c] =>
            \A t \in 1 .. Len(dst[c]) : \A n \in 0 .. call[c].N - 1 :
                dst[c][t][n] = ExactSum(c, count[c], call[c], t - 1, n)

\* "Padded K rows are zeroed in the activation buffer": what the device sees when
\* a chunk is dispatched is the K slice of the holder's tile and nothing else, for
\* all the N chunks that share the one sync.
StagedSliceOnly ==
    \A c \in Callers : pc[c] = "dispatch" =>
        \A r \in 0 .. kMTile - 1, i \in 0 .. kKChunk - 1 :
            aDev[r][i] = IF t0 + r < call[c].T /\ kc * kKChunk + i < call[c].K
                            THEN Activation(c, count[c], t0 + r, kc * kKChunk + i)
                            ELSE Zero

\* Every call returns, with the result or with 0: no failure leaves g_mu locked.
EveryCallReturns == \A c \in Callers : pc[c] # "idle" ~> pc[c] = "idle"

\* bitnet_xdna_mul_mat computes dst for the caller: "the NPU is single-tenant so
\* one buffer suffices".  Not when two calls overlap: the second may refill g_acc
\* before the epilogue of the first has read it.
DstRight ==
    \A c \in Callers : \A t \in 1 .. Len(dst[c]) : \A n \in 0 .. call[c].N - 1 :
        dst[c][t][n] = ExactSum(c, count[c], call[c], t - 1, n)

=============================================================================
