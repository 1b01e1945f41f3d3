-------------------------- MODULE CampaignProofs ---------------------------
(***************************************************************************)
(* For any options of the two measurement programs, and wherever runs      *)
(* fail, hang, are interrupted, or the program or the machine dies: the    *)
(* file has a row for every run that gave one, or for those of the first   *)
(* so many runs if the machine went down; a share of the sweep and its     *)
(* CPU-only reference have rows of the same rounds; a row of               *)
(* whole_system.py was measured under the tenants it names; and between    *)
(* two blocks no tenant is alive.                                          *)
(*                                                                         *)
(* The invariant says that the rows written are those of the runs that     *)
(* gave one, the run that is still writing its own included (Rows), that   *)
(* the first of them are those of the first runs (Firsts), and that the    *)
(* file has the first of them (Lag), all but that row unless the machine   *)
(* went down (Flushed); of the sweep, that the rows are in the order of    *)
(* the rounds (SweepInv); and of whole_system.py, which runs belong to the *)
(* block that was entered (InBlock), which tenants it has (Load), and that *)
(* no others are alive (Tenants).                                          *)
(***************************************************************************)
EXTENDS Bench, TLAPS, FiniteSetTheorems

-----------------------------------------------------------------------------
(* Numbers and lists *)

\* A quotient grows with the dividend, and counts how often the divisor fits.
LEMMA Quotient ==
    ASSUME NEW b \in Nat \ {0}, NEW a \in Int
    PROVE  /\ a \div b \in Int /\ a % b \in 0 .. b - 1
           /\ b * (a \div b) <= a /\ a < b * (a \div b) + b
           /\ a >= 0 => a \div b >= 0
           /\ \A q \in Int : b * q <= a /\ a < b * q + b => a \div b = q
<1>1. a \div b \in Int /\ a % b \in 0 .. b - 1 /\ a = b * (a \div b) + (a % b)
  OBVIOUS
<1> DEFINE d == a \div b
<1>2. d \in Int /\ b * d \in Int /\ b * d <= a /\ a < b * d + b
  BY <1>1
<1>. HIDE DEF d
<1>3. ASSUME NEW q \in Int, b * q <= a, a < b * q + b PROVE d = q
  <2> DEFINE e == d - q
  <2>1. e \in Int /\ b * d = b * q + b * e /\ b * q \in Int /\ b * e \in Int
    BY <1>2
  <2>. HIDE DEF e
  <2>2. e >= 1 => b * e >= b
    BY <2>1
  <2>3. e <= -1 => b * e <= -b
    BY <2>1
  <2>4. e = 0
    BY <1>2, <1>3, <2>1, <2>2, <2>3
  <2>. QED BY <1>2, <2>4 DEF e
<1>4. a >= 0 => d >= 0
  <2>1. d <= -1 => b * d <= -b
    BY <1>2
  <2>. QED BY <1>2, <2>1
<1>. QED BY <1>1, <1>2, <1>3, <1>4 DEF d

LEMMA QuotientGrows ==
    ASSUME NEW b \in Nat \ {0}, NEW a \in Int, NEW c \in Int, a <= c
    PROVE  a \div b <= c \div b
<1> DEFINE p == a \div b
           q == c \div b
<1>1. p \in Int /\ q \in Int /\ b * p <= a /\ c < b * q + b /\ b * p \in Int /\ b * q \in Int
  BY Quotient
<1>. HIDE DEF p, q
<1>2. p >= q + 1 => b * p >= b * q + b
  <2>1. b * p = b * q + b + b * (p - q - 1) /\ b * (p - q - 1) \in Int
    BY <1>1
  <2>2. p >= q + 1 => b * (p - q - 1) >= 0
    <3>1. p >= q + 1 => p - q - 1 \in Nat
      BY <1>1
    <3>. QED BY <3>1
  <2>. QED BY <1>1, <2>1, <2>2
<1>3. p <= q
  BY <1>1, <1>2
<1>. QED BY <1>3 DEF p, q

\* Every member of the set is somewhere on the list.
LEMMA OnList ==
    ASSUME NEW C, IsFiniteSet(C)
    PROVE  /\ Cardinality(C) \in Nat
           /\ Len(ListOf(C)) = Cardinality(C)
           /\ ListOf(C) \in [1 .. Cardinality(C) -> C]
           /\ \A c \in C : \E x \in 1 .. Cardinality(C) : ListOf(C)[x] = c
<1> DEFINE n == Cardinality(C)
           Full(list) == \A c \in C : \E x \in DOMAIN list : list[x] = c
<1>1. n \in Nat /\ ExistsBijection(1 .. n, C)
  BY FS_CardinalityType
<1>2. \E list \in [1 .. n -> C] : Full(list)
  BY <1>1 DEF ExistsBijection, Bijection, Injection, Surjection
<1>3. ListOf(C) \in [1 .. n -> C] /\ Full(ListOf(C))
  BY <1>2 DEF ListOf
<1>. HIDE DEF n
<1>4. Len(ListOf(C)) = n
  BY <1>1, <1>3
<1>. QED BY <1>1, <1>3, <1>4 DEF n

\* The programs list and count what they are given as Campaign does.
LEMMA Instances ==
    ASSUME NEW C
    PROVE  /\ S!Cardinality(C) = Cardinality(C) /\ W!Cardinality(C) = Cardinality(C)
           /\ S!ListOf(C) = ListOf(C) /\ W!ListOf(C) = ListOf(C)
<1>1. S!Cardinality(C) = Cardinality(C) /\ W!Cardinality(C) = Cardinality(C)
  BY DEF S!Cardinality, W!Cardinality, Cardinality
<1>2. S!ListOf(C) = ListOf(C)
  BY <1>1 DEF S!ListOf, ListOf
<1>3. W!ListOf(C) = ListOf(C)
  BY <1>1 DEF W!ListOf, ListOf
<1>. QED BY <1>1, <1>2, <1>3

-----------------------------------------------------------------------------
(* The rows, of either program *)

\* The values of f at the indices X.
At(f, X) == {f[x] : x \in X}

RowsIn(list) == At(list, DOMAIN list)

\* The runs that have ended or given their row, and of these the ones with a row.
Over == IF run \in {"busy", "hung"} THEN 1 .. next - 1 ELSE 1 .. next
Gave == Over \ failed

Types ==
    /\ next \in Nat
    /\ run \in {"none", "busy", "hung", "row"}
    /\ run # "none" => next > 0 /\ next \notin failed
    /\ failed \subseteq 1 .. next
    /\ Len(buffer) \in Nat /\ DOMAIN buffer = 1 .. Len(buffer)

\* What is in the file are the first of the rows written, ...
Lag ==
    /\ Len(file) \in Nat /\ DOMAIN file = 1 .. Len(file) /\ Len(file) <= Len(buffer)
    /\ \A x \in 1 .. Len(file) : file[x] = buffer[x]

\* ... and the first of these are those of the first runs.
Firsts ==
    \A m \in 0 .. Len(buffer) :
        \E n \in 0 .. next :
            /\ run \in {"busy", "hung"} => n < next
            /\ At(buffer, 1 .. m) = At(plan, (1 .. n) \ failed)

Flushed ==
    outcome # "down" => RowsIn(file) = At(plan, IF run = "row" THEN Gave \ {next} ELSE Gave)

Rows ==
    /\ Types
    /\ RowsIn(buffer) = At(plan, Gave)
    /\ Lag /\ Firsts /\ Flushed

\* run_one gives up: the run ends without a row, whether it hung or not.
GiveUp ==
    /\ run \in {"busy", "hung"}
    /\ run' = "none"
    /\ failed' = failed \cup {next}
    /\ UNCHANGED <<plan, next, buffer, file, outcome>>

\* Closing the file, whatever for.
Ends == \E how \in {"closed", "interrupted"} : CloseAs(how)

\* Not to go up again.
Idle ==
    /\ UNCHANGED <<plan, next, run, failed, buffer, file>>
    /\ outcome = "down" => outcome' = "down"

\* A row is added at the end.
LEMMA RowAppended ==
    ASSUME NEW list, NEW row, Len(list) \in Nat, DOMAIN list = 1 .. Len(list)
    PROVE  /\ Len(Append(list, row)) = Len(list) + 1
           /\ DOMAIN Append(list, row) = 1 .. Len(list) + 1
           /\ Append(list, row)[Len(list) + 1] = row
           /\ \A x \in 1 .. Len(list) : Append(list, row)[x] = list[x]
           /\ RowsIn(Append(list, row)) = RowsIn(list) \cup {row}
<1> DEFINE n == Len(list)
           b == Append(list, row)
<1>1. Len(b) = n + 1 /\ DOMAIN b = 1 .. n + 1
  OBVIOUS
<1>2. b[n + 1] = row /\ \A x \in 1 .. n : b[x] = list[x]
  OBVIOUS
<1>3. RowsIn(b) = RowsIn(list) \cup {row}
  <2>. HIDE DEF b, n
  <2>. QED BY <1>1, <1>2 DEF RowsIn, At, n
<1>. QED BY <1>1, <1>2, <1>3

\* One more run.
LEMMA RunAdded ==
    ASSUME NEW f, NEW X, NEW x
    PROVE  At(f, X \cup {x}) = At(f, X) \cup {f[x]}
BY DEF At

\* No run has been started, and nothing is written.
LEMMA InitRows == CampaignInit => Rows
<1>. SUFFICES ASSUME CampaignInit PROVE Rows
  OBVIOUS
<1>1. Types
  BY DEF CampaignInit, Types
<1>2. Gave = {} /\ run = "none" /\ next = 0 /\ failed = {} /\ buffer = <<>> /\ file = <<>>
  BY DEF CampaignInit, Gave, Over
<1>3. At(plan, {}) = {} /\ RowsIn(<<>>) = {}
  BY DEF At, RowsIn
<1>4. Lag
  BY <1>2 DEF Lag
<1>5. Firsts
  <2>1. \A m \in 0 .. Len(buffer) : m = 0
    BY <1>2
  <2>2. At(buffer, 1 .. 0) = {} /\ At(plan, (1 .. 0) \ failed) = {}
    BY DEF At
  <2>. QED BY <1>2, <2>1, <2>2 DEF Firsts
<1>. QED BY <1>1, <1>2, <1>3, <1>4, <1>5 DEF Rows, Flushed

LEMMA StartRows == ASSUME Rows, Start PROVE Rows'
<1>1. Types'
  BY DEF Rows, Types, Start
<1>2. /\ Gave' = Gave /\ run = "none" /\ run' # "row"
      /\ UNCHANGED <<plan, failed, buffer, file, outcome>>
      /\ next \in Nat /\ next' = next + 1
  BY DEF Rows, Types, Gave, Over, Start
<1>3. RowsIn(buffer') = At(plan', Gave')
  BY <1>2 DEF Rows
<1>4. Lag'
  BY <1>2 DEF Rows, Lag
<1>5. Firsts'
  <2>. SUFFICES ASSUME NEW m \in 0 .. Len(buffer)
                PROVE  \E n \in 0 .. next' :
                          n < next' /\ At(buffer', 1 .. m) = At(plan', (1 .. n) \ failed')
    BY <1>2 DEF Firsts
  <2>1. PICK n \in 0 .. next : At(buffer, 1 .. m) = At(plan, (1 .. n) \ failed)
    BY DEF Rows, Firsts
  <2>2. n \in 0 .. next' /\ n < next'
    BY <1>2
  <2>. QED BY <1>2, <2>1, <2>2
<1>6. Flushed'
  BY <1>2 DEF Rows, Flushed
<1>. QED BY <1>1, <1>3, <1>4, <1>5, <1>6 DEF Rows

LEMMA GiveRowRows == ASSUME Rows, GiveRow PROVE Rows'
<1> DEFINE last == Len(buffer)
<1>1. Types'
  BY RowAppended DEF Rows, Types, GiveRow
<1>2. /\ Gave' = Gave \cup {next} /\ next \notin Gave /\ Gave' = (1 .. next) \ failed
      /\ run = "busy" /\ run' = "row" /\ next \in Nat
      /\ UNCHANGED <<plan, next, failed, file, outcome>>
  BY DEF Rows, Types, Gave, Over, GiveRow
<1>3. /\ last \in Nat /\ Len(buffer') = last + 1 /\ DOMAIN buffer' = 1 .. last + 1
      /\ \A x \in 1 .. last : buffer'[x] = buffer[x]
      /\ RowsIn(buffer') = RowsIn(buffer) \cup {plan[next]}
  BY RowAppended DEF Rows, Types, GiveRow
<1>. HIDE DEF last
<1>4. RowsIn(buffer') = At(plan', Gave')
  <2>1. RowsIn(buffer) = At(plan, Gave)
    BY DEF Rows
  <2>2. At(plan, Gave \cup {next}) = At(plan, Gave) \cup {plan[next]}
    BY RunAdded
  <2>. QED BY <1>2, <1>3, <2>1, <2>2
<1>5. Lag'
  <2>1. Len(file) \in Nat /\ Len(file) <= last /\ \A x \in 1 .. Len(file) : file[x] = buffer[x]
    BY DEF Rows, Lag, last
  <2>2. \A x \in 1 .. Len(file) : x \in 1 .. last
    BY <1>3, <2>1
  <2>. QED BY <1>2, <1>3, <2>1, <2>2 DEF Rows, Lag
<1>6. Firsts'
  <2>. SUFFICES ASSUME NEW m \in 0 .. last + 1
                PROVE  \E n \in 0 .. next : At(buffer', 1 .. m) = At(plan, (1 .. n) \ failed)
    BY <1>2, <1>3 DEF Firsts
  <2>1. CASE m \in 0 .. last
    <3>1. PICK n \in 0 .. next : At(buffer, 1 .. m) = At(plan, (1 .. n) \ failed)
      BY <2>1 DEF Rows, Firsts, last
    <3>2. \A x \in 1 .. m : buffer'[x] = buffer[x]
      BY <1>3, <2>1
    <3>3. At(buffer', 1 .. m) = At(buffer, 1 .. m)
      BY <3>2 DEF At
    <3>. QED BY <3>1, <3>3
  <2>2. CASE m = last + 1
    <3>1. At(buffer', 1 .. m) = At(plan, (1 .. next) \ failed)
      <4>1. RowsIn(buffer') = At(buffer', 1 .. m)
        BY <1>3, <2>2 DEF RowsIn
      <4>2. At(plan', Gave') = At(plan, (1 .. next) \ failed)
        BY <1>2
      <4>. QED BY <1>4, <4>1, <4>2
    <3>2. next \in 0 .. next
      BY <1>2
    <3>. QED BY <3>1, <3>2
  <2>. QED BY <1>3, <2>1, <2>2
<1>7. Flushed'
  <2>1. Gave' \ {next} = Gave
    BY <1>2
  <2>. QED BY <1>2, <2>1 DEF Rows, Flushed
<1>. QED BY <1>1, <1>4, <1>5, <1>6, <1>7 DEF Rows

\* Flush, the end of a run without a row, and the end of the program.
LEMMA WrittenRows ==
    ASSUME Rows, Flush \/ GiveUp \/ Ends \/ Idle
    PROVE  Rows'
<1>1. Types'
  <2>1. CASE Flush
    BY <2>1 DEF Rows, Types, Flush
  <2>2. CASE GiveUp
    <3>1. next \in Nat /\ next > 0 /\ failed \subseteq 1 .. next
      BY <2>2 DEF Rows, Types, GiveUp
    <3>2. failed' \subseteq 1 .. next'
      BY <2>2, <3>1 DEF GiveUp
    <3>. QED BY <2>2, <3>1, <3>2 DEF Rows, Types, GiveUp
  <2>3. CASE Ends
    BY <2>3 DEF Rows, Types, Ends, CloseAs
  <2>4. CASE Idle
    BY <2>4 DEF Rows, Types, Idle
  <2>. QED BY <2>1, <2>2, <2>3, <2>4
<1>2. Gave' = Gave /\ plan' = plan /\ buffer' = buffer
  BY DEF Rows, Types, Gave, Over, Flush, GiveUp, Ends, CloseAs, Idle, Going
<1>3. \/ file' = buffer /\ run' # "row"
      \/ /\ file' = file /\ (run' = "row" <=> run = "row") /\ next' = next
         /\ outcome = "down" => outcome' = "down"
  BY DEF Rows, Types, Flush, GiveUp, Ends, CloseAs, Idle, Going
<1>4. RowsIn(buffer') = At(plan', Gave')
  BY <1>2 DEF Rows
<1>5. Lag'
  BY <1>2, <1>3 DEF Rows, Lag, Types
<1>6. Firsts'
  <2>1. /\ next' = next /\ next \in Nat /\ (run' \in {"busy", "hung"} => run' = run)
        /\ \/ failed' = failed
           \/ failed' = failed \cup {next} /\ run \in {"busy", "hung"}
    BY DEF Rows, Types, Flush, GiveUp, Ends, CloseAs, Idle
  <2>. SUFFICES ASSUME NEW m \in 0 .. Len(buffer)
                PROVE  \E n \in 0 .. next :
                          /\ run' \in {"busy", "hung"} => n < next
                          /\ At(buffer, 1 .. m) = At(plan, (1 .. n) \ failed')
    BY <1>2, <2>1 DEF Firsts
  <2>2. PICK n \in 0 .. next : /\ run \in {"busy", "hung"} => n < next
                               /\ At(buffer, 1 .. m) = At(plan, (1 .. n) \ failed)
    BY DEF Rows, Firsts
  <2>3. (1 .. n) \ failed' = (1 .. n) \ failed
    BY <2>1, <2>2
  <2>. QED BY <2>1, <2>2, <2>3
<1>7. Flushed'
  BY <1>2, <1>3 DEF Rows, Flushed
<1>. QED BY <1>1, <1>4, <1>5, <1>6, <1>7 DEF Rows

\* The machine goes down: the file is cut.
LEMMA DownRows == ASSUME Rows, GoDown PROVE Rows'
<1>1. /\ UNCHANGED <<plan, next, run, failed, buffer>> /\ outcome' = "down"
  BY DEF GoDown
<1>2. PICK n \in 0 .. Len(file) : file' = SubSeq(file, 1, n)
  BY DEF GoDown
<1>3. /\ Len(file') = n /\ DOMAIN file' = 1 .. n /\ n \in Nat /\ n <= Len(file)
      /\ \A x \in 1 .. n : file'[x] = file[x]
  BY <1>2 DEF Rows, Lag
<1>4. Lag'
  BY <1>1, <1>3 DEF Rows, Lag, Types
<1>5. Types'
  BY <1>1 DEF Rows, Types
<1>6. RowsIn(buffer') = At(plan', Gave')
  <2>1. Gave' = Gave
    BY <1>1 DEF Gave, Over
  <2>. QED BY <1>1, <2>1 DEF Rows
<1>7. Firsts' /\ Flushed'
  BY <1>1 DEF Rows, Firsts, Flushed
<1>. QED BY <1>4, <1>5, <1>6, <1>7 DEF Rows

\* Any step of either program, as far as runs and rows are concerned.
Moves == Start \/ GiveRow \/ Flush \/ GiveUp \/ Ends \/ GoDown \/ Idle

LEMMA MovesRows == ASSUME Rows, Moves PROVE Rows'
BY StartRows, GiveRowRows, WrittenRows, DownRows DEF Moves

\* The rows in the file are those of the first so many runs.
LEMMA FileOfFirsts ==
    ASSUME Rows
    PROVE  \E n \in 0 .. next : RowsIn(file) = At(plan, (1 .. n) \ failed)
<1> DEFINE m == Len(file)
<1>1. m \in 0 .. Len(buffer) /\ DOMAIN file = 1 .. m /\ \A x \in 1 .. m : file[x] = buffer[x]
  BY DEF Rows, Lag, Types
<1>. HIDE DEF m
<1>2. RowsIn(file) = At(buffer, 1 .. m)
  BY <1>1 DEF RowsIn, At
<1>. QED BY <1>1, <1>2 DEF Rows, Firsts

\* The invariant says what the property does.
LEMMA RowsAreSurviving == ASSUME Rows PROVE RowsSurvive
<1>1. (1 .. given) \ failed = IF run = "row" THEN Gave \ {next} ELSE Gave
  BY DEF Rows, Types, Gave, Over, given
<1>2. outcome # "down" => RowsIn(file) = At(plan, (1 .. given) \ failed)
  BY <1>1 DEF Rows, Flushed
<1>. QED BY <1>2, FileOfFirsts DEF RowsIn, At, RowsSurvive

-----------------------------------------------------------------------------
(* The sweep *)

\* The options name finitely many configurations.
LEMMA FiniteConfigurations == IsFiniteSet(S!uniq)
<1> DEFINE P == {y \in Prompts \X Microbatches : y[2] \in S!ubs(y[1])}
           tilesOf(x) == S!shares(x[1], x[2])
           recordsOf(x) == [prompt : {x[1]}, ub : {x[2]}, threads : Threads, tiles : tilesOf(x)]
           F == [x \in P |-> recordsOf(x)]
           R == {F[x] : x \in P}
<1>1. IsFiniteSet(P)
  <2>1. IsFiniteSet(Prompts \X Microbatches)
    BY OptionsAssumption, FS_Product
  <2>. QED BY <2>1, FS_Subset
<1>2. ASSUME NEW x \in P PROVE IsFiniteSet(recordsOf(x))
  <2> DEFINE N == Threads \X tilesOf(x)
             f == [y \in N |-> [prompt |-> x[1], ub |-> x[2], threads |-> y[1], tiles |-> y[2]]]
  <2>1. IsFiniteSet(tilesOf(x))
    <3>1. x[1] \in Nat /\ x[2] \in Nat
      BY OptionsAssumption
    <3>2. S!Smallest(x[2], x[1]) \div Tile \in Int
      <4>1. S!Smallest(x[2], x[1]) \in Int
        BY <3>1 DEF S!Smallest
      <4>. QED BY <4>1, OptionsAssumption, Quotient
    <3>3. IsFiniteSet(0 .. (S!Smallest(x[2], x[1]) \div Tile))
      BY <3>2, FS_Interval
    <3>4. IsFiniteSet({cpu} \cup (0 .. (S!Smallest(x[2], x[1]) \div Tile)))
      BY <3>3, FS_Singleton, FS_Union
    <3>. QED BY <3>4 DEF S!shares
  <2>2. IsFiniteSet(N)
    BY <2>1, OptionsAssumption, FS_Product
  <2>3. f \in Surjection(N, recordsOf(x))
    <3>1. f \in [N -> recordsOf(x)]
      OBVIOUS
    <3>2. ASSUME NEW t \in recordsOf(x) PROVE \E y \in N : f[y] = t
      <4>1. <<t.threads, t.tiles>> \in N
        OBVIOUS
      <4>2. f[<<t.threads, t.tiles>>] = t
        BY <4>1
      <4>. QED BY <4>1, <4>2
    <3>. QED BY <3>1, <3>2 DEF Surjection
  <2>. QED BY <2>2, <2>3, FS_Surjection
<1>3. IsFiniteSet(R)
  <2>1. F \in Surjection(P, R)
    BY DEF Surjection
  <2>. QED BY <1>1, <2>1, FS_Surjection
<1>4. \A x \in R : IsFiniteSet(x)
  BY <1>2
<1>5. S!uniq = UNION R
  BY DEF S!uniq
<1>. QED BY <1>3, <1>4, <1>5, FS_UNION

\* The runs of the sweep: as many of a round as there are configurations, each of them in
\* every round, and the rounds one after the other.
LEMMA RoundsFacts ==
    LET L == Cardinality(S!uniq)
    IN  /\ Len(S!Rounds) \in Nat /\ DOMAIN S!Rounds = 1 .. Len(S!Rounds)
        /\ \A x \in 1 .. Len(S!Rounds) :
              S!Rounds[x].rep \in Int /\ S!Rounds[x].config \in S!uniq
        /\ \A x, y \in 1 .. Len(S!Rounds) : x <= y => S!Rounds[x].rep <= S!Rounds[y].rep
        /\ \A config \in S!uniq, rep \in 0 .. Reps - 1 :
              \E x \in 1 .. Len(S!Rounds) :
                  S!Rounds[x].rep = rep /\ S!Rounds[x].config = config
<1> DEFINE order == ListOf(S!uniq)
           L == Cardinality(S!uniq)
           n == Reps * L
           R == S!Rounds
<1>1. /\ L \in Nat /\ Len(order) = L /\ order \in [1 .. L -> S!uniq]
      /\ \A c \in S!uniq : \E x \in 1 .. L : order[x] = c
  BY FiniteConfigurations, OnList
<1>2. n \in Nat
  BY <1>1, OptionsAssumption
<1>3. R = [x \in 1 .. n |-> [rep |-> (x - 1) \div L, config |-> order[((x - 1) % L) + 1]]]
  <2>1. S!ListOf(S!uniq) = order
    BY Instances
  <2>. HIDE DEF order
  <2>. QED BY <1>1, <2>1 DEF S!Rounds
<1>. HIDE DEF n, R, order, L
<1>4. DOMAIN R = 1 .. n /\ Len(R) = n
  BY <1>2, <1>3
<1>5. ASSUME NEW x \in 1 .. n
      PROVE  /\ L \in Nat \ {0} /\ x - 1 \in Int
             /\ R[x].rep = (x - 1) \div L /\ R[x].config = order[((x - 1) % L) + 1]
             /\ R[x].rep \in Int /\ R[x].config \in S!uniq
  <2>1. L # 0
    <3>1. L = 0 => n = 0
      BY OptionsAssumption DEF n
    <3>. QED BY <1>2, <3>1
  <2>2. L \in Nat \ {0} /\ x - 1 \in Int
    BY <1>1, <2>1, <1>2
  <2>3. (x - 1) \div L \in Int /\ (x - 1) % L \in 0 .. L - 1
    BY <2>2, Quotient
  <2>4. order[((x - 1) % L) + 1] \in S!uniq
    BY <1>1, <2>2, <2>3
  <2>5. R[x] = [rep |-> (x - 1) \div L, config |-> order[((x - 1) % L) + 1]]
    BY <1>3
  <2>. QED BY <2>2, <2>3, <2>4, <2>5
<1>6. ASSUME NEW x \in 1 .. n, NEW y \in 1 .. n, x <= y PROVE R[x].rep <= R[y].rep
  <2>1. x - 1 <= y - 1 /\ x - 1 \in Int /\ y - 1 \in Int
    BY <1>2, <1>6
  <2>. QED BY <1>5, <2>1, QuotientGrows
<1>7. ASSUME NEW config \in S!uniq, NEW rep \in 0 .. Reps - 1
      PROVE  \E x \in 1 .. n : R[x].rep = rep /\ R[x].config = config
  <2>1. PICK i \in 1 .. L : order[i] = config
    BY <1>1
  <2>2. L \in Nat \ {0} /\ i - 1 \in 0 .. L - 1 /\ rep \in Nat
    BY <1>1, OptionsAssumption
  <2> DEFINE x == L * rep + i
  <2>3. L * rep \in Nat /\ n = L * rep + L + L * (Reps - 1 - rep) /\ L * (Reps - 1 - rep) \in Nat
    <3>1. Reps - 1 - rep \in Nat
      BY OptionsAssumption
    <3>. QED BY <2>2, <3>1, OptionsAssumption DEF n
  <2>4. x \in 1 .. n /\ x - 1 = L * rep + (i - 1)
    BY <1>2, <2>2, <2>3
  <2>5. (x - 1) \div L = rep
    <3>1. L * rep <= x - 1 /\ x - 1 < L * rep + L /\ x - 1 \in Int /\ rep \in Int
      BY <2>2, <2>3, <2>4
    <3>. HIDE DEF x
    <3>. QED BY <2>2, <3>1, Quotient
  <2>6. (x - 1) % L = i - 1
    <3>1. x - 1 = L * ((x - 1) \div L) + ((x - 1) % L) /\ (x - 1) % L \in Int
      BY <2>2, <2>4
    <3>. QED BY <2>2, <2>3, <2>4, <2>5, <3>1
  <2>. HIDE DEF x
  <2>7. R[x].rep = rep
    BY <1>5, <2>4, <2>5
  <2>8. R[x].config = order[i - 1 + 1]
    BY <1>5, <2>4, <2>6
  <2>. QED BY <2>1, <2>2, <2>4, <2>7, <2>8
<1>. QED BY <1>2, <1>4, <1>5, <1>6, <1>7 DEF R

\* What the sweep does is one of the moves.
LEMMA SweepMoves == ASSUME S!Next PROVE Moves
<1>1. CASE S!Start \/ S!GiveRow \/ S!Flush
  BY <1>1 DEF S!Start, S!GiveRow, S!Flush, S!Going, Start, GiveRow, Flush, Going, Moves
<1>2. CASE S!GiveNone \/ S!Timeout
  BY <1>2 DEF S!GiveNone, S!Timeout, S!Going, GiveUp, Moves
<1>3. CASE S!Close \/ S!Abort
  BY <1>3 DEF S!Close, S!Abort, S!CloseAs, CloseAs, Ends, Moves
<1>4. CASE S!Die
  BY <1>4 DEF S!Die, Idle, Moves
<1>5. CASE S!GoDown
  BY <1>5 DEF S!GoDown, GoDown, Moves
<1>. QED BY <1>1, <1>2, <1>3, <1>4, <1>5 DEF S!Next, S!Steps, S!Interrupt, S!Done

\* The rows are in the order of their rounds, and of none after the current one.
InOrder ==
    \A x \in 1 .. Len(buffer) :
        /\ next > 0 /\ buffer[x].rep <= plan[next].rep
        /\ buffer[x].rep \in Int /\ buffer[x].config \in S!uniq
        /\ \A y \in 1 .. x : buffer[y].rep <= buffer[x].rep

SweepInv == plan = S!Rounds /\ next <= Len(plan) /\ InOrder

LEMMA InitSweepInv == ASSUME S!Init PROVE SweepInv
<1>1. plan = S!Rounds /\ next = 0 /\ buffer = <<>> /\ file = <<>>
  BY DEF S!Init, S!CampaignInit
<1>. QED BY <1>1, RoundsFacts DEF SweepInv, InOrder

\* A row is of the current round, which is not before those of the rows there are.
LEMMA SweepStep == ASSUME Rows, SweepInv, Moves PROVE SweepInv'
<1>1. CASE Start
  <2>1. next \in Nat /\ next + 1 <= Len(plan) /\ next' = next + 1 /\ UNCHANGED <<plan, buffer, file>>
    <3>1. Len(plan) \in Nat /\ next \in Nat
      BY RoundsFacts DEF SweepInv, Rows, Types
    <3>. QED BY <1>1, <3>1 DEF Start
  <2>2. ASSUME NEW x \in 1 .. Len(buffer) PROVE buffer[x].rep <= plan[next'].rep
    <3>1. next \in 1 .. Len(plan) /\ next' \in 1 .. Len(plan) /\ next <= next'
      BY <2>1, RoundsFacts DEF SweepInv, InOrder
    <3>2. plan[next].rep <= plan[next'].rep /\ plan[next].rep \in Int /\ plan[next'].rep \in Int
      BY <3>1, RoundsFacts DEF SweepInv
    <3>. QED BY <3>2 DEF SweepInv, InOrder
  <2>3. InOrder'
    BY <2>1, <2>2 DEF SweepInv, InOrder
  <2>. QED BY <2>1, <2>3 DEF SweepInv
<1>2. CASE GiveRow
  <2> DEFINE n == Len(buffer)
             row == plan[next]
  <2>1. /\ n \in Nat /\ DOMAIN buffer = 1 .. n /\ buffer' = Append(buffer, row)
        /\ UNCHANGED <<plan, next, file>>
    BY <1>2 DEF GiveRow, Rows, Types
  <2>2. /\ Len(buffer') = n + 1 /\ buffer'[n + 1] = row
        /\ \A x \in 1 .. n : buffer'[x] = buffer[x]
    BY <2>1, RowAppended
  <2>3. next \in 1 .. Len(plan) /\ row.rep \in Int /\ row.config \in S!uniq
    <3>1. next \in 1 .. Len(plan)
      BY <1>2, RoundsFacts DEF GiveRow, Rows, Types, SweepInv
    <3>. QED BY <3>1, RoundsFacts DEF SweepInv
  <2>. HIDE DEF n, row
  <2>4. InOrder'
    <3>. SUFFICES ASSUME NEW x \in 1 .. n + 1
                  PROVE  /\ next' > 0 /\ buffer'[x].rep <= plan'[next'].rep
                         /\ buffer'[x].rep \in Int /\ buffer'[x].config \in S!uniq
                         /\ \A y \in 1 .. x : buffer'[y].rep <= buffer'[x].rep
      BY <2>2 DEF InOrder
    <3>1. \A y \in 1 .. n : buffer[y].rep <= row.rep /\ buffer[y].rep \in Int
      BY DEF SweepInv, InOrder, n, row
    <3>2. CASE x = n + 1
      <4>1. \A y \in 1 .. x : buffer'[y].rep <= row.rep
        BY <2>1, <2>2, <2>3, <3>1, <3>2
      <4>. QED BY <2>1, <2>2, <2>3, <3>2, <4>1 DEF row
    <3>3. CASE x \in 1 .. n
      <4>1. /\ buffer'[x] = buffer[x] /\ \A y \in 1 .. x : buffer'[y] = buffer[y]
        BY <2>1, <2>2, <3>3
      <4>2. next > 0 /\ plan'[next'] = plan[next]
        BY <2>1, <2>3
      <4>. QED BY <2>1, <3>3, <4>1, <4>2 DEF SweepInv, InOrder, n
    <3>. QED BY <2>1, <3>2, <3>3
  <2>. QED BY <2>1, <2>4 DEF SweepInv
<1>3. CASE Flush \/ GiveUp \/ Ends \/ GoDown \/ Idle
  <2>1. UNCHANGED <<plan, next, buffer>>
    BY <1>3 DEF Flush, GiveUp, Ends, CloseAs, GoDown, Idle
  <2>. QED BY <2>1 DEF SweepInv, InOrder
<1>. QED BY <1>1, <1>2, <1>3 DEF Moves

\* A round of which one configuration has a row and the other has none: the run of the
\* other is still to come, or is lost with all after it, or has failed.
LEMMA MissingRow ==
    ASSUME Rows, SweepInv, NEW config \in S!uniq, NEW rep \in 0 .. Reps - 1,
           rep \notin S!RoundsOf(config)
    PROVE  \/ S!Unfinished(rep)
           \/ \E x \in failed : plan[x].rep = rep /\ plan[x].config = config
<1>1. PICK x \in 1 .. Len(plan) : plan[x].rep = rep /\ plan[x].config = config
  BY RoundsFacts DEF SweepInv
<1>2. given \in Int /\ given <= Len(plan) /\ Len(plan) \in Nat /\ next \in Nat /\ next <= Len(plan)
  BY RoundsFacts DEF given, Rows, Types, SweepInv
<1>3. PICK n \in 0 .. next :
         /\ RowsIn(file) = At(plan, (1 .. n) \ failed)
         /\ n = given \/ outcome = "down"
  <2>1. CASE outcome = "down"
    BY <2>1, FileOfFirsts
  <2>2. CASE outcome # "down"
    <3>1. given \in 0 .. next
      BY DEF given, Rows, Types
    <3>. QED BY <2>2, <3>1, RowsAreSurviving DEF RowsSurvive, RowsIn, At
  <2>. QED BY <2>1, <2>2
<1>4. CASE x \in (1 .. n) \ failed
  <2>1. plan[x] \in RowsIn(file)
    BY <1>3, <1>4 DEF At
  <2>2. PICK y \in DOMAIN file : file[y] = plan[x]
    BY <2>1 DEF RowsIn, At
  <2>. QED BY <1>1, <2>2 DEF S!RoundsOf
<1>5. CASE x \in failed
  BY <1>1, <1>5
<1>6. CASE x > n /\ n = given
  <2>1. given >= 0
    BY <1>3, <1>6
  <2>2. given + 1 \in 1 .. Len(plan) /\ given + 1 <= x /\ given < Len(plan)
    BY <1>2, <1>6, <2>1
  <2>3. plan[given + 1].rep <= plan[x].rep
    BY <2>2, RoundsFacts DEF SweepInv
  <2>. QED BY <1>1, <2>2, <2>3 DEF S!Unfinished, S!given, given
<1>7. CASE x > n /\ outcome = "down"
  <2>1. ASSUME NEW y \in DOMAIN file PROVE file[y].rep <= rep
    <3>1. file[y] \in At(plan, (1 .. n) \ failed)
      BY <1>3 DEF RowsIn, At
    <3>2. PICK z \in (1 .. n) \ failed : file[y] = plan[z]
      BY <3>1 DEF At
    <3>3. z \in 1 .. Len(plan) /\ z <= x
      BY <1>2, <1>7
    <3>4. plan[z].rep <= plan[x].rep
      BY <3>3, RoundsFacts DEF SweepInv
    <3>. QED BY <1>1, <3>2, <3>4
  <2>. QED BY <1>7, <2>1 DEF S!Unfinished
<1>. QED BY <1>2, <1>3, <1>4, <1>5, <1>6, <1>7

\* The rounds are those of the plan, and in its order.
LEMMA SameRounds == ASSUME Rows, SweepInv PROVE S!ComparedOverSameRounds
<1>. SUFFICES ASSUME NEW pair \in S!Compared
              PROVE  /\ \A rep \in 0 .. Reps - 1 :
                           (rep \in S!RoundsOf(pair[1])) # (rep \in S!RoundsOf(pair[2])) =>
                               \/ S!Unfinished(rep)
                               \/ \E x \in failed : /\ plan[x].rep = rep
                                                    /\ plan[x].config \in {pair[1], pair[2]}
                     /\ \A x, y \in DOMAIN file :
                           {file[x].config, file[y].config} = {pair[1], pair[2]} =>
                               (file[x].rep < file[y].rep => x < y)
  BY DEF S!ComparedOverSameRounds
<1>1. pair[1] \in S!uniq /\ pair[2] \in S!uniq
  BY DEF S!Compared
<1>2. ASSUME NEW rep \in 0 .. Reps - 1,
             (rep \in S!RoundsOf(pair[1])) # (rep \in S!RoundsOf(pair[2]))
      PROVE  \/ S!Unfinished(rep)
             \/ \E x \in failed : plan[x].rep = rep /\ plan[x].config \in {pair[1], pair[2]}
  <2>1. rep \notin S!RoundsOf(pair[1]) \/ rep \notin S!RoundsOf(pair[2])
    BY <1>2
  <2>. QED BY <1>1, <2>1, MissingRow
<1>3. ASSUME NEW x \in DOMAIN file, NEW y \in DOMAIN file, file[x].rep < file[y].rep
      PROVE  x < y
  <2>1. /\ x \in 1 .. Len(buffer) /\ y \in 1 .. Len(buffer)
        /\ file[x] = buffer[x] /\ file[y] = buffer[y]
    BY DEF Lag, Rows, Types
  <2>2. y <= x => buffer[y].rep <= buffer[x].rep
    BY <2>1 DEF SweepInv, InOrder, Rows, Types
  <2>3. buffer[x].rep \in Int /\ buffer[y].rep \in Int /\ x \in Int /\ y \in Int
    BY <2>1 DEF SweepInv, InOrder
  <2>. QED BY <1>3, <2>1, <2>2, <2>3
<1>. QED BY <1>2, <1>3

\* A share of so many tiles fits the microbatch: token_split gives the NPU just that.
LEMMA SharesFit ==
    ASSUME Rows, SweepInv, NEW x \in DOMAIN buffer, buffer[x].config.tiles # cpu
    PROVE  T!Split(S!Smallest(buffer[x].config.ub, buffer[x].config.prompt),
                   [tiles |-> buffer[x].config.tiles])
               = buffer[x].config.tiles * Tile
<1> DEFINE c == buffer[x].config
           tokens == S!Smallest(c.ub, c.prompt)
<1>1. c \in S!uniq
  BY DEF SweepInv, InOrder, Rows, Types
<1>2. c.prompt \in Prompts /\ c.ub \in Microbatches /\ c.tiles \in S!shares(c.prompt, c.ub)
  BY <1>1 DEF S!uniq
<1>3. tokens \in Nat \ {0}
  BY <1>2, OptionsAssumption DEF S!Smallest
<1>4. c.tiles \in 0 .. (tokens \div Tile)
  BY <1>2 DEF S!shares
<1>. HIDE DEF tokens, c
<1> DEFINE q == tokens \div Tile
<1>5. q \in Int /\ Tile * q <= tokens /\ Tile \in Nat
  BY <1>3, OptionsAssumption, Quotient
<1>. HIDE DEF q
<1>6. c.tiles \in Nat /\ c.tiles <= q
  BY <1>4, <1>5 DEF q
<1>7. c.tiles * Tile <= tokens /\ c.tiles * Tile \in Nat
  <2>1. Tile * q = c.tiles * Tile + Tile * (q - c.tiles) /\ c.tiles * Tile \in Nat
    BY <1>5, <1>6
  <2>2. Tile * (q - c.tiles) \in Nat
    <3>1. q - c.tiles \in Nat
      BY <1>5, <1>6
    <3>. QED BY <1>5, <3>1
  <2>. QED BY <1>3, <1>5, <2>1, <2>2
<1>8. T!Split(tokens, [tiles |-> c.tiles]) = c.tiles * Tile
  BY <1>3, <1>6, <1>7 DEF T!Split, T!Least
<1>. QED BY <1>8 DEF tokens, c

-----------------------------------------------------------------------------
(* whole_system.py *)

PerBlock == Cardinality(W!configs)

\* A block has a run at least: with the CPU alone.
LEMMA PerBlockFacts ==
    /\ PerBlock \in Nat \ {0} /\ W!Cardinality(W!configs) = PerBlock
    /\ Len(W!ListOf(W!configs)) = PerBlock
<1> DEFINE n == W!Lesser(Microbatch, Prompt) \div Tile
           shares == {cpu} \cup (1 .. n)
<1>1. n \in Int
  <2>1. W!Lesser(Microbatch, Prompt) \in Int
    BY OptionsAssumption DEF W!Lesser
  <2>. QED BY <2>1, OptionsAssumption, Quotient
<1>2. IsFiniteSet(shares)
  <2>1. IsFiniteSet(1 .. n) /\ IsFiniteSet({cpu})
    <3>1. IsFiniteSet({cpu})
      BY FS_Singleton
    <3>2. ASSUME NEW m \in Int PROVE IsFiniteSet(1 .. m)
      BY <3>2, FS_Interval
    <3>. QED BY <1>1, <3>1, <3>2
  <2>. HIDE DEF n
  <2>. QED BY <2>1, FS_Union
<1>3. W!configs = Threads \X shares
  BY DEF W!configs
<1>4. IsFiniteSet(W!configs)
  BY <1>2, <1>3, OptionsAssumption, FS_Product
<1>5. W!configs # {}
  <2>1. PICK t \in Threads : TRUE
    BY OptionsAssumption
  <2>2. <<t, cpu>> \in Threads \X shares
    BY <2>1
  <2>. QED BY <1>3, <2>2
<1>6. PerBlock \in Nat /\ PerBlock # 0
  BY <1>4, <1>5, FS_CardinalityType, FS_EmptySet DEF PerBlock
<1>7. Len(W!ListOf(W!configs)) = PerBlock
  BY <1>4, OnList, Instances DEF PerBlock
<1>. QED BY <1>6, <1>7, Instances DEF PerBlock

\* The runs of a block come one after the other, ...
LEMMA BlockBounds ==
    ASSUME NEW b \in Int
    PROVE  b * PerBlock \in Int /\ (b - 1) * PerBlock \in Int
           /\ b * PerBlock = (b - 1) * PerBlock + PerBlock
           /\ (b + 1 - 1) * PerBlock = b * PerBlock
           /\ PerBlock \in Nat \ {0}
BY PerBlockFacts

\* ... and their rows name its load.
LEMMA RunsFacts ==
    /\ Len(W!Runs) \in Nat /\ DOMAIN W!Runs = 1 .. Len(W!Runs)
    /\ \A b \in 1 .. W!Blocks : W!Level(b) \in Nat
    /\ W!Blocks \in Nat
    /\ \A b \in 1 .. W!Blocks : \A x \in 1 .. Len(W!Runs) :
          (b - 1) * PerBlock < x /\ x <= b * PerBlock => W!Runs[x].bg = W!Level(b)
<1> DEFINE order == W!ListOf(W!configs)
           n == W!Blocks * PerBlock
<1>1. Len(Levels) \in Nat \ {0} /\ DOMAIN Levels = 1 .. Len(Levels)
      /\ \A i \in 1 .. Len(Levels) : Levels[i] \in Nat
  BY OptionsAssumption
<1>2. W!Blocks \in Nat
  BY <1>1, OptionsAssumption DEF W!Blocks
<1>3. n \in Nat
  BY <1>2, PerBlockFacts
<1>4. W!Runs = [x \in 1 .. n |->
                   [rep |-> (W!BlockOf(x) - 1) \div Len(Levels), bg |-> W!Level(W!BlockOf(x)),
                    config |-> order[((x - 1) % Len(order)) + 1]]]
  BY PerBlockFacts DEF W!Runs
<1>. HIDE DEF order, n
<1>5. DOMAIN W!Runs = 1 .. n /\ Len(W!Runs) = n
  BY <1>3, <1>4
<1>6. ASSUME NEW b \in 1 .. W!Blocks PROVE W!Level(b) \in Nat
  <2>1. b - 1 \in Int /\ (b - 1) % Len(Levels) \in 0 .. Len(Levels) - 1
    BY <1>1, <1>2, Quotient
  <2>. QED BY <1>1, <2>1 DEF W!Level
<1>7. ASSUME NEW b \in 1 .. W!Blocks, NEW x \in 1 .. n,
             (b - 1) * PerBlock < x, x <= b * PerBlock
      PROVE  W!Runs[x].bg = W!Level(b)
  <2>1. b \in Int /\ b - 1 \in Int /\ x - 1 \in Int
    BY <1>2, <1>3
  <2>2. PerBlock * (b - 1) <= x - 1 /\ x - 1 < PerBlock * (b - 1) + PerBlock
    <3> DEFINE first == (b - 1) * PerBlock
               last == b * PerBlock
    <3>1. PerBlock * (b - 1) = first
      BY <2>1, PerBlockFacts
    <3>2. first \in Int /\ last = first + PerBlock /\ PerBlock \in Nat
      BY <2>1, BlockBounds
    <3>3. first < x /\ x <= last /\ x \in Int
      BY <1>3, <1>7
    <3>. HIDE DEF first, last
    <3>. QED BY <3>1, <3>2, <3>3
  <2>3. (x - 1) \div PerBlock = b - 1
    BY <2>1, <2>2, PerBlockFacts, Quotient
  <2>4. W!BlockOf(x) = b
    BY <2>1, <2>3, PerBlockFacts DEF W!BlockOf
  <2>. QED BY <1>4, <2>4
<1>. QED BY <1>2, <1>3, <1>5, <1>6, <1>7

\* What whole_system.py does is one of the moves.
LEMMA WholeMoves == ASSUME W!Steps \/ W!Interrupt PROVE Moves /\ plan' = plan
<1>1. CASE W!Measure
  BY <1>1 DEF W!Measure, W!Start, W!Going, Start, Going, Moves
<1>2. CASE W!Return
  BY <1>2 DEF W!Return, W!GiveRow, W!GiveNone, W!Going, GiveRow, GiveUp, Going, Moves
<1>3. CASE W!Written
  BY <1>3 DEF W!Written, W!Flush, W!Going, Flush, Going, Moves
<1>4. CASE W!Close \/ W!Abort
  BY <1>4 DEF W!Close, W!Abort, W!CloseAs, CloseAs, Ends, Moves
<1>5. CASE W!Enter \/ W!Spawn \/ W!Entered \/ W!Leave \/ W!Kill \/ W!Exited \/ W!Expire
  BY <1>5 DEF W!Enter, W!Spawn, W!Entered, W!Leave, W!Kill, W!Exited, W!Expire,
              W!campaignVars, Idle, Moves
<1>6. CASE W!Raise \/ W!Die
  BY <1>6 DEF W!Raise, W!Die, W!Going, Idle, Moves
<1>7. CASE W!GoDown
  BY <1>7 DEF W!GoDown, GoDown, Moves
<1>. QED BY <1>1, <1>2, <1>3, <1>4, <1>5, <1>6, <1>7 DEF W!Steps, W!Interrupt, W!Timeout, W!Done

\* How far the runs of the block are.
InBlock ==
    /\ plan = W!Runs /\ next <= Len(plan)
    /\ block \in 0 .. W!Blocks
    /\ phase \in {"between", "enter", "body", "exit"}
    /\ phase # "between" => block > 0
    /\ Going =>
          /\ phase \in {"between", "exit"} => next = block * PerBlock /\ run = "none"
          /\ phase = "enter" => next = (block - 1) * PerBlock /\ run = "none"
          /\ phase = "body" =>
                /\ (block - 1) * PerBlock <= next /\ next <= block * PerBlock
                /\ run # "none" => (block - 1) * PerBlock < next

\* The tenants alive while the block is entered and its runs are made, until they have
\* lived out their lives.
Load ==
    /\ elapsed \in Nat
    /\ Going /\ phase = "enter" =>
          /\ elapsed = 0
          /\ \E n \in 0 .. W!Level(block) : procs = {block} \X (1 .. n) /\ tenants = procs
    /\ Going /\ phase = "body" /\ elapsed < Life =>
          tenants = {block} \X (1 .. W!Level(block))

\* Those that __exit__ has not killed are on its list.
Tenants == IF phase = "between" THEN tenants = {} ELSE tenants \subseteq procs

\* What each row was measured under.
Loaded ==
    /\ Len(loads) = Len(buffer) /\ DOMAIN loads = 1 .. Len(loads)
    /\ \A x \in 1 .. Len(loads) :
          loads[x].elapsed < Life => loads[x].tenants = {loads[x].block} \X (1 .. buffer[x].bg)

WholeInv == InBlock /\ Load /\ Tenants /\ Loaded

LEMMA InitWholeInv == ASSUME W!Init PROVE WholeInv
<1>1. /\ plan = W!Runs /\ next = 0 /\ run = "none" /\ buffer = <<>> /\ loads = <<>>
      /\ phase = "between" /\ block = 0 /\ tenants = {} /\ elapsed = 0
  BY DEF W!Init, W!CampaignInit
<1>2. 0 * PerBlock = 0
  BY PerBlockFacts
<1>3. InBlock
  BY <1>1, <1>2, RunsFacts DEF InBlock
<1>. QED BY <1>1, <1>3 DEF WholeInv, Load, Tenants, Loaded


\* So many tenants were spawned.
LEMMA NumberSpawned ==
    ASSUME NEW b, NEW n \in Nat
    PROVE  Cardinality({b} \X (1 .. n)) = n
<1>1. IsFiniteSet({b}) /\ Cardinality({b}) = 1
  BY FS_Singleton
<1>2. IsFiniteSet(1 .. n) /\ Cardinality(1 .. n) = n
  BY FS_Interval
<1>3. Cardinality({b} \X (1 .. n)) = Cardinality({b}) * Cardinality(1 .. n)
  BY <1>1, <1>2, FS_Product
<1>. QED BY <1>1, <1>2, <1>3

\* The load of a block is that of its number.
LEMMA LevelKept == block' = block => W!Level(block)' = W!Level(block)
BY DEF W!Level

\* Now action by action: which runs are left of the block, and what its tenants do.
LEMMA EnterWhole == ASSUME Rows, WholeInv, W!Enter PROVE WholeInv'
<1>1. /\ Going /\ phase = "between" /\ block \in 0 .. W!Blocks /\ block < W!Blocks
      /\ phase' = "enter" /\ block' = block + 1 /\ procs' = {} /\ elapsed' = 0
      /\ UNCHANGED <<plan, next, run, failed, buffer, file, outcome, tenants, loads>>
  BY DEF WholeInv, InBlock, W!Enter, W!Going, Going, W!campaignVars
<1>2. W!Blocks \in Nat
  BY RunsFacts
<1>3. block' \in 1 .. W!Blocks
  BY <1>1, <1>2
<1>4. next' = (block' - 1) * PerBlock /\ run' = "none"
  <2>1. block' - 1 = block
    BY <1>1, <1>2
  <2>. QED BY <1>1, <2>1 DEF WholeInv, InBlock
<1>5. InBlock'
  BY <1>1, <1>2, <1>3, <1>4 DEF WholeInv, InBlock, Going
<1>6. tenants = {}
  BY <1>1 DEF WholeInv, Tenants
<1>7. Load'
  <2>1. W!Level(block') \in Nat
    BY <1>3, RunsFacts
  <2>2. 0 \in 0 .. W!Level(block') /\ procs' = {block'} \X (1 .. 0)
    BY <1>1, <2>1
  <2>. QED BY <1>1, <1>6, <2>2 DEF Load
<1>8. Tenants' /\ Loaded'
  BY <1>1, <1>6 DEF WholeInv, Tenants, Loaded
<1>. QED BY <1>5, <1>7, <1>8 DEF WholeInv

LEMMA SpawnWhole == ASSUME Rows, WholeInv, W!Spawn PROVE WholeInv'
<1>1. /\ Going /\ phase = "enter" /\ Cardinality(procs) < W!Level(block)
      /\ procs' = procs \cup {<<block, Cardinality(procs) + 1>>}
      /\ tenants' = tenants \cup {<<block, Cardinality(procs) + 1>>}
      /\ UNCHANGED <<plan, next, run, failed, buffer, file, outcome, phase, block, elapsed, loads>>
  BY Instances DEF W!Spawn, W!Going, Going, W!campaignVars
<1>2. InBlock'
  BY <1>1 DEF WholeInv, InBlock, Going
<1>3. block \in 1 .. W!Blocks /\ W!Level(block) \in Nat
  <2>1. W!Blocks \in Nat /\ block \in 0 .. W!Blocks /\ block > 0
    BY <1>1, RunsFacts DEF WholeInv, InBlock
  <2>. QED BY <2>1, RunsFacts
<1>4. PICK n \in 0 .. W!Level(block) : procs = {block} \X (1 .. n) /\ tenants = procs
  BY <1>1 DEF WholeInv, Load
<1>5. n \in Nat
  BY <1>3
<1>6. Cardinality(procs) = n
  BY <1>4, <1>5, NumberSpawned
<1>7. procs' = {block} \X (1 .. n + 1) /\ tenants' = procs'
  <2>1. 1 .. n + 1 = (1 .. n) \cup {n + 1}
    BY <1>5
  <2>2. procs' = ({block} \X (1 .. n)) \cup {<<block, n + 1>>}
    BY <1>1, <1>4, <1>6
  <2>3. procs' = {block} \X ((1 .. n) \cup {n + 1})
    <3>1. {block} \X ((1 .. n) \cup {n + 1}) = ({block} \X (1 .. n)) \cup {<<block, n + 1>>}
      OBVIOUS
    <3>. QED BY <2>2, <3>1
  <2>4. tenants' = procs'
    BY <1>1, <1>4
  <2>. QED BY <2>1, <2>3, <2>4
<1>8. n + 1 \in 0 .. W!Level(block')
  BY <1>1, <1>3, <1>5, <1>6, LevelKept
<1>9. Load'
  BY <1>1, <1>7, <1>8 DEF WholeInv, Load, Going
<1>10. Tenants' /\ Loaded'
  BY <1>1 DEF WholeInv, Tenants, Loaded
<1>. QED BY <1>2, <1>9, <1>10 DEF WholeInv

\* All are spawned: the body is entered under its load.
LEMMA EnteredWhole == ASSUME Rows, WholeInv, W!Entered PROVE WholeInv'
<1>1. /\ Going /\ phase = "enter" /\ Cardinality(procs) = W!Level(block)
      /\ phase' = "body"
      /\ UNCHANGED <<plan, next, run, failed, buffer, file, outcome, block, procs, tenants,
                     elapsed, loads>>
  BY Instances DEF W!Entered, W!Going, Going, W!campaignVars
<1>2. W!Blocks \in Nat /\ block \in 1 .. W!Blocks
  BY <1>1, RunsFacts DEF WholeInv, InBlock
<1>3. /\ (block - 1) * PerBlock <= next /\ next <= block * PerBlock /\ run = "none"
  <2>1. next = (block - 1) * PerBlock /\ run = "none"
    BY <1>1 DEF WholeInv, InBlock
  <2> DEFINE first == (block - 1) * PerBlock
             last == block * PerBlock
  <2>2. first \in Int /\ last = first + PerBlock /\ PerBlock \in Nat
    BY <1>2, BlockBounds
  <2>3. next = first
    BY <2>1
  <2>. HIDE DEF first, last
  <2>4. first <= next /\ next <= last
    BY <2>2, <2>3
  <2>. QED BY <2>1, <2>4 DEF first, last
<1>4. InBlock'
  BY <1>1, <1>2, <1>3 DEF WholeInv, InBlock, Going
<1>5. PICK n \in 0 .. W!Level(block) : procs = {block} \X (1 .. n) /\ tenants = procs
  BY <1>1 DEF WholeInv, Load
<1>6. n = W!Level(block)
  <2>1. n \in Nat
    BY <1>2, RunsFacts
  <2>. QED BY <1>1, <1>5, <2>1, NumberSpawned
<1>7. Load'
  BY <1>1, <1>5, <1>6, LevelKept DEF WholeInv, Load, Going
<1>8. Tenants' /\ Loaded'
  BY <1>1 DEF WholeInv, Tenants, Loaded
<1>. QED BY <1>4, <1>7, <1>8 DEF WholeInv

LEMMA MeasureWhole == ASSUME Rows, WholeInv, W!Measure PROVE WholeInv'
<1>1. /\ Going /\ phase = "body" /\ next # block * PerBlock /\ run = "none" /\ next < Len(plan)
      /\ next' = next + 1 /\ run' \in {"busy", "hung"}
      /\ UNCHANGED <<plan, failed, buffer, file, outcome, phase, block, procs, tenants,
                     elapsed, loads>>
  BY PerBlockFacts DEF W!Measure, W!Start, W!Going, Going, W!BlockDone, W!loadVars
<1>2. block \in Int /\ next \in Nat /\ Len(plan) \in Nat
  BY RunsFacts DEF WholeInv, InBlock, Rows, Types
<1>3. (block - 1) * PerBlock < next' /\ next' <= block * PerBlock /\ next' <= Len(plan)
  <2> DEFINE first == (block - 1) * PerBlock
             last == block * PerBlock
  <2>1. first \in Int /\ last \in Int
    BY <1>2, BlockBounds
  <2>2. first <= next /\ next <= last /\ next # last
    BY <1>1 DEF WholeInv, InBlock
  <2>. HIDE DEF first, last
  <2>3. first < next' /\ next' <= last
    BY <1>1, <1>2, <2>1, <2>2
  <2>4. next' <= Len(plan)
    BY <1>1, <1>2
  <2>. QED BY <2>3, <2>4 DEF first, last
<1>4. (block - 1) * PerBlock <= next'
  <2> DEFINE first == (block - 1) * PerBlock
  <2>1. first \in Int /\ first < next' /\ next' \in Int
    BY <1>1, <1>2, <1>3, BlockBounds
  <2>. HIDE DEF first
  <2>2. first <= next'
    BY <2>1
  <2>. QED BY <2>2 DEF first
<1>5. InBlock'
  BY <1>1, <1>3, <1>4 DEF WholeInv, InBlock, Going
<1>6. Load'
  BY <1>1, LevelKept DEF WholeInv, Load, Going
<1>7. Tenants' /\ Loaded'
  BY <1>1 DEF WholeInv, Tenants, Loaded
<1>. QED BY <1>5, <1>6, <1>7 DEF WholeInv

\* The runs take time, and the tenants die of age only.
LEMMA ReturnWhole == ASSUME Rows, WholeInv, W!Return PROVE WholeInv'
<1>1. PICK d \in Durations :
         /\ Going /\ phase = "body" /\ run = "busy" /\ run' \in {"none", "row"}
         /\ elapsed' = elapsed + d /\ tenants' = W!AliveAfter(elapsed + d)
         /\ UNCHANGED <<plan, next, file, outcome, phase, block, procs>>
         /\ \/ /\ buffer' = Append(buffer, plan[next])
               /\ loads' = Append(loads, [block |-> block, elapsed |-> elapsed + d,
                                          tenants |-> W!AliveAfter(elapsed + d)])
            \/ UNCHANGED <<buffer, loads>>
  BY DEF W!Return, W!GiveRow, W!GiveNone, W!Going, Going
<1>2. d \in Nat /\ elapsed \in Nat /\ elapsed' \in Nat /\ (elapsed' < Life => elapsed < Life)
  BY <1>1, OptionsAssumption DEF WholeInv, Load
<1>3. InBlock'
  BY <1>1 DEF WholeInv, InBlock, Going
<1>4. elapsed' < Life => tenants' = {block} \X (1 .. W!Level(block))
  BY <1>1, <1>2 DEF WholeInv, Load, W!AliveAfter
<1>5. Load'
  BY <1>1, <1>2, <1>4, LevelKept DEF Load, Going
<1>6. Tenants'
  BY <1>1 DEF WholeInv, Tenants, W!AliveAfter
<1>7. Loaded'
  <2>1. CASE UNCHANGED <<buffer, loads>>
    BY <2>1 DEF WholeInv, Loaded
  <2>2. CASE /\ buffer' = Append(buffer, plan[next])
             /\ loads' = Append(loads, [block |-> block, elapsed |-> elapsed + d,
                                        tenants |-> W!AliveAfter(elapsed + d)])
    <3> DEFINE n == Len(buffer)
               load == [block |-> block, elapsed |-> elapsed + d,
                        tenants |-> W!AliveAfter(elapsed + d)]
    <3>1. /\ n \in Nat /\ DOMAIN buffer = 1 .. n /\ Len(loads) = n /\ DOMAIN loads = 1 .. n
      BY DEF WholeInv, Loaded, Rows, Types
    <3>2. /\ Len(buffer') = n + 1 /\ buffer'[n + 1] = plan[next]
          /\ \A x \in 1 .. n : buffer'[x] = buffer[x]
      BY <2>2, <3>1, RowAppended
    <3>3. /\ Len(loads') = n + 1 /\ DOMAIN loads' = 1 .. n + 1 /\ loads'[n + 1] = load
          /\ \A x \in 1 .. n : loads'[x] = loads[x]
      <4>. HIDE DEF load
      <4>. QED BY <2>2, <3>1, RowAppended DEF load
    <3>4. plan[next].bg = W!Level(block)
      <4>1. (block - 1) * PerBlock < next /\ next <= block * PerBlock /\ plan = W!Runs
        BY <1>1 DEF WholeInv, InBlock
      <4>2. next \in 1 .. Len(plan) /\ block \in 1 .. W!Blocks
        BY <1>1, RunsFacts DEF WholeInv, InBlock, Rows, Types
      <4>. QED BY <4>1, <4>2, RunsFacts
    <3>5. load.elapsed < Life => load.tenants = {load.block} \X (1 .. plan[next].bg)
      BY <1>1, <1>4, <3>4
    <3>. HIDE DEF n, load
    <3>6. ASSUME NEW x \in 1 .. n + 1, loads'[x].elapsed < Life
          PROVE  loads'[x].tenants = {loads'[x].block} \X (1 .. buffer'[x].bg)
      <4>1. CASE x = n + 1
        BY <3>2, <3>3, <3>5, <3>6, <4>1
      <4>2. CASE x \in 1 .. n
        BY <3>1, <3>2, <3>3, <3>6, <4>2 DEF WholeInv, Loaded
      <4>. QED BY <3>1, <4>1, <4>2
    <3>. QED BY <3>2, <3>3, <3>6 DEF Loaded
  <2>. QED BY <1>1, <2>1, <2>2
<1>. QED BY <1>3, <1>5, <1>6, <1>7 DEF WholeInv

\* Flush, and the end of the body.
LEMMA BodyWhole ==
    ASSUME Rows, WholeInv, W!Written \/ W!Leave
    PROVE  WholeInv'
<1>1. /\ Going /\ phase = "body"
      /\ UNCHANGED <<plan, next, buffer, outcome, block, procs, tenants, elapsed, loads>>
      /\ \/ phase' = phase /\ run' = "none"
         \/ phase' = "exit" /\ run' = "none" /\ next = block * PerBlock
  BY PerBlockFacts
     DEF W!Written, W!Flush, W!Leave, W!BlockDone, W!Going, Going, W!loadVars, W!campaignVars
<1>2. InBlock'
  BY <1>1 DEF WholeInv, InBlock, Going
<1>3. Load'
  BY <1>1, LevelKept DEF WholeInv, Load, Going
<1>4. Tenants' /\ Loaded'
  BY <1>1 DEF WholeInv, Tenants, Loaded
<1>. QED BY <1>2, <1>3, <1>4 DEF WholeInv

\* __exit__, after an exception or without.
LEMMA ExitWhole ==
    ASSUME Rows, WholeInv, W!Kill \/ W!Exited
    PROVE  WholeInv'
<1>1. /\ phase = "exit"
      /\ UNCHANGED <<plan, next, run, buffer, outcome, block, elapsed, loads>>
      /\ \/ phase' = phase /\ \E p \in procs : procs' = procs \ {p} /\ tenants' = tenants \ {p}
         \/ phase' = "between" /\ procs = {} /\ tenants' = tenants
  BY DEF W!Kill, W!Exited, W!campaignVars
<1>2. InBlock'
  BY <1>1 DEF WholeInv, InBlock, Going
<1>3. Load'
  BY <1>1 DEF WholeInv, Load
<1>4. Tenants'
  BY <1>1 DEF WholeInv, Tenants
<1>5. Loaded'
  BY <1>1 DEF WholeInv, Loaded
<1>. QED BY <1>2, <1>3, <1>4, <1>5 DEF WholeInv

\* The end of the program, however it ends, and the exception that leads there.
LEMMA EndWhole ==
    ASSUME Rows, WholeInv,
           \/ W!Raise \/ W!Expire
           \/ (W!Close \/ W!Abort \/ W!Die) /\ UNCHANGED W!loadVars
           \/ W!GoDown /\ tenants' = {} /\ UNCHANGED <<phase, block, procs, elapsed, loads>>
    PROVE  WholeInv'
<1>1. /\ ~Going'
      /\ UNCHANGED <<plan, next, buffer, block, elapsed, loads>>
      /\ \/ phase' = phase /\ procs' = procs /\ tenants' \in {tenants, {}}
         \/ phase = "body" /\ phase' = "exit" /\ procs' = procs /\ tenants' = tenants
  BY DEF W!Raise, W!Close, W!Abort, W!CloseAs, W!Die, W!GoDown, W!Expire, W!Ended, Going, W!loadVars,
         W!campaignVars
<1>2. InBlock'
  BY <1>1 DEF WholeInv, InBlock
<1>3. Load'
  BY <1>1 DEF WholeInv, Load
<1>4. Tenants'
  BY <1>1 DEF WholeInv, Tenants
<1>5. Loaded'
  BY <1>1 DEF WholeInv, Loaded
<1>. QED BY <1>2, <1>3, <1>4, <1>5 DEF WholeInv

LEMMA WholeStep == ASSUME Rows, WholeInv, W!Steps \/ W!Interrupt PROVE WholeInv'
<1>1. CASE W!Enter \/ W!Spawn \/ W!Entered \/ W!Measure \/ W!Return
  BY <1>1, EnterWhole, SpawnWhole, EnteredWhole, MeasureWhole, ReturnWhole
<1>2. CASE W!Written \/ W!Leave \/ W!Kill \/ W!Exited
  BY <1>2, BodyWhole, ExitWhole
<1>3. CASE W!Timeout \/ W!Done \/ W!Expire \/ W!Interrupt
  <2>1. \/ W!Raise \/ W!Expire
        \/ (W!Close \/ W!Abort \/ W!Die) /\ UNCHANGED W!loadVars
        \/ W!GoDown /\ tenants' = {} /\ UNCHANGED <<phase, block, procs, elapsed, loads>>
    BY <1>3 DEF W!Timeout, W!Done, W!Interrupt
  <2>. QED BY <2>1, EndWhole
<1>. QED BY <1>1, <1>2, <1>3 DEF W!Steps

-----------------------------------------------------------------------------
(* The program that is run *)

Inv ==
    /\ Rows
    /\ program \in {"sweep", "whole_system"}
    /\ program = "sweep" => SweepInv
    /\ program = "whole_system" => WholeInv

\* Whatever a run does, and whoever interrupts the program: the rows are those of the runs
\* that gave one, in the order and under the load of the plan.
THEOREM Invariance == Spec => []Inv
<1>1. ASSUME Init PROVE Inv
  <2>1. CampaignInit /\ program \in {"sweep", "whole_system"}
    BY <1>1 DEF Init, S!Init, W!Init, S!CampaignInit, W!CampaignInit, CampaignInit
  <2>2. program = "sweep" => S!Init
    BY <1>1 DEF Init
  <2>3. program = "whole_system" => W!Init
    BY <1>1 DEF Init
  <2>. QED BY <2>1, <2>2, <2>3, InitRows, InitSweepInv, InitWholeInv DEF Inv
<1>2. ASSUME Inv, [Next]_vars PROVE Inv'
  <2>1. CASE Next /\ program = "sweep"
    <3>1. S!Next /\ program' = program
      BY <2>1 DEF Next, Steps, Interrupt, S!Next
    <3>2. Moves
      BY <3>1, SweepMoves
    <3>. QED BY <1>2, <2>1, <3>1, <3>2, MovesRows, SweepStep DEF Inv
  <2>2. CASE Next /\ program = "whole_system"
    <3>1. (W!Steps \/ W!Interrupt) /\ program' = program
      BY <2>2 DEF Next, Steps, Interrupt
    <3>2. Moves
      BY <3>1, WholeMoves
    <3>. QED BY <1>2, <2>2, <3>1, <3>2, MovesRows, WholeStep DEF Inv
  <2>3. CASE UNCHANGED vars
    <3>1. UNCHANGED <<plan, next, run, failed, buffer, file, outcome, phase, block, procs,
                      tenants, elapsed, loads, program>>
      BY <2>3 DEF vars, campaignVars, loadVars
    <3>2. Rows' /\ (SweepInv => SweepInv')
      BY <1>2, <3>1, MovesRows, SweepStep DEF Inv, Idle, Moves
    <3>3. WholeInv => WholeInv'
      BY <3>1 DEF WholeInv, InBlock, Load, Tenants, Loaded, Going
    <3>. QED BY <1>2, <3>1, <3>2, <3>3 DEF Inv
  <2>. QED BY <1>2, <2>1, <2>2, <2>3 DEF Inv
<1>. QED BY <1>1, <1>2, PTL DEF Spec

\* The raw data outlives any conclusion: the file has a row for every run that gave one,
\* but for the run that has just ended, when the program is killed in the middle, too; and
\* for those of the first so many runs when the machine goes down.
THEOREM Survive == Spec => []RowsSurvive
<1>1. Inv => RowsSurvive
  BY RowsAreSurviving DEF Inv
<1>. QED BY <1>1, Invariance, PTL

\* Whatever part of the file was written, a share and its CPU-only reference are compared
\* over the same rounds, but for the one that was going on and those in which one failed.
THEOREM SameRoundsCompared == Spec => []ComparedOverSameRounds
<1>1. Inv => ComparedOverSameRounds
  BY SameRounds DEF Inv, ComparedOverSameRounds
<1>. QED BY <1>1, Invariance, PTL

\* The number of tiles in a row of the sweep is what the NPU computes of a microbatch.
THEOREM LabelsMean == Spec => []LabelsAreShares
<1>1. ASSUME Inv PROVE LabelsAreShares
  BY <1>1, SharesFit DEF Inv, LabelsAreShares
<1>. QED BY <1>1, Invariance, PTL

\* A row of whole_system.py is of a run that all the tenants it names, and no others, were
\* alive in.
THEOREM UnderLoad == Spec => []RowsUnderLoad
<1>1. ASSUME Inv PROVE RowsUnderLoad
  BY <1>1 DEF Inv, WholeInv, Loaded, RowsUnderLoad, W!RowsUnderLoad
<1>. QED BY <1>1, Invariance, PTL

\* Between two blocks no tenant is alive, and so at the end of the program, unless it was
\* killed or interrupted while it started or killed them.
THEOREM KilledBetween == Spec => []TenantsKilled
<1>1. ASSUME Inv PROVE TenantsKilled
  BY <1>1 DEF Inv, WholeInv, Tenants, TenantsKilled, W!TenantsKilled
<1>. QED BY <1>1, Invariance, PTL

=============================================================================
