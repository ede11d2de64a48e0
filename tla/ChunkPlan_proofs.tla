-------------------------- MODULE ChunkPlan_proofs --------------------------
(***************************************************************************)
(* Theorems about ChunkPlan, for every chunk size, width of the integers,  *)
(* file size and preference.                                               *)
(***************************************************************************)
EXTENDS ChunkPlan, TLAPS, WellFoundedInduction

(* Division, in the form the proofs need. *)
LEMMA Division ==
  ASSUME NEW a \in Nat, NEW c \in Nat \ {0}
  PROVE  /\ a \div c \in Nat
         /\ (a \div c) * c <= a
         /\ a < (a \div c) * c + c
OBVIOUS

----------------------------------------------------------------------------
(* The order of the chunks' names.                                         *)

(* Induction over the numbers is stated with sets, not with predicates.    *)
LEMMA LeastOf ==
  ASSUME NEW T \in SUBSET Nat, T # {}
  PROVE  \E x \in T : \A y \in T : x <= y
<1> DEFINE R == {ss \in Nat \X Nat : ss[1] < ss[2]}
<1>1. IsWellFoundedOn(R, Nat)
  BY NatLessThanWellFounded DEF OpToRel
<1>2. PICK x \in T : \A y \in T : ~ (<<y, x>> \in R)
  <2> HIDE DEF R
  <2>2. QED
    BY <1>1, WFMin
<1>3. ASSUME NEW y \in T
      PROVE  x <= y
  <2>1. ~ (<<y, x>> \in {ss \in Nat \X Nat : ss[1] < ss[2]})
    BY <1>2
  <2>2. QED
    BY <2>1
<1>4. QED
  BY <1>3

(* A set with 0, and with n + 1 whenever it has n, has every number. *)
LEMMA InductionOnSets ==
  ASSUME NEW T \in SUBSET Nat, 0 \in T, \A n \in T : n + 1 \in T
  PROVE  T = Nat
<1>1. ASSUME Nat \ T # {} PROVE FALSE
  <2>1. PICK x \in Nat \ T : \A y \in Nat \ T : x <= y
    BY <1>1, LeastOf
  <2>2. x - 1 \in T
    BY <2>1
  <2>3. QED
    BY <2>1, <2>2
<1>2. QED
  BY <1>1

(* The powers of ten up to the n-th. *)
Powers(n) ==
  {g \in [0 .. n -> Nat] : g[0] = 1 /\ \A k \in 1 .. n : g[k] = 10 * g[k - 1]}

(* The recursion can be followed as far as one likes, and in one way. *)
LEMMA PowersExist ==
  ASSUME NEW n \in Nat
  PROVE  Powers(n) # {}
<1> DEFINE T == {m \in Nat : Powers(m) # {}}
<1>1. 0 \in T
  <2>1. [k \in 0 .. 0 |-> 1] \in Powers(0)
    BY DEF Powers
  <2>2. QED
    BY <2>1
<1>2. ASSUME NEW m \in T
      PROVE  m + 1 \in T
  <2>1. PICK g \in Powers(m) : TRUE
    OBVIOUS
  <2> DEFINE h == [k \in 0 .. m + 1 |-> IF k <= m THEN g[k] ELSE 10 * g[m]]
  <2>2. h \in [0 .. m + 1 -> Nat]
    BY <2>1 DEF Powers
  <2>3. h[0] = 1
    BY <2>1 DEF Powers
  <2>4. ASSUME NEW k \in 1 .. m + 1
        PROVE  h[k] = 10 * h[k - 1]
    <3>1. h[k - 1] = g[k - 1]
      BY <2>4
    <3>2. CASE k <= m
      <4>1. h[k] = g[k] /\ k \in 1 .. m
        BY <3>2
      <4>2. QED
        BY <2>1, <3>1, <4>1 DEF Powers
    <3>3. CASE k = m + 1
      BY <3>1, <3>3
    <3>4. QED
      BY <3>2, <3>3
  <2>5. h \in Powers(m + 1)
    <3> HIDE DEF h
    <3>1. QED
      BY <2>2, <2>3, <2>4 DEF Powers
  <2>6. QED
    BY <2>5
<1>3. T = Nat
  <2> HIDE DEF T
  <2>1. T \in SUBSET Nat
    BY DEF T
  <2>2. QED
    BY <1>1, <1>2, <2>1, InductionOnSets
<1>4. QED
  BY <1>3

LEMMA PowersAgree ==
  ASSUME NEW n \in Nat, NEW m \in Nat, NEW g \in Powers(n), NEW h \in Powers(m)
  PROVE  \A k \in Nat : k <= n /\ k <= m => g[k] = h[k]
<1> DEFINE T == {k \in Nat : k <= n /\ k <= m => g[k] = h[k]}
<1>1. 0 \in T
  BY DEF Powers
<1>2. ASSUME NEW k \in T
      PROVE  k + 1 \in T
  <2> SUFFICES ASSUME k + 1 <= n, k + 1 <= m
               PROVE  g[k + 1] = h[k + 1]
    OBVIOUS
  <2>1. g[k] = h[k]
    OBVIOUS
  <2>2. k + 1 \in 1 .. n /\ k + 1 \in 1 .. m /\ (k + 1) - 1 = k
    OBVIOUS
  <2>3. g[k + 1] = 10 * g[k] /\ h[k + 1] = 10 * h[k]
    BY <2>2 DEF Powers
  <2>4. QED
    BY <2>1, <2>3
<1>3. T = Nat
  <2> HIDE DEF T
  <2>1. T \in SUBSET Nat
    BY DEF T
  <2>2. QED
    BY <1>1, <1>2, <2>1, InductionOnSets
<1>4. QED
  BY <1>3

(* Power10 is what its definition says: such a function exists. *)
LEMMA Power10IsRecursive ==
  Power10 = [n \in Nat |-> IF n = 0 THEN 1 ELSE 10 * Power10[n - 1]]
<1> DEFINE P(n) == CHOOSE g \in Powers(n) : TRUE
           F == [n \in Nat |-> P(n)[n]]
<1>1. ASSUME NEW n \in Nat
      PROVE  P(n) \in Powers(n)
  BY PowersExist
<1>2. F[0] = 1
  BY <1>1 DEF Powers
<1>3. ASSUME NEW n \in Nat, n # 0
      PROVE  F[n] = 10 * F[n - 1]
  <2> HIDE DEF P
  <2>1. n - 1 \in Nat /\ n - 1 <= n
    BY <1>3
  <2>2. P(n) \in Powers(n) /\ P(n - 1) \in Powers(n - 1)
    BY <1>1, <2>1
  <2>3. P(n)[n - 1] = P(n - 1)[n - 1]
    BY <2>1, <2>2, PowersAgree
  <2>4. n \in 1 .. n
    BY <1>3
  <2>5. P(n)[n] = 10 * P(n)[n - 1]
    BY <2>2, <2>4 DEF Powers
  <2>6. QED
    BY <2>1, <2>3, <2>5
<1>4. F = [n \in Nat |-> IF n = 0 THEN 1 ELSE 10 * F[n - 1]]
  <2>1. F = [n \in Nat |-> F[n]]
    OBVIOUS
  <2> HIDE DEF F
  <2>2. QED
    BY <1>2, <1>3, <2>1
<1> HIDE DEF F
<1>5. \E f : f = [n \in Nat |-> IF n = 0 THEN 1 ELSE 10 * f[n - 1]]
  BY <1>4
<1>6. QED
  BY <1>5 DEF Power10

LEMMA PowerStep ==
  /\ Power10 \in [Nat -> Nat \ {0}]
  /\ Power10[0] = 1
  /\ \A n \in Nat : Power10[n + 1] = 10 * Power10[n]
<1>1. Power10[0] = 1 /\ \A n \in Nat : Power10[n + 1] = 10 * Power10[n]
  <2> DEFINE E == [n \in Nat |-> IF n = 0 THEN 1 ELSE 10 * Power10[n - 1]]
  <2>1. Power10 = E
    BY Power10IsRecursive
  <2>2. E[0] = 1 /\ \A n \in Nat : E[n + 1] = 10 * Power10[n]
    OBVIOUS
  <2> HIDE DEF E
  <2>3. QED
    BY <2>1, <2>2
<1>2. Power10 \in [Nat -> Nat \ {0}]
  <2> DEFINE T == {n \in Nat : Power10[n] \in Nat \ {0}}
  <2>1. 0 \in T
    BY <1>1
  <2>2. ASSUME NEW n \in T PROVE n + 1 \in T
    <3>1. Power10[n + 1] = 10 * Power10[n] /\ Power10[n] \in Nat \ {0}
      BY <1>1
    <3>2. QED
      BY <3>1
  <2>3. T = Nat
    <3> HIDE DEF T
    <3>1. T \in SUBSET Nat
      BY DEF T
    <3>2. QED
      BY <2>1, <2>2, <3>1, InductionOnSets
  <2>4. \A n \in Nat : Power10[n] \in Nat \ {0}
    BY <2>3
  <2>5. Power10 = [n \in Nat |-> Power10[n]]
    BY Power10IsRecursive, Zenon
  <2>6. QED
    BY <2>4, <2>5
<1>3. QED
  BY <1>1, <1>2

(* Powers of ten grow, and n digits count beyond n. *)
LEMMA PowersGrow ==
  ASSUME NEW m \in Nat, NEW n \in Nat, m <= n
  PROVE  Power10[m] <= Power10[n]
<1> DEFINE T == {d \in Nat : Power10[m] <= Power10[m + d]}
<1>1. 0 \in T
  BY PowerStep
<1>2. ASSUME NEW d \in T
      PROVE  d + 1 \in T
  <2>1. /\ Power10[m + (d + 1)] = 10 * Power10[m + d]
        /\ Power10[m + d] \in Nat /\ Power10[m] \in Nat
        /\ Power10[m] <= Power10[m + d]
    <3>1. m + d \in Nat /\ m + (d + 1) = (m + d) + 1
      OBVIOUS
    <3>2. QED
      BY <3>1, PowerStep
  <2>2. QED
    BY <2>1
<1>3. T = Nat
  <2> HIDE DEF T
  <2>1. T \in SUBSET Nat
    BY DEF T
  <2>2. QED
    BY <1>1, <1>2, <2>1, InductionOnSets
<1>4. n - m \in Nat /\ m + (n - m) = n
  OBVIOUS
<1>5. Power10[m] <= Power10[m + (n - m)]
  BY <1>3, <1>4
<1>6. QED
  BY <1>4, <1>5

LEMMA PowersExceed ==
  ASSUME NEW n \in Nat
  PROVE  n < Power10[n]
<1> DEFINE T == {m \in Nat : m < Power10[m]}
<1>1. 0 \in T
  BY PowerStep
<1>2. ASSUME NEW m \in T
      PROVE  m + 1 \in T
  BY PowerStep
<1>3. T = Nat
  <2> HIDE DEF T
  <2>1. T \in SUBSET Nat
    BY DEF T
  <2>2. QED
    BY <1>1, <1>2, <2>1, InductionOnSets
<1>4. QED
  BY <1>3

(* Dividing by ten times c is dividing by c, then by ten. *)
LEMMA QuotientIs ==
  ASSUME NEW a \in Nat, NEW c \in Nat \ {0}, NEW q \in Nat,
         q * c <= a, a < q * c + c
  PROVE  a \div c = q
OBVIOUS

LEMMA DivisionGrows ==
  ASSUME NEW a \in Nat, NEW b \in Nat, NEW c \in Nat \ {0}, a <= b
  PROVE  a \div c <= b \div c
OBVIOUS

LEMMA NestedDivision ==
  ASSUME NEW a \in Nat, NEW c \in Nat \ {0}
  PROVE  a \div (10 * c) = (a \div c) \div 10
OBVIOUS

(* A number below a power of ten has no more digits than its exponent. *)
LEMMA LengthBound ==
  ASSUME NEW i \in Nat, NEW w \in Nat \ {0}, i < Power10[w]
  PROVE  Length10(i) \in 1 .. w
<1> DEFINE T == {n \in 1 .. i + 1 : i < Power10[n]}
           Fits(n) == i < Power10[n] /\ (n = 1 \/ i >= Power10[n - 1])
<1>1. i + 1 \in T
  <2>1. i + 1 < Power10[i + 1]
    BY PowersExceed
  <2>2. Power10[i + 1] \in Nat
    BY PowerStep
  <2>3. QED
    BY <2>1, <2>2
<1>2. PICK n \in T : \A m \in T : n <= m
  <2>1. T \in SUBSET Nat /\ T # {}
    BY <1>1
  <2> HIDE DEF T
  <2>2. QED
    BY <2>1, LeastOf
<1>3. Fits(n)
  <2>1. CASE n # 1
    <3>1. n - 1 \in 1 .. i + 1 /\ ~(n - 1 \in T)
      BY <1>2, <2>1
    <3>2. Power10[n - 1] \in Nat
      BY <3>1, PowerStep
    <3>3. QED
      BY <1>2, <3>1, <3>2
  <2>2. QED
    BY <1>2, <2>1
<1>4. Length10(i) \in 1 .. i + 1 /\ Fits(Length10(i))
  <2>1. \E k \in 1 .. i + 1 : Fits(k)
    BY <1>3
  <2>2. Length10(i) = CHOOSE k \in 1 .. i + 1 : Fits(k)
    BY DEF Length10
  <2> HIDE DEF Fits
  <2>3. QED
    BY <2>1, <2>2
<1>5. Length10(i) <= w
  <2> SUFFICES ASSUME Length10(i) > w
               PROVE  FALSE
    BY <1>4
  <2>1. /\ Length10(i) - 1 \in Nat /\ w <= Length10(i) - 1
        /\ i >= Power10[Length10(i) - 1]
    BY <1>4
  <2>2. Power10[w] <= Power10[Length10(i) - 1]
    BY <2>1, PowersGrow
  <2>3. Power10[w] \in Nat /\ Power10[Length10(i) - 1] \in Nat
    BY <2>1, PowerStep
  <2>4. QED
    BY <2>1, <2>2, <2>3
<1>6. QED
  BY <1>4, <1>5

(* Names of numbers that fit have the same length. *)
LEMMA PaddedName ==
  ASSUME NEW i \in Nat, i < Power10[PadWidth]
  PROVE  ChunkName(i) = [k \in 1 .. PadWidth |-> Digit(i, PadWidth, k)]
<1>1. Length10(i) \in 1 .. PadWidth
  BY LengthBound, SizesAssumption
<1>2. ~(Length10(i) > PadWidth)
  BY <1>1, SizesAssumption
<1>3. QED
  BY <1>2 DEF ChunkName

(* Padded names sort as the chunks do, whichever two are compared: at the  *)
(* first digit in which the names differ the later chunk's is the larger.  *)
THEOREM NamesSort ==
  ASSUME NEW i \in Nat, NEW j \in Nat, i < j, j < Power10[PadWidth]
  PROVE  Before(ChunkName(i), ChunkName(j))
<1> DEFINE W == PadWidth
           T == {t \in 0 .. W : i \div Power10[W - t] # j \div Power10[W - t]}
<1>1. W \in Nat \ {0} /\ Power10[W] \in Nat \ {0} /\ i < Power10[W]
  <2>1. W \in Nat \ {0}
    BY SizesAssumption
  <2>2. Power10[W] \in Nat \ {0}
    BY <2>1, PowerStep
  <2>3. QED
    BY <2>1, <2>2
<1> HIDE DEF W
<1>2. W \in T
  <2>1. W \in 0 .. W /\ Power10[W - W] = 1
    BY <1>1, PowerStep
  <2>2. i \div 1 = i /\ j \div 1 = j
    OBVIOUS
  <2>3. QED
    BY <2>1, <2>2
<1>3. PICK t \in T : \A s \in T : t <= s
  <2>1. T \in SUBSET Nat /\ T # {}
    BY <1>1, <1>2
  <2> HIDE DEF T
  <2>2. QED
    BY <2>1, LeastOf
<1>4. ASSUME NEW s \in 0 .. W, s < t
      PROVE  i \div Power10[W - s] = j \div Power10[W - s]
  <2>1. t \in Nat /\ s \notin T
    BY <1>1, <1>3, <1>4
  <2>2. QED
    BY <2>1
<1>5. t # 0
  <2>1. i \div Power10[W] = 0 /\ j \div Power10[W] = 0
    BY <1>1, QuotientIs DEF W
  <2>2. W - 0 = W
    BY <1>1
  <2>3. QED
    BY <1>3, <2>1, <2>2
<1> DEFINE p == Power10[W - t]
           a == i \div p
           b == j \div p
<1>6. W - t \in Nat /\ t \in 1 .. W /\ p \in Nat \ {0}
  <2>1. W - t \in Nat /\ t \in 1 .. W
    BY <1>1, <1>3, <1>5
  <2>2. QED
    BY <2>1, PowerStep
<1>7. a \in Nat /\ b \in Nat /\ a # b /\ a <= b
  BY <1>3, <1>6, Division, DivisionGrows
<1>8. a \div 10 = b \div 10
  <2>1. Power10[W - (t - 1)] = 10 * p
    <3>1. W - (t - 1) = (W - t) + 1
      BY <1>1, <1>6
    <3>2. QED
      BY <1>6, <3>1, PowerStep
  <2>2. i \div (10 * p) = j \div (10 * p)
    <3>1. t - 1 \in 0 .. W /\ t - 1 < t
      BY <1>1, <1>6
    <3>2. QED
      BY <1>4, <2>1, <3>1
  <2> HIDE DEF p
  <2>3. QED
    BY <1>6, <2>2, NestedDivision
<1>9. a % 10 < b % 10
  <2> HIDE DEF a, b
  <2>1. QED
    BY <1>7, <1>8
<1>10. ChunkName(i) = [k \in 1 .. W |-> Digit(i, W, k)]
       /\ ChunkName(j) = [k \in 1 .. W |-> Digit(j, W, k)]
  BY <1>1, PaddedName DEF W
<1> DEFINE x == ChunkName(i)
           y == ChunkName(j)
<1>11. Len(x) = W /\ Len(y) = W
  BY <1>1, <1>10
<1>12. x[t] < y[t]
  <2>1. x[t] = a % 10 /\ y[t] = b % 10
    BY <1>6, <1>10 DEF Digit
  <2>2. QED
    BY <1>9, <2>1
<1>13. ASSUME NEW s \in 1 .. t - 1
       PROVE  x[s] = y[s]
  <2>1. s \in 1 .. W /\ s \in 0 .. W /\ s < t
    BY <1>1, <1>6
  <2>2. x[s] = (i \div Power10[W - s]) % 10 /\ y[s] = (j \div Power10[W - s]) % 10
    BY <1>10, <2>1 DEF Digit
  <2>3. QED
    BY <1>4, <2>1, <2>2
<1>14. QED
  <2>1. Smaller(Len(x), Len(y)) = W
    BY <1>1, <1>11 DEF Smaller
  <2> HIDE DEF x, y
  <2>2. t \in 1 .. Smaller(Len(x), Len(y))
    BY <1>6, <2>1
  <2>3. Before(x, y)
    BY <1>12, <1>13, <2>2 DEF Before
  <2>4. QED
    BY <2>3 DEF x, y

----------------------------------------------------------------------------
(* The plan. *)

USE SizesAssumption, InputsAssumption

LEMMA Monotone ==
  ASSUME NEW a \in Nat, NEW b \in Nat, NEW c \in Nat, a <= b
  PROVE  a * c <= b * c
OBVIOUS

(* The chunk size is within its bounds, whatever the client prefers. *)
LEMMA ChunkSizeBounds ==
  ASSUME NEW preferred \in Nat
  PROVE  /\ ChunkSize(preferred) \in Nat \ {0}
         /\ DefaultChunkSize <= ChunkSize(preferred)
         /\ ChunkSize(preferred) <= MaxChunkSize
BY DEF ChunkSize, Smaller

(* A total that the column takes covers the file: it did not wrap. *)
LEMMA TotalCovers ==
  ASSUME NEW size \in 1 .. IntMax, NEW chunk \in Nat \ {0},
         chunk <= MaxChunkSize, FitsColumn(TotalChunks(size, chunk))
  PROVE  /\ TotalChunks(size, chunk) \in Nat \ {0}
         /\ (TotalChunks(size, chunk) - 1) * chunk < size
         /\ size <= TotalChunks(size, chunk) * chunk
<1> DEFINE sum == size + chunk - 1
<1>1. sum \in Nat \ {0} \/ sum = 0
  OBVIOUS
<1>2. CASE sum <= IntMax
  <2>1. TotalChunks(size, chunk) = sum \div chunk
    BY <1>2 DEF TotalChunks, Wrap, Quotient
  <2>2. /\ sum \div chunk \in Nat
        /\ (sum \div chunk) * chunk <= sum
        /\ sum < (sum \div chunk) * chunk + chunk
    BY Division
  <2>3. sum \div chunk # 0
    BY <2>2
  <2>4. (sum \div chunk - 1) * chunk = (sum \div chunk) * chunk - chunk
    BY <2>2
  <2>5. QED
    BY <2>1, <2>2, <2>3, <2>4
<1>3. CASE sum > IntMax
  <2> DEFINE below == 2 * (IntMax + 1) - sum
  <2>1. below \in Nat /\ below >= IntMax + 3 - chunk /\ below > 0
    OBVIOUS
  <2>2. TotalChunks(size, chunk) = -(below \div chunk)
    <3>1. Wrap(sum) = -below /\ Wrap(sum) < 0
      BY <1>3, <2>1 DEF Wrap
    <3>2. -Wrap(sum) = below
      BY <3>1, <2>1
    <3>3. QED
      BY <3>1, <3>2 DEF TotalChunks, Quotient
  <2>3. /\ below \div chunk \in Nat
        /\ below < (below \div chunk) * chunk + chunk
    BY <2>1, Division
  <2>4. below \div chunk >= ColumnMax + 2
    <3>1. SUFFICES ASSUME below \div chunk <= ColumnMax + 1 PROVE FALSE
      BY <2>3
    <3>2. (below \div chunk) * chunk <= (ColumnMax + 1) * chunk
      BY <2>3, <3>1, Monotone
    <3>3. (ColumnMax + 3) * chunk <= (ColumnMax + 3) * MaxChunkSize
      BY Monotone
    <3>4. (ColumnMax + 1) * chunk = (ColumnMax + 3) * chunk - 2 * chunk
      OBVIOUS
    <3> HIDE DEF below
    <3>5. QED
      BY <2>1, <2>3, <3>2, <3>3, <3>4
  <2>5. QED
    BY <2>2, <2>3, <2>4 DEF FitsColumn
<1>4. QED
  BY <1>2, <1>3

(* Everything that holds of a reachable state. *)
PlanInv == TypeOK /\ PlanCoversFile /\ ContractIsAccepted /\ CutInv

LEMMA PlanInvInit == Init => PlanInv
<1> SUFFICES ASSUME Init PROVE PlanInv
  OBVIOUS
<1>1. session = NoSession /\ sent = 0 /\ bytes = 0 /\ refused = FALSE
  BY DEF Init
<1>2. TypeOK
  <2>1. refused \in BOOLEAN
    BY <1>1
  <2>2. session \in [size : Nat, chunk : Nat, total : Nat]
    BY <1>1 DEF NoSession
  <2>3. QED
    BY <1>1, <2>1, <2>2 DEF TypeOK
<1>3. PlanCoversFile /\ ContractIsAccepted /\ CutInv
  BY <1>1 DEF PlanCoversFile, ContractIsAccepted, CutInv
<1>4. QED
  BY <1>2, <1>3 DEF PlanInv

LEMMA PlanInvInitChunkedUpload ==
  ASSUME PlanInv, NEW size \in FileSizes, NEW preferred \in Preferences,
         InitChunkedUpload(size, preferred)
  PROVE  PlanInv'
<1> DEFINE chunk == ChunkSize(preferred)
           total == TotalChunks(size, chunk)
<1>1. /\ session = NoSession /\ FitsColumn(total)
      /\ session' = [size |-> size, chunk |-> chunk, total |-> total]
      /\ UNCHANGED <<sent, bytes, refused>>
  BY DEF InitChunkedUpload
<1>2. /\ size \in 1 .. IntMax /\ preferred \in Nat
      /\ chunk \in Nat \ {0} /\ chunk <= MaxChunkSize
      /\ DefaultChunkSize <= chunk
  BY ChunkSizeBounds
<1>3. /\ total \in Nat \ {0} /\ (total - 1) * chunk < size
      /\ size <= total * chunk
  BY <1>1, <1>2, TotalCovers
<1> HIDE DEF chunk, total
<1>4. sent = 0 /\ bytes = 0
  BY <1>1 DEF PlanInv, CutInv
<1>5. /\ session'.size = size /\ session'.chunk = chunk
      /\ session'.total = total
  BY <1>1
<1>6. 0 * chunk = 0 /\ Smaller(0 * chunk, size) = 0
  BY <1>2 DEF Smaller
<1>7. TypeOK'
  BY <1>1, <1>2, <1>3 DEF PlanInv, TypeOK
<1>8. PlanCoversFile' /\ ContractIsAccepted'
  BY <1>1, <1>3, <1>5 DEF PlanInv, PlanCoversFile, ContractIsAccepted
<1>9. CutInv'
  <2>1. session' # NoSession
    BY <1>2, <1>5 DEF NoSession
  <2>2. QED
    BY <1>1, <1>2, <1>3, <1>4, <1>5, <1>6, <2>1 DEF CutInv
<1>10. QED
  BY <1>7, <1>8, <1>9 DEF PlanInv

LEMMA PlanInvUploadChunk ==
  ASSUME PlanInv, UploadChunk
  PROVE  PlanInv'
<1> DEFINE size == session.size
           chunk == session.chunk
           total == session.total
<1>1. /\ session # NoSession /\ sent < total /\ ~refused /\ UNCHANGED session
      /\ size \in Nat /\ chunk \in Nat \ {0} /\ chunk <= MaxChunkSize
      /\ total \in Nat \ {0} /\ sent \in Nat
      /\ (total - 1) * chunk < size /\ size <= total * chunk
      /\ bytes = Smaller(sent * chunk, size)
  BY DEF UploadChunk, PlanInv, TypeOK, PlanCoversFile, CutInv
<1>2. sent * chunk <= (total - 1) * chunk
  BY <1>1, Monotone
<1>3. sent * chunk < size /\ sent * chunk \in Nat
  BY <1>1, <1>2
<1>4. Cut(sent) = Smaller(chunk, size - sent * chunk)
  BY <1>3, <1>1 DEF Cut
<1>5. 0 < Cut(sent) /\ Cut(sent) <= MaxChunkSize /\ Cut(sent) \in Nat
  BY <1>1, <1>3, <1>4 DEF Smaller
<1>6. \A raw \in BOOLEAN : Acceptable(sent, Cut(sent), raw)
  BY <1>1, <1>5 DEF Acceptable
<1>7. sent' = sent + 1 /\ bytes' = bytes + Cut(sent) /\ UNCHANGED <<session, refused>>
  BY <1>6 DEF UploadChunk
<1>8. (sent + 1) * chunk = sent * chunk + chunk
  BY <1>1
<1>9. bytes' = Smaller((sent + 1) * chunk, size)
  <2> DEFINE before == sent * chunk
  <2>1. bytes = before
    BY <1>1, <1>3 DEF Smaller
  <2> HIDE DEF before
  <2>2. bytes' = before + Smaller(chunk, size - before)
    BY <1>4, <1>7, <2>1 DEF before
  <2>3. before \in Nat /\ before < size /\ (sent + 1) * chunk = before + chunk
    BY <1>3, <1>8 DEF before
  <2>4. chunk \in Nat /\ size \in Nat
    BY <1>1
  <2> HIDE DEF chunk, size
  <2>5. Smaller(before + chunk, size) = before + Smaller(chunk, size - before)
    BY <2>3, <2>4 DEF Smaller
  <2>6. QED
    BY <2>2, <2>3, <2>5
<1>10. sent + 1 <= total /\ sent + 1 \in Nat /\ bytes + Cut(sent) \in Nat
  BY <1>1, <1>5 DEF PlanInv, TypeOK
<1>11. CutInv'
  BY <1>1, <1>7, <1>9, <1>10 DEF PlanInv, CutInv
<1>12. TypeOK' /\ PlanCoversFile' /\ ContractIsAccepted'
  BY <1>7, <1>10 DEF PlanInv, TypeOK, PlanCoversFile, ContractIsAccepted
<1>13. QED
  BY <1>11, <1>12 DEF PlanInv

LEMMA PlanInvariant == Spec => []PlanInv
<1>1. PlanInv /\ [Next]_vars => PlanInv'
  <2> SUFFICES ASSUME PlanInv, [Next]_vars PROVE PlanInv'
    OBVIOUS
  <2>1. CASE UNCHANGED vars
    BY <2>1 DEF vars, PlanInv, TypeOK, PlanCoversFile, ContractIsAccepted, CutInv
  <2>2. QED
    BY <2>1, PlanInvInitChunkedUpload, PlanInvUploadChunk DEF Next
<1>2. QED
  BY <1>1, PlanInvInit, PTL DEF Spec

(* Session, counters and answer are of their types, also where the sum of  *)
(* InitChunkedUpload wraps around.                                         *)
THEOREM TypeCorrect == Spec => []TypeOK
<1>1. PlanInv => TypeOK
  BY DEF PlanInv
<1>2. QED
  BY <1>1, PlanInvariant, PTL

(* Every session that is stored describes a file exactly: at least one     *)
(* chunk, the last one not empty, and nothing beyond the last.             *)
THEOREM PlanCorrect == Spec => []PlanCoversFile
<1>1. PlanInv => PlanCoversFile
  BY DEF PlanInv
<1>2. QED
  BY <1>1, PlanInvariant, PTL

(* The server takes every chunk of a client that uses its chunk size.      *)
THEOREM ContractCorrect == Spec => []ContractIsAccepted
<1>1. PlanInv => ContractIsAccepted
  BY DEF PlanInv
<1>2. QED
  BY <1>1, PlanInvariant, PTL

(* The chunks of such a client are the whole file. *)
THEOREM BytesCorrect == Spec => []BytesAddUp
<1>1. PlanInv => BytesAddUp
  <2> SUFFICES ASSUME PlanInv, session # NoSession, sent = session.total
               PROVE  bytes = session.size
    BY DEF BytesAddUp
  <2>1. /\ bytes = Smaller(session.total * session.chunk, session.size)
        /\ session.size <= session.total * session.chunk
        /\ session.size \in Nat /\ session.total \in Int /\ session.chunk \in Nat
    BY DEF PlanInv, PlanCoversFile, CutInv, TypeOK
  <2>2. QED
    BY <2>1 DEF Smaller
<1>2. QED
  BY <1>1, PlanInvariant, PTL

(* Each chunk's name sorts after that of the chunk before it, so that a    *)
(* listing of the parts is in the order of the file, for every width of    *)
(* the padding, as long as the chunks are not more than it has names.      *)
THEOREM NamesAreInOrder == Spec => []NamesSortInOrder
<1>1. PlanInv => NamesSortInOrder
  <2> SUFFICES ASSUME PlanInv, sent >= 2, session.total <= Power10[PadWidth]
               PROVE  Before(ChunkName(sent - 2), ChunkName(sent - 1))
    BY DEF NamesSortInOrder
  <2>1. sent \in Nat /\ session.total \in Nat /\ sent <= session.total
    BY DEF PlanInv, TypeOK, CutInv
  <2>2. Power10[PadWidth] \in Nat
    BY PowerStep
  <2>3. /\ sent - 2 \in Nat /\ sent - 1 \in Nat /\ sent - 2 < sent - 1
        /\ sent - 1 < Power10[PadWidth]
    BY <2>1, <2>2
  <2>4. QED
    BY <2>3, NamesSort
<1>2. QED
  BY <1>1, PlanInvariant, PTL

=============================================================================
