------------------------ MODULE ScheduleReplayProofs ------------------------
(***************************************************************************)
(* What build_response and validate_plan make of any solution of the LP,   *)
(* for any number of hours and any quantum: the plan consists of whole     *)
(* quanta, the replayed battery stays within one and a half quanta an hour *)
(* of the LP's, the totals are the solution's, the validator rejects       *)
(* nothing but small battery actions, and what it accepts obeys the        *)
(* request.                                                                *)
(***************************************************************************)
EXTENDS ScheduleReplay, SequenceTheorems, FiniteSetTheorems, WellFoundedInduction, TLAPS

(***************************************************************************)
(* Rounding                                                                *)
(***************************************************************************)

LEMMA Division ==
  ASSUME NEW a \in Int, NEW b \in Nat \ {0}
  PROVE  /\ a \div b \in Int /\ a % b \in 0..(b - 1)
         /\ a = b * (a \div b) + (a % b)
  OBVIOUS

\* A product of integers that lies between 0 and its factor is 0.
LEMMA NoMultipleBetween ==
  ASSUME NEW b \in Nat \ {0}, NEW k \in Int, b * k < b, b * k > -b
  PROVE  k = 0
<1>1. k >= 1 => b * k >= b
  OBVIOUS
<1>2. k <= -1 => b * k <= -b
  OBVIOUS
<1> QED BY <1>1, <1>2

LEMMA Unique ==
  ASSUME NEW a \in Int, NEW b \in Nat \ {0}, NEW q \in Int, NEW r \in Int,
         a = b * q + r, 0 <= r, r < b
  PROVE  a \div b = q /\ a % b = r
<1>1. PICK p \in Int, s \in Int : p = a \div b /\ s = a % b /\ 0 <= s /\ s < b /\ a = b * p + s
  BY Division
<1>2. b * (p - q) = r - s
  <2>1. b * p \in Int /\ b * q \in Int /\ b * (p - q) = b * p - b * q
    OBVIOUS
  <2> QED BY <1>1, <2>1
<1>3. p - q = 0
  <2>1. b * (p - q) < b /\ b * (p - q) > -b
    BY <1>1, <1>2
  <2> QED BY <2>1, NoMultipleBetween
<1> QED BY <1>1, <1>2, <1>3

\* Whole numbers of quanta.
Whole == {k * Quantum : k \in Int}

LEMMA WholeMod == \A v \in Whole : v \in Int /\ v % Quantum = 0
<1> SUFFICES ASSUME NEW k \in Int PROVE k * Quantum \in Int /\ (k * Quantum) % Quantum = 0
  BY DEF Whole
<1>1. Quantum \in Nat \ {0}
  BY ReplayAssumption
<1>2. k * Quantum \in Int /\ k * Quantum = Quantum * k + 0
  BY <1>1
<1> QED BY <1>1, <1>2, Unique

LEMMA WholeClosed == 0 \in Whole /\ \A v, w \in Whole : v + w \in Whole
<1>1. Quantum \in Int
  BY ReplayAssumption
<1>2. 0 = 0 * Quantum
  BY <1>1
<1>3. ASSUME NEW j \in Int, NEW k \in Int PROVE j * Quantum + k * Quantum = (j + k) * Quantum
  BY <1>1
<1> QED BY <1>2, <1>3 DEF Whole

LEMMA RoundedNear ==
  ASSUME NEW v \in Int
  PROVE  /\ Rounded(v) \in Whole
         /\ Size(v) >= Quantum => 2 * Size(Rounded(v) - v) <= Quantum
         /\ Size(v) < Quantum => Rounded(v) = 0
<1>0. Quantum \in Nat \ {0}
  BY ReplayAssumption
<1>1. PICK k \in Int, s \in Int :
        /\ k = (2 * v + Quantum) \div (2 * Quantum) 
        /\ 2 * v + Quantum = (2 * Quantum) * k + s /\ 0 <= s /\ s < 2 * Quantum
  <2>1. 2 * v + Quantum \in Int /\ 2 * Quantum \in Nat \ {0}
    BY <1>0
  <2>2. PICK a \in Int : a = 2 * v + Quantum
    BY <2>1
  <2>3. PICK b \in Nat \ {0} : b = 2 * Quantum
    BY <2>1
  <2>4. a \div b \in Int /\ a % b \in 0..(b - 1) /\ a = b * (a \div b) + (a % b)
    BY Division
  <2> QED BY <2>2, <2>3, <2>4
<1>2. k * Quantum \in Int /\ (2 * Quantum) * k = 2 * (k * Quantum)
  BY <1>0, <1>1
<1>3. Rounded(v) = IF Size(v) < Quantum THEN 0 ELSE k * Quantum
  BY <1>1 DEF Rounded
<1>4. Rounded(v) \in Whole
  BY <1>3, WholeClosed DEF Whole
<1>5. Size(v) \in Int
  BY DEF Size
<1>6. 2 * (k * Quantum) - 2 * v <= Quantum /\ 2 * v - 2 * (k * Quantum) <= Quantum
  BY <1>0, <1>1, <1>2
<1>7. ASSUME NEW x \in Int, 2 * x - 2 * v <= Quantum, 2 * v - 2 * x <= Quantum
      PROVE  2 * Size(x - v) <= Quantum
  BY <1>0, <1>7 DEF Size
<1>8. 2 * Size(k * Quantum - v) <= Quantum
  BY <1>2, <1>6, <1>7
<1> QED BY <1>0, <1>3, <1>4, <1>5, <1>8

LEMMA RoundedWhole == \A v \in Whole : Rounded(v) = v
<1> SUFFICES ASSUME NEW k \in Int PROVE Rounded(k * Quantum) = k * Quantum
  BY DEF Whole
<1>0. Quantum \in Nat \ {0} /\ k * Quantum \in Int
  BY ReplayAssumption
<1>1. PICK v \in Int : v = k * Quantum
  BY <1>0
<1>2. CASE Size(v) < Quantum
  <2>1. v < Quantum /\ v > -Quantum
    BY <1>0, <1>2 DEF Size
  <2>2. k = 0
    <3>1. Quantum * k = v
      BY <1>0, <1>1
    <3> QED BY <1>0, <2>1, <3>1, NoMultipleBetween
  <2> QED BY <1>0, <1>1, <1>2, <2>2 DEF Rounded
<1>3. CASE ~(Size(v) < Quantum)
  <2>1. PICK a \in Int, b \in Nat \ {0} : a = 2 * v + Quantum /\ b = 2 * Quantum
    BY <1>0
  <2>2. a = b * k + Quantum /\ 0 <= Quantum /\ Quantum < b
    <3>1. b * k = 2 * (k * Quantum)
      BY <1>0, <2>1
    <3> QED BY <1>0, <1>1, <2>1, <3>1
  <2>3. a \div b = k
    <3>1. Quantum \in Int
      BY <1>0
    <3> QED BY <2>2, <3>1, Unique
  <2> QED BY <1>1, <1>3, <2>1, <2>3 DEF Rounded
<1> QED BY <1>1, <1>2, <1>3

LEMMA WholeAbove ==
  ASSUME NEW v \in Whole
  PROVE  /\ v > Quantum => v >= 2 * Quantum
         /\ v < -Quantum => v <= -(2 * Quantum)
<1>1. PICK k \in Int, b \in Nat \ {0} : b = Quantum /\ v = k * b
  BY ReplayAssumption DEF Whole
<1>2. k <= 1 => k * b <= b
  BY <1>1
<1>3. k >= 2 => k * b >= 2 * b
  BY <1>1
<1>4. k >= -1 => k * b >= -b
  BY <1>1
<1>5. k <= -2 => k * b <= -(2 * b)
  BY <1>1
<1>6. k * b \in Int
  BY <1>1
<1> QED BY <1>1, <1>2, <1>3, <1>4, <1>5, <1>6

(***************************************************************************)
(* Sums                                                                    *)
(*                                                                         *)
(* Total folds + over a function.  The induction the library offers takes  *)
(* a predicate; here the set of the cases that hold stands for it.         *)
(***************************************************************************)

\* Induction over the naturals, P being the set of the numbers it holds for.
LEMMA EveryNumber ==
  ASSUME NEW P, 0 \in P, \A n \in Nat : n \in P => n + 1 \in P
  PROVE  Nat \subseteq P
<1> SUFFICES ASSUME Nat \ P # {} PROVE FALSE
  OBVIOUS
<1>1. PICK n \in Nat \ P : \A m \in Nat \ P : ~(<<m, n>> \in OpToRel(<, Nat))
  <2>1. Nat \ P \subseteq Nat
    OBVIOUS
  <2> QED BY <2>1, NatLessThanWellFounded, WFMin
<1>2. \A m \in Nat \ P : ~(m < n)
  BY <1>1 DEF OpToRel
<1>3. n # 0 /\ n - 1 \in Nat /\ n - 1 < n
  OBVIOUS
<1>4. n - 1 \in P
  BY <1>2, <1>3
<1>5. (n - 1) + 1 = n
  OBVIOUS
<1> QED BY <1>3, <1>4, <1>5

\* The element a fold takes out of a set first.
First(s) == CHOOSE x \in s : TRUE

LEMMA FirstIn == \A s : s # {} => First(s) \in s
  BY DEF First

\* Induction over the subsets of a finite set.
LEMMA EverySubset ==
  ASSUME NEW D, IsFiniteSet(D), NEW P, {} \in P,
         \A s \in SUBSET D : s # {} /\ (\A x \in s : s \ {x} \in P) => s \in P
  PROVE  SUBSET D \subseteq P
<1> SUFFICES ASSUME (SUBSET D) \ P # {} PROVE FALSE
  OBVIOUS
<1>1. PICK s \in (SUBSET D) \ P : \A t \in (SUBSET D) \ P : ~(<<t, s>> \in StrictSubsetOrdering(D))
  <2>1. (SUBSET D) \ P \subseteq SUBSET D
    OBVIOUS
  <2>2. IsWellFoundedOn(StrictSubsetOrdering(D), SUBSET D)
    BY FS_StrictSubsetOrderingWellFounded, FS_FiniteSubsetsOfFinite
  <2> QED BY <2>1, <2>2, WFMin
<1>2. s # {}
  OBVIOUS
<1>3. ASSUME NEW x \in s PROVE s \ {x} \in P
  <2>1. s \ {x} \in SUBSET D /\ s \ {x} \subseteq s /\ s \ {x} # s
    OBVIOUS
  <2>2. <<s \ {x}, s>> \in StrictSubsetOrdering(D)
    BY <2>1 DEF StrictSubsetOrdering
  <2> QED BY <1>1, <2>1, <2>2
<1> QED BY <1>2, <1>3

\* One step of a fold that adds up f, with G for the sums of smaller sets.
Step(f, G, s) == IF s = {} THEN 0 ELSE f[First(s)] + G[s \ {First(s)}]

\* The sums of f over the subsets of its domain.
Sums(f) == CHOOSE G : G = [s \in SUBSET DOMAIN f |-> Step(f, G, s)]

\* Total is the sum over the whole domain.
LEMMA TotalIsSum == ASSUME NEW f PROVE Total(f) = Sums(f)[DOMAIN f]
  BY DEF Total, FoldFunction, FoldFunctionOnSet, MapThenFoldSet, Sums, Step, First

\* The recursion that defines the sums has a solution.
LEMMA SumsExist ==
  ASSUME NEW D, IsFiniteSet(D), NEW f \in [D -> Int]
  PROVE  \E G \in [SUBSET D -> Int] : \A s \in SUBSET D : G[s] = Step(f, G, s)
<1> DEFINE Upto(G, n) == \A s \in SUBSET D : Cardinality(s) <= n => G[s] = Step(f, G, s)
           P == {n \in Nat : \E G \in [SUBSET D -> Int] : Upto(G, n)}
<1>0. \A s \in SUBSET D : IsFiniteSet(s) /\ Cardinality(s) \in Nat
  BY FS_Subset, FS_CardinalityType
<1>1. 0 \in P
  <2> DEFINE G == [s \in SUBSET D |-> 0]
  <2>1. ASSUME NEW s \in SUBSET D, Cardinality(s) <= 0 PROVE G[s] = Step(f, G, s)
    <3>1. s = {}
      BY <1>0, <2>1, FS_EmptySet
    <3> QED BY <3>1 DEF Step
  <2>2. G \in [SUBSET D -> Int] /\ Upto(G, 0)
    BY <2>1
  <2> HIDE DEF G
  <2> QED BY <2>2
<1>2. ASSUME NEW n \in Nat, n \in P PROVE n + 1 \in P
  <2>1. PICK F \in [SUBSET D -> Int] : Upto(F, n)
    BY <1>2
  <2> DEFINE G == [s \in SUBSET D |-> IF Cardinality(s) = n + 1 THEN Step(f, F, s) ELSE F[s]]
  <2>2. ASSUME NEW s \in SUBSET D, s # {} 
        PROVE  /\ First(s) \in s /\ s \ {First(s)} \in SUBSET D
               /\ Cardinality(s \ {First(s)}) = Cardinality(s) - 1
    <3>1. First(s) \in s
      BY <2>2, FirstIn
    <3>2. PICK x \in s : x = First(s)
      BY <3>1
    <3>3. Cardinality(s \ {x}) = Cardinality(s) - 1
      BY <1>0, FS_RemoveElement
    <3> QED BY <3>1, <3>2, <3>3
  <2>3. ASSUME NEW s \in SUBSET D PROVE Step(f, F, s) \in Int
    <3>1. CASE s = {}
      BY <3>1 DEF Step
    <3>2. CASE s # {}
      <4>1. First(s) \in D /\ s \ {First(s)} \in SUBSET D
        BY <2>2, <3>2
      <4> QED BY <3>2, <4>1 DEF Step
    <3> QED BY <3>1, <3>2
  <2>4. G \in [SUBSET D -> Int]
    BY <2>3
  <2>5. ASSUME NEW s \in SUBSET D, Cardinality(s) <= n + 1 PROVE G[s] = Step(f, G, s)
    <3>1. Step(f, G, s) = Step(f, F, s)
      <4>1. CASE s = {}
        BY <4>1 DEF Step
      <4>2. CASE s # {}
        <5>1. G[s \ {First(s)}] = F[s \ {First(s)}]
          BY <1>0, <2>2, <2>5, <4>2
        <5> HIDE DEF G
        <5> QED BY <4>2, <5>1 DEF Step
      <4> QED BY <4>1, <4>2
    <3>2. G[s] = Step(f, F, s)
      <4>1. CASE Cardinality(s) = n + 1
        BY <4>1
      <4>2. CASE Cardinality(s) # n + 1
        <5>1. Cardinality(s) <= n
          BY <1>0, <2>5, <4>2
        <5> QED BY <2>1, <4>2, <5>1
      <4> QED BY <4>1, <4>2
    <3> QED BY <3>1, <3>2
  <2>6. Upto(G, n + 1)
    BY <2>5
  <2> HIDE DEF G
  <2>7. n + 1 \in Nat
    OBVIOUS
  <2> QED BY <2>4, <2>6, <2>7
<1>3. PICK G \in [SUBSET D -> Int] : Upto(G, Cardinality(D))
  <2>1. Nat \subseteq P
    <3> HIDE DEF P
    <3> QED BY <1>1, <1>2, EveryNumber
  <2> QED BY <1>0, <2>1
<1>4. \A s \in SUBSET D : Cardinality(s) <= Cardinality(D)
  BY FS_Subset
<1> QED BY <1>3, <1>4

\* What the sums of f are.
LEMMA SumsDef ==
  ASSUME NEW D, IsFiniteSet(D), NEW f \in [D -> Int]
  PROVE  \A s \in SUBSET D : Sums(f)[s] = Step(f, Sums(f), s)
<1>1. PICK G \in [SUBSET D -> Int] : \A s \in SUBSET D : G[s] = Step(f, G, s)
  BY SumsExist
<1>2. DOMAIN f = D
  OBVIOUS
<1>3. G = [s \in SUBSET DOMAIN f |-> Step(f, G, s)]
  BY <1>1, <1>2
<1>4. Sums(f) = [s \in SUBSET DOMAIN f |-> Step(f, Sums(f), s)]
  BY <1>3 DEF Sums
<1>5. PICK S : S = Sums(f)
  OBVIOUS
<1>6. S = [s \in SUBSET D |-> Step(f, S, s)]
  BY <1>2, <1>4, <1>5
<1>7. \A s \in SUBSET D : S[s] = Step(f, S, s)
  BY <1>6
<1> QED BY <1>5, <1>7

LEMMA SumsStep ==
  ASSUME NEW D, IsFiniteSet(D), NEW f \in [D -> Int]
  PROVE  /\ Sums(f)[{}] = 0
         /\ \A s \in SUBSET D : s # {} =>
              First(s) \in s /\ Sums(f)[s] = f[First(s)] + Sums(f)[s \ {First(s)}]
<1>1. Sums(f)[{}] = Step(f, Sums(f), {})
  BY SumsDef
<1>2. \A s \in SUBSET D : s # {} => First(s) \in s /\ Sums(f)[s] = Step(f, Sums(f), s)
  BY SumsDef, FirstIn
<1> QED BY <1>1, <1>2 DEF Step

LEMMA SumsInt ==
  ASSUME NEW D, IsFiniteSet(D), NEW f \in [D -> Int]
  PROVE  \A s \in SUBSET D : Sums(f)[s] \in Int
<1> DEFINE P == {s \in SUBSET D : Sums(f)[s] \in Int}
<1>1. {} \in P
  BY SumsStep
<1>2. ASSUME NEW s \in SUBSET D, s # {}, \A x \in s : s \ {x} \in P PROVE s \in P
  <2>0. PICK x \in s : x = First(s)
    BY <1>2, FirstIn
  <2>1. Sums(f)[s] = f[x] + Sums(f)[s \ {x}]
    BY <1>2, <2>0, SumsStep
  <2>2. Sums(f)[s \ {x}] \in Int /\ f[x] \in Int
    BY <1>2
  <2> QED BY <2>1, <2>2
<1>3. SUBSET D \subseteq P
  <2> HIDE DEF P
  <2> QED BY <1>1, <1>2, EverySubset
<1> QED BY <1>3

\* Any element may be taken out of a sum.
LEMMA SumsTakeOut ==
  ASSUME NEW D, IsFiniteSet(D), NEW f \in [D -> Int], NEW r \in SUBSET D, NEW z \in r
  PROVE  Sums(f)[r] = f[z] + Sums(f)[r \ {z}]
<1> DEFINE P == {s \in SUBSET D : \A x \in s : Sums(f)[s] = f[x] + Sums(f)[s \ {x}]}
<1>1. {} \in P
  OBVIOUS
<1>2. ASSUME NEW s \in SUBSET D, s # {}, \A x \in s : s \ {x} \in P PROVE s \in P
  <2> SUFFICES ASSUME NEW x \in s PROVE Sums(f)[s] = f[x] + Sums(f)[s \ {x}]
    OBVIOUS
  <2>0. PICK y \in s : y = First(s)
    BY <1>2, FirstIn
  <2>1. Sums(f)[s] = f[y] + Sums(f)[s \ {y}]
    BY <1>2, <2>0, SumsStep
  <2>2. CASE x = y
    BY <2>1, <2>2
  <2>3. CASE x # y
    <3>1. x \in s \ {y} /\ y \in s \ {x} /\ s \ {x} \in P /\ s \ {y} \in P
      BY <1>2, <2>3
    <3>2. Sums(f)[s \ {y}] = f[x] + Sums(f)[(s \ {y}) \ {x}]
      BY <3>1
    <3>3. Sums(f)[s \ {x}] = f[y] + Sums(f)[(s \ {x}) \ {y}]
      BY <3>1
    <3>4. (s \ {y}) \ {x} = (s \ {x}) \ {y}
      OBVIOUS
    <3>5. PICK w \in Int : w = Sums(f)[(s \ {x}) \ {y}]
      BY SumsInt
    <3>6. PICK u \in Int, v \in Int : u = f[x] /\ v = f[y]
      OBVIOUS
    <3>7. Sums(f)[s] = v + (u + w)
      BY <2>1, <3>2, <3>5, <3>6
    <3>8. Sums(f)[s \ {x}] = v + w
      BY <3>3, <3>4, <3>5, <3>6
    <3> QED BY <3>6, <3>7, <3>8
  <2> QED BY <2>2, <2>3
<1>3. SUBSET D \subseteq P
  <2> HIDE DEF P
  <2> QED BY <1>1, <1>2, EverySubset
<1> QED BY <1>3

\* The sum over a set depends on the values there only.
LEMMA SumsAgree ==
  ASSUME NEW D, IsFiniteSet(D), NEW E \in SUBSET D, NEW f \in [D -> Int], NEW g \in [E -> Int],
         \A x \in E : f[x] = g[x]
  PROVE  \A s \in SUBSET E : Sums(f)[s] = Sums(g)[s]
<1> DEFINE P == {s \in SUBSET E : Sums(f)[s] = Sums(g)[s]}
<1>0. IsFiniteSet(E)
  BY FS_Subset
<1>1. {} \in P
  BY <1>0, SumsStep
<1>2. ASSUME NEW s \in SUBSET E, s # {}, \A x \in s : s \ {x} \in P PROVE s \in P
  <2>s. s \in SUBSET D
    OBVIOUS
  <2>0. PICK x \in s : x = First(s)
    BY <1>2, FirstIn
  <2>1. Sums(f)[s] = f[x] + Sums(f)[s \ {x}]
    BY <1>2, <2>s, <2>0, SumsStep
  <2>2. Sums(g)[s] = g[x] + Sums(g)[s \ {x}]
    BY <1>0, <1>2, <2>0, SumsStep
  <2>3. x \in E /\ Sums(f)[s \ {x}] = Sums(g)[s \ {x}]
    BY <1>2
  <2> QED BY <2>1, <2>2, <2>3
<1>3. SUBSET E \subseteq P
  <2> HIDE DEF P
  <2> QED BY <1>0, <1>1, <1>2, EverySubset
<1> QED BY <1>3

(***************************************************************************)
(* Totals                                                                  *)
(***************************************************************************)

LEMMA TotalInt ==
  ASSUME NEW D, IsFiniteSet(D), NEW f \in [D -> Int]
  PROVE  Total(f) \in Int
<1>1. DOMAIN f = D /\ D \in SUBSET D
  OBVIOUS
<1> QED BY <1>1, SumsInt, TotalIsSum

\* What the terms are closed under, the total is in.
LEMMA TotalWithin ==
  ASSUME NEW D, IsFiniteSet(D), NEW f \in [D -> Int], NEW W, 0 \in W,
         \A v, w \in W : v + w \in W, \A x \in D : f[x] \in W
  PROVE  Total(f) \in W
<1> DEFINE P == {s \in SUBSET D : Sums(f)[s] \in W}
<1>1. {} \in P
  BY SumsStep
<1>2. ASSUME NEW s \in SUBSET D, s # {}, \A x \in s : s \ {x} \in P PROVE s \in P
  <2>0. PICK x \in s : x = First(s)
    BY <1>2, FirstIn
  <2>1. Sums(f)[s] = f[x] + Sums(f)[s \ {x}]
    BY <1>2, <2>0, SumsStep
  <2>2. Sums(f)[s \ {x}] \in W /\ f[x] \in W
    BY <1>2
  <2> QED BY <2>1, <2>2
<1>3. SUBSET D \subseteq P
  <2> HIDE DEF P
  <2> QED BY <1>1, <1>2, EverySubset
<1>4. DOMAIN f = D /\ D \in SUBSET D
  OBVIOUS
<1> QED BY <1>3, <1>4, TotalIsSum

\* Bounds on the terms add up.
LEMMA TotalNear ==
  ASSUME NEW D, IsFiniteSet(D), NEW f \in [D -> Int], NEW g \in [D -> Int], NEW e \in [D -> Int],
         NEW a \in Int, NEW b \in Int,
         \A x \in D : a * f[x] - g[x] <= b * e[x] /\ g[x] - a * f[x] <= b * e[x]
  PROVE  /\ a * Total(f) - Total(g) <= b * Total(e)
         /\ Total(g) - a * Total(f) <= b * Total(e)
<1> DEFINE P == {s \in SUBSET D : /\ a * Sums(f)[s] - Sums(g)[s] <= b * Sums(e)[s]
                                  /\ Sums(g)[s] - a * Sums(f)[s] <= b * Sums(e)[s]}
<1>1. {} \in P
  BY SumsStep
<1>2. ASSUME NEW s \in SUBSET D, s # {}, \A x \in s : s \ {x} \in P PROVE s \in P
  <2>0. PICK x \in s : x = First(s)
    BY <1>2, FirstIn
  <2>a. Sums(f)[s] = f[x] + Sums(f)[s \ {x}]
    BY <1>2, <2>0, SumsStep
  <2>b. Sums(g)[s] = g[x] + Sums(g)[s \ {x}]
    BY <1>2, <2>0, SumsStep
  <2>c. Sums(e)[s] = e[x] + Sums(e)[s \ {x}]
    BY <1>2, <2>0, SumsStep
  <2>1. /\ Sums(f)[s] = f[x] + Sums(f)[s \ {x}]
        /\ Sums(g)[s] = g[x] + Sums(g)[s \ {x}]
        /\ Sums(e)[s] = e[x] + Sums(e)[s \ {x}]
    BY <2>a, <2>b, <2>c
  <2>2. PICK F \in Int, G \in Int, E \in Int :
          /\ F = Sums(f)[s \ {x}] /\ G = Sums(g)[s \ {x}] /\ E = Sums(e)[s \ {x}]
          /\ a * F - G <= b * E /\ G - a * F <= b * E
    BY <1>2, SumsInt
  <2>3. PICK u \in Int, v \in Int, w \in Int :
          /\ u = f[x] /\ v = g[x] /\ w = e[x]
          /\ a * u - v <= b * w /\ v - a * u <= b * w
    OBVIOUS
  <2>4. a * (u + F) = a * u + a * F /\ b * (w + E) = b * w + b * E
    OBVIOUS
  <2>5. a * u \in Int /\ a * F \in Int /\ b * w \in Int /\ b * E \in Int
    OBVIOUS
  <2>6. /\ a * (u + F) - (v + G) <= b * (w + E)
        /\ (v + G) - a * (u + F) <= b * (w + E)
    BY <2>2, <2>3, <2>4, <2>5
  <2> QED BY <2>1, <2>2, <2>3, <2>6
<1>3. SUBSET D \subseteq P
  <2> HIDE DEF P
  <2> QED BY <1>1, <1>2, EverySubset
<1>4. DOMAIN f = D /\ DOMAIN g = D /\ DOMAIN e = D /\ D \in SUBSET D
  OBVIOUS
<1> QED BY <1>3, <1>4, TotalIsSum

\* A total is that of all terms but one, and the one.
LEMMA TotalOfOneMore ==
  ASSUME NEW D, IsFiniteSet(D), NEW x \in D, NEW f \in [D -> Int],
         NEW g \in [D \ {x} -> Int], \A y \in D \ {x} : f[y] = g[y]
  PROVE  Total(f) = Total(g) + f[x]
<1>1. D \in SUBSET D /\ D \ {x} \in SUBSET D
  OBVIOUS
<1>2. Sums(f)[D] = f[x] + Sums(f)[D \ {x}]
  BY ONLY IsFiniteSet(D), x \in D, f \in [D -> Int], <1>1, SumsTakeOut
<1>3. Sums(f)[D \ {x}] = Sums(g)[D \ {x}]
  <2>1. PICK E \in SUBSET D : E = D \ {x}
    BY <1>1
  <2>2. g \in [E -> Int] /\ \A y \in E : f[y] = g[y]
    BY <2>1
  <2>3. E \in SUBSET E
    OBVIOUS
  <2>4. Sums(f)[E] = Sums(g)[E]
    BY <2>2, <2>3, SumsAgree
  <2> QED BY <2>1, <2>4
<1>4. Total(f) = Sums(f)[D] /\ Total(g) = Sums(g)[D \ {x}]
  <2>1. DOMAIN f = D /\ DOMAIN g = D \ {x}
    OBVIOUS
  <2> QED BY <2>1, TotalIsSum
<1>5. f[x] \in Int /\ Sums(f)[D \ {x}] \in Int
  BY <1>1, SumsInt
<1> QED BY <1>2, <1>3, <1>4, <1>5

\* A sum of ones counts.
LEMMA TotalOnes ==
  ASSUME NEW D, IsFiniteSet(D)
  PROVE  Total([x \in D |-> 1]) = Cardinality(D)
<1> DEFINE f == [x \in D |-> 1]
           P == {s \in SUBSET D : Sums(f)[s] = Cardinality(s)}
<1>0. f \in [D -> Int] /\ DOMAIN f = D /\ D \in SUBSET D /\ \A x \in D : f[x] = 1
  OBVIOUS
<1> HIDE DEF f
<1>1. {} \in P
  BY <1>0, SumsStep, FS_EmptySet
<1>2. ASSUME NEW s \in SUBSET D, s # {}, \A x \in s : s \ {x} \in P PROVE s \in P
  <2>0. PICK x \in s : x = First(s)
    BY <1>2, FirstIn
  <2>1. Sums(f)[s] = f[x] + Sums(f)[s \ {x}]
    BY <1>0, <1>2, <2>0, SumsStep
  <2>2. IsFiniteSet(s) /\ Cardinality(s) \in Nat
    BY FS_Subset, FS_CardinalityType
  <2>3. Cardinality(s \ {x}) = Cardinality(s) - 1
    BY <2>2, FS_RemoveElement
  <2>4. Sums(f)[s \ {x}] = Cardinality(s \ {x}) /\ f[x] = 1
    BY <1>0, <1>2
  <2> QED BY <2>1, <2>2, <2>3, <2>4
<1>3. SUBSET D \subseteq P
  <2> HIDE DEF P
  <2> QED BY <1>1, <1>2, EverySubset
<1>4. Total(f) = Cardinality(D)
  BY <1>0, <1>3, TotalIsSum
<1> QED BY <1>4 DEF f

\* Some term is the highest.
LEMMA HighestTerm ==
  ASSUME NEW D, IsFiniteSet(D), D # {}, NEW f \in [D -> Int]
  PROVE  \E x \in D : \A y \in D : f[x] >= f[y]
<1> DEFINE P == {s \in SUBSET D : s # {} => \E x \in s : \A y \in s : f[x] >= f[y]}
<1>1. {} \in P
  OBVIOUS
<1>2. ASSUME NEW s \in SUBSET D, s # {}, \A x \in s : s \ {x} \in P PROVE s \in P
  <2>1. PICK x \in s : TRUE
    BY <1>2
  <2>2. CASE s \ {x} = {}
    <3>1. \A y \in s : y = x
      BY <2>2
    <3> QED BY <3>1
  <2>3. CASE s \ {x} # {}
    <3>1. PICK z \in s \ {x} : \A y \in s \ {x} : f[z] >= f[y]
      BY <1>2, <2>3
    <3>2. \A y \in s : y = x \/ f[z] >= f[y]
      BY <3>1
    <3>3. PICK h \in {x, z} : f[h] >= f[x] /\ f[h] >= f[z]
      OBVIOUS
    <3>4. \A y \in s : f[h] >= f[y]
      BY <3>2, <3>3
    <3> QED BY <3>4
  <2> QED BY <2>2, <2>3
<1>3. SUBSET D \subseteq P
  <2> HIDE DEF P
  <2> QED BY <1>1, <1>2, EverySubset
<1> QED BY <1>3

(***************************************************************************)
(* One hour                                                                *)
(***************************************************************************)

\* Twice what n hours may drift.
Drift(n) == HourDrift * n

LEMMA Drifts ==
  \A n \in Nat : /\ Drift(n) \in Nat /\ Drift(0) = 0
                 /\ Drift(n + 1) = Drift(n) + 3 * Quantum + 2 * SolverSlack
                 /\ n <= H => Drift(n) <= Drift(H)
<1> SUFFICES ASSUME NEW n \in Nat
             PROVE  /\ Drift(n) \in Nat /\ Drift(0) = 0
                    /\ Drift(n + 1) = Drift(n) + 3 * Quantum + 2 * SolverSlack
                    /\ n <= H => Drift(n) <= Drift(H)
  OBVIOUS
<1>1. PICK t \in Nat : t = HourDrift /\ t = 3 * Quantum + 2 * SolverSlack
  BY ReplayAssumption DEF HourDrift
<1>2. t * n \in Nat /\ t * 0 = 0 /\ t * (n + 1) = t * n + t
  OBVIOUS
<1>3. ASSUME n <= H PROVE t * n <= t * H
  BY <1>3, ReplayAssumption
<1>4. /\ Drift(n) = t * n /\ Drift(0) = t * 0 /\ Drift(n + 1) = t * (n + 1)
      /\ Drift(H) = t * H
  BY <1>1 DEF Drift
<1> QED BY <1>1, <1>2, <1>3, <1>4, ReplayAssumption

LEMMA MovedNear ==
  ASSUME NEW f \in Int
  PROVE  /\ Moved(f) \in Whole /\ Moved(f) \in Int
         /\ 2 * (Moved(f) - f) <= 3 * Quantum /\ 2 * (f - Moved(f)) <= 3 * Quantum
         /\ Moved(f) # 0 => 2 * (Moved(f) - f) <= Quantum /\ 2 * (f - Moved(f)) <= Quantum
         /\ Moved(f) > 0 => Moved(f) >= 2 * Quantum
         /\ Moved(f) < 0 => Moved(f) <= -(2 * Quantum)
<1>1. PICK r \in Int : /\ r = Rounded(f) /\ r \in Whole
                       /\ Size(f) >= Quantum => 2 * Size(r - f) <= Quantum
                       /\ Size(f) < Quantum => r = 0
  BY RoundedNear, WholeMod
<1>2. Quantum \in Nat \ {0}
  BY ReplayAssumption
<1>3. r > Quantum => r >= 2 * Quantum
  BY <1>1, <1>2, WholeAbove
<1>4. r < -Quantum => r <= -(2 * Quantum)
  BY <1>1, <1>2, WholeAbove
<1>5. Moved(f) = IF Size(r) > Quantum THEN r ELSE 0
  BY <1>1 DEF Moved
<1>6. Moved(f) \in Whole
  BY <1>1, <1>5, WholeClosed
<1> QED BY <1>1, <1>2, <1>3, <1>4, <1>5, <1>6 DEF Size

LEMMA NotNegativeNear ==
  ASSUME NEW v \in Int
  PROVE  /\ NotNegative(v) \in Whole /\ NotNegative(v) \in Nat
         /\ v - NotNegative(v) < Quantum
         /\ v >= -Quantum => NotNegative(v) - v <= Quantum
<1>1. PICK r \in Int : /\ r = Rounded(v) /\ r \in Whole
                       /\ Size(v) >= Quantum => 2 * Size(r - v) <= Quantum
                       /\ Size(v) < Quantum => r = 0
  BY RoundedNear, WholeMod
<1>2. Quantum \in Nat \ {0}
  BY ReplayAssumption
<1>3. NotNegative(v) = IF r < 0 THEN 0 ELSE r
  BY <1>1 DEF NotNegative
<1>4. NotNegative(v) \in Whole
  BY <1>1, <1>3, WholeClosed
<1> QED BY <1>1, <1>2, <1>3, <1>4 DEF Size

LEMMA RoundedWithin ==
  ASSUME NEW v \in Int
  PROVE  /\ Rounded(v) \in Whole /\ Rounded(v) \in Int
         /\ Rounded(v) - v <= Quantum /\ v - Rounded(v) <= Quantum
<1>1. /\ Rounded(v) \in Whole /\ Rounded(v) \in Int
      /\ Size(v) >= Quantum => 2 * Size(Rounded(v) - v) <= Quantum
      /\ Size(v) < Quantum => Rounded(v) = 0
  BY RoundedNear, WholeMod
<1> QED BY <1>1, ReplayAssumption DEF Size

(***************************************************************************)
(* The invariant                                                           *)
(***************************************************************************)

Request ==
  [initial : Nat, minimum : [Hours -> Nat],
   charge_allowed : [Hours -> BOOLEAN], discharge_allowed : [Hours -> BOOLEAN],
   solar : [Hours -> Nat], grid_cap : [Hours -> Nat],
   tariff : [Hours -> Nat], demand : [Hours -> Nat]]

Amounts == [energy_after : [Hours -> Int], battery_flow : [Hours -> Int],
            grid : [Hours -> Int], solar_used : [Hours -> Int]]

HourPlans == [grid : Int, solar_used : Int, moved : Int, energy_after : Int]

Typed ==
  /\ given \in Request /\ solution \in Amounts /\ Solves(given, solution)
  /\ phase \in {"building", "replaying", "accepted", "rejected", "unserializable"}
  /\ hour \in 1..(H + 1) /\ energy \in Int
  /\ plan \in Seq(HourPlans)
  /\ IF phase \in {"building", "unserializable"} THEN Len(plan) = hour - 1 ELSE Len(plan) = H

\* Item x holds the rounded values of hour h of the solution.
Fits(x, h) ==
  /\ x.grid \in Whole /\ x.grid >= 0 /\ x.solar_used \in Whole /\ x.solar_used >= 0
  /\ x.energy_after \in Whole /\ x.energy_after >= 0
  /\ x.moved = Moved(solution.battery_flow[h])
  /\ solution.grid[h] - x.grid < Quantum /\ x.grid - solution.grid[h] <= Quantum
  /\ solution.solar_used[h] - x.solar_used < Quantum
  /\ x.solar_used - solution.solar_used[h] <= Quantum
  /\ 2 * (x.energy_after - solution.energy_after[h]) <= Drift(h) + 2 * Quantum
  /\ 2 * (solution.energy_after[h] - x.energy_after) <= Drift(h) + 2 * Quantum

ReportedBefore(h) == IF h = 1 THEN given.initial ELSE plan[h - 1].energy_after

\* After the first hour the reported energies are the running sum of the moves.
Chained(x, h) ==
  IF h = 1 THEN /\ x.energy_after - (ReportedBefore(h) + x.moved) <= Quantum
                /\ ReportedBefore(h) + x.moved - x.energy_after <= Quantum
  ELSE x.energy_after = ReportedBefore(h) + x.moved

PlanFits == \A h \in DOMAIN plan : Fits(plan[h], h) /\ Chained(plan[h], h)

\* The running energy of the builder is the last one reported.
BuilderAt == energy = ReportedBefore(hour)

\* Energy a is near the solution's and the plan's after hour h.
Replayed(a, h) ==
  /\ a \in Int
  /\ 2 * (a - solution.energy_after[h]) <= Drift(h)
  /\ 2 * (solution.energy_after[h] - a) <= Drift(h)
  /\ plan[h].energy_after - a <= Quantum /\ a - plan[h].energy_after <= Quantum

\* The running energy of the validator is that of the hours it has replayed.
ReplayAt ==
  IF hour = 1 THEN energy = given.initial ELSE Replayed(energy, hour - 1)

\* Why the loop of the validator rejects a plan, and why one is not written.
SmallAction ==
  \E h \in Hours : /\ Size(solution.battery_flow[h]) > Quantum
                   /\ 2 * Size(solution.battery_flow[h]) <= 2 * Tolerance + Quantum

Explained ==
  /\ phase = "rejected" => reason = "zero magnitude" /\ SmallAction
  /\ phase = "unserializable" =>
       hour \in Hours /\ 2 * solution.energy_after[hour] <= Drift(hour) + 2 * Quantum

\* The totals of the response are those of the whole plan.
TotalsAdded ==
  totals = [grid |-> Rounded(Total(Grid)), cost |-> Rounded(Total(Cost)), peak |-> Rounded(Peak)]

IInv ==
  /\ Typed /\ PlanFits /\ Explained
  /\ phase \in {"building", "unserializable"} => BuilderAt
  /\ phase \in {"replaying", "accepted", "rejected"} => ReplayAt /\ TotalsAdded

LEMMA InitIInv == Init => IInv
<1> SUFFICES ASSUME Init PROVE IInv
  OBVIOUS
<1>1. given \in Request /\ solution \in Amounts /\ Solves(given, solution)
  BY CasesAssumption DEF Init, Request, Amounts
<1>2. given.initial \in Int
  BY <1>1 DEF Request
<1>3. plan = <<>> /\ plan \in Seq(HourPlans) /\ Len(plan) = 0 /\ DOMAIN plan = {}
  <2>1. plan = <<>>
    BY DEF Init
  <2> QED BY <2>1
<1>4. Typed
  BY <1>1, <1>2, <1>3, ReplayAssumption DEF Init, Typed
<1> QED BY <1>3, <1>4 DEF Init, IInv, PlanFits, Explained, BuilderAt, ReportedBefore

\* What the LP says of hour h.
LEMMA SolvedHour ==
  ASSUME Typed, NEW h \in Hours
  PROVE  /\ solution.battery_flow[h] \in Int /\ solution.energy_after[h] \in Int
         /\ solution.grid[h] \in Int /\ solution.solar_used[h] \in Int
         /\ given.initial \in Nat /\ given.minimum[h] \in Nat /\ given.demand[h] \in Nat
         /\ given.solar[h] \in Nat /\ given.grid_cap[h] \in Nat
         /\ given.charge_allowed[h] \in BOOLEAN /\ given.discharge_allowed[h] \in BOOLEAN
         /\ h = 1 => Meets(solution.energy_after[1] - solution.battery_flow[1], given.initial)
         /\ h > 1 => /\ h - 1 \in Hours /\ solution.energy_after[h - 1] \in Int
                     /\ Meets(solution.energy_after[h] - solution.battery_flow[h],
                              solution.energy_after[h - 1])
         /\ Meets(solution.grid[h] + solution.solar_used[h] - solution.battery_flow[h],
                  given.demand[h])
         /\ -SolverSlack <= solution.grid[h] /\ solution.grid[h] <= given.grid_cap[h] + SolverSlack
         /\ -SolverSlack <= solution.solar_used[h]
         /\ solution.solar_used[h] <= given.solar[h] + SolverSlack
         /\ solution.battery_flow[h] <= MaxCharge + SolverSlack
         /\ -solution.battery_flow[h] <= MaxDischarge + SolverSlack
         /\ ~given.charge_allowed[h] => solution.battery_flow[h] <= SolverSlack
         /\ ~given.discharge_allowed[h] => -solution.battery_flow[h] <= SolverSlack
         /\ given.minimum[h] - SolverSlack <= solution.energy_after[h]
         /\ solution.energy_after[h] <= Capacity + SolverSlack
<1>1. /\ solution.battery_flow[h] \in Int /\ solution.energy_after[h] \in Int
      /\ solution.grid[h] \in Int /\ solution.solar_used[h] \in Int
      /\ given.initial \in Nat /\ given.minimum[h] \in Nat /\ given.demand[h] \in Nat
      /\ given.solar[h] \in Nat /\ given.grid_cap[h] \in Nat
      /\ given.charge_allowed[h] \in BOOLEAN /\ given.discharge_allowed[h] \in BOOLEAN
  BY DEF Typed, Request, Amounts
<1>2. h > 1 => h - 1 \in Hours /\ solution.energy_after[h - 1] \in Int
  BY ReplayAssumption DEF Typed, Amounts, Hours
<1>3. h = 1 => Meets(solution.energy_after[1] - solution.battery_flow[1], given.initial)
  BY DEF Typed, Solves, Before
<1>4. h > 1 => Meets(solution.energy_after[h] - solution.battery_flow[h],
                     solution.energy_after[h - 1])
  BY DEF Typed, Solves, Before
<1>5. /\ Meets(solution.grid[h] + solution.solar_used[h] - solution.battery_flow[h],
               given.demand[h])
      /\ Within(0, solution.grid[h], given.grid_cap[h])
      /\ Within(0, solution.solar_used[h], given.solar[h])
      /\ Within(IF given.discharge_allowed[h] THEN -MaxDischarge ELSE 0, solution.battery_flow[h],
                IF given.charge_allowed[h] THEN MaxCharge ELSE 0)
      /\ Within(given.minimum[h], solution.energy_after[h], Capacity)
  BY DEF Typed, Solves
<1> QED BY <1>1, <1>2, <1>3, <1>4, <1>5, ReplayAssumption DEF Within

\* The drift after hour h is that of the hour before it and one hour's more.
LEMMA DriftsHour ==
  ASSUME NEW h \in Hours
  PROVE  /\ Drift(h) \in Int /\ Drift(h) <= Drift(H)
         /\ Drift(1) = 3 * Quantum + 2 * SolverSlack
         /\ h > 1 => /\ Drift(h - 1) \in Int
                     /\ Drift(h) = Drift(h - 1) + 3 * Quantum + 2 * SolverSlack
<1>1. h - 1 \in Nat /\ h \in Nat /\ h <= H /\ h = (h - 1) + 1 /\ H \in Nat
  BY ReplayAssumption DEF Hours
<1>2. Drift(h) = Drift(h - 1) + 3 * Quantum + 2 * SolverSlack /\ Drift(h - 1) \in Nat
  BY <1>1, Drifts
<1>3. Drift(1) = 3 * Quantum + 2 * SolverSlack
  <2>1. Drift(0 + 1) = Drift(0) + 3 * Quantum + 2 * SolverSlack /\ Drift(0) = 0
    BY Drifts
  <2> QED BY <2>1, ReplayAssumption
<1> QED BY <1>1, <1>2, <1>3, Drifts

\* The energy the builder reports next, whether the last one was rounded or not.
LEMMA EnergyNear ==
  ASSUME IInv, phase \in {"building", "unserializable"}, NEW h \in Hours, h = hour
  PROVE  /\ EnergyReported(h) \in Whole /\ EnergyReported(h) \in Int
         /\ 2 * (EnergyReported(h) - solution.energy_after[h]) <= Drift(h) + 2 * Quantum
         /\ 2 * (solution.energy_after[h] - EnergyReported(h)) <= Drift(h) + 2 * Quantum
         /\ IF h = 1
            THEN /\ EnergyReported(h) - (energy + Moved(solution.battery_flow[h])) <= Quantum
                 /\ energy + Moved(solution.battery_flow[h]) - EnergyReported(h) <= Quantum
            ELSE EnergyReported(h) = energy + Moved(solution.battery_flow[h])
<1> DEFINE f == solution.battery_flow[h]
<1>1. /\ f \in Int /\ solution.energy_after[h] \in Int /\ given.initial \in Int
      /\ h = 1 => /\ solution.energy_after[1] - f - given.initial <= SolverSlack
                  /\ given.initial - (solution.energy_after[1] - f) <= SolverSlack
      /\ h > 1 => /\ h - 1 \in Hours /\ solution.energy_after[h - 1] \in Int
                  /\ solution.energy_after[h] - f - solution.energy_after[h - 1] <= SolverSlack
                  /\ solution.energy_after[h - 1] - (solution.energy_after[h] - f) <= SolverSlack
  BY SolvedHour, ReplayAssumption DEF IInv, Meets, Within
<1>2. PICK m \in Whole : /\ m = Moved(f) /\ m \in Int
                         /\ 2 * (m - f) <= 3 * Quantum /\ 2 * (f - m) <= 3 * Quantum
  BY <1>1, MovedNear
<1>3. EnergyReported(h) = Rounded(energy + m) /\ energy \in Int
  BY <1>2 DEF EnergyReported, IInv, Typed
<1>4. PICK r \in Whole : /\ r = EnergyReported(h) /\ r \in Int
                         /\ r - (energy + m) <= Quantum /\ energy + m - r <= Quantum
  BY <1>2, <1>3, RoundedWithin
<1>5. /\ Drift(h) \in Int /\ Drift(1) = 3 * Quantum + 2 * SolverSlack
      /\ h > 1 => /\ Drift(h - 1) \in Int
                  /\ Drift(h) = Drift(h - 1) + 3 * Quantum + 2 * SolverSlack
  BY DriftsHour
<1>6. Quantum \in Nat \ {0} /\ SolverSlack \in Nat
  BY ReplayAssumption
<1>7. CASE h = 1
  <2>1. energy = given.initial
    BY <1>7 DEF IInv, BuilderAt, ReportedBefore
  <2> QED BY <1>1, <1>2, <1>4, <1>5, <1>6, <1>7, <2>1
<1>8. CASE h # 1
  <2>1. h > 1 /\ h - 1 \in DOMAIN plan
    <3>1. DOMAIN plan = 1..Len(plan) /\ Len(plan) = h - 1
      BY LenProperties DEF IInv, Typed
    <3> QED BY <1>8, <3>1, ReplayAssumption DEF Hours
  <2>2. Fits(plan[h - 1], h - 1) /\ energy = plan[h - 1].energy_after
    BY <1>8, <2>1 DEF IInv, PlanFits, BuilderAt, ReportedBefore
  <2>3. /\ energy \in Whole
        /\ 2 * (energy - solution.energy_after[h - 1]) <= Drift(h - 1) + 2 * Quantum
        /\ 2 * (solution.energy_after[h - 1] - energy) <= Drift(h - 1) + 2 * Quantum
    BY <2>2 DEF Fits
  <2>4. r = energy + m
    BY <1>2, <1>3, <1>4, <2>3, WholeClosed, RoundedWhole
  <2>5. /\ 2 * (r - solution.energy_after[h]) <= Drift(h) + 2 * Quantum
        /\ 2 * (solution.energy_after[h] - r) <= Drift(h) + 2 * Quantum
    BY <1>1, <1>2, <1>3, <1>5, <1>6, <2>1, <2>3, <2>4
  <2> QED BY <1>2, <1>4, <1>8, <2>4, <2>5
<1> QED BY <1>7, <1>8

\* The hour the builder appends fits.
LEMMA AppendedFits ==
  ASSUME IInv, phase = "building", NEW h \in Hours, h = hour, Serializable(h)
  PROVE  /\ Fits(Item(h), h) /\ Chained(Item(h), h)
         /\ Item(h) \in HourPlans /\ Item(h).energy_after = EnergyReported(h)
<1>1. /\ solution.grid[h] \in Int /\ solution.solar_used[h] \in Int
      /\ solution.battery_flow[h] \in Int
  BY SolvedHour DEF IInv
<1>2. Moved(solution.battery_flow[h]) \in Int
  BY <1>1, MovedNear
<1>3. /\ solution.grid[h] >= -Quantum /\ solution.solar_used[h] >= -Quantum
      /\ EnergyReported(h) >= 0
  BY DEF Serializable
<1>4. /\ NotNegative(solution.grid[h]) \in Whole /\ NotNegative(solution.grid[h]) \in Nat
      /\ solution.grid[h] - NotNegative(solution.grid[h]) < Quantum
      /\ NotNegative(solution.grid[h]) - solution.grid[h] <= Quantum
  BY <1>1, <1>3, NotNegativeNear
<1>5. /\ NotNegative(solution.solar_used[h]) \in Whole /\ NotNegative(solution.solar_used[h]) \in Nat
      /\ solution.solar_used[h] - NotNegative(solution.solar_used[h]) < Quantum
      /\ NotNegative(solution.solar_used[h]) - solution.solar_used[h] <= Quantum
  BY <1>1, <1>3, NotNegativeNear
<1>6. /\ Item(h).grid = NotNegative(solution.grid[h])
      /\ Item(h).solar_used = NotNegative(solution.solar_used[h])
      /\ Item(h).moved = Moved(solution.battery_flow[h])
      /\ Item(h).energy_after = EnergyReported(h)
  BY DEF Item
<1>7. energy = ReportedBefore(h)
  BY DEF IInv, BuilderAt
<1>8. Item(h) \in HourPlans
  BY <1>2, <1>4, <1>5, EnergyNear DEF Item, HourPlans
<1>9. Fits(Item(h), h)
  BY <1>3, <1>4, <1>5, <1>6, EnergyNear DEF Fits
<1>10. Chained(Item(h), h)
  BY <1>6, <1>7, EnergyNear DEF Chained
<1> QED BY <1>6, <1>8, <1>9, <1>10

LEMMA BuildHourIInv == ASSUME IInv, BuildHour PROVE IInv'
<1>1. PICK h \in Hours : h = hour /\ h \in Int /\ h >= 1 /\ h <= H
  BY ReplayAssumption DEF BuildHour, IInv, Typed, Hours
<1>2. /\ phase = "building" /\ Serializable(h) /\ plan' = Append(plan, Item(h))
      /\ energy' = EnergyReported(h) /\ hour' = h + 1
      /\ UNCHANGED <<given, solution, phase, totals, reason>>
  BY <1>1 DEF BuildHour
<1>3. /\ Fits(Item(h), h) /\ Chained(Item(h), h)
      /\ Item(h) \in HourPlans /\ Item(h).energy_after = EnergyReported(h)
  BY <1>1, <1>2, AppendedFits
<1>4. plan \in Seq(HourPlans) /\ Len(plan) = h - 1
  BY <1>1, <1>2 DEF IInv, Typed
<1>5. /\ plan' \in Seq(HourPlans) /\ Len(plan') = h
      /\ plan'[h] = Item(h) /\ \A i \in 1..(h - 1) : plan'[i] = plan[i]
  BY <1>1, <1>2, <1>3, <1>4, AppendProperties
<1>6. DOMAIN plan = 1..(h - 1) /\ DOMAIN plan' = 1..h
  BY <1>4, <1>5, LenProperties
<1>7. energy' = plan'[h].energy_after /\ energy' \in Int
  BY <1>2, <1>3, <1>5 DEF HourPlans
<1>8. Typed'
  <2>1. Typed /\ hour' \in 1..(H + 1)
    BY <1>1, <1>2, ReplayAssumption DEF IInv, Hours
  <2> QED BY <1>1, <1>2, <1>5, <1>7, <2>1 DEF Typed, Solves, Before
<1>9. PlanFits'
  <2> SUFFICES ASSUME NEW i \in 1..h PROVE Fits(plan[i], i)' /\ Chained(plan[i], i)'
    BY <1>6 DEF PlanFits
  <2>1. CASE i = h
    <3>1. h > 1 => plan'[h - 1] = plan[h - 1]
      BY <1>1, <1>5
    <3>2. Fits(plan'[h], h)
      BY <1>3, <1>5
    <3> QED BY <1>1, <1>2, <1>3, <1>5, <2>1, <3>1, <3>2 DEF Fits, Chained, ReportedBefore
  <2>2. CASE i # h
    <3>1. i \in 1..(h - 1) /\ plan'[i] = plan[i]
      BY <1>1, <1>5, <2>2
    <3>2. i # 1 => plan'[i - 1] = plan[i - 1]
      BY <1>1, <1>5, <3>1
    <3>3. Fits(plan[i], i) /\ Chained(plan[i], i)
      BY <1>6, <3>1 DEF IInv, PlanFits
    <3> QED BY <1>2, <3>1, <3>2, <3>3 DEF Fits, Chained, ReportedBefore
  <2> QED BY <2>1, <2>2
<1>10. BuilderAt'
  <2>1. hour' # 1 /\ hour' - 1 = h
    BY <1>1, <1>2
  <2> QED BY <1>7, <2>1 DEF BuilderAt, ReportedBefore
<1> QED BY <1>2, <1>8, <1>9, <1>10 DEF IInv, Explained

LEMMA BuildFailsIInv == ASSUME IInv, BuildFails PROVE IInv'
<1>1. PICK h \in Hours : h = hour /\ h \in Int /\ h >= 1 /\ h <= H
  BY ReplayAssumption DEF BuildFails, IInv, Typed, Hours
<1>2. /\ phase = "building" /\ ~Serializable(h) /\ phase' = "unserializable"
      /\ UNCHANGED <<given, solution, plan, totals, hour, energy, reason>>
  BY <1>1 DEF BuildFails
<1>3. Typed' /\ PlanFits' /\ BuilderAt'
  BY <1>2 DEF IInv, Typed, PlanFits, Fits, Chained, BuilderAt, ReportedBefore, Solves, Before
<1>4. 2 * solution.energy_after[h] <= Drift(h) + 2 * Quantum
  <2>1. /\ solution.grid[h] \in Int /\ solution.grid[h] >= -SolverSlack
        /\ solution.solar_used[h] \in Int /\ solution.solar_used[h] >= -SolverSlack
        /\ solution.energy_after[h] \in Int
    BY SolvedHour DEF IInv
  <2>2. solution.grid[h] >= -Quantum /\ solution.solar_used[h] >= -Quantum
    BY <2>1, ToleranceAssumption, ReplayAssumption
  <2>3. /\ EnergyReported(h) \in Int
        /\ 2 * (solution.energy_after[h] - EnergyReported(h)) <= Drift(h) + 2 * Quantum
    BY <1>1, <1>2, EnergyNear
  <2>4. EnergyReported(h) < 0
    BY <1>2, <2>2, <2>3 DEF Serializable
  <2>5. Drift(h) \in Int
    BY DriftsHour
  <2> QED BY <2>1, <2>3, <2>4, <2>5, ReplayAssumption
<1> QED BY <1>1, <1>2, <1>3, <1>4 DEF IInv, Explained

LEMMA BuiltIInv == ASSUME IInv, Built PROVE IInv'
<1>1. /\ phase = "building" /\ hour > H /\ phase' = "replaying" /\ hour' = 1
      /\ energy' = given.initial /\ UNCHANGED <<given, solution, plan, reason>>
  BY DEF Built
<1>2. hour = H + 1 /\ Len(plan) = H
  BY <1>1, ReplayAssumption DEF IInv, Typed
<1>3. Typed'
  BY <1>1, <1>2, ReplayAssumption DEF IInv, Typed, Request, Solves, Before
<1>4. TotalsAdded'
  BY <1>1 DEF Built, TotalsAdded, Grid, Cost, Peak
<1> QED BY <1>1, <1>3, <1>4
        DEF IInv, PlanFits, Fits, Chained, ReportedBefore, Explained, ReplayAt

\* What the plan and the validator's running energy are at hour h.
LEMMA ReplayNear ==
  ASSUME IInv, phase = "replaying", NEW h \in Hours, h = hour
  PROVE  /\ plan[h].moved \in Int /\ plan[h].energy_after \in Int
         /\ plan[h].grid \in Int /\ plan[h].solar_used \in Int
         /\ plan[h].moved = Moved(solution.battery_flow[h])
         /\ Fits(plan[h], h)
         /\ Replayed(energy + plan[h].moved, h)
<1> DEFINE f == solution.battery_flow[h]
<1>1. /\ f \in Int /\ solution.energy_after[h] \in Int /\ given.initial \in Int
      /\ h = 1 => /\ solution.energy_after[1] - f - given.initial <= SolverSlack
                  /\ given.initial - (solution.energy_after[1] - f) <= SolverSlack
      /\ h > 1 => /\ h - 1 \in Hours /\ solution.energy_after[h - 1] \in Int
                  /\ solution.energy_after[h] - f - solution.energy_after[h - 1] <= SolverSlack
                  /\ solution.energy_after[h - 1] - (solution.energy_after[h] - f) <= SolverSlack
  BY SolvedHour, ReplayAssumption DEF IInv, Meets, Within
<1>2. DOMAIN plan = Hours /\ \A i \in Hours : plan[i] \in HourPlans
  <2>1. plan \in Seq(HourPlans) /\ Len(plan) = H
    BY DEF IInv, Typed
  <2> QED BY <2>1, LenProperties, ElementOfSeq DEF Hours
<1>3. PICK m \in Int : /\ m = Moved(f) /\ 2 * (m - f) <= 3 * Quantum /\ 2 * (f - m) <= 3 * Quantum
  BY <1>1, MovedNear
<1>4. Fits(plan[h], h) /\ Chained(plan[h], h) /\ plan[h].moved = m
  BY <1>2, <1>3 DEF IInv, PlanFits, Fits
<1>5. PICK e \in Int : e = plan[h].energy_after
  BY <1>2 DEF HourPlans
<1>6. plan[h].grid \in Int /\ plan[h].solar_used \in Int
  BY <1>2 DEF HourPlans
<1>7. /\ Drift(h) \in Int /\ Drift(1) = 3 * Quantum + 2 * SolverSlack
      /\ h > 1 => /\ Drift(h - 1) \in Int
                  /\ Drift(h) = Drift(h - 1) + 3 * Quantum + 2 * SolverSlack
  BY DriftsHour
<1>8. Quantum \in Nat \ {0} /\ SolverSlack \in Nat /\ energy \in Int
  BY ReplayAssumption DEF IInv, Typed
<1>9. CASE h = 1
  <2>1. energy = given.initial
    BY <1>9 DEF IInv, ReplayAt
  <2>2. e - (energy + m) <= Quantum /\ energy + m - e <= Quantum
    BY <1>4, <1>5, <1>9, <2>1 DEF Chained, ReportedBefore
  <2>3. /\ 2 * (energy + m - solution.energy_after[h]) <= Drift(h)
        /\ 2 * (solution.energy_after[h] - (energy + m)) <= Drift(h)
    BY <1>1, <1>3, <1>7, <1>8, <1>9, <2>1
  <2>4. PICK a \in Int : a = energy + m
    BY <1>8
  <2>5. Replayed(a, h)
    BY <1>1, <1>5, <1>7, <1>8, <2>2, <2>3, <2>4 DEF Replayed
  <2> QED BY <1>3, <1>4, <1>5, <1>6, <2>4, <2>5
<1>10. CASE h # 1
  <2>1. h > 1
    BY <1>10, ReplayAssumption DEF Hours
  <2>2. PICK d \in Int : d = plan[h - 1].energy_after
    BY <1>1, <1>2, <2>1 DEF HourPlans
  <2>3. /\ 2 * (energy - solution.energy_after[h - 1]) <= Drift(h - 1)
        /\ 2 * (solution.energy_after[h - 1] - energy) <= Drift(h - 1)
        /\ d - energy <= Quantum /\ energy - d <= Quantum
    BY <1>10, <2>2 DEF IInv, ReplayAt, Replayed
  <2>4. e = d + m
    BY <1>4, <1>5, <1>10, <2>2 DEF Chained, ReportedBefore
  <2>5. e - (energy + m) <= Quantum /\ energy + m - e <= Quantum
    BY <1>3, <1>8, <2>2, <2>3, <2>4
  <2>6. /\ 2 * (energy + m - solution.energy_after[h]) <= Drift(h)
        /\ 2 * (solution.energy_after[h] - (energy + m)) <= Drift(h)
    BY <1>1, <1>3, <1>7, <1>8, <2>1, <2>3
  <2>7. PICK a \in Int : a = energy + m
    BY <1>8
  <2>8. Replayed(a, h)
    BY <1>1, <1>5, <1>7, <1>8, <2>5, <2>6, <2>7 DEF Replayed
  <2> QED BY <1>3, <1>4, <1>5, <1>6, <2>7, <2>8
<1> QED BY <1>9, <1>10

LEMMA TotalsKept ==
  ASSUME TotalsAdded, UNCHANGED <<given, plan, totals>>
  PROVE  TotalsAdded'
BY DEF TotalsAdded, Grid, Cost, Peak

LEMMA ReplayHourIInv == ASSUME IInv, ReplayHour PROVE IInv'
<1>1. PICK h \in Hours : h = hour /\ h \in Int /\ h >= 1 /\ h <= H
  BY ReplayAssumption DEF ReplayHour, IInv, Typed, Hours
<1>2. /\ phase = "replaying" /\ energy' = energy + plan[h].moved /\ hour' = h + 1
      /\ UNCHANGED <<given, solution, phase, plan, totals, reason>>
  BY <1>1 DEF ReplayHour
<1>3. Replayed(energy', h) /\ energy' \in Int
  <2>1. Replayed(energy + plan[h].moved, h)
    BY <1>1, <1>2, ReplayNear
  <2>2. Replayed(energy', h)
    BY <1>2, <2>1
  <2> QED BY <2>2 DEF Replayed
<1>4. hour' \in 1..(H + 1) /\ hour' # 1 /\ hour' - 1 = h
  BY <1>1, <1>2, ReplayAssumption
<1>5. Typed'
  BY <1>2, <1>3, <1>4 DEF IInv, Typed, Solves, Before
<1>6. ReplayAt'
  BY <1>2, <1>3, <1>4 DEF ReplayAt, Replayed
<1>7. PlanFits'
  BY <1>2 DEF IInv, PlanFits, Fits, Chained, ReportedBefore
<1>8. TotalsAdded'
  BY <1>2, TotalsKept DEF IInv
<1> QED BY <1>2, <1>5, <1>6, <1>7, <1>8 DEF IInv, Explained

\* The loop goes on when every check passes.
LEMMA PassesAll ==
  ASSUME NEW h,
         ~(plan[h].moved # 0 /\ Size(plan[h].moved) <= Tolerance),
         ~(plan[h].moved > MaxCharge + Tolerance),
         ~(-plan[h].moved > MaxDischarge + Tolerance),
         ~(plan[h].moved > Tolerance /\ ~given.charge_allowed[h]),
         ~(-plan[h].moved > Tolerance /\ ~given.discharge_allowed[h]),
         CloseTo(plan[h].energy_after, energy + plan[h].moved),
         ~(energy + plan[h].moved < given.minimum[h] - Tolerance),
         ~(energy + plan[h].moved > Capacity + Tolerance),
         ~(plan[h].solar_used > given.solar[h] + Tolerance),
         ~(plan[h].grid > given.grid_cap[h] + Tolerance),
         CloseTo(plan[h].grid + plan[h].solar_used - plan[h].moved, given.demand[h])
  PROVE  Verdict(h) = "none"
BY DEF Verdict

\* The loop of the validator finds nothing but a small action, whatever of
\* several failing checks CASE takes.
LEMMA VerdictSmall ==
  ASSUME IInv, phase = "replaying", NEW h \in Hours, h = hour
  PROVE  Verdict(h) = "none" \/ (Verdict(h) = "zero magnitude" /\ SmallAction)
<1>1. PICK f \in Int : /\ f = solution.battery_flow[h]
                       /\ f <= MaxCharge + SolverSlack /\ -f <= MaxDischarge + SolverSlack
                       /\ ~given.charge_allowed[h] => f <= SolverSlack
                       /\ ~given.discharge_allowed[h] => -f <= SolverSlack
  BY SolvedHour DEF IInv
<1>2. PICK m \in Int :
        /\ m = plan[h].moved /\ m = Moved(f)
        /\ 2 * (m - f) <= 3 * Quantum /\ 2 * (f - m) <= 3 * Quantum
        /\ m # 0 => 2 * (m - f) <= Quantum /\ 2 * (f - m) <= Quantum
        /\ m > 0 => m >= 2 * Quantum
        /\ m < 0 => m <= -(2 * Quantum)
  BY <1>1, MovedNear, ReplayNear
<1>3. PICK q \in Nat \ {0}, tol \in Nat, sl \in Nat, d \in Int :
        /\ q = Quantum /\ tol = Tolerance /\ sl = SolverSlack /\ d = Drift(h)
        /\ sl <= q /\ 2 * tol >= 7 * q + 2 * sl /\ 2 * tol >= d + 2 * sl
  <2>1. Drift(H) \in Int /\ Drift(h) \in Int /\ Drift(h) <= Drift(H)
    BY Drifts, DriftsHour, ReplayAssumption
  <2>2. 2 * Tolerance >= Drift(H) + 2 * SolverSlack
    BY ToleranceAssumption DEF Drift
  <2>3. 2 * Tolerance >= 7 * Quantum + 2 * SolverSlack /\ SolverSlack <= Quantum
    BY ToleranceAssumption
  <2>4. 2 * Tolerance >= Drift(h) + 2 * SolverSlack
    BY <2>1, <2>2, ReplayAssumption
  <2> QED BY <2>1, <2>3, <2>4, ReplayAssumption
<1>4. ~(plan[h].moved > MaxCharge + Tolerance) /\ ~(-plan[h].moved > MaxDischarge + Tolerance)
  BY <1>1, <1>2, <1>3, ReplayAssumption
<1>5. /\ ~(plan[h].moved > Tolerance /\ ~given.charge_allowed[h])
      /\ ~(-plan[h].moved > Tolerance /\ ~given.discharge_allowed[h])
  BY <1>1, <1>2, <1>3
<1>6. PICK a \in Int : a = energy + plan[h].moved /\ Replayed(a, h)
  <2>1. Replayed(energy + plan[h].moved, h)
    BY ReplayNear
  <2> QED BY <2>1 DEF Replayed
<1>7. CloseTo(plan[h].energy_after, energy + plan[h].moved)
  <2>1. PICK e \in Int : e = plan[h].energy_after
    BY ReplayNear
  <2>2. e - a <= q /\ a - e <= q
    BY <1>3, <1>6, <2>1 DEF Replayed
  <2>3. Size(e - a) <= tol
    BY <1>3, <2>2 DEF Size
  <2> QED BY <1>3, <1>6, <2>1, <2>3 DEF CloseTo
<1>8. /\ ~(energy + plan[h].moved < given.minimum[h] - Tolerance)
      /\ ~(energy + plan[h].moved > Capacity + Tolerance)
  <2>1. PICK x \in Int, y \in Int :
          /\ x = solution.energy_after[h] /\ y = given.minimum[h]
          /\ y - SolverSlack <= x /\ x <= Capacity + SolverSlack
    BY SolvedHour DEF IInv
  <2>2. 2 * (a - x) <= d /\ 2 * (x - a) <= d
    BY <1>3, <1>6, <2>1 DEF Replayed
  <2> QED BY <1>3, <1>6, <2>1, <2>2, ReplayAssumption
<1>9. PICK g \in Int, s \in Int :
        /\ g = plan[h].grid /\ s = plan[h].solar_used
        /\ solution.grid[h] - g < Quantum /\ g - solution.grid[h] <= Quantum
        /\ solution.solar_used[h] - s < Quantum /\ s - solution.solar_used[h] <= Quantum
  BY ReplayNear DEF Fits
<1>10. /\ ~(plan[h].solar_used > given.solar[h] + Tolerance)
       /\ ~(plan[h].grid > given.grid_cap[h] + Tolerance)
       /\ CloseTo(plan[h].grid + plan[h].solar_used - plan[h].moved, given.demand[h])
  <2>1. PICK G \in Int, S \in Int, sun \in Int, cap \in Int, need \in Int :
          /\ G = solution.grid[h] /\ S = solution.solar_used[h]
          /\ sun = given.solar[h] /\ cap = given.grid_cap[h] /\ need = given.demand[h]
          /\ Meets(G + S - f, need) /\ G <= cap + SolverSlack /\ S <= sun + SolverSlack
    BY <1>1, SolvedHour DEF IInv
  <2>2. G + S - f - need <= sl /\ need - (G + S - f) <= sl
    BY <1>3, <2>1 DEF Meets, Within
  <2>3. /\ ~(s > sun + tol) /\ ~(g > cap + tol)
        /\ g + s - m - need <= tol /\ need - (g + s - m) <= tol
    BY <1>2, <1>3, <1>9, <2>1, <2>2
  <2>4. Size(g + s - m - need) <= tol
    BY <2>3 DEF Size
  <2> QED BY <1>2, <1>3, <1>9, <2>1, <2>3, <2>4 DEF CloseTo
<1>11. CASE plan[h].moved # 0 /\ Size(plan[h].moved) <= Tolerance
  <2>1. m # 0 /\ m <= tol /\ -m <= tol
    BY <1>2, <1>3, <1>11 DEF Size
  <2>2. Size(f) > q /\ 2 * Size(f) <= 2 * tol + q
    BY <1>2, <1>3, <2>1 DEF Size
  <2>3. SmallAction
    BY <1>1, <1>3, <2>2 DEF SmallAction
  <2>4. Verdict(h) = "zero magnitude"
    BY <1>4, <1>5, <1>7, <1>8, <1>10, <1>11 DEF Verdict
  <2> QED BY <2>3, <2>4
<1>12. CASE ~(plan[h].moved # 0 /\ Size(plan[h].moved) <= Tolerance)
  <2>1. Verdict(h) = "none"
    BY <1>4, <1>5, <1>7, <1>8, <1>10, <1>12, PassesAll, ZenonT(60)
  <2> QED BY <2>1
<1> QED BY <1>11, <1>12

\* Which checks the validator can come to inside the loop and after it.
LEMMA FindsInLoop ==
  ASSUME hour <= H, ~(hour > H)
  PROVE  Finding = Verdict(hour)
BY DEF Finding

LEMMA FindsAfterLoop ==
  ASSUME ~(hour <= H), CloseTo(energy, given.initial), CloseTo(totals.grid, Total(Grid)),
         CloseTo(totals.cost, Total(Cost)), CloseTo(totals.peak, Peak)
  PROVE  Finding = "none"
BY DEF Finding

\* The columns of a whole plan.
LEMMA Columns ==
  ASSUME IInv, phase \in {"replaying", "accepted", "rejected"}
  PROVE  /\ IsFiniteSet(Hours) /\ Cardinality(Hours) = H /\ Hours # {} /\ DOMAIN plan = Hours
         /\ Grid \in [Hours -> Int] /\ Cost \in [Hours -> Int]
         /\ \A h \in Hours : /\ Grid[h] = plan[h].grid /\ Grid[h] \in Whole /\ Grid[h] >= 0
                            /\ Fits(plan[h], h) /\ given.tariff[h] \in Nat
                            /\ Quantum * Cost[h] = Grid[h] * given.tariff[h]
<1>1. H \in Nat \ {0} /\ Quantum \in Nat \ {0}
  BY ReplayAssumption
<1>2. IsFiniteSet(Hours) /\ Cardinality(Hours) = H /\ Hours # {}
  <2>1. IsFiniteSet(1..H) /\ Cardinality(1..H) = IF 1 > H THEN 0 ELSE H - 1 + 1
    BY <1>1, FS_Interval
  <2>2. 1 \in 1..H /\ ~(1 > H) /\ H - 1 + 1 = H
    BY <1>1
  <2> QED BY <2>1, <2>2 DEF Hours
<1>3. DOMAIN plan = Hours /\ \A h \in Hours : plan[h] \in HourPlans
  <2>1. plan \in Seq(HourPlans) /\ Len(plan) = H
    BY DEF IInv, Typed
  <2> QED BY <2>1, LenProperties, ElementOfSeq DEF Hours
<1>4. \A h \in Hours : Fits(plan[h], h) /\ given.tariff[h] \in Nat
  BY <1>3 DEF IInv, PlanFits, Typed, Request
<1>5. Grid = [h \in Hours |-> plan[h].grid]
  BY <1>3 DEF Grid
<1>6. \A h \in Hours : Grid[h] = plan[h].grid /\ Grid[h] \in Whole /\ Grid[h] >= 0
  BY <1>4, <1>5 DEF Fits
<1>7. Grid \in [Hours -> Int]
  BY <1>5, <1>6, WholeMod
<1>8. Cost = [h \in Hours |-> (plan[h].grid \div Quantum) * given.tariff[h]]
  BY <1>3 DEF Cost
<1>9. ASSUME NEW h \in Hours
      PROVE  Cost[h] \in Int /\ Quantum * Cost[h] = Grid[h] * given.tariff[h]
  <2>1. PICK k \in Int : Grid[h] = k * Quantum
    BY <1>6 DEF Whole
  <2>2. PICK q \in Nat \ {0}, t \in Nat : q = Quantum /\ t = given.tariff[h]
    BY <1>1, <1>4
  <2>3. PICK g \in Int : g = Grid[h] /\ g = q * k + 0
    BY <2>1, <2>2
  <2>4. g \div q = k
    BY <2>3, Unique
  <2>5. Cost[h] = (g \div q) * t
    BY <1>6, <1>8, <2>2, <2>3
  <2>6. Cost[h] = k * t
    BY <2>4, <2>5
  <2>7. q * (k * t) = (k * q) * t /\ k * t \in Int
    OBVIOUS
  <2> QED BY <2>1, <2>2, <2>6, <2>7
<1>10. Cost \in [Hours -> Int]
  BY <1>8, <1>9
<1> QED BY <1>2, <1>3, <1>4, <1>6, <1>7, <1>9, <1>10

\* The peak is the amount of one hour, and of no hour less than that.
LEMMA PeakReached ==
  ASSUME IInv, phase \in {"replaying", "accepted", "rejected"}
  PROVE  /\ Peak \in Int /\ Peak \in Whole
         /\ \E h \in Hours : Peak = Grid[h]
         /\ \A h \in Hours : Peak >= Grid[h]
<1>1. PICK x \in Hours : \A y \in Hours : Grid[x] >= Grid[y]
  BY Columns, HighestTerm
<1>2. Range(Grid) = {Grid[h] : h \in Hours}
  BY Columns DEF Range
<1>3. Grid[x] \in Range(Grid) /\ \A w \in Range(Grid) : Grid[x] >= w
  BY <1>1, <1>2
<1>4. Peak \in Range(Grid) /\ \A w \in Range(Grid) : Peak >= w
  BY <1>3 DEF Peak
<1>5. \A h \in Hours : Grid[h] \in Whole /\ Grid[h] \in Int
  BY Columns
<1> QED BY <1>2, <1>4, <1>5

\* The validator finds the totals it computes itself.
LEMMA TotalsFound ==
  ASSUME IInv, phase \in {"replaying", "accepted", "rejected"}
  PROVE  /\ Total(Grid) \in Int /\ Total(Cost) \in Int /\ Peak \in Int
         /\ totals.grid = Total(Grid) /\ totals.peak = Peak
         /\ totals.cost \in Int
         /\ totals.cost - Total(Cost) <= Quantum /\ Total(Cost) - totals.cost <= Quantum
         /\ CloseTo(totals.grid, Total(Grid)) /\ CloseTo(totals.cost, Total(Cost))
         /\ CloseTo(totals.peak, Peak)
<1>1. Total(Grid) \in Int /\ Total(Cost) \in Int
  BY Columns, TotalInt
<1>2. Total(Grid) \in Whole
  BY Columns, WholeClosed, TotalWithin
<1>3. /\ totals.grid = Rounded(Total(Grid)) /\ totals.cost = Rounded(Total(Cost))
      /\ totals.peak = Rounded(Peak)
  BY DEF IInv, TotalsAdded
<1>4. Peak \in Int /\ Peak \in Whole
  BY PeakReached
<1>5. totals.grid = Total(Grid) /\ totals.peak = Peak
  BY <1>2, <1>3, <1>4, RoundedWhole
<1>6. /\ totals.cost \in Int
      /\ totals.cost - Total(Cost) <= Quantum /\ Total(Cost) - totals.cost <= Quantum
  BY <1>1, <1>3, RoundedWithin
<1>7. 2 * Tolerance >= 7 * Quantum /\ Tolerance \in Nat /\ Quantum \in Nat \ {0}
  BY ReplayAssumption, ToleranceAssumption
<1>8. CloseTo(totals.grid, Total(Grid)) /\ CloseTo(totals.peak, Peak)
  BY <1>1, <1>4, <1>5, <1>7 DEF CloseTo, Size
<1>9. CloseTo(totals.cost, Total(Cost))
  <2>1. PICK a \in Int, b \in Int : /\ a = totals.cost /\ b = Total(Cost)
                                  /\ a - b <= Quantum /\ b - a <= Quantum
    BY <1>1, <1>6
  <2>2. Size(a - b) <= Tolerance
    BY <1>7, <2>1 DEF Size
  <2> QED BY <2>1, <2>2 DEF CloseTo
<1> QED BY <1>1, <1>4, <1>5, <1>6, <1>8, <1>9

LEMMA ReplayFailsIInv == ASSUME IInv, ReplayFails PROVE IInv'
<1>1. /\ phase = "replaying" /\ phase' = "rejected" /\ reason' = Finding /\ Finding # "none"
      /\ UNCHANGED <<given, solution, plan, totals, hour, energy>>
  BY DEF ReplayFails
<1>2. Typed' /\ PlanFits' /\ ReplayAt'
  BY <1>1 DEF IInv, Typed, PlanFits, Fits, Chained, ReportedBefore, ReplayAt, Replayed,
         Solves, Before
<1>3. Finding = "zero magnitude" /\ SmallAction
  <2>1. hour \in Nat /\ H \in Nat
    BY ReplayAssumption DEF IInv, Typed
  <2>2. CASE hour <= H
    <3>1. hour \in Hours
      BY <2>1, <2>2 DEF IInv, Typed, Hours
    <3>2. Finding = Verdict(hour)
      <4>1. ~(hour > H)
        BY <2>1, <2>2
      <4> QED BY <2>2, <4>1, FindsInLoop
    <3> QED BY <1>1, <3>1, <3>2, VerdictSmall
  <2>3. CASE hour > H
    <3>1. CloseTo(energy, given.initial)
      <4>1. hour # 1 /\ hour - 1 = H /\ H \in Hours
        BY <2>1, <2>3, ReplayAssumption DEF IInv, Typed, Hours
      <4>2. /\ 2 * (energy - solution.energy_after[H]) <= Drift(H)
            /\ 2 * (solution.energy_after[H] - energy) <= Drift(H)
        BY <1>1, <4>1 DEF IInv, ReplayAt, Replayed
      <4>3. /\ solution.energy_after[H] \in Int /\ given.initial \in Int
            /\ solution.energy_after[H] - given.initial <= SolverSlack
            /\ given.initial - solution.energy_after[H] <= SolverSlack
        BY <4>1, SolvedHour, ReplayAssumption DEF IInv, Typed, Solves, Meets, Within
      <4>4. energy \in Int /\ Drift(H) \in Int
        BY <4>1, DriftsHour DEF IInv, Typed
      <4>5. 2 * Tolerance >= Drift(H) + 2 * SolverSlack
        BY ToleranceAssumption DEF Drift
      <4> QED BY <4>2, <4>3, <4>4, <4>5, ReplayAssumption DEF CloseTo, Size
    <3>2. ~(hour <= H)
      BY <2>1, <2>3
    <3>3. /\ CloseTo(totals.grid, Total(Grid)) /\ CloseTo(totals.cost, Total(Cost))
          /\ CloseTo(totals.peak, Peak)
      BY <1>1, TotalsFound
    <3>4. Finding = "none"
      BY <3>1, <3>2, <3>3, FindsAfterLoop
    <3> QED BY <1>1, <3>4
  <2>4. hour <= H \/ hour > H
    BY <2>1
  <2> QED BY <2>2, <2>3, <2>4, Zenon
<1>4. SmallAction' = SmallAction
  BY <1>1 DEF SmallAction
<1>5. TotalsAdded'
  BY <1>1, TotalsKept DEF IInv
<1> QED BY <1>1, <1>2, <1>3, <1>4, <1>5 DEF IInv, Explained

LEMMA AcceptIInv == ASSUME IInv, Accept PROVE IInv'
<1>1. /\ phase = "replaying" /\ phase' = "accepted"
      /\ UNCHANGED <<given, solution, plan, totals, hour, energy, reason>>
  BY DEF Accept
<1>2. Typed' /\ PlanFits' /\ ReplayAt'
  BY <1>1 DEF IInv, Typed, PlanFits, Fits, Chained, ReportedBefore, ReplayAt, Replayed,
         Solves, Before
<1>3. TotalsAdded'
  BY <1>1, TotalsKept DEF IInv
<1> QED BY <1>1, <1>2, <1>3 DEF IInv, Explained

LEMMA NextIInv == IInv /\ [Next]_vars => IInv'
<1> SUFFICES ASSUME IInv, [Next]_vars PROVE IInv'
  OBVIOUS
<1>1. CASE Next
  BY <1>1, BuildHourIInv, BuildFailsIInv, BuiltIInv, ReplayHourIInv, ReplayFailsIInv, AcceptIInv
     DEF Next
<1>2. CASE UNCHANGED vars
  <2>1. Typed' /\ PlanFits'
    BY <1>2 DEF vars, IInv, Typed, PlanFits, Fits, Chained, ReportedBefore, Solves, Before
  <2>2. ReplayAt' <=> ReplayAt
    BY <1>2 DEF vars, ReplayAt, Replayed
  <2>3. (BuilderAt' <=> BuilderAt) /\ (SmallAction' <=> SmallAction)
    BY <1>2 DEF vars, BuilderAt, ReportedBefore, SmallAction
  <2>4. TotalsAdded => TotalsAdded'
    BY <1>2, TotalsKept DEF vars
  <2> QED BY <1>2, <2>1, <2>2, <2>3, <2>4 DEF vars, IInv, Explained
<1> QED BY <1>1, <1>2

LEMMA Always == Spec => []IInv
  BY InitIInv, NextIInv, PTL DEF Spec

(***************************************************************************)
(* The theorems                                                            *)
(***************************************************************************)

\* The plan consists of whole quanta, and none but a discharge is negative, for
\* every solution of the LP.
THEOREM TypeCorrect == Spec => []TypeOK
<1>1. IInv => TypeOK
  <2> SUFFICES ASSUME IInv PROVE TypeOK
    OBVIOUS
  <2>1. /\ phase \in {"building", "replaying", "accepted", "rejected", "unserializable"}
        /\ hour \in 1..(H + 1) /\ energy \in Int /\ plan \in Seq(HourPlans)
        /\ IF phase \in {"building", "unserializable"} THEN Len(plan) = hour - 1 ELSE Len(plan) = H
    BY DEF IInv, Typed
  <2>2. Len(plan) <= H /\ (phase = "building" => Len(plan) = hour - 1)
    BY <2>1, ReplayAssumption
  <2>3. ASSUME NEW h \in DOMAIN plan
        PROVE  /\ \A v \in {plan[h].grid, plan[h].solar_used, plan[h].energy_after} :
                    v >= 0 /\ v % Quantum = 0
               /\ plan[h].moved % Quantum = 0
    <3>1. Fits(plan[h], h) /\ h \in Hours
      <4>1. DOMAIN plan = 1..Len(plan) /\ Len(plan) \in Nat
        BY <2>1, LenProperties
      <4> QED BY <2>2, <2>3, <4>1, ReplayAssumption DEF IInv, PlanFits, Hours
    <3>2. solution.battery_flow[h] \in Int
      BY <3>1, SolvedHour DEF IInv
    <3> QED BY <3>1, <3>2, MovedNear, WholeMod DEF Fits
  <2> QED BY <2>1, <2>2, <2>3 DEF TypeOK
<1> QED BY <1>1, Always, PTL

\* Over a day of any length the replayed battery stays within one and a half
\* quanta and the solver's slack an hour of the LP's, and the energy reported
\* within a quantum more.
THEOREM DriftKept == Spec => []DriftBounded
<1>1. IInv => DriftBounded
  <2> SUFFICES ASSUME IInv PROVE DriftBounded
    OBVIOUS
  <2>1. ASSUME phase = "replaying", hour > 1
        PROVE  2 * Size(energy - solution.energy_after[hour - 1]) <= HourDrift * (hour - 1)
    <3>1. PICK h \in Hours : h = hour - 1
      BY <2>1, ReplayAssumption DEF IInv, Typed, Hours
    <3>2. hour # 1
      BY <2>1
    <3>3. PICK a \in Int, x \in Int, d \in Int :
            /\ a = energy /\ x = solution.energy_after[h] /\ d = Drift(h)
            /\ 2 * (a - x) <= d /\ 2 * (x - a) <= d
      BY <2>1, <3>1, <3>2, SolvedHour, DriftsHour DEF IInv, ReplayAt, Replayed
    <3>4. 2 * Size(a - x) <= d
      BY <3>3 DEF Size
    <3> QED BY <3>1, <3>3, <3>4 DEF Drift
  <2>2. ASSUME NEW h \in DOMAIN plan
        PROVE  2 * Size(plan[h].energy_after - solution.energy_after[h])
                 <= HourDrift * h + 2 * Quantum
    <3>1. plan \in Seq(HourPlans) /\ Len(plan) <= H
      BY ReplayAssumption DEF IInv, Typed
    <3>2. h \in Hours /\ Fits(plan[h], h) /\ plan[h] \in HourPlans
      <4>1. DOMAIN plan = 1..Len(plan) /\ Len(plan) \in Nat
        BY <3>1, LenProperties
      <4> QED BY <2>2, <3>1, <4>1, ElementOfSeq, ReplayAssumption DEF IInv, PlanFits, Hours
    <3>3. PICK e \in Int, x \in Int, d \in Int :
            /\ e = plan[h].energy_after /\ x = solution.energy_after[h] /\ d = Drift(h)
            /\ 2 * (e - x) <= d + 2 * Quantum /\ 2 * (x - e) <= d + 2 * Quantum
      BY <3>2, SolvedHour, DriftsHour DEF IInv, Fits, HourPlans
    <3>4. 2 * Size(e - x) <= d + 2 * Quantum
      BY <3>3, ReplayAssumption DEF Size
    <3> QED BY <3>3, <3>4 DEF Drift
  <2> QED BY <2>1, <2>2 DEF DriftBounded
<1> QED BY <1>1, Always, PTL

\* No check of the validator but the one for small battery actions ever rejects
\* a plan built from a solution of the LP: neither another check of the loop, nor
\* neutrality, nor the totals; and a plan that cannot be written down ends an
\* hour with next to nothing in the battery.
THEOREM RejectionsJustified == Spec => []RejectionsExplained
<1>1. IInv => RejectionsExplained
  <2> SUFFICES ASSUME IInv, phase = "unserializable"
               PROVE  2 * solution.energy_after[hour] <= HourDrift * hour + 2 * Quantum
    BY DEF IInv, Explained, SmallAction, RejectionsExplained
  <2>1. hour \in Hours /\ 2 * solution.energy_after[hour] <= Drift(hour) + 2 * Quantum
    BY DEF IInv, Explained
  <2> QED BY <2>1 DEF Drift
<1> QED BY <1>1, Always, PTL

\* The total of an accepted plan is off the solution's by at most a quantum an
\* hour, its peak by at most a quantum, its cost by at most what a quantum an
\* hour costs and the quantum it is rounded to.
THEOREM TotalsKeptFaithful == Spec => []TotalsFaithful
<1>1. IInv => TotalsFaithful
  <2> SUFFICES ASSUME IInv, phase = "accepted" PROVE TotalsFaithful
    BY DEF TotalsFaithful
  <2> DEFINE Spent == [h \in Hours |-> solution.grid[h] * given.tariff[h]]
             Ones == [h \in Hours |-> 1]
  <2>1. /\ IsFiniteSet(Hours) /\ Cardinality(Hours) = H
        /\ Grid \in [Hours -> Int] /\ Cost \in [Hours -> Int]
    BY Columns
  <2>2. solution.grid \in [Hours -> Int] /\ given.tariff \in [Hours -> Int]
    BY DEF IInv, Typed, Request, Amounts
  <2>3. Quantum \in Nat \ {0} /\ H \in Nat \ {0}
    BY ReplayAssumption
  <2>4. \A h \in Hours : /\ solution.grid[h] - Grid[h] < Quantum
                        /\ Grid[h] - solution.grid[h] <= Quantum
    BY Columns DEF Fits
  <2>5. Size(totals.grid - Total(solution.grid)) <= H * Quantum
    <3>1. Ones \in [Hours -> Int] /\ \A h \in Hours : Ones[h] = 1
      OBVIOUS
    <3>2. Total(Ones) = H
      BY <2>1, TotalOnes
    <3> HIDE DEF Ones
    <3>3. \A h \in Hours : /\ 1 * Grid[h] - solution.grid[h] <= Quantum * Ones[h]
                          /\ solution.grid[h] - 1 * Grid[h] <= Quantum * Ones[h]
      BY <2>1, <2>2, <2>3, <2>4, <3>1
    <3>4. /\ 1 * Total(Grid) - Total(solution.grid) <= Quantum * Total(Ones)
          /\ Total(solution.grid) - 1 * Total(Grid) <= Quantum * Total(Ones)
      <4>1. 1 \in Int /\ Quantum \in Int
        BY <2>3
      <4> QED BY <2>1, <2>2, <3>1, <3>3, <4>1, TotalNear, Zenon
    <3>5. PICK a \in Int, b \in Int, c \in Int :
            a = Total(Grid) /\ b = Total(solution.grid) /\ c = Quantum * H
      BY <2>1, <2>2, <2>3, TotalInt
    <3>6. a - b <= c /\ b - a <= c
      BY <3>2, <3>4, <3>5
    <3>7. Size(a - b) <= c
      BY <3>6 DEF Size
    <3>8. c = H * Quantum
      BY <2>3, <3>5
    <3> QED BY <3>5, <3>7, <3>8, TotalsFound
  <2>6. \A h \in Hours : solution.grid[h] < totals.peak + Quantum
    <3> TAKE h \in Hours
    <3>1. totals.peak \in Int /\ totals.peak >= Grid[h]
      BY PeakReached, TotalsFound
    <3>2. Grid[h] \in Int /\ solution.grid[h] \in Int
      BY <2>1, <2>2
    <3> QED BY <2>3, <2>4, <3>1, <3>2
  <2>7. \E h \in Hours : Size(solution.grid[h] - totals.peak) <= Quantum
    <3>1. PICK h \in Hours : totals.peak = Grid[h]
      BY PeakReached, TotalsFound
    <3>2. Grid[h] \in Int /\ solution.grid[h] \in Int
      BY <2>1, <2>2
    <3>3. Size(solution.grid[h] - Grid[h]) <= Quantum
      BY <2>3, <2>4, <3>2 DEF Size
    <3> QED BY <3>1, <3>3
  <2>8. 2 * Size(Quantum * totals.cost - Total(Spent))
          <= Quantum * (2 * Total(given.tariff) + 2 * Quantum)
    <3>1. ASSUME NEW h \in Hours
          PROVE  /\ solution.grid[h] * given.tariff[h] \in Int
                 /\ Quantum * Cost[h] - solution.grid[h] * given.tariff[h]
                      <= Quantum * given.tariff[h]
                 /\ solution.grid[h] * given.tariff[h] - Quantum * Cost[h]
                      <= Quantum * given.tariff[h]
      <4>1. PICK g \in Int, s \in Int, t \in Nat, q \in Nat :
              /\ g = Grid[h] /\ s = solution.grid[h] /\ t = given.tariff[h] /\ q = Quantum
              /\ s - g <= q /\ g - s <= q /\ q * Cost[h] = g * t
        BY <2>1, <2>2, <2>3, <2>4, Columns
      <4>2. g * t - s * t <= q * t /\ s * t - g * t <= q * t /\ s * t \in Int
        <5>1. (g - s) * t <= q * t /\ (s - g) * t <= q * t
          BY <4>1
        <5>2. (g - s) * t = g * t - s * t /\ (s - g) * t = s * t - g * t
          OBVIOUS
        <5> QED BY <5>1, <5>2
      <4> QED BY <4>1, <4>2
    <3>2. Spent \in [Hours -> Int] /\ \A h \in Hours : Spent[h] = solution.grid[h] * given.tariff[h]
      BY <3>1
    <3> HIDE DEF Spent
    <3>3. \A h \in Hours : /\ Quantum * Cost[h] - Spent[h] <= Quantum * given.tariff[h]
                          /\ Spent[h] - Quantum * Cost[h] <= Quantum * given.tariff[h]
      BY <3>1, <3>2
    <3>4. /\ Quantum * Total(Cost) - Total(Spent) <= Quantum * Total(given.tariff)
          /\ Total(Spent) - Quantum * Total(Cost) <= Quantum * Total(given.tariff)
      <4>1. Quantum \in Int
        BY <2>3
      <4> QED BY <2>1, <2>2, <3>2, <3>3, <4>1, TotalNear, Zenon
    <3>5. PICK c \in Int, C \in Int, S \in Int, t \in Int, q \in Nat :
            /\ c = totals.cost /\ C = Total(Cost) /\ S = Total(Spent)
            /\ t = Total(given.tariff) /\ q = Quantum
            /\ c - C <= q /\ C - c <= q
            /\ q * C - S <= q * t /\ S - q * C <= q * t
      BY <2>1, <2>2, <2>3, <3>2, <3>4, TotalInt, TotalsFound
    <3>6. /\ q * c - q * C <= q * q /\ q * C - q * c <= q * q
      <4>1. q * (c - C) <= q * q /\ q * (C - c) <= q * q
        BY <3>5
      <4>2. q * (c - C) = q * c - q * C /\ q * (C - c) = q * C - q * c
        OBVIOUS
      <4> QED BY <4>1, <4>2
    <3>7. PICK a \in Int, b \in Int, d \in Int, e \in Int :
            a = q * c /\ b = q * C /\ d = q * t /\ e = q * q
      OBVIOUS
    <3>8. a - S <= d + e /\ S - a <= d + e
      BY <3>5, <3>6, <3>7
    <3>9. 2 * Size(a - S) <= 2 * d + 2 * e
      BY <3>8 DEF Size
    <3>10. q * (2 * t + 2 * q) = 2 * d + 2 * e
      BY <3>7
    <3> QED BY <3>5, <3>7, <3>9, <3>10
  <2> QED BY <2>5, <2>6, <2>7, <2>8 DEF TotalsFaithful
<1> QED BY <1>1, Always, PTL

(***************************************************************************)
(* What the validator decides                                              *)
(***************************************************************************)

\* The energy the moves of the plan leave after hour h; after hour 0, the start.
StoredAfter(h) == given.initial + Total([k \in 1..h |-> plan[k].moved])

\* Hour h of the plan obeys the request, by the sum of the moves up to it.
HourObeys(h) ==
  /\ plan[h].moved # 0 => Size(plan[h].moved) > Tolerance
  /\ plan[h].moved <= MaxCharge + Tolerance /\ -plan[h].moved <= MaxDischarge + Tolerance
  /\ ~given.charge_allowed[h] => plan[h].moved <= Tolerance
  /\ ~given.discharge_allowed[h] => -plan[h].moved <= Tolerance
  /\ CloseTo(plan[h].energy_after, StoredAfter(h))
  /\ StoredAfter(h) >= given.minimum[h] - Tolerance /\ StoredAfter(h) <= Capacity + Tolerance
  /\ plan[h].solar_used <= given.solar[h] + Tolerance
  /\ plan[h].grid <= given.grid_cap[h] + Tolerance
  /\ CloseTo(plan[h].grid + plan[h].solar_used - plan[h].moved, given.demand[h])

\* The day ends as it began, and the totals are those of its hours.
DayObeys ==
  /\ CloseTo(StoredAfter(H), given.initial)
  /\ CloseTo(totals.grid, Total(Grid)) /\ CloseTo(totals.cost, Total(Cost))
  /\ CloseTo(totals.peak, Peak)

Obeys == DayObeys /\ \A h \in Hours : HourObeys(h)

LEMMA StoredFirst == ASSUME given.initial \in Int PROVE StoredAfter(0) = given.initial
<1>1. PICK f : f = [k \in 1..0 |-> plan[k].moved]
  OBVIOUS
<1>2. f \in [{} -> Int] /\ DOMAIN f = {} /\ IsFiniteSet({})
  BY <1>1, FS_EmptySet
<1>3. Sums(f)[{}] = 0
  BY <1>2, SumsStep
<1>4. Total(f) = 0
  BY <1>2, <1>3, TotalIsSum
<1> QED BY <1>1, <1>4 DEF StoredAfter

\* Every hour adds its move.
LEMMA StoredStep ==
  ASSUME \A h \in Hours : plan[h].moved \in Int, given.initial \in Int
  PROVE  /\ StoredAfter(0) = given.initial
         /\ \A h \in Hours : /\ StoredAfter(h) \in Int /\ StoredAfter(h - 1) \in Int
                             /\ StoredAfter(h) = StoredAfter(h - 1) + plan[h].moved
<1> DEFINE Moves(n) == [k \in 1..n |-> plan[k].moved]
<1>1. H \in Nat \ {0} /\ Hours = 1..H
  BY ReplayAssumption DEF Hours
<1>2. \A n \in 0..H : Moves(n) \in [1..n -> Int] /\ IsFiniteSet(1..n)
  BY <1>1, FS_Interval
<1>3. \A n \in 0..H : Total(Moves(n)) \in Int
  BY <1>2, TotalInt
<1>5. ASSUME NEW h \in Hours
      PROVE  Total(Moves(h)) = Total(Moves(h - 1)) + plan[h].moved
  <2>1. h \in 0..H /\ h - 1 \in 0..H /\ h \in Nat \ {0} /\ h \in 1..h
    BY <1>1
  <2>2. Moves(h)[h] = plan[h].moved /\ \A k \in 1..(h - 1) : Moves(h)[k] = Moves(h - 1)[k]
    BY <2>1
  <2> HIDE DEF Moves
  <2>3. PICK n \in Nat \ {0} : n = h
    BY <2>1
  <2>4. PICK D, f, g : D = 1..n /\ f = Moves(n) /\ g = Moves(n - 1)
    OBVIOUS
  <2>5. IsFiniteSet(D) /\ n \in D /\ 1..(n - 1) = D \ {n}
    BY <1>2, <2>1, <2>3, <2>4
  <2>6. f \in [D -> Int] /\ g \in [D \ {n} -> Int] /\ \A k \in D \ {n} : f[k] = g[k]
    BY <1>2, <2>1, <2>2, <2>3, <2>4, <2>5
  <2>7. Total(f) = Total(g) + f[n]
    BY <2>5, <2>6, TotalOfOneMore
  <2> QED BY <2>2, <2>3, <2>4, <2>7
<1>6. \A n \in 0..H : StoredAfter(n) = given.initial + Total(Moves(n))
  BY DEF StoredAfter
<1> HIDE DEF Moves
<1>7. 0 \in 0..H /\ \A h \in Hours : h \in 0..H /\ h - 1 \in 0..H
  BY <1>1
<1>8. StoredAfter(0) = given.initial
  BY StoredFirst
<1>9. ASSUME NEW h \in Hours
      PROVE  /\ StoredAfter(h) \in Int /\ StoredAfter(h - 1) \in Int
             /\ StoredAfter(h) = StoredAfter(h - 1) + plan[h].moved
  <2>1. PICK a \in Int, b \in Int, m \in Int, i \in Int :
          /\ a = Total(Moves(h)) /\ b = Total(Moves(h - 1)) /\ m = plan[h].moved
          /\ i = given.initial /\ a = b + m
    BY <1>3, <1>5, <1>7
  <2>2. StoredAfter(h) = i + a /\ StoredAfter(h - 1) = i + b
    BY <1>6, <1>7, <2>1
  <2> QED BY <2>1, <2>2
<1> QED BY <1>8, <1>9

LEMMA ObeysKept ==
  ASSUME UNCHANGED <<given, plan, totals>>
  PROVE  /\ \A h \in Nat : StoredAfter(h)' = StoredAfter(h)
         /\ \A h \in Nat : HourObeys(h)' <=> HourObeys(h)
         /\ DayObeys' <=> DayObeys
<1>1. \A h \in Nat : StoredAfter(h)' = StoredAfter(h)
  BY DEF StoredAfter
<1>2. \A h \in Nat : HourObeys(h)' <=> HourObeys(h)
  BY <1>1 DEF HourObeys
<1>3. DayObeys' <=> DayObeys
  <2>1. StoredAfter(H)' = StoredAfter(H)
    BY <1>1, ReplayAssumption
  <2> QED BY <2>1 DEF DayObeys, Grid, Cost, Peak
<1> QED BY <1>1, <1>2, <1>3

\* The checks the loop passes are those of the hour.
LEMMA PassedAll ==
  ASSUME NEW h, Verdict(h) = "none"
  PROVE  /\ ~(plan[h].moved # 0 /\ Size(plan[h].moved) <= Tolerance)
         /\ ~(plan[h].moved > MaxCharge + Tolerance)
         /\ ~(-plan[h].moved > MaxDischarge + Tolerance)
         /\ ~(plan[h].moved > Tolerance /\ ~given.charge_allowed[h])
         /\ ~(-plan[h].moved > Tolerance /\ ~given.discharge_allowed[h])
         /\ CloseTo(plan[h].energy_after, energy + plan[h].moved)
         /\ ~(energy + plan[h].moved < given.minimum[h] - Tolerance)
         /\ ~(energy + plan[h].moved > Capacity + Tolerance)
         /\ ~(plan[h].solar_used > given.solar[h] + Tolerance)
         /\ ~(plan[h].grid > given.grid_cap[h] + Tolerance)
         /\ CloseTo(plan[h].grid + plan[h].solar_used - plan[h].moved, given.demand[h])
BY DEF Verdict

LEMMA FindsNothing ==
  ASSUME ~(hour <= H), hour > H, Finding = "none"
  PROVE  /\ CloseTo(energy, given.initial) /\ CloseTo(totals.grid, Total(Grid))
         /\ CloseTo(totals.cost, Total(Cost)) /\ CloseTo(totals.peak, Peak)
BY DEF Finding

LEMMA PlanMoves ==
  ASSUME IInv, phase \in {"replaying", "accepted", "rejected"}
  PROVE  given.initial \in Int /\ \A h \in Hours : plan[h].moved \in Int
<1>1. plan \in Seq(HourPlans) /\ Len(plan) = H
  BY DEF IInv, Typed
<1>2. \A h \in Hours : plan[h] \in HourPlans
  BY <1>1, LenProperties, ElementOfSeq DEF Hours
<1> QED BY <1>2 DEF HourPlans, IInv, Typed, Request

\* The loop's verdict on the hour it is at is about the sum of the moves.
LEMMA VerdictDecides ==
  ASSUME IInv, phase = "replaying", NEW h \in Hours, h = hour, energy = StoredAfter(h - 1)
  PROVE  /\ energy + plan[h].moved = StoredAfter(h)
         /\ Verdict(h) = "none" <=> HourObeys(h)
<1>1. /\ plan[h].moved \in Int /\ plan[h].energy_after \in Int
      /\ plan[h].grid \in Int /\ plan[h].solar_used \in Int
  BY ReplayNear
<1>2. energy + plan[h].moved = StoredAfter(h) /\ StoredAfter(h) \in Int
  BY PlanMoves, StoredStep
<1>3. /\ Tolerance \in Int /\ MaxCharge \in Int /\ MaxDischarge \in Int /\ Capacity \in Int
      /\ given.minimum[h] \in Int /\ given.solar[h] \in Int /\ given.grid_cap[h] \in Int
  BY ReplayAssumption, SolvedHour DEF IInv
<1>4. Size(plan[h].moved) \in Int
  BY <1>1 DEF Size
<1>5. ASSUME Verdict(h) = "none" PROVE HourObeys(h)
  <2>1. /\ ~(plan[h].moved # 0 /\ Size(plan[h].moved) <= Tolerance)
        /\ ~(plan[h].moved > MaxCharge + Tolerance)
        /\ ~(-plan[h].moved > MaxDischarge + Tolerance)
        /\ ~(plan[h].moved > Tolerance /\ ~given.charge_allowed[h])
        /\ ~(-plan[h].moved > Tolerance /\ ~given.discharge_allowed[h])
        /\ CloseTo(plan[h].energy_after, StoredAfter(h))
        /\ ~(StoredAfter(h) < given.minimum[h] - Tolerance)
        /\ ~(StoredAfter(h) > Capacity + Tolerance)
        /\ ~(plan[h].solar_used > given.solar[h] + Tolerance)
        /\ ~(plan[h].grid > given.grid_cap[h] + Tolerance)
        /\ CloseTo(plan[h].grid + plan[h].solar_used - plan[h].moved, given.demand[h])
    BY <1>2, <1>5, PassedAll
  <2> QED BY <1>1, <1>2, <1>3, <1>4, <2>1 DEF HourObeys
<1>6. ASSUME HourObeys(h) PROVE Verdict(h) = "none"
  <2>1. /\ ~(plan[h].moved # 0 /\ Size(plan[h].moved) <= Tolerance)
        /\ ~(plan[h].moved > MaxCharge + Tolerance)
        /\ ~(-plan[h].moved > MaxDischarge + Tolerance)
        /\ ~(plan[h].moved > Tolerance /\ ~given.charge_allowed[h])
        /\ ~(-plan[h].moved > Tolerance /\ ~given.discharge_allowed[h])
        /\ ~(StoredAfter(h) < given.minimum[h] - Tolerance)
        /\ ~(StoredAfter(h) > Capacity + Tolerance)
        /\ ~(plan[h].solar_used > given.solar[h] + Tolerance)
        /\ ~(plan[h].grid > given.grid_cap[h] + Tolerance)
    BY <1>1, <1>2, <1>3, <1>4, <1>6 DEF HourObeys
  <2>2. /\ CloseTo(plan[h].energy_after, StoredAfter(h))
        /\ CloseTo(plan[h].grid + plan[h].solar_used - plan[h].moved, given.demand[h])
    BY <1>6 DEF HourObeys
  <2> QED BY <1>2, <2>1, <2>2, PassesAll
<1> QED BY <1>2, <1>5, <1>6

\* The validator has replayed the hours before this one, and they obey.
ReplayedSoFar == energy = StoredAfter(hour - 1) /\ \A k \in 1..(hour - 1) : HourObeys(k)

\* What stops the validator is that the hour it is at, or the day, does not obey.
StoppedRightly == IF hour <= H THEN ~HourObeys(hour) ELSE ~DayObeys

Traced ==
  /\ phase \in {"replaying", "accepted", "rejected"} => ReplayedSoFar
  /\ phase = "accepted" => hour = H + 1 /\ DayObeys
  /\ phase = "rejected" => StoppedRightly

LEMMA ReplayTraced ==
  ASSUME IInv, Traced, phase = "replaying", hour <= H
  PROVE  /\ hour \in Hours /\ energy + plan[hour].moved = StoredAfter(hour)
         /\ Verdict(hour) = "none" <=> HourObeys(hour)
<1>1. hour \in Hours
  BY ReplayAssumption DEF IInv, Typed, Hours
<1>2. energy = StoredAfter(hour - 1)
  BY DEF Traced, ReplayedSoFar
<1> QED BY <1>1, <1>2, VerdictDecides

LEMMA TracedKept ==
  ASSUME UNCHANGED <<given, plan, totals, hour, energy>>
  PROVE  /\ ReplayedSoFar' <=> ReplayedSoFar
         /\ StoppedRightly' <=> StoppedRightly
         /\ DayObeys' <=> DayObeys
<1>1. ReplayedSoFar' <=> ReplayedSoFar
  BY DEF ReplayedSoFar, StoredAfter, HourObeys, CloseTo
<1>2. DayObeys' <=> DayObeys
  BY DEF DayObeys, StoredAfter, Grid, Cost, Peak, CloseTo
<1>3. HourObeys(hour)' <=> HourObeys(hour)
  BY DEF HourObeys, StoredAfter, CloseTo
<1>4. StoppedRightly' <=> StoppedRightly
  BY <1>2, <1>3 DEF StoppedRightly
<1> QED BY <1>1, <1>2, <1>4

LEMMA NextTraced == IInv /\ Traced /\ [Next]_vars => Traced'
<1> SUFFICES ASSUME IInv, Traced, [Next]_vars PROVE Traced'
  OBVIOUS
<1>0. hour \in Nat /\ hour >= 1 /\ hour <= H + 1 /\ H \in Nat \ {0}
  BY ReplayAssumption DEF IInv, Typed
<1>1. CASE BuildHour
  BY <1>1 DEF BuildHour, Traced
<1>2. CASE BuildFails
  BY <1>2 DEF BuildFails, Traced
<1>3. CASE Built
  <2>1. /\ phase' = "replaying" /\ hour' = 1 /\ energy' = given.initial
        /\ UNCHANGED <<given, solution, plan, reason>>
    BY <1>3 DEF Built
  <2>2. StoredAfter(0) = given.initial
    BY StoredFirst DEF IInv, Typed, Request
  <2>3. hour' - 1 = 0 /\ 1..0 = {}
    BY <2>1
  <2>4. StoredAfter(hour - 1)' = StoredAfter(0)
    BY <2>1, <2>3 DEF StoredAfter
  <2> QED BY <2>1, <2>2, <2>3, <2>4 DEF Traced, ReplayedSoFar
<1>4. CASE ReplayHour
  <2>1. /\ phase = "replaying" /\ hour <= H /\ Verdict(hour) = "none" /\ phase' = phase
        /\ energy' = energy + plan[hour].moved /\ hour' = hour + 1
        /\ UNCHANGED <<given, plan, totals>>
    BY <1>4 DEF ReplayHour
  <2>2. energy' = StoredAfter(hour) /\ HourObeys(hour)
    BY <2>1, ReplayTraced
  <2>3. hour' - 1 = hour /\ \A k \in 1..hour : k \in Nat /\ (k = hour \/ k \in 1..(hour - 1))
    BY <1>0, <2>1
  <2>4. \A k \in 1..hour : HourObeys(k)
    BY <2>1, <2>2, <2>3 DEF Traced, ReplayedSoFar
  <2>5. ASSUME NEW k \in 1..hour PROVE HourObeys(k)'
    BY <2>1, <2>3, <2>4, ObeysKept
  <2>6. StoredAfter(hour - 1)' = StoredAfter(hour)
    BY <2>1, <2>3 DEF StoredAfter
  <2>7. ReplayedSoFar'
    BY <2>2, <2>3, <2>5, <2>6 DEF ReplayedSoFar
  <2> QED BY <2>1, <2>7 DEF Traced
<1>5. CASE ReplayFails
  <2>1. /\ phase = "replaying" /\ Finding # "none" /\ phase' = "rejected"
        /\ UNCHANGED <<given, solution, plan, totals, hour, energy>>
    BY <1>5 DEF ReplayFails
  <2>2. StoppedRightly
    <3>1. CASE hour <= H
      <4>1. Finding = Verdict(hour)
        BY <1>0, <3>1, FindsInLoop
      <4>2. Verdict(hour) # "none"
        BY <2>1, <4>1
      <4>3. Verdict(hour) = "none" <=> HourObeys(hour)
        BY <2>1, <3>1, ReplayTraced
      <4>4. ~HourObeys(hour)
        BY <4>2, <4>3
      <4> QED BY <3>1, <4>4 DEF StoppedRightly
    <3>2. CASE ~(hour <= H)
      <4>1. hour - 1 = H
        BY <1>0, <3>2
      <4>2. energy = StoredAfter(H)
        BY <2>1, <4>1 DEF Traced, ReplayedSoFar
      <4>3. ASSUME DayObeys PROVE FALSE
        <5>1. /\ CloseTo(energy, given.initial) /\ CloseTo(totals.grid, Total(Grid))
              /\ CloseTo(totals.cost, Total(Cost)) /\ CloseTo(totals.peak, Peak)
          BY <4>2, <4>3 DEF DayObeys
        <5> QED BY <2>1, <3>2, <5>1, FindsAfterLoop
      <4> QED BY <3>2, <4>3 DEF StoppedRightly
    <3> QED BY <3>1, <3>2
  <2> QED BY <2>1, <2>2, TracedKept DEF Traced
<1>6. CASE Accept
  <2>1. /\ phase = "replaying" /\ hour > H /\ Finding = "none" /\ phase' = "accepted"
        /\ UNCHANGED <<given, solution, plan, totals, hour, energy>>
    BY <1>6 DEF Accept
  <2>2. hour = H + 1 /\ ~(hour <= H) /\ hour - 1 = H
    BY <1>0, <2>1
  <2>3. energy = StoredAfter(H)
    BY <2>1, <2>2 DEF Traced, ReplayedSoFar
  <2>4. DayObeys
    BY <2>1, <2>2, <2>3, FindsNothing DEF DayObeys
  <2> QED BY <2>1, <2>2, <2>4, TracedKept DEF Traced
<1>7. CASE UNCHANGED vars
  BY <1>7, TracedKept DEF vars, Traced
<1> QED BY <1>1, <1>2, <1>3, <1>4, <1>5, <1>6, <1>7 DEF Next

\* A plan the validator accepts obeys the request, hour by hour and as a whole,
\* and one that it rejects does not.
ValidatorDecides == /\ phase = "accepted" => Obeys
                    /\ phase = "rejected" => ~Obeys

\* The loop of validate_plan, which stops at the first check that fails and
\* carries the energy along, decides a statement about the plan alone.
THEOREM ValidatorExact == Spec => []ValidatorDecides
<1>1. Init => Traced
  BY DEF Init, Traced
<1>2. IInv /\ Traced => ValidatorDecides
  <2> SUFFICES ASSUME IInv, Traced PROVE ValidatorDecides
    OBVIOUS
  <2>1. hour \in Nat /\ hour >= 1 /\ H \in Nat \ {0}
    BY ReplayAssumption DEF IInv, Typed
  <2>2. ASSUME phase = "accepted" PROVE Obeys
    <3>1. hour - 1 = H
      BY <2>1, <2>2 DEF Traced
    <3> QED BY <2>2, <3>1 DEF Traced, ReplayedSoFar, Obeys, Hours
  <2>3. ASSUME phase = "rejected" PROVE ~Obeys
    <3>1. hour <= H => hour \in Hours
      BY <2>1 DEF Hours
    <3> QED BY <2>3, <3>1 DEF Traced, StoppedRightly, Obeys
  <2> QED BY <2>2, <2>3 DEF ValidatorDecides
<1> QED BY <1>1, <1>2, NextTraced, Always, PTL DEF Spec
=============================================================================
