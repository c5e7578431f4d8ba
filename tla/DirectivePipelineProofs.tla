---------------------- MODULE DirectivePipelineProofs ----------------------
(***************************************************************************)
(* What the parser and the guardrails decide about any answer, for a day   *)
(* of any length, any battery and any tolerance: an answer is accepted     *)
(* exactly when its directives say what its traces say, and an answer in   *)
(* the schema sent to Groq is parsed without loss.                         *)
(***************************************************************************)
EXTENDS DirectivePipeline, SequenceTheorems, WellFoundedInduction, TLAPS

\* The compiler with its theorems, on the directives that left the parser.
CP == INSTANCE DirectiveCompilerProofs WITH
        Requests <- Seq(PlainDirectives),
        directives <- [k \in DOMAIN directives |-> Plain(directives[k])]

(***************************************************************************)
(* Hours round the clock                                                   *)
(***************************************************************************)

LEMMA Division ==
  ASSUME NEW a \in Int, NEW b \in Nat \ {0}
  PROVE  /\ a \div b \in Int /\ a % b \in 0..(b - 1)
         /\ a = b * (a \div b) + (a % b)
  OBVIOUS

\* On the clock: at most one turn.
LEMMA OneTurn ==
  ASSUME NEW a \in Nat, NEW b \in Nat \ {0}, a < 2 * b
  PROVE  a % b = IF a < b THEN a ELSE a - b
<1>1. PICK q \in Int, r \in Int : q = a \div b /\ r = a % b /\ 0 <= r /\ r < b /\ a = b * q + r
  BY Division
<1>2. q >= 2 => b * q >= 2 * b
  OBVIOUS
<1>3. q <= -1 => b * q <= -b
  OBVIOUS
<1>4. b * q \in Int
  OBVIOUS
<1>5. q = 0 \/ q = 1
  BY <1>1, <1>2, <1>3, <1>4
<1>6. b * 0 = 0 /\ b * 1 = b
  OBVIOUS
<1> QED BY <1>1, <1>5, <1>6

\* The same of a sum that is given in parts.
LEMMA Clock ==
  ASSUME NEW x, NEW a \in Nat, x = a, a < 2 * H
  PROVE  x % H = IF a < H THEN a ELSE a - H
<1>1. a % H = IF a < H THEN a ELSE a - H
  BY GuardrailsAssumption, OneTurn
<1> QED BY <1>1

Window == [start : Hours, end : 0..H]

LEMMA WalkedIsExpanded ==
  ASSUME NEW w \in Window
  PROVE  Walked(w) = IF w.start = w.end THEN {} ELSE ExpandWindow(w)
<1>0. H \in Nat \ {0}
  BY GuardrailsAssumption
<1>1. PICK s \in Int, e \in Int : s = w.start /\ e = w.end /\ 0 <= s /\ s < H /\ 0 <= e /\ e <= H
  BY <1>0 DEF Window, Hours
<1>2. ASSUME NEW n \in Int, n <= H, n = IF e = H THEN H - s ELSE (e + H - s) % H
      PROVE  Walked(w) = {IF s + k < H THEN s + k ELSE s + k - H : k \in 0..(n - 1)}
  <2>1. \A k \in 0..(n - 1) : (s + k) % H = IF s + k < H THEN s + k ELSE s + k - H
    <3> TAKE k \in 0..(n - 1)
    <3>1. PICK a \in Nat : s + k = a /\ a < 2 * H
      BY <1>0, <1>1, <1>2
    <3>2. (s + k) % H = IF a < H THEN a ELSE a - H
      BY <3>1, Clock
    <3>3. (a < H <=> s + k < H) /\ a - H = s + k - H
      BY <1>0, <1>1, <3>1
    <3> QED BY <3>1, <3>2, <3>3, Zenon
  <2>2. Walked(w) = {(s + k) % H : k \in 0..(n - 1)}
    BY <1>1, <1>2 DEF Walked
  <2> QED BY <2>1, <2>2
<1>3. CASE e = H
  <2>1. Walked(w) = {IF s + k < H THEN s + k ELSE s + k - H : k \in 0..(H - s - 1)}
    <3>1. H - s \in Int /\ H - s <= H
      BY <1>0, <1>1
    <3> QED BY <1>2, <1>3, <3>1
  <2>2. Walked(w) = s..(H - 1)
    <3>1. \A x \in s..(H - 1) : x - s \in 0..(H - s - 1) /\ s + (x - s) = x /\ x < H
      BY <1>0, <1>1
    <3>2. \A k \in 0..(H - s - 1) : s + k < H /\ s + k \in s..(H - 1)
      BY <1>0, <1>1
    <3> QED BY <2>1, <3>1, <3>2
  <2> QED BY <1>1, <1>3, <2>2 DEF ExpandWindow
<1>4. CASE e # H /\ s < e
  <2>1. (e + H - s) % H = e - s
    <3>1. PICK a \in Nat : e + H - s = a /\ a < 2 * H /\ ~(a < H) /\ a - H = e - s
      BY <1>0, <1>1, <1>4
    <3>2. (e + H - s) % H = IF a < H THEN a ELSE a - H
      BY <3>1, Clock
    <3> QED BY <3>1, <3>2
  <2>2. Walked(w) = {IF s + k < H THEN s + k ELSE s + k - H : k \in 0..(e - s - 1)}
    <3>1. e - s \in Int /\ e - s <= H
      BY <1>0, <1>1
    <3> QED BY <1>2, <1>4, <2>1, <3>1
  <2>3. Walked(w) = s..(e - 1)
    <3>1. \A x \in s..(e - 1) : x - s \in 0..(e - s - 1) /\ s + (x - s) = x /\ x < H
      BY <1>0, <1>1
    <3>2. \A k \in 0..(e - s - 1) : s + k < H /\ s + k \in s..(e - 1)
      BY <1>0, <1>1
    <3> QED BY <2>2, <3>1, <3>2
  <2> QED BY <1>1, <1>4, <2>3 DEF ExpandWindow
<1>5. CASE e # H /\ e < s
  <2>1. PICK n \in Nat : e + H - s = n /\ n < H /\ n < 2 * H
    BY <1>0, <1>1, <1>5
  <2>2. Walked(w) = {IF s + k < H THEN s + k ELSE s + k - H : k \in 0..(n - 1)}
    <3>1. (e + H - s) % H = IF n < H THEN n ELSE n - H
      BY <2>1, Clock
    <3>2. n \in Int /\ n <= H /\ n = IF e = H THEN H - s ELSE (e + H - s) % H
      BY <1>0, <1>5, <2>1, <3>1
    <3> QED BY <1>2, <3>2
  <2>3. Walked(w) = s..(H - 1) \cup 0..(e - 1)
    <3>1. \A x \in s..(H - 1) :
            x - s \in 0..(n - 1) /\ s + (x - s) = x /\ s + (x - s) < H
      BY <1>0, <1>1, <2>1
    <3>2. \A x \in 0..(e - 1) :
            x + H - s \in 0..(n - 1) /\ s + (x + H - s) - H = x /\ ~(s + (x + H - s) < H)
      BY <1>0, <1>1, <1>5, <2>1
    <3>3. \A k \in 0..(n - 1) :
            IF s + k < H THEN s + k \in s..(H - 1) ELSE s + k - H \in 0..(e - 1)
      BY <1>0, <1>1, <2>1
    <3> QED BY <2>2, <3>1, <3>2, <3>3
  <2> QED BY <1>1, <1>5, <2>3 DEF ExpandWindow
<1>6. CASE e # H /\ e = s
  <2>1. (e + H - s) % H = 0
    <3>1. PICK a \in Nat : e + H - s = a /\ a < 2 * H /\ ~(a < H) /\ a - H = 0
      BY <1>0, <1>1, <1>6
    <3>2. (e + H - s) % H = IF a < H THEN a ELSE a - H
      BY <3>1, Clock
    <3> QED BY <3>1, <3>2
  <2>2. Walked(w) = {IF s + k < H THEN s + k ELSE s + k - H : k \in 0..(0 - 1)}
    BY <1>0, <1>2, <1>6, <2>1
  <2> QED BY <1>1, <1>6, <2>2
<1>7. ~(s = e /\ e = H)
  BY <1>0, <1>1
<1> QED BY <1>0, <1>1, <1>3, <1>4, <1>5, <1>6

LEMMA ExpandedNonempty ==
  ASSUME NEW w \in Window, w.start # w.end
  PROVE  ExpandWindow(w) # {}
<1>1. H \in Nat \ {0} /\ w.start \in Int /\ w.end \in Int /\ 0 <= w.start /\ w.start < H
  BY GuardrailsAssumption DEF Window, Hours
<1> QED BY <1>1 DEF ExpandWindow

(***************************************************************************)
(* Ascending lists                                                         *)
(***************************************************************************)

LEMMA AscendingIsOrdered ==
  ASSUME NEW s \in Seq(Int)
  PROVE  Ascending(s) <=> ~Unordered(s)
<1>1. \A j \in DOMAIN s : s[j] \in Int
  OBVIOUS
<1> QED BY <1>1 DEF Ascending, Unordered

\* k is the first position at which s and t part.
Parts(s, t) ==
  {k \in Nat \ {0} : (k <= Len(s) \/ k <= Len(t))
                       /\ ~(k <= Len(s) /\ k <= Len(t) /\ s[k] = t[k])}

LEMMA FirstPart ==
  ASSUME NEW s \in Seq(Int), NEW t \in Seq(Int), Parts(s, t) # {}
  PROVE  \E k \in Parts(s, t) : \A j \in 1..(k - 1) : j <= Len(s) /\ j <= Len(t) /\ s[j] = t[j]
<1>1. Parts(s, t) \subseteq Nat
  BY DEF Parts
<1>2. PICK k \in Parts(s, t) : \A j \in Parts(s, t) : ~(<<j, k>> \in OpToRel(<, Nat))
  BY <1>1, NatLessThanWellFounded, WFMin
<1>3. \A j \in Parts(s, t) : ~(j < k)
  BY <1>1, <1>2 DEF OpToRel
<1>4. Len(s) \in Nat /\ Len(t) \in Nat /\ k \in Nat
  BY <1>1
<1>5. \A j \in 1..(k - 1) : j \notin Parts(s, t) /\ (j <= Len(s) \/ j <= Len(t))
  BY <1>3, <1>4 DEF Parts
<1>6. \A j \in 1..(k - 1) : j <= Len(s) /\ j <= Len(t) /\ s[j] = t[j]
  <2> TAKE j \in 1..(k - 1)
  <2>1. j \in Nat \ {0}
    BY <1>4
  <2> QED BY <1>5, <2>1 DEF Parts
<1> QED BY <1>6

\* A list cannot have an element before the other one's next.
LEMMA NoneBetween ==
  ASSUME NEW s \in Seq(Int), NEW t \in Seq(Int), Ascending(s), Ascending(t),
         NEW k \in 1..Len(s), k > Len(t) \/ s[k] < t[k],
         \A j \in 1..(k - 1) : j <= Len(s) /\ j <= Len(t) /\ s[j] = t[j]
  PROVE  s[k] \notin Elements(t)
<1> SUFFICES ASSUME NEW m \in DOMAIN t, s[k] = t[m] PROVE FALSE
  BY DEF Elements
<1>m. m \in 1..Len(t)
  OBVIOUS
<1>0. /\ Len(s) \in Nat /\ Len(t) \in Nat
      /\ \A j \in 1..Len(s) : s[j] \in Int
      /\ \A j \in 1..Len(t) : t[j] \in Int
  OBVIOUS
<1>1. CASE m < k
  <2>1. m \in 1..(k - 1) /\ m \in 1..Len(s)
    BY <1>0, <1>m, <1>1
  <2>2. s[m] < s[k]
    BY <1>1, <2>1 DEF Ascending
  <2> QED BY <1>0, <2>1, <2>2
<1>2. CASE ~(m < k)
  <2>1. k \in 1..Len(t) /\ s[k] < t[k]
    BY <1>0, <1>m, <1>2
  <2>2. m = k \/ t[k] < t[m]
    BY <1>0, <1>m, <1>2, <2>1 DEF Ascending
  <2> QED BY <1>0, <1>m, <2>1, <2>2
<1> QED BY <1>1, <1>2

LEMMA SameElementsSameList ==
  ASSUME NEW s \in Seq(Int), NEW t \in Seq(Int), Ascending(s), Ascending(t),
         Elements(s) = Elements(t)
  PROVE  s = t
<1>0. /\ Len(s) \in Nat /\ Len(t) \in Nat /\ DOMAIN s = 1..Len(s) /\ DOMAIN t = 1..Len(t)
      /\ \A j \in 1..Len(s) : s[j] \in Int
      /\ \A j \in 1..Len(t) : t[j] \in Int
  OBVIOUS
<1>1. Parts(s, t) = {}
  <2> SUFFICES ASSUME Parts(s, t) # {} PROVE FALSE
    OBVIOUS
  <2>1. PICK k \in Parts(s, t) :
          \A j \in 1..(k - 1) : j <= Len(s) /\ j <= Len(t) /\ s[j] = t[j]
    BY FirstPart
  <2>2. \/ k \in 1..Len(s) /\ (k > Len(t) \/ s[k] < t[k])
        \/ k \in 1..Len(t) /\ (k > Len(s) \/ t[k] < s[k])
    BY <1>0 DEF Parts
  <2>3. CASE k \in 1..Len(s) /\ (k > Len(t) \/ s[k] < t[k])
    <3>1. s[k] \notin Elements(t)
      BY <2>1, <2>3, NoneBetween
    <3> QED BY <1>0, <2>3, <3>1 DEF Elements
  <2>4. CASE k \in 1..Len(t) /\ (k > Len(s) \/ t[k] < s[k])
    <3>1. t[k] \notin Elements(s)
      BY <2>1, <2>4, NoneBetween
    <3> QED BY <1>0, <2>4, <3>1 DEF Elements
  <2> QED BY <2>2, <2>3, <2>4
<1>2. Len(s) = Len(t)
  <2>1. PICK m \in Nat, n \in Nat : m = Len(s) /\ n = Len(t)
    BY <1>0
  <2>2. m > n => m \in Parts(s, t)
    BY <2>1 DEF Parts
  <2>3. n > m => n \in Parts(s, t)
    BY <2>1 DEF Parts
  <2> QED BY <1>1, <2>1, <2>2, <2>3
<1>3. \A k \in 1..Len(s) : s[k] = t[k]
  BY <1>0, <1>1, <1>2 DEF Parts
<1> QED BY <1>0, <1>2, <1>3

(***************************************************************************)
(* The hours of a directive and those of its trace                         *)
(***************************************************************************)

\* HoursFit, of an adjustment and a trace.
HoursOf(a, t) ==
  /\ a.hours # <<>> /\ Ascending(a.hours)
  /\ t.window = {} <=> t.explicit # {}
  /\ \A w \in t.window : w.start # w.end /\ Elements(a.hours) = ExpandWindow(w)
  /\ \A s \in t.explicit : Ascending(s) /\ a.hours = s

HoursAsTraced(a, t) ==
  TimeClear(t) /\ Elements(a.hours) = TracedHours(t) /\ ~Unordered(a.hours)

LEMMA ElementsEmpty == \A s \in Seq(Int) : Elements(s) = {} <=> s = <<>>
<1> SUFFICES ASSUME NEW s \in Seq(Int) PROVE Elements(s) = {} <=> s = <<>>
  OBVIOUS
<1>1. s # <<>> => 1 \in DOMAIN s
  OBVIOUS
<1>2. s = <<>> => DOMAIN s = {}
  OBVIOUS
<1> QED BY <1>1, <1>2 DEF Elements

LEMMA HoursAgree ==
  ASSUME NEW a \in AdjustmentType, NEW t \in TraceType
  PROVE  HoursOf(a, t) <=> HoursAsTraced(a, t)
<1>1. a.hours \in Seq(Int)
  BY DEF AdjustmentType
<1>2. /\ t.window \subseteq Window /\ \A v, w \in t.window : v = w
      /\ t.explicit \subseteq Seq(Int) /\ \A r, s \in t.explicit : r = s
  <2>1. Hours \subseteq Int
    BY GuardrailsAssumption DEF Hours
  <2>2. Seq(Hours) \subseteq Seq(Int)
    <3> SUFFICES ASSUME NEW s \in Seq(Hours) PROVE s \in Seq(Int)
      OBVIOUS
    <3>1. Len(s) \in Nat /\ s \in [1..Len(s) -> Hours]
      OBVIOUS
    <3>2. s \in [1..Len(s) -> Int]
      BY <2>1, <3>1
    <3> QED BY <3>1, <3>2, SeqDef
  <2> QED BY <2>2 DEF TraceType, Optional, Window
<1>3. Ascending(a.hours) <=> ~Unordered(a.hours)
  BY <1>1, AscendingIsOrdered
<1>4. CASE t.explicit = {} /\ t.window # {}
  <2>1. PICK w \in Window : t.window = {w}
    BY <1>2, <1>4
  <2>2. TracedHours(t) = Walked(w)
    BY <1>4, <2>1 DEF TracedHours
  <2>3. TimeClear(t) <=> Walked(w) # {}
    BY <1>4, <2>1 DEF TimeClear
  <2>4. HoursOf(a, t) <=> /\ a.hours # <<>> /\ Ascending(a.hours)
                          /\ w.start # w.end /\ Elements(a.hours) = ExpandWindow(w)
    BY <1>4, <2>1 DEF HoursOf
  <2>5. w.start # w.end => Walked(w) = ExpandWindow(w) /\ Walked(w) # {}
    BY WalkedIsExpanded, ExpandedNonempty
  <2>6. w.start = w.end => Walked(w) = {}
    BY WalkedIsExpanded
  <2>7. Elements(a.hours) = {} <=> a.hours = <<>>
    BY <1>1, ElementsEmpty
  <2> QED BY <1>3, <2>2, <2>3, <2>4, <2>5, <2>6, <2>7 DEF HoursAsTraced
<1>5. CASE t.explicit # {} /\ t.window = {}
  <2>1. PICK s \in Seq(Int) : t.explicit = {s}
    BY <1>2, <1>5
  <2>2. TracedHours(t) = Elements(s)
    BY <1>5, <2>1 DEF TracedHours
  <2>3. TimeClear(t) <=> s # <<>> /\ ~Unordered(s)
    BY <1>5, <2>1 DEF TimeClear
  <2>4. HoursOf(a, t) <=> /\ a.hours # <<>> /\ Ascending(a.hours)
                          /\ Ascending(s) /\ a.hours = s
    BY <1>5, <2>1 DEF HoursOf
  <2>5. Ascending(s) <=> ~Unordered(s)
    BY AscendingIsOrdered
  <2>6. Ascending(s) /\ Ascending(a.hours) /\ Elements(a.hours) = Elements(s) => a.hours = s
    BY <1>1, SameElementsSameList
  <2> QED BY <1>3, <2>2, <2>3, <2>4, <2>5, <2>6 DEF HoursAsTraced
<1>6. CASE (t.explicit = {} /\ t.window = {}) \/ (t.explicit # {} /\ t.window # {})
  <2>1. ~HoursOf(a, t)
    BY <1>6 DEF HoursOf
  <2>2. ~TimeClear(t)
    BY <1>6 DEF TimeClear
  <2> QED BY <2>1, <2>2 DEF HoursAsTraced
<1> QED BY <1>4, <1>5, <1>6

(***************************************************************************)
(* The number of a directive and that of its trace                         *)
(***************************************************************************)

\* The basis of t allows amount a for kind k, as the guardrails check it.
NumberOf(k, a, t) ==
  \/ /\ k = "solar_reduction"
     /\ \E x \in t.basis : \E v \in x.value :
          /\ v <= One
          /\ \/ x.kind = "usable_fraction" /\ RequireClose(a, v)
             \/ x.kind = "reduction_fraction" /\ RequireClose(a, One - v)
  \/ /\ k = "minimum_battery_reserve"
     /\ \E x \in t.basis : \E v \in x.value :
          \/ x.kind = "absolute_kwh" /\ RequireClose(a, v)
          \/ x.kind = "capacity_fraction" /\ v <= One /\ RequireClose(a, Capacity * v)
  \/ /\ k = "max_grid_window"
     /\ \E x \in t.basis : \E v \in x.value : x.kind = "absolute_grid_kwh" /\ RequireClose(a, v)
  \/ /\ k \in {"no_charge_window", "no_discharge_window"}
     /\ \E x \in t.basis : x.kind = "none" /\ x.value = {}

NumberAsTraced(k, a, t) ==
  Meant(k, t) # {} /\ (Numeric(k) => \E m \in Meant(k, t) : Near(a, m))

LEMMA NearIsClose ==
  ASSUME NEW a \in Int, NEW b \in Int
  PROVE  Near(a, b) <=> RequireClose(a, b)
<1>1. Tolerance \in Nat
  BY GuardrailsAssumption
<1> QED BY <1>1 DEF Near, RequireClose

Stated(b, t) == UNION {x.value : x \in {y \in t.basis : y.kind = b}}
Fraction(b, t) == {v \in Stated(b, t) : v <= One}

LEMMA MeantOfKind ==
  ASSUME NEW k \in DirectiveKinds, NEW t
  PROVE  /\ k = "solar_reduction" =>
              Meant(k, t) = Fraction("usable_fraction", t)
                              \cup {One - v : v \in Fraction("reduction_fraction", t)}
         /\ k = "minimum_battery_reserve" =>
              Meant(k, t) = Stated("absolute_kwh", t)
                              \cup {Capacity * v : v \in Fraction("capacity_fraction", t)}
         /\ k = "max_grid_window" => Meant(k, t) = Stated("absolute_grid_kwh", t)
         /\ k \in {"no_charge_window", "no_discharge_window"} =>
              Meant(k, t) = {0 : x \in {y \in t.basis : y.kind = "none" /\ y.value = {}}}
<1>1. \A S : {v \in S : TRUE} = S
  OBVIOUS
<1> QED BY <1>1 DEF Meant, Stated, Fraction

LEMMA NumericKinds ==
  ASSUME NEW k \in DirectiveKinds
  PROVE  /\ NumericField(k) =
              IF k = "solar_reduction" THEN {"factor"}
              ELSE IF k = "minimum_battery_reserve" THEN {"minimum_energy_kwh"}
              ELSE IF k = "max_grid_window" THEN {"max_grid_kwh"} ELSE {}
         /\ Numeric(k) <=> k \in {"solar_reduction", "minimum_battery_reserve", "max_grid_window"}
<1>1. NumericField(k) =
        IF k = "solar_reduction" THEN {"factor"}
        ELSE IF k = "minimum_battery_reserve" THEN {"minimum_energy_kwh"}
        ELSE IF k = "max_grid_window" THEN {"max_grid_kwh"} ELSE {}
  BY DEF NumericField
<1> QED BY <1>1 DEF Numeric

LEMMA NumberAgrees ==
  ASSUME NEW k \in DirectiveKinds \ {"no_op"}, NEW a \in Int, NEW t \in TraceType
  PROVE  NumberOf(k, a, t) <=> NumberAsTraced(k, a, t)
<1>0. One \in Nat /\ Capacity \in Nat
  BY GuardrailsAssumption
<1>1. \A x \in t.basis : x.value \subseteq Nat
  BY DEF TraceType, Optional
<1>2. \A v \in Nat : v \in Int /\ One - v \in Int /\ Capacity * v \in Int
  BY <1>0
<1>3. \A b : \A v : v \in Stated(b, t) <=> \E x \in t.basis : x.kind = b /\ v \in x.value
  BY DEF Stated
<1>4. \A m \in Int : Near(a, m) <=> RequireClose(a, m)
  BY NearIsClose
<1>5. CASE k = "solar_reduction"
  <2>1. Meant(k, t) = Fraction("usable_fraction", t)
                        \cup {One - v : v \in Fraction("reduction_fraction", t)}
    BY <1>5, MeantOfKind
  <2>2. NumberAsTraced(k, a, t) <=>
          \/ \E v \in Fraction("usable_fraction", t) : Near(a, v)
          \/ \E v \in Fraction("reduction_fraction", t) : Near(a, One - v)
    BY <1>5, <2>1, NumericKinds DEF NumberAsTraced
  <2>3. \A b : \A v \in Fraction(b, t) : v \in Nat
    BY <1>1, <1>3 DEF Fraction
  <2>4. NumberAsTraced(k, a, t) <=>
          \/ \E v \in Fraction("usable_fraction", t) : RequireClose(a, v)
          \/ \E v \in Fraction("reduction_fraction", t) : RequireClose(a, One - v)
    BY <1>2, <1>4, <2>2, <2>3
  <2> QED BY <1>3, <1>5, <2>4 DEF NumberOf, Fraction
<1>6. CASE k = "minimum_battery_reserve"
  <2>1. Meant(k, t) = Stated("absolute_kwh", t)
                        \cup {Capacity * v : v \in Fraction("capacity_fraction", t)}
    BY <1>6, MeantOfKind
  <2>2. NumberAsTraced(k, a, t) <=>
          \/ \E v \in Stated("absolute_kwh", t) : Near(a, v)
          \/ \E v \in Fraction("capacity_fraction", t) : Near(a, Capacity * v)
    BY <1>6, <2>1, NumericKinds DEF NumberAsTraced
  <2>3. \A b : \A v \in Stated(b, t) : v \in Nat
    BY <1>1, <1>3
  <2>4. NumberAsTraced(k, a, t) <=>
          \/ \E v \in Stated("absolute_kwh", t) : RequireClose(a, v)
          \/ \E v \in Fraction("capacity_fraction", t) : RequireClose(a, Capacity * v)
    BY <1>2, <1>4, <2>2, <2>3 DEF Fraction
  <2> QED BY <1>3, <1>6, <2>4 DEF NumberOf, Fraction
<1>7. CASE k = "max_grid_window"
  <2>1. Meant(k, t) = Stated("absolute_grid_kwh", t)
    BY <1>7, MeantOfKind
  <2>2. NumberAsTraced(k, a, t) <=> \E v \in Stated("absolute_grid_kwh", t) : Near(a, v)
    BY <1>7, <2>1, NumericKinds DEF NumberAsTraced
  <2>3. \A v \in Stated("absolute_grid_kwh", t) : v \in Int
    BY <1>1, <1>3
  <2> QED BY <1>3, <1>4, <1>7, <2>2, <2>3 DEF NumberOf
<1>8. CASE k \in {"no_charge_window", "no_discharge_window"}
  <2>1. Meant(k, t) = {0 : x \in {y \in t.basis : y.kind = "none" /\ y.value = {}}}
    BY <1>8, MeantOfKind
  <2>2. ~Numeric(k)
    BY <1>8, NumericKinds
  <2> QED BY <1>8, <2>1, <2>2 DEF NumberOf, NumberAsTraced
<1> QED BY <1>5, <1>6, <1>7, <1>8 DEF DirectiveKinds

\* Whatever a trace states of a number is one.
LEMMA MeantIsNumber ==
  ASSUME NEW k \in DirectiveKinds, Numeric(k), NEW t \in TraceType
  PROVE  \A m \in Meant(k, t) : m \in Int
<1>0. One \in Nat /\ Capacity \in Nat
  BY GuardrailsAssumption
<1>1. \A b : \A v \in Stated(b, t) : v \in Nat
  BY DEF Stated, TraceType, Optional
<1>2. \A b : \A v \in Fraction(b, t) : v \in Nat
  BY <1>1 DEF Fraction
<1>3. \A v \in Nat : v \in Int /\ One - v \in Int /\ Capacity * v \in Int
  BY <1>0
<1>4. k \in {"solar_reduction", "minimum_battery_reserve", "max_grid_window"}
  BY NumericKinds
<1> QED BY <1>1, <1>2, <1>3, <1>4, MeantOfKind

(***************************************************************************)
(* One note                                                                *)
(***************************************************************************)

\* The note under check is one of those the loop goes through.
AtNote ==
  /\ verdict = "checking" /\ IndicesFit /\ at \in 1..Len(directives)
  /\ D \in DirectiveType /\ ShapeFits(D) /\ T \in TraceType

ReserveBounded(d, a) == d.kind = "minimum_battery_reserve" => a.amount <= Capacity * One

LEMMA NoteChecked ==
  ASSUME AtNote, D.kind # "no_op"
  PROVE  /\ D.adjustment = {Adj} /\ Adj \in AdjustmentType
         /\ NoteFits <=> /\ HoursOf(Adj, T) /\ NumberOf(D.kind, Adj.amount, T)
                         /\ ReserveBounded(D, Adj)
<1>1. PICK a \in AdjustmentType : D.adjustment = {a}
  <2>1. D.adjustment \subseteq AdjustmentType /\ \A x, y \in D.adjustment : x = y
    BY DEF AtNote, DirectiveType, Optional
  <2>2. D.adjustment # {}
    BY DEF AtNote, ShapeFits
  <2> QED BY <2>1, <2>2
<1>2. Adj = a
  BY <1>1 DEF Adj
<1>3. at <= Len(directives)
  BY DEF AtNote
<1>4. \A K : AtKind(K) <=> D.kind \in K
  BY <1>3 DEF AtKind, AtNote
<1>5. HoursFit <=> HoursOf(Adj, T)
  BY DEF HoursFit, HoursOf
<1>6. SolarFits \/ ReserveFits \/ GridCapFits \/ OutageFits <=>
        HoursOf(Adj, T) /\ NumberOf(D.kind, Adj.amount, T) /\ ReserveBounded(D, Adj)
  BY <1>4, <1>5 DEF SolarFits, ReserveFits, GridCapFits, OutageFits, Basis, NumberOf, ReserveBounded
<1>7. ~NoOpFits
  BY <1>4 DEF NoOpFits
<1> QED BY <1>1, <1>2, <1>6, <1>7 DEF NoteFits

\* The guardrails' verdict on one note is the reference's.
LEMMA NoteAgrees ==
  ASSUME AtNote
  PROVE  NoteFits <=> Consistent(D, T)
<1>1. D.kind \in DirectiveKinds /\ T \in TraceType
  BY DEF AtNote, DirectiveType
<1>2. CASE D.kind = "no_op"
  <2>1. at <= Len(directives)
    BY DEF AtNote
  <2>2. \A K : AtKind(K) <=> D.kind \in K
    BY <2>1 DEF AtKind, AtNote
  <2>3. NoteFits <=> NoOpFits
    BY <1>2, <2>2 DEF NoteFits, SolarFits, ReserveFits, GridCapFits, OutageFits
  <2> QED BY <1>2, <2>2, <2>3 DEF NoOpFits, Consistent
<1>3. CASE D.kind # "no_op"
  <2>1. /\ D.adjustment = {Adj} /\ Adj \in AdjustmentType
        /\ NoteFits <=> /\ HoursOf(Adj, T) /\ NumberOf(D.kind, Adj.amount, T)
                        /\ ReserveBounded(D, Adj)
    BY <1>3, NoteChecked
  <2>2. HoursOf(Adj, T) <=> HoursAsTraced(Adj, T)
    BY <1>1, <2>1, HoursAgree
  <2>3. NumberOf(D.kind, Adj.amount, T) <=> NumberAsTraced(D.kind, Adj.amount, T)
    <3>1. Adj.amount \in Int
      BY <2>1 DEF AdjustmentType
    <3> QED BY <1>1, <1>3, <3>1, NumberAgrees
  <2>4. Consistent(D, T) <=>
          /\ HoursAsTraced(Adj, T) /\ NumberAsTraced(D.kind, Adj.amount, T)
          /\ ReserveBounded(D, Adj)
    BY <1>3, <2>1 DEF Consistent, HoursAsTraced, NumberAsTraced, ReserveBounded
  <2> QED BY <2>1, <2>2, <2>3, <2>4
<1> QED BY <1>2, <1>3

(***************************************************************************)
(* The invariant                                                           *)
(***************************************************************************)

ListType ==
  /\ answer \in Answers /\ at \in 1..(Len(answer.directives) + 1)
  /\ verdict \in {"parsing", "checking", "malformed", "rejected", "accepted"}

\* What left the parser is what the provider sent, in the internal schema.
Parsed ==
  /\ verdict \in {"parsing", "malformed"} => directives = <<>>
  /\ verdict \in {"checking", "rejected", "accepted"} =>
       /\ directives = [k \in DOMAIN answer.directives |-> Normalized(answer.directives[k])]
       /\ \A d \in Elements(answer.directives) : WireFits(d)
  /\ verdict = "malformed" => \E d \in Elements(answer.directives) : ~WireFits(d)

Agrees(k) == Consistent(directives[k], answer.traces[k])

\* What the loop has passed says what its traces say.
Checked ==
  /\ verdict = "parsing" => at = 1
  /\ verdict = "checking" => (at = 1 \/ IndicesFit) /\ \A k \in 1..(at - 1) : Agrees(k)
  /\ verdict = "accepted" => IndicesFit /\ \A k \in DOMAIN directives : Agrees(k)
  /\ verdict = "rejected" => ~IndicesFit \/ \E k \in DOMAIN directives : ~Agrees(k)

IInv == ListType /\ Parsed /\ Checked

LEMMA AnswerTyped ==
  ASSUME ListType
  PROVE  /\ answer.directives \in Seq(DirectiveType) /\ answer.traces \in Seq(TraceType)
         /\ answer.count \in Nat
         /\ at \in Nat \ {0}
BY AnswersAssumption DEF ListType

LEMMA NormalizedTyped ==
  ASSUME NEW d \in DirectiveType
  PROVE  GroqNormalized(d) \in DirectiveType /\ Normalized(d) \in DirectiveType
<1>1. d.adjustment \subseteq AdjustmentType /\ \A x, y \in d.adjustment : x = y
  BY DEF DirectiveType, Optional
<1>2. NumericField(d.kind) \subseteq Fields
  BY NumericKinds DEF DirectiveType, Fields
<1>3. \A a \in AdjustmentType :
        [a EXCEPT !.fields = NumericField(d.kind), !.nulls = {}, !.other = FALSE] \in AdjustmentType
  BY <1>2 DEF AdjustmentType
<1>5. {[a EXCEPT !.fields = NumericField(d.kind), !.nulls = {}, !.other = FALSE] :
         a \in d.adjustment} \in Optional(AdjustmentType)
  BY <1>1, <1>3 DEF Optional
<1>4. GroqNormalized(d) \in DirectiveType
  BY <1>5 DEF GroqNormalized, DirectiveType
<1> QED BY <1>4 DEF Normalized

LEMMA DirectivesShaped ==
  ASSUME ListType, Parsed
  PROVE  /\ directives \in Seq(DirectiveType)
         /\ \A k \in DOMAIN directives : SchemaFits(directives[k])
<1>1. CASE verdict \in {"parsing", "malformed"}
  <2>1. directives = <<>>
    BY <1>1 DEF Parsed
  <2>2. directives \in Seq(DirectiveType) /\ DOMAIN directives = {}
    BY <2>1
  <2> QED BY <2>2
<1>2. CASE verdict \in {"checking", "rejected", "accepted"}
  <2>1. /\ directives = [k \in DOMAIN answer.directives |-> Normalized(answer.directives[k])]
        /\ \A d \in Elements(answer.directives) : WireFits(d)
    BY <1>2 DEF Parsed
  <2>2. PICK n \in Nat : /\ n = Len(answer.directives) /\ DOMAIN answer.directives = 1..n
                         /\ \A k \in 1..n : answer.directives[k] \in DirectiveType
    BY AnswerTyped
  <2>3. \A k \in 1..n : Normalized(answer.directives[k]) \in DirectiveType
    BY <2>2, NormalizedTyped
  <2>4. directives \in Seq(DirectiveType)
    <3>1. directives \in [1..n -> DirectiveType]
      BY <2>1, <2>2, <2>3
    <3> QED BY <3>1, SeqDef
  <2>5. \A k \in 1..n : SchemaFits(Normalized(answer.directives[k]))
    BY <2>1, <2>2 DEF WireFits, Elements
  <2> QED BY <2>1, <2>2, <2>4, <2>5
<1> QED BY <1>1, <1>2 DEF ListType

LEMMA LengthsAgree ==
  ASSUME ListType, Parsed, IndicesFit
  PROVE  /\ Len(directives) \in Nat /\ DOMAIN directives = 1..Len(directives)
         /\ \A k \in 1..Len(directives) : answer.traces[k] \in TraceType
<1>1. directives \in Seq(DirectiveType) /\ answer.traces \in Seq(TraceType)
  BY DirectivesShaped, AnswerTyped
<1>2. Len(answer.traces) = Len(directives)
  BY DEF IndicesFit, OnePerNote
<1> QED BY <1>1, <1>2

LEMMA InitIInv == Init => IInv
<1> SUFFICES ASSUME GuardrailsInit PROVE IInv
  BY DEF Init
<1>1. ListType
  <2>1. Len(answer.directives) \in Nat /\ answer \in Answers /\ at = 1 /\ verdict = "parsing"
    BY AnswersAssumption DEF GuardrailsInit
  <2> QED BY <2>1 DEF ListType
<1>2. Parsed /\ Checked
  BY DEF GuardrailsInit, Parsed, Checked
<1> QED BY <1>1, <1>2 DEF IInv

LEMMA AtNoteFromInv ==
  ASSUME IInv, verdict = "checking", IndicesFit, at <= Len(directives)
  PROVE  AtNote
<1>1. /\ Len(directives) \in Nat /\ DOMAIN directives = 1..Len(directives)
      /\ \A k \in 1..Len(directives) : answer.traces[k] \in TraceType
  BY LengthsAgree DEF IInv
<1>2. directives \in Seq(DirectiveType) /\ \A k \in DOMAIN directives : ShapeFits(directives[k])
  BY DirectivesShaped DEF IInv, SchemaFits
<1>3. at \in 1..Len(directives)
  BY <1>1, AnswerTyped DEF IInv
<1>4. D \in DirectiveType /\ ShapeFits(D) /\ T \in TraceType
  BY <1>1, <1>2, <1>3 DEF D, T
<1> QED BY <1>3, <1>4 DEF AtNote

LEMMA StepIInv == IInv /\ [Next]_pipelineVars => IInv'
<1> SUFFICES ASSUME IInv, [Next]_pipelineVars PROVE IInv'
  OBVIOUS
<1> USE DEF IInv
<1>0. ASSUME UNCHANGED vars PROVE IInv'
  BY <1>0 DEF vars, ListType, Parsed, Checked, Agrees, IndicesFit, OnePerNote, Normalized, WireFits
<1>1. ASSUME Parse PROVE IInv'
  <2>1. ListType'
    BY <1>1 DEF Parse, ListType
  <2>2. Parsed'
    BY <1>1 DEF Parse, Parsed, Normalized, WireFits
  <2>3. at' = 1 /\ verdict' = "checking"
    BY <1>1 DEF Parse, Checked
  <2>4. Checked'
    BY <2>3 DEF Checked
  <2> QED BY <2>1, <2>2, <2>4
<1>2. ASSUME Malformed PROVE IInv'
  <2>1. ListType'
    BY <1>2 DEF Malformed, ListType
  <2>2. Parsed'
    BY <1>2 DEF Malformed, Parsed, Normalized, WireFits
  <2>3. Checked'
    BY <1>2 DEF Malformed, Checked
  <2> QED BY <2>1, <2>2, <2>3
<1>3. ASSUME PassNote PROVE IInv'
  <2>1. verdict = "checking" /\ IndicesFit /\ at <= Len(directives)
    BY <1>3 DEF PassNote, NoteFits, NoOpFits, SolarFits, ReserveFits, GridCapFits, OutageFits, AtKind
  <2>2. Agrees(at)
    BY <1>3, <2>1, AtNoteFromInv, NoteAgrees DEF PassNote, Agrees, D, T
  <2>3. ListType'
    <3>1. Len(directives) = Len(answer.directives)
      BY <2>1, AnswerTyped DEF Parsed
    <3>2. at \in Nat /\ Len(answer.directives) \in Nat
      BY AnswerTyped
    <3>3. at + 1 \in 1..(Len(answer.directives) + 1)
      BY <2>1, <3>1, <3>2
    <3> QED BY <1>3, <3>3 DEF PassNote, ListType
  <2>4. Parsed'
    BY <1>3 DEF PassNote, Parsed, Normalized, WireFits
  <2>5. \A k \in 1..(at' - 1) : Agrees(k)
    <3>1. at \in Nat \ {0} /\ at' = at + 1
      BY <1>3, AnswerTyped DEF PassNote
    <3>2. \A k \in 1..(at' - 1) : k \in 1..(at - 1) \/ k = at
      BY <3>1
    <3> QED BY <2>1, <2>2, <3>2 DEF Checked
  <2>6. verdict' = "checking" /\ IndicesFit' /\ \A k : Agrees(k)' <=> Agrees(k)
    BY <1>3, <2>1 DEF PassNote, IndicesFit, OnePerNote, Agrees
  <2>7. Checked'
    BY <2>5, <2>6 DEF Checked
  <2> QED BY <2>3, <2>4, <2>7
<1>4. ASSUME Reject PROVE IInv'
  <2>1. ~IndicesFit \/ \E k \in DOMAIN directives : ~Agrees(k)
    <3>1. CASE IndicesFit
      <4>1. verdict = "checking" /\ at <= Len(directives) /\ ~NoteFits
        BY <1>4, <3>1 DEF Reject
      <4>2. AtNote
        BY <3>1, <4>1, AtNoteFromInv
      <4>3. ~Agrees(at)
        BY <4>1, <4>2, NoteAgrees DEF Agrees, D, T
      <4>4. at \in DOMAIN directives
        BY <3>1, <4>2, LengthsAgree DEF AtNote
      <4> QED BY <4>3, <4>4
    <3> QED BY <3>1
  <2>2. ListType'
    BY <1>4 DEF Reject, ListType
  <2>3. Parsed'
    BY <1>4 DEF Reject, Parsed, Normalized, WireFits
  <2>4. Checked'
    BY <1>4, <2>1 DEF Reject, Checked, IndicesFit, OnePerNote, Agrees
  <2> QED BY <2>2, <2>3, <2>4
<1>5. ASSUME Accept PROVE IInv'
  <2>1. IndicesFit /\ \A k \in DOMAIN directives : Agrees(k)
    <3>1. verdict = "checking" /\ IndicesFit /\ at > Len(directives)
      BY <1>5 DEF Accept
    <3>2. Len(directives) \in Nat /\ DOMAIN directives = 1..Len(directives)
      BY <3>1, LengthsAgree
    <3>3. DOMAIN directives \subseteq 1..(at - 1)
      BY <3>1, <3>2, AnswerTyped
    <3> QED BY <3>1, <3>3 DEF Checked
  <2>2. ListType'
    BY <1>5 DEF Accept, ListType
  <2>3. Parsed'
    BY <1>5 DEF Accept, Parsed, Normalized, WireFits
  <2>4. Checked'
    BY <1>5, <2>1 DEF Accept, Checked, IndicesFit, OnePerNote, Agrees
  <2> QED BY <2>2, <2>3, <2>4
<1>6. CASE Validate
  BY <1>1, <1>2, <1>3, <1>4, <1>5, <1>6 DEF Validate, GuardrailsNext
<1>7. CASE Compile
  BY <1>0, <1>7 DEF Compile
<1>8. CASE UNCHANGED pipelineVars
  <2>1. UNCHANGED vars
    BY <1>8 DEF pipelineVars
  <2> QED BY <1>0, <2>1
<1> QED BY <1>6, <1>7, <1>8 DEF Next

(***************************************************************************)
(* The theorems                                                            *)
(***************************************************************************)

\* At every moment the answer is where its directives and traces say.
THEOREM IInvHolds == Spec => []IInv
BY InitIInv, StepIInv, PTL DEF Spec

LEMMA CoversIsOnePerNote ==
  ASSUME NEW S, NEW list \in Seq(S), answer.count \in Nat
  PROVE  Covers(list) <=> OnePerNote(list)
<1>1. PICK n \in Nat, c \in Nat : n = Len(list) /\ c = answer.count /\ DOMAIN list = 1..n
  OBVIOUS
<1>2. 1..n = 1..c <=> n = c
  <2>1. n \in 1..n \/ n = 0
    BY <1>1
  <2>2. c \in 1..c \/ c = 0
    BY <1>1
  <2> QED BY <1>1, <2>1, <2>2
<1>3. Covers(list) <=> 1..n = 1..c /\ \A k \in 1..n : list[k].note = k - 1
  BY <1>1 DEF Covers
<1> QED BY <1>1, <1>2, <1>3 DEF OnePerNote

\* validate_interpretation accepts an answer exactly when each note has one directive
\* that says what its own trace says, whatever the day, the battery and the tolerance.
THEOREM AcceptanceExact == Spec => []GuardrailsExact
<1>1. IInv => GuardrailsExact
  <2> SUFFICES ASSUME IInv PROVE GuardrailsExact
    OBVIOUS
  <2>1. Covers(directives) /\ Covers(answer.traces) <=> IndicesFit
    BY DirectivesShaped, AnswerTyped, CoversIsOnePerNote DEF IInv, IndicesFit
  <2> QED BY <2>1 DEF IInv, Checked, Agrees, GuardrailsExact
<1> QED BY <1>1, IInvHolds, PTL

\* What follows the wire schema and the instructions comes through the parser,
\* unless it is explained with blanks.
LEMMA WireComesThrough ==
  ASSUME answer.provider = "groq", NEW d \in DirectiveType, WireConforms(d), Instructed(d)
  PROVE  WireFits(d) <=> ~d.blank
<1>1. Normalized(d) = GroqNormalized(d)
  BY DEF Normalized
<1>2. CASE d.kind = "no_op"
  <2>1. d.adjustment = {} /\ d.applies = FALSE
    BY <1>2 DEF Instructed, DirectiveType
  <2> QED BY <1>1, <1>2, <2>1 DEF WireFits, GroqParses, GroqNormalized, SchemaFits, ShapeFits
<1>3. CASE d.kind # "no_op"
  <2>1. d.kind \in DirectiveKinds /\ d.applies /\ d.adjustment # {}
    BY <1>3 DEF Instructed, DirectiveType
  <2>2. PICK a \in AdjustmentType : d.adjustment = {a}
    BY <2>1 DEF DirectiveType, Optional
  <2>3. /\ Elements(a.hours) \subseteq Hours /\ ("factor" \in a.fields => a.amount <= One)
        /\ a.fields = NumericField(d.kind)
    BY <2>2 DEF WireConforms, Instructed
  <2>4. GroqParses(d)
    BY <2>2, <2>3 DEF GroqParses
  <2> DEFINE b == [a EXCEPT !.fields = NumericField(d.kind), !.nulls = {}, !.other = FALSE]
             e == Normalized(d)
  <2>5. /\ b.hours = a.hours /\ b.fields = a.fields /\ b.amount = a.amount
        /\ b.nulls = {} /\ b.other = FALSE
    BY <2>3 DEF AdjustmentType
  <2>6. /\ e.kind = d.kind /\ e.applies = d.applies /\ e.adjustment = {b}
        /\ e.blank = d.blank
    BY <1>1, <1>3, <2>2 DEF GroqNormalized, DirectiveType
  <2> HIDE DEF b, e
  <2>7. \E f \in Fields : b.fields \subseteq {f}
    BY <2>1, <2>3, <2>5, NumericKinds DEF Fields
  <2>8. AdjustmentParses(b)
    BY <2>3, <2>5, <2>7 DEF AdjustmentParses
  <2>9. SchemaFits(e) <=> ~d.blank
    BY <1>3, <2>1, <2>3, <2>5, <2>6, <2>8 DEF SchemaFits, ShapeFits
  <2> QED BY <2>4, <2>9 DEF WireFits, e
<1> QED BY <1>2, <1>3

\* What the parser of Groq takes says afterwards what it said before.
LEMMA ParsedSaysTheSame ==
  ASSUME NEW d \in DirectiveType, WireFits(d)
  PROVE  Says(Normalized(d)) = Says(d)
<1>1. CASE answer.provider # "groq" \/ d.kind = "no_op"
  BY <1>1 DEF Normalized, GroqNormalized
<1>2. CASE answer.provider = "groq" /\ d.kind # "no_op"
  <2> DEFINE Copied(a) == [a EXCEPT !.fields = NumericField(d.kind), !.nulls = {}, !.other = FALSE]
             Told(a) == [hours |-> a.hours, fields |-> a.fields, amount |-> a.amount]
             e == Normalized(d)
  <2>1. \A a \in d.adjustment : a \in AdjustmentType /\ a.fields = NumericField(d.kind)
    BY <1>2 DEF WireFits, GroqParses, DirectiveType, Optional
  <2>2. \A a \in d.adjustment : Told(Copied(a)) = Told(a)
    BY <2>1 DEF AdjustmentType
  <2>3. /\ e.note = d.note /\ e.applies = d.applies /\ e.kind = d.kind
        /\ e.adjustment = {Copied(a) : a \in d.adjustment}
    BY <1>2 DEF Normalized, GroqNormalized, DirectiveType
  <2> HIDE DEF Copied, e
  <2>4. {Told(x) : x \in {Copied(a) : a \in d.adjustment}} = {Told(a) : a \in d.adjustment}
    <3> HIDE DEF Told
    <3> QED BY <2>2
  <2>5. {Told(x) : x \in e.adjustment} = {Told(a) : a \in d.adjustment}
    BY <2>3, <2>4
  <2>6. Says(e) = Says(d)
    BY <2>3, <2>5 DEF Says
  <2> QED BY <2>6 DEF e
<1> QED BY <1>1, <1>2

\* An answer of Groq that follows the schema sent with the request and the
\* instructions gets past the parser and the internal schema, whatever the
\* numbers of its directives, unless one of them is explained with blanks.
THEOREM WireSchemaSuffices == Spec => []WireSchemaParses
<1>1. IInv => WireSchemaParses
  <2> SUFFICES ASSUME IInv, answer.provider = "groq", verdict # "parsing",
                      \A d \in Elements(answer.directives) : WireConforms(d) /\ Instructed(d)
               PROVE  verdict = "malformed" <=> \E d \in Elements(answer.directives) : d.blank
    BY DEF WireSchemaParses
  <2>1. \A d \in Elements(answer.directives) : WireFits(d) <=> ~d.blank
    <3>1. Elements(answer.directives) \subseteq DirectiveType
      BY AnswerTyped DEF IInv, Elements
    <3> QED BY <3>1, WireComesThrough
  <2>2. verdict = "malformed" \/ verdict \in {"checking", "rejected", "accepted"}
    BY DEF IInv, ListType
  <2> QED BY <2>1, <2>2 DEF IInv, Parsed
<1> QED BY <1>1, IInvHolds, PTL

\* What is parsed says what the provider said, directive by directive: the Groq
\* parser, which copies the one number it looks for and drops every other key,
\* drops no number, because it has refused the answers that have another.
THEOREM NothingLostOnTheWire == Spec => []ParsedAsSent
<1>1. IInv => ParsedAsSent
  <2> SUFFICES ASSUME IInv, verdict \in {"checking", "rejected", "accepted"}
               PROVE  [k \in DOMAIN directives |-> Says(directives[k])]
                        = [k \in DOMAIN answer.directives |-> Says(answer.directives[k])]
    BY DEF ParsedAsSent
  <2>1. /\ directives = [k \in DOMAIN answer.directives |-> Normalized(answer.directives[k])]
        /\ \A d \in Elements(answer.directives) : WireFits(d)
    BY DEF IInv, Parsed
  <2>2. Elements(answer.directives) \subseteq DirectiveType
    BY AnswerTyped DEF IInv, Elements
  <2>3. \A k \in DOMAIN answer.directives :
          Says(Normalized(answer.directives[k])) = Says(answer.directives[k])
    BY <2>1, <2>2, ParsedSaysTheSame DEF Elements
  <2>4. /\ DOMAIN directives = DOMAIN answer.directives
        /\ \A k \in DOMAIN directives : Says(directives[k]) = Says(answer.directives[k])
    BY <2>1, <2>3
  <2> QED BY <2>4
<1> QED BY <1>1, IInvHolds, PTL

(***************************************************************************)
(* The compiler on what was accepted                                       *)
(***************************************************************************)

Listed == [k \in DOMAIN directives |-> Plain(directives[k])]

LEMMA SameCompiler ==
  /\ Compiler!CompilerInit => CP!CompilerInit
  /\ Compiler!Next => CP!Next
  /\ CP!TypeOK => Compiler!TypeOK
BY DEF Compiler!CompilerInit, CP!CompilerInit, Compiler!Next, CP!Next, Compiler!Apply, CP!Apply,
       Compiler!RaiseConflict, CP!RaiseConflict, Compiler!Return, CP!Return,
       Compiler!SkipNoOp, CP!SkipNoOp, Compiler!ReduceSolar, CP!ReduceSolar,
       Compiler!RaiseReserve, CP!RaiseReserve, Compiler!ForbidCharge, CP!ForbidCharge,
       Compiler!ForbidDischarge, CP!ForbidDischarge, Compiler!CapGrid, CP!CapGrid,
       Compiler!AtKind, CP!AtKind, Compiler!Advance, CP!Advance, Compiler!Conflicting,
       CP!Conflicting, Compiler!Replaced, CP!Replaced, Compiler!Named, CP!Named, Compiler!Amount,
       CP!Amount, Compiler!Capped, CP!Capped, Compiler!Higher, CP!Higher, Compiler!Lower, CP!Lower,
       Compiler!Close, CP!Close, Compiler!arrays, CP!arrays, Compiler!Hours, CP!Hours,
       Compiler!TypeOK, CP!TypeOK, Compiler!DirectiveType, CP!DirectiveType, Compiler!Kinds, CP!Kinds

LEMMA PlainTypes ==
  /\ CP!Hours = Hours /\ CP!Kinds = DirectiveKinds /\ CP!DirectiveType = PlainDirectives
  /\ CP!CompilerAssumption
<1>1. CP!Hours = Hours /\ CP!Kinds = DirectiveKinds
  BY DEF CP!Hours, Hours, CP!Kinds, DirectiveKinds
<1>2. CP!DirectiveType = PlainDirectives
  BY <1>1 DEF CP!DirectiveType, PlainDirectives
<1> QED BY <1>1, <1>2, GuardrailsAssumption, PipelineAssumption DEF CP!CompilerAssumption

LEMMA PlainTyped ==
  ASSUME NEW d \in DirectiveType, SchemaFits(d)
  PROVE  Plain(d) \in PlainDirectives
<1>1. CASE d.adjustment = {}
  <2>1. d.kind = "no_op"
    BY <1>1 DEF SchemaFits, ShapeFits
  <2>2. Plain(d).kind = d.kind /\ Plain(d).hours = {} /\ Plain(d).amount = 0
    BY <1>1 DEF Plain
  <2> QED BY <1>1, <2>1, <2>2 DEF Plain, PlainDirectives, DirectiveType
<1>2. CASE d.adjustment # {}
  <2>1. PICK a \in AdjustmentType : d.adjustment = {a}
    BY <1>2 DEF DirectiveType, Optional
  <2>2. Plain(d) = [kind |-> d.kind, hours |-> Elements(a.hours), amount |-> a.amount]
    BY <2>1 DEF Plain
  <2>3. AdjustmentParses(a) /\ (d.kind # "no_op" => NumericField(d.kind) \subseteq a.fields)
    BY <2>1 DEF SchemaFits, ShapeFits
  <2>4. d.kind = "solar_reduction" => a.amount <= One
    BY <2>3, NumericKinds DEF AdjustmentParses, DirectiveType
  <2> QED BY <2>2, <2>3, <2>4 DEF AdjustmentParses, AdjustmentType, DirectiveType, PlainDirectives
<1> QED BY <1>1, <1>2

LEMMA ListedTyped ==
  ASSUME ListType, Parsed
  PROVE  Listed \in Seq(PlainDirectives)
<1>1. PICK n \in Nat : n = Len(directives) /\ DOMAIN directives = 1..n
  BY DirectivesShaped
<1>2. \A k \in 1..n : Plain(directives[k]) \in PlainDirectives
  BY <1>1, DirectivesShaped, PlainTyped
<1>3. Listed \in [1..n -> PlainDirectives]
  BY <1>1, <1>2 DEF Listed
<1> QED BY <1>3, SeqDef

\* Before and at the start of the loop.
LEMMA CompilerStarts ==
  ASSUME ListType, Parsed, Compiler!CompilerInit
  PROVE  CP!IInv
<1>1. CP!Init
  BY ListedTyped, SameCompiler DEF Listed, CP!Init
<1> QED BY <1>1, PlainTypes, CP!InitIInv

\* The compiler is idle until the guardrails accept; from then on it is in its own
\* invariant, and has applied the whole list when it returns.
Chain ==
  /\ IInv
  /\ verdict # "accepted" => Compiler!CompilerInit
  /\ verdict = "accepted" => CP!IInv
  /\ status = "compiled" => next = Len(Listed) + 1

LEMMA InitChain == Init => Chain
<1> SUFFICES ASSUME Init PROVE Chain
  OBVIOUS
<1>1. verdict = "parsing" /\ Compiler!CompilerInit
  BY DEF Init, GuardrailsInit
<1>2. status = "compiling"
  BY <1>1 DEF Compiler!CompilerInit
<1> QED BY <1>1, <1>2, InitIInv DEF Chain

LEMMA StepChain == Chain /\ [Next]_pipelineVars => Chain'
<1> SUFFICES ASSUME Chain, [Next]_pipelineVars PROVE Chain'
  OBVIOUS
<1>1. IInv /\ IInv'
  BY StepIInv DEF Chain
<1>2. ASSUME UNCHANGED compilerVars, verdict # "accepted" PROVE Chain'
  <2>1. Compiler!CompilerInit /\ Compiler!CompilerInit'
    BY <1>2 DEF Chain, compilerVars, arrays, Compiler!CompilerInit
  <2>2. status' # "compiled"
    BY <2>1 DEF Compiler!CompilerInit
  <2>3. CASE verdict' # "accepted"
    BY <1>1, <2>1, <2>2, <2>3 DEF Chain
  <2>4. CASE verdict' = "accepted"
    <3>1. Accept
      BY <1>2, <2>4 DEF Next, Validate, Compile, GuardrailsNext, Parse, Malformed, PassNote, Reject,
                        pipelineVars, vars
    <3>2. CP!IInv
      BY <1>1, <2>1, CompilerStarts DEF IInv
    <3>3. UNCHANGED CP!vars
      BY <1>2, <3>1 DEF Accept, CP!vars, CP!arrays, compilerVars, arrays, Plain, Elements
    <3>4. CP!IInv'
      BY <3>2, <3>3, PlainTypes, CP!StepIInv
    <3> QED BY <1>1, <2>2, <2>4, <3>4 DEF Chain
  <2> QED BY <2>3, <2>4
<1>3. ASSUME UNCHANGED vars, verdict = "accepted", [CP!Next]_(CP!vars) PROVE Chain'
  <2>1. CP!IInv'
    BY <1>3, PlainTypes, CP!StepIInv DEF Chain
  <2>2. verdict' = "accepted" /\ Listed' = Listed
    BY <1>3 DEF vars, Listed, Plain, Elements
  <2>3. status' = "compiled" => next' = Len(Listed) + 1
    <3>1. CASE CP!Return
      <4>1. next > Len(Listed) /\ next' = next
        BY <3>1 DEF CP!Return, CP!arrays, Listed
      <4>2. next \in 1..(Len(Listed) + 1) /\ Listed \in Seq(PlainDirectives)
        BY <1>3, PlainTypes DEF Chain, CP!IInv, CP!TypeOK, Listed
      <4>3. Len(Listed) \in Nat
        BY <4>2
      <4> QED BY <4>1, <4>2, <4>3
    <3>2. CASE CP!Apply \/ CP!RaiseConflict
      <4>1. status' # "compiled"
        BY <3>2 DEF CP!Apply, CP!RaiseConflict, CP!SkipNoOp, CP!ReduceSolar, CP!RaiseReserve,
                    CP!ForbidCharge, CP!ForbidDischarge, CP!CapGrid, CP!AtKind, CP!Advance
      <4> QED BY <4>1
    <3>3. CASE UNCHANGED CP!vars
      BY <3>3 DEF Chain, CP!vars
    <3> QED BY <1>3, <3>1, <3>2, <3>3 DEF CP!Next
  <2> QED BY <1>1, <2>1, <2>2, <2>3 DEF Chain
<1>4. CASE Validate
  <2>1. verdict # "accepted" /\ UNCHANGED compilerVars
    BY <1>4 DEF Validate, GuardrailsNext, Parse, Malformed, PassNote, Reject, Accept, NoteFits,
                NoOpFits, SolarFits, ReserveFits, GridCapFits, OutageFits, AtKind
  <2> QED BY <1>2, <2>1
<1>5. CASE Compile
  BY <1>3, <1>5, SameCompiler DEF Compile
<1>6. CASE UNCHANGED pipelineVars
  <2>1. UNCHANGED vars /\ UNCHANGED compilerVars
    BY <1>6 DEF pipelineVars
  <2>2. UNCHANGED CP!vars
    BY <2>1 DEF vars, CP!vars, CP!arrays, compilerVars, arrays, Plain, Elements
  <2> QED BY <1>2, <1>3, <2>1, <2>2
<1> QED BY <1>4, <1>5, <1>6 DEF Next

\* The chain as a whole.
THEOREM ChainHolds == Spec => []Chain
BY InitChain, StepChain, PTL DEF Spec

LEMMA CompilerTyped ==
  ASSUME Chain
  PROVE  CP!IInv /\ Compiler!TypeOK
<1>1. CP!IInv
  BY CompilerStarts DEF Chain, IInv
<1> QED BY <1>1, SameCompiler DEF CP!IInv

\* What left the parser can be indexed by hour, so that compile_directives never
\* raises on an hour, for every day and every answer.
THEOREM TypeCorrect == Spec => []TypeOK
<1>1. Chain => TypeOK
  <2> SUFFICES ASSUME Chain PROVE TypeOK
    OBVIOUS
  <2>1. at \in 1..(Len(answer.directives) + 1)
    BY DEF Chain, IInv, ListType
  <2>2. \A d \in Elements(directives) : \A a \in d.adjustment :
          Elements(a.hours) \subseteq Hours /\ a.amount \in Nat
    <3>1. \A k \in DOMAIN directives : directives[k] \in DirectiveType /\ SchemaFits(directives[k])
      BY DirectivesShaped DEF Chain, IInv
    <3>2. \A d \in Elements(directives) : d \in DirectiveType /\ SchemaFits(d)
      BY <3>1 DEF Elements
    <3>3. \A d \in Elements(directives) : \A a \in d.adjustment :
            AdjustmentParses(a) /\ a \in AdjustmentType
      BY <3>2 DEF SchemaFits, DirectiveType, Optional
    <3> QED BY <3>3 DEF AdjustmentParses, AdjustmentType
  <2>3. status # "compiling" => verdict = "accepted"
    BY DEF Chain, Compiler!CompilerInit
  <2> QED BY <2>1, <2>2, <2>3, CompilerTyped DEF Chain, IInv, ListType, TypeOK
<1> QED BY <1>1, ChainHolds, PTL

(***************************************************************************)
(* The arrays against the traces                                           *)
(***************************************************************************)

\* A product with a natural number keeps the order.
LEMMA TimesMonotonic ==
  ASSUME NEW s \in Nat, NEW a \in Int, NEW b \in Int, a <= b
  PROVE  s * a <= s * b
<1>1. PICK c \in Nat : b = a + c
  <2>1. b - a \in Nat /\ b = a + (b - a)
    OBVIOUS
  <2> QED BY <2>1
<1>2. s * b = s * a + s * c
  BY <1>1
<1>3. s * a \in Int /\ s * c \in Nat
  BY <1>1
<1> QED BY <1>2, <1>3

\* What the guardrails have established about note k once the arrays are there.
LEMMA NoteTraced ==
  ASSUME Chain, status = "compiled", NEW k \in DOMAIN directives,
         directives[k].kind # "no_op"
  PROVE  /\ Plain(directives[k]).kind = directives[k].kind
         /\ Plain(directives[k]).hours = TracedHours(answer.traces[k])
         /\ Numeric(directives[k].kind) =>
              \E m \in Meant(directives[k].kind, answer.traces[k]) :
                m \in Int /\ Near(Plain(directives[k]).amount, m)
         /\ directives[k].kind = "minimum_battery_reserve" =>
              Plain(directives[k]).amount <= Capacity * One
<1>1. verdict = "accepted"
  BY DEF Chain, Compiler!CompilerInit
<1>2. Agrees(k) /\ IndicesFit
  BY <1>1 DEF Chain, IInv, Checked
<1>3. directives[k] \in DirectiveType /\ answer.traces[k] \in TraceType
  BY <1>2, DirectivesShaped, LengthsAgree DEF Chain, IInv
<1>4. PICK a \in AdjustmentType :
        /\ directives[k].adjustment = {a}
        /\ Elements(a.hours) = TracedHours(answer.traces[k])
        /\ Numeric(directives[k].kind) =>
             \E m \in Meant(directives[k].kind, answer.traces[k]) : Near(a.amount, m)
        /\ directives[k].kind = "minimum_battery_reserve" => a.amount <= Capacity * One
  <2>1. directives[k].adjustment \subseteq AdjustmentType
        /\ \A x, y \in directives[k].adjustment : x = y
    BY <1>3 DEF DirectiveType, Optional
  <2> QED BY <1>2, <2>1 DEF Agrees, Consistent
<1>5. Plain(directives[k]) =
        [kind |-> directives[k].kind, hours |-> Elements(a.hours), amount |-> a.amount]
  BY <1>4 DEF Plain
<1>6. Numeric(directives[k].kind) => \A m \in Meant(directives[k].kind, answer.traces[k]) : m \in Int
  BY <1>3, MeantIsNumber DEF DirectiveType
<1> QED BY <1>4, <1>5, <1>6

\* The directives the compiler has applied for an hour are the notes about it.
LEMMA NamingIsAbout ==
  ASSUME Chain, status = "compiled", NEW kind \in DirectiveKinds \ {"no_op"}, NEW h \in Hours
  PROVE  CP!Naming(kind, h) = About(kind, h)
<1>1. PICK n \in Nat : n = Len(directives) /\ DOMAIN directives = 1..n
  BY DirectivesShaped DEF Chain, IInv
<1>2. next = n + 1
  <2>1. DOMAIN Listed = 1..n /\ Listed \in Seq(PlainDirectives)
    BY <1>1, ListedTyped DEF Listed, Chain, IInv
  <2>2. Len(Listed) = n
    BY <2>1
  <2> QED BY <2>2 DEF Chain
<1>3. CP!Applied = DOMAIN directives
  BY <1>1, <1>2 DEF CP!Applied
<1>4. \A k \in DOMAIN directives :
        directives[k].kind # "no_op" => Plain(directives[k]).hours = TracedHours(answer.traces[k])
  BY NoteTraced
<1>5. \A k \in DOMAIN directives : Plain(directives[k]).kind = directives[k].kind
  BY DEF Plain
<1> QED BY <1>3, <1>4, <1>5 DEF CP!Naming, About

LEMMA Kept ==
  ASSUME Chain, status = "compiled", NEW h \in Hours
  PROVE  CP!HourInv(h)
BY CompilerTyped, PlainTypes DEF CP!IInv

LEMMA NumericNote ==
  ASSUME Chain, status = "compiled", NEW kind \in DirectiveKinds \ {"no_op"}, Numeric(kind),
         NEW h \in Hours, NEW k \in About(kind, h)
  PROVE  /\ k \in CP!Naming(kind, h)
         /\ Plain(directives[k]).amount \in Nat
         /\ \E m \in Meant(kind, answer.traces[k]) :
              /\ m \in Int
              /\ Plain(directives[k]).amount >= m - Tolerance
              /\ Plain(directives[k]).amount <= m + Tolerance
<1>1. k \in DOMAIN directives /\ directives[k].kind = kind
  BY DEF About
<1>2. Plain(directives[k]).amount \in Nat
  BY <1>1, DirectivesShaped, PlainTyped DEF PlainDirectives, Chain, IInv
<1>3. PICK m \in Meant(kind, answer.traces[k]) :
        m \in Int /\ Near(Plain(directives[k]).amount, m)
  BY <1>1, NoteTraced
<1>4. Plain(directives[k]).amount >= m - Tolerance /\ Plain(directives[k]).amount <= m + Tolerance
  <2>1. Tolerance \in Nat
    BY GuardrailsAssumption
  <2> QED BY <1>2, <1>3, <2>1 DEF Near
<1> QED BY <1>2, <1>3, <1>4, NamingIsAbout

LEMMA ReserveFollows ==
  ASSUME Chain, status = "compiled", NEW h \in Hours
  PROVE  /\ \A k \in About("minimum_battery_reserve", h) :
              \E m \in Meant("minimum_battery_reserve", answer.traces[k]) :
                active_minimum[h] >= m - Tolerance
         /\ active_minimum[h] <= Capacity * One
<1>1. "minimum_battery_reserve" \in DirectiveKinds \ {"no_op"} /\ Numeric("minimum_battery_reserve")
  BY NumericKinds DEF DirectiveKinds
<1>2. active_minimum[h] \in Nat /\ Tolerance \in Nat
  BY CompilerTyped, PlainTypes, GuardrailsAssumption DEF CP!IInv, CP!TypeOK
<1>3. CP!ReserveKept(h)
  BY Kept DEF CP!HourInv
<1>4. ASSUME NEW k \in About("minimum_battery_reserve", h)
      PROVE  \E m \in Meant("minimum_battery_reserve", answer.traces[k]) :
               active_minimum[h] >= m - Tolerance
  <2>1. PICK m \in Meant("minimum_battery_reserve", answer.traces[k]) :
          m \in Int /\ Plain(directives[k]).amount >= m - Tolerance
    BY <1>1, NumericNote
  <2>2. Plain(directives[k]).amount \in Nat /\ active_minimum[h] >= Plain(directives[k]).amount
    <3>1. k \in CP!Naming("minimum_battery_reserve", h) /\ k \in DOMAIN directives
      BY <1>1, NumericNote DEF About
    <3> QED BY <1>1, <1>3, <3>1, NumericNote DEF CP!ReserveKept
  <2> QED BY <1>2, <2>1, <2>2
<1>5. active_minimum[h] <= Capacity * One
  <2>1. CASE active_minimum[h] = BaseMinimum
    BY <2>1, PipelineAssumption
  <2>2. CASE active_minimum[h] # BaseMinimum
    <3>1. PICK k \in About("minimum_battery_reserve", h) :
            active_minimum[h] = Plain(directives[k]).amount
      <4>1. CP!Naming("minimum_battery_reserve", h) = About("minimum_battery_reserve", h)
        BY <1>1, NamingIsAbout
      <4>2. PICK k \in About("minimum_battery_reserve", h) :
              active_minimum[h] = [j \in DOMAIN directives |-> Plain(directives[j])][k].amount
        BY <1>3, <2>2, <4>1 DEF CP!ReserveKept
      <4>3. k \in DOMAIN directives
        BY DEF About
      <4> QED BY <4>2, <4>3
    <3>2. k \in DOMAIN directives /\ directives[k].kind = "minimum_battery_reserve"
      BY DEF About
    <3> QED BY <3>1, <3>2, NoteTraced
  <2> QED BY <2>1, <2>2
<1> QED BY <1>4, <1>5

LEMMA CapFollows ==
  ASSUME Chain, status = "compiled", NEW h \in Hours, NEW k \in About("max_grid_window", h)
  PROVE  \E m \in Meant("max_grid_window", answer.traces[k]), b \in grid_upper_bound[h] :
           b <= m + Tolerance
<1>1. "max_grid_window" \in DirectiveKinds \ {"no_op"} /\ Numeric("max_grid_window")
  BY NumericKinds DEF DirectiveKinds
<1>2. grid_upper_bound[h] \subseteq Nat /\ Tolerance \in Nat
  BY CompilerTyped, PlainTypes, GuardrailsAssumption DEF CP!IInv, CP!TypeOK
<1>3. PICK m \in Meant("max_grid_window", answer.traces[k]) :
        m \in Int /\ Plain(directives[k]).amount <= m + Tolerance
  BY <1>1, NumericNote
<1>4. k \in CP!Naming("max_grid_window", h) /\ Plain(directives[k]).amount \in Nat
      /\ k \in DOMAIN directives
  BY <1>1, NumericNote DEF About
<1>5. PICK b \in grid_upper_bound[h] : b <= Plain(directives[k]).amount
  BY <1>4, Kept DEF CP!HourInv, CP!CapKept
<1> QED BY <1>2, <1>3, <1>4, <1>5

LEMMA OutagesFollow ==
  ASSUME Chain, status = "compiled", NEW h \in Hours
  PROVE  /\ charge_allowed[h] <=> About("no_charge_window", h) = {}
         /\ discharge_allowed[h] <=> About("no_discharge_window", h) = {}
<1>1. {"no_charge_window", "no_discharge_window"} \subseteq DirectiveKinds \ {"no_op"}
  BY DEF DirectiveKinds
<1>2. /\ CP!Naming("no_charge_window", h) = About("no_charge_window", h)
      /\ CP!Naming("no_discharge_window", h) = About("no_discharge_window", h)
  BY <1>1, NamingIsAbout
<1> QED BY <1>2, Kept DEF CP!HourInv, CP!ChargeKept, CP!DischargeKept

LEMMA SunFollows ==
  ASSUME Chain, status = "compiled", NEW h \in Hours, NEW k \in About("solar_reduction", h)
  PROVE  \E m \in Meant("solar_reduction", answer.traces[k]) :
           /\ effective_solar[h] <= Solar[h] * (m + Tolerance + Slack * Len(directives))
           /\ effective_solar[h] >= Solar[h] * (m - Tolerance - Slack * Len(directives))
<1>1. "solar_reduction" \in DirectiveKinds \ {"no_op"} /\ Numeric("solar_reduction")
  BY NumericKinds DEF DirectiveKinds
<1>2. PICK m \in Meant("solar_reduction", answer.traces[k]), c \in Nat :
        /\ m \in Int /\ c = Plain(directives[k]).amount
        /\ c >= m - Tolerance /\ c <= m + Tolerance
  BY <1>1, NumericNote
<1>3. k \in CP!Naming("solar_reduction", h) /\ k \in DOMAIN directives
  BY <1>1, NumericNote DEF About
<1>4. PICK n \in Nat : n = Len(directives) /\ DOMAIN directives = 1..n /\ next = n + 1
  <2>1. PICK n \in Nat : n = Len(directives) /\ DOMAIN directives = 1..n
    BY DirectivesShaped DEF Chain, IInv
  <2>2. DOMAIN Listed = 1..n /\ Listed \in Seq(PlainDirectives)
    BY <2>1, ListedTyped DEF Listed, Chain, IInv
  <2>3. Len(Listed) = n
    BY <2>2
  <2> QED BY <2>1, <2>3 DEF Chain
<1>5. PICK f \in solar_factor[h] :
        /\ effective_solar[h] = Solar[h] * f
        /\ f - c <= Slack * (next - 1 - k) /\ c - f <= Slack * (next - 1 - k)
  BY <1>2, <1>3, Kept DEF CP!HourInv, CP!SolarKept
<1>6. f \in Nat /\ Solar[h] \in Nat /\ Slack \in Nat /\ Tolerance \in Nat
  BY CompilerTyped, PlainTypes, GuardrailsAssumption, PipelineAssumption DEF CP!IInv, CP!TypeOK
<1>7. Slack * (next - 1 - k) <= Slack * n
  <2>1. next - 1 - k \in Int /\ next - 1 - k <= n
    BY <1>3, <1>4
  <2> QED BY <1>6, <2>1, TimesMonotonic
<1>8. PICK e \in Int : e = Slack * n
  BY <1>6
<1>9. m - Tolerance - e <= f /\ f <= m + Tolerance + e
  <2>1. PICK g \in Int : g = Slack * (next - 1 - k)
    BY <1>3, <1>4, <1>6
  <2> QED BY <1>2, <1>5, <1>6, <1>7, <1>8, <2>1
<1>10. Solar[h] * f <= Solar[h] * (m + Tolerance + e) /\ Solar[h] * (m - Tolerance - e) <= Solar[h] * f
  <2>1. m + Tolerance + e \in Int /\ m - Tolerance - e \in Int /\ f \in Int
    BY <1>2, <1>6
  <2> QED BY <1>6, <1>9, <2>1, TimesMonotonic
<1>11. Solar[h] * f \in Int /\ Solar[h] * (m - Tolerance - e) \in Int
  BY <1>2, <1>6
<1> QED BY <1>4, <1>5, <1>8, <1>10, <1>11

\* The arrays the optimizer takes its bounds from hold what the traces of an accepted
\* answer say, for every answer, day, battery and slack.
THEOREM ArraysHoldTraces == Spec => []ArraysFollowTraces
<1>1. Chain => ArraysFollowTraces
  BY ReserveFollows, CapFollows, OutagesFollow, SunFollows DEF ArraysFollowTraces
<1> QED BY <1>1, ChainHolds, PTL
=============================================================================
