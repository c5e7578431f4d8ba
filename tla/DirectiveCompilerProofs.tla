----------------------- MODULE DirectiveCompilerProofs -----------------------
(***************************************************************************)
(* Proofs about DirectiveCompiler, for every number of hours, every list   *)
(* of directives and every slack.                                          *)
(*                                                                         *)
(* The invariant says of each hour and each array what the directives      *)
(* applied so far make of it.  An action touches one array, so it          *)
(* disturbs one part; the other parts follow because the directive it      *)
(* applies is not of their kind (OtherKind).                               *)
(***************************************************************************)
EXTENDS DirectiveCompiler, TLAPS

ReserveKept(h) ==
  /\ \A i \in Naming("minimum_battery_reserve", h) : active_minimum[h] >= directives[i].amount
  /\ \/ active_minimum[h] = BaseMinimum
     \/ \E i \in Naming("minimum_battery_reserve", h) : active_minimum[h] = directives[i].amount
  /\ active_minimum[h] >= BaseMinimum

CapKept(h) ==
  /\ \A i \in Naming("max_grid_window", h) :
       \E b \in grid_upper_bound[h] : b <= directives[i].amount
  /\ \A b \in grid_upper_bound[h] :
       \E i \in Naming("max_grid_window", h) : b = directives[i].amount

ChargeKept(h) == ~charge_allowed[h] <=> Naming("no_charge_window", h) # {}

DischargeKept(h) == ~discharge_allowed[h] <=> Naming("no_discharge_window", h) # {}

SolarKept(h) ==
  /\ \A i \in Naming("solar_reduction", h) :
       \E f \in solar_factor[h] :
         /\ effective_solar[h] = Solar[h] * f
         /\ f - directives[i].amount <= Slack * (next - 1 - i)
         /\ directives[i].amount - f <= Slack * (next - 1 - i)
  /\ \/ solar_factor[h] = {} /\ effective_solar[h] = Solar[h] * One
     \/ \E i \in Naming("solar_reduction", h) :
          /\ solar_factor[h] = {directives[i].amount}
          /\ effective_solar[h] = Solar[h] * directives[i].amount

HourInv(h) ==
  ReserveKept(h) /\ CapKept(h) /\ ChargeKept(h) /\ DischargeKept(h) /\ SolarKept(h)

IInv == TypeOK /\ (\A h \in Hours : HourInv(h)) /\ ConflictHasCause

USE CompilerAssumption

\* A product of naturals grows with its second factor.
LEMMA TimesMonotonic ==
  ASSUME NEW s \in Nat, NEW a \in Nat, NEW b \in Nat, a <= b
  PROVE  s * a <= s * b
<1>1. PICK c \in Nat : b = a + c
  <2>1. b - a \in Nat /\ b = a + (b - a)
    OBVIOUS
  <2> QED BY <2>1
<1>2. s * b = s * a + s * c
  BY <1>1
<1>3. s * a \in Int /\ s * c \in Nat
  BY <1>1
<1> QED BY <1>2, <1>3

\* One more slack for one more directive.
LEMMA TimesNext ==
  ASSUME NEW s \in Nat, NEW k \in Int
  PROVE  s * (k + 1) = s * k + s
OBVIOUS

\* The loop applies the directive at next and moves on.
Applies(kind) ==
  /\ TypeOK /\ AtKind(kind) /\ Advance

\* The directive applied joins those that name its hours with its kind.
LEMMA NamingGrows ==
  ASSUME NEW kind \in Kinds, NEW other \in Kinds, NEW h \in Hours, Applies(kind)
  PROVE  /\ kind = other /\ Named(h) => Naming(other, h)' = Naming(other, h) \cup {next}
         /\ ~(kind = other /\ Named(h)) => Naming(other, h)' = Naming(other, h)
<1>1. next \in Nat \ {0} /\ next' = next + 1 /\ directives' = directives
  BY DEF Applies, TypeOK, Advance
<1>2. Applied' = Applied \cup {next}
  BY <1>1 DEF Applied
<1>3. directives[next].kind = kind /\ next \notin Applied
  BY <1>1 DEF Applies, AtKind, Applied
<1>4. Named(h) <=> h \in directives[next].hours
  BY DEF Named
<1> QED BY <1>1, <1>2, <1>3, <1>4 DEF Naming

\* What the type of a directive says of the one at next and of those applied.
LEMMA DirectivesTyped ==
  ASSUME TypeOK, status = "compiling"
  PROVE  /\ next <= Len(directives) => directives[next] \in DirectiveType /\ Amount \in Nat
         /\ \A h \in Hours, k \in Kinds : \A i \in Naming(k, h) :
              i \in 1..Len(directives) /\ i < next /\ directives[i].amount \in Nat
<1>1. directives \in Seq(DirectiveType) /\ next \in 1..(Len(directives) + 1)
  BY DEF TypeOK
<1>2. \A i \in 1..Len(directives) : directives[i] \in DirectiveType
  BY <1>1
<1>3. \A d \in DirectiveType : d.amount \in Nat
  BY DEF DirectiveType
<1>4. Len(directives) \in Nat
  BY <1>1
<1>5. \A h \in Hours, k \in Kinds : Naming(k, h) \subseteq 1..(next - 1)
  BY DEF Naming, Applied
<1> QED BY <1>1, <1>2, <1>3, <1>4, <1>5 DEF Amount

\* Before the first directive the arrays hold the request's own values.
LEMMA InitIInv == Init => IInv
<1> SUFFICES ASSUME Init PROVE IInv
  OBVIOUS
<1> USE DEF Init, CompilerInit
<1>1. directives \in Seq(DirectiveType)
  BY DEF CompilerAssumption
<1>2. TypeOK
  <2>1. \A h \in Hours : Solar[h] * One \in Nat
    OBVIOUS
  <2> QED BY <1>1, <2>1 DEF TypeOK
<1>3. \A h \in Hours, k \in Kinds : Naming(k, h) = {}
  BY DEF Naming, Applied
<1>4. \A h \in Hours : HourInv(h)
  BY <1>3 DEF HourInv, ReserveKept, CapKept, ChargeKept, DischargeKept, SolarKept, Kinds
<1>5. ConflictHasCause
  BY DEF ConflictHasCause
<1> QED BY <1>2, <1>4, <1>5 DEF IInv

\* A directive of one kind leaves alone what the other kinds have set up.
LEMMA OtherKind ==
  ASSUME IInv, NEW kind \in Kinds, Applies(kind), NEW h \in Hours
  PROVE  /\ kind # "minimum_battery_reserve" /\ UNCHANGED active_minimum => ReserveKept(h)'
         /\ kind # "max_grid_window" /\ UNCHANGED grid_upper_bound => CapKept(h)'
         /\ kind # "no_charge_window" /\ UNCHANGED charge_allowed => ChargeKept(h)'
         /\ kind # "no_discharge_window" /\ UNCHANGED discharge_allowed => DischargeKept(h)'
<1>1. \A other \in Kinds : kind # other => Naming(other, h)' = Naming(other, h)
  BY NamingGrows
<1>2. directives' = directives
  BY DEF Applies, Advance
<1>3. HourInv(h)
  BY DEF IInv
<1>4. ASSUME kind # "minimum_battery_reserve", UNCHANGED active_minimum PROVE ReserveKept(h)'
  BY <1>1, <1>2, <1>3, <1>4 DEF HourInv, ReserveKept, Kinds
<1>5. ASSUME kind # "max_grid_window", UNCHANGED grid_upper_bound PROVE CapKept(h)'
  BY <1>1, <1>2, <1>3, <1>5 DEF HourInv, CapKept, Kinds
<1>6. ASSUME kind # "no_charge_window", UNCHANGED charge_allowed PROVE ChargeKept(h)'
  BY <1>1, <1>2, <1>3, <1>6 DEF HourInv, ChargeKept, Kinds
<1>7. ASSUME kind # "no_discharge_window", UNCHANGED discharge_allowed PROVE DischargeKept(h)'
  BY <1>1, <1>2, <1>3, <1>7 DEF HourInv, DischargeKept, Kinds
<1> QED BY <1>4, <1>5, <1>6, <1>7

\* A later directive costs a solar reduction one slack, whether it is of
\* another kind, of other hours or a reduction of the same hour.
LEMMA Drift ==
  ASSUME NEW f \in Int, NEW a \in Int, NEW i \in Int, NEW n \in Int,
         f - a <= Slack * (n - 1 - i), a - f <= Slack * (n - 1 - i),
         NEW g \in Int, Close(f, g)
  PROVE  /\ g - a <= Slack * (n + 1 - 1 - i)
         /\ a - g <= Slack * (n + 1 - 1 - i)
<1>1. Slack * ((n - 1 - i) + 1) = Slack * (n - 1 - i) + Slack
  BY TimesNext
<1>2. (n - 1 - i) + 1 = n + 1 - 1 - i
  OBVIOUS
<1>3. Slack * (n - 1 - i) \in Int
  OBVIOUS
<1> QED BY <1>1, <1>2, <1>3 DEF Close

\* The sun of an hour that the directive applied does not reduce.
LEMMA SolarUntouched ==
  ASSUME IInv, NEW kind \in Kinds, Applies(kind), NEW h \in Hours,
         ~(kind = "solar_reduction" /\ Named(h)),
         solar_factor'[h] = solar_factor[h], effective_solar'[h] = effective_solar[h]
  PROVE  SolarKept(h)'
<1> DEFINE S == Naming("solar_reduction", h)
<1>1. S' = S /\ directives' = directives /\ next' = next + 1 /\ next \in Nat
  <2>1. "solar_reduction" \in Kinds
    BY DEF Kinds
  <2>2. S' = S
    BY <2>1, NamingGrows
  <2>3. next \in Nat
    BY DEF Applies, TypeOK
  <2> QED BY <2>2, <2>3 DEF Applies, Advance
<1>2. SolarKept(h)
  BY DEF IInv, HourInv
<1>3. \A i \in S : i \in Int /\ directives[i].amount \in Nat
  BY DirectivesTyped DEF IInv, Applies, AtKind, Kinds
<1>4. solar_factor[h] \subseteq Nat
  BY DEF IInv, TypeOK
<1>5. ASSUME NEW i \in S
      PROVE  \E f \in solar_factor[h] :
               /\ effective_solar[h] = Solar[h] * f
               /\ f - directives[i].amount <= Slack * (next + 1 - 1 - i)
               /\ directives[i].amount - f <= Slack * (next + 1 - 1 - i)
  <2>1. PICK f \in solar_factor[h] :
          /\ effective_solar[h] = Solar[h] * f
          /\ f - directives[i].amount <= Slack * (next - 1 - i)
          /\ directives[i].amount - f <= Slack * (next - 1 - i)
    BY <1>2 DEF SolarKept
  <2>2. Close(f, f) /\ f \in Int
    BY <1>4 DEF Close
  <2>3. i \in Int /\ directives[i].amount \in Int /\ next \in Int
    BY <1>1, <1>3
  <2>4. /\ f - directives[i].amount <= Slack * (next + 1 - 1 - i)
        /\ directives[i].amount - f <= Slack * (next + 1 - 1 - i)
    BY <2>1, <2>2, <2>3, Drift
  <2> QED BY <2>1, <2>4
<1>6. \/ solar_factor[h] = {} /\ effective_solar[h] = Solar[h] * One
      \/ \E i \in S : /\ solar_factor[h] = {directives[i].amount}
                     /\ effective_solar[h] = Solar[h] * directives[i].amount
  BY <1>2 DEF SolarKept
<1>7. ASSUME NEW i \in S'
      PROVE  \E f \in solar_factor'[h] :
               /\ effective_solar'[h] = Solar[h] * f
               /\ f - directives'[i].amount <= Slack * (next' - 1 - i)
               /\ directives'[i].amount - f <= Slack * (next' - 1 - i)
  <2>1. i \in S /\ directives'[i].amount = directives[i].amount /\ next' = next + 1
    BY <1>1
  <2>2. PICK f \in solar_factor[h] :
               /\ effective_solar[h] = Solar[h] * f
               /\ f - directives[i].amount <= Slack * (next + 1 - 1 - i)
               /\ directives[i].amount - f <= Slack * (next + 1 - 1 - i)
    BY <1>5, <2>1
  <2>3. f \in solar_factor'[h] /\ effective_solar'[h] = Solar[h] * f
    BY <2>2
  <2>4. next' - 1 - i = next + 1 - 1 - i
    <3>1. next \in Int /\ i \in Int /\ next' = next + 1
      BY <1>1, <1>3, <2>1
    <3> QED BY <3>1
  <2>5. /\ f - directives'[i].amount <= Slack * (next' - 1 - i)
        /\ directives'[i].amount - f <= Slack * (next' - 1 - i)
    BY <2>1, <2>2, <2>4, Zenon
  <2> QED BY <2>3, <2>5
<1>8. \/ solar_factor'[h] = {} /\ effective_solar'[h] = Solar[h] * One
      \/ \E i \in S' : /\ solar_factor'[h] = {directives'[i].amount}
                      /\ effective_solar'[h] = Solar[h] * directives'[i].amount
  BY <1>1, <1>6
<1> QED BY <1>7, <1>8 DEF SolarKept

\* The sun of an hour the solar reduction applied names: the factors of the
\* hour so far are within one slack of its own.
LEMMA SolarReduced ==
  ASSUME IInv, ReduceSolar, NEW h \in Hours, Named(h)
  PROVE  SolarKept(h)'
<1> DEFINE S == Naming("solar_reduction", h)
<1>1. Applies("solar_reduction") /\ "solar_reduction" \in Kinds
  BY DEF ReduceSolar, Applies, IInv, Kinds
<1>2. S' = S \cup {next}
  BY <1>1, NamingGrows
<1>3. directives' = directives /\ next' = next + 1 /\ next \in Int
  BY <1>1 DEF Applies, Advance, TypeOK
<1>4. solar_factor'[h] = {Amount} /\ effective_solar'[h] = Solar[h] * Amount
  BY DEF ReduceSolar, Replaced
<1>5. Amount = directives[next].amount /\ Amount \in Int
  BY <1>1, DirectivesTyped DEF Amount, Applies, AtKind, IInv
<1>6. \A i \in S : i \in Int /\ directives[i].amount \in Int
  BY <1>1, DirectivesTyped DEF IInv, Applies, AtKind
<1>7. SolarKept(h) /\ solar_factor[h] \subseteq Nat
  BY DEF IInv, HourInv, TypeOK
<1>8. \A f \in solar_factor[h] : Close(f, Amount)
  BY DEF ReduceSolar, Conflicting, Named
<1>9. ASSUME NEW i \in S'
      PROVE  /\ Amount - directives[i].amount <= Slack * (next + 1 - 1 - i)
             /\ directives[i].amount - Amount <= Slack * (next + 1 - 1 - i)
  <2>1. CASE i = next
    <3>1. next + 1 - 1 - i = 0
      BY <1>3, <2>1
    <3> QED BY <1>5, <2>1, <3>1
  <2>2. CASE i \in S
    <3>1. PICK f \in solar_factor[h] :
            /\ f - directives[i].amount <= Slack * (next - 1 - i)
            /\ directives[i].amount - f <= Slack * (next - 1 - i)
      BY <1>7, <2>2 DEF SolarKept
    <3>2. f \in Int /\ Close(f, Amount)
      BY <1>7, <1>8
    <3> QED BY <1>3, <1>5, <1>6, <2>2, <3>1, <3>2, Drift
  <2> QED BY <1>2, <2>1, <2>2
<1>10. \A i \in S' : next' - 1 - i = next + 1 - 1 - i
  BY <1>2, <1>3, <1>6
<1>11. next \in S'
  BY <1>2
<1> HIDE DEF S
<1>12. \A i \in S' : \E f \in solar_factor'[h] :
         /\ effective_solar'[h] = Solar[h] * f
         /\ f - directives'[i].amount <= Slack * (next' - 1 - i)
         /\ directives'[i].amount - f <= Slack * (next' - 1 - i)
  BY <1>3, <1>4, <1>9, <1>10
<1>13. \E i \in S' : /\ solar_factor'[h] = {directives'[i].amount}
                    /\ effective_solar'[h] = Solar[h] * directives'[i].amount
  BY <1>3, <1>4, <1>5, <1>11
<1> QED BY <1>12, <1>13 DEF SolarKept, S

\* The loop applies a directive: type and conflict part of the invariant.
LEMMA ApplyTypes ==
  ASSUME IInv, Apply
  PROVE  TypeOK' /\ ConflictHasCause'
<1>1. status = "compiling" /\ next <= Len(directives)
      /\ directives' = directives /\ next' = next + 1 /\ status' = status
  BY DEF Apply, SkipNoOp, ReduceSolar, RaiseReserve, ForbidCharge, ForbidDischarge, CapGrid,
         AtKind, Advance
<1>2. ConflictHasCause'
  BY <1>1 DEF ConflictHasCause
<1> SUFFICES TypeOK'
  BY <1>2
<1>3. directives \in Seq(DirectiveType) /\ Len(directives) \in Nat
      /\ next' \in 1..(Len(directives) + 1)
  BY <1>1 DEF IInv, TypeOK
<1>4. directives[next] \in DirectiveType /\ Amount \in Nat
  BY <1>1, DirectivesTyped DEF IInv
<1>5. CASE SkipNoOp
  BY <1>1, <1>3, <1>5 DEF SkipNoOp, arrays, IInv, TypeOK
<1>6. CASE ReduceSolar
  <2>1. Amount <= One
    BY <1>4, <1>6 DEF ReduceSolar, AtKind, Amount, DirectiveType
  <2>2. \A h \in Hours : Solar[h] * Amount \in Nat /\ Solar[h] * Amount <= Solar[h] * One
    <3>1. One \in Nat /\ \A h \in Hours : Solar[h] \in Nat
      OBVIOUS
    <3>2. \A h \in Hours : Solar[h] * Amount <= Solar[h] * One
      BY <1>4, <2>1, <3>1, TimesMonotonic
    <3>3. \A h \in Hours : Solar[h] * Amount \in Nat
      BY <1>4, <3>1
    <3> QED BY <3>2, <3>3
  <2>3. solar_factor' = [h \in Hours |-> IF Named(h) THEN {Amount} ELSE solar_factor[h]]
        /\ effective_solar' =
             [h \in Hours |-> IF Named(h) THEN Solar[h] * Amount ELSE effective_solar[h]]
        /\ UNCHANGED <<active_minimum, charge_allowed, discharge_allowed, grid_upper_bound>>
    BY <1>6 DEF ReduceSolar, Replaced
  <2> QED BY <1>1, <1>3, <1>4, <2>2, <2>3 DEF IInv, TypeOK
<1>7. CASE RaiseReserve
  <2>1. active_minimum' =
          [h \in Hours |-> IF Named(h) THEN Higher(active_minimum[h], Amount)
                           ELSE active_minimum[h]]
    BY <1>7 DEF RaiseReserve, Replaced
  <2> QED BY <1>1, <1>3, <1>4, <1>7, <2>1 DEF RaiseReserve, Higher, IInv, TypeOK
<1>8. CASE ForbidCharge
  BY <1>1, <1>3, <1>8 DEF ForbidCharge, Replaced, IInv, TypeOK
<1>9. CASE ForbidDischarge
  BY <1>1, <1>3, <1>9 DEF ForbidDischarge, Replaced, IInv, TypeOK
<1>10. CASE CapGrid
  <2>1. grid_upper_bound' =
          [h \in Hours |-> IF Named(h) THEN Capped(h) ELSE grid_upper_bound[h]]
    BY <1>10 DEF CapGrid, Replaced
  <2>2. \A h \in Hours : Capped(h) \subseteq Nat /\ \A a, b \in Capped(h) : a = b
    BY <1>4 DEF Capped, Lower, IInv, TypeOK
  <2> QED BY <1>1, <1>3, <1>10, <2>1, <2>2 DEF CapGrid, IInv, TypeOK
<1> QED BY <1>5, <1>6, <1>7, <1>8, <1>9, <1>10 DEF Apply

\* The loop applies a directive: what binds in an hour.
LEMMA ApplyBinds ==
  ASSUME IInv, Apply, NEW h \in Hours
  PROVE  HourInv(h)'
<1>1. ASSUME Applies("no_op"), UNCHANGED arrays PROVE HourInv(h)'
  BY <1>1, OtherKind, SolarUntouched DEF HourInv, arrays, Kinds
<1>2. HourInv(h)
  BY DEF IInv
<1>3. Amount \in Nat /\ Amount = directives[next].amount
  BY DirectivesTyped DEF Apply, SkipNoOp, ReduceSolar, RaiseReserve, ForbidCharge,
     ForbidDischarge, CapGrid, AtKind, IInv, Amount
<1>4. CASE SkipNoOp
  BY <1>1, <1>4 DEF SkipNoOp, Applies, IInv
<1>5. CASE ReduceSolar
  <2>1. Applies("solar_reduction")
    BY <1>5 DEF ReduceSolar, Applies, IInv
  <2>2. SolarKept(h)'
    <3>1. CASE Named(h)
      BY <1>5, <3>1, SolarReduced
    <3>2. CASE ~Named(h)
      <4>1. solar_factor'[h] = solar_factor[h] /\ effective_solar'[h] = effective_solar[h]
        BY <1>5, <3>2 DEF ReduceSolar, Replaced
      <4> QED BY <2>1, <3>2, <4>1, SolarUntouched DEF Kinds
    <3> QED BY <3>1, <3>2
  <2> QED BY <1>5, <2>1, <2>2, OtherKind DEF ReduceSolar, HourInv, Kinds
<1>6. CASE RaiseReserve
  <2>1. Applies("minimum_battery_reserve") /\ "minimum_battery_reserve" \in Kinds
    BY <1>6 DEF RaiseReserve, Applies, IInv, Kinds
  <2>2. active_minimum'[h] = IF Named(h) THEN Higher(active_minimum[h], Amount)
                                        ELSE active_minimum[h]
    BY <1>6 DEF RaiseReserve, Replaced
  <2>3. directives' = directives /\ active_minimum[h] \in Nat
    BY <2>1 DEF Applies, Advance, IInv, TypeOK
  <2>4. \A i \in Naming("minimum_battery_reserve", h) : directives[i].amount \in Nat
    BY <2>1, DirectivesTyped DEF IInv, Applies, AtKind
  <2>5. ReserveKept(h)'
    <3>1. ReserveKept(h)
      BY <1>2 DEF HourInv
    <3>2. CASE Named(h)
      <4>1. Naming("minimum_battery_reserve", h)'
              = Naming("minimum_battery_reserve", h) \cup {next}
        BY <2>1, <3>2, NamingGrows
      <4> QED BY <1>3, <2>2, <2>3, <2>4, <3>1, <3>2, <4>1 DEF ReserveKept, Higher
    <3>3. CASE ~Named(h)
      <4>1. Naming("minimum_battery_reserve", h)' = Naming("minimum_battery_reserve", h)
        BY <2>1, <3>3, NamingGrows
      <4> QED BY <2>2, <2>3, <3>1, <3>3, <4>1 DEF ReserveKept
    <3> QED BY <3>2, <3>3
  <2>6. SolarKept(h)'
    BY <1>6, <2>1, SolarUntouched DEF RaiseReserve
  <2> QED BY <1>6, <2>1, <2>5, <2>6, OtherKind DEF RaiseReserve, HourInv
<1>7. CASE ForbidCharge
  <2>1. Applies("no_charge_window") /\ "no_charge_window" \in Kinds
    BY <1>7 DEF ForbidCharge, Applies, IInv, Kinds
  <2>2. charge_allowed'[h] = IF Named(h) THEN FALSE ELSE charge_allowed[h]
    BY <1>7 DEF ForbidCharge, Replaced
  <2>3. ChargeKept(h)'
    <3>1. CASE Named(h)
      <4>1. Naming("no_charge_window", h)' = Naming("no_charge_window", h) \cup {next}
        BY <2>1, <3>1, NamingGrows
      <4> QED BY <2>2, <3>1, <4>1 DEF ChargeKept
    <3>2. CASE ~Named(h)
      <4>1. Naming("no_charge_window", h)' = Naming("no_charge_window", h)
        BY <2>1, <3>2, NamingGrows
      <4> QED BY <1>2, <2>2, <3>2, <4>1 DEF HourInv, ChargeKept
    <3> QED BY <3>1, <3>2
  <2>4. SolarKept(h)'
    BY <1>7, <2>1, SolarUntouched DEF ForbidCharge
  <2> QED BY <1>7, <2>1, <2>3, <2>4, OtherKind DEF ForbidCharge, HourInv
<1>8. CASE ForbidDischarge
  <2>1. Applies("no_discharge_window") /\ "no_discharge_window" \in Kinds
    BY <1>8 DEF ForbidDischarge, Applies, IInv, Kinds
  <2>2. discharge_allowed'[h] = IF Named(h) THEN FALSE ELSE discharge_allowed[h]
    BY <1>8 DEF ForbidDischarge, Replaced
  <2>3. DischargeKept(h)'
    <3>1. CASE Named(h)
      <4>1. Naming("no_discharge_window", h)' = Naming("no_discharge_window", h) \cup {next}
        BY <2>1, <3>1, NamingGrows
      <4> QED BY <2>2, <3>1, <4>1 DEF DischargeKept
    <3>2. CASE ~Named(h)
      <4>1. Naming("no_discharge_window", h)' = Naming("no_discharge_window", h)
        BY <2>1, <3>2, NamingGrows
      <4> QED BY <1>2, <2>2, <3>2, <4>1 DEF HourInv, DischargeKept
    <3> QED BY <3>1, <3>2
  <2>4. SolarKept(h)'
    BY <1>8, <2>1, SolarUntouched DEF ForbidDischarge
  <2> QED BY <1>8, <2>1, <2>3, <2>4, OtherKind DEF ForbidDischarge, HourInv
<1>9. CASE CapGrid
  <2>1. Applies("max_grid_window") /\ "max_grid_window" \in Kinds
    BY <1>9 DEF CapGrid, Applies, IInv, Kinds
  <2>2. grid_upper_bound'[h] = IF Named(h) THEN Capped(h) ELSE grid_upper_bound[h]
    BY <1>9 DEF CapGrid, Replaced
  <2>3. directives' = directives /\ grid_upper_bound[h] \subseteq Nat
        /\ \A a, b \in grid_upper_bound[h] : a = b
    BY <2>1 DEF Applies, Advance, IInv, TypeOK
  <2>4. \A i \in Naming("max_grid_window", h) : directives[i].amount \in Nat
    BY <2>1, DirectivesTyped DEF IInv, Applies, AtKind
  <2>5. CapKept(h)'
    <3>1. CapKept(h)
      BY <1>2 DEF HourInv
    <3>2. CASE Named(h)
      <4>1. Naming("max_grid_window", h)' = Naming("max_grid_window", h) \cup {next}
        BY <2>1, <3>2, NamingGrows
      <4>2. CASE grid_upper_bound[h] = {}
        <5>1. Capped(h) = {Amount}
          BY <4>2 DEF Capped
        <5> QED BY <1>3, <2>2, <2>3, <3>1, <3>2, <4>1, <4>2, <5>1 DEF CapKept
      <4>3. CASE grid_upper_bound[h] # {}
        <5>1. PICK b \in grid_upper_bound[h] : grid_upper_bound[h] = {b}
          BY <2>3, <4>3
        <5>2. Capped(h) = {Lower(b, Amount)}
          BY <4>3, <5>1 DEF Capped
        <5>3. b \in Nat
          BY <2>3
        <5> QED BY <1>3, <2>2, <2>3, <2>4, <3>1, <3>2, <4>1, <5>1, <5>2, <5>3
                DEF CapKept, Lower
      <4> QED BY <4>2, <4>3
    <3>3. CASE ~Named(h)
      <4>1. Naming("max_grid_window", h)' = Naming("max_grid_window", h)
        BY <2>1, <3>3, NamingGrows
      <4> QED BY <2>2, <2>3, <3>1, <3>3, <4>1 DEF CapKept
    <3> QED BY <3>2, <3>3
  <2>6. SolarKept(h)'
    BY <1>9, <2>1, SolarUntouched DEF CapGrid
  <2> QED BY <1>9, <2>1, <2>5, <2>6, OtherKind DEF CapGrid, HourInv
<1> QED BY <1>4, <1>5, <1>6, <1>7, <1>8, <1>9 DEF Apply

\* Every step of the loop keeps the invariant.
LEMMA StepIInv == IInv /\ [Next]_vars => IInv'
<1> SUFFICES ASSUME IInv, [Next]_vars PROVE IInv'
  OBVIOUS
<1>1. CASE Apply
  BY <1>1, ApplyTypes, ApplyBinds DEF IInv
<1>2. ASSUME UNCHANGED <<directives, next, arrays>> PROVE \A h \in Hours : HourInv(h)'
  <2>1. \A k \in Kinds, h \in Hours : Naming(k, h)' = Naming(k, h)
    BY <1>2 DEF Naming, Applied
  <2> QED BY <1>2, <2>1 DEF arrays, IInv, HourInv, ReserveKept, CapKept, ChargeKept,
             DischargeKept, SolarKept, Kinds
<1>3. CASE RaiseConflict
  <2>1. \A h \in Hours : HourInv(h)'
    BY <1>2, <1>3 DEF RaiseConflict
  <2>2. TypeOK'
    BY <1>3 DEF RaiseConflict, arrays, IInv, TypeOK
  <2>3. PICK h \in directives[next].hours : \E f \in solar_factor[h] : ~Close(f, Amount)
    BY <1>3 DEF RaiseConflict, Conflicting
  <2>4. next \in 1..Len(directives) /\ directives[next].kind = "solar_reduction"
    BY <1>3 DEF RaiseConflict, AtKind, IInv, TypeOK
  <2>5. h \in Hours
    BY <2>3, <2>4 DEF IInv, TypeOK, DirectiveType
  <2>6. SolarKept(h)
    BY <2>5 DEF IInv, HourInv
  <2>7. PICK i \in Naming("solar_reduction", h) : solar_factor[h] = {directives[i].amount}
    BY <2>3, <2>6 DEF SolarKept
  <2>8. i \in 1..Len(directives) /\ directives[i].kind = "solar_reduction"
        /\ h \in directives[i].hours
    BY <2>4, <2>7 DEF Naming, Applied, IInv, TypeOK
  <2>9. ~Close(directives[i].amount, directives[next].amount)
    BY <2>3, <2>7 DEF Amount
  <2>10. ConflictHasCause'
    BY <1>3, <2>3, <2>4, <2>8, <2>9 DEF RaiseConflict, ConflictHasCause
  <2> QED BY <2>1, <2>2, <2>10 DEF IInv
<1>4. CASE Return
  <2>1. \A h \in Hours : HourInv(h)'
    BY <1>2, <1>4 DEF Return
  <2>2. TypeOK' /\ ConflictHasCause'
    BY <1>4 DEF Return, arrays, IInv, TypeOK, ConflictHasCause
  <2> QED BY <2>1, <2>2 DEF IInv
<1>5. CASE UNCHANGED vars
  <2>1. \A h \in Hours : HourInv(h)'
    BY <1>2, <1>5 DEF vars
  <2>2. TypeOK' /\ ConflictHasCause'
    BY <1>5 DEF vars, arrays, IInv, TypeOK, ConflictHasCause
  <2> QED BY <2>1, <2>2 DEF IInv
<1> QED BY <1>1, <1>3, <1>4, <1>5 DEF Next

\* The invariant holds of every execution of compile_directives.
THEOREM IInvHolds == Spec => []IInv
BY InitIInv, StepIInv, PTL DEF Spec

\* The arrays have one value per hour and the sun is never raised.
THEOREM TypeCorrect == Spec => []TypeOK
<1>1. IInv => TypeOK
  BY DEF IInv
<1> QED BY <1>1, IInvHolds, PTL

\* compile_directives loses no directive, in any order and any overlap.
THEOREM NothingLost == Spec => []EveryDirectiveBinds
<1>1. IInv => EveryDirectiveBinds
  BY DEF IInv, HourInv, ReserveKept, CapKept, ChargeKept, DischargeKept, SolarKept,
     EveryDirectiveBinds
<1> QED BY <1>1, IInvHolds, PTL

\* compile_directives adds no restriction of its own to an hour.
THEOREM NothingAdded == Spec => []OnlyDirectivesBind
<1>1. IInv => OnlyDirectivesBind
  BY DEF IInv, HourInv, ReserveKept, CapKept, ChargeKept, DischargeKept, SolarKept,
     OnlyDirectivesBind
<1> QED BY <1>1, IInvHolds, PTL

\* DirectiveConflictError always has two solar reductions to blame.
THEOREM ConflictJustified == Spec => []ConflictHasCause
<1>1. IInv => ConflictHasCause
  BY DEF IInv
<1> QED BY <1>1, IInvHolds, PTL
=============================================================================
