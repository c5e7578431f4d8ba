---------------------------- MODULE ServiceProofs ----------------------------
(***************************************************************************)
(* Proofs about the application round its handler, for any clients, body   *)
(* sizes, payloads and limit, a day of any length and any deployments.     *)
(***************************************************************************)
EXTENDS Service, FiniteSetTheorems, SequenceTheorems, TLAPS

(***************************************************************************)
(* The request schema.                                                     *)
(***************************************************************************)

Accepts(p) == p.parses /\ NotesValid(p) /\ HoursValid(p) /\ BatteryValid(p)

HourOf(p) == [i \in DOMAIN p.hours |-> p.hours[i].hour]

\* As many entries as hours, and every hour among them: each hour once.
LEMMA EachHourOnce ==
  ASSUME NEW p \in Payloads, HoursValid(p)
  PROVE  HourOf(p) \in Bijection(1..Day, 0..(Day - 1))
<1>1. Day \in Nat \ {0} /\ p.hours \in Seq([hour : Int, datum : Nat])
  BY FrontAssumption
<1>2. DOMAIN p.hours = 1..Day
  BY <1>1 DEF HoursValid
<1>3. \A h \in 0..(Day - 1) : \E i \in 1..Day : p.hours[i].hour = h
  BY <1>2 DEF HoursValid
<1>4. \A i \in 1..Day : p.hours[i].hour \in 0..(Day - 1)
  BY <1>2 DEF HoursValid
<1>5. HourOf(p) \in Surjection(1..Day, 0..(Day - 1))
  BY <1>2, <1>3, <1>4 DEF HourOf, Surjection
<1>6. /\ IsFiniteSet(1..Day) /\ IsFiniteSet(0..(Day - 1))
      /\ Cardinality(1..Day) = Cardinality(0..(Day - 1))
  BY <1>1, FS_Interval
<1>7. HourOf(p) \in Injection(1..Day, 0..(Day - 1))
  BY <1>5, <1>6, FS_SurjSameCardinalityImpliesInj
<1> QED BY <1>5, <1>7 DEF Bijection

\* The ordered day holds at each hour what the client said of it.
LEMMA OrderedDay ==
  ASSUME NEW p \in Payloads, HoursValid(p)
  PROVE  /\ Ordered(p) \in Seq([hour : Int, datum : Nat]) /\ DOMAIN Ordered(p) = 1..Day
         /\ \A i \in 1..Day : \A entry \in Range(p.hours) :
              entry.hour = i - 1 <=> entry = Ordered(p)[i]
<1>1. Day \in Nat \ {0} /\ p.hours \in Seq([hour : Int, datum : Nat])
  BY FrontAssumption
<1>2. DOMAIN p.hours = 1..Day
  BY <1>1 DEF HoursValid
<1>3. HourOf(p) \in Bijection(1..Day, 0..(Day - 1))
  BY EachHourOnce
<1>4. ASSUME NEW e \in Range(p.hours), NEW f \in Range(p.hours), e.hour = f.hour
      PROVE  e = f
  <2>1. PICK i \in 1..Day : e = p.hours[i]
    BY <1>2 DEF Range
  <2>2. PICK j \in 1..Day : f = p.hours[j]
    BY <1>2 DEF Range
  <2>3. HourOf(p)[i] = HourOf(p)[j]
    BY <1>2, <1>4, <2>1, <2>2 DEF HourOf
  <2> QED BY <1>3, <2>1, <2>2, <2>3 DEF Bijection, Injection, IsInjective
<1>5. ASSUME NEW i \in 1..Day
      PROVE  \E e \in Range(p.hours) : e.hour = i - 1
  <2>1. i - 1 \in 0..(Day - 1)
    BY <1>1
  <2>2. PICK j \in 1..Day : HourOf(p)[j] = i - 1
    BY <1>3, <2>1 DEF Bijection, Surjection
  <2> QED BY <1>2, <2>2 DEF HourOf, Range
<1>6. ASSUME NEW i \in 1..Day
      PROVE  Ordered(p)[i] \in Range(p.hours) /\ Ordered(p)[i].hour = i - 1
  BY <1>5 DEF Ordered
<1>7. Range(p.hours) \subseteq [hour : Int, datum : Nat]
  BY <1>1, RangeOfSeq
<1>8. Ordered(p) \in [1..Day -> [hour : Int, datum : Nat]]
  <2>1. Ordered(p) = [i \in 1..Day |-> Ordered(p)[i]]
    BY DEF Ordered
  <2> QED BY <1>6, <1>7, <2>1
<1>9. Ordered(p) \in Seq([hour : Int, datum : Nat])
  BY <1>1, <1>8, SeqDef
<1>10. ASSUME NEW i \in 1..Day, NEW e \in Range(p.hours)
       PROVE  e.hour = i - 1 <=> e = Ordered(p)[i]
  BY <1>4, <1>6
<1> QED BY <1>8, <1>9, <1>10

\* The schema accepts exactly the payloads a planner can work with.
LEMMA AcceptsSound ==
  ASSUME NEW p \in Payloads
  PROVE  Accepts(p) <=> Sound(p)
<1>1. /\ Day \in Nat \ {0} /\ p.hours \in Seq([hour : Int, datum : Nat])
      /\ p.notes \in Seq(BOOLEAN) /\ {p.capacity, p.initial, p.minimum} \subseteq Nat
  BY FrontAssumption
<1>2. NotesValid(p) <=> Len(p.notes) \in 1..3 /\ FALSE \notin Range(p.notes)
  <2>1. (\A i \in DOMAIN p.notes : p.notes[i]) <=> FALSE \notin Range(p.notes)
    <3>1. ASSUME NEW i \in DOMAIN p.notes PROVE p.notes[i] \in BOOLEAN
      BY <1>1, ElementOfSeq, LenProperties
    <3> QED BY <3>1 DEF Range
  <2> QED BY <2>1 DEF NotesValid
<1>3. BatteryValid(p) <=> {p.initial, p.minimum} \subseteq 0..p.capacity
  BY <1>1 DEF BatteryValid
<1> DEFINE Covers(order) ==
             /\ \A i \in DOMAIN p.hours : \E h \in 0..(Day - 1) : order[h] = i
             /\ \A h \in 0..(Day - 1) : p.hours[order[h]].hour = h
<1>4. ASSUME HoursValid(p)
      PROVE  \E order \in [0..(Day - 1) -> DOMAIN p.hours] : Covers(order)
  <2>1. DOMAIN p.hours = 1..Day
    BY <1>1, <1>4 DEF HoursValid
  <2>2. HourOf(p) \in Bijection(1..Day, 0..(Day - 1))
    BY <1>4, EachHourOnce
  <2> DEFINE order == [h \in 0..(Day - 1) |-> CHOOSE i \in 1..Day : p.hours[i].hour = h]
  <2>3. \A h \in 0..(Day - 1) : order[h] \in 1..Day /\ p.hours[order[h]].hour = h
    <3>1. \A h \in 0..(Day - 1) : \E i \in 1..Day : p.hours[i].hour = h
      BY <2>1, <2>2 DEF HourOf, Bijection, Surjection
    <3> QED BY <3>1
  <2>4. ASSUME NEW i \in 1..Day
        PROVE  p.hours[i].hour \in 0..(Day - 1) /\ order[p.hours[i].hour] = i
    <3>1. p.hours[i].hour \in 0..(Day - 1) /\ p.hours[i].hour = HourOf(p)[i]
      BY <2>1, <2>2 DEF HourOf, Bijection, Surjection
    <3>2. order[p.hours[i].hour] \in 1..Day
          /\ HourOf(p)[order[p.hours[i].hour]] = HourOf(p)[i]
      BY <2>1, <2>3, <3>1 DEF HourOf
    <3> QED BY <2>2, <3>1, <3>2 DEF Bijection, Injection, IsInjective
  <2>5. order \in [0..(Day - 1) -> DOMAIN p.hours]
    BY <2>1, <2>3
  <2> HIDE DEF order
  <2>6. Covers(order)
    BY <2>1, <2>3, <2>4
  <2> QED BY <2>5, <2>6
<1>5. ASSUME NEW order \in [0..(Day - 1) -> DOMAIN p.hours], Covers(order)
      PROVE  HoursValid(p)
  <2>1. DOMAIN p.hours = 1..Len(p.hours) /\ Len(p.hours) \in Nat
    BY <1>1
  <2>2. {p.hours[i].hour : i \in DOMAIN p.hours} = 0..(Day - 1)
    <3>1. ASSUME NEW i \in DOMAIN p.hours PROVE p.hours[i].hour \in 0..(Day - 1)
      BY <1>5
    <3>2. ASSUME NEW h \in 0..(Day - 1) PROVE \E i \in DOMAIN p.hours : p.hours[i].hour = h
      BY <1>5
    <3> QED BY <3>1, <3>2
  <2>3. order \in Surjection(0..(Day - 1), 1..Len(p.hours))
    BY <1>5, <2>1 DEF Surjection
  <2>4. order \in Injection(0..(Day - 1), 1..Len(p.hours))
    BY <1>5, <2>1 DEF Injection, IsInjective
  <2>5. /\ IsFiniteSet(0..(Day - 1)) /\ Cardinality(0..(Day - 1)) = Day
        /\ Cardinality(1..Len(p.hours)) = Len(p.hours)
    <3>1. Day - 1 - 0 + 1 = Day /\ Len(p.hours) - 1 + 1 = Len(p.hours) /\ 0 <= Day - 1
      BY <1>1, <2>1
    <3>2. 0 \in Int /\ 1 \in Int /\ Day - 1 \in Int /\ Len(p.hours) \in Int
      BY <1>1, <2>1
    <3>3. IsFiniteSet(0..(Day - 1)) /\ Cardinality(0..(Day - 1)) = Day
      BY <1>1, <3>1, <3>2, FS_Interval
    <3>4. Cardinality(1..Len(p.hours)) = Len(p.hours)
      <4>1. Cardinality(1..Len(p.hours)) = IF 1 > Len(p.hours) THEN 0 ELSE Len(p.hours) - 1 + 1
        BY <3>2, FS_Interval
      <4> QED BY <2>1, <4>1
    <3> QED BY <3>3, <3>4
  <2>6. Cardinality(1..Len(p.hours)) = Cardinality(0..(Day - 1))
    BY <2>3, <2>4, <2>5, FS_Surjection
  <2> QED BY <2>2, <2>5, <2>6 DEF HoursValid
<1> QED BY <1>2, <1>3, <1>4, <1>5 DEF Accepts, Sound

(***************************************************************************)
(* The layers before the handler.                                          *)
(***************************************************************************)

\* What the stage of a request says about its body, its payload and its answer.
Account(r) ==
  /\ stage[r] = "idle" => held[r] = 0 /\ payload[r] = NoPayload /\ status[r] = 0
  /\ stage[r] # "idle" => claim[r].size = held[r] + left[r]
  /\ stage[r] \in {"reading", "parsing"} => payload[r] = NoPayload /\ status[r] = 0
  /\ (stage[r] = "parsing" \/ payload[r] # NoPayload) =>
       stage[r] # "idle" /\ left[r] = 0 /\ held[r] <= MaxBody
  /\ stage[r] \in {"handling", "planning"} =>
       payload[r] # NoPayload /\ status[r] = 0 /\ request[r] = Ordered(payload[r])
  /\ status[r] = 400 =>
       \/ claim[r].declared = Junk \/ claim[r].size > MaxBody \/ payload[r] # NoPayload
       \/ claim[r].declared \in BodySizes /\ claim[r].declared > MaxBody
  /\ payload[r] # NoPayload => (status[r] = 400 <=> ~Accepts(payload[r]))

FrontInv == FrontTypeOK /\ \A r \in Requests : Account(r)

\* The step leaves request q alone.
Same(q) ==
  /\ stage'[q] = stage[q] /\ claim'[q] = claim[q] /\ left'[q] = left[q] /\ held'[q] = held[q]
  /\ payload'[q] = payload[q] /\ request'[q] = request[q]
  /\ status'[q] = status[q]

LEMMA OnlyOne ==
  ASSUME FrontInv, NEW r \in Requests, FrontTypeOK', Account(r)',
         \A q \in Requests \ {r} : Same(q)
  PROVE  FrontInv'
<1>1. ASSUME NEW q \in Requests \ {r} PROVE Account(q)'
  BY DEF FrontInv, Account, Same
<1> QED BY <1>1 DEF FrontInv

\* Request r, and no other, got an answer.
Ended(r, code) ==
  /\ stage' \in [Requests -> Stages] /\ stage'[r] = "done"
  /\ status' \in [Requests -> {0, 200, 400, 500}] /\ status'[r] = code
  /\ \A q \in Requests \ {r} : stage'[q] = stage[q] /\ status'[q] = status[q]

LEMMA AnswerMade ==
  ASSUME FrontTypeOK, NEW r \in Requests, NEW code \in {200, 400, 500}, Answers(r, code)
  PROVE  Ended(r, code)
  BY DEF Answers, Goes, FrontTypeOK, Stages, Ended

LEMMA GoesOn ==
  ASSUME FrontTypeOK, NEW r \in Requests, NEW where \in Stages, Goes(r, where)
  PROVE  /\ stage' \in [Requests -> Stages] /\ stage'[r] = where
         /\ \A q \in Requests \ {r} : stage'[q] = stage[q]
  BY DEF Goes, FrontTypeOK

LEMMA FrontInitInv == FrontInit => FrontInv
<1> SUFFICES ASSUME FrontInit PROVE FrontInv
  OBVIOUS
<1>1. FrontTypeOK
  BY FrontAssumption DEF FrontInit, FrontTypeOK, Stages
<1>2. \A r \in Requests : Account(r)
  BY DEF FrontInit, Account
<1> QED BY <1>1, <1>2 DEF FrontInv

LEMMA ArriveInv ==
  ASSUME FrontInv, NEW r \in Requests, Arrive(r)
  PROVE  FrontInv'
<1>1. PICK size \in BodySizes, declared \in BodySizes \union {Absent, Junk} :
        /\ claim' = [claim EXCEPT ![r] = [size |-> size, declared |-> declared]]
        /\ left' = [left EXCEPT ![r] = size]
        /\ IF declared = Junk \/ (declared # Absent /\ TooLarge(declared))
           THEN Answers(r, 400)
           ELSE Goes(r, "reading") /\ UNCHANGED status
  BY DEF Arrive
<1>2. FrontTypeOK /\ Account(r) /\ stage[r] = "idle" /\ size \in Nat /\ MaxBody \in Nat
      /\ UNCHANGED <<held, gone, payload, request>>
  BY FrontAssumption DEF FrontInv, Arrive
<1>3. /\ claim' \in [Requests -> [size : BodySizes \union {0}, declared : BodySizes \union {Absent, Junk}]]
      /\ claim'[r].size = size /\ claim'[r].declared = declared
      /\ left' \in [Requests -> Nat] /\ left'[r] = size
      /\ \A q \in Requests \ {r} : claim'[q] = claim[q] /\ left'[q] = left[q]
  BY <1>1, <1>2 DEF FrontTypeOK
<1>4. held[r] = 0 /\ payload[r] = NoPayload /\ status[r] = 0
  BY <1>2 DEF Account
<1>5. CASE (declared = Junk \/ (declared # Absent /\ TooLarge(declared))) /\ Answers(r, 400)
  <2>1. Ended(r, 400)
    BY <1>2, <1>5, AnswerMade
  <2>2. declared = Junk \/ (declared \in BodySizes /\ declared > MaxBody)
    BY <1>5 DEF TooLarge
  <2>3. Account(r)'
    BY <1>2, <1>3, <1>4, <2>1, <2>2 DEF Account, Ended
  <2>4. FrontTypeOK'
    BY <1>2, <1>3, <2>1 DEF FrontTypeOK, Ended
  <2> QED BY <1>2, <1>3, <2>1, <2>3, <2>4, OnlyOne DEF Same, Ended
<1>6. CASE Goes(r, "reading") /\ UNCHANGED status
  <2>1. /\ stage' \in [Requests -> Stages] /\ stage'[r] = "reading"
        /\ \A q \in Requests \ {r} : stage'[q] = stage[q]
    BY <1>2, <1>6, GoesOn DEF Stages
  <2>2. Account(r)'
    BY <1>2, <1>3, <1>4, <1>6, <2>1 DEF Account
  <2>3. FrontTypeOK'
    BY <1>2, <1>3, <1>4, <1>6, <2>1 DEF FrontTypeOK
  <2> QED BY <1>2, <1>3, <1>6, <2>1, <2>2, <2>3, OnlyOne DEF Same
<1> QED BY <1>1, <1>5, <1>6

LEMMA ReceiveInv ==
  ASSUME FrontInv, NEW r \in Requests, Receive(r)
  PROVE  FrontInv'
<1>1. PICK n \in 0..left[r], more \in BOOLEAN :
        /\ IF more THEN n > 0 ELSE n = left[r]
        /\ held' = [held EXCEPT ![r] = @ + n]
        /\ left' = [left EXCEPT ![r] = @ - n]
        /\ IF TooLarge(held[r] + n)
           THEN Answers(r, 400)
           ELSE Goes(r, IF more THEN "reading" ELSE "parsing") /\ UNCHANGED status
  BY DEF Receive
<1>2. FrontTypeOK /\ Account(r) /\ stage[r] = "reading" /\ MaxBody \in Nat
      /\ UNCHANGED <<claim, gone, payload, request>>
  BY FrontAssumption DEF FrontInv, Receive
<1>3. /\ payload[r] = NoPayload /\ status[r] = 0 /\ claim[r].size = held[r] + left[r]
      /\ held[r] \in Nat /\ left[r] \in Nat /\ claim[r].size \in Nat
  BY <1>2 DEF Account, FrontTypeOK
<1>4. /\ held' \in [Requests -> Nat] /\ held'[r] = held[r] + n
      /\ left' \in [Requests -> Nat] /\ left'[r] = left[r] - n
      /\ claim[r].size = held'[r] + left'[r]
      /\ \A q \in Requests \ {r} : held'[q] = held[q] /\ left'[q] = left[q]
  BY <1>1, <1>2, <1>3 DEF FrontTypeOK
<1>5. CASE TooLarge(held[r] + n) /\ Answers(r, 400)
  <2>1. Ended(r, 400)
    BY <1>2, <1>5, AnswerMade
  <2>2. claim[r].size > MaxBody
    BY <1>1, <1>2, <1>3, <1>5 DEF TooLarge
  <2>3. Account(r)'
    BY <1>2, <1>3, <1>4, <2>1, <2>2 DEF Account, Ended
  <2>4. FrontTypeOK'
    <3>1. ASSUME NEW q \in Requests, stage'[q] = "reading" PROVE held'[q] <= MaxBody
      <4>1. q \in Requests \ {r} /\ stage'[q] = stage[q] /\ held'[q] = held[q]
        BY <1>4, <2>1, <3>1 DEF Ended
      <4> QED BY <1>2, <3>1, <4>1 DEF FrontTypeOK
    <3>2. /\ held' \in [Requests -> Nat] /\ left' \in [Requests -> Nat]
          /\ stage' \in [Requests -> Stages]
          /\ status' \in [Requests -> {0, 200, 400, 500}]
      BY <1>4, <2>1 DEF Ended
    <3>3. /\ claim' \in [Requests -> [size : BodySizes \union {0}, declared : BodySizes \union {Absent, Junk}]]
          /\ gone' \in [Requests -> BOOLEAN] /\ payload' \in [Requests -> Payloads \union {NoPayload}]
          /\ request' \in [Requests -> Seq([hour : Int, datum : Nat])]
      BY <1>2 DEF FrontTypeOK
    <3> QED BY <3>1, <3>2, <3>3 DEF FrontTypeOK
  <2> QED BY <1>2, <1>4, <2>1, <2>3, <2>4, OnlyOne DEF Same, Ended
<1>6. CASE /\ ~TooLarge(held[r] + n) /\ UNCHANGED status
           /\ Goes(r, IF more THEN "reading" ELSE "parsing")
  <2>1. held'[r] <= MaxBody /\ (~more => left'[r] = 0)
    BY <1>1, <1>2, <1>3, <1>4, <1>6 DEF TooLarge
  <2>2. PICK where \in {"reading", "parsing"} : Goes(r, where) /\ (where = "parsing" => ~more)
    BY <1>6
  <2>3. /\ stage' \in [Requests -> Stages] /\ stage'[r] = where
        /\ \A q \in Requests \ {r} : stage'[q] = stage[q]
    BY <1>2, <2>2, GoesOn DEF Stages
  <2>4. Account(r)'
    BY <1>2, <1>3, <1>4, <1>6, <2>1, <2>2, <2>3 DEF Account
  <2>5. FrontTypeOK'
    BY <1>2, <1>4, <1>6, <2>1, <2>3 DEF FrontTypeOK
  <2> QED BY <1>2, <1>4, <1>6, <2>3, <2>4, <2>5, OnlyOne DEF Same
<1> QED BY <1>1, <1>5, <1>6

LEMMA DisconnectedInv ==
  ASSUME FrontInv, NEW r \in Requests, Disconnected(r)
  PROVE  FrontInv'
<1>1. FrontTypeOK /\ Account(r) /\ stage[r] = "reading" /\ stage' = [stage EXCEPT ![r] = "done"]
      /\ UNCHANGED <<claim, left, held, gone, payload, request, status>>
  BY DEF FrontInv, Disconnected, Goes
<1>2. Account(r)'
  BY <1>1 DEF Account, FrontTypeOK
<1>3. FrontTypeOK'
  BY <1>1 DEF FrontTypeOK, Stages
<1> QED BY <1>1, <1>2, <1>3, OnlyOne DEF Same, FrontTypeOK

LEMMA LeaveInv ==
  ASSUME FrontInv, NEW r \in Requests, Leave(r)
  PROVE  FrontInv'
<1>1. FrontTypeOK'
  BY DEF FrontInv, FrontTypeOK, Leave
<1>2. \A q \in Requests : Account(q)'
  BY DEF FrontInv, Account, Leave
<1> QED BY <1>1, <1>2 DEF FrontInv

LEMMA ParseInv ==
  ASSUME FrontInv, NEW r \in Requests, Parse(r)
  PROVE  FrontInv'
<1>1. PICK p \in Payloads :
        /\ payload' = [payload EXCEPT ![r] = p]
        /\ IF Accepts(p)
           THEN /\ request' = [request EXCEPT ![r] = Ordered(p)]
                /\ Goes(r, "handling") /\ UNCHANGED status
           ELSE Answers(r, 400) /\ UNCHANGED request
  BY DEF Parse, Accepts
<1>2. /\ FrontTypeOK /\ Account(r) /\ stage[r] = "parsing" /\ p # NoPayload
      /\ UNCHANGED <<claim, left, held, gone>>
  BY FrontAssumption DEF FrontInv, Parse
<1>3. /\ payload' \in [Requests -> Payloads \union {NoPayload}] /\ payload'[r] = p
      /\ \A q \in Requests \ {r} : payload'[q] = payload[q]
  BY <1>1, <1>2 DEF FrontTypeOK
<1>4. /\ claim[r].size = held[r] + left[r] /\ left[r] = 0 /\ held[r] <= MaxBody /\ status[r] = 0
  BY <1>2 DEF Account
<1>5. CASE Accepts(p) /\ request' = [request EXCEPT ![r] = Ordered(p)]
           /\ Goes(r, "handling") /\ UNCHANGED status
  <2>1. Ordered(p) \in Seq([hour : Int, datum : Nat])
    BY <1>5, OrderedDay DEF Accepts
  <2>2. /\ request' \in [Requests -> Seq([hour : Int, datum : Nat])] /\ request'[r] = Ordered(p)
        /\ \A q \in Requests \ {r} : request'[q] = request[q]
    BY <1>2, <1>5, <2>1 DEF FrontTypeOK
  <2>3. /\ stage' \in [Requests -> Stages] /\ stage'[r] = "handling"
        /\ \A q \in Requests \ {r} : stage'[q] = stage[q]
    BY <1>2, <1>5, GoesOn DEF Stages
  <2>4. Account(r)'
    BY <1>2, <1>3, <1>4, <1>5, <2>2, <2>3 DEF Account
  <2>5. FrontTypeOK'
    BY <1>2, <1>3, <1>5, <2>2, <2>3 DEF FrontTypeOK
  <2> QED BY <1>2, <1>3, <1>5, <2>2, <2>3, <2>4, <2>5, OnlyOne DEF Same
<1>6. CASE ~Accepts(p) /\ Answers(r, 400) /\ UNCHANGED request
  <2>1. Ended(r, 400)
    BY <1>2, <1>6, AnswerMade
  <2>2. Account(r)'
    BY <1>2, <1>3, <1>4, <1>6, <2>1 DEF Account, Ended
  <2>3. FrontTypeOK'
    BY <1>2, <1>3, <1>6, <2>1 DEF FrontTypeOK, Ended
  <2> QED BY <1>2, <1>3, <1>6, <2>1, <2>2, <2>3, OnlyOne DEF Same, Ended
<1> QED BY <1>1, <1>5, <1>6

\* The handler's part of a request: it goes on to the planner, or is answered.
LEMMA HandledInv ==
  ASSUME FrontInv, NEW r \in Requests,
         \/ stage[r] = "handling" /\ Goes(r, "planning") /\ UNCHANGED status
         \/ stage[r] \in {"handling", "planning"}
            /\ \E code \in {200, 500} : Answers(r, code),
         UNCHANGED <<claim, left, held, gone, payload, request>>
  PROVE  FrontInv'
<1>1. FrontTypeOK /\ Account(r)
  BY DEF FrontInv
<1>2. CASE stage[r] = "handling" /\ Goes(r, "planning") /\ UNCHANGED status
  <2>1. /\ stage' \in [Requests -> Stages] /\ stage'[r] = "planning"
        /\ \A q \in Requests \ {r} : stage'[q] = stage[q]
    BY <1>1, <1>2, GoesOn DEF Stages
  <2>2. Account(r)'
    BY <1>1, <1>2, <2>1 DEF Account
  <2>3. FrontTypeOK'
    BY <1>1, <1>2, <2>1 DEF FrontTypeOK
  <2> QED BY <1>2, <2>1, <2>2, <2>3, OnlyOne DEF Same
<1>3. ASSUME NEW code \in {200, 500}, stage[r] \in {"handling", "planning"},
             Answers(r, code)
      PROVE  FrontInv'
  <2>1. Ended(r, code)
    BY <1>1, <1>3, AnswerMade
  <2>2. Account(r)'
    BY <1>1, <1>3, <2>1 DEF Account, Ended
  <2>3. FrontTypeOK'
    BY <1>1, <1>3, <2>1 DEF FrontTypeOK, Ended
  <2> QED BY <2>1, <2>2, <2>3, OnlyOne DEF Same, Ended
<1> QED BY <1>2, <1>3

(***************************************************************************)
(* The life of the planner.                                                *)
(***************************************************************************)

Given == {d.planner : d \in Deployments}

\* What start-up or the first request built, and from what.
Built ==
  /\ builds = 1 /\ config.geminiModel = "text" /\ "text" \in Range(config.geminiKeys)
  /\ planner.backup # NoAdapter <=>
       (config.groqModel = "text" /\ "text" \in Range(config.groqKeys))

\* How far aclose has come.
Closing ==
  /\ phase \notin {"closing", "down"} => turn = 1 /\ closed = {} /\ closes = <<>>
  /\ closes # <<>> => phase \in {"closing", "down"}
  /\ \A i, j \in DOMAIN closes : closes[i] = closes[j] => i = j
  /\ \A a \in closed : a.hook => \E i \in DOMAIN closes : closes[i] = a
  /\ turn > 1 => planner.primary \in closed \union {NoAdapter}
  /\ turn > 2 => planner.backup \in closed \union {NoAdapter}

LifeInv ==
  /\ LifeTypeOK
  /\ planner = NoPlanner => builds = 0
  /\ planner \in Given \union {NoPlanner} \/ Built
  /\ lifespan /\ phase \notin {"starting", "failed"} => planner # NoPlanner
  /\ Closing

LEMMA KeysInRange ==
  ASSUME NEW values
  PROVE  Keys(values) # {} <=> "text" \in Range(values)
  BY DEF Keys, Range

\* A planner built from a valid configuration has a backup if one is configured.
LEMMA DefaultBuilt ==
  ASSUME LifeTypeOK, planner = NoPlanner, builds = 0, ConfigurationValid
  PROVE  /\ DefaultPlanner # NoPlanner
         /\ DefaultPlanner.backup # NoAdapter <=>
              (config.groqModel = "text" /\ "text" \in Range(config.groqKeys))
         /\ config.geminiModel = "text" /\ "text" \in Range(config.geminiKeys)
<1>1. config.groqModel # "absent" /\ Keys(config.groqKeys) # {} <=>
        config.groqModel = "text" /\ "text" \in Range(config.groqKeys)
  BY KeysInRange DEF ConfigurationValid
<1>2. \A m \in {"gemini", "groq"} : [name |-> m, build |-> builds + 1, hook |-> TRUE] \in BuiltAdapters
  BY DEF BuiltAdapters
<1>3. DefaultPlanner \in [primary : BuiltAdapters, backup : BuiltAdapters \union {NoAdapter}]
  BY <1>2 DEF DefaultPlanner
<1>4. DefaultPlanner.backup # NoAdapter <=>
        config.groqModel # "absent" /\ Keys(config.groqKeys) # {}
  BY <1>2, LifeAssumption DEF DefaultPlanner
<1> QED BY <1>1, <1>3, <1>4, KeysInRange, LifeAssumption DEF ConfigurationValid

LEMMA LifeInitInv == LifeInit => LifeInv
<1> SUFFICES ASSUME LifeInit PROVE LifeInv
  OBVIOUS
<1>1. LifeTypeOK
  BY DEF LifeInit, LifeTypeOK, Phases
<1>2. Closing
  BY DEF LifeInit, Closing
<1> QED BY <1>1, <1>2 DEF LifeInit, LifeInv, Given

LEMMA StartUpInv ==
  ASSUME LifeInv, StartUp
  PROVE  LifeInv'
<1>1. /\ LifeTypeOK /\ phase = "starting" /\ phase' \in {"serving", "failed"}
      /\ turn = 1 /\ closed = {} /\ closes = <<>>
      /\ UNCHANGED <<lifespan, config, turn, closed, closes>>
  BY DEF StartUp, LifeInv, Closing
<1>2. Closing'
  BY <1>1 DEF Closing
<1>3. CASE UNCHANGED <<planner, builds>> /\ (phase' = "failed" \/ ~(lifespan /\ planner = NoPlanner))
  <2>1. LifeTypeOK'
    BY <1>1, <1>3 DEF LifeTypeOK, Phases
  <2>2. lifespan' /\ phase' \notin {"starting", "failed"} => planner' # NoPlanner
    BY <1>1, <1>3
  <2> QED BY <1>1, <1>2, <1>3, <2>1, <2>2 DEF LifeInv, Built
<1>4. CASE planner = NoPlanner /\ ConfigurationValid
           /\ planner' = DefaultPlanner /\ builds' = builds + 1
  <2>1. builds = 0
    BY <1>4 DEF LifeInv
  <2>2. /\ DefaultPlanner # NoPlanner
        /\ DefaultPlanner.backup # NoAdapter <=>
             (config.groqModel = "text" /\ "text" \in Range(config.groqKeys))
        /\ config.geminiModel = "text" /\ "text" \in Range(config.geminiKeys)
    BY <1>1, <1>4, <2>1, DefaultBuilt
  <2>3. LifeTypeOK'
    BY <1>1, <1>4, <2>1, <2>2 DEF LifeTypeOK, Phases
  <2>4. Built'
    BY <1>1, <1>4, <2>1, <2>2 DEF Built
  <2> QED BY <1>1, <1>2, <1>4, <2>1, <2>2, <2>3, <2>4 DEF LifeInv
<1> QED BY <1>3, <1>4 DEF StartUp

\* The first request of a server without a lifespan builds the planner.
LEMMA BuildInv ==
  ASSUME LifeInv, planner = NoPlanner, ConfigurationValid, phase \in {"serving", "stopping"},
         planner' = DefaultPlanner, builds' = builds + 1,
         UNCHANGED <<phase, lifespan, config, turn, closed, closes>>
  PROVE  LifeInv'
<1>1. LifeTypeOK /\ builds = 0 /\ turn = 1 /\ closed = {} /\ closes = <<>> /\ Closing
  BY DEF LifeInv, Closing
<1>2. /\ DefaultPlanner # NoPlanner
      /\ DefaultPlanner.backup # NoAdapter <=>
           (config.groqModel = "text" /\ "text" \in Range(config.groqKeys))
      /\ config.geminiModel = "text" /\ "text" \in Range(config.geminiKeys)
  BY <1>1, DefaultBuilt
<1>3. LifeTypeOK'
  BY <1>1, <1>2 DEF LifeTypeOK
<1>4. Built'
  BY <1>1, <1>2 DEF Built
<1>5. Closing'
  BY <1>1 DEF Closing
<1> QED BY <1>1, <1>2, <1>3, <1>4, <1>5 DEF LifeInv

LEMMA StopInv ==
  ASSUME LifeInv, Stop
  PROVE  LifeInv'
<1>1. LifeTypeOK'
  BY DEF LifeInv, LifeTypeOK, Stop, Phases
<1>2. Closing'
  BY DEF LifeInv, Closing, Stop
<1> QED BY <1>1, <1>2 DEF LifeInv, Built, Stop

LEMMA DrainedInv ==
  ASSUME LifeInv, Drained
  PROVE  LifeInv'
<1>1. phase = "stopping" /\ phase' \in {"closing", "down"}
      /\ (phase' = "closing" => planner # NoPlanner)
      /\ (lifespan => planner # NoPlanner)
  BY DEF Drained, LifeInv, LifeTypeOK
<1>2. LifeTypeOK'
  BY <1>1 DEF LifeInv, LifeTypeOK, Drained, Phases
<1>3. Closing'
  BY <1>1 DEF LifeInv, Closing, Drained
<1> QED BY <1>1, <1>2, <1>3 DEF LifeInv, Built, Drained

\* close() is called on an adapter the loop has not met.
LEMMA CloseCalled ==
  ASSUME LifeInv, NEW a, a \notin closed, closed' = closed \union {a},
         closes' = IF a.hook THEN Append(closes, a) ELSE closes
  PROVE  /\ closes' \in Seq(closed')
         /\ \A i, j \in DOMAIN closes' : closes'[i] = closes'[j] => i = j
         /\ \A b \in closed' : b.hook => \E i \in DOMAIN closes' : closes'[i] = b
<1>1. /\ closes \in Seq(closed)
      /\ \A i, j \in DOMAIN closes : closes[i] = closes[j] => i = j
      /\ \A b \in closed : b.hook => \E i \in DOMAIN closes : closes[i] = b
  BY DEF LifeInv, LifeTypeOK, Closing
<1>2. closes \in Seq(closed')
  BY <1>1, SeqMonotonic
<1>3. CASE ~a.hook
  BY <1>1, <1>2, <1>3
<1>4. CASE a.hook
  <2>1. closes' = Append(closes, a) /\ a \in closed'
    BY <1>4
  <2>2. /\ Len(closes) \in Nat /\ DOMAIN closes = 1..Len(closes)
        /\ closes' \in Seq(closed') /\ Len(closes') = Len(closes) + 1
        /\ DOMAIN closes' = 1..(Len(closes) + 1)
        /\ closes'[Len(closes) + 1] = a
        /\ \A i \in 1..Len(closes) : closes'[i] = closes[i]
    BY <1>2, <2>1, AppendProperties, LenProperties
  <2>3. \A i \in 1..Len(closes) : closes[i] \in closed /\ closes[i] # a
    BY <1>1, ElementOfSeq
  <2>4. ASSUME NEW i \in DOMAIN closes', NEW j \in DOMAIN closes', closes'[i] = closes'[j]
        PROVE  i = j
    BY <1>1, <2>2, <2>3, <2>4
  <2>5. ASSUME NEW b \in closed', b.hook
        PROVE  \E i \in DOMAIN closes' : closes'[i] = b
    <3>1. CASE b = a
      BY <2>2, <3>1
    <3>2. CASE b \in closed
      BY <1>1, <2>2, <2>5, <3>2
    <3> QED BY <3>1, <3>2
  <2> QED BY <2>2, <2>4, <2>5
<1> QED BY <1>3, <1>4

LEMMA CloseNextInv ==
  ASSUME LifeInv, CloseNext
  PROVE  LifeInv'
<1> DEFINE a == IF turn = 1 THEN planner.primary ELSE planner.backup
<1>1. /\ LifeTypeOK /\ Closing /\ phase = "closing" /\ planner # NoPlanner /\ turn \in 1..3
      /\ UNCHANGED <<lifespan, config, planner, builds>>
  BY DEF CloseNext, LifeInv, LifeTypeOK
<1>2. /\ phase' \in {"closing", "down"} /\ turn' \in {turn, turn + 1}
      /\ turn' # turn => turn \in 1..2 /\ a \in closed' \union {NoAdapter}
      /\ \/ closed' = closed /\ closes' = closes
         \/ /\ a \notin closed /\ closed' = closed \union {a} /\ turn \in 1..2
            /\ closes' = IF a.hook THEN Append(closes, a) ELSE closes
  BY <1>1 DEF CloseNext
<1>3. /\ closes' \in Seq(closed')
      /\ \A i, j \in DOMAIN closes' : closes'[i] = closes'[j] => i = j
      /\ \A b \in closed' : b.hook => \E i \in DOMAIN closes' : closes'[i] = b
      /\ closed \subseteq closed' /\ closed' \subseteq {planner.primary, planner.backup}
  <2>1. CASE closed' = closed /\ closes' = closes
    BY <1>1, <2>1 DEF LifeTypeOK, Closing
  <2>2. CASE /\ a \notin closed /\ closed' = closed \union {a} /\ turn \in 1..2
             /\ closes' = IF a.hook THEN Append(closes, a) ELSE closes
    <3>1. a \in {planner.primary, planner.backup} /\ closed \subseteq {planner.primary, planner.backup}
      BY <1>1 DEF LifeTypeOK
    <3> HIDE DEF a
    <3> QED BY <2>2, <3>1, CloseCalled
  <2> QED BY <1>2, <2>1, <2>2
<1>4. LifeTypeOK'
  BY <1>1, <1>2, <1>3 DEF LifeTypeOK, Phases
<1>5. /\ turn' > 1 => planner.primary \in closed' \union {NoAdapter}
      /\ turn' > 2 => planner.backup \in closed' \union {NoAdapter}
  BY <1>1, <1>2, <1>3 DEF Closing
<1>6. Closing'
  BY <1>1, <1>2, <1>3, <1>5 DEF Closing
<1> QED BY <1>1, <1>2, <1>4, <1>6 DEF LifeInv, Built

(***************************************************************************)
(* The application.                                                        *)
(***************************************************************************)

IInv ==
  /\ FrontInv /\ LifeInv
  /\ served \in [Requests -> {NoPlanner, planner}]
  /\ \A r \in Requests : stage[r] = "planning" => served[r] # NoPlanner
  /\ phase \notin {"serving", "stopping"} => InProgress = {}

LEMMA InitIInv == Init => IInv
<1> SUFFICES ASSUME Init PROVE IInv
  OBVIOUS
<1>1. FrontInv /\ LifeInv
  BY FrontInitInv, LifeInitInv DEF Init
<1>2. \A r \in Requests : stage[r] = "idle"
  BY DEF Init, FrontInit
<1> QED BY <1>1, <1>2 DEF Init, IInv, InProgress

LEMMA FrontIInv ==
  ASSUME IInv, NEW r \in Requests, Front(r)
  PROVE  IInv'
<1>1. FrontInv'
  BY ArriveInv, ReceiveInv, DisconnectedInv, LeaveInv, ParseInv DEF IInv, Front
<1>2. LifeInv'
  BY DEF IInv, LifeInv, LifeTypeOK, Closing, Built, Front, lifeVars
<1>3. stage \in [Requests -> Stages] /\ UNCHANGED <<phase, planner, served>>
  BY DEF IInv, FrontInv, FrontTypeOK, Front, lifeVars
<1>4. \/ phase = "serving"
      \/ stage[r] \notin {"idle", "done"}
  BY DEF Front, Receive, Disconnected, Leave, Parse
<1>5. \A q \in Requests : stage'[q] = "planning" => stage[q] = "planning"
  <2>1. CASE Leave(r)
    BY <2>1 DEF Leave
  <2>2. CASE \E where \in Stages \ {"planning"} : stage' = [stage EXCEPT ![r] = where]
    BY <1>3, <2>2
  <2>3. CASE UNCHANGED stage
    BY <2>3
  <2> QED BY <2>1, <2>2, <2>3 DEF Front, Arrive, Receive, Disconnected, Parse, Goes, Answers, Stages
<1>6. phase \notin {"serving", "stopping"} => InProgress' = {}
  BY <1>4 DEF IInv, InProgress
<1> QED BY <1>1, <1>2, <1>3, <1>5, <1>6 DEF IInv

\* A request leaves the handler, with a planner or without.
LEMMA HandleIInv ==
  ASSUME IInv, NEW r \in Requests, Handle(r)
  PROVE  IInv'
<1>1. /\ stage[r] = "handling" /\ stage \in [Requests -> Stages]
      /\ served \in [Requests -> {NoPlanner, planner}]
      /\ phase \in {"serving", "stopping"} /\ UNCHANGED phase
  BY DEF IInv, FrontInv, FrontTypeOK, InProgress, Handle, lifeVars
<1>2. ASSUME NEW which, which # NoPlanner, Plans(r, which), planner' = which,
             planner \in {which, NoPlanner}, LifeInv'
      PROVE  IInv'
  <2>1. FrontInv'
    BY <1>1, <1>2, HandledInv DEF IInv, Plans
  <2>2. served' = [served EXCEPT ![r] = which] /\ stage' = [stage EXCEPT ![r] = "planning"]
    BY <1>2 DEF Plans, Goes
  <2>3. served' \in [Requests -> {NoPlanner, planner'}]
    BY <1>1, <1>2, <2>2
  <2>4. \A q \in Requests : stage'[q] = "planning" => served'[q] # NoPlanner
    BY <1>1, <1>2, <2>2 DEF IInv
  <2> QED BY <1>1, <1>2, <2>1, <2>3, <2>4 DEF IInv
<1>3. CASE planner # NoPlanner /\ Plans(r, planner) /\ UNCHANGED lifeVars
  <2>1. LifeInv'
    BY <1>3 DEF IInv, LifeInv, LifeTypeOK, Closing, Built, lifeVars
  <2> QED BY <1>2, <1>3, <2>1 DEF lifeVars
<1>4. CASE /\ planner = NoPlanner /\ ConfigurationValid
           /\ planner' = DefaultPlanner /\ builds' = builds + 1
           /\ Plans(r, DefaultPlanner)
           /\ UNCHANGED <<phase, lifespan, config, turn, closed, closes>>
  <2>1. LifeInv'
    BY <1>1, <1>4, BuildInv DEF IInv
  <2>2. DefaultPlanner # NoPlanner
    BY <1>4, DefaultBuilt DEF IInv, LifeInv
  <2> QED BY <1>2, <1>4, <2>1, <2>2
<1>5. CASE /\ planner = NoPlanner /\ ~ConfigurationValid
           /\ Answers(r, 500)
           /\ UNCHANGED <<claim, left, held, gone, payload, request, served, lifeVars>>
  <2>1. FrontInv'
    BY <1>1, <1>5, HandledInv DEF IInv
  <2>2. LifeInv'
    BY <1>5 DEF IInv, LifeInv, LifeTypeOK, Closing, Built, lifeVars
  <2>3. \A q \in Requests : stage'[q] = "planning" => stage[q] = "planning"
    BY <1>1, <1>5 DEF Answers, Goes
  <2> QED BY <1>1, <1>5, <2>1, <2>2, <2>3 DEF IInv, lifeVars
<1> QED BY <1>3, <1>4, <1>5 DEF Handle

LEMMA RespondIInv ==
  ASSUME IInv, NEW r \in Requests, Respond(r)
  PROVE  IInv'
<1>1. /\ stage[r] = "planning" /\ stage \in [Requests -> Stages]
      /\ phase \in {"serving", "stopping"} /\ UNCHANGED <<phase, planner, served>>
  BY DEF IInv, FrontInv, FrontTypeOK, InProgress, Respond, lifeVars
<1>2. FrontInv'
  BY <1>1, HandledInv DEF IInv, Respond
<1>3. LifeInv'
  BY DEF IInv, LifeInv, LifeTypeOK, Closing, Built, Respond, lifeVars
<1>4. \A q \in Requests : stage'[q] = "planning" => stage[q] = "planning"
  BY <1>1 DEF Respond, Answers, Goes
<1> QED BY <1>1, <1>2, <1>3, <1>4 DEF IInv

LEMMA ShutIInv ==
  ASSUME IInv, Shut
  PROVE  IInv'
<1>1. FrontInv' /\ UNCHANGED <<stage, served>> /\ InProgress' = InProgress
  BY DEF IInv, FrontInv, FrontTypeOK, Account, Shut, frontVars, InProgress
<1>2. LifeInv'
  BY StartUpInv, StopInv, DrainedInv, CloseNextInv DEF IInv, Shut
<1>3. phase' \notin {"serving", "stopping"} => InProgress = {}
  BY DEF IInv, Shut, StartUp, Stop, Drained, CloseNext
<1>4. served' \in [Requests -> {NoPlanner, planner'}]
  <2>1. CASE StartUp
    <3>1. InProgress = {} /\ (planner' = planner \/ planner = NoPlanner)
      BY <2>1 DEF IInv, StartUp
    <3> QED BY <1>1, <3>1 DEF IInv
  <2>2. CASE UNCHANGED planner
    BY <1>1, <2>2 DEF IInv
  <2> QED BY <2>1, <2>2 DEF Shut, Stop, Drained, CloseNext
<1> QED BY <1>1, <1>2, <1>3, <1>4 DEF IInv

LEMMA NextIInv == IInv /\ [Next]_vars => IInv'
<1> SUFFICES ASSUME IInv, [Next]_vars PROVE IInv'
  OBVIOUS
<1>1. CASE Next
  BY <1>1, FrontIInv, HandleIInv, RespondIInv, ShutIInv DEF Next
<1>2. CASE UNCHANGED vars
  <2>1. FrontInv'
    BY <1>2 DEF IInv, FrontInv, FrontTypeOK, Account, vars, frontVars
  <2>2. LifeInv'
    BY <1>2 DEF IInv, LifeInv, LifeTypeOK, Closing, Built, vars, lifeVars
  <2> QED BY <1>2, <2>1, <2>2 DEF IInv, vars, frontVars, lifeVars, InProgress
<1> QED BY <1>1, <1>2

LEMMA Always == Spec => []IInv
  BY InitIInv, NextIInv, PTL DEF Spec

\* The types, for clients that do anything and deployments of every kind.
THEOREM TypeCorrect == Spec => []TypeOK
<1>1. IInv => TypeOK
  BY DEF IInv, FrontInv, LifeInv, TypeOK
<1> QED BY <1>1, Always, PTL

\* Whatever is declared and however the body is cut into parts, the application
\* only sees whole bodies within the limit.
THEOREM BodiesWhole == Spec => []WholeBodiesOnly
<1>1. IInv => WholeBodiesOnly
  <2> SUFFICES ASSUME IInv, NEW r \in Requests,
                      stage[r] = "parsing" \/ payload[r] # NoPayload
               PROVE  held[r] = claim[r].size /\ left[r] = 0 /\ held[r] <= MaxBody
    BY DEF WholeBodiesOnly
  <2>1. Account(r) /\ held[r] \in Nat
    BY DEF IInv, FrontInv, FrontTypeOK
  <2> QED BY <2>1 DEF Account
<1> QED BY <1>1, Always, PTL

\* A request is refused exactly for its declared length, its size or a payload
\* that no planner could work with, for a day of any length.
THEOREM RefusalsJustified == Spec => []RefusedForCause
<1>1. IInv => RefusedForCause
  <2> SUFFICES ASSUME IInv, NEW r \in Requests
               PROVE  /\ status[r] = 400 =>
                           \/ claim[r].declared = Junk \/ claim[r].size > MaxBody
                           \/ claim[r].declared \in BodySizes /\ claim[r].declared > MaxBody
                           \/ payload[r] # NoPayload /\ ~Sound(payload[r])
                      /\ (payload[r] # NoPayload /\ status[r] # 400) => Sound(payload[r])
    BY DEF RefusedForCause
  <2>1. Account(r) /\ payload[r] \in Payloads \union {NoPayload}
    BY DEF IInv, FrontInv, FrontTypeOK
  <2>2. payload[r] # NoPayload => (Accepts(payload[r]) <=> Sound(payload[r]))
    BY <2>1, AcceptsSound
  <2> QED BY <2>1, <2>2 DEF Account
<1> QED BY <1>1, Always, PTL

\* The planner's arrays hold at an hour what the client said of that hour.
THEOREM DayOrdered == Spec => []PlannerGetsOrderedDay
<1>1. IInv => PlannerGetsOrderedDay
  <2> SUFFICES ASSUME IInv, NEW r \in Requests, stage[r] = "planning"
               PROVE  /\ DOMAIN request[r] = 1..Day
                      /\ \A i \in 1..Day : \A entry \in Range(payload[r].hours) :
                           entry.hour = i - 1 <=> entry = request[r][i]
    BY DEF PlannerGetsOrderedDay
  <2>1. Account(r) /\ payload[r] \in Payloads \union {NoPayload}
    BY DEF IInv, FrontInv, FrontTypeOK
  <2>2. payload[r] \in Payloads /\ Accepts(payload[r]) /\ request[r] = Ordered(payload[r])
    BY <2>1 DEF Account
  <2> QED BY <2>2, OrderedDay DEF Accepts
<1> QED BY <1>1, Always, PTL

\* All requests share the one planner, built once from a complete configuration.
THEOREM OnePlanner == Spec => []PlannedByOne
<1>1. IInv => PlannedByOne
  <2> SUFFICES ASSUME IInv PROVE PlannedByOne
    OBVIOUS
  <2>1. \A r \in Requests : served[r] \in {NoPlanner, planner}
    BY DEF IInv
  <2>2. planner \in Given \union {NoPlanner} \/ Built
    BY DEF IInv, LifeInv
  <2>3. ASSUME planner \notin {d.planner : d \in Deployments} \union {NoPlanner}
        PROVE  /\ builds = 1 /\ config.geminiModel = "text" /\ "text" \in Range(config.geminiKeys)
               /\ planner.backup # NoAdapter <=>
                    (config.groqModel = "text" /\ "text" \in Range(config.groqKeys))
    <3>1. Built
      BY <2>2, <2>3 DEF Given
    <3> QED BY <3>1 DEF Built
  <2> QED BY <2>1, <2>3, Zenon DEF PlannedByOne
<1> QED BY <1>1, Always, PTL

\* No close() is called twice, and none is left out unless one raised.
THEOREM ClosedOnce == Spec => []ClosesEachOnce
<1>1. IInv => ClosesEachOnce
  <2> SUFFICES ASSUME IInv PROVE ClosesEachOnce
    OBVIOUS
  <2>1. turn \in 1..3 /\ Closing
    BY DEF IInv, LifeInv, LifeTypeOK
  <2>2. ASSUME turn > 2, NEW a \in {planner.primary, planner.backup} \ {NoAdapter}, a.hook
        PROVE  \E i \in DOMAIN closes : closes[i] = a
    <3>1. a \in closed
      BY <2>1, <2>2 DEF Closing
    <3> QED BY <2>1, <2>2, <3>1 DEF Closing
  <2> QED BY <2>1, <2>2 DEF Closing, ClosesEachOnce
<1> QED BY <1>1, Always, PTL

\* No adapter is closed while a request may still use it.
THEOREM OpenForRequests == Spec => []OpenWhileInUse
<1>1. IInv => OpenWhileInUse
  BY DEF IInv, LifeInv, Closing, OpenWhileInUse
<1> QED BY <1>1, Always, PTL
=============================================================================
