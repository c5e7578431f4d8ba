------------------------ MODULE InterpretationProofs ------------------------
(***************************************************************************)
(* Proofs about Planner._interpret for any set of requests, pools of any   *)
(* size, with or without a backup, and any budget, timeout and cooldown.   *)
(***************************************************************************)
EXTENDS Interpretation, SequenceTheorems, TLAPS

\* What a stage says about the calls and the last answer of its request.
Fits(place, called, a) ==
  CASE place = "idle" -> called = <<>> /\ a = "none"
    [] place = "first" -> called = <<"primary">> /\ a = "none"
    [] place = "toRepair" -> called = <<"primary">> /\ a \in {"invalid", "malformed"}
    [] place = "toBackup" -> called \in {<<>>, <<"primary">>} /\ a = "error" /\ HasBackup
    [] place \in {"repair", "backup"} -> called # <<>> /\ a = "none"
    [] OTHER -> TRUE

Recorded == \A r \in Requests : Fits(stage[r], calls[r], answer[r])

IInv == TypeOK /\ Recorded

LEMMA Remainder ==
  ASSUME NEW n \in Nat \ {0}, NEW a \in Nat
  PROVE  a % n \in 0..(n - 1)
  OBVIOUS

\* The remainder on the first two rounds.
LEMMA ModOnce ==
  ASSUME NEW n \in Nat \ {0}, NEW a \in 0..(2 * n - 1)
  PROVE  a % n = IF a < n THEN a ELSE a - n
  OBVIOUS

\* What the steps of the primary's pool do to its types.
LEMMA PrimaryPool ==
  ASSUME TypeOK, NEW r \in Requests
  PROVE  /\ P!Select(r, now) =>
              /\ pCursor' \in P!Slots /\ pUntil' \in [P!Slots -> Nat]
              /\ \E c \in P!Slots : pLease' = [pLease EXCEPT ![r] = {c}]
         /\ P!SelectFails(r, now) => UNCHANGED <<pCursor, pUntil, pLease>>
         /\ P!Reject(r, now) =>
              /\ UNCHANGED pCursor /\ pUntil' \in [P!Slots -> Nat]
              /\ pLease[r] # {} /\ pLease' = [pLease EXCEPT ![r] = {}]
         /\ P!Finish(r) =>
              /\ UNCHANGED <<pCursor, pUntil>>
              /\ pLease[r] # {} /\ pLease' = [pLease EXCEPT ![r] = {}]
<1>1. /\ PrimaryKeys \in Nat \ {0} /\ Cooldown \in Nat /\ now \in Nat
      /\ pCursor \in 0..(PrimaryKeys - 1) /\ pUntil \in [P!Slots -> Nat]
      /\ pLease \in [Requests -> SUBSET P!Slots]
  BY InterpretationAssumption DEF TypeOK, P!Slots
<1>2. ASSUME P!Select(r, now)
      PROVE  /\ pCursor' \in P!Slots /\ pUntil' \in [P!Slots -> Nat]
             /\ \E c \in P!Slots : pLease' = [pLease EXCEPT ![r] = {c}]
  <2>1. PICK k \in P!Eligible(now) : /\ pCursor' = (P!Slot(k) + 1) % PrimaryKeys
                                     /\ pUntil' = [pUntil EXCEPT ![P!Slot(k)] = 0]
                                     /\ pLease' = [pLease EXCEPT ![r] = {P!Slot(k)}]
    BY <1>2 DEF P!Select
  <2>2. pCursor + k \in Nat
    BY <1>1 DEF P!Eligible
  <2>3. P!Slot(k) \in 0..(PrimaryKeys - 1)
    BY <1>1, <2>2, Remainder DEF P!Slot
  <2>4. (P!Slot(k) + 1) % PrimaryKeys \in 0..(PrimaryKeys - 1)
    BY <1>1, <2>3, Remainder
  <2> QED BY <1>1, <2>1, <2>3, <2>4 DEF P!Slots
<1>3. P!SelectFails(r, now) => UNCHANGED <<pCursor, pUntil, pLease>>
  BY DEF P!SelectFails
<1>4. ASSUME P!Reject(r, now)
      PROVE  /\ UNCHANGED pCursor /\ pUntil' \in [P!Slots -> Nat]
             /\ pLease[r] # {} /\ pLease' = [pLease EXCEPT ![r] = {}]
  BY <1>1, <1>4 DEF P!Reject
<1>5. P!Finish(r) => /\ UNCHANGED <<pCursor, pUntil>>
                     /\ pLease[r] # {} /\ pLease' = [pLease EXCEPT ![r] = {}]
  BY DEF P!Finish
<1> QED BY <1>2, <1>3, <1>4, <1>5
\* What the steps of the backup's pool do to its types.
LEMMA BackupPool ==
  ASSUME TypeOK, NEW r \in Requests
  PROVE  /\ B!Select(r, now) =>
              /\ bCursor' \in B!Slots /\ bUntil' \in [B!Slots -> Nat]
              /\ \E c \in B!Slots : bLease' = [bLease EXCEPT ![r] = {c}]
         /\ B!SelectFails(r, now) => UNCHANGED <<bCursor, bUntil, bLease>>
         /\ B!Reject(r, now) =>
              /\ UNCHANGED bCursor /\ bUntil' \in [B!Slots -> Nat]
              /\ bLease[r] # {} /\ bLease' = [bLease EXCEPT ![r] = {}]
         /\ B!Finish(r) =>
              /\ UNCHANGED <<bCursor, bUntil>>
              /\ bLease[r] # {} /\ bLease' = [bLease EXCEPT ![r] = {}]
<1>1. /\ BackupKeys \in Nat \ {0} /\ Cooldown \in Nat /\ now \in Nat
      /\ bCursor \in 0..(BackupKeys - 1) /\ bUntil \in [B!Slots -> Nat]
      /\ bLease \in [Requests -> SUBSET B!Slots]
  BY InterpretationAssumption DEF TypeOK, B!Slots
<1>2. ASSUME B!Select(r, now)
      PROVE  /\ bCursor' \in B!Slots /\ bUntil' \in [B!Slots -> Nat]
             /\ \E c \in B!Slots : bLease' = [bLease EXCEPT ![r] = {c}]
  <2>1. PICK k \in B!Eligible(now) : /\ bCursor' = (B!Slot(k) + 1) % BackupKeys
                                     /\ bUntil' = [bUntil EXCEPT ![B!Slot(k)] = 0]
                                     /\ bLease' = [bLease EXCEPT ![r] = {B!Slot(k)}]
    BY <1>2 DEF B!Select
  <2>2. bCursor + k \in Nat
    BY <1>1 DEF B!Eligible
  <2>3. B!Slot(k) \in 0..(BackupKeys - 1)
    BY <1>1, <2>2, Remainder DEF B!Slot
  <2>4. (B!Slot(k) + 1) % BackupKeys \in 0..(BackupKeys - 1)
    BY <1>1, <2>3, Remainder
  <2> QED BY <1>1, <2>1, <2>3, <2>4 DEF B!Slots
<1>3. B!SelectFails(r, now) => UNCHANGED <<bCursor, bUntil, bLease>>
  BY DEF B!SelectFails
<1>4. ASSUME B!Reject(r, now)
      PROVE  /\ UNCHANGED bCursor /\ bUntil' \in [B!Slots -> Nat]
             /\ bLease[r] # {} /\ bLease' = [bLease EXCEPT ![r] = {}]
  BY <1>1, <1>4 DEF B!Reject
<1>5. B!Finish(r) => /\ UNCHANGED <<bCursor, bUntil>>
                     /\ bLease[r] # {} /\ bLease' = [bLease EXCEPT ![r] = {}]
  BY DEF B!Finish
<1> QED BY <1>2, <1>3, <1>4, <1>5
LEMMA InitIInv == Init => IInv
<1> SUFFICES ASSUME Init PROVE IInv
  OBVIOUS
<1> USE InterpretationAssumption
<1>1. TypeOK
  BY DEF Init, TypeOK, Stages, P!PoolInit, B!PoolInit, P!Slots, B!Slots
<1>2. Recorded
  BY DEF Init, Recorded, Fits
<1> QED BY <1>1, <1>2 DEF IInv

\* The types of what an action leaves to its pool, its timers and the clock.
Timed ==
  /\ now' \in 1..MaxTime
  /\ deadline' \in [Requests -> 0..MaxTime] /\ quiet' \in [Requests -> 0..now']
  /\ pCursor' \in P!Slots /\ bCursor' \in B!Slots
  /\ pUntil' \in [P!Slots -> Nat] /\ bUntil' \in [B!Slots -> Nat]

\* Request r moves to a stage that fits its calls, answer and leases.
Moves(r, place, called, a, p, b) ==
  /\ place \in Stages /\ stage' = [stage EXCEPT ![r] = place]
  /\ called \in Seq({"primary", "backup"}) /\ calls' = [calls EXCEPT ![r] = called]
  /\ a \in Answers \cup {"none"} /\ answer' = [answer EXCEPT ![r] = a]
  /\ p \in SUBSET P!Slots /\ pLease' = [pLease EXCEPT ![r] = p]
  /\ b \in SUBSET B!Slots /\ bLease' = [bLease EXCEPT ![r] = b]
  /\ p # {} <=> place \in {"first", "repair"}
  /\ b # {} <=> place = "backup"
  /\ Fits(place, called, a)

LEMMA Step ==
  ASSUME IInv, Timed, NEW r \in Requests, NEW place, NEW called, NEW a, NEW p, NEW b,
         Moves(r, place, called, a, p, b)
  PROVE  IInv'
<1>1. TypeOK'
  BY DEF IInv, TypeOK, Timed, Moves
<1>2. Recorded'
  BY DEF IInv, TypeOK, Recorded, Moves
<1> QED BY <1>1, <1>2 DEF IInv

LEMMA BeginIInv ==
  ASSUME IInv, NEW r \in Requests, Begin(r)
  PROVE  IInv'
<1> USE InterpretationAssumption
<1>1. /\ P!Select(r, now) => pCursor' \in P!Slots /\ pUntil' \in [P!Slots -> Nat]
                             /\ \E c \in P!Slots : pLease' = [pLease EXCEPT ![r] = {c}]
      /\ P!SelectFails(r, now) => UNCHANGED <<pCursor, pUntil, pLease>>
  BY PrimaryPool DEF IInv
<1>2. /\ stage[r] = "idle" /\ calls[r] = <<>> /\ answer[r] = "none"
      /\ pLease[r] = {} /\ bLease[r] = {}
  BY DEF Begin, IInv, TypeOK, Recorded, Fits
<1>3. now + Budget \in 0..MaxTime
  BY DEF Begin, IInv, TypeOK
<1>4. CASE P!Select(r, now) /\ Goes(r, "first") /\ Asks(r, "primary")
  <2>1. Timed
    BY <1>1, <1>3, <1>4 DEF Begin, IInv, TypeOK, Timed, Asks, bVars
  <2>2. PICK c \in P!Slots : pLease' = [pLease EXCEPT ![r] = {c}]
    BY <1>1, <1>4
  <2>3. calls' = [calls EXCEPT ![r] = <<"primary">>] /\ answer' = [answer EXCEPT ![r] = "none"]
    BY <1>2, <1>4 DEF Asks, Learns, IInv, TypeOK
  <2>4. bLease' = [bLease EXCEPT ![r] = {}]
    BY <1>2 DEF Begin, IInv, TypeOK, bVars
  <2>5. Moves(r, "first", <<"primary">>, "none", {c}, {})
    BY <1>4, <2>2, <2>3, <2>4 DEF Moves, Goes, Stages, Fits
  <2> QED BY <2>1, <2>5, Step
<1>5. CASE P!SelectFails(r, now) /\ Goes(r, After("first", "error")) /\ Learns(r, "error")
           /\ UNCHANGED <<quiet, calls>>
  <2>1. Timed
    BY <1>1, <1>3, <1>5 DEF Begin, IInv, TypeOK, Timed, bVars
  <2>2. /\ calls' = [calls EXCEPT ![r] = <<>>]
        /\ pLease' = [pLease EXCEPT ![r] = {}] /\ bLease' = [bLease EXCEPT ![r] = {}]
    BY <1>1, <1>2, <1>5 DEF Begin, IInv, TypeOK, bVars
  <2>3. PICK place \in {"toBackup", "failed"} :
          place = After("first", "error") /\ (place = "toBackup" => HasBackup)
    BY DEF After
  <2>4. Fits(place, <<>>, "error")
    BY <2>3 DEF Fits
  <2>5. Moves(r, place, <<>>, "error", {}, {})
    <3>1. stage' = [stage EXCEPT ![r] = place] /\ answer' = [answer EXCEPT ![r] = "error"]
      BY <1>5, <2>3 DEF Goes, Learns
    <3>2. <<>> \in Seq({"primary", "backup"}) /\ {} \in SUBSET P!Slots /\ {} \in SUBSET B!Slots
      OBVIOUS
    <3>3. place \in Stages /\ place \notin {"first", "repair", "backup"} /\ "error" \in Answers
      BY DEF Stages, Answers
    <3> QED BY <2>2, <2>4, <3>1, <3>2, <3>3 DEF Moves
  <2> QED BY <2>1, <2>5, Step
<1> QED BY <1>4, <1>5 DEF Begin

\* Where an attempt ends, its outcome fits.
LEMMA Onward ==
  ASSUME NEW called \in Seq({"primary", "backup"}), NEW place \in {"first", "repair", "backup"},
         NEW a \in Answers, Fits(place, called, "none")
  PROVE  /\ After(place, a) \in {"valid", "failed", "toRepair", "toBackup"}
         /\ Fits(After(place, a), called, a)
  BY DEF After, Fits, Answers

\* The end of a call: either the primary's credential or the backup's is given back.
LEMMA EndsIInv ==
  ASSUME IInv, NEW r \in Requests, NEW a \in Answers,
         \/ stage[r] = "backup" /\ (B!Finish(r) \/ B!Reject(r, now)) /\ UNCHANGED pVars
         \/ stage[r] # "backup" /\ (P!Finish(r) \/ P!Reject(r, now)) /\ UNCHANGED bVars,
         Goes(r, After(stage[r], a)), Learns(r, a), UNCHANGED <<now, deadline, quiet, calls>>
  PROVE  IInv'
<1>1. /\ stage[r] \in {"first", "repair", "backup"} /\ stage[r] \in Stages
      /\ pLease' = [pLease EXCEPT ![r] = {}] /\ bLease' = [bLease EXCEPT ![r] = {}]
      /\ pCursor' \in P!Slots /\ pUntil' \in [P!Slots -> Nat]
      /\ bCursor' \in B!Slots /\ bUntil' \in [B!Slots -> Nat]
  <2>1. CASE stage[r] = "backup"
    <3>1. pLease[r] = {} /\ pLease \in [Requests -> SUBSET P!Slots]
      BY <2>1 DEF IInv, TypeOK
    <3> QED BY <2>1, <3>1, BackupPool DEF IInv, TypeOK, pVars
  <2>2. CASE stage[r] # "backup"
    <3>1. bLease[r] = {} /\ bLease \in [Requests -> SUBSET B!Slots]
      BY <2>2 DEF IInv, TypeOK
    <3> QED BY <2>2, <3>1, PrimaryPool DEF IInv, TypeOK, bVars
  <2> QED BY <2>1, <2>2
<1>2. Fits(stage[r], calls[r], answer[r]) /\ calls[r] \in Seq({"primary", "backup"})
  BY DEF IInv, Recorded, TypeOK
<1>3. Fits(stage[r], calls[r], "none")
  BY <1>1, <1>2 DEF Fits
<1>4. /\ After(stage[r], a) \in {"valid", "failed", "toRepair", "toBackup"}
      /\ Fits(After(stage[r], a), calls[r], a)
  BY <1>1, <1>2, <1>3, Onward
<1>5. Timed
  BY <1>1 DEF IInv, TypeOK, Timed
<1>6. calls' = [calls EXCEPT ![r] = calls[r]]
  BY DEF IInv, TypeOK
<1>7. Moves(r, After(stage[r], a), calls[r], a, {}, {})
  BY <1>1, <1>2, <1>4, <1>6 DEF Moves, Goes, Learns, Stages
<1> QED BY <1>5, <1>7, Step

LEMMA AnsweredIInv ==
  ASSUME IInv, NEW r \in Requests, NEW a \in Answers, Answered(r, a)
  PROVE  IInv'
BY EndsIInv DEF Answered

LEMMA FailsIInv ==
  ASSUME IInv, NEW r \in Requests, Fails(r)
  PROVE  IInv'
BY EndsIInv DEF Fails, Answers

LEMMA ProgressIInv ==
  ASSUME IInv, NEW r \in Requests, Progress(r)
  PROVE  IInv'
<1>1. TypeOK'
  BY DEF IInv, TypeOK, Progress, pVars, bVars
<1>2. Recorded'
  BY DEF IInv, Recorded, Progress
<1> QED BY <1>1, <1>2 DEF IInv

LEMMA GiveUpIInv ==
  ASSUME IInv, NEW r \in Requests, GiveUp(r)
  PROVE  IInv'
<1>1. TypeOK'
  BY DEF IInv, TypeOK, GiveUp, Goes, Stages, pVars, bVars
<1>2. Recorded'
  BY DEF IInv, TypeOK, Recorded, GiveUp, Goes, Fits
<1> QED BY <1>1, <1>2 DEF IInv

LEMMA RepairIInv ==
  ASSUME IInv, NEW r \in Requests, Repair(r)
  PROVE  IInv'
<1> USE InterpretationAssumption
<1>1. /\ P!Select(r, now) => pCursor' \in P!Slots /\ pUntil' \in [P!Slots -> Nat]
                             /\ \E c \in P!Slots : pLease' = [pLease EXCEPT ![r] = {c}]
      /\ P!SelectFails(r, now) => UNCHANGED <<pCursor, pUntil, pLease>>
  BY PrimaryPool DEF IInv
<1>2. /\ stage[r] = "toRepair" /\ calls[r] = <<"primary">> /\ answer[r] \in Answers
      /\ pLease[r] = {} /\ bLease[r] = {}
  BY DEF Repair, IInv, TypeOK, Recorded, Fits, Answers
<1>3. Timed
  <2>1. pCursor' \in P!Slots /\ pUntil' \in [P!Slots -> Nat]
    BY <1>1 DEF Repair, IInv, TypeOK
  <2>2. quiet' \in [Requests -> 0..now']
    <3>1. now \in 1..MaxTime /\ now' = now /\ quiet \in [Requests -> 0..now]
      BY DEF Repair, IInv, TypeOK
    <3>2. quiet' = quiet \/ quiet' = [quiet EXCEPT ![r] = now]
      BY DEF Repair, Asks
    <3>3. now \in 0..now
      BY <3>1
    <3> QED BY <3>1, <3>2, <3>3
  <2> QED BY <2>1, <2>2 DEF Repair, IInv, TypeOK, Timed, bVars
<1>4. bLease' = [bLease EXCEPT ![r] = {}]
  BY <1>2 DEF Repair, IInv, TypeOK, bVars
<1>5. CASE P!Select(r, now) /\ Goes(r, "repair") /\ Asks(r, "primary")
  <2>1. PICK c \in P!Slots : pLease' = [pLease EXCEPT ![r] = {c}]
    BY <1>1, <1>5
  <2>2. /\ calls' = [calls EXCEPT ![r] = Append(calls[r], "primary")]
        /\ answer' = [answer EXCEPT ![r] = "none"]
    BY <1>5 DEF Asks, Learns, IInv, TypeOK
  <2>3. Append(calls[r], "primary") # <<>> /\ Append(calls[r], "primary") \in Seq({"primary", "backup"})
    BY <1>2
  <2>4. Moves(r, "repair", Append(calls[r], "primary"), "none", {c}, {})
    BY <1>4, <1>5, <2>1, <2>2, <2>3 DEF Moves, Goes, Stages, Fits
  <2> QED BY <1>3, <2>4, Step
<1>6. CASE P!SelectFails(r, now) /\ Goes(r, "failed") /\ UNCHANGED <<quiet, calls, answer>>
  <2>1. /\ calls' = [calls EXCEPT ![r] = <<"primary">>]
        /\ answer' = [answer EXCEPT ![r] = answer[r]]
        /\ pLease' = [pLease EXCEPT ![r] = {}]
    BY <1>1, <1>2, <1>6 DEF IInv, TypeOK
  <2>2. Moves(r, "failed", <<"primary">>, answer[r], {}, {})
    <3>1. <<"primary">> \in Seq({"primary", "backup"}) /\ {} \in SUBSET P!Slots /\ {} \in SUBSET B!Slots
      OBVIOUS
    <3>2. Fits("failed", <<"primary">>, answer[r])
      BY DEF Fits
    <3> QED BY <1>2, <1>4, <1>6, <2>1, <3>1, <3>2 DEF Moves, Goes, Stages
  <2> QED BY <1>3, <2>2, Step
<1> QED BY <1>5, <1>6 DEF Repair

LEMMA CallBackupIInv ==
  ASSUME IInv, NEW r \in Requests, CallBackup(r)
  PROVE  IInv'
<1> USE InterpretationAssumption
<1>1. /\ B!Select(r, now) => bCursor' \in B!Slots /\ bUntil' \in [B!Slots -> Nat]
                             /\ \E c \in B!Slots : bLease' = [bLease EXCEPT ![r] = {c}]
      /\ B!SelectFails(r, now) => UNCHANGED <<bCursor, bUntil, bLease>>
  BY BackupPool DEF IInv
<1>2. /\ stage[r] = "toBackup" /\ answer[r] \in Answers
      /\ calls[r] \in Seq({"primary", "backup"})
      /\ pLease[r] = {} /\ bLease[r] = {}
  BY DEF CallBackup, IInv, TypeOK, Recorded, Fits, Answers
<1>3. Timed
  <2>1. bCursor' \in B!Slots /\ bUntil' \in [B!Slots -> Nat]
    BY <1>1 DEF CallBackup, IInv, TypeOK
  <2>2. quiet' \in [Requests -> 0..now']
    <3>1. now \in 1..MaxTime /\ now' = now /\ quiet \in [Requests -> 0..now]
      BY DEF CallBackup, IInv, TypeOK
    <3>2. quiet' = quiet \/ quiet' = [quiet EXCEPT ![r] = now]
      BY DEF CallBackup, Asks
    <3>3. now \in 0..now
      BY <3>1
    <3> QED BY <3>1, <3>2, <3>3
  <2> QED BY <2>1, <2>2 DEF CallBackup, IInv, TypeOK, Timed, pVars
<1>4. pLease' = [pLease EXCEPT ![r] = {}]
  BY <1>2 DEF CallBackup, IInv, TypeOK, pVars
<1>5. CASE B!Select(r, now) /\ Goes(r, "backup") /\ Asks(r, "backup")
  <2>1. PICK c \in B!Slots : bLease' = [bLease EXCEPT ![r] = {c}]
    BY <1>1, <1>5
  <2>2. /\ calls' = [calls EXCEPT ![r] = Append(calls[r], "backup")]
        /\ answer' = [answer EXCEPT ![r] = "none"]
    BY <1>5 DEF Asks, Learns, IInv, TypeOK
  <2>3. Append(calls[r], "backup") # <<>> /\ Append(calls[r], "backup") \in Seq({"primary", "backup"})
    BY <1>2
  <2>4. Moves(r, "backup", Append(calls[r], "backup"), "none", {}, {c})
    BY <1>4, <1>5, <2>1, <2>2, <2>3 DEF Moves, Goes, Stages, Fits
  <2> QED BY <1>3, <2>4, Step
<1>6. CASE B!SelectFails(r, now) /\ Goes(r, "failed") /\ UNCHANGED <<quiet, calls, answer>>
  <2>1. /\ calls' = [calls EXCEPT ![r] = calls[r]]
        /\ answer' = [answer EXCEPT ![r] = answer[r]]
        /\ bLease' = [bLease EXCEPT ![r] = {}]
    BY <1>1, <1>2, <1>6 DEF IInv, TypeOK
  <2>2. Moves(r, "failed", calls[r], answer[r], {}, {})
    BY <1>2, <1>4, <1>6, <2>1 DEF Moves, Goes, Stages, Fits
  <2> QED BY <1>3, <2>2, Step
<1> QED BY <1>5, <1>6 DEF CallBackup

LEMMA TickIInv ==
  ASSUME IInv, Tick
  PROVE  IInv'
<1> USE InterpretationAssumption
<1>1. now' \in 1..MaxTime /\ quiet' \in [Requests -> 0..now']
  <2>1. now \in 1..MaxTime /\ quiet \in [Requests -> 0..now] /\ now' = now + 1
        /\ now < MaxTime /\ quiet' = quiet
    BY DEF IInv, TypeOK, Tick
  <2>2. \A i \in 0..now : i \in 0..(now + 1)
    BY <2>1
  <2>3. quiet \in [Requests -> 0..(now + 1)]
    BY <2>1, <2>2
  <2> QED BY <2>1, <2>3
<1>2. TypeOK'
  BY <1>1 DEF IInv, TypeOK, Tick, pVars, bVars
<1>3. Recorded'
  BY DEF IInv, Recorded, Tick
<1> QED BY <1>2, <1>3 DEF IInv

LEMMA NextIInv == IInv /\ [Next]_vars => IInv'
<1> SUFFICES ASSUME IInv, [Next]_vars PROVE IInv'
  OBVIOUS
<1>1. CASE Next
  BY <1>1, BeginIInv, AnsweredIInv, FailsIInv, ProgressIInv, GiveUpIInv, RepairIInv,
     CallBackupIInv, TickIInv
     DEF Next, GoesSilent, TimesOut
<1>2. CASE UNCHANGED vars
  <2>1. TypeOK'
    BY <1>2 DEF IInv, TypeOK, vars, pVars, bVars
  <2>2. Recorded'
    BY <1>2 DEF IInv, Recorded, vars
  <2> QED BY <2>1, <2>2 DEF IInv
<1> QED BY <1>1, <1>2

\* A request of any number holds a credential of exactly the pool its call in
\* flight was sent with, and none at any other time.
THEOREM TypeCorrect == Spec => []TypeOK
<1>1. IInv => TypeOK
  BY DEF IInv
<1> QED BY InitIInv, NextIInv, <1>1, PTL DEF Spec

\* A pool whose scan finds nothing has no credential it could have returned.
LEMMA PrimaryExhausted ==
  ASSUME TypeOK, P!Eligible(now) = {}, NEW c \in P!Slots
  PROVE  ~(pUntil[c] <= now)
<1>1. PrimaryKeys \in Nat \ {0} /\ pCursor \in 0..(PrimaryKeys - 1) /\ c \in 0..(PrimaryKeys - 1)
  BY InterpretationAssumption DEF TypeOK, P!Slots
<1>2. PICK k \in 0..(PrimaryKeys - 1) : pCursor + k \in {c, c + PrimaryKeys}
  <2>1. CASE pCursor <= c
    <3>1. c - pCursor \in 0..(PrimaryKeys - 1) /\ pCursor + (c - pCursor) = c
      BY <1>1, <2>1
    <3> USE <3>1
    <3> WITNESS c - pCursor \in 0..(PrimaryKeys - 1)
    <3> QED BY <3>1
  <2>2. CASE ~(pCursor <= c)
    <3>1. c - pCursor + PrimaryKeys \in 0..(PrimaryKeys - 1) /\ pCursor + (c - pCursor + PrimaryKeys) = c + PrimaryKeys
      BY <1>1, <2>2
    <3> USE <3>1
    <3> WITNESS c - pCursor + PrimaryKeys \in 0..(PrimaryKeys - 1)
    <3> QED BY <3>1
  <2> QED BY <2>1, <2>2
<1>3. pCursor + k \in 0..(2 * PrimaryKeys - 1) /\ (pCursor + k < PrimaryKeys \/ pCursor + k = c + PrimaryKeys)
  BY <1>1, <1>2
<1>4. (pCursor + k) % PrimaryKeys = c
  BY <1>1, <1>2, <1>3, ModOnce
<1>5. P!Slot(k) = c
  BY <1>4 DEF P!Slot
<1> QED BY <1>2, <1>5 DEF P!Eligible

\* A pool whose scan finds nothing has no credential it could have returned.
LEMMA BackupExhausted ==
  ASSUME TypeOK, B!Eligible(now) = {}, NEW c \in B!Slots
  PROVE  ~(bUntil[c] <= now)
<1>1. BackupKeys \in Nat \ {0} /\ bCursor \in 0..(BackupKeys - 1) /\ c \in 0..(BackupKeys - 1)
  BY InterpretationAssumption DEF TypeOK, B!Slots
<1>2. PICK k \in 0..(BackupKeys - 1) : bCursor + k \in {c, c + BackupKeys}
  <2>1. CASE bCursor <= c
    <3>1. c - bCursor \in 0..(BackupKeys - 1) /\ bCursor + (c - bCursor) = c
      BY <1>1, <2>1
    <3> USE <3>1
    <3> WITNESS c - bCursor \in 0..(BackupKeys - 1)
    <3> QED BY <3>1
  <2>2. CASE ~(bCursor <= c)
    <3>1. c - bCursor + BackupKeys \in 0..(BackupKeys - 1) /\ bCursor + (c - bCursor + BackupKeys) = c + BackupKeys
      BY <1>1, <2>2
    <3> USE <3>1
    <3> WITNESS c - bCursor + BackupKeys \in 0..(BackupKeys - 1)
    <3> QED BY <3>1
  <2> QED BY <2>1, <2>2
<1>3. bCursor + k \in 0..(2 * BackupKeys - 1) /\ (bCursor + k < BackupKeys \/ bCursor + k = c + BackupKeys)
  BY <1>1, <1>2
<1>4. (bCursor + k) % BackupKeys = c
  BY <1>1, <1>2, <1>3, ModOnce
<1>5. B!Slot(k) = c
  BY <1>4 DEF B!Slot
<1> QED BY <1>2, <1>5 DEF B!Eligible

\* What each action of a request does that its verdict and its calls depend on.
LEMMA EndsEarly ==
  ASSUME IInv, NEW r \in Requests, stage[r] \notin Final, stage'[r] = "failed",
         \/ Begin(r) \/ (\E a \in Answers : Answered(r, a)) \/ (InFlight(r) /\ Fails(r))
         \/ GiveUp(r) \/ Repair(r) \/ CallBackup(r)
  PROVE  \/ stage[r] \in {"repair", "backup"}
         \/ stage[r] \in {"idle", "first"} /\ ~HasBackup
         \/ stage[r] \in {"toRepair", "toBackup"} /\ ~SecondPossible(r)
<1>1. TypeOK /\ stage \in [Requests -> Stages] /\ Fits(stage[r], calls[r], answer[r])
  BY DEF IInv, TypeOK, Recorded
<1>2. CASE Begin(r)
  <2>1. stage[r] = "idle" /\ stage'[r] \in {"first", After("first", "error")}
    BY <1>1, <1>2 DEF Begin, Goes
  <2>2. After("first", "error") = IF HasBackup THEN "toBackup" ELSE "failed"
    BY DEF After
  <2> QED BY <2>1, <2>2
<1>3. ASSUME NEW a \in Answers, InFlight(r), Goes(r, After(stage[r], a))
      PROVE  stage[r] \in {"repair", "backup"} \/ (stage[r] = "first" /\ ~HasBackup)
  BY <1>1, <1>3 DEF InFlight, Goes, After, Answers
<1>4. CASE \E a \in Answers : Answered(r, a)
  BY <1>3, <1>4 DEF Answered
<1>5. CASE InFlight(r) /\ Fails(r)
  BY <1>3, <1>5 DEF Fails, Answers
<1>6. CASE GiveUp(r)
  BY <1>6 DEF GiveUp, SecondPossible
<1>7. CASE Repair(r)
  <2>1. stage[r] = "toRepair" /\ P!SelectFails(r, now)
    BY <1>1, <1>7 DEF Repair, Goes
  <2>2. answer[r] # "error"
    BY <1>1, <2>1 DEF Fits
  <2>3. \A c \in P!Slots : ~(pUntil[c] <= now)
    BY <1>1, <2>1, PrimaryExhausted DEF P!SelectFails
  <2> QED BY <2>1, <2>2, <2>3 DEF SecondPossible
<1>8. CASE CallBackup(r)
  <2>1. stage[r] = "toBackup" /\ B!SelectFails(r, now)
    BY <1>1, <1>8 DEF CallBackup, Goes
  <2>2. answer[r] = "error"
    BY <1>1, <2>1 DEF Fits
  <2>3. \A c \in B!Slots : ~(bUntil[c] <= now)
    BY <1>1, <2>1, BackupExhausted DEF B!SelectFails
  <2> QED BY <2>1, <2>2, <2>3 DEF SecondPossible
<1> QED BY <1>2, <1>4, <1>5, <1>6, <1>7, <1>8

\* A request fails early only when no second provider could have been asked at
\* that moment, for any number of requests sharing pools of any size.
THEOREM FailsOnlyForCause == Spec => FailsOnlyWhenImpossible
<1> DEFINE Cause(r) == \/ stage[r] \in {"repair", "backup"}
                       \/ stage[r] \in {"idle", "first"} /\ ~HasBackup
                       \/ stage[r] \in {"toRepair", "toBackup"} /\ ~SecondPossible(r)
           A == \A r \in Requests : (stage[r] \notin Final /\ stage'[r] = "failed") => Cause(r)
<1>1. IInv /\ [Next]_vars => [A]_vars
  <2> SUFFICES ASSUME IInv, Next,
                      NEW r \in Requests, stage[r] \notin Final, stage'[r] = "failed"
               PROVE  Cause(r)
    BY DEF vars
  <2>1. stage \in [Requests -> Stages]
    BY DEF IInv, TypeOK
  <2>2. ~Tick
    BY DEF Tick, Final
  <2>3. PICK q \in Requests :
               \/ Begin(q) \/ Progress(q) \/ GoesSilent(q) \/ TimesOut(q)
               \/ GiveUp(q) \/ Repair(q) \/ CallBackup(q)
               \/ \E a \in Answers : Answered(q, a)
    BY <2>2 DEF Next
  <2>4. ~Progress(q)
    BY DEF Progress, Final
  <2>5. \/ Begin(q) \/ (\E a \in Answers : Answered(q, a)) \/ (InFlight(q) /\ Fails(q))
        \/ GiveUp(q) \/ Repair(q) \/ CallBackup(q)
    BY <2>3, <2>4 DEF GoesSilent, TimesOut
  <2>6. \E place : stage' = [stage EXCEPT ![q] = place]
    BY <2>5 DEF Begin, Answered, Fails, GiveUp, Repair, CallBackup, Goes
  <2>7. q = r
    BY <2>1, <2>6 DEF Final
  <2> QED BY <2>5, <2>7, EndsEarly
<1>2. [A]_vars => [A]_vars
  OBVIOUS
<1> HIDE DEF A
<1>3. Spec => [][A]_vars
  BY InitIInv, NextIInv, <1>1, PTL DEF Spec
<1> QED BY <1>3 DEF A, FailsOnlyWhenImpossible

\* The verdict that a stage stands for.
Settled(place) == IF place \in Final THEN place ELSE "open"
Verdict == [r \in Requests |-> Settled(stage[r])]

LEMMA VerdictMoves ==
  ASSUME TypeOK, NEW r \in Requests, NEW place, Goes(r, place)
  PROVE  Verdict' = [Verdict EXCEPT ![r] = Settled(place)]
  BY DEF TypeOK, Goes, Verdict, Settled

LEMMA VerdictStays ==
  ASSUME TypeOK, NEW r \in Requests, stage[r] \notin Final,
         NEW place, place \notin Final, Goes(r, place)
  PROVE  Verdict' = Verdict
  BY DEF TypeOK, Goes, Verdict, Settled

LEMMA InitPolicy == Init => Policy!Init
  BY DEF Init, Policy!Init, Final

LEMMA BeginPolicy ==
  ASSUME IInv, NEW r \in Requests, Begin(r)
  PROVE  Policy!AskPrimary(r) \/ Policy!Learn(r, "error")
<1>1. TypeOK /\ stage[r] = "idle" /\ calls[r] = <<>> /\ answer[r] = "none"
  BY DEF Begin, IInv, Recorded, Fits
<1>2. Verdict[r] = "open" /\ Verdict = [q \in Requests |-> Settled(stage[q])]
  BY <1>1 DEF Verdict, Settled, Final
<1>3. CASE P!Select(r, now) /\ Goes(r, "first") /\ Asks(r, "primary")
  <2>1. Verdict' = Verdict
    BY <1>1, <1>3, VerdictStays DEF Final
  <2> QED BY <1>1, <1>2, <1>3, <2>1
          DEF Policy!AskPrimary, Policy!Call, Asks, Learns, Verdict, Settled
<1>4. CASE Goes(r, After("first", "error")) /\ Learns(r, "error") /\ UNCHANGED <<quiet, calls>>
  <2>1. Settled(After("first", "error")) \in {"open", "failed"}
    BY DEF After, Settled, Final
  <2>2. Verdict' = [Verdict EXCEPT ![r] = Settled(After("first", "error"))]
    BY <1>1, <1>4, VerdictMoves
  <2> QED BY <1>1, <1>2, <1>4, <2>1, <2>2 DEF Policy!Learn, Learns, Verdict, Settled
<1> QED BY <1>3, <1>4 DEF Begin

LEMMA EndsPolicy ==
  ASSUME IInv, NEW r \in Requests, NEW a \in Answers, InFlight(r),
         Goes(r, After(stage[r], a)), Learns(r, a), UNCHANGED calls
  PROVE  Policy!Learn(r, a)
<1>1. TypeOK /\ calls[r] # <<>> /\ answer[r] = "none"
  BY DEF InFlight, IInv, Recorded, Fits
<1>2. Verdict[r] = "open"
  BY DEF InFlight, Verdict, Settled, Final
<1>3. PICK v \in {"open", "failed"} :
        Settled(After(stage[r], a)) = IF a = "ok" THEN "valid" ELSE v
  BY DEF After, Settled, Final, InFlight, Answers
<1>4. Verdict' = [Verdict EXCEPT ![r] = Settled(After(stage[r], a))]
  BY <1>1, VerdictMoves
<1> QED BY <1>1, <1>2, <1>3, <1>4 DEF Policy!Learn, Learns, Verdict, Settled

LEMMA GiveUpPolicy ==
  ASSUME IInv, NEW r \in Requests, stage[r] \notin Final, Goes(r, "failed"),
         UNCHANGED <<calls, answer>>
  PROVE  Policy!GiveUp(r)
<1>1. TypeOK /\ Verdict[r] = "open"
  BY DEF IInv, Verdict, Settled
<1>2. Verdict' = [Verdict EXCEPT ![r] = "failed"]
  BY <1>1, VerdictMoves DEF Settled, Final
<1> QED BY <1>1, <1>2 DEF Policy!GiveUp, Verdict, Settled

LEMMA RepairPolicy ==
  ASSUME IInv, NEW r \in Requests, Repair(r)
  PROVE  Policy!AskRepair(r) \/ Policy!GiveUp(r)
<1>1. /\ TypeOK /\ stage[r] = "toRepair"
      /\ calls[r] = <<"primary">> /\ answer[r] \in {"invalid", "malformed"}
  BY DEF Repair, IInv, Recorded, Fits
<1>2. Verdict[r] = "open"
  BY <1>1 DEF Verdict, Settled, Final
<1>3. CASE Goes(r, "repair") /\ Asks(r, "primary")
  <2>1. Verdict' = Verdict
    BY <1>1, <1>3, VerdictStays DEF Final
  <2> QED BY <1>1, <1>2, <1>3, <2>1
          DEF Policy!AskRepair, Policy!Call, Policy!Unusable, Asks, Learns, Verdict, Settled
<1>4. CASE Goes(r, "failed") /\ UNCHANGED <<quiet, calls, answer>>
  BY <1>1, <1>4, GiveUpPolicy DEF Final
<1> QED BY <1>3, <1>4 DEF Repair

LEMMA CallBackupPolicy ==
  ASSUME IInv, NEW r \in Requests, CallBackup(r)
  PROVE  Policy!AskBackup(r) \/ Policy!GiveUp(r)
<1>1. /\ TypeOK /\ stage[r] = "toBackup"
      /\ calls[r] \in {<<>>, <<"primary">>} /\ answer[r] = "error"
  BY DEF CallBackup, IInv, Recorded, Fits
<1>2. Verdict[r] = "open"
  BY <1>1 DEF Verdict, Settled, Final
<1>3. CASE Goes(r, "backup") /\ Asks(r, "backup")
  <2>1. Verdict' = Verdict
    BY <1>1, <1>3, VerdictStays DEF Final
  <2> QED BY <1>1, <1>2, <1>3, <2>1
          DEF Policy!AskBackup, Policy!Call, Asks, Learns, Verdict, Settled
<1>4. CASE Goes(r, "failed") /\ UNCHANGED <<quiet, calls, answer>>
  BY <1>1, <1>4, GiveUpPolicy DEF Final
<1> QED BY <1>3, <1>4 DEF CallBackup

LEMMA NextPolicy == IInv /\ [Next]_vars => [Policy!Next]_Policy!vars
<1> SUFFICES ASSUME IInv, [Next]_vars PROVE [Policy!Next]_Policy!vars
  OBVIOUS
<1>1. ASSUME UNCHANGED <<stage, calls, answer>> PROVE UNCHANGED Policy!vars
  BY <1>1 DEF Policy!vars
<1>2. ASSUME NEW r \in Requests, Begin(r) PROVE Policy!Next
  BY <1>2, BeginPolicy DEF Policy!Next
<1>3. ASSUME NEW r \in Requests, NEW a \in Answers, Answered(r, a) PROVE Policy!Next
  BY <1>3, EndsPolicy DEF Policy!Next, Policy!Unusable, Answered, Answers
<1>4. ASSUME NEW r \in Requests, InFlight(r), Fails(r) PROVE Policy!Next
  BY <1>4, EndsPolicy DEF Policy!Next, Fails, Answers
<1>5. ASSUME NEW r \in Requests, GiveUp(r) PROVE Policy!Next
  BY <1>5, GiveUpPolicy DEF Policy!Next, GiveUp, Final
<1>6. ASSUME NEW r \in Requests, Repair(r) PROVE Policy!Next
  BY <1>6, RepairPolicy DEF Policy!Next
<1>7. ASSUME NEW r \in Requests, CallBackup(r) PROVE Policy!Next
  BY <1>7, CallBackupPolicy DEF Policy!Next
<1>8. (Tick \/ (\E r \in Requests : Progress(r)) \/ UNCHANGED vars)
        => UNCHANGED <<stage, calls, answer>>
  BY DEF Tick, Progress, vars
<1> QED BY <1>1, <1>2, <1>3, <1>4, <1>5, <1>6, <1>7, <1>8 DEF Next, GoesSilent, TimesOut

\* The planner with its pools, deadlines and timeouts implements the policy on
\* model calls, for any number of requests that share the pools.
THEOREM ImplementsPolicy == Spec => FollowsAttemptPolicy
  BY InitIInv, NextIInv, InitPolicy, NextPolicy, PTL
     DEF Spec, FollowsAttemptPolicy, Policy!Spec

(***************************************************************************)
(* What the policy amounts to for one request.                             *)
(***************************************************************************)
Histories ==
  {<<>>, <<"primary">>, <<"backup">>, <<"primary", "primary">>, <<"primary", "backup">>}

\* A request calls a model twice at most, the backup last and never after a
\* repair, and it is valid exactly when the last answer it asked for was.
CallsBounded ==
  \A r \in Requests :
    /\ calls[r] \in Histories
    /\ stage[r] = "valid" <=> answer[r] = "ok"
    /\ answer[r] = "ok" => calls[r] # <<>>

PolicyInv ==
  /\ calls \in [Requests -> Histories]
  /\ answer \in [Requests -> Answers \cup {"none"}]
  /\ \A r \in Requests : /\ Verdict[r] = "valid" <=> answer[r] = "ok"
                         /\ answer[r] = "ok" => calls[r] # <<>>

LEMMA AppendTwice ==
  ASSUME NEW a, NEW b
  PROVE  Append(<<>>, a) = <<a>> /\ Append(<<a>>, b) = <<a, b>>
<1>1. Append(<<>>, a) = <<a>>
  OBVIOUS
<1>2. Append(<<a>>, b) = <<a, b>>
  <2>1. <<a>> \in Seq({a, b}) /\ <<a, b>> \in Seq({a, b}) /\ Len(<<a>>) = 1 /\ Len(<<a, b>>) = 2
    OBVIOUS
  <2>2. /\ Append(<<a>>, b) \in Seq({a, b}) /\ Len(Append(<<a>>, b)) = 2
        /\ Append(<<a>>, b)[1] = a /\ Append(<<a>>, b)[2] = b
    BY <2>1
  <2> DEFINE s == Append(<<a>>, b)
             t == <<a, b>>
  <2>3. s \in Seq({a, b}) /\ t \in Seq({a, b}) /\ Len(s) = 2 /\ Len(t) = 2
    BY <2>1, <2>2
  <2>4. \A i \in 1..2 : s[i] = t[i]
    <3>1. t[1] = a /\ t[2] = b
      OBVIOUS
    <3>2. s[1] = a /\ s[2] = b
      BY <2>2
    <3> HIDE DEF s, t
    <3> QED BY <3>1, <3>2
  <2> HIDE DEF s, t
  <2>5. s = t
    BY <2>3, <2>4, SeqEqual
  <2> QED BY <2>5 DEF s, t
<1> QED BY <1>1, <1>2

LEMMA CallInv ==
  ASSUME PolicyInv, NEW r \in Requests,
         Policy!AskPrimary(r) \/ Policy!AskRepair(r) \/ Policy!AskBackup(r)
  PROVE  PolicyInv'
<1>1. /\ calls \in [Requests -> Histories] /\ Verdict' = Verdict
      /\ answer' = [answer EXCEPT ![r] = "none"] /\ Verdict[r] = "open"
  BY DEF Policy!AskPrimary, Policy!AskRepair, Policy!AskBackup, Policy!Call, PolicyInv,
         Verdict, Settled
<1>2. PICK so \in {<<>>, <<"primary">>}, provider \in {"primary", "backup"} :
        calls' = [calls EXCEPT ![r] = Append(so, provider)]
  BY DEF Policy!AskPrimary, Policy!AskRepair, Policy!AskBackup, Policy!Call
<1>3. /\ Append(<<>>, "primary") = <<"primary">> /\ Append(<<>>, "backup") = <<"backup">>
      /\ Append(<<"primary">>, "primary") = <<"primary", "primary">>
      /\ Append(<<"primary">>, "backup") = <<"primary", "backup">>
  BY AppendTwice
<1>4. Append(so, provider) \in Histories
  BY <1>3 DEF Histories
<1> QED BY <1>1, <1>2, <1>4 DEF PolicyInv

LEMMA VerdictInv ==
  ASSUME PolicyInv, NEW r \in Requests,
         Policy!GiveUp(r) \/ \E a \in Answers : Policy!Learn(r, a)
  PROVE  PolicyInv'
<1>1. Verdict = [q \in Requests |-> IF stage[q] \in Final THEN stage[q] ELSE "open"]
  BY DEF Verdict, Settled
<1>2. Verdict[r] = "open" /\ calls' = calls
  BY <1>1 DEF Policy!GiveUp, Policy!Learn
<1>3. CASE Policy!GiveUp(r)
  <2>1. answer' = answer /\ Verdict' = [Verdict EXCEPT ![r] = "failed"]
    BY <1>1, <1>3 DEF Policy!GiveUp, Verdict, Settled
  <2> QED BY <1>1, <1>2, <2>1 DEF PolicyInv
<1>4. ASSUME NEW a \in Answers, Policy!Learn(r, a) PROVE PolicyInv'
  <2>1. PICK v \in {"open", "failed"} :
          Verdict' = [Verdict EXCEPT ![r] = IF a = "ok" THEN "valid" ELSE v]
    BY <1>4 DEF Policy!Learn, Verdict, Settled
  <2>2. answer' = [answer EXCEPT ![r] = a] /\ (calls[r] = <<>> => a = "error")
    BY <1>4 DEF Policy!Learn
  <2> QED BY <1>1, <1>2, <2>1, <2>2 DEF PolicyInv
<1> QED BY <1>3, <1>4

LEMMA PolicyKept == PolicyInv /\ [Policy!Next]_Policy!vars => PolicyInv'
<1> SUFFICES ASSUME PolicyInv, [Policy!Next]_Policy!vars PROVE PolicyInv'
  OBVIOUS
<1>1. Policy!Unusable \cup {"ok", "error"} = Answers
  BY DEF Policy!Unusable, Answers
<1>2. CASE UNCHANGED Policy!vars
  <2>1. calls' = calls /\ answer' = answer /\ Verdict' = Verdict
    BY <1>2 DEF Policy!vars, Verdict, Settled
  <2> QED BY <2>1 DEF PolicyInv
<1> QED BY <1>1, <1>2, CallInv, VerdictInv DEF Policy!Next

\* The bound on model calls, for any number of requests: it follows from the
\* policy, which the stage was shown to implement.
THEOREM AtMostTwoCalls == Spec => []CallsBounded
<1>1. Init => PolicyInv
  BY DEF Init, PolicyInv, Histories, Answers, Verdict, Settled, Final
<1>2. PolicyInv => CallsBounded
  BY DEF PolicyInv, CallsBounded, Verdict, Settled, Final
<1> QED BY <1>1, <1>2, PolicyKept, ImplementsPolicy, PTL
        DEF Spec, FollowsAttemptPolicy, Policy!Spec

(***************************************************************************)
(* The stage and its two pools.  What is proved of a pool speaks of its    *)
(* history: who was passed over and when each credential was last          *)
(* rejected.  The stage does not keep that history; it is recorded beside  *)
(* it, from what each step of the stage does to the two pools.             *)
(***************************************************************************)
VARIABLES pPassed, pRejectedAt, bPassed, bRejectedAt

PP == INSTANCE CredentialPoolProofs WITH
        Tasks <- Requests, N <- PrimaryKeys, MaxLag <- 0,
        cursor <- pCursor, until <- pUntil, lease <- pLease, refused <- pRefused,
        passed <- pPassed, rejectedAt <- pRejectedAt

BP == INSTANCE CredentialPoolProofs WITH
        Tasks <- Requests, N <- BackupKeys, MaxLag <- 0,
        cursor <- bCursor, until <- bUntil, lease <- bLease, refused <- bRefused,
        passed <- bPassed, rejectedAt <- bRejectedAt

history == <<pPassed, pRejectedAt, bPassed, bRejectedAt>>

Observed ==
  /\ Spec
  /\ pPassed = [c \in P!Slots |-> 0] /\ pRejectedAt = [c \in P!Slots |-> 0]
  /\ bPassed = [c \in B!Slots |-> 0] /\ bRejectedAt = [c \in B!Slots |-> 0]
  /\ [][PP!Remember /\ BP!Remember]_<<vars, history>>

\* The assumption on a pool holds of both.
LEMMA PoolsAssumed == PP!PoolAssumption /\ BP!PoolAssumption
  BY InterpretationAssumption DEF PP!PoolAssumption, BP!PoolAssumption

\* The operations of the stage's pools are those the proofs are about.
LEMMA SamePrimary ==
  ASSUME now \in 1..MaxTime, NEW r \in Requests,
         P!Select(r, now) \/ P!SelectFails(r, now) \/ P!Reject(r, now) \/ P!Finish(r)
  PROVE  PP!PoolStep(r)
<1>1. now \in PP!Readings
  BY InterpretationAssumption DEF PP!Readings
<1>2. /\ P!Select(r, now) => PP!Select(r, now)
      /\ P!SelectFails(r, now) => PP!SelectFails(r, now)
      /\ P!Reject(r, now) => PP!Reject(r, now)
      /\ P!Finish(r) => PP!Finish(r)
  BY DEF P!Select, PP!Select, P!SelectFails, PP!SelectFails, P!Reject, PP!Reject,
         P!Finish, PP!Finish, P!Eligible, PP!Eligible, P!Slot, PP!Slot
<1> QED BY <1>1, <1>2 DEF PP!PoolStep

\* The same of the backup's.
LEMMA SameBackup ==
  ASSUME now \in 1..MaxTime, NEW r \in Requests,
         B!Select(r, now) \/ B!SelectFails(r, now) \/ B!Reject(r, now) \/ B!Finish(r)
  PROVE  BP!PoolStep(r)
<1>1. now \in BP!Readings
  BY InterpretationAssumption DEF BP!Readings
<1>2. /\ B!Select(r, now) => BP!Select(r, now)
      /\ B!SelectFails(r, now) => BP!SelectFails(r, now)
      /\ B!Reject(r, now) => BP!Reject(r, now)
      /\ B!Finish(r) => BP!Finish(r)
  BY DEF B!Select, BP!Select, B!SelectFails, BP!SelectFails, B!Reject, BP!Reject,
         B!Finish, BP!Finish, B!Eligible, BP!Eligible, B!Slot, BP!Slot
<1> QED BY <1>1, <1>2 DEF BP!PoolStep

\* A step of the stage is a step of at most one pool, or lets time pass.
LEMMA StageDrives ==
  ASSUME TypeOK, [Next]_vars
  PROVE  (PP!Used \/ PP!Left) /\ (BP!Used \/ BP!Left)
<1>1. now \in 1..MaxTime
  BY DEF TypeOK
<1>2. ASSUME NEW r \in Requests, UNCHANGED <<now, bVars>>,
             P!Select(r, now) \/ P!SelectFails(r, now) \/ P!Reject(r, now) \/ P!Finish(r)
      PROVE  PP!Used /\ BP!Left
  <2>1. PP!PoolStep(r)
    BY <1>1, <1>2, SamePrimary
  <2> QED BY <1>2, <2>1 DEF PP!Used, BP!Left, BP!poolVars, bVars
<1>3. ASSUME NEW r \in Requests, UNCHANGED <<now, pVars>>,
             B!Select(r, now) \/ B!SelectFails(r, now) \/ B!Reject(r, now) \/ B!Finish(r)
      PROVE  PP!Left /\ BP!Used
  <2>1. BP!PoolStep(r)
    BY <1>1, <1>3, SameBackup
  <2> QED BY <1>3, <2>1 DEF BP!Used, PP!Left, PP!poolVars, pVars
<1>4. ASSUME UNCHANGED <<pVars, bVars>>, UNCHANGED now \/ (now < MaxTime /\ now' = now + 1)
      PROVE  PP!Left /\ BP!Left
  BY <1>4 DEF PP!Left, BP!Left, PP!poolVars, BP!poolVars, pVars, bVars
<1>5. CASE UNCHANGED vars
  BY <1>4, <1>5 DEF vars
<1>6. CASE Tick
  BY <1>4, <1>6 DEF Tick
<1>7. ASSUME NEW r \in Requests, Begin(r) \/ Repair(r)
      PROVE  PP!Used /\ BP!Left
  BY <1>2, <1>7 DEF Begin, Repair
<1>8. ASSUME NEW r \in Requests, CallBackup(r)
      PROVE  PP!Left /\ BP!Used
  BY <1>3, <1>8 DEF CallBackup
<1>9. ASSUME NEW r \in Requests, Fails(r) \/ \E a \in Answers : Answered(r, a)
      PROVE  (PP!Used \/ PP!Left) /\ (BP!Used \/ BP!Left)
  BY <1>2, <1>3, <1>9 DEF Fails, Answered
<1>10. ASSUME NEW r \in Requests, GiveUp(r) \/ Progress(r)
       PROVE  PP!Left /\ BP!Left
  BY <1>4, <1>10 DEF GiveUp, Progress
<1> QED BY <1>5, <1>6, <1>7, <1>8, <1>9, <1>10 DEF Next, GoesSilent, TimesOut

\* Whatever its requests, timeouts and deadlines do, the stage drives each of
\* its pools by select(), mark_unhealthy() and the ends of calls only.
THEOREM DrivesPools == Observed => PP!Spec /\ BP!Spec
<1>1. /\ Init /\ pPassed = [c \in P!Slots |-> 0] /\ pRejectedAt = [c \in P!Slots |-> 0]
        => PP!Init
      /\ Init /\ bPassed = [c \in B!Slots |-> 0] /\ bRejectedAt = [c \in B!Slots |-> 0]
        => BP!Init
  BY DEF Init, PP!Init, BP!Init, P!PoolInit, B!PoolInit, PP!PoolInit, BP!PoolInit,
         P!Slots, B!Slots, PP!Slots, BP!Slots
<1>2. TypeOK /\ [Next]_vars /\ [PP!Remember /\ BP!Remember]_<<vars, history>>
        => /\ [(PP!Used \/ PP!Left) /\ PP!Remember]_(PP!vars)
           /\ [(BP!Used \/ BP!Left) /\ BP!Remember]_(BP!vars)
  <2> SUFFICES ASSUME TypeOK, [Next]_vars, [PP!Remember /\ BP!Remember]_<<vars, history>>
               PROVE  /\ [(PP!Used \/ PP!Left) /\ PP!Remember]_(PP!vars)
                      /\ [(BP!Used \/ BP!Left) /\ BP!Remember]_(BP!vars)
    OBVIOUS
  <2>1. CASE PP!Remember /\ BP!Remember
    BY <2>1, StageDrives
  <2>2. CASE UNCHANGED <<vars, history>>
    BY <2>2 DEF vars, history, pVars, bVars, PP!vars, BP!vars
  <2> QED BY <2>1, <2>2
<1>3. PP!Init /\ [][(PP!Used \/ PP!Left) /\ PP!Remember]_(PP!vars) => PP!Spec
  BY PoolsAssumed, PP!OwnersDriveThePool
<1>4. BP!Init /\ [][(BP!Used \/ BP!Left) /\ BP!Remember]_(BP!vars) => BP!Spec
  BY PoolsAssumed, BP!OwnersDriveThePool
<1> QED BY <1>1, <1>2, <1>3, <1>4, TypeCorrect, PTL DEF Observed, Spec

\* What the pool promises holds of the primary's and the backup's pool while
\* requests share them: no credential is starved, none is sent before its
\* cooldown has passed, and a call is refused only while all are cooling.
THEOREM PoolsKeepTheirPromises ==
  Observed => /\ []PP!NoneStarved /\ PP!CooldownHonoured /\ PP!UnavailableOnlyWhenAllCooling
              /\ []BP!NoneStarved /\ BP!CooldownHonoured /\ BP!UnavailableOnlyWhenAllCooling
<1>1. PP!Spec => []PP!NoneStarved /\ PP!CooldownHonoured /\ PP!UnavailableOnlyWhenAllCooling
  BY PoolsAssumed, PP!RoundRobin, PP!CooldownKept, PP!RefusalJustified
<1>2. BP!Spec => []BP!NoneStarved /\ BP!CooldownHonoured /\ BP!UnavailableOnlyWhenAllCooling
  BY PoolsAssumed, BP!RoundRobin, BP!CooldownKept, BP!RefusalJustified
<1> QED BY DrivesPools, <1>1, <1>2
=============================================================================
