------------------------ MODULE MemberPaymentsProofs ------------------------
(***************************************************************************)
(* MemberPayments, for any number of payments, requests, members and       *)
(* months.                                                                 *)
(***************************************************************************)
EXTENDS MemberPayments, TLAPS

USE MemberAssumption

LEMMA MTypeInit == MInit => MTypeOK
<1> SUFFICES ASSUME MInit PROVE MTypeOK
  OBVIOUS
<1>1. now \in Date
  BY DEF MInit, Date, Month
<1> QED BY <1>1 DEF MInit, MTypeOK, NoTarget, Unlinked, Handler, Calls, Target, Settling

\* The part of MTypeOK that is about the handlers.
HandlersOK ==
  /\ hpc \in [Handler -> Calls]
  /\ target \in [Handler -> Target]
  /\ current \in [Request -> Tx \cup {Cash, Nobody}]
  /\ todo \in [Request -> SUBSET Tx]
  /\ \A h \in Handler : hpc[h] \in Settling => target[h] \in [member : Member, on : Date]

LEMMA FinishType ==
  ASSUME HandlersOK, NEW h \in Handler, Finish(h)
  PROVE  HandlersOK'
<1>1. NoTarget \in Target
  BY DEF NoTarget, Target
<1>2. hpc' \in [Handler -> Calls] /\ target' \in [Handler -> Target]
  BY <1>1 DEF Finish, HandlersOK, Calls
<1>3. current' \in [Request -> Tx \cup {Cash, Nobody}] /\ todo' \in [Request -> SUBSET Tx]
  BY DEF Finish, HandlersOK, Handler
<1>4. ASSUME NEW g \in Handler, hpc'[g] \in Settling
      PROVE  target'[g] \in [member : Member, on : Date]
  BY <1>4 DEF Finish, HandlersOK, Settling
<1> QED BY <1>2, <1>3, <1>4 DEF HandlersOK

\* Moving on to a call that settles nothing keeps the types.
LEMMA GoOnType ==
  ASSUME HandlersOK, NEW h \in Handler, NEW to \in Calls, GoOn(h, to),
         to \in Settling => target[h] \in [member : Member, on : Date]
  PROVE  HandlersOK'
BY DEF GoOn, HandlersOK

LEMMA AfterRecordType ==
  ASSUME HandlersOK, NEW h \in Handler, AfterRecord(h)
  PROVE  HandlersOK'
BY FinishType, GoOnType DEF AfterRecord, Calls, Settling

\* What is recorded about payments and records that nobody takes care of.
LEMMA FailedType ==
  ASSUME MTypeOK, [MNext]_mvars
  PROVE  dropped' \in SUBSET Tx /\ unclosed' \in SUBSET (Member \X Month)
<1> USE DEF failedVars
<1>0. dropped \in SUBSET Tx /\ unclosed \in SUBSET (Member \X Month)
  BY DEF MTypeOK
<1>1. ASSUME NEW t \in Tx, WorkerStep(t)
      PROVE  dropped' \in SUBSET Tx /\ unclosed' \in SUBSET (Member \X Month)
  BY <1>0, <1>1 DEF WorkerStep, PersistTransaction, FindByName, RegisterName, FindMember, Drop, GiveUp
<1>2. ASSUME NEW h \in Handler, SettleStep(h)
      PROVE  dropped' \in SUBSET Tx /\ unclosed' \in SUBSET (Member \X Month)
  <2>1. CASE FindRecord(h)
    BY <1>0, <2>1 DEF FindRecord
  <2>2. CASE InsertRecord(h)
    <3>1. RecordOf(h) \in Member \X Month
      BY <2>2 DEF InsertRecord, At, MTypeOK, RecordOf, Date, Settling
    <3> QED BY <1>0, <2>2, <3>1 DEF InsertRecord, Drop, GiveUp
  <2>3. CASE MarkPaid(h)
    BY <1>0, <2>3 DEF MarkPaid, Drop, GiveUp, LeaveOpen
  <2> QED BY <1>2, <2>1, <2>2, <2>3 DEF SettleStep
<1>3. ASSUME NEW r \in Request, FindBySenderName(r) \/ NextTransaction(r)
      PROVE  dropped' \in SUBSET Tx /\ unclosed' \in SUBSET (Member \X Month)
  BY <1>0, <1>3 DEF FindBySenderName, NextTransaction, GiveUp
<1>4. ASSUME NEW r \in Request, NEW m \in Member,
             (\E n \in Name : LinkName(r, n, m)) \/ (\E p \in Month : PayCash(r, m, p))
      PROVE  dropped' \in SUBSET Tx /\ unclosed' \in SUBSET (Member \X Month)
  BY <1>0, <1>4 DEF LinkName, PayCash
<1>5. CASE (\E n \in Name : ChangeMapping(n)) \/ (\E m \in Member : SetActive(m))
  BY <1>0, <1>5 DEF ChangeMapping, SetActive
<1>6. CASE Tick \/ MarkOverdue \/ GenerateForMonth \/ Crash
  BY <1>0, <1>6 DEF Tick, MarkOverdue, GenerateForMonth, Crash, LeaveOpen
<1>7. CASE UNCHANGED mvars
  BY <1>0, <1>7 DEF mvars
<1> QED BY <1>1, <1>2, <1>3, <1>4, <1>5, <1>6, <1>7 DEF MNext, AdminStep

\* The types and MatchInv keep the target of a link request a member.
LEMMA MTypeStep == MTypeOK /\ MatchInv /\ [MNext]_mvars => MTypeOK'
<1> SUFFICES ASSUME MTypeOK, MatchInv, [MNext]_mvars PROVE MTypeOK'
  OBVIOUS
<1> USE DEF clockVars, recordVars, handlerVars, adminVars
<1>0. HandlersOK
  BY DEF MTypeOK, HandlersOK
<1>f. dropped' \in SUBSET Tx /\ unclosed' \in SUBSET (Member \X Month)
  BY FailedType
<1>1. ASSUME HandlersOK', UNCHANGED <<clockVars, paidOn, recordVars, adminVars>>
      PROVE  MTypeOK'
  BY <1>f, <1>1 DEF MTypeOK, HandlersOK
<1>2. ASSUME NEW t \in Tx, WorkerStep(t) PROVE MTypeOK'
  <2> t \in Handler
    BY DEF Handler
  <2>1. CASE PersistTransaction(t)
    <3>1. HandlersOK'
      BY <1>0, <2>1, GoOnType DEF PersistTransaction, Calls, Settling
    <3>2. paidOn' \in [Tx -> Date \cup {NoDate}]
      BY <2>1 DEF PersistTransaction, MTypeOK
    <3> QED BY <1>f, <2>1, <3>1, <3>2 DEF PersistTransaction, MTypeOK, HandlersOK
  <2>2. CASE FindByName(t)
    <3>1. CASE GoOn(t, "register")
      BY <1>0, <1>1, <2>2, <3>1, GoOnType DEF FindByName, Calls, Settling
    <3>2. CASE Finish(t)
      BY <1>0, <1>1, <2>2, <3>2, FinishType DEF FindByName
    <3>3. CASE /\ mapping[NameOf[t]] \in Member
               /\ hpc' = [hpc EXCEPT ![t] = "member"]
               /\ target' = [target EXCEPT ![t].member = mapping[NameOf[t]]]
               /\ UNCHANGED <<current, todo>>
      BY <1>0, <1>1, <2>2, <3>3 DEF FindByName, HandlersOK, Calls, Settling, Target
    <3> QED BY <2>2, <3>1, <3>2, <3>3 DEF FindByName
  <2>3. CASE RegisterName(t)
    <3>1. HandlersOK'
      BY <1>0, <2>3, FinishType DEF RegisterName
    <3>2. mapping' \in [Name -> Member \cup Unlinked]
      BY <2>3 DEF RegisterName, MTypeOK, Unlinked
    <3> QED BY <1>f, <2>3, <3>1, <3>2 DEF RegisterName, MTypeOK, HandlersOK
  <2>4. CASE FindMember(t)
    <3>1. CASE Finish(t)
      BY <1>0, <1>1, <2>4, <3>1, FinishType DEF FindMember
    <3>2. CASE /\ hpc' = [hpc EXCEPT ![t] = "find"]
               /\ target' = [target EXCEPT ![t].on = now]
               /\ UNCHANGED <<current, todo>>
      <4>0. <<NameOf[t], target[t].member>> \in everLinked
        BY <2>4 DEF FindMember, At, MatchInv, WorkerKnows
      <4>1. target[t].member \in Member
        BY <4>0 DEF MTypeOK
      <4> QED BY <1>0, <1>1, <2>4, <3>2, <4>1
              DEF FindMember, HandlersOK, Calls, Settling, Target, MTypeOK
    <3> QED BY <2>4, <3>1, <3>2 DEF FindMember
  <2> QED BY <1>2, <2>1, <2>2, <2>3, <2>4 DEF WorkerStep
<1>3. ASSUME NEW h \in Handler, SettleStep(h) PROVE MTypeOK'
  <2>0. hpc[h] \in Settling => RecordOf(h) \in Member \X Month
    BY DEF MTypeOK, RecordOf, Date
  <2>1. CASE FindRecord(h)
    <3>1. HandlersOK'
      BY <1>0, <2>1, GoOnType, AfterRecordType DEF FindRecord, At, Calls, Settling, HandlersOK
    <3> QED BY <1>1, <2>1, <3>1 DEF FindRecord
  <2>2. CASE InsertRecord(h)
    <3>1. HandlersOK'
      BY <1>0, <2>2, GoOnType, AfterRecordType DEF InsertRecord, At, Calls, Settling, HandlersOK
    <3>2. status' \in [Member \X Month -> {"none", "pending", "overdue"} \cup Paid]
      BY <2>2 DEF InsertRecord, MTypeOK
    <3> QED BY <1>f, <2>2, <3>1, <3>2 DEF InsertRecord, MTypeOK, HandlersOK
  <2>3. CASE MarkPaid(h)
    <3>1. HandlersOK'
      BY <1>0, <2>3, AfterRecordType DEF MarkPaid
    <3>2. status' \in [Member \X Month -> {"none", "pending", "overdue"} \cup Paid]
      BY <2>3 DEF MarkPaid, MTypeOK, PaidStatus, Paid
    <3>3. paidBy' \in [Member \X Month -> Tx \cup {Cash, Nobody}]
      BY <2>3 DEF MarkPaid, MTypeOK, PaymentOf, Handler
    <3> QED BY <1>f, <2>3, <3>1, <3>2, <3>3 DEF MarkPaid, MTypeOK, HandlersOK
  <2> QED BY <1>3, <2>1, <2>2, <2>3 DEF SettleStep
<1>4. CASE AdminStep
  <2>1. ASSUME NEW r \in Request, FindBySenderName(r) PROVE MTypeOK'
    BY <1>0, <1>1, <2>1 DEF FindBySenderName, HandlersOK, Handler, Calls, Settling
  <2>2. ASSUME NEW r \in Request, NextTransaction(r) PROVE MTypeOK'
    <3> r \in Handler
      BY DEF Handler
    <3>1. CASE Finish(r)
      BY <1>0, <1>1, <2>2, <3>1, FinishType DEF NextTransaction
    <3>2. ASSUME NEW t \in todo[r],
                 hpc' = [hpc EXCEPT ![r] = "find"],
                 target' = [target EXCEPT ![r].on = paidOn[t]],
                 current' = [current EXCEPT ![r] = t],
                 todo' = [todo EXCEPT ![r] = @ \ {t}]
          PROVE  MTypeOK'
      <4>1. t \in Tx /\ paidOn[t] \in Date /\ target[r].member \in Member
        BY <2>2 DEF NextTransaction, At, MatchInv, RequestKnows, MTypeOK
      <4>2. target' \in [Handler -> Target] /\ hpc' \in [Handler -> Calls]
        BY <1>0, <3>2, <4>1 DEF HandlersOK, Target, Calls
      <4>3. target'[r] \in [member : Member, on : Date]
        BY <1>0, <3>2, <4>1 DEF HandlersOK, Target
      <4>4. HandlersOK'
        BY <1>0, <3>2, <4>1, <4>2, <4>3 DEF HandlersOK, Handler
      <4> QED BY <1>1, <2>2, <4>4 DEF NextTransaction
    <3> QED BY <2>2, <3>1, <3>2 DEF NextTransaction
  <2>3. ASSUME NEW r \in Request, NEW m \in Member, NEW n \in Name, LinkName(r, n, m)
        PROVE  MTypeOK'
    <3> r \in Handler
      BY DEF Handler
    <3>1. HandlersOK'
      <4>a. CASE UNCHANGED handlerVars
        BY <1>0, <4>a DEF HandlersOK
      <4>b. CASE /\ hpc' = [hpc EXCEPT ![r] = "scan"]
                 /\ target' = [target EXCEPT ![r].member = m]
                 /\ todo' = [todo EXCEPT ![r] = {t \in Tx : NameOf[t] = n}]
                 /\ UNCHANGED current
        <5>1. hpc' \in [Handler -> Calls] /\ todo' \in [Request -> SUBSET Tx]
          BY <1>0, <4>b DEF HandlersOK, Calls
        <5>2. target' \in [Handler -> Target]
          BY <1>0, <4>b DEF HandlersOK, Target
        <5>3. ASSUME NEW g \in Handler, hpc'[g] \in Settling
              PROVE  target'[g] \in [member : Member, on : Date]
          <6>1. g # r /\ hpc[g] \in Settling
            BY <1>0, <4>b, <5>3 DEF HandlersOK, Settling
          <6> QED BY <1>0, <4>b, <6>1 DEF HandlersOK
        <5> QED BY <1>0, <4>b, <5>1, <5>2, <5>3 DEF HandlersOK
      <4> QED BY <2>3, <4>a, <4>b DEF LinkName
    <3>2. mapping' \in [Name -> Member \cup Unlinked] /\ everLinked' \in SUBSET (Name \X Member)
      BY <2>3 DEF LinkName, MTypeOK
    <3> QED BY <1>f, <2>3, <3>1, <3>2 DEF LinkName, MTypeOK, HandlersOK
  <2>4. ASSUME NEW r \in Request, NEW m \in Member, NEW p \in Month, PayCash(r, m, p)
        PROVE  MTypeOK'
    <3>1. [member |-> m, on |-> [month |-> p, day |-> now.day]] \in [member : Member, on : Date]
      BY DEF MTypeOK, Date
    <3>2. HandlersOK'
      BY <1>0, <2>4, <3>1 DEF PayCash, HandlersOK, Handler, Calls, Settling, Target
    <3> QED BY <1>1, <2>4, <3>2 DEF PayCash
  <2>5. ASSUME NEW n \in Name, ChangeMapping(n) PROVE MTypeOK'
    BY <1>f, <2>5 DEF ChangeMapping, MTypeOK
  <2>6. ASSUME NEW m \in Member, SetActive(m) PROVE MTypeOK'
    BY <1>f, <2>6 DEF SetActive, MTypeOK
  <2> QED BY <1>4, <2>1, <2>2, <2>3, <2>4, <2>5, <2>6 DEF AdminStep
<1>5. CASE Tick
  <2>1. now' \in Date
    BY <1>5 DEF Tick, MTypeOK, Date, Month
  <2> QED BY <1>f, <1>5, <2>1 DEF Tick, MTypeOK
<1>6. CASE MarkOverdue
  BY <1>f, <1>6 DEF MarkOverdue, MTypeOK
<1>7. CASE GenerateForMonth
  BY <1>f, <1>7 DEF GenerateForMonth, MTypeOK
<1>8. CASE Crash
  BY <1>f, <1>8 DEF Crash, MTypeOK, Handler, NoTarget, Target, Calls, Settling
<1>9. CASE UNCHANGED mvars
  BY <1>f, <1>9 DEF mvars, MTypeOK
<1> QED BY <1>2, <1>3, <1>4, <1>5, <1>6, <1>7, <1>8, <1>9 DEF MNext

-----------------------------------------------------------------------------
(***************************************************************************)
(* What a handler knows stays true                                         *)
(***************************************************************************)

\* Links and rows are never taken back, and the clock does not go back.
Grows ==
  /\ everLinked \subseteq everLinked'
  /\ \A t \in Tx : paidOn[t] # NoDate => paidOn'[t] = paidOn[t]
  /\ \A d \in Date : NotAfter(d, now) => NotAfter(d, now')

LEMMA DateNat == ASSUME NEW d \in Date PROVE d.month \in Nat /\ d.day \in Nat
BY DEF Date, Month

LEMMA StepGrows == MTypeOK /\ MatchInv /\ [MNext]_mvars => Grows
<1> SUFFICES ASSUME MTypeOK, MatchInv, [MNext]_mvars PROVE Grows
  OBVIOUS
<1> USE DEF clockVars, recordVars, handlerVars, adminVars
<1>1. ASSUME UNCHANGED <<now, paidOn, everLinked>> PROVE Grows
  BY <1>1 DEF Grows
<1>2. ASSUME NEW t \in Tx, PersistTransaction(t) PROVE Grows
  <2>1. paidOn[t] = NoDate
    BY <1>2 DEF PersistTransaction, At, MatchInv, WorkerKnows
  <2>2. UNCHANGED <<now, everLinked>> /\ \A u \in Tx : u # t => paidOn'[u] = paidOn[u]
    BY <1>2 DEF PersistTransaction, MTypeOK
  <2> QED BY <2>1, <2>2 DEF Grows
<1>3. ASSUME NEW r \in Request, NEW n \in Name, NEW m \in Member, LinkName(r, n, m)
      PROVE  Grows
  BY <1>3 DEF LinkName, Grows
<1>4. CASE Tick
  <2> SUFFICES ASSUME NEW d \in Date, NotAfter(d, now) PROVE NotAfter(d, now')
    BY <1>4 DEF Tick, Grows
  <2>1. d.month \in Nat /\ d.day \in Nat /\ now.month \in Nat /\ now.day \in Nat
    BY DateNat DEF MTypeOK
  <2>2. \/ now'.month = now.month /\ now'.day = now.day + 1
        \/ now'.month = now.month + 1 /\ now'.day = 1
    BY <1>4 DEF Tick, MTypeOK, Date
  <2> QED BY <2>1, <2>2 DEF NotAfter
<1>5. ASSUME NEW t \in Tx, WorkerStep(t), ~PersistTransaction(t) PROVE Grows
  BY <1>1, <1>5 DEF WorkerStep, FindByName, RegisterName, FindMember
<1>6. ASSUME NEW h \in Handler, SettleStep(h) PROVE Grows
  BY <1>1, <1>6 DEF SettleStep, FindRecord, InsertRecord, MarkPaid
<1>7. CASE AdminStep
  BY <1>1, <1>3, <1>7 DEF AdminStep, FindBySenderName, NextTransaction, PayCash,
                          ChangeMapping, SetActive
<1>8. CASE MarkOverdue \/ GenerateForMonth \/ Crash \/ UNCHANGED mvars
  BY <1>1, <1>8 DEF MarkOverdue, GenerateForMonth, Crash, mvars
<1> QED BY <1>2, <1>4, <1>5, <1>6, <1>7, <1>8 DEF MNext

LEMMA MayCreditKept ==
  ASSUME Grows, NEW t \in Tx, NEW m, NEW on, MayCredit(t, m, on)
  PROVE  /\ <<NameOf[t], m>> \in everLinked'
         /\ paidOn'[t] # NoDate /\ NotAfter(paidOn'[t], on)
BY DEF Grows, MayCredit

\* A handler that did not move knows what it knew.
LEMMA WorkerKept ==
  ASSUME MTypeOK, Grows, NEW t \in Tx, WorkerKnows(t),
         UNCHANGED <<hpc[t], target[t], paidOn[t]>>
  PROVE  WorkerKnows(t)'
<1>1. paidOn'[t] # NoDate => NotAfter(paidOn'[t], now')
  BY DEF WorkerKnows, Grows, MTypeOK
<1>2. hpc'[t] = "member" => <<NameOf[t], target'[t].member>> \in everLinked'
  BY DEF WorkerKnows, Grows
<1>3. hpc'[t] \in Settling => MayCredit(t, target[t].member, target[t].on)'
  BY MayCreditKept DEF WorkerKnows, MayCredit
<1> QED BY <1>1, <1>2, <1>3 DEF WorkerKnows

LEMMA RequestKept ==
  ASSUME MTypeOK, Grows, NEW r \in Request, RequestKnows(r),
         UNCHANGED <<hpc[r], target[r], current[r], todo[r]>>
  PROVE  RequestKnows(r)'
<1>1. \A t \in todo'[r] : <<NameOf[t], target'[r].member>> \in everLinked'
  BY DEF RequestKnows, Grows
<1>2. hpc'[r] # "scan" => \A t \in todo'[r] : paidOn'[t] # NoDate
  BY DEF RequestKnows, Grows, MTypeOK
<1>3. hpc'[r] \in Settling /\ current'[r] \in Tx =>
        MayCredit(current[r], target[r].member, target[r].on)'
  BY MayCreditKept DEF RequestKnows, MayCredit
<1> QED BY <1>1, <1>2, <1>3 DEF RequestKnows

-----------------------------------------------------------------------------
(***************************************************************************)
(* MatchInv is inductive                                                   *)
(***************************************************************************)

LEMMA MatchInit == MInit => MatchInv
<1> SUFFICES ASSUME MInit PROVE MatchInv
  OBVIOUS
<1>1. ASSUME NEW t \in Tx PROVE WorkerKnows(t)
  BY DEF MInit, WorkerKnows, Settling, Handler
<1>2. ASSUME NEW r \in Request PROVE RequestKnows(r)
  BY DEF MInit, RequestKnows, Settling, Handler
<1>3. \A n \in Name : mapping[n] \notin Member
  BY DEF MInit, Unlinked
<1> QED BY <1>1, <1>2, <1>3 DEF MatchInv

\* What is left to show of a step of handler h: what h itself knows, and that a
\* mapping is only set to a member by a link.
LEMMA OnlyOneMoves ==
  ASSUME MTypeOK, MatchInv, Grows, NEW h \in Handler,
         \A n \in Name : mapping'[n] \in Member => <<n, mapping'[n]>> \in everLinked',
         \A g \in Handler : g # h => UNCHANGED <<hpc[g], target[g]>>,
         \A r \in Request : r # h => UNCHANGED <<current[r], todo[r]>>,
         \A t \in Tx : t # h => UNCHANGED paidOn[t],
         h \in Tx => WorkerKnows(h)',
         h \in Request => RequestKnows(h)'
  PROVE  MatchInv'
<1>1. ASSUME NEW t \in Tx PROVE WorkerKnows(t)'
  BY WorkerKept DEF MatchInv, Handler
<1>2. ASSUME NEW r \in Request PROVE RequestKnows(r)'
  BY RequestKept DEF MatchInv, Handler
<1> QED BY <1>1, <1>2 DEF MatchInv

LEMMA FinishKnows ==
  ASSUME MTypeOK, MatchInv, Grows, NEW h \in Handler, hpc[h] # "idle", Finish(h),
         UNCHANGED paidOn,
         \A n \in Name : mapping'[n] \in Member => <<n, mapping'[n]>> \in everLinked'
  PROVE  MatchInv'
<1>1. /\ \A g \in Handler : g # h => UNCHANGED <<hpc[g], target[g]>>
      /\ \A r \in Request : r # h => UNCHANGED <<current[r], todo[r]>>
  BY DEF Finish, MTypeOK, Handler
<1>2. ASSUME h \in Tx PROVE WorkerKnows(h)'
  <2>1. hpc'[h] = "done"
    BY <1>2 DEF Finish, MTypeOK
  <2>2. paidOn[h] # NoDate /\ NotAfter(paidOn'[h], now')
    BY <1>2 DEF MatchInv, WorkerKnows, Grows, MTypeOK
  <2> QED BY <2>1, <2>2 DEF WorkerKnows, Settling
<1>3. ASSUME h \in Request PROVE RequestKnows(h)'
  <2>1. hpc'[h] = "idle" /\ todo'[h] = {}
    BY <1>3, MemberAssumption DEF Finish, MTypeOK
  <2> QED BY <2>1 DEF RequestKnows, Settling
<1> QED BY <1>1, <1>2, <1>3, OnlyOneMoves DEF MatchInv

\* Between two calls about one record the target stays.
LEMMA GoOnKnows ==
  ASSUME MTypeOK, MatchInv, Grows, NEW h \in Handler, hpc[h] \in Settling,
         NEW to \in {"insert", "pay"}, GoOn(h, to),
         UNCHANGED <<paidOn, mapping, everLinked>>
  PROVE  MatchInv'
<1>1. /\ \A g \in Handler : g # h => UNCHANGED <<hpc[g], target[g]>>
      /\ \A r \in Request : r # h => UNCHANGED <<current[r], todo[r]>>
      /\ hpc'[h] = to /\ UNCHANGED target
  BY DEF GoOn, MTypeOK
<1>2. ASSUME h \in Tx PROVE WorkerKnows(h)'
  <2>1. paidOn[h] # NoDate /\ NotAfter(paidOn'[h], now')
    BY <1>2 DEF MatchInv, WorkerKnows, Grows, MTypeOK, Settling
  <2>2. MayCredit(h, target[h].member, target[h].on)
    BY <1>2 DEF MatchInv, WorkerKnows
  <2> QED BY <1>1, <2>1, <2>2 DEF WorkerKnows, MayCredit, Settling
<1>3. ASSUME h \in Request PROVE RequestKnows(h)'
  <2>1. RequestKnows(h) /\ UNCHANGED <<current, todo>>
    BY <1>3 DEF MatchInv, GoOn
  <2> QED BY <1>1, <2>1 DEF RequestKnows, MayCredit, Settling
<1> QED BY <1>1, <1>2, <1>3, OnlyOneMoves DEF MatchInv

LEMMA AfterRecordKnows ==
  ASSUME MTypeOK, MatchInv, Grows, NEW h \in Handler, hpc[h] \in Settling,
         AfterRecord(h), UNCHANGED <<paidOn, mapping, everLinked>>
  PROVE  MatchInv'
<1>1. CASE Finish(h)
  BY <1>1, FinishKnows DEF Settling, MatchInv
<1>2. CASE h \in Request /\ GoOn(h, "next")
  <2>1. /\ \A g \in Handler : g # h => UNCHANGED <<hpc[g], target[g]>>
        /\ \A r \in Request : r # h => UNCHANGED <<current[r], todo[r]>>
        /\ hpc'[h] = "next" /\ UNCHANGED <<target, current, todo>>
    BY <1>2 DEF GoOn, MTypeOK
  <2>2. RequestKnows(h) /\ target[h].member \in Member
    BY <1>2 DEF MatchInv, MTypeOK
  <2>3. RequestKnows(h)'
    BY <2>1, <2>2 DEF RequestKnows, Settling
  <2>4. h \notin Tx
    BY <1>2, MemberAssumption
  <2> QED BY <2>1, <2>3, <2>4, OnlyOneMoves DEF MatchInv
<1> QED BY <1>1, <1>2 DEF AfterRecord, Handler

LEMMA MatchStep == MTypeOK /\ MatchInv /\ [MNext]_mvars => MatchInv'
<1> SUFFICES ASSUME MTypeOK, MatchInv, [MNext]_mvars PROVE MatchInv'
  OBVIOUS
<1> USE DEF clockVars, recordVars, handlerVars, adminVars
<1>0. Grows
  BY StepGrows
<1>1. ASSUME NEW t \in Tx, WorkerStep(t) PROVE MatchInv'
  <2> t \in Handler
    BY DEF Handler
  <2>0. t \notin Request /\ WorkerKnows(t)
    BY MemberAssumption DEF MatchInv
  <2>1. CASE PersistTransaction(t)
    <3>1. PICK on \in Date : NotAfter(on, now) /\ paidOn' = [paidOn EXCEPT ![t] = on]
      BY <2>1 DEF PersistTransaction
    <3>2. hpc'[t] = "lookup" /\ now' = now /\ paidOn'[t] = on /\ on # NoDate
      BY <2>1, <3>1 DEF PersistTransaction, GoOn, MTypeOK, NoDate, Date, Month
    <3>3. WorkerKnows(t)'
      BY <3>1, <3>2 DEF WorkerKnows, Settling
    <3> QED BY <1>0, <2>0, <2>1, <3>1, <3>3, OnlyOneMoves
            DEF PersistTransaction, GoOn, MTypeOK, MatchInv
  <2>2. CASE FindByName(t)
    <3>1. CASE Finish(t)
      BY <1>0, <2>2, <3>1, FinishKnows DEF FindByName, At, MatchInv
    <3>2. CASE GoOn(t, "register")
      <4>1. hpc[t] = "lookup" /\ hpc'[t] = "register" /\ UNCHANGED <<now, paidOn>>
        BY <2>2, <3>2 DEF FindByName, At, GoOn, MTypeOK
      <4>2. WorkerKnows(t)'
        BY <2>0, <4>1 DEF WorkerKnows, Settling
      <4> QED BY <1>0, <2>0, <2>2, <3>2, <4>2, OnlyOneMoves
              DEF FindByName, GoOn, MTypeOK, MatchInv
    <3>3. CASE /\ mapping[NameOf[t]] \in Member
               /\ hpc' = [hpc EXCEPT ![t] = "member"]
               /\ target' = [target EXCEPT ![t].member = mapping[NameOf[t]]]
               /\ UNCHANGED <<current, todo>>
      <4>1. /\ hpc[t] = "lookup" /\ hpc'[t] = "member" /\ UNCHANGED <<now, paidOn, everLinked>>
            /\ target'[t].member = mapping[NameOf[t]]
        BY <2>2, <3>3 DEF FindByName, At, MTypeOK, Target
      <4>2. <<NameOf[t], mapping[NameOf[t]]>> \in everLinked
        BY <3>3, MemberAssumption DEF MatchInv
      <4>3. WorkerKnows(t)'
        BY <2>0, <4>1, <4>2 DEF WorkerKnows, Settling
      <4> QED BY <1>0, <2>0, <2>2, <3>3, <4>3, OnlyOneMoves
              DEF FindByName, MTypeOK, MatchInv
    <3> QED BY <2>2, <3>1, <3>2, <3>3 DEF FindByName
  <2>3. CASE RegisterName(t)
    <3>1. \A n \in Name : mapping'[n] \in Member => <<n, mapping'[n]>> \in everLinked'
      BY <2>3, MemberAssumption DEF RegisterName, MTypeOK, MatchInv, Unlinked
    <3> QED BY <1>0, <2>3, <3>1, FinishKnows DEF RegisterName, At
  <2>4. CASE FindMember(t)
    <3>1. CASE Finish(t)
      BY <1>0, <2>4, <3>1, FinishKnows DEF FindMember, At, MatchInv
    <3>2. CASE /\ hpc' = [hpc EXCEPT ![t] = "find"]
               /\ target' = [target EXCEPT ![t].on = now]
               /\ UNCHANGED <<current, todo>>
      <4>1. /\ hpc[t] = "member" /\ hpc'[t] = "find" /\ UNCHANGED <<now, paidOn, everLinked>>
            /\ target'[t].on = now /\ target'[t].member = target[t].member
        BY <2>4, <3>2 DEF FindMember, At, MTypeOK, Target
      <4>2. WorkerKnows(t)'
        BY <2>0, <4>1 DEF WorkerKnows, Settling, MayCredit
      <4> QED BY <1>0, <2>0, <2>4, <3>2, <4>2, OnlyOneMoves
              DEF FindMember, MTypeOK, MatchInv
    <3> QED BY <2>4, <3>1, <3>2 DEF FindMember
  <2> QED BY <1>1, <2>1, <2>2, <2>3, <2>4 DEF WorkerStep
<1>2. ASSUME NEW h \in Handler, SettleStep(h) PROVE MatchInv'
  BY <1>0, <1>2, GoOnKnows, AfterRecordKnows
     DEF SettleStep, FindRecord, InsertRecord, MarkPaid, At, Settling
<1>3. ASSUME NEW r \in Request, FindBySenderName(r) PROVE MatchInv'
  <2>1. /\ hpc[r] = "scan" /\ hpc'[r] = "next" /\ UNCHANGED <<paidOn, everLinked, target>>
        /\ r \in Handler /\ r \notin Tx
        /\ todo'[r] \subseteq {t \in todo[r] : paidOn[t] # NoDate}
    BY <1>3, MemberAssumption DEF FindBySenderName, At, MTypeOK, Handler
  <2>2. RequestKnows(r)
    BY DEF MatchInv
  <2>3. RequestKnows(r)'
    BY <2>1, <2>2 DEF RequestKnows, Settling
  <2> QED BY <1>0, <1>3, <2>1, <2>3, OnlyOneMoves DEF FindBySenderName, MTypeOK, MatchInv
<1>4. ASSUME NEW r \in Request, NextTransaction(r) PROVE MatchInv'
  <2> r \in Handler /\ r \notin Tx
    BY MemberAssumption DEF Handler
  <2>1. CASE Finish(r)
    BY <1>0, <1>4, <2>1, FinishKnows DEF NextTransaction, At, MatchInv
  <2>2. ASSUME NEW t \in todo[r],
               hpc' = [hpc EXCEPT ![r] = "find"],
               target' = [target EXCEPT ![r].on = paidOn[t]],
               current' = [current EXCEPT ![r] = t],
               todo' = [todo EXCEPT ![r] = @ \ {t}]
        PROVE  MatchInv'
    <3>1. RequestKnows(r) /\ hpc[r] = "next" /\ t \in Tx
      BY <1>4 DEF MatchInv, NextTransaction, At, MTypeOK
    <3>2. /\ hpc'[r] = "find" /\ current'[r] = t /\ todo'[r] \subseteq todo[r]
          /\ target'[r].on = paidOn[t] /\ target'[r].member = target[r].member
          /\ UNCHANGED <<paidOn, everLinked>>
      BY <1>4, <2>2 DEF NextTransaction, MTypeOK, Target
    <3>3. paidOn[t] # NoDate /\ <<NameOf[t], target[r].member>> \in everLinked
      BY <3>1 DEF RequestKnows
    <3>4. NotAfter(paidOn[t], paidOn[t])
      BY <3>1, <3>3, DateNat DEF NotAfter, MTypeOK
    <3>5. RequestKnows(r)'
      BY <3>1, <3>2, <3>3, <3>4 DEF RequestKnows, Settling, MayCredit
    <3> QED BY <1>0, <1>4, <2>2, <3>5, OnlyOneMoves DEF NextTransaction, MTypeOK, MatchInv
  <2> QED BY <1>4, <2>1, <2>2 DEF NextTransaction
<1>5. ASSUME NEW r \in Request, NEW m \in Member, NEW n \in Name, LinkName(r, n, m)
      PROVE  MatchInv'
  <2> r \in Handler /\ r \notin Tx
    BY MemberAssumption DEF Handler
  <2>0. \A k \in Name : mapping'[k] \in Member => <<k, mapping'[k]>> \in everLinked'
    BY <1>5 DEF LinkName, MTypeOK, MatchInv
  <2>1. CASE UNCHANGED handlerVars
    <3>1. RequestKnows(r)'
      BY <1>0, <2>1, RequestKept DEF MatchInv
    <3> QED BY <1>0, <1>5, <2>0, <2>1, <3>1, OnlyOneMoves DEF LinkName
  <2>2. CASE /\ hpc' = [hpc EXCEPT ![r] = "scan"]
             /\ target' = [target EXCEPT ![r].member = m]
             /\ todo' = [todo EXCEPT ![r] = {t \in Tx : NameOf[t] = n}]
             /\ UNCHANGED current
    <3>1. /\ hpc'[r] = "scan" /\ target'[r].member = m
          /\ todo'[r] = {t \in Tx : NameOf[t] = n} /\ <<n, m>> \in everLinked'
      BY <1>5, <2>2 DEF LinkName, MTypeOK, Target
    <3>2. RequestKnows(r)'
      BY <3>1 DEF RequestKnows, Settling
    <3> QED BY <1>0, <1>5, <2>0, <2>2, <3>2, OnlyOneMoves DEF LinkName, MTypeOK
  <2> QED BY <1>5, <2>1, <2>2 DEF LinkName
<1>6. ASSUME NEW r \in Request, NEW m \in Member, NEW p \in Month, PayCash(r, m, p)
      PROVE  MatchInv'
  <2> r \in Handler /\ r \notin Tx
    BY MemberAssumption DEF Handler
  <2>1. /\ hpc[r] = "idle" /\ hpc'[r] = "pay" /\ current'[r] = Cash
        /\ todo' = todo
    BY <1>6 DEF PayCash, At, MTypeOK
  <2>2. todo[r] = {}
    BY <2>1 DEF MatchInv, RequestKnows
  <2>3. RequestKnows(r)'
    BY <2>1, <2>2, MemberAssumption DEF RequestKnows, Settling
  <2> QED BY <1>0, <1>6, <2>3, OnlyOneMoves DEF PayCash, MTypeOK, MatchInv
<1>7. ASSUME NEW n \in Name, ChangeMapping(n) PROVE MatchInv'
  <2>1. \A k \in Name : mapping'[k] \in Member => <<k, mapping'[k]>> \in everLinked'
    BY <1>7, MemberAssumption DEF ChangeMapping, MTypeOK, MatchInv
  <2> QED BY <1>0, <1>7, <2>1, WorkerKept, RequestKept DEF ChangeMapping, MatchInv
<1>8. CASE \/ \E m \in Member : SetActive(m)
           \/ Tick \/ MarkOverdue \/ GenerateForMonth \/ UNCHANGED mvars
  <2>1. UNCHANGED <<paidOn, handlerVars, mapping, everLinked>>
    BY <1>8 DEF SetActive, Tick, MarkOverdue, GenerateForMonth, mvars
  <2> QED BY <1>0, <2>1, WorkerKept, RequestKept DEF MatchInv
<1>9. CASE Crash
  <2>1. ASSUME NEW t \in Tx PROVE WorkerKnows(t)'
    <3>1. WorkerKnows(t) /\ t \in Handler /\ t \notin Request
      BY MemberAssumption DEF MatchInv, Handler
    <3>2. hpc'[t] = (IF hpc[t] = "idle" THEN "idle" ELSE "done") /\ UNCHANGED <<now, paidOn>>
      BY <1>9, <3>1 DEF Crash
    <3> QED BY <3>1, <3>2 DEF WorkerKnows, Settling
  <2>2. ASSUME NEW r \in Request PROVE RequestKnows(r)'
    BY <1>9 DEF Crash, RequestKnows, Settling, Handler
  <2> QED BY <1>9, <2>1, <2>2 DEF Crash, MatchInv
<1> QED BY <1>1, <1>2, <1>3, <1>4, <1>5, <1>6, <1>7, <1>8, <1>9 DEF MNext, AdminStep

\* The variables of a member's payments always have their types, and whatever a
\* handler has read justifies what it is about to write.
THEOREM MatchCorrect == MSpec => [](MTypeOK /\ MatchInv)
<1>1. MInit => MTypeOK /\ MatchInv
  BY MTypeInit, MatchInit
<1>2. MTypeOK /\ MatchInv /\ [MNext]_mvars => (MTypeOK /\ MatchInv)'
  BY MTypeStep, MatchStep
<1> QED BY <1>1, <1>2, PTL DEF MSpec

-----------------------------------------------------------------------------
(***************************************************************************)
(* What is written in a record                                             *)
(***************************************************************************)

\* The only steps that touch a record: an insert, markPaid and the cron job.
LEMMA RecordSteps ==
  ASSUME MTypeOK, [MNext]_mvars
  PROVE  \/ \E h \in Handler : InsertRecord(h)
         \/ \E h \in Handler : MarkPaid(h)
         \/ MarkOverdue \/ GenerateForMonth
         \/ UNCHANGED recordVars
BY DEF MNext, WorkerStep, PersistTransaction, FindByName, RegisterName, FindMember,
       SettleStep, FindRecord, AdminStep, FindBySenderName, NextTransaction, LinkName,
       PayCash, ChangeMapping, SetActive, Tick, Crash, mvars, clockVars, recordVars, adminVars

\* A paid record stays paid and keeps who paid it, unless markPaid writes it again.
LEMMA PaidKept ==
  ASSUME MTypeOK, [MNext]_mvars, NEW m \in Member, NEW p \in Month,
         ~ \E h \in Handler : MarkPaid(h) /\ RecordOf(h) = <<m, p>>
  PROVE  /\ paidBy'[<<m, p>>] = paidBy[<<m, p>>]
         /\ status[<<m, p>>] \in Paid => status'[<<m, p>>] = status[<<m, p>>]
         /\ status'[<<m, p>>] \in Paid => status'[<<m, p>>] = status[<<m, p>>]
         /\ status[<<m, p>>] # "none" => status'[<<m, p>>] # "none"
<1> DEFINE q == <<m, p>>
<1>1. q \in Member \X Month
  OBVIOUS
<1>2. CASE \E h \in Handler : InsertRecord(h)
  BY <1>1, <1>2 DEF InsertRecord, MTypeOK, Paid
<1>3. ASSUME NEW h \in Handler, MarkPaid(h), RecordOf(h) # q
      PROVE  status'[q] = status[q] /\ paidBy'[q] = paidBy[q]
  BY <1>1, <1>3 DEF MarkPaid, MTypeOK, recordVars
<1>4. CASE MarkOverdue
  BY <1>1, <1>4 DEF MarkOverdue, MTypeOK, Paid
<1>5. CASE GenerateForMonth
  BY <1>1, <1>5 DEF GenerateForMonth, MTypeOK, Paid
<1>6. CASE UNCHANGED recordVars
  BY <1>6 DEF recordVars
<1> QED BY <1>2, <1>3, <1>4, <1>5, <1>6, RecordSteps

\* What markPaid writes.
LEMMA MarkPaidWrites ==
  ASSUME MTypeOK, NEW h \in Handler, MarkPaid(h), NEW m \in Member, NEW p \in Month,
         RecordOf(h) = <<m, p>>
  PROVE  /\ h \in Tx \/ h \in Request
         /\ target[h] \in [member : Member, on : Date]
         /\ target[h].member = m /\ target[h].on.month = p
         /\ \/ /\ status'[<<m, p>>] = PaidStatus(m, target[h].on)
               /\ paidBy'[<<m, p>>] = PaymentOf(h)
            \/ UNCHANGED recordVars
<1>1. target[h] \in [member : Member, on : Date]
  BY DEF MarkPaid, At, MTypeOK, Settling
<1>2. target[h].member = m /\ target[h].on.month = p
  BY DEF RecordOf
<1> QED BY <1>1, <1>2 DEF MarkPaid, MTypeOK, Handler

\* Every month paid stays paid, and no record disappears, whatever the handlers
\* and the cron job do to it (markOverdue, generateForMonth, markPaid).
THEOREM PaidStays == MSpec => PaidStaysPaid
<1>1. ASSUME MTypeOK, [MNext]_mvars, NEW r \in Member \X Month
      PROVE  /\ status[r] \in Paid => status'[r] \in Paid
             /\ status[r] # "none" => status'[r] # "none"
  <2>1. PICK m \in Member, p \in Month : r = <<m, p>>
    OBVIOUS
  <2>2. ASSUME NEW h \in Handler, MarkPaid(h), RecordOf(h) = r
        PROVE  status'[r] \in Paid \/ status'[r] = status[r]
    BY <1>1, <2>1, <2>2, MarkPaidWrites DEF PaidStatus, Paid, recordVars
  <2>3. CASE ~ \E h \in Handler : MarkPaid(h) /\ RecordOf(h) = r
    BY <1>1, <2>1, <2>3, PaidKept
  <2> QED BY <2>2, <2>3 DEF Paid
<1>2. MTypeOK /\ [MNext]_mvars =>
        [\A r \in Member \X Month :
           /\ status[r] \in Paid => status'[r] \in Paid
           /\ status[r] # "none" => status'[r] # "none"]_mvars
  BY <1>1
<1> QED BY <1>2, MatchCorrect, PTL DEF MSpec, PaidStaysPaid

\* The payment a handler is about to enter in a record may be entered there.
LEMMA WriterMayCredit ==
  ASSUME MTypeOK, MatchInv, NEW h \in Handler, MarkPaid(h), NEW t \in Tx, PaymentOf(h) = t
  PROVE  /\ MayCredit(t, target[h].member, target[h].on)
         /\ UNCHANGED <<paidOn, everLinked>>
<1>1. hpc[h] \in Settling /\ UNCHANGED <<paidOn, everLinked>>
  BY DEF MarkPaid, At, Settling, adminVars
<1>2. CASE h \in Tx
  BY <1>1, <1>2 DEF MatchInv, WorkerKnows, PaymentOf
<1>3. CASE h \in Request /\ h \notin Tx
  BY <1>1, <1>3 DEF MatchInv, RequestKnows, PaymentOf
<1> QED BY <1>1, <1>2, <1>3 DEF Handler

LEMMA CreditStep ==
  MTypeOK /\ MatchInv /\ CreditIsLegitimate /\ [MNext]_mvars => CreditIsLegitimate'
<1> SUFFICES ASSUME MTypeOK, MatchInv, CreditIsLegitimate, [MNext]_mvars,
                    NEW m \in Member, NEW p \in Month, NEW t \in Tx, paidBy'[<<m, p>>] = t
             PROVE  /\ <<NameOf[t], m>> \in everLinked'
                    /\ paidOn'[t] # NoDate /\ paidOn'[t].month <= p
  BY DEF CreditIsLegitimate
<1>1. Grows
  BY StepGrows
<1>2. CASE paidBy[<<m, p>>] = t
  BY <1>1, <1>2 DEF CreditIsLegitimate, Grows
<1>3. ASSUME NEW h \in Handler, MarkPaid(h), RecordOf(h) = <<m, p>>, paidBy[<<m, p>>] # t
      PROVE  /\ <<NameOf[t], m>> \in everLinked'
             /\ paidOn'[t] # NoDate /\ paidOn'[t].month <= p
  <2>1. PaymentOf(h) = t /\ target[h].member = m /\ target[h].on.month = p
    BY <1>3, MarkPaidWrites DEF recordVars
  <2>2. MayCredit(t, m, target[h].on) /\ UNCHANGED <<paidOn, everLinked>>
    BY <1>3, <2>1, WriterMayCredit
  <2>3. paidOn[t].month \in Nat /\ p \in Nat
    BY <2>2, DateNat DEF MayCredit, MTypeOK, Month
  <2> QED BY <2>1, <2>2, <2>3 DEF MayCredit, NotAfter
<1> QED BY <1>2, <1>3, PaidKept

\* A transaction pays only for a member its sender's name was linked to by hand,
\* and never for a month before it was made (Step 2.6, POST /:id/link).
THEOREM CreditCorrect == MSpec => []CreditIsLegitimate
<1>1. MInit => CreditIsLegitimate
  BY MemberAssumption DEF MInit, CreditIsLegitimate
<1> QED BY <1>1, CreditStep, MatchCorrect, PTL DEF MSpec

LEMMA OnTimeStep ==
  MTypeOK /\ MatchInv /\ CreditIsLegitimate /\ OnTimeIsOnTime /\ [MNext]_mvars
    => OnTimeIsOnTime'
<1> SUFFICES ASSUME MTypeOK, MatchInv, CreditIsLegitimate, OnTimeIsOnTime, [MNext]_mvars,
                    NEW m \in Member, NEW p \in Month, NEW t \in Tx,
                    paidBy'[<<m, p>>] = t, status'[<<m, p>>] = "paid_on_time"
             PROVE  NotAfter(paidOn'[t], [month |-> p, day |-> DueDay[m]])
  BY DEF OnTimeIsOnTime
<1>1. CASE paidBy[<<m, p>>] = t /\ status[<<m, p>>] = "paid_on_time"
  <2>1. paidOn'[t] = paidOn[t]
    BY <1>1, StepGrows DEF CreditIsLegitimate, Grows
  <2> QED BY <1>1, <2>1 DEF OnTimeIsOnTime
<1>2. ASSUME NEW h \in Handler, MarkPaid(h), RecordOf(h) = <<m, p>>,
             ~(paidBy[<<m, p>>] = t /\ status[<<m, p>>] = "paid_on_time")
      PROVE  NotAfter(paidOn'[t], [month |-> p, day |-> DueDay[m]])
  <2>1. /\ PaymentOf(h) = t /\ target[h].member = m /\ target[h].on.month = p
        /\ PaidStatus(m, target[h].on) = "paid_on_time" /\ target[h].on \in Date
    BY <1>2, MarkPaidWrites DEF recordVars
  <2>2. target[h].on.day <= DueDay[m]
    BY <2>1 DEF PaidStatus
  <2>3. MayCredit(t, m, target[h].on) /\ UNCHANGED paidOn
    BY <1>2, <2>1, WriterMayCredit
  <2>4. paidOn[t] \in Date /\ DueDay[m] \in Nat /\ p \in Nat
    BY <2>3, MemberAssumption DEF MayCredit, MTypeOK, Month
  <2> QED BY <2>1, <2>2, <2>3, <2>4, DateNat DEF MayCredit, NotAfter
<1>3. "paid_on_time" \in Paid
  BY DEF Paid
<1> QED BY <1>1, <1>2, <1>3, PaidKept

\* A month that a transaction has paid "on time" was paid by its due day, by
\* whichever clock the handler judged (Step 2.6, POST /:id/link).
THEOREM OnTimeCorrect == MSpec => []OnTimeIsOnTime
<1>1. MInit => OnTimeIsOnTime
  BY MemberAssumption DEF MInit, OnTimeIsOnTime
<1> QED BY <1>1, OnTimeStep, CreditCorrect, MatchCorrect, PTL DEF MSpec

-----------------------------------------------------------------------------
(***************************************************************************)
(* A month is closed once, on time                                         *)
(***************************************************************************)

\* Why record <<m, p>> may be pending although its month is over.
StillOpen(m, p) ==
  \/ cron = "overdue" /\ p = now.month - 1
  \/ \E h \in Handler : At(h, "pay") /\ RecordOf(h) = <<m, p>>
  \/ <<m, p>> \in unclosed

\* A handler that is about to pay a record stays there unless it moves itself or
\* the process dies.
LEMMA AboutToPayKept ==
  ASSUME MTypeOK, NEW m \in Member, NEW p \in Month, NEW g \in Handler,
         ~At(g, "pay") \/ RecordOf(g) # <<m, p>>,
         \A h \in Handler : h # g => UNCHANGED <<hpc[h], target[h]>>,
         \E h \in Handler : At(h, "pay") /\ RecordOf(h) = <<m, p>>
  PROVE  \E h \in Handler : (At(h, "pay") /\ RecordOf(h) = <<m, p>>)'
BY DEF At, RecordOf

\* Only the handler that takes a step moves.
LEMMA OthersStay ==
  ASSUME MTypeOK, NEW h \in Handler,
         SettleStep(h) \/ (h \in Tx /\ WorkerStep(h))
           \/ (h \in Request /\ (FindBySenderName(h) \/ NextTransaction(h)))
  PROVE  \A g \in Handler : g # h => UNCHANGED <<hpc[g], target[g]>>
<1>1. ASSUME Finish(h) PROVE \A g \in Handler : g # h => UNCHANGED <<hpc[g], target[g]>>
  BY <1>1 DEF Finish, MTypeOK
<1>2. ASSUME NEW to, GoOn(h, to)
      PROVE  \A g \in Handler : g # h => UNCHANGED <<hpc[g], target[g]>>
  BY <1>2 DEF GoOn, MTypeOK
<1>3. ASSUME AfterRecord(h) PROVE \A g \in Handler : g # h => UNCHANGED <<hpc[g], target[g]>>
  BY <1>1, <1>2, <1>3 DEF AfterRecord
<1>4. CASE SettleStep(h)
  BY <1>2, <1>3, <1>4 DEF SettleStep, FindRecord, InsertRecord, MarkPaid
<1>5. CASE h \in Tx /\ WorkerStep(h)
  BY <1>1, <1>2, <1>5 DEF WorkerStep, PersistTransaction, FindByName, RegisterName, FindMember, MTypeOK
<1>6. CASE h \in Request /\ (FindBySenderName(h) \/ NextTransaction(h))
  BY <1>1, <1>6 DEF FindBySenderName, NextTransaction, MTypeOK
<1> QED BY <1>4, <1>5, <1>6

LEMMA MonthsStep == MTypeOK /\ MonthsCloseOnTime /\ [MNext]_mvars => MonthsCloseOnTime'
<1> SUFFICES ASSUME MTypeOK, MonthsCloseOnTime, [MNext]_mvars, NEW m \in Member, NEW p \in Month
             PROVE  /\ status'[<<m, p>>] = "overdue" => p < now'.month
                    /\ status'[<<m, p>>] = "pending" /\ p < now'.month => StillOpen(m, p)'
  BY DEF MonthsCloseOnTime, StillOpen, At, RecordOf
<1> DEFINE q == <<m, p>>
           Goal == /\ status'[q] = "overdue" => p < now'.month
                   /\ status'[q] = "pending" /\ p < now'.month => StillOpen(m, p)'
<1>0. /\ q \in Member \X Month /\ p \in Nat /\ now.month \in Nat
      /\ status[q] = "overdue" => p < now.month
      /\ status[q] = "pending" /\ p < now.month => StillOpen(m, p)
  BY DEF MonthsCloseOnTime, StillOpen, MTypeOK, Date, Month
<1> USE DEF clockVars, recordVars, handlerVars, adminVars, failedVars
\* A handler that pays nothing leaves the month's records as open as they were.
<1>1. ASSUME NEW g \in Handler, ~At(g, "pay"), UNCHANGED <<clockVars, recordVars>>,
             \A h \in Handler : h # g => UNCHANGED <<hpc[h], target[h]>>,
             unclosed \subseteq unclosed'
      PROVE  Goal
  BY <1>0, <1>1, AboutToPayKept DEF StillOpen
<1>2. ASSUME NEW t \in Tx, WorkerStep(t) PROVE Goal
  <2>1. t \in Handler /\ ~At(t, "pay")
    BY <1>2 DEF Handler, At, WorkerStep, PersistTransaction, FindByName, RegisterName, FindMember
  <2>2. UNCHANGED <<clockVars, recordVars, unclosed>>
    BY <1>2 DEF WorkerStep, PersistTransaction, FindByName, RegisterName, FindMember
  <2>3. \A h \in Handler : h # t => UNCHANGED <<hpc[h], target[h]>>
    BY <1>2, <2>1, OthersStay
  <2> QED BY <1>1, <2>1, <2>2, <2>3
<1>3. ASSUME NEW h \in Handler, SettleStep(h) PROVE Goal
  <2>0. \A g \in Handler : g # h => UNCHANGED <<hpc[g], target[g]>>
    BY <1>3, OthersStay
  <2>1. CASE FindRecord(h)
    BY <1>1, <2>0, <2>1 DEF FindRecord, At
  <2>2. CASE InsertRecord(h)
    <3>0. ~At(h, "pay") /\ UNCHANGED clockVars /\ unclosed \subseteq unclosed'
      BY <2>2 DEF InsertRecord, At
    <3>1. CASE RecordOf(h) = q /\ status[q] = "none"
      <4>1. status'[q] = "none" \/ status'[q] = "pending"
        BY <1>0, <2>2, <3>1 DEF InsertRecord, MTypeOK
      <4>2. CASE q \in unclosed' \/ status'[q] = "none"
        BY <4>1, <4>2 DEF StillOpen
      <4>3. CASE q \notin unclosed' /\ status'[q] = "pending"
        <5>1. GoOn(h, "pay")
          BY <2>2, <3>1, <4>3 DEF InsertRecord
        <5>2. At(h, "pay")' /\ RecordOf(h)' = q
          BY <3>1, <5>1 DEF GoOn, At, RecordOf, MTypeOK
        <5> QED BY <4>3, <5>2 DEF StillOpen
      <4> QED BY <4>1, <4>2, <4>3
    <3>2. CASE ~(RecordOf(h) = q /\ status[q] = "none")
      <4>1. status'[q] = status[q]
        BY <1>0, <2>2, <3>2 DEF InsertRecord, MTypeOK
      <4> QED BY <1>0, <2>0, <3>0, <4>1, AboutToPayKept DEF StillOpen
    <3> QED BY <3>1, <3>2
  <2>3. CASE MarkPaid(h)
    <3>1. CASE RecordOf(h) = q
      <4>1. CASE status'[q] = PaidStatus(target[h].member, target[h].on)
        BY <4>1 DEF PaidStatus
      <4>2. CASE LeaveOpen({q}) /\ UNCHANGED recordVars
        <5>1. status[q] = "pending" => q \in unclosed'
          BY <1>0, <4>2 DEF LeaveOpen
        <5> QED BY <1>0, <2>3, <4>2, <5>1 DEF StillOpen, MarkPaid
      <4> QED BY <1>0, <2>3, <3>1, <4>1, <4>2 DEF MarkPaid, MTypeOK
    <3>2. CASE RecordOf(h) # q
      <4>1. status'[q] = status[q] /\ UNCHANGED clockVars
        BY <1>0, <2>3, <3>2 DEF MarkPaid, MTypeOK
      <4>2. q \in unclosed => q \in unclosed'
        BY <2>3, <3>2 DEF MarkPaid, LeaveOpen
      <4> QED BY <1>0, <2>0, <3>2, <4>1, <4>2, AboutToPayKept DEF StillOpen
    <3> QED BY <3>1, <3>2
  <2> QED BY <1>3, <2>1, <2>2, <2>3 DEF SettleStep
<1>4. ASSUME NEW r \in Request, FindBySenderName(r) \/ NextTransaction(r) PROVE Goal
  <2>1. r \in Handler /\ ~At(r, "pay") /\ UNCHANGED <<clockVars, recordVars, unclosed>>
    BY <1>4 DEF Handler, FindBySenderName, NextTransaction, At
  <2>2. \A h \in Handler : h # r => UNCHANGED <<hpc[h], target[h]>>
    BY <1>4, <2>1, OthersStay
  <2> QED BY <1>1, <2>1, <2>2
<1>5. ASSUME NEW r \in Request, NEW k \in Member,
             (\E n \in Name : LinkName(r, n, k)) \/ (\E o \in Month : PayCash(r, k, o))
      PROVE  Goal
  <2>1. r \in Handler /\ ~At(r, "pay") /\ UNCHANGED <<clockVars, recordVars, unclosed>>
    BY <1>5 DEF Handler, LinkName, PayCash, At
  <2>2. \A h \in Handler : h # r => UNCHANGED <<hpc[h], target[h]>>
    BY <1>5 DEF LinkName, PayCash, MTypeOK
  <2> QED BY <1>1, <2>1, <2>2
<1>6. ASSUME UNCHANGED <<clockVars, recordVars, hpc, target, unclosed>> PROVE Goal
  BY <1>0, <1>6 DEF StillOpen, At, RecordOf
<1>7. CASE \/ \E n \in Name : ChangeMapping(n)
           \/ \E k \in Member : SetActive(k)
           \/ UNCHANGED mvars
  BY <1>6, <1>7 DEF ChangeMapping, SetActive, mvars
<1>8. CASE Tick
  <2>0. UNCHANGED <<status, hpc, target>>
    BY <1>8 DEF Tick
  <2>1. CASE now' = [now EXCEPT !.day = @ + 1] /\ UNCHANGED <<cron, unclosed>>
    <3>1. now'.month = now.month
      BY <2>1 DEF MTypeOK, Date
    <3> QED BY <1>0, <2>0, <2>1, <3>1 DEF StillOpen, At, RecordOf
  <2>2. CASE cron = "idle" /\ now' = [month |-> now.month + 1, day |-> 1]
    <3>1. now'.month = now.month + 1 /\ cron # "overdue" /\ unclosed \subseteq unclosed'
      BY <1>8, <2>2 DEF Tick, LeaveOpen, MTypeOK, Date
    <3>2. CASE p < now.month
      BY <1>0, <2>0, <3>1, <3>2 DEF StillOpen, At, RecordOf
    <3>3. CASE p = now.month /\ status[q] = "pending"
      <4>1. cron' = "overdue" \/ q \in unclosed'
        BY <1>8, <1>0, <2>2, <3>1, <3>3 DEF Tick, LeaveOpen, MTypeOK, Date
      <4> QED BY <1>0, <2>0, <3>1, <3>3, <4>1 DEF StillOpen
    <3> QED BY <1>0, <2>0, <3>1, <3>2, <3>3
  <2> QED BY <1>8, <2>1, <2>2 DEF Tick
<1>9. CASE MarkOverdue
  <2>0. UNCHANGED <<now, hpc, target>>
    BY <1>9 DEF MarkOverdue
  <2>1. CASE /\ status' = [r \in Member \X Month |->
                  IF r[2] = now.month - 1 /\ status[r] = "pending" THEN "overdue" ELSE status[r]]
             /\ unclosed' = {r \in unclosed : r[2] # now.month - 1}
    <3>1. q \in unclosed /\ p # now.month - 1 => q \in unclosed'
      BY <2>1
    <3>2. status'[q] = IF p = now.month - 1 /\ status[q] = "pending" THEN "overdue" ELSE status[q]
      BY <1>0, <2>1
    <3> QED BY <1>0, <2>0, <3>1, <3>2 DEF StillOpen, At, RecordOf
  <2>2. CASE LeaveOpen(Member \X {now.month - 1}) /\ UNCHANGED status
    <3>1. p = now.month - 1 /\ status[q] = "pending" => q \in unclosed'
      BY <1>0, <2>2 DEF LeaveOpen
    <3>2. unclosed \subseteq unclosed'
      BY <2>2 DEF LeaveOpen
    <3> QED BY <1>0, <2>0, <2>2, <3>1, <3>2 DEF StillOpen, At, RecordOf
  <2> QED BY <1>9, <2>1, <2>2 DEF MarkOverdue
<1>10. CASE GenerateForMonth
  <2>1. status'[q] = status[q] \/ (p = now.month /\ status'[q] = "pending")
    BY <1>0, <1>10 DEF GenerateForMonth, MTypeOK
  <2>2. cron # "overdue" /\ UNCHANGED <<now, hpc, target, unclosed>>
    BY <1>10 DEF GenerateForMonth
  <2> QED BY <1>0, <2>1, <2>2 DEF StillOpen, At, RecordOf
<1>11. CASE Crash
  <2>0. UNCHANGED <<now, status>> /\ unclosed \subseteq unclosed'
    BY <1>11 DEF Crash, LeaveOpen
  <2>1. ASSUME status[q] = "pending", cron = "overdue", p = now.month - 1 PROVE q \in unclosed'
    BY <1>0, <1>11, <2>1 DEF Crash, LeaveOpen
  <2>2. ASSUME status[q] = "pending", NEW h \in Handler, At(h, "pay"), RecordOf(h) = q
        PROVE  q \in unclosed'
    BY <1>0, <1>11, <2>2 DEF Crash, LeaveOpen
  <2> QED BY <1>0, <2>0, <2>1, <2>2 DEF StillOpen
<1>12. CASE AdminStep
  <2>1. CASE \E r \in Request : FindBySenderName(r) \/ NextTransaction(r)
    BY <1>4, <2>1
  <2>2. CASE \E r \in Request, k \in Member :
               (\E n \in Name : LinkName(r, n, k)) \/ (\E o \in Month : PayCash(r, k, o))
    BY <1>5, <2>2
  <2>3. CASE (\E n \in Name : ChangeMapping(n)) \/ (\E k \in Member : SetActive(k))
    BY <1>7, <2>3
  <2> QED BY <1>12, <2>1, <2>2, <2>3 DEF AdminStep
<1>13. CASE UNCHANGED mvars
  BY <1>7, <1>13
<1> QED BY <1>2, <1>3, <1>8, <1>9, <1>10, <1>11, <1>12, <1>13 DEF MNext

\* The monthly run closes a month once, on time: what it leaves pending is about to
\* be paid or a named failure left it there (scheduler.ts, generateMonthlyRecords).
THEOREM MonthsCorrect == MSpec => []MonthsCloseOnTime
<1>1. MInit => MonthsCloseOnTime
  BY DEF MInit, MonthsCloseOnTime, Month
<1> QED BY <1>1, MonthsStep, MatchCorrect, PTL DEF MSpec

-----------------------------------------------------------------------------
(***************************************************************************)
(* No payment slips between the worker and a link request                  *)
(***************************************************************************)

\* A payment whose name is linked to m is taken care of.
Settled(t, m) ==
  \E p \in Month : paidOn[t].month <= p /\ status[<<m, p>>] \in Paid \cup {"overdue"}

CaredFor(t, m) == UnderWay(t, m) \/ t \in dropped \/ Settled(t, m)

\* A record that is paid or overdue never becomes anything else.
LEMMA SettledKept ==
  ASSUME MTypeOK, MatchInv, [MNext]_mvars, NEW t \in Tx, NEW m \in Member,
         paidOn[t] # NoDate, Settled(t, m)
  PROVE  Settled(t, m)'
<1>1. PICK p \in Month : paidOn[t].month <= p /\ status[<<m, p>>] \in Paid \cup {"overdue"}
  BY DEF Settled
<1>2. paidOn'[t] = paidOn[t]
  BY StepGrows DEF Grows
<1>3. status'[<<m, p>>] \in Paid \cup {"overdue"}
  <2>0. <<m, p>> \in Member \X Month
    OBVIOUS
  <2>1. CASE \E h \in Handler : InsertRecord(h)
    BY <1>1, <2>0, <2>1 DEF InsertRecord, MTypeOK, Paid
  <2>2. ASSUME NEW h \in Handler, MarkPaid(h) PROVE status'[<<m, p>>] \in Paid \cup {"overdue"}
    BY <1>1, <2>0, <2>2 DEF MarkPaid, MTypeOK, PaidStatus, Paid, recordVars
  <2>3. CASE MarkOverdue
    BY <1>1, <2>0, <2>3 DEF MarkOverdue
  <2>4. CASE GenerateForMonth
    BY <1>1, <2>0, <2>4 DEF GenerateForMonth, Paid
  <2>5. CASE UNCHANGED recordVars
    BY <1>1, <2>5 DEF recordVars
  <2> QED BY <2>1, <2>2, <2>3, <2>4, <2>5, RecordSteps
<1> QED BY <1>1, <1>2, <1>3 DEF Settled

\* What handler h does for payment t of m.
Does(h, t, m) ==
  \/ h = t /\ (hpc[t] = "lookup" \/ (hpc[t] \in {"member"} \cup Settling /\ target[t].member = m))
  \/ /\ h \in Request /\ target[h].member = m
     /\ t \in todo[h] \/ (current[h] = t /\ hpc[h] \in Settling)

LEMMA UnderWayDoes ==
  ASSUME NEW t \in Tx, NEW m PROVE UnderWay(t, m) <=> \E h \in Handler : Does(h, t, m)
BY DEF UnderWay, Does, Handler

\* A step of handler h leaves the payments of the others cared for.
LEMMA OthersCare ==
  ASSUME MTypeOK, NEW h \in Handler, NEW t \in Tx, NEW m \in Member,
         UnderWay(t, m), ~Does(h, t, m),
         \A g \in Handler : g # h => UNCHANGED <<hpc[g], target[g]>>,
         \A g \in Request : g # h => UNCHANGED <<current[g], todo[g]>>
  PROVE  UnderWay(t, m)'
<1>1. PICK g \in Handler : Does(g, t, m)
  BY UnderWayDoes
<1>2. g # h
  BY <1>1
<1>3. CASE g = t
  BY <1>1, <1>2, <1>3 DEF Does, UnderWay
<1>4. CASE g \in Request
  BY <1>1, <1>2, <1>4 DEF Does, UnderWay
<1> QED BY <1>1, <1>3, <1>4 DEF Does

LEMMA LocalsStay ==
  ASSUME MTypeOK, NEW h \in Handler,
         SettleStep(h) \/ (h \in Tx /\ WorkerStep(h))
           \/ (h \in Request /\ (FindBySenderName(h) \/ NextTransaction(h)))
  PROVE  \A g \in Request : g # h => UNCHANGED <<current[g], todo[g]>>
<1>1. ASSUME Finish(h) PROVE \A g \in Request : g # h => UNCHANGED <<current[g], todo[g]>>
  BY <1>1 DEF Finish, MTypeOK
<1>2. ASSUME NEW to, GoOn(h, to) PROVE UNCHANGED <<current, todo>>
  BY <1>2 DEF GoOn
<1>3. ASSUME AfterRecord(h) PROVE \A g \in Request : g # h => UNCHANGED <<current[g], todo[g]>>
  BY <1>1, <1>2, <1>3 DEF AfterRecord
<1>4. CASE SettleStep(h)
  BY <1>2, <1>3, <1>4 DEF SettleStep, FindRecord, InsertRecord, MarkPaid
<1>5. CASE h \in Tx /\ WorkerStep(h)
  BY <1>1, <1>2, <1>5 DEF WorkerStep, PersistTransaction, FindByName, RegisterName, FindMember
<1>6. CASE h \in Request /\ (FindBySenderName(h) \/ NextTransaction(h))
  BY <1>1, <1>6 DEF FindBySenderName, NextTransaction, MTypeOK
<1> QED BY <1>4, <1>5, <1>6

\* Once the attempt for one record is over, a link request still has its other
\* payments to do.
LEMMA AfterRecordCares ==
  ASSUME MTypeOK, MatchInv, NEW h \in Handler, hpc[h] \in Settling, AfterRecord(h),
         NEW t \in Tx, NEW m \in Member, Does(h, t, m)
  PROVE  UnderWay(t, m)' \/ (PaymentOf(h) = t /\ target[h].member = m)
<1>1. CASE h = t
  BY <1>1 DEF Does, Settling, PaymentOf, Handler
<1>2. CASE h \in Request /\ h # t /\ current[h] = t
  BY <1>2, MemberAssumption DEF Does, PaymentOf
<1>3. CASE h \in Request /\ h # t /\ current[h] # t
  <2>1. t \in todo[h] /\ target[h].member = m /\ h \notin Tx
    BY <1>3, MemberAssumption DEF Does
  <2>2. CASE GoOn(h, "next")
    BY <1>3, <2>1, <2>2 DEF GoOn, UnderWay
  <2>3. CASE current[h] = Cash
    BY <1>3, <2>1, <2>3 DEF MatchInv, RequestKnows
  <2> QED BY <2>1, <2>2, <2>3 DEF AfterRecord
<1> QED BY <1>1, <1>2, <1>3 DEF Does

LEMMA LinkedStep ==
  MTypeOK /\ MatchInv /\ LinkedPaymentIsCredited /\ [MNext]_mvars => LinkedPaymentIsCredited'
<1> SUFFICES ASSUME MTypeOK, MatchInv, LinkedPaymentIsCredited, [MNext]_mvars,
                    NEW t \in Tx, NEW m \in Member,
                    paidOn'[t] # NoDate, mapping'[NameOf[t]] = m
             PROVE  CaredFor(t, m)'
  BY DEF LinkedPaymentIsCredited, CaredFor, Settled
<1> USE DEF clockVars, recordVars, handlerVars, adminVars, failedVars
<1> DEFINE n == NameOf[t]
<1>0. n \in Name /\ m \notin Unlinked
  BY MemberAssumption
<1>a. paidOn[t] # NoDate /\ mapping[n] = m => CaredFor(t, m)
  BY DEF LinkedPaymentIsCredited, CaredFor, Settled
<1>b. paidOn[t] # NoDate /\ Settled(t, m) => Settled(t, m)'
  BY SettledKept
\* A handler's step, when what it does itself for t stays cared for.
<1>1. ASSUME NEW h \in Handler, paidOn[t] # NoDate, mapping[n] = m,
             \A g \in Handler : g # h => UNCHANGED <<hpc[g], target[g]>>,
             \A g \in Request : g # h => UNCHANGED <<current[g], todo[g]>>,
             t \in dropped => t \in dropped',
             Does(h, t, m) => CaredFor(t, m)'
      PROVE  CaredFor(t, m)'
  BY <1>a, <1>b, <1>1, OthersCare DEF CaredFor
<1>2. ASSUME NEW u \in Tx, WorkerStep(u) PROVE CaredFor(t, m)'
  <2>0. /\ u \in Handler
        /\ \A g \in Handler : g # u => UNCHANGED <<hpc[g], target[g]>>
        /\ \A g \in Request : g # u => UNCHANGED <<current[g], todo[g]>>
        /\ u \notin Request
    BY <1>2, OthersStay, LocalsStay, MemberAssumption DEF Handler
  <2>1. CASE PersistTransaction(u)
    <3>1. CASE u = t
      <4>1. hpc'[t] = "lookup"
        BY <2>0, <2>1, <3>1 DEF PersistTransaction, GoOn, MTypeOK
      <4> QED BY <4>1 DEF CaredFor, UnderWay
    <3>2. CASE u # t
      <4>1. paidOn'[t] = paidOn[t] /\ UNCHANGED <<mapping, dropped>>
        BY <2>1, <3>2 DEF PersistTransaction, MTypeOK
      <4> QED BY <1>1, <2>0, <3>2, <4>1 DEF Does
    <3> QED BY <3>1, <3>2
  <2>2. CASE FindByName(u)
    <3>0. UNCHANGED <<paidOn, mapping>> /\ paidOn[t] # NoDate /\ mapping[n] = m
          /\ (t \in dropped => t \in dropped')
      BY <2>2 DEF FindByName, GiveUp
    <3>1. ASSUME u = t PROVE CaredFor(t, m)'
      <4>1. CASE hpc'[t] = "member" /\ target'[t].member = m
        BY <4>1 DEF CaredFor, UnderWay
      <4>2. CASE GiveUp({t}, m)
        BY <3>0, <4>2 DEF CaredFor, GiveUp
      <4> QED BY <1>0, <2>0, <2>2, <3>0, <3>1, <4>1, <4>2
              DEF FindByName, Unlinked, MTypeOK, Target
    <3> QED BY <1>1, <2>0, <3>0, <3>1 DEF Does
  <2>3. CASE RegisterName(u)
    <3>1. UNCHANGED <<paidOn, dropped>> /\ hpc[u] = "register"
      BY <2>3 DEF RegisterName, At
    <3>2. mapping[n] = m
      BY <1>0, <2>3 DEF RegisterName, MTypeOK, Unlinked
    <3> QED BY <1>1, <2>0, <3>1, <3>2 DEF Does, Settling
  <2>4. CASE FindMember(u)
    <3>0. UNCHANGED <<paidOn, mapping>> /\ paidOn[t] # NoDate /\ mapping[n] = m
          /\ (t \in dropped => t \in dropped') /\ hpc[u] = "member"
      BY <2>4 DEF FindMember, Drop, GiveUp, At
    <3>1. ASSUME Does(u, t, m) PROVE CaredFor(t, m)'
      <4>1. u = t /\ target[t].member = m
        BY <2>0, <3>0, <3>1 DEF Does
      <4>2. CASE hpc'[t] = "find" /\ target'[t].member = m
        BY <4>2 DEF CaredFor, UnderWay, Settling
      <4>3. CASE Drop(u)
        <5>1. PaymentOf(u) = t
          BY <4>1 DEF PaymentOf
        <5> QED BY <3>0, <4>1, <4>3, <5>1 DEF CaredFor, Drop, GiveUp
      <4> QED BY <2>0, <2>4, <4>1, <4>2, <4>3 DEF FindMember, MTypeOK, Target
    <3> QED BY <1>1, <2>0, <3>0, <3>1
  <2> QED BY <1>2, <2>1, <2>2, <2>3, <2>4 DEF WorkerStep
<1>3. ASSUME NEW h \in Handler, SettleStep(h) PROVE CaredFor(t, m)'
  <2>0. /\ \A g \in Handler : g # h => UNCHANGED <<hpc[g], target[g]>>
        /\ \A g \in Request : g # h => UNCHANGED <<current[g], todo[g]>>
    BY <1>3, OthersStay, LocalsStay
  <2>1. UNCHANGED <<paidOn, mapping>> /\ paidOn[t] # NoDate /\ mapping[n] = m
        /\ (t \in dropped => t \in dropped') /\ hpc[h] \in Settling
    BY <1>3 DEF SettleStep, FindRecord, InsertRecord, MarkPaid, Drop, GiveUp, At, Settling
  <2>2. ASSUME Does(h, t, m) PROVE CaredFor(t, m)'
    <3>1. CASE \E to \in Settling : GoOn(h, to)
      <4>1. PICK to \in Settling : GoOn(h, to)
        BY <3>1
      <4>a. hpc'[h] \in Settling /\ UNCHANGED <<target, current, todo>>
        BY <4>1 DEF GoOn, MTypeOK
      <4>2. Does(h, t, m)'
        <5>1. CASE h = t /\ target[t].member = m
          BY <4>a, <5>1 DEF Does
        <5>2. CASE h \in Request /\ target[h].member = m
                   /\ (t \in todo[h] \/ (current[h] = t /\ hpc[h] \in Settling))
          BY <4>a, <5>2 DEF Does
        <5> QED BY <2>1, <2>2, <5>1, <5>2 DEF Does, Settling
      <4> QED BY <4>2, UnderWayDoes DEF CaredFor, UnderWay, Does
    <3>2. CASE AfterRecord(h) /\ ~(PaymentOf(h) = t /\ target[h].member = m)
      BY <2>1, <2>2, <3>2, AfterRecordCares DEF CaredFor
    <3>3. CASE AfterRecord(h) /\ PaymentOf(h) = t /\ target[h].member = m
      <4>1. MayCredit(t, m, target[h].on) /\ target[h] \in [member : Member, on : Date]
        <5>1. CASE h \in Tx
          BY <2>1, <3>3, <5>1 DEF MatchInv, WorkerKnows, PaymentOf, MTypeOK
        <5>2. CASE h \in Request /\ h \notin Tx
          BY <2>1, <3>3, <5>2 DEF MatchInv, RequestKnows, PaymentOf, MTypeOK
        <5> QED BY <5>1, <5>2 DEF Handler
      <4> DEFINE p == target[h].on.month
      <4>2. p \in Month /\ RecordOf(h) = <<m, p>> /\ paidOn'[t].month <= p
        <5>1. paidOn[t].month \in Nat /\ p \in Nat /\ p \in Month
          BY <2>1, <4>1, DateNat DEF MTypeOK, Date
        <5> QED BY <2>1, <3>3, <4>1, <5>1 DEF MayCredit, NotAfter, RecordOf
      <4>3. CASE Drop(h)
        BY <2>1, <3>3, <4>3 DEF CaredFor, Drop, GiveUp
      <4>4. CASE status'[<<m, p>>] \in Paid \cup {"overdue"}
        BY <4>2, <4>4 DEF CaredFor, Settled
      <4>5. Drop(h) \/ status'[<<m, p>>] \in Paid \cup {"overdue"}
        <5>0. <<m, p>> \in Member \X Month /\ status[<<m, p>>] \in {"none", "pending", "overdue"} \cup Paid
          BY <4>2 DEF MTypeOK
        <5>1. CASE FindRecord(h)
          BY <2>0, <3>3, <4>2, <5>0, <5>1, <2>1
             DEF FindRecord, GoOn, AfterRecord, Finish, At, MTypeOK
        <5>2. CASE InsertRecord(h)
          BY <3>3, <4>2, <5>0, <5>2 DEF InsertRecord, GoOn, AfterRecord, Finish, At, MTypeOK
        <5>3. CASE MarkPaid(h)
          BY <4>2, <5>0, <5>3 DEF MarkPaid, MTypeOK, PaidStatus, Paid
        <5> QED BY <1>3, <5>1, <5>2, <5>3 DEF SettleStep
      <4> QED BY <4>3, <4>4, <4>5
    <3>4. (\E to \in Settling : GoOn(h, to)) \/ AfterRecord(h)
      BY <1>3 DEF SettleStep, FindRecord, InsertRecord, MarkPaid, Settling
    <3> QED BY <3>1, <3>2, <3>3, <3>4
  <2> QED BY <1>1, <2>0, <2>1, <2>2
<1>4. ASSUME NEW r \in Request, FindBySenderName(r) \/ NextTransaction(r)
      PROVE  CaredFor(t, m)'
  <2>0. /\ r \in Handler
        /\ \A g \in Handler : g # r => UNCHANGED <<hpc[g], target[g]>>
        /\ \A g \in Request : g # r => UNCHANGED <<current[g], todo[g]>>
        /\ r \notin Tx
    BY <1>4, OthersStay, LocalsStay, MemberAssumption DEF Handler
  <2>1. UNCHANGED <<paidOn, mapping>> /\ paidOn[t] # NoDate /\ mapping[n] = m
        /\ (t \in dropped => t \in dropped') /\ hpc[r] \in {"scan", "next"}
    BY <1>4 DEF FindBySenderName, NextTransaction, GiveUp, At
  <2>2. ASSUME Does(r, t, m) PROVE CaredFor(t, m)'
    <3>1. t \in todo[r] /\ target[r].member = m
      BY <2>0, <2>1, <2>2 DEF Does, Settling
    <3>2. CASE t \in todo'[r] /\ target'[r].member = m
      BY <3>2 DEF CaredFor, UnderWay
    <3>3. CASE hpc'[r] = "find" /\ current'[r] = t /\ target'[r].member = m
      BY <3>3 DEF CaredFor, UnderWay, Settling
    <3>4. CASE GiveUp(todo[r], target[r].member)
      BY <2>1, <3>1, <3>4 DEF CaredFor, GiveUp
    <3>5. CASE FindBySenderName(r)
      BY <2>1, <3>1, <3>2, <3>4, <3>5 DEF FindBySenderName, MTypeOK
    <3>6. CASE NextTransaction(r)
      <4>1. PICK u \in todo[r] :
              /\ hpc' = [hpc EXCEPT ![r] = "find"]
              /\ target' = [target EXCEPT ![r].on = paidOn[u]]
              /\ current' = [current EXCEPT ![r] = u]
              /\ todo' = [todo EXCEPT ![r] = @ \ {u}]
        BY <3>1, <3>6 DEF NextTransaction
      <4>2. target'[r].member = m
        BY <2>0, <3>1, <4>1 DEF MTypeOK, Target
      <4> QED BY <2>0, <3>1, <3>2, <3>3, <4>1, <4>2 DEF MTypeOK
    <3> QED BY <1>4, <3>5, <3>6
  <2> QED BY <1>1, <2>0, <2>1, <2>2
<1>5. ASSUME NEW r \in Request, NEW k \in Name, NEW j \in Member, LinkName(r, k, j)
      PROVE  CaredFor(t, m)'
  <2>0. /\ r \in Handler /\ r \notin Tx /\ hpc[r] = "idle" /\ todo[r] = {}
        /\ \A g \in Handler : g # r => UNCHANGED <<hpc[g], target[g]>>
        /\ \A g \in Request : g # r => UNCHANGED <<current[g], todo[g]>>
        /\ UNCHANGED paidOn
    BY <1>5, MemberAssumption DEF LinkName, At, Handler, MTypeOK, MatchInv, RequestKnows
  <2>1. CASE n = k
    <3>1. j = m
      BY <1>0, <1>5, <2>1 DEF LinkName, MTypeOK
    <3>2. CASE t \in todo'[r] /\ target'[r].member = m
      BY <3>2 DEF CaredFor, UnderWay
    <3>3. CASE t \in dropped'
      BY <3>3 DEF CaredFor
    <3> QED BY <1>5, <2>0, <2>1, <3>1, <3>2, <3>3 DEF LinkName, MTypeOK, Target
  <2>2. CASE n # k
    <3>1. mapping[n] = m /\ (t \in dropped => t \in dropped')
      BY <1>0, <1>5, <2>2 DEF LinkName, MTypeOK
    <3> QED BY <1>1, <2>0, <3>1, MemberAssumption DEF Does, Settling
  <2> QED BY <2>1, <2>2
<1>6. ASSUME NEW r \in Request, NEW j \in Member, NEW p \in Month, PayCash(r, j, p)
      PROVE  CaredFor(t, m)'
  <2>0. /\ r \in Handler /\ r \notin Tx /\ hpc[r] = "idle" /\ todo[r] = {}
        /\ \A g \in Handler : g # r => UNCHANGED <<hpc[g], target[g]>>
        /\ \A g \in Request : g # r => UNCHANGED <<current[g], todo[g]>>
        /\ UNCHANGED <<paidOn, mapping, dropped>>
    BY <1>6, MemberAssumption DEF PayCash, At, Handler, MTypeOK, MatchInv, RequestKnows
  <2> QED BY <1>1, <2>0, MemberAssumption DEF Does, Settling
\* The steps that move no handler.
<1>7. ASSUME UNCHANGED <<paidOn, handlerVars>>, mapping[n] = m, t \in dropped => t \in dropped'
      PROVE  CaredFor(t, m)'
  BY <1>a, <1>b, <1>7 DEF CaredFor, UnderWay
<1>8. ASSUME NEW k \in Name, ChangeMapping(k) PROVE CaredFor(t, m)'
  <2>1. n # k
    BY <1>0, <1>8 DEF ChangeMapping, MTypeOK
  <2>2. mapping[n] = m /\ (t \in dropped => t \in dropped')
    BY <1>0, <1>8, <2>1 DEF ChangeMapping, MTypeOK
  <2> QED BY <1>7, <1>8, <2>2 DEF ChangeMapping
<1>9. CASE \/ \E k \in Member : SetActive(k)
           \/ Tick \/ MarkOverdue \/ GenerateForMonth \/ UNCHANGED mvars
  BY <1>7, <1>9 DEF SetActive, Tick, MarkOverdue, GenerateForMonth, mvars
<1>10. CASE Crash
  <2>1. UNCHANGED <<paidOn, mapping>> /\ paidOn[t] # NoDate /\ mapping[n] = m
        /\ (t \in dropped => t \in dropped')
    BY <1>10 DEF Crash
  <2>2. UnderWay(t, m) => t \in dropped'
    BY <1>10, <2>1 DEF Crash
  <2> QED BY <1>a, <1>b, <2>1, <2>2 DEF CaredFor
<1>11. CASE AdminStep
  BY <1>4, <1>5, <1>6, <1>8, <1>9, <1>11 DEF AdminStep
<1> QED BY <1>2, <1>3, <1>9, <1>10, <1>11 DEF MNext

\* A payment whose name is linked is being worked on, has paid a month, or was
\* lost by a named failure: the row is written before the mapping is read, and the
\* mapping before the rows (Step 2.6, POST /:id/link).
THEOREM LinkedCorrect == MSpec => []LinkedPaymentIsCredited
<1>1. MInit => LinkedPaymentIsCredited
  BY DEF MInit, LinkedPaymentIsCredited
<1> QED BY <1>1, LinkedStep, MatchCorrect, PTL DEF MSpec
=============================================================================
