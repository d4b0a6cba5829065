--------------------------- MODULE RemindersProofs ---------------------------
(***************************************************************************)
(* Reminders, for any number of members and any month.                     *)
(***************************************************************************)
EXTENDS Reminders, TLAPS

LEMMA RTypeInit == RInit => RTypeOK
BY ReminderAssumption DEF RInit, RTypeOK, Day, NoDay

LEMMA RTypeStep == RTypeOK /\ [RNext]_remVars => RTypeOK'
<1> SUFFICES ASSUME RTypeOK, [RNext]_remVars PROVE RTypeOK'
  OBVIOUS
<1> USE DEF RTypeOK
<1>0. today \in Nat /\ Ahead \in Nat
  BY ReminderAssumption DEF Day
<1>1. CASE SendPaymentReminders
  BY <1>0, <1>1 DEF SendPaymentReminders, memberVars
<1>2. CASE FindPendingForReminder
  BY <1>2 DEF FindPendingForReminder, memberVars
<1>3. CASE MarkReminderSent
  <2>1. cur \in Member
    BY <1>3 DEF MarkReminderSent
  <2>2. marked' \in SUBSET Member /\ disturbed' \in SUBSET Day
    BY <1>3, <2>1 DEF MarkReminderSent
  <2>3. unrecorded' \in [Member -> Nat]
    BY <1>3, <2>1 DEF MarkReminderSent
  <2> QED BY <1>3, <2>2, <2>3 DEF MarkReminderSent, memberVars
<1>4. CASE NextDueDay
  BY <1>0, <1>4 DEF NextDueDay, memberVars
<1>5. ASSUME NEW m \in Member, SendReminder(m) PROVE RTypeOK'
  BY <1>5 DEF SendReminder, memberVars
<1>6. ASSUME NEW m \in Member, PayMonth(m) PROVE RTypeOK'
  BY <1>6 DEF PayMonth, runVars, memberVars
<1>7. ASSUME NEW m \in Member, EditMember(m) PROVE RTypeOK'
  BY <1>7 DEF EditMember, runVars
<1>8. CASE NextDay
  <2>1. today + 1 \in Day
    BY <1>8, ReminderAssumption DEF NextDay, Day
  <2>2. disturbed' \in SUBSET Day
    BY <1>8 DEF NextDay
  <2> QED BY <1>8, <2>1, <2>2 DEF NextDay, memberVars
<1>9. CASE Crash
  BY <1>9 DEF Crash, memberVars
<1>10. CASE UNCHANGED remVars
  BY <1>10 DEF remVars, runVars, memberVars
<1> QED
  BY <1>1, <1>2, <1>3, <1>4, <1>5, <1>6, <1>7, <1>8, <1>9, <1>10 DEF RNext

\* Every reachable state of the reminder job is well typed.
THEOREM RTypeCorrect == RSpec => []RTypeOK
BY RTypeInit, RTypeStep, PTL DEF RSpec

-----------------------------------------------------------------------------
LEMMA RemindInit == RInit => RemindInv
BY ReminderAssumption DEF RInit, RemindInv, NoDay

LEMMA RemindStep == RTypeOK /\ RemindInv /\ [RNext]_remVars => RemindInv'
<1> SUFFICES ASSUME RTypeOK, RemindInv, [RNext]_remVars PROVE RemindInv'
  OBVIOUS
<1> USE DEF RTypeOK, RemindInv
<1>0. today \in Nat /\ Ahead \in Nat /\ NoMember \notin Member
  BY ReminderAssumption DEF Day
<1>1. CASE SendPaymentReminders
  BY <1>0, <1>1 DEF SendPaymentReminders, memberVars
<1>2. CASE FindPendingForReminder
  <2>1. CASE /\ list' = {m \in active : /\ paidOn[m] = NoDay
                                        /\ m \notin marked /\ memberDue[m] = dueDay}
             /\ UNCHANGED disturbed
    <3>1. cur \notin list' /\ \A m \in list' : m \in Member /\ m \notin marked /\ paidOn[m] = NoDay
      BY <1>0, <1>2, <2>1 DEF FindPendingForReminder
    <3>2. \A m \in active \ edited :
            paidOn[m] = NoDay /\ memberDue[m] = today /\ today \notin disturbed
              => m \in marked \/ m \in list'
      BY <1>2, <2>1 DEF FindPendingForReminder
    <3> QED BY <1>2, <2>1, <3>1, <3>2 DEF FindPendingForReminder, memberVars
  <2>2. CASE list' = {} /\ disturbed' = disturbed \cup {today}
    BY <1>2, <2>2 DEF FindPendingForReminder, memberVars
  <2> QED BY <1>2, <2>1, <2>2 DEF FindPendingForReminder
<1>3. CASE MarkReminderSent
  <2>1. cur \in Member /\ cur \notin marked /\ cur \notin list
    BY <1>3 DEF MarkReminderSent
  <2>2. CASE marked' = marked \cup {cur} /\ UNCHANGED <<unrecorded, disturbed>>
    BY <1>3, <1>0, <2>1, <2>2 DEF MarkReminderSent, memberVars
  <2>3. CASE /\ unrecorded' = [unrecorded EXCEPT ![cur] = @ + 1]
             /\ disturbed' = disturbed \cup {today}
             /\ UNCHANGED marked
    BY <1>3, <1>0, <2>1, <2>3 DEF MarkReminderSent, memberVars
  <2> QED BY <1>3, <2>2, <2>3 DEF MarkReminderSent
<1>4. CASE NextDueDay
  BY <1>0, <1>4 DEF NextDueDay, memberVars
<1>5. ASSUME NEW m \in Member, SendReminder(m) PROVE RemindInv'
  BY <1>5 DEF SendReminder, memberVars
<1>6. ASSUME NEW m \in Member, PayMonth(m) PROVE RemindInv'
  BY <1>6 DEF PayMonth, runVars, memberVars
<1>7. ASSUME NEW m \in Member, EditMember(m) PROVE RemindInv'
  BY <1>7 DEF EditMember, runVars
<1>8. CASE NextDay
  BY <1>8 DEF NextDay, memberVars
<1>9. CASE Crash
  BY <1>9 DEF Crash, memberVars
<1>10. CASE UNCHANGED remVars
  BY <1>10 DEF remVars, runVars, memberVars
<1> QED
  BY <1>1, <1>2, <1>3, <1>4, <1>5, <1>6, <1>7, <1>8, <1>9, <1>10 DEF RNext

LEMMA RemindCorrect == RSpec => [](RTypeOK /\ RemindInv)
<1>1. RInit => RTypeOK /\ RemindInv
  BY RTypeInit, RemindInit
<1>2. RTypeOK /\ RemindInv /\ [RNext]_remVars => (RTypeOK /\ RemindInv)'
  BY RTypeStep, RemindStep
<1> QED BY <1>1, <1>2, PTL DEF RSpec

\* A member is reminded again only after a reminder that was not recorded
\* (findPendingForReminder, markReminderSent).
THEOREM RemindersCorrect == RSpec => []RemindersAreExplained
<1>1. RTypeOK /\ RemindInv => RemindersAreExplained
  BY DEF RTypeOK, RemindInv, RemindersAreExplained
<1> QED BY <1>1, RemindCorrect, PTL

\* A member who paid on an earlier day is not reminded.
THEOREM LateRemindersCorrect == RSpec => NoLateReminder
<1>1. RTypeOK /\ RemindInv /\ [RNext]_remVars =>
        [\A m \in Member : reminded'[m] # reminded[m] => paidOn[m] \in {NoDay, today}]_remVars
  <2> SUFFICES ASSUME RTypeOK, RemindInv, RNext, NEW m \in Member,
                      reminded'[m] # reminded[m]
               PROVE  paidOn[m] \in {NoDay, today}
    OBVIOUS
  <2>1. PICK n \in Member : SendReminder(n)
    BY DEF RNext, SendPaymentReminders, FindPendingForReminder, MarkReminderSent,
           NextDueDay, PayMonth, EditMember, NextDay, Crash
  <2>2. m \in list
    BY <2>1 DEF SendReminder, RTypeOK
  <2> QED BY <2>2 DEF RemindInv
<1> QED BY <1>1, RemindCorrect, PTL DEF RSpec, NoLateReminder

-----------------------------------------------------------------------------
LEMMA EveryoneStep ==
  RTypeOK /\ RemindInv /\ EveryoneIsMarked /\ [RNext]_remVars => EveryoneIsMarked'
<1> SUFFICES ASSUME RTypeOK, RemindInv, EveryoneIsMarked, [RNext]_remVars
             PROVE  EveryoneIsMarked'
  OBVIOUS
<1> USE ReminderAssumption DEF RTypeOK, EveryoneIsMarked, Day, NoDay
<1>1. CASE SendPaymentReminders
  BY <1>1 DEF SendPaymentReminders, memberVars
<1>2. CASE FindPendingForReminder
  BY <1>2 DEF FindPendingForReminder, memberVars
<1>3. CASE MarkReminderSent
  BY <1>3 DEF MarkReminderSent, memberVars
<1>4. CASE NextDueDay
  BY <1>4 DEF NextDueDay, memberVars
<1>5. ASSUME NEW m \in Member, SendReminder(m) PROVE EveryoneIsMarked'
  BY <1>5 DEF SendReminder, memberVars
<1>6. ASSUME NEW m \in Member, PayMonth(m) PROVE EveryoneIsMarked'
  BY <1>6 DEF PayMonth, runVars, memberVars
<1>7. ASSUME NEW m \in Member, EditMember(m) PROVE EveryoneIsMarked'
  BY <1>7 DEF EditMember, runVars
<1>8. CASE NextDay
  <2> SUFFICES ASSUME NEW m \in active \ edited, paidOn[m] = NoDay,
                      memberDue[m] < today + 1, memberDue[m] \notin disturbed'
               PROVE  m \in marked
    BY <1>8 DEF NextDay, memberVars
  <2>1. CASE memberDue[m] < today
    BY <1>8, <2>1 DEF NextDay
  <2>2. CASE memberDue[m] = today
    BY <1>8, <2>2 DEF NextDay, RemindInv
  <2> QED BY <2>1, <2>2
<1>9. CASE Crash
  BY <1>9 DEF Crash, memberVars
<1>10. CASE UNCHANGED remVars
  BY <1>10 DEF remVars, runVars, memberVars
<1> QED
  BY <1>1, <1>2, <1>3, <1>4, <1>5, <1>6, <1>7, <1>8, <1>9, <1>10 DEF RNext

\* No unpaid member's due day passes without a reminder, unless its run was missed
\* or failed, the message was not sent or somebody edited the member.
THEOREM EveryoneCorrect == RSpec => []EveryoneIsReminded
<1>1. RInit => EveryoneIsMarked
  BY ReminderAssumption DEF RInit, EveryoneIsMarked
<1>2. RTypeOK /\ RemindInv /\ EveryoneIsMarked => EveryoneIsReminded
  BY DEF RTypeOK, RemindInv, EveryoneIsMarked, EveryoneIsReminded
<1> QED BY <1>1, <1>2, RemindCorrect, EveryoneStep, PTL DEF RSpec
=============================================================================
