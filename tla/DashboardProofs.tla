--------------------------- MODULE DashboardProofs ---------------------------
(***************************************************************************)
(* Theorems about Dashboard for any number of tabs, requests and names,    *)
(* beside any number of executions of the worker.                          *)
(***************************************************************************)
EXTENDS Dashboard, TransactionWorkerProofs

USE WorkerAssumption, DashboardAssumption

(***************************************************************************)
(* The page does not disturb the worker                                    *)
(***************************************************************************)

LEMMA PageStepIsWorkerStep ==
  ASSUME PageStep
  PROVE  [WNext]_wvars
<1>1. ASSUME NEW b \in Tab, OpenPage(b) \/ LoseConnection(b) PROVE UNCHANGED wvars
  BY <1>1 DEF OpenPage, LoseConnection
<1>2. ASSUME NEW b \in Tab, NEW r \in Request, Submit(b, r) PROVE UNCHANGED wvars
  BY <1>2 DEF Submit
<1>3. ASSUME NEW r \in Request, HandlerStep(r) PROVE [WNext]_wvars
  <2>1. CASE CreateUser(r)
    <3>1. CASE UNCHANGED <<sender, wasDismissed>>
      BY <2>1, <3>1 DEF CreateUser, wvars, dbVars, ghostVars
    <3>2. CASE typed[r] \in Phone /\ CreateSender(typed[r])
      <4>1. AdminStep
        BY <2>1, <3>2 DEF CreateUser, AdminStep
      <4> QED BY <4>1 DEF WNext, WorkerStep
    <3> QED BY <2>1, <3>1, <3>2 DEF CreateUser
  <2>2. CASE ~CreateUser(r)
    BY <1>3, <2>2 DEF HandlerStep, FindById, LookUpSender, FillInName,
       SendConfirmation, LogConfirmation, ReportSuccess
  <2> QED BY <2>1, <2>2
<1> QED BY <1>1, <1>2, <1>3 DEF PageStep

LEMMA DashboardStepIsWorkerStep == [DNext]_dvars => [WNext]_wvars
<1>1. CASE PageStep
  BY <1>1, PageStepIsWorkerStep
<1>2. CASE ServerDies
  BY <1>2 DEF ServerDies, WNext, WorkerStep
<1>3. CASE Elsewhere
  BY <1>3 DEF Elsewhere, WNext, WorkerStep
<1>4. ASSUME NEW ph \in Phone, NEW n \in Name \cup {NoName}, PostUser(ph, n)
      PROVE  [WNext]_wvars
  <2>1. AdminStep
    BY <1>4 DEF PostUser, AdminStep
  <2> QED BY <2>1 DEF WNext, WorkerStep
<1>5. ASSUME NEW ph \in Phone, NEW n \in Name \cup {NoName}, PutUser(ph, n)
      PROVE  UNCHANGED wvars
  BY <1>5 DEF PutUser
<1>6. CASE UNCHANGED dvars
  BY <1>6 DEF dvars
<1> QED BY <1>1, <1>2, <1>3, <1>4, <1>5, <1>6 DEF DNext, UserStep

\* However often somebody sends confirmations by hand, the worker's own promises
\* stand: the page and the user API only ever add a sender, as other administrators do.
THEOREM DashboardIsWorker == DSpec => WSpec
<1>1. DInit => WInit
  BY DEF DInit
<1> QED BY <1>1, DashboardStepIsWorkerStep, PTL DEF DSpec, WSpec

\* In particular a payment is claimed, notified and settled by the worker at most
\* once while pages are open.
THEOREM WorkerUndisturbed == DSpec => RefinesNotifyOnce
  BY DashboardIsWorker, Refinement, PTL

-----------------------------------------------------------------------------
(***************************************************************************)
(* Type correctness                                                        *)
(***************************************************************************)
LEMMA DTypeInit == DInit => DTypeOK
  BY TypeInit DEF DInit, DTypeOK, PageTypeOK, InHandler

LEMMA PageTypeHandlerStep ==
  ASSUME PageTypeOK, NEW r \in Request, HandlerStep(r)
  PROVE  PageTypeOK'
<1> USE DEF PageTypeOK, InHandler, RequestGoes, observed, requestVars, tabVars
<1>1. CASE FindById(r)          BY <1>1 DEF FindById, Answer
<1>2. CASE LookUpSender(r)      BY <1>2 DEF LookUpSender, Registered
<1>3. CASE FillInName(r)        BY <1>3 DEF FillInName
<1>4. CASE CreateUser(r)        BY <1>4 DEF CreateUser, CreateSender
<1>5. CASE SendConfirmation(r)  BY <1>5 DEF SendConfirmation
<1>6. CASE LogConfirmation(r)   BY <1>6 DEF LogConfirmation
<1>7. CASE ReportSuccess(r)     BY <1>7 DEF ReportSuccess, Answer
<1> QED BY <1>1, <1>2, <1>3, <1>4, <1>5, <1>6, <1>7 DEF HandlerStep

LEMMA PageTypeStep == PageTypeOK /\ [DNext]_dvars => PageTypeOK'
<1> SUFFICES ASSUME PageTypeOK, [DNext]_dvars PROVE PageTypeOK'
  OBVIOUS
<1> USE DEF PageTypeOK, InHandler, observed, requestVars, tabVars
<1>1. ASSUME NEW b \in Tab, OpenPage(b) PROVE PageTypeOK'
  BY <1>1 DEF OpenPage
<1>2. ASSUME NEW b \in Tab, LoseConnection(b) PROVE PageTypeOK'
  BY <1>2 DEF LoseConnection
<1>3. ASSUME NEW b \in Tab, NEW r \in Request, Submit(b, r) PROVE PageTypeOK'
  <2>1. PICK ph \in Phone \cup {BadPhone}, n \in Name \cup {NoName} :
          typed' = [typed EXCEPT ![r] = ph] /\ given' = [given EXCEPT ![r] = n]
    BY <1>3 DEF Submit
  <2>2. ph # NoPhone /\ wasNamed' \in SUBSET Request
    BY <1>3 DEF Submit
  <2>3. \A q \in Request : rpc'[q] # "new" => tabOf'[q] \in Tab /\ typed'[q] # NoPhone
    BY <1>3, <2>1, <2>2 DEF Submit
  <2>4. \A q \in Request : rpc'[q] = "rename" => typed'[q] \in Phone
    BY <1>3, <2>1 DEF Submit
  <2>5. \A c \in Tab : screen'[c] \in {"waiting", "success"} => fetching'[c] \in Request
    BY <1>3 DEF Submit
  <2> QED BY <1>3, <2>1, <2>2, <2>3, <2>4, <2>5 DEF Submit
<1>4. ASSUME NEW r \in Request, HandlerStep(r) PROVE PageTypeOK'
  BY <1>4, PageTypeHandlerStep
<1>5. CASE ServerDies
  BY <1>5 DEF ServerDies
<1>6. CASE UNCHANGED pageVars
  BY <1>6 DEF pageVars
<1>7. ASSUME NEW ph \in Phone, NEW n \in Name \cup {NoName}, PostUser(ph, n)
      PROVE  PageTypeOK'
  BY <1>7 DEF PostUser, CreateSender
<1>8. ASSUME NEW ph \in Phone, NEW n \in Name \cup {NoName}, PutUser(ph, n)
      PROVE  PageTypeOK'
  BY <1>8 DEF PutUser
<1> QED BY <1>1, <1>2, <1>3, <1>4, <1>5, <1>6, <1>7, <1>8
        DEF DNext, PageStep, UserStep, dvars

LEMMA DTypeStep == DTypeOK /\ [DNext]_dvars => DTypeOK'
  BY TypeStep, PageTypeStep, DashboardStepIsWorkerStep DEF DTypeOK

\* Every variable of the page keeps its type.
THEOREM DTypeCorrect == DSpec => []DTypeOK
  BY DTypeInit, DTypeStep, PTL DEF DSpec

-----------------------------------------------------------------------------
(***************************************************************************)
(* One message for an answer                                               *)
(***************************************************************************)
LEMMA TabInit == DInit => TabInv
  BY DEF DInit, TabInv, InHandler

LEMMA TabHandlerStep ==
  ASSUME PageTypeOK, TabInv, NEW r \in Request, HandlerStep(r)
  PROVE  TabInv'
<1> USE DEF PageTypeOK, TabInv, InHandler, RequestGoes, observed, tabVars
<1>1. CASE FindById(r)          BY <1>1 DEF FindById, Answer
<1>2. CASE LookUpSender(r)      BY <1>2 DEF LookUpSender
<1>3. CASE FillInName(r)        BY <1>3 DEF FillInName
<1>4. CASE CreateUser(r)        BY <1>4 DEF CreateUser
<1>5. CASE SendConfirmation(r)  BY <1>5 DEF SendConfirmation
<1>6. CASE LogConfirmation(r)   BY <1>6 DEF LogConfirmation
<1>7. CASE ReportSuccess(r)     BY <1>7 DEF ReportSuccess, Answer
<1> QED BY <1>1, <1>2, <1>3, <1>4, <1>5, <1>6, <1>7 DEF HandlerStep

LEMMA TabStep == PageTypeOK /\ TabInv /\ [DNext]_dvars => TabInv'
<1> SUFFICES ASSUME PageTypeOK, TabInv, [DNext]_dvars PROVE TabInv'
  OBVIOUS
<1> USE DEF PageTypeOK, TabInv, InHandler, observed, requestVars, tabVars
<1>1. ASSUME NEW b \in Tab, OpenPage(b) PROVE TabInv'
  BY <1>1 DEF OpenPage
<1>2. ASSUME NEW b \in Tab, LoseConnection(b) PROVE TabInv'
  BY <1>2 DEF LoseConnection
<1>3. ASSUME NEW b \in Tab, NEW r \in Request, Submit(b, r) PROVE TabInv'
  BY <1>3 DEF Submit
<1>4. ASSUME NEW r \in Request, HandlerStep(r) PROVE TabInv'
  BY <1>4, TabHandlerStep
<1>5. CASE ServerDies
  BY <1>5 DEF ServerDies
<1>6. CASE UNCHANGED pageVars
  BY <1>6 DEF pageVars
<1>7. ASSUME NEW ph \in Phone, NEW n \in Name \cup {NoName}, PostUser(ph, n)
      PROVE  TabInv'
  BY <1>7 DEF PostUser, CreateSender
<1>8. ASSUME NEW ph \in Phone, NEW n \in Name \cup {NoName}, PutUser(ph, n)
      PROVE  TabInv'
  BY <1>8 DEF PutUser
<1> QED BY <1>1, <1>2, <1>3, <1>4, <1>5, <1>6, <1>7, <1>8
        DEF DNext, PageStep, UserStep, dvars

\* However many tabs and requests there are, however they overlap and whenever
\* the process dies: a tab sends a second message only after it was told that
\* the connection failed.
THEOREM OneMessage == DSpec => []OneMessagePerAnswer
<1>1. DTypeOK => PageTypeOK
  BY DEF DTypeOK
<1>2. TabInv => OneMessagePerAnswer
  BY DEF TabInv, OneMessagePerAnswer
<1> QED BY <1>1, <1>2, TabInit, TabStep, DTypeCorrect, PTL DEF DSpec

-----------------------------------------------------------------------------
(***************************************************************************)
(* What a success is worth                                                 *)
(***************************************************************************)

\* Nobody takes a sender out of the table users.
LEMMA SendersStay ==
  ASSUME WTypeOK, [WNext]_wvars
  PROVE  \A ph \in Phone : sender[ph] # "absent" => sender'[ph] # "absent"
<1> USE DEF WTypeOK, dbVars, ghostVars
<1>1. CASE AdminStep
  BY <1>1 DEF AdminStep, CreateSender, DismissSender, RevertSender, LinkSender
<1>2. ASSUME NEW s \in Slot, SlotStep(s) PROVE UNCHANGED sender
  BY <1>2 DEF SlotStep, IsDuplicate, CreateTransaction, MatchMember, ResolveSender,
     CloseWithoutPhone, NotifyOwner, CloseDismissed, SendNotification,
     LogNotification, SetFinalStatus, ReturnSuccess, ThrowError, Leave
<1>3. CASE \E j \in Job : Start(j) \/ QueueStep(j) \/ \E e \in Email : Enqueue(j, e)
  BY <1>3 DEF Start, StartJob, QueueStep, Enqueue
<1>4. CASE Crash \/ ClearFailed
  BY <1>4 DEF Crash, ClearFailed
<1>5. CASE UNCHANGED wvars
  BY <1>5 DEF wvars
<1> QED BY <1>1, <1>2, <1>3, <1>4, <1>5 DEF WNext, WorkerStep

LEMMA StepsInit == DInit => StepsInv
  BY DEF DInit, StepsInv

LEMMA StepsHandlerStep ==
  ASSUME PageTypeOK, StepsInv, NEW r \in Request, HandlerStep(r),
         \A ph \in Phone : sender[ph] # "absent" => sender'[ph] # "absent",
         sender \in [Phone -> {"absent", "unknown", "dismissed", "linked"}]
  PROVE  StepsInv'
<1> USE DEF PageTypeOK, StepsInv, Saved, Delivered, Logged, Registered, InHandler,
        RequestGoes, observed, tabVars
<1>1. CASE FindById(r)          BY <1>1 DEF FindById, Answer
<1>2. CASE LookUpSender(r)      BY <1>2 DEF LookUpSender
<1>3. CASE FillInName(r)        BY <1>3 DEF FillInName
<1>4. CASE CreateUser(r)
  <2>1. Saved(r)'
    BY <1>4 DEF CreateUser, CreateSender
  <2>2. \A q \in Request : Saved(q) => Saved(q)'
    BY <1>4 DEF CreateUser
  <2>3. \A q \in Request : rpc'[q] = IF q = r THEN "send" ELSE rpc[q]
    BY <1>4 DEF CreateUser
  <2>4. \A q \in Request : (Delivered(q) => Delivered(q)') /\ (Logged(q) => Logged(q)')
    BY <1>4 DEF CreateUser
  <2>5. /\ rpc[r] = "create" /\ swallowed \subseteq swallowed'
        /\ UNCHANGED <<saysSent, sent, gotId, screen, fetching>>
    BY <1>4 DEF CreateUser
  <2> HIDE DEF Saved, Delivered, Logged
  <2> QED BY <2>1, <2>2, <2>3, <2>4, <2>5
<1>5. CASE SendConfirmation(r)  BY <1>5 DEF SendConfirmation
<1>6. CASE LogConfirmation(r)   BY <1>6 DEF LogConfirmation
<1>7. CASE ReportSuccess(r)     BY <1>7 DEF ReportSuccess, Answer
<1> QED BY <1>1, <1>2, <1>3, <1>4, <1>5, <1>6, <1>7 DEF HandlerStep

LEMMA StepsStep == DTypeOK /\ StepsInv /\ [DNext]_dvars => StepsInv'
<1> SUFFICES ASSUME DTypeOK, StepsInv, [DNext]_dvars PROVE StepsInv'
  OBVIOUS
<1>a. PageTypeOK /\ WTypeOK
  BY DEF DTypeOK
<1>b. \A ph \in Phone : sender[ph] # "absent" => sender'[ph] # "absent"
  BY <1>a, SendersStay, DashboardStepIsWorkerStep
<1>c. sender \in [Phone -> {"absent", "unknown", "dismissed", "linked"}]
  BY <1>a DEF WTypeOK
<1> USE DEF PageTypeOK, StepsInv, Saved, Delivered, Logged, Registered, InHandler,
        observed, requestVars, tabVars
<1>1. ASSUME NEW b \in Tab, OpenPage(b) PROVE StepsInv'
  BY <1>a, <1>b, <1>1 DEF OpenPage
<1>2. ASSUME NEW b \in Tab, LoseConnection(b) PROVE StepsInv'
  BY <1>a, <1>b, <1>2 DEF LoseConnection
<1>3. ASSUME NEW b \in Tab, NEW r \in Request, Submit(b, r) PROVE StepsInv'
  BY <1>a, <1>b, <1>3 DEF Submit
<1>4. ASSUME NEW r \in Request, HandlerStep(r) PROVE StepsInv'
  BY <1>a, <1>b, <1>c, <1>4, StepsHandlerStep
<1>5. CASE ServerDies
  BY <1>a, <1>b, <1>5 DEF ServerDies
<1>6. CASE UNCHANGED pageVars
  BY <1>a, <1>b, <1>6 DEF pageVars
<1>7. ASSUME NEW ph \in Phone, NEW n \in Name \cup {NoName}, PostUser(ph, n)
      PROVE  StepsInv'
  BY <1>a, <1>b, <1>7 DEF PostUser, CreateSender
<1>8. ASSUME NEW ph \in Phone, NEW n \in Name \cup {NoName}, PutUser(ph, n)
      PROVE  StepsInv'
  BY <1>a, <1>b, <1>8 DEF PutUser
<1> QED BY <1>1, <1>2, <1>3, <1>4, <1>5, <1>6, <1>7, <1>8
        DEF DNext, PageStep, UserStep, dvars

\* A success on the screen means that the sender is registered, the message
\* arrived and its row exists, unless just that call failed unnoticed.
THEOREM SuccessCorrect == DSpec => []SuccessIsExplained
<1>1. StepsInv => SuccessIsExplained
  BY DEF StepsInv, SuccessIsExplained, Saved, Delivered, Logged
<1> QED BY <1>1, StepsInit, StepsStep, DTypeCorrect, PTL DEF DSpec

-----------------------------------------------------------------------------
(***************************************************************************)
(* Names                                                                   *)
(***************************************************************************)
LEMMA NameInit == DInit => NameInv
  BY DEF DInit, NameInv

LEMMA NameHandlerStep ==
  ASSUME PageTypeOK, NameInv, NEW r \in Request, HandlerStep(r),
         \A ph \in Phone : sender[ph] # "absent" => sender'[ph] # "absent",
         sender \in [Phone -> {"absent", "unknown", "dismissed", "linked"}]
  PROVE  NameInv'
<1> USE DEF PageTypeOK, NameInv, Registered, InHandler, RequestGoes, observed, tabVars
<1>1. CASE FindById(r)          BY <1>1 DEF FindById, Answer
<1>2. CASE LookUpSender(r)      BY <1>2 DEF LookUpSender
<1>3. CASE FillInName(r)        BY <1>3 DEF FillInName
<1>4. CASE CreateUser(r)        BY <1>4 DEF CreateUser, CreateSender
<1>5. CASE SendConfirmation(r)  BY <1>5 DEF SendConfirmation
<1>6. CASE LogConfirmation(r)   BY <1>6 DEF LogConfirmation
<1>7. CASE ReportSuccess(r)     BY <1>7 DEF ReportSuccess, Answer
<1> QED BY <1>1, <1>2, <1>3, <1>4, <1>5, <1>6, <1>7 DEF HandlerStep

LEMMA NameStep == DTypeOK /\ NameInv /\ [DNext]_dvars => NameInv'
<1> SUFFICES ASSUME DTypeOK, NameInv, [DNext]_dvars PROVE NameInv'
  OBVIOUS
<1>a. PageTypeOK /\ WTypeOK
  BY DEF DTypeOK
<1>b. \A ph \in Phone : sender[ph] # "absent" => sender'[ph] # "absent"
  BY <1>a, SendersStay, DashboardStepIsWorkerStep
<1>c. sender \in [Phone -> {"absent", "unknown", "dismissed", "linked"}]
  BY <1>a DEF WTypeOK
<1> USE DEF PageTypeOK, NameInv, Registered, InHandler, observed, requestVars, tabVars
<1>1. ASSUME NEW b \in Tab, OpenPage(b) PROVE NameInv'
  BY <1>a, <1>b, <1>1 DEF OpenPage
<1>2. ASSUME NEW b \in Tab, LoseConnection(b) PROVE NameInv'
  BY <1>a, <1>b, <1>2 DEF LoseConnection
<1>3. ASSUME NEW b \in Tab, NEW r \in Request, Submit(b, r) PROVE NameInv'
  BY <1>a, <1>b, <1>3 DEF Submit
<1>4. ASSUME NEW r \in Request, HandlerStep(r) PROVE NameInv'
  BY <1>a, <1>b, <1>c, <1>4, NameHandlerStep
<1>5. CASE ServerDies
  BY <1>a, <1>b, <1>5 DEF ServerDies
<1>6. CASE UNCHANGED pageVars
  BY <1>a, <1>b, <1>6 DEF pageVars
<1>7. ASSUME NEW ph \in Phone, NEW n \in Name \cup {NoName}, PostUser(ph, n)
      PROVE  NameInv'
  BY <1>a, <1>b, <1>7 DEF PostUser, CreateSender
<1>8. ASSUME NEW ph \in Phone, NEW n \in Name \cup {NoName}, PutUser(ph, n)
      PROVE  NameInv'
  BY <1>a, <1>b, <1>8 DEF PutUser
<1> QED BY <1>1, <1>2, <1>3, <1>4, <1>5, <1>6, <1>7, <1>8
        DEF DNext, PageStep, UserStep, dvars

\* No handler replaces a name its sender has had since its request came in.
THEOREM NamesCorrect == DSpec => NamesSurvive
<1> DEFINE Kept == rpc' # rpc =>
                     \A ph \in Phone : fullName'[ph] # fullName[ph] =>
                       \E r \in Request \ wasNamed :
                         typed[r] = ph /\ rpc[r] \in {"rename", "create"}
<1>1. DTypeOK /\ NameInv /\ [DNext]_dvars => [Kept]_dvars
  <2> SUFFICES ASSUME DTypeOK, NameInv, DNext, rpc' # rpc, NEW ph \in Phone,
                      fullName'[ph] # fullName[ph]
               PROVE  \E r \in Request \ wasNamed :
                        typed[r] = ph /\ rpc[r] \in {"rename", "create"}
    BY DEF Kept
  <2> USE DEF NameInv, Registered, observed, requestVars, tabVars
  <2>1. PICK r \in Request : FillInName(r) \/ CreateUser(r)
    BY DEF DNext, PageStep, HandlerStep, OpenPage, LoseConnection, Submit, FindById,
       LookUpSender, SendConfirmation, LogConfirmation, ReportSuccess, ServerDies,
       UserStep, PostUser, PutUser, pageVars
  <2>2. fullName \in [Phone -> Name \cup {NoName}]
    BY DEF DTypeOK, PageTypeOK
  <2>3. CASE FillInName(r)
    BY <2>2, <2>3 DEF FillInName
  <2>4. CASE CreateUser(r)
    BY <2>2, <2>4 DEF CreateUser, CreateSender
  <2> QED BY <2>1, <2>3, <2>4
<1> QED BY <1>1, NameInit, NameStep, DTypeCorrect, PTL DEF DSpec, NamesSurvive
=============================================================================
