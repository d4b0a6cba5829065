------------------------------ MODULE Dashboard ------------------------------
(***************************************************************************)
(* The page by which somebody registers the sender of a payment and has    *)
(* the confirmation sent by hand: the script of the page and               *)
(* POST /dashboard/transaction/:id/register-sender                         *)
(* (src/src/api/routes/dashboard.routes.ts), beside the worker and the     *)
(* requests that write the same users (src/src/api/routes/users.routes.ts).*)
(*                                                                         *)
(* A tab is one load of the page of a payment; a request is one submission *)
(* of its form.  Each await of the handler is an action.  The handler      *)
(* goes on when its tab has given up waiting, so that the requests of one  *)
(* tab may overlap as well as those of several.  A submission without a    *)
(* phone is answered with 400 at once and changes nothing: it is left out. *)
(***************************************************************************)
EXTENDS TransactionWorker

CONSTANTS
  Tab, Request,
  PageOf,      \* the payment whose page each tab has loaded
  Name,        \* names of senders
  BadPhone,    \* what normalizeCostaRicaPhone rejects
  NoName, NoTab, NoRequest

ASSUME DashboardAssumption ==
  /\ PageOf \in [Tab -> Payment]
  /\ NoName \notin Name /\ NoTab \notin Tab /\ NoRequest \notin Request
  /\ BadPhone \notin Phone \cup {NoPhone}

VARIABLES
  fullName,   \* users.full_name by phone_hash, NoName for NULL
  screen,     \* what each tab shows: closed, form, waiting, success
  fetching,   \* the request whose answer it waits for or has shown
  rpc,        \* the await each request's handler is about to perform
  tabOf,      \* the tab that made the request
  typed,      \* body.phone
  given,      \* body.name ?? tx.senderName, NoName when both are missing
  gotId,      \* requests whose sendNotification returned a message id
  saysSent,   \* requests whose notification_logs row says 'sent'
  sent,       \* requests whose message really arrived (ghost)
  silent,     \* requests whose tab was told that the connection failed (ghost)
  wasNamed,   \* requests under way whose sender has had a name since they came in (ghost)
  swallowed   \* calls of requests that failed without anybody noticing (ghost)

tabVars == <<screen, fetching>>
requestVars == <<rpc, tabOf, typed, given, gotId>>
observed == <<sent, silent, wasNamed, swallowed>>
pageVars == <<fullName, tabVars, requestVars, saysSent, observed>>
dvars == <<wvars, pageVars>>

InHandler == {"find", "lookup", "rename", "create", "send", "log", "answer"}

PageTypeOK ==
  /\ fullName \in [Phone -> Name \cup {NoName}]
  /\ screen \in [Tab -> {"closed", "form", "waiting", "success"}]
  /\ fetching \in [Tab -> Request \cup {NoRequest}]
  /\ rpc \in [Request -> {"new", "over"} \cup InHandler]
  /\ tabOf \in [Request -> Tab \cup {NoTab}]
  /\ typed \in [Request -> Phone \cup {BadPhone, NoPhone}]
  /\ given \in [Request -> Name \cup {NoName}]
  /\ gotId \in SUBSET Request /\ saysSent \in SUBSET Request
  /\ sent \in SUBSET Request /\ silent \in SUBSET Request
  /\ wasNamed \in SUBSET Request
  /\ swallowed \in SUBSET (Request \X {"save", "send", "log"})
  /\ \A r \in Request : rpc[r] # "new" => tabOf[r] \in Tab /\ typed[r] # NoPhone
  /\ \A r \in Request : rpc[r] = "rename" => typed[r] \in Phone
  /\ \A b \in Tab : screen[b] \in {"waiting", "success"} => fetching[b] \in Request

DTypeOK == WTypeOK /\ PageTypeOK

DInit ==
  /\ WInit
  /\ fullName = [ph \in Phone |-> NoName]
  /\ screen = [b \in Tab |-> "closed"]
  /\ fetching = [b \in Tab |-> NoRequest]
  /\ rpc = [r \in Request |-> "new"]
  /\ tabOf = [r \in Request |-> NoTab]
  /\ typed = [r \in Request |-> NoPhone]
  /\ given = [r \in Request |-> NoName]
  /\ gotId = {} /\ saysSent = {}
  /\ sent = {} /\ silent = {} /\ wasNamed = {} /\ swallowed = {}

Registered(ph) == ph \in Phone /\ sender[ph] # "absent"

RequestGoes(r, to) ==
  /\ rpc' = [rpc EXCEPT ![r] = to]
  /\ UNCHANGED <<tabOf, typed, given>>

-----------------------------------------------------------------------------
(***************************************************************************)
(* The page                                                                *)
(***************************************************************************)

\* GET /dashboard/transaction/:id finds a transaction, whatever its status.
OpenPage(b) ==
  /\ screen[b] = "closed"
  /\ row[PageOf[b]] # "absent"
  /\ screen' = [screen EXCEPT ![b] = "form"]
  /\ UNCHANGED <<wvars, fullName, fetching, requestVars, saysSent, observed>>

\* Faulty variants, each named for the mistake; no action uses them.  They show
\* which property would notice the mistake.
SubmitWithoutPhone(b, r) ==
  /\ screen[b] = "form"
  /\ rpc[r] = "new"
  /\ screen' = [screen EXCEPT ![b] = "waiting"]
  /\ fetching' = [fetching EXCEPT ![b] = r]
  /\ rpc' = [rpc EXCEPT ![r] = "find"]
  /\ tabOf' = [tabOf EXCEPT ![r] = b]
  /\ UNCHANGED <<wvars, fullName, typed, given, gotId, saysSent, observed>>

\* The submit listener: the button is disabled and the request is on its way.
Submit(b, r) ==
  /\ screen[b] = "form"
  /\ rpc[r] = "new"
  /\ screen' = [screen EXCEPT ![b] = "waiting"]
  /\ fetching' = [fetching EXCEPT ![b] = r]
  /\ rpc' = [rpc EXCEPT ![r] = "find"]
  /\ tabOf' = [tabOf EXCEPT ![r] = b]
  /\ \E ph \in Phone \cup {BadPhone}, n \in Name \cup {NoName} :
       /\ typed' = [typed EXCEPT ![r] = ph]
       /\ given' = [given EXCEPT ![r] = n]
       /\ wasNamed' = IF Registered(ph) /\ fullName[ph] # NoName
                      THEN wasNamed \cup {r} ELSE wasNamed
  /\ UNCHANGED <<wvars, fullName, gotId, saysSent, sent, silent, swallowed>>

\* fetch rejects ("Error de conexión. Intente de nuevo."): the button is enabled
\* again, and the handler, if it is running, goes on.
LoseConnection(b) ==
  /\ screen[b] = "waiting"
  /\ screen' = [screen EXCEPT ![b] = "form"]
  /\ silent' = silent \cup {fetching[b]}
  /\ UNCHANGED <<wvars, fullName, fetching, requestVars, saysSent, sent, wasNamed, swallowed>>

-----------------------------------------------------------------------------
(***************************************************************************)
(* The handler of register-sender                                          *)
(***************************************************************************)

\* The handler ends.  Its answer reaches the tab only while that waits for it.
Answer(r, shown) ==
  LET b == tabOf[r] IN
  /\ rpc' = [rpc EXCEPT ![r] = "over"]
  /\ given' = [given EXCEPT ![r] = NoName]
  /\ gotId' = gotId \ {r}
  /\ wasNamed' = wasNamed \ {r}
  /\ screen' = IF screen[b] = "waiting" /\ fetching[b] = r
               THEN [screen EXCEPT ![b] = shown] ELSE screen
  /\ UNCHANGED <<fetching, tabOf, typed>>

\* transactionRepo.findById turns an error into null, and null is a 404: the form
\* stays.
FindById(r) ==
  /\ rpc[r] = "find"
  /\ \/ /\ RequestGoes(r, "lookup")
        /\ UNCHANGED <<tabVars, gotId, wasNamed>>
     \/ "db" \in Faults /\ Answer(r, "form")
  /\ UNCHANGED <<wvars, fullName, saysSent, sent, silent, swallowed>>

\* Faulty: upsertFromSinpe does not ask whether the sender has a name.
LookUpAndRename(r) ==
  LET ph == typed[r] IN
  /\ rpc[r] = "lookup"
  /\ \/ Registered(ph) /\ given[r] # NoName /\ RequestGoes(r, "rename")
     \/ Registered(ph) /\ given[r] = NoName /\ RequestGoes(r, "send")
     \/ (~Registered(ph) \/ "db" \in Faults) /\ RequestGoes(r, "create")
  /\ UNCHANGED <<wvars, fullName, tabVars, gotId, saysSent, observed>>

\* Faulty: a sender who is known is taken for one who has been notified.
KnownMeansNotified(r) ==
  LET ph == typed[r] IN
  /\ rpc[r] = "lookup"
  /\ RequestGoes(r, IF Registered(ph) THEN "answer" ELSE "create")
  /\ UNCHANGED <<wvars, fullName, tabVars, gotId, saysSent, observed>>

\* upsertFromSinpe, findByPhone: a failure, or a phone that cannot be normalized,
\* reads like a sender never seen.  The name is filled in if it is missing.
LookUpSender(r) ==
  LET ph == typed[r]
      nameMissing == given[r] # NoName /\ fullName[ph] = NoName IN
  /\ rpc[r] = "lookup"
  /\ \/ Registered(ph) /\ RequestGoes(r, IF nameMissing THEN "rename" ELSE "send")
     \/ (~Registered(ph) \/ "db" \in Faults) /\ RequestGoes(r, "create")
  /\ UNCHANGED <<wvars, fullName, tabVars, gotId, saysSent, observed>>

\* upsertFromSinpe, update: the UPDATE does not ask again whether a name is there.
FillInName(r) ==
  /\ rpc[r] = "rename"
  /\ RequestGoes(r, "send")
  /\ \/ fullName' = [fullName EXCEPT ![typed[r]] = given[r]]
     \/ "db" \in Faults /\ UNCHANGED fullName
  /\ UNCHANGED <<wvars, tabVars, gotId, saysSent, observed>>

\* upsertFromSinpe, create: null for a phone that cannot be normalized, for the
\* unique violation of a concurrent INSERT and for any other error.  The handler
\* does not look at the result.
CreateUser(r) ==
  LET ph == typed[r] IN
  /\ rpc[r] = "create"
  /\ RequestGoes(r, "send")
  /\ \/ /\ ph \in Phone
        /\ CreateSender(ph)
        /\ fullName' = [fullName EXCEPT ![ph] = given[r]]
        /\ UNCHANGED swallowed
     \/ /\ ph \notin Phone \/ Registered(ph) \/ "db" \in Faults
        /\ swallowed' = IF Registered(ph) THEN swallowed ELSE swallowed \cup {<<r, "save">>}
        /\ UNCHANGED <<sender, wasDismissed, fullName>>
  /\ UNCHANGED <<queueVars, slotVars, row, rowPhone, log, delivered, ownerNotices,
                 tabVars, gotId, saysSent, sent, silent, wasNamed>>

\* whatsappService.sendNotification, which never throws.  Neither the status of
\* the sender nor that of the transaction is asked for.
SendConfirmation(r) ==
  /\ rpc[r] = "send"
  /\ RequestGoes(r, "log")
  /\ \/ /\ typed[r] \in Phone
        /\ sent' = sent \cup {r}
        /\ gotId' = gotId \cup {r}
        /\ UNCHANGED swallowed
     \/ /\ \/ typed[r] \in Phone /\ "wa_ack" \in Faults /\ sent' = sent \cup {r}
           \/ (typed[r] = BadPhone \/ "whatsapp" \in Faults) /\ UNCHANGED sent
        /\ swallowed' = swallowed \cup {<<r, "send">>}
        /\ UNCHANGED gotId
  /\ UNCHANGED <<wvars, fullName, tabVars, saysSent, silent, wasNamed>>

\* notificationLogRepo.create, with null for an error.
LogConfirmation(r) ==
  /\ rpc[r] = "log"
  /\ RequestGoes(r, "answer")
  /\ \/ /\ saysSent' = IF r \in gotId THEN saysSent \cup {r} ELSE saysSent
        /\ UNCHANGED swallowed
     \/ /\ "db" \in Faults
        /\ swallowed' = swallowed \cup {<<r, "log">>}
        /\ UNCHANGED saysSent
  /\ UNCHANGED <<wvars, fullName, tabVars, gotId, sent, silent, wasNamed>>

\* Faulty: the form is shown again after a success as after an error.
ReportAndReopen(r) ==
  /\ rpc[r] = "answer"
  /\ Answer(r, "form")
  /\ UNCHANGED <<wvars, fullName, saysSent, sent, silent, swallowed>>

\* res.json({ success: true, messageId }): the page looks at res.ok only, shows
\* "Confirmación enviada por WhatsApp correctamente" and hides the form.
ReportSuccess(r) ==
  /\ rpc[r] = "answer"
  /\ Answer(r, "success")
  /\ UNCHANGED <<wvars, fullName, saysSent, sent, silent, swallowed>>

HandlerStep(r) ==
  \/ FindById(r) \/ LookUpSender(r) \/ FillInName(r) \/ CreateUser(r)
  \/ SendConfirmation(r) \/ LogConfirmation(r) \/ ReportSuccess(r)

PageStep ==
  \/ \E b \in Tab : OpenPage(b) \/ LoseConnection(b) \/ \E r \in Request : Submit(b, r)
  \/ \E r \in Request : HandlerStep(r)

-----------------------------------------------------------------------------
(***************************************************************************)
(* The user API                                                            *)
(***************************************************************************)

\* POST /api/users: one INSERT, with or without a name.
PostUser(ph, n) ==
  /\ CreateSender(ph)
  /\ fullName' = [fullName EXCEPT ![ph] = n]
  /\ UNCHANGED <<queueVars, slotVars, row, rowPhone, log, delivered, ownerNotices,
                 tabVars, requestVars, saysSent, observed>>

\* PUT /api/users/:id: one UPDATE, which sets the name, to null as well.
PutUser(ph, n) ==
  /\ Registered(ph)
  /\ fullName' = [fullName EXCEPT ![ph] = n]
  /\ wasNamed' = IF n = NoName THEN {r \in wasNamed : typed[r] # ph} ELSE wasNamed
  /\ UNCHANGED <<wvars, tabVars, requestVars, saysSent, sent, silent, swallowed>>

UserStep == \E ph \in Phone, n \in Name \cup {NoName} : PostUser(ph, n) \/ PutUser(ph, n)

-----------------------------------------------------------------------------
\* The process dies: its requests are over, and the tabs that wait are told that
\* the connection failed.
ServerDies ==
  /\ "crash" \in Faults
  /\ \/ Crash
     \/ (\A s \in Slot : pc[s] = "idle") /\ UNCHANGED wvars
  /\ rpc' = [r \in Request |-> IF rpc[r] = "new" THEN "new" ELSE "over"]
  /\ screen' = [b \in Tab |-> IF screen[b] = "waiting" THEN "form" ELSE screen[b]]
  /\ silent' = silent \cup {fetching[b] : b \in {c \in Tab : screen[c] = "waiting"}}
  /\ given' = [r \in Request |-> NoName]
  /\ gotId' = {} /\ wasNamed' = {}
  /\ UNCHANGED <<fullName, fetching, tabOf, typed, saysSent, sent, swallowed>>

\* What the worker, the queue and the administrator do meanwhile.
Elsewhere ==
  \/ \E s \in Slot : SlotStep(s)
  \/ \E j \in Job : Start(j) \/ QueueStep(j) \/ \E e \in Email : Enqueue(j, e)
  \/ AdminStep \/ ClearFailed

DNext == PageStep \/ UserStep \/ ServerDies \/ (Elsewhere /\ UNCHANGED pageVars)

DSpec == DInit /\ [][DNext]_dvars

-----------------------------------------------------------------------------
(***************************************************************************)
(* Safety                                                                  *)
(***************************************************************************)

\* Whoever registers a sender sends one message: of the requests of one tab at
\* most one sends without its tab having been told that the connection failed
\* ("Intente de nuevo"), although requests given up go on in the handler and
\* may overtake the ones that follow them.
OneMessagePerAnswer ==
  \A r, q \in sent \ silent : tabOf[r] = tabOf[q] => r = q

\* What a success on the screen is worth: the sender is registered, the message
\* arrived and its row in notification_logs exists, each unless just that call
\* failed unnoticed; and a row says 'sent' only of a message that arrived.
SuccessIsExplained ==
  /\ \A b \in Tab : screen[b] = "success" =>
       LET r == fetching[b] IN
       /\ Registered(typed[r]) \/ <<r, "save">> \in swallowed
       /\ r \in sent \/ <<r, "send">> \in swallowed
       /\ r \in saysSent \/ <<r, "send">> \in swallowed \/ <<r, "log">> \in swallowed
  /\ saysSent \subseteq sent

\* No handler of the page replaces a name that the sender has had since its request
\* came in, although a failed findByPhone reads like an unknown sender ("Updates
\* name only if currently empty"): only a request that came in before there was a
\* name may, since the name is read and written in two statements.  An edit by PUT
\* /api/users moves no handler and may set any name.
NamesSurvive ==
  [][rpc' # rpc =>
       \A ph \in Phone : fullName'[ph] # fullName[ph] =>
         \E r \in Request \ wasNamed :
           typed[r] = ph /\ rpc[r] \in {"rename", "create"}]_dvars

-----------------------------------------------------------------------------
(***************************************************************************)
(* The inductive invariants behind these properties                        *)
(***************************************************************************)

\* A request whose tab has not given up is the one its tab waits for, and once it
\* has sent, its tab waits for it or shows its success: the form is gone.
TabInv ==
  /\ \A r \in Request : rpc[r] \in InHandler /\ r \notin silent =>
       screen[tabOf[r]] = "waiting" /\ fetching[tabOf[r]] = r
  /\ \A r \in sent \ silent :
       fetching[tabOf[r]] = r /\ (rpc[r] \in {"log", "answer"} \/ screen[tabOf[r]] = "success")
  /\ \A r \in sent : rpc[r] \in {"log", "answer", "over"}

\* What a request has done or failed to do by the await it has reached.
Saved(r) == Registered(typed[r]) \/ <<r, "save">> \in swallowed
Delivered(r) == r \in sent \/ <<r, "send">> \in swallowed
Logged(r) == r \in saysSent \/ <<r, "send">> \in swallowed \/ <<r, "log">> \in swallowed

StepsInv ==
  /\ saysSent \subseteq sent /\ gotId \subseteq sent
  /\ \A r \in Request :
       /\ rpc[r] \in {"rename", "send", "log", "answer"} => Saved(r)
       /\ rpc[r] \in {"log", "answer"} => Delivered(r)
       /\ rpc[r] = "log" => r \in gotId \/ <<r, "send">> \in swallowed
       /\ rpc[r] = "answer" => Logged(r)
  /\ \A b \in Tab : screen[b] = "success" =>
       LET r == fetching[b] IN
       r \in Request /\ rpc[r] = "over" /\ Saved(r) /\ Delivered(r) /\ Logged(r)

\* A sender with a name keeps one, and a request that found it will not rename.
NameInv ==
  /\ \A r \in wasNamed :
       Registered(typed[r]) /\ fullName[typed[r]] # NoName /\ rpc[r] \notin {"new", "rename"}
  /\ \A r \in Request : rpc[r] = "rename" => given[r] # NoName
=============================================================================
