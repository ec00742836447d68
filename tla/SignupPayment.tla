---------------------------- MODULE SignupPayment ----------------------------
(***************************************************************************)
(* Self sign-up of one customer (products pricedx and veritable): the HTTP *)
(* handlers that sign him up, take his payment method and start the        *)
(* payment check; OnboardPaymentVerifyWorkflow, which subscribes him at    *)
(* Lago and waits for the first invoice; OnboardWorkflow; and the product's*)
(* own onboarding workflow, seen only through the status it writes.        *)
(* A status write that timed out may still land later (late); the attempts *)
(* of every other activity are taken to end when they fail.                *)
(*                                                                         *)
(* They share the customer's rows in PostgreSQL (row, subs, failed), Lago  *)
(* and Stripe (lagoCustomer, confirmed, lago, ended), and the Temporal     *)
(* server, which keeps at most one open execution per workflow id.         *)
(***************************************************************************)
EXTENDS Naturals, FiniteSets

CONSTANTS
    Subs,        \* ids of table subscription, external ids at Lago
    NoSub,
    Names,       \* tenant names the customer may ask for
    NoName,
    Requests,    \* handlers that can be in flight at the same time
    MaxRequests, \* bound: requests that ever arrive
    MaxKeys,     \* bound: setup intents the customer can complete, plus one
    MaxAttempts, \* attempts of an activity
    MaxLate      \* bound: status writes that linger at the same time

ASSUME ConstantsAssumption ==
    /\ NoSub \notin Subs
    /\ NoName \notin Names
    /\ MaxRequests \in Nat
    /\ MaxKeys \in Nat \ {0}
    /\ MaxAttempts \in Nat \ {0}
    /\ MaxLate \in Nat

VARIABLES
    row,          \* customer JOIN provisioningstatus
    subs,         \* his rows of table subscription
    failed,       \* subscriptions with a row in table failedinvoices
    lagoCustomer, \* Lago knows the customer
    confirmed,    \* setup intents for which Stripe has a payment method
    lago,         \* [Subs -> the subscription at Lago and its first invoice]
    ended,        \* subscriptions whose ending_at was set at Lago
    verify,       \* latest execution of OnboardPaymentVerifyWorkflow
    onb,          \* latest execution of OnboardWorkflow
    prod,         \* [Names -> the product's workflow, latest of that name]
    late,         \* status writes that nobody waits for any more
    req,          \* [Requests -> the handler's locals and position]
    issued,       \* requests that arrived so far
    orphaned,     \* history: renamed after the launch had read the name
    told          \* history: a handler or an execution broke down

tables    == <<row, subs, failed>>
billing   == <<lagoCustomer, confirmed, lago, ended>>
workflows == <<verify, onb, prod>>
callers   == <<req, issued, orphaned>>
vars == <<tables, billing, workflows, late, callers, told>>

-----------------------------------------------------------------------------
(* Data                                                                    *)

TenantStatus == {"Absent", "NotApplicable", "Stale", "Provisioning",
                 "Provisioned", "ProvisioningFailed"}

Keys == 1 .. MaxKeys

Row == [status : TenantStatus, tenant : Names \cup {NoName}, key : Keys]

LagoState == {"absent", "subscribed", "pending", "paid", "unpaid"}

\* Whether it completed or failed, told remembers.
Closed == {"none", "ended"}

VerifyPc == {"status", "subscribe", "invoice", "payment",
             "record", "reset", "mail", "cleanup", "mark", "start"}

Verify == [pc : VerifyPc \cup Closed, sub : Subs \cup {NoSub}, tries : Nat]

Onboard == [pc : {"status", "launch", "start"} \cup Closed, tries : Nat,
            name : Names \cup {NoName}]    \* name as read by the launch

ProductPc == {"working", "provisioned", "after", "failing"} \cup Closed

LateWrite == [name : Names, status : {"Provisioned", "ProvisioningFailed"}]

Ops == {"signup", "subscribe", "enterprise"}

Positions == {"read", "insert", "bill", "find", "replace", "rebill",
              "reread", "intent", "stale", "trigger"}

Busy == [op : Ops, pc : Positions, name : Names \cup {NoName},
         key : Keys,                  \* setupintent as read
         fail : Subs \cup {NoSub}]    \* subscription of the failed invoice

Idle == [op |-> "idle", pc |-> "idle", name |-> NoName, key |-> 1,
         fail |-> NoSub]

TypeOK ==
    /\ row \in Row
    /\ subs \subseteq Subs
    /\ failed \subseteq Subs
    /\ lagoCustomer \in BOOLEAN
    /\ confirmed \subseteq Keys
    /\ lago \in [Subs -> LagoState]
    /\ ended \subseteq Subs
    /\ verify \in Verify
    /\ onb \in Onboard
    /\ prod \in [Names -> ProductPc]
    /\ late \subseteq LateWrite
    /\ req \in [Requests -> Busy \cup {Idle}]
    /\ issued \in Nat
    /\ orphaned \in BOOLEAN
    /\ told \in BOOLEAN

Init ==
    /\ row = [status |-> "Absent", tenant |-> NoName, key |-> 1]
    /\ subs = {}
    /\ failed = {}
    /\ lagoCustomer = FALSE
    /\ confirmed = {}
    /\ lago = [s \in Subs |-> "absent"]
    /\ ended = {}
    /\ verify = [pc |-> "none", sub |-> NoSub, tries |-> 0]
    /\ onb = [pc |-> "none", tries |-> 0, name |-> NoName]
    /\ prod = [n \in Names |-> "none"]
    /\ late = {}
    /\ req = [r \in Requests |-> Idle]
    /\ issued = 0
    /\ orphaned = FALSE
    /\ told = FALSE

-----------------------------------------------------------------------------
(* HTTP handlers                                                           *)

At(r, pc) == req[r].pc = pc

Moves(r, locals) ==
    req' = [req EXCEPT ![r] = locals] /\ UNCHANGED <<issued, orphaned, told>>

Goto(r, pc) == Moves(r, [req[r] EXCEPT !.pc = pc])

\* What it was given and has read, it does not look at again.
Forgets(r, pc) == Moves(r, [Idle EXCEPT !.op = req[r].op, !.pc = pc])

\* The handler answers, with a result or with one of the documented errors.
Answer(r) == Moves(r, Idle)

Entry == [signup |-> "read", subscribe |-> "reread", enterprise |-> "insert"]

\* signUp, createSubscription, enterpriseSignUp
Arrive(r) ==
    /\ req[r] = Idle
    /\ issued < MaxRequests
    /\ issued' = issued + 1
    /\ \E op \in Ops, n \in Names :
         req' = [req EXCEPT ![r] =
                   [Idle EXCEPT !.op = op, !.pc = Entry[op],
                                !.name = IF op = "subscribe" THEN NoName ELSE n]]
    /\ UNCHANGED <<tables, billing, workflows, late, orphaned, told>>

\* Any await may raise: an outage, or the server restarts.
HandlerDies(r) ==
    /\ req[r] # Idle
    /\ req' = [req EXCEPT ![r] = Idle]
    /\ told' = TRUE
    /\ UNCHANGED <<tables, billing, workflows, late, issued, orphaned>>

\* Statuses on which get_first_subscription_status answers at once.
Answered == {"Provisioning", "Provisioned", "ProvisioningFailed"}

\* get_first_subscription_status, as create_customer uses it
ReadCustomer(r) ==
    /\ At(r, "read")
    /\ \/ row.status = "Absent" /\ Goto(r, "insert")
       \/ row.status \in Answered /\ Answer(r)
       \/ /\ row.status \notin Answered \cup {"Absent"}
          /\ Moves(r, [req[r] EXCEPT !.pc = "find", !.key = row.key])
    /\ UNCHANGED <<tables, billing, workflows>>

\* An id that uuid_generate_v4 has not returned before.
Fresh(s) == s \notin subs /\ lago[s] = "absent"

\* Mutated form: inserted with the status an operator's request would get.
InsertCustomer_in_progress(r) ==
    /\ At(r, "insert")
    /\ IF row.status # "Absent"
       THEN Answer(r) /\ UNCHANGED tables
       ELSE \E s \in Subs :
              /\ Fresh(s)
              /\ row' = [status |-> "Provisioning", tenant |-> req[r].name,
                         key |-> 1]
              /\ subs' = {s}
              /\ Forgets(r, "bill")
              /\ UNCHANGED failed
    /\ UNCHANGED <<billing, workflows>>

\* post_customer_subscription_provisioningstatus.sql; UNIQUE(product, email)
InsertCustomer(r) ==
    /\ At(r, "insert")
    /\ IF row.status # "Absent"
       THEN Answer(r) /\ UNCHANGED tables
       ELSE \E s \in Subs :
              /\ Fresh(s)
              /\ row' = [status |-> "NotApplicable", tenant |-> req[r].name,
                         key |-> 1]
              /\ subs' = {s}
              /\ Forgets(r, "bill")
              /\ UNCHANGED failed
    /\ UNCHANGED <<billing, workflows>>

\* lago customers().create (may refuse), then the setup intent
BillCustomer(r) ==
    /\ At(r, "bill")
    /\ \/ Answer(r) /\ UNCHANGED lagoCustomer
       \/ /\ lagoCustomer' = TRUE
          /\ IF req[r].op = "enterprise" THEN Goto(r, "trigger") ELSE Answer(r)
    /\ UNCHANGED <<tables, confirmed, lago, ended, workflows>>

\* Mutated form: the failed invoice is looked for and missed.
FindFailedInvoice_misses(r) ==
    /\ At(r, "find")
    /\ Moves(r, [req[r] EXCEPT !.pc = "replace", !.fail = NoSub])
    /\ UNCHANGED <<tables, billing, workflows>>

\* reconcile_subscription: is there a failed invoice?
FindFailedInvoice(r) ==
    /\ At(r, "find")
    /\ \E f \in Subs \cup {NoSub} :
         /\ IF failed = {} THEN f = NoSub ELSE f \in failed
         /\ Moves(r, [req[r] EXCEPT !.pc = "replace", !.fail = f])
    /\ UNCHANGED <<tables, billing, workflows>>

\* Mutated form: the failed subscription is not deleted.
ReplaceSubscription_keeps_failed(r) ==
    /\ At(r, "replace")
    /\ row' = [row EXCEPT !.tenant = req[r].name]
    /\ IF req[r].fail = NoSub
       THEN UNCHANGED <<subs, failed>>
       ELSE \E s \in Subs :
              Fresh(s) /\ subs' = subs \cup {s} /\ failed' = {}
    /\ req' = [req EXCEPT ![r] =
                 [@ EXCEPT !.pc = "rebill", !.name = NoName, !.fail = NoSub]]
    /\ UNCHANGED <<billing, workflows, issued, orphaned, told>>

\* An execution of the product's workflow is open under that name.
Building(n) == prod[n] \notin Closed

\* ... then one transaction with what that told
ReplaceSubscription(r) ==
    LET f == req[r].fail IN
    /\ At(r, "replace")
    /\ row' = [row EXCEPT !.tenant = req[r].name]
    /\ IF f = NoSub
       THEN UNCHANGED <<subs, failed>>
       ELSE \E s \in Subs :
              /\ Fresh(s)
              /\ subs' = (subs \ {f}) \cup {s}
              /\ failed' = {}
    /\ req' = [req EXCEPT ![r] =
                 [@ EXCEPT !.pc = "rebill", !.name = NoName, !.fail = NoSub]]
    /\ orphaned' =
         \/ orphaned
         \/ /\ req[r].name # row.tenant
            /\ onb.pc = "start" \/ Building(row.tenant)
    /\ UNCHANGED <<billing, workflows, issued, told>>

\* customers().find raises for a customer Lago never got, and Lago may refuse
\* the update; a setup intent the customer completed leads straight on to
\* _create_subscription
UpdateBilling(r) ==
    /\ At(r, "rebill")
    /\ \/ Answer(r)
       \/ lagoCustomer /\ req[r].key \in confirmed /\ Forgets(r, "reread")
    /\ UNCHANGED <<tables, billing, workflows>>

\* get_first_subscription_status, as _create_subscription uses it
RereadCustomer(r) ==
    /\ At(r, "reread")
    /\ IF row.status \in Answered \cup {"Absent"}
       THEN Answer(r)
       ELSE Moves(r, [req[r] EXCEPT !.pc = "intent", !.key = row.key])
    /\ UNCHANGED <<tables, billing, workflows>>

\* update_default_payment_method: is it the completed setup intent's?
CheckIntent(r) ==
    /\ At(r, "intent")
    /\ \/ Answer(r)
       \/ lagoCustomer /\ req[r].key \in confirmed /\ Forgets(r, "stale")
    /\ UNCHANGED <<tables, billing, workflows>>

\* The status is overwritten whatever it has become.
MarkStale(r) ==
    /\ At(r, "stale")
    /\ row' = [row EXCEPT !.status = "Stale"]
    /\ Goto(r, "trigger")
    /\ UNCHANGED <<subs, failed, billing, workflows>>

\* Mutated form: an open execution is terminated and replaced.
StartVerify_replaces(r) ==
    /\ At(r, "trigger")
    /\ verify' = [pc |-> "status", sub |-> NoSub, tries |-> 0]
    /\ Answer(r)
    /\ UNCHANGED <<tables, billing, onb, prod>>

\* trigger_workflow: refused while an execution of that id is open
StartVerify(r) ==
    /\ At(r, "trigger")
    /\ IF verify.pc \in Closed
       THEN verify' = [pc |-> "status", sub |-> NoSub, tries |-> 0]
       ELSE UNCHANGED verify
    /\ Answer(r)
    /\ UNCHANGED <<tables, billing, onb, prod>>

HandlerStep(r) ==
    /\ \/ ReadCustomer(r) \/ InsertCustomer(r) \/ BillCustomer(r)
       \/ FindFailedInvoice(r) \/ ReplaceSubscription(r) \/ UpdateBilling(r)
       \/ RereadCustomer(r) \/ CheckIntent(r) \/ MarkStale(r) \/ StartVerify(r)
    /\ UNCHANGED late

-----------------------------------------------------------------------------
(* OnboardPaymentVerifyWorkflow                                            *)

VerifyAt(pc) == verify.pc = pc

\* The next activity, with attempts of its own, or the end.
VerifyNext(pc) == verify' = [verify EXCEPT !.pc = pc, !.tries = 0]

\* OnboardStatusActivity: of several subscription rows any may come first
FetchOnboardInfo ==
    /\ VerifyAt("status")
    /\ IF row.status = "Provisioned"
       THEN VerifyNext("ended")
       ELSE \E s \in subs :
              verify' = [pc |-> "subscribe", sub |-> s, tries |-> 0]
    /\ UNCHANGED <<tables, billing, onb, prod, callers, told>>

\* SubscriptionActivity: create_lago_subscription, if not exists
Subscribe ==
    /\ VerifyAt("subscribe")
    /\ lago' = IF lago[verify.sub] = "absent"
               THEN [lago EXCEPT ![verify.sub] = "subscribed"] ELSE lago
    /\ VerifyNext("invoice")
    /\ UNCHANGED <<tables, lagoCustomer, confirmed, ended, onb, prod, callers,
                   told>>

\* FirstInvoicePollActivity sees the invoice
InvoiceSeen ==
    /\ VerifyAt("invoice")
    /\ lago[verify.sub] \in {"pending", "paid", "unpaid"}
    /\ VerifyNext("payment")
    /\ UNCHANGED <<tables, billing, onb, prod, callers, told>>

\* Mutated form: an invoice still pending counts as paid.
PaymentSeen_pending_is_paid ==
    /\ VerifyAt("payment")
    /\ VerifyNext(IF lago[verify.sub] = "unpaid" THEN "record" ELSE "mark")
    /\ UNCHANGED <<tables, billing, onb, prod, callers, told>>

\* FirstInvoiceStatusPollActivity sees its final payment status
PaymentSeen ==
    /\ VerifyAt("payment")
    /\ \/ lago[verify.sub] = "paid" /\ VerifyNext("mark")
       \/ lago[verify.sub] = "unpaid" /\ VerifyNext("record")
    /\ UNCHANGED <<tables, billing, onb, prod, callers, told>>

\* OnboardPaymentFailureActivity in three commits: the failed invoice ...
RecordFailure ==
    /\ VerifyAt("record")
    /\ failed' = failed \cup {verify.sub}
    /\ verify' = [verify EXCEPT !.pc = "reset"]
    /\ UNCHANGED <<row, subs, billing, onb, prod, callers, told>>

\* Mutated form: a setup intent nobody completed is replaced as well.
ResetIntent_unconditional ==
    /\ VerifyAt("reset")
    /\ row' = [row EXCEPT !.key = row.key + 1, !.status = "NotApplicable"]
    /\ verify' = [verify EXCEPT !.pc = "mail"]
    /\ UNCHANGED <<subs, failed, billing, onb, prod, callers, told>>

\* ... a new setup intent if the customer completed the last one ...
ResetIntent ==
    /\ VerifyAt("reset")
    /\ row' = IF row.key \in confirmed
              THEN [row EXCEPT !.key = row.key + 1, !.status = "NotApplicable"]
              ELSE row
    /\ verify' = [verify EXCEPT !.pc = "mail"]
    /\ UNCHANGED <<subs, failed, billing, onb, prod, callers, told>>

\* ... and the mails that ask the customer to sign up again
MailFailure ==
    /\ VerifyAt("mail")
    /\ VerifyNext("cleanup")
    /\ UNCHANGED <<tables, billing, onb, prod, callers, told>>

\* Mutated form: the subscription found at Lago is left without an end.
CleanUp_sets_no_end ==
    /\ VerifyAt("cleanup")
    /\ VerifyNext("ended")
    /\ UNCHANGED <<tables, billing, onb, prod, callers, told>>

\* SubscriptionCleanupActivity: by whatever failed invoice is recorded now
CleanUp ==
    /\ VerifyAt("cleanup")
    /\ IF failed = {} THEN UNCHANGED ended
       ELSE \E f \in failed : ended' = ended \cup {f}
    /\ VerifyNext("ended")
    /\ UNCHANGED <<tables, lagoCustomer, confirmed, lago, onb, prod, callers,
                   told>>

\* OnboardWorkflowTriggerActivity: the status first ...
MarkProvisioning ==
    /\ VerifyAt("mark")
    /\ row' = [row EXCEPT !.status = "Provisioning"]
    /\ verify' = [verify EXCEPT !.pc = "start"]
    /\ UNCHANGED <<subs, failed, billing, onb, prod, callers, told>>

\* Mutated form: no maximum_attempts.
Retry_for_ever(first) ==
    verify' = [verify EXCEPT !.pc = first] /\ UNCHANGED told

\* A failed or lost attempt repeats the whole activity, until there is none.
Retry(first) ==
    IF verify.tries + 1 < MaxAttempts
    THEN /\ verify' = [verify EXCEPT !.pc = first, !.tries = @ + 1]
         /\ UNCHANGED told
    ELSE VerifyNext("ended") /\ told' = TRUE

\* ... then the start, refused while OnboardWorkflow is open; the result of a
\* start that happened may be lost
StartOnboard ==
    /\ VerifyAt("start")
    /\ IF onb.pc \notin Closed
       THEN Retry("mark") /\ UNCHANGED onb
       ELSE /\ onb' = [pc |-> "status", tries |-> 0, name |-> NoName]
            /\ \/ VerifyNext("ended") /\ UNCHANGED told
               \/ Retry("mark")
    /\ UNCHANGED <<tables, billing, prod, callers>>

\* An attempt breaks off between two commits, or its worker dies.
VerifyAttemptFails ==
    /\ \/ verify.pc \in {"record", "reset", "mail"} /\ Retry("record")
       \/ verify.pc \in {"mark", "start"} /\ Retry("mark")
       \/ /\ verify.pc \in {"status", "subscribe", "invoice", "payment",
                             "cleanup"}
          /\ Retry(verify.pc)
    /\ UNCHANGED <<tables, billing, onb, prod, callers>>

VerifyStep ==
    /\ \/ FetchOnboardInfo \/ Subscribe \/ InvoiceSeen \/ PaymentSeen
       \/ RecordFailure \/ ResetIntent \/ MailFailure \/ CleanUp
       \/ MarkProvisioning \/ StartOnboard \/ VerifyAttemptFails
    /\ UNCHANGED late

-----------------------------------------------------------------------------
(* OnboardWorkflow                                                         *)

\* The next activity, with attempts of its own, or the end.
OnboardNext(pc) == onb' = [pc |-> pc, tries |-> 0, name |-> NoName]

OnboardFails == OnboardNext("ended") /\ told' = TRUE

\* Mutated form: on another status the workflow returns instead of raising.
CheckOnboardStatus_returns ==
    /\ onb.pc = "status"
    /\ OnboardNext(IF row.status \in {"Provisioning", "ProvisioningFailed"}
                   THEN "launch" ELSE "ended")
    /\ UNCHANGED <<tables, billing, verify, prod, callers, told>>

\* OnboardStatusActivity, then InvalidOnboardStatusException or on
CheckOnboardStatus ==
    /\ onb.pc = "status"
    /\ IF row.status \in {"Provisioning", "ProvisioningFailed"}
       THEN OnboardNext("launch") /\ UNCHANGED told
       ELSE OnboardFails
    /\ UNCHANGED <<tables, billing, verify, prod, callers>>

\* Mutated form: the failure of the last attempt is swallowed.
RetryOnboard_swallows(first) ==
    /\ IF onb.tries + 1 < MaxAttempts
       THEN onb' = [pc |-> first, tries |-> onb.tries + 1, name |-> NoName]
       ELSE OnboardNext("ended")
    /\ UNCHANGED told

\* A failed or lost attempt repeats the whole activity, until there is none.
RetryOnboard(first) ==
    IF onb.tries + 1 < MaxAttempts
    THEN /\ onb' = [pc |-> first, tries |-> onb.tries + 1, name |-> NoName]
         /\ UNCHANGED told
    ELSE OnboardFails

\* ProvisioningK8SActivity reads the customer's form, which holds the name,
\* and checks it; a form that is not valid is not tried again ...
ReadForm ==
    /\ onb.pc = "launch"
    /\ \/ /\ onb' = [onb EXCEPT !.pc = "start", !.name = row.tenant]
          /\ UNCHANGED told
       \/ OnboardFails
    /\ UNCHANGED <<tables, billing, verify, prod, callers>>

\* ... then it starts the product's workflow under the name it has read:
\* refused while one of that name is open, and its result may be lost
StartProduct ==
    /\ onb.pc = "start"
    /\ IF Building(onb.name)
       THEN RetryOnboard("launch") /\ UNCHANGED prod
       ELSE /\ prod' = [prod EXCEPT ![onb.name] = "working"]
            /\ \/ OnboardNext("ended") /\ UNCHANGED told
               \/ RetryOnboard("launch")
    /\ UNCHANGED <<tables, billing, verify, callers>>

OnboardAttemptFails ==
    /\ \/ onb.pc = "status" /\ RetryOnboard("status")
       \/ onb.pc \in {"launch", "start"} /\ RetryOnboard("launch")
    /\ UNCHANGED <<tables, billing, verify, prod, callers>>

OnboardStep ==
    /\ CheckOnboardStatus \/ ReadForm \/ StartProduct \/ OnboardAttemptFails
    /\ UNCHANGED late

-----------------------------------------------------------------------------
(* The product's workflow of one name                                      *)

ProductGoes(n, pc) == prod' = [prod EXCEPT ![n] = pc]

\* Its activities succeed: before, and after, it writes Provisioned.
ProductWorks(n) ==
    /\ \/ prod[n] = "working" /\ ProductGoes(n, "provisioned")
       \/ prod[n] = "after" /\ ProductGoes(n, "ended")
    /\ UNCHANGED <<tables, billing, verify, onb, callers, told>>

\* An activity, also the status write, used up its attempts.
ProductBreaks(n) ==
    /\ prod[n] \in {"working", "provisioned", "after"}
    /\ ProductGoes(n, "failing")
    /\ told' = TRUE
    /\ UNCHANGED <<tables, billing, verify, onb, callers>>

\* UpdateTenantStatusActivity finds the row by the name it was given
WithStatus(n, s) ==
    IF row.tenant = n THEN [row EXCEPT !.status = s] ELSE row

WriteProvisioned(n) ==
    /\ prod[n] = "provisioned"
    /\ row' = WithStatus(n, "Provisioned")
    /\ ProductGoes(n, "after")
    /\ UNCHANGED <<subs, failed, billing, verify, onb, callers, told>>

\* The except block; the write itself may fail for want of a database.
WriteFailed(n) ==
    /\ prod[n] = "failing"
    /\ row' \in {row, WithStatus(n, "ProvisioningFailed")}
    /\ ProductGoes(n, "ended")
    /\ UNCHANGED <<subs, failed, billing, verify, onb, callers, told>>

ProductStep(n) ==
    /\ ProductWorks(n) \/ ProductBreaks(n) \/ WriteProvisioned(n) \/ WriteFailed(n)
    /\ UNCHANGED late

Writes == [provisioned |-> "Provisioned", failing |-> "ProvisioningFailed"]

\* An attempt at the status write times out and is repeated, or given up;
\* nothing recalls it ...
WriteLingers(n) ==
    /\ prod[n] \in DOMAIN Writes
    /\ Cardinality(late) < MaxLate
    /\ late' = late \cup {[name |-> n, status |-> Writes[prod[n]]]}
    /\ UNCHANGED <<tables, billing, workflows, callers, told>>

\* ... and it commits, whatever its execution does by then.
LateWriteLands(w) ==
    /\ w \in late
    /\ row' = WithStatus(w.name, w.status)
    /\ late' = late \ {w}
    /\ UNCHANGED <<subs, failed, billing, workflows, callers, told>>

LateStep ==
    \/ \E n \in Names : WriteLingers(n)
    \/ \E w \in late : LateWriteLands(w)

-----------------------------------------------------------------------------
(* Stripe and Lago                                                         *)

\* The customer completes the setup intent of the form.
ConfirmIntent ==
    /\ lagoCustomer
    /\ row.key < MaxKeys
    /\ confirmed' = confirmed \cup {row.key}
    /\ UNCHANGED <<tables, lagoCustomer, lago, ended, workflows, late, callers,
                   told>>

LagoChanges(s, before, after) ==
    /\ lago[s] = before
    /\ lago' = [lago EXCEPT ![s] = after]
    /\ UNCHANGED <<tables, lagoCustomer, confirmed, ended, workflows, late,
                   callers, told>>

InvoiceGenerated(s) == LagoChanges(s, "subscribed", "pending")

PaymentDecided(s) ==
    LagoChanges(s, "pending", "paid") \/ LagoChanges(s, "pending", "unpaid")

-----------------------------------------------------------------------------
(* Specification                                                           *)

Outside == ConfirmIntent \/ \E s \in Subs : InvoiceGenerated(s) \/ PaymentDecided(s)

Next ==
    \/ \E r \in Requests : Arrive(r) \/ HandlerStep(r) \/ HandlerDies(r)
    \/ VerifyStep \/ OnboardStep \/ (\E n \in Names : ProductStep(n))
    \/ LateStep \/ Outside

Spec == Init /\ [][Next]_vars

\* The server finishes the requests it accepted; workers poll their queues
\* and every activity has a timeout and a bounded number of attempts.
FairSpec ==
    /\ Spec
    /\ \A r \in Requests : WF_vars(HandlerStep(r))
    /\ \A n \in Names : WF_vars(ProductStep(n))
    /\ WF_vars(VerifyStep) /\ WF_vars(OnboardStep)

WorkflowsClosed ==
    {verify.pc, onb.pc} \subseteq Closed /\ \A n \in Names : ~Building(n)

Quiet == WorkflowsClosed /\ \A r \in Requests : req[r] = Idle

(***************************************************************************)
(* A patient customer: he waits for the answer, and after the payment for  *)
(* the mail that says how it ended, before he goes on.                     *)
(***************************************************************************)
PatientNext ==
    \/ \E r \in Requests :
         \/ Quiet /\ Arrive(r)
         \/ HandlerStep(r) \/ HandlerDies(r)
    \/ VerifyStep \/ OnboardStep \/ (\E n \in Names : ProductStep(n))
    \/ LateStep \/ Outside

PatientSpec == Init /\ [][PatientNext]_vars

-----------------------------------------------------------------------------
(* Properties                                                              *)

Paid == \E s \in Subs : lago[s] = "paid"

\* Nobody gets an environment, or is told that it is on its way, who has not
\* paid for some subscription: whatever the requests and retries interleave.
PaidBeforeProvisioning ==
    (\E n \in Names : prod[n] # "none") \/ row.status \in Answered => Paid

\* Every subscription the tables know of is paid for.
OwesNothing == subs # {} /\ \A s \in subs : lago[s] = "paid"

\* When nothing moves any more and nothing broke down, a customer who owes
\* nothing has his environment, however requests, payment checks and late
\* status writes interleave - except where a sign-up renames him between the
\* read of his name by the launch (k8s.py:22) and the end of the build: the
\* final status is then written for a name that no row has.
PaidAndQuietIsProvisioned ==
    Quiet /\ OwesNothing /\ ~told /\ ~orphaned => row.status = "Provisioned"

\* A patient customer has one subscription row, and pays for one subscription:
\* every other one that Lago knows of has an end.
BilledOnce ==
    ~told =>
      /\ \A s, t \in subs : s = t
      /\ \A s, t \in Subs :
           lago[s] # "absent" /\ lago[t] # "absent" => s = t \/ {s, t} \cap ended # {}

\* "delete failed subscription and create new one": a customer's further
\* subscription row takes the place of one that is deleted with it.
NewReplacesFailed == [][subs # {} /\ ~(subs' \subseteq subs) => ~(subs \subseteq subs')]_vars

\* "Terminate failed subscription of a customer": one that the tables no longer
\* know is ended at Lago when the payment check is over.
FailedSubscriptionEnded ==
    Quiet /\ ~told => \A s \in Subs \ subs : lago[s] = "unpaid" => s \in ended

\* Who owes nothing gets his environment, unless something broke down, a
\* further subscription was put beside the paid one, or he was renamed between
\* the launch's read of his name and the end of the build.
PaymentSettles ==
    OwesNothing ~> row.status = "Provisioned" \/ ~OwesNothing \/ told \/ orphaned

\* What the pages answer, as PaidProvisioning sees it.
Shown == CASE row.status = "Provisioned" -> "provisioned"
           [] row.status \in {"Provisioning", "ProvisioningFailed"} -> "in_progress"
           [] OTHER -> "signup"

Env == CASE \A n \in Names : prod[n] = "none" -> "none"
         [] \E n \in Names : Building(n) -> "building"
         [] OTHER -> "built"

Promise == INSTANCE PaidProvisioning WITH paid <- Paid, env <- Env, shown <- Shown

\* The components together keep the promise of PaidProvisioning.
KeepsPromise == Promise!Spec

-----------------------------------------------------------------------------
(***************************************************************************)
(* The inductive invariant behind PaidBeforeProvisioning: a payment is     *)
(* never undone, and whatever leads to a status that is Answered - an      *)
(* execution about to mark it, OnboardWorkflow, the product's workflow -   *)
(* exists only after a payment.                                            *)
(***************************************************************************)
SubKnown == verify.pc \in VerifyPc \ {"status"} => verify.sub \in Subs

KeysLeft == \A k \in confirmed : k < MaxKeys

KnownByName ==
    /\ subs # {} => row.tenant \in Names
    /\ \A r \in Requests :
         req[r].pc \in {"read", "insert", "find", "replace"} => req[r].name \in Names

ProvisioningIsPaid ==
    verify.pc \in {"mark", "start"} \/ onb.pc # "none" => Paid

LateComesAfter == late # {} => \E n \in Names : prod[n] # "none"

IInv ==
    /\ TypeOK
    /\ SubKnown
    /\ KeysLeft
    /\ KnownByName
    /\ ProvisioningIsPaid
    /\ LateComesAfter
    /\ PaidBeforeProvisioning

(***************************************************************************)
(* What a patient customer's requests may count on: nothing else moves     *)
(* while one of them is handled (OneAtATime), and, as long as nothing      *)
(* broke down, his one subscription row is the one the payment check works *)
(* on, a failed one has its end at Lago before he hears of it, and what    *)
(* Lago knows of is in the table or has an end.                            *)
(***************************************************************************)
OneAtATime ==
    \A r \in Requests :
        req[r] # Idle => WorkflowsClosed /\ \A q \in Requests \ {r} : req[q] = Idle

PaymentFails == verify.pc \in {"record", "reset", "mail", "cleanup"}

OneSubscription ==
    /\ \A s, t \in subs : s = t
    /\ row.status = "Absent" => subs = {}
    /\ failed \subseteq subs
    /\ verify.pc \in VerifyPc \ {"status"} => verify.sub \in subs
    /\ \A r \in Requests :
         At(r, "replace") => IF failed = {} THEN req[r].fail = NoSub ELSE req[r].fail \in failed

LagoIsKnown ==
    /\ failed \subseteq ended \/ PaymentFails
    /\ \A s \in Subs : lago[s] # "absent" => s \in subs \cup ended

PatientInv == OneAtATime /\ (~told => OneSubscription /\ LagoIsKnown)

(***************************************************************************)
(* Why a payment leads to the provisioning: Lago decides only about the    *)
(* subscription the open payment check waits for (Awaited); so when the    *)
(* last one that was owed is paid, that check goes on to the provisioning, *)
(* and from then on something is always on the way to it (OnTheWay): a     *)
(* request that overwrites the status starts another check, a launch that  *)
(* fails reads the name again.  Only a rename after that read, before the  *)
(* final status is written, takes the row away from under it (orphaned).   *)
(***************************************************************************)
Awaited ==
    \A s \in Subs :
        lago[s] \in {"subscribed", "pending"} =>
            verify.sub = s /\ verify.pc \in {"invoice", "payment"}

NothingFails ==
    /\ ~PaymentFails
    /\ verify.pc \in VerifyPc \ {"status"} => lago[verify.sub] = "paid"

OnTheWay ==
    \/ row.status = "Provisioned"
    \/ verify.pc \in VerifyPc
    \/ \E r \in Requests : At(r, "trigger")
    \/ onb.pc \in {"status", "launch"}
    \/ onb.pc = "start" /\ onb.name = row.tenant
    \/ prod[row.tenant] \in {"working", "provisioned"}

\* A late write can only take Provisioned away when a build broke down.
LateIsTold == \A w \in late : w.status = "Provisioned"

FailingIsTold == \A n \in Names : prod[n] # "failing"

QuietInv ==
    ~told =>
      /\ Awaited /\ LateIsTold /\ FailingIsTold
      /\ OwesNothing => NothingFails /\ (orphaned \/ OnTheWay)

=============================================================================
