------------------------ MODULE SignupPatienceProofs ------------------------
(***************************************************************************)
(* Proofs about the patient customer of SignupPayment, for every number of *)
(* subscriptions, requests, setup intents and attempts: he is billed for   *)
(* one subscription, and one whose payment failed is ended at Lago.        *)
(***************************************************************************)
EXTENDS SignupPaymentProofs

-----------------------------------------------------------------------------
(* One thing at a time                                                     *)

\* A patient customer's steps are steps of the customers there are.
LEMMA PatientIsNext == [PatientNext]_vars => [Next]_vars
BY DEF PatientNext, Next

\* A handler that takes a step is not idle and moves itself alone; the step
\* that starts a workflow is its last one.
LEMMA HandlerMoves ==
    ASSUME TypeOK, NEW r \in Requests, HandlerStep(r)
    PROVE  /\ req[r] # Idle
           /\ \A q \in Requests \ {r} : req'[q] = req[q]
           /\ UNCHANGED workflows \/ req'[r] = Idle
<1>1. req[r] # Idle
  <2>1. PICK p \in Positions : At(r, p)
    BY DEF HandlerStep, ReadCustomer, InsertCustomer, BillCustomer, FindFailedInvoice,
           ReplaceSubscription, UpdateBilling, RereadCustomer, CheckIntent, MarkStale,
           StartVerify, Positions
  <2>2. QED
    BY <2>1 DEF At, Idle, Positions
<1>2. ASSUME NEW locals, req' = [req EXCEPT ![r] = locals]
      PROVE  req'[r] = locals /\ \A q \in Requests \ {r} : req'[q] = req[q]
  BY <1>2 DEF TypeOK
<1>3. CASE StartVerify(r)
  BY <1>1, <1>2, <1>3 DEF StartVerify, Answer, Moves
<1>4. CASE ReplaceSubscription(r)
  <2>1. PICK locals : req' = [req EXCEPT ![r] = locals]
    BY <1>4 DEF ReplaceSubscription
  <2>2. QED
    BY <1>1, <1>2, <1>4, <2>1 DEF ReplaceSubscription
<1>5. ASSUME \E locals : Moves(r, locals), UNCHANGED workflows
      PROVE  \A q \in Requests \ {r} : req'[q] = req[q]
  BY <1>2, <1>5 DEF Moves
<1>6. CASE ReadCustomer(r) \/ InsertCustomer(r) \/ BillCustomer(r) \/ FindFailedInvoice(r)
  BY <1>1, <1>5, <1>6 DEF ReadCustomer, InsertCustomer, BillCustomer, FindFailedInvoice, Goto,
                          Forgets, Answer
<1>7. CASE UpdateBilling(r) \/ RereadCustomer(r) \/ CheckIntent(r) \/ MarkStale(r)
  BY <1>1, <1>5, <1>7 DEF UpdateBilling, RereadCustomer, CheckIntent, MarkStale, Goto, Forgets,
                          Answer
<1>8. QED
  BY <1>3, <1>4, <1>6, <1>7 DEF HandlerStep

\* A workflow that takes a step is open, and no step of a workflow is one of a
\* handler.
LEMMA WorkflowIsOpen ==
    ASSUME VerifyStep \/ OnboardStep \/ \E n \in Names : ProductStep(n)
    PROVE  ~WorkflowsClosed /\ UNCHANGED callers
<1>1. CASE VerifyStep
  BY <1>1 DEF VerifyStep, FetchOnboardInfo, Subscribe, InvoiceSeen, PaymentSeen, RecordFailure,
              ResetIntent, MailFailure, CleanUp, MarkProvisioning, StartOnboard,
              VerifyAttemptFails, VerifyAt, WorkflowsClosed, Closed, callers
<1>2. CASE OnboardStep
  BY <1>2 DEF OnboardStep, CheckOnboardStatus, ReadForm, StartProduct, OnboardAttemptFails,
              WorkflowsClosed, Closed, callers
<1>3. ASSUME NEW n \in Names, ProductStep(n)
      PROVE  ~WorkflowsClosed /\ UNCHANGED callers
  <2>1. Building(n) /\ UNCHANGED callers
    BY <1>3 DEF ProductStep, ProductWorks, ProductBreaks, WriteProvisioned, WriteFailed,
                Building, Closed, callers
  <2>2. QED
    BY <2>1 DEF WorkflowsClosed
<1>4. QED
  BY <1>1, <1>2, <1>3

\* A late write is of no workflow and of no handler.
LEMMA LateLeaves ==
    ASSUME LateStep
    PROVE  UNCHANGED <<subs, failed, billing, workflows, callers, told>>
BY DEF LateStep, WriteLingers, LateWriteLands, tables

LEMMA OneAtATimeStep ==
    ASSUME TypeOK, OneAtATime, [PatientNext]_vars
    PROVE  OneAtATime'
<1>1. ASSUME NEW r \in Requests, Quiet /\ Arrive(r)
      PROVE  OneAtATime'
  BY <1>1 DEF Quiet, Arrive, OneAtATime, WorkflowsClosed, Building, workflows, TypeOK
<1>2. ASSUME NEW r \in Requests, HandlerStep(r)
      PROVE  OneAtATime'
  <2>1. /\ req[r] # Idle
        /\ \A q \in Requests \ {r} : req'[q] = req[q]
        /\ UNCHANGED workflows \/ req'[r] = Idle
    BY <1>2, HandlerMoves
  <2>2. QED
    BY <2>1 DEF OneAtATime, WorkflowsClosed, Building, workflows
<1>3. ASSUME NEW r \in Requests, HandlerDies(r)
      PROVE  OneAtATime'
  BY <1>3 DEF HandlerDies, OneAtATime, WorkflowsClosed, Building, workflows, TypeOK
<1>4. CASE VerifyStep \/ OnboardStep \/ \E n \in Names : ProductStep(n)
  BY <1>4, WorkflowIsOpen DEF OneAtATime, callers
<1>5. CASE Outside
  BY <1>5 DEF Outside, ConfirmIntent, InvoiceGenerated, PaymentDecided, LagoChanges, OneAtATime,
              WorkflowsClosed, Building, workflows, callers
<1>6. CASE LateStep \/ UNCHANGED vars
  <2>1. UNCHANGED <<workflows, callers>>
    BY <1>6, LateLeaves DEF vars
  <2>2. QED
    BY <2>1 DEF callers, workflows, OneAtATime, WorkflowsClosed, Building
<1>7. QED
  BY <1>1, <1>2, <1>3, <1>4, <1>5, <1>6 DEF PatientNext

-----------------------------------------------------------------------------
(* One subscription                                                        *)

\* What broke down stays known.
LEMMA ToldLasts ==
    ASSUME [PatientNext]_vars
    PROVE  told' = told \/ told' = TRUE
<1>1. ASSUME NEW r \in Requests, HandlerStep(r)
      PROVE  told' = told
  BY <1>1 DEF HandlerStep, ReadCustomer, InsertCustomer, BillCustomer, FindFailedInvoice,
              ReplaceSubscription, UpdateBilling, RereadCustomer, CheckIntent, MarkStale,
              StartVerify, Goto, Forgets, Answer, Moves
<1>2. CASE VerifyStep
  BY <1>2 DEF VerifyStep, FetchOnboardInfo, Subscribe, InvoiceSeen, PaymentSeen, RecordFailure,
              ResetIntent, MailFailure, CleanUp, MarkProvisioning, StartOnboard,
              VerifyAttemptFails, Retry
<1>3. CASE OnboardStep \/ \E n \in Names : ProductStep(n)
  BY <1>3 DEF OnboardStep, CheckOnboardStatus, ReadForm, StartProduct, OnboardAttemptFails,
              RetryOnboard, OnboardFails,
              ProductStep, ProductWorks, ProductBreaks, WriteProvisioned, WriteFailed
<1>4. CASE Outside \/ LateStep \/ UNCHANGED vars
  BY <1>4, LateLeaves
     DEF Outside, ConfirmIntent, InvoiceGenerated, PaymentDecided, LagoChanges, vars
<1>5. ASSUME NEW r \in Requests, Arrive(r) \/ HandlerDies(r)
      PROVE  told' = told \/ told' = TRUE
  BY <1>5 DEF Arrive, HandlerDies
<1>6. QED
  BY <1>1, <1>2, <1>3, <1>4, <1>5 DEF PatientNext

\* A step that touches none of it, and brings no handler to its transaction.
LEMMA SubscriptionKept ==
    ASSUME OneSubscription, LagoIsKnown, UNCHANGED <<subs, failed, lago, ended>>,
           row'.status = "Absent" => row.status = "Absent",
           \/ verify' = verify
           \/ verify.pc \in Closed /\ verify'.pc = "status",
           \A q \in Requests : req'[q] = req[q] \/ req'[q].pc # "replace"
    PROVE  OneSubscription' /\ LagoIsKnown'
<1>1. OneSubscription'
  BY DEF OneSubscription, At, Closed
<1>2. LagoIsKnown'
  BY DEF LagoIsKnown, PaymentFails, Closed
<1>3. QED
  BY <1>1, <1>2

\* Where a handler goes.
LEMMA GoesTo ==
    ASSUME TypeOK, NEW r \in Requests, NEW q \in Busy, q = req[r], NEW p \in Positions,
           Goto(r, p)
    PROVE  req'[r].pc = p /\ \A o \in Requests \ {r} : req'[o] = req[o]
<1>1. req' = [req EXCEPT ![r] = [q EXCEPT !.pc = p]]
  BY DEF Goto, Moves
<1>2. [q EXCEPT !.pc = p].pc = p
  BY DEF Busy
<1>3. QED
  BY <1>1, <1>2 DEF TypeOK

LEMMA ForgetsTo ==
    ASSUME TypeOK, NEW r \in Requests, NEW q \in Busy, q = req[r], NEW p \in Positions,
           Forgets(r, p)
    PROVE  req'[r].pc = p
<1>1. q.op \in Ops
  BY DEF Busy
<1>2. [Idle EXCEPT !.op = q.op, !.pc = p].pc = p
  BY <1>1, FreshLocals
<1>3. QED
  BY <1>2 DEF Forgets, Moves, TypeOK

LEMMA SubscriptionHandler ==
    ASSUME TypeOK, OneAtATime, OneSubscription, LagoIsKnown,
           NEW r \in Requests, HandlerStep(r)
    PROVE  OneSubscription' /\ LagoIsKnown'
<1> USE DEF tables, billing, workflows
<1>1. /\ verify.pc \in Closed
      /\ \A q \in Requests \ {r} : req[q] = Idle
      /\ \A q \in Requests \ {r} : req'[q] = req[q]
  BY HandlerMoves DEF OneAtATime, WorkflowsClosed
<1>2. PICK q \in Busy : q = req[r]
  <2>1. PICK p \in Positions : At(r, p)
    BY DEF HandlerStep, ReadCustomer, InsertCustomer, BillCustomer, FindFailedInvoice,
           ReplaceSubscription, UpdateBilling, RereadCustomer, CheckIntent, MarkStale,
           StartVerify, Positions
  <2>2. QED
    BY <2>1, AtIsBusy
<1>3. Answer(r) => req'[r].pc # "replace"
  BY DEF Answer, Moves, Idle, TypeOK
<1>4. \A p \in Positions : Goto(r, p) \/ Forgets(r, p) => req'[r].pc = p
  BY <1>2, GoesTo, ForgetsTo
<1>5. CASE ReadCustomer(r) /\ ~Moves(r, [req[r] EXCEPT !.pc = "find", !.key = row.key])
  <2>1. req'[r].pc # "replace"
    BY <1>3, <1>4, <1>5 DEF ReadCustomer, Positions
  <2>2. QED
    BY <1>1, <1>5, <2>1, SubscriptionKept DEF ReadCustomer
<1>6. CASE ReadCustomer(r) /\ Moves(r, [req[r] EXCEPT !.pc = "find", !.key = row.key])
  <2>1. [q EXCEPT !.pc = "find", !.key = row.key].pc = "find"
    BY DEF Busy
  <2>2. req'[r].pc # "replace"
    BY <1>2, <1>6, <2>1 DEF Moves, TypeOK
  <2>3. QED
    BY <1>1, <1>6, <2>2, SubscriptionKept DEF ReadCustomer
<1>7. CASE InsertCustomer(r)
  <2>1. CASE row.status # "Absent"
    BY <1>1, <1>3, <1>7, <2>1, SubscriptionKept DEF InsertCustomer
  <2>2. CASE row.status = "Absent"
    <3>1. PICK s \in Subs : subs' = {s} /\ row'.status # "Absent"
      BY <1>7, <2>2 DEF InsertCustomer
    <3>2. /\ UNCHANGED <<failed, lago, ended, verify>> /\ subs = {} /\ failed = {}
          /\ req'[r].pc # "replace"
      BY <1>4, <1>7, <2>2 DEF InsertCustomer, Positions, OneSubscription
    <3>3. OneSubscription'
      BY <1>1, <3>1, <3>2 DEF OneSubscription, Closed, VerifyPc, At, Idle
    <3>4. LagoIsKnown'
      BY <3>2 DEF LagoIsKnown, PaymentFails
    <3>5. QED
      BY <3>3, <3>4
  <2>3. QED
    BY <2>1, <2>2
<1>8. CASE FindFailedInvoice(r)
  <2>1. PICK f \in Subs \cup {NoSub} :
          /\ IF failed = {} THEN f = NoSub ELSE f \in failed
          /\ Moves(r, [q EXCEPT !.pc = "replace", !.fail = f])
    BY <1>2, <1>8 DEF FindFailedInvoice
  <2>2. [q EXCEPT !.pc = "replace", !.fail = f].fail = f
    BY DEF Busy
  <2>3. req'[r].fail = f
    BY <2>1, <2>2 DEF Moves, TypeOK
  <2>4. UNCHANGED <<row, subs, failed, lago, ended, verify>>
    BY <1>8 DEF FindFailedInvoice
  <2>5. OneSubscription'
    BY <1>1, <2>1, <2>3, <2>4 DEF OneSubscription, At, Idle
  <2>6. LagoIsKnown'
    BY <2>4 DEF LagoIsKnown, PaymentFails
  <2>7. QED
    BY <2>5, <2>6
<1>9. CASE ReplaceSubscription(r)
  <2>1. [q EXCEPT !.pc = "rebill", !.name = NoName, !.fail = NoSub].pc = "rebill"
    BY DEF Busy
  <2>2. /\ req'[r].pc # "replace" /\ At(r, "replace") /\ UNCHANGED <<lago, ended, verify>>
        /\ row'.status = row.status
    BY <1>2, <1>9, <2>1 DEF ReplaceSubscription, TypeOK, Row
  <2>3. CASE q.fail = NoSub
    BY <1>1, <1>2, <1>9, <2>2, <2>3, SubscriptionKept DEF ReplaceSubscription
  <2>4. CASE q.fail # NoSub
    <3>1. q.fail \in failed /\ failed \subseteq subs /\ subs = {q.fail}
      BY <1>2, <2>2, <2>4 DEF OneSubscription
    <3>2. PICK s \in Subs : Fresh(s) /\ subs' = (subs \ {q.fail}) \cup {s} /\ failed' = {}
      BY <1>2, <1>9, <2>4 DEF ReplaceSubscription
    <3>3. failed \subseteq ended
      BY <1>1 DEF LagoIsKnown, PaymentFails, Closed
    <3>4. OneSubscription'
      BY <1>1, <2>2, <3>1, <3>2 DEF OneSubscription, Closed, VerifyPc, At, Idle
    <3>5. LagoIsKnown'
      BY <2>2, <3>1, <3>2, <3>3 DEF LagoIsKnown
    <3>6. QED
      BY <3>4, <3>5
  <2>5. QED
    BY <2>3, <2>4
<1>10. CASE RereadCustomer(r)
  <2>1. [q EXCEPT !.pc = "intent", !.key = row.key].pc = "intent"
    BY DEF Busy
  <2>2. req'[r].pc # "replace"
    BY <1>2, <1>3, <1>10, <2>1 DEF RereadCustomer, Moves, TypeOK
  <2>3. QED
    BY <1>1, <1>10, <2>2, SubscriptionKept DEF RereadCustomer
<1>11. CASE BillCustomer(r) \/ UpdateBilling(r) \/ CheckIntent(r)
  <2>1. req'[r].pc # "replace"
    BY <1>3, <1>4, <1>11 DEF BillCustomer, UpdateBilling, CheckIntent, Positions
  <2>2. QED
    BY <1>1, <1>11, <2>1, SubscriptionKept DEF BillCustomer, UpdateBilling, CheckIntent
<1>12. CASE MarkStale(r)
  <2>1. req'[r].pc # "replace" /\ row'.status = "Stale"
    BY <1>4, <1>12 DEF MarkStale, Positions, TypeOK, Row
  <2>2. QED
    BY <1>1, <1>12, <2>1, SubscriptionKept DEF MarkStale
<1>13. CASE StartVerify(r)
  BY <1>1, <1>3, <1>13, SubscriptionKept DEF StartVerify
<1>14. QED
  BY <1>5, <1>6, <1>7, <1>8, <1>9, <1>10, <1>11, <1>12, <1>13 DEF HandlerStep


\* A further attempt of the payment check, as long as there is one.
LEMMA TriesAgain ==
    ASSUME TypeOK, NEW p \in VerifyPc, Retry(p), ~told'
    PROVE  verify'.pc = p /\ verify'.sub = verify.sub
BY DEF Retry, TypeOK, Verify

\* Between its activities.
LEMMA VerifyKept ==
    ASSUME OneSubscription, LagoIsKnown, UNCHANGED <<subs, failed, lago, ended, req>>,
           row'.status = "Absent" => row.status = "Absent",
           verify'.sub = verify.sub, verify'.pc \in VerifyPc => verify.pc \in VerifyPc \ {"status"},
           PaymentFails => PaymentFails'
    PROVE  OneSubscription' /\ LagoIsKnown'
<1>1. OneSubscription'
  BY DEF OneSubscription, At
<1>2. LagoIsKnown'
  BY DEF LagoIsKnown
<1>3. QED
  BY <1>1, <1>2

\* The payment check works on the one row, and gives the failed subscription
\* its end before it closes.
LEMMA SubscriptionVerify ==
    ASSUME TypeOK, OneAtATime, OneSubscription, LagoIsKnown, VerifyStep, ~told'
    PROVE  OneSubscription' /\ LagoIsKnown'
<1> USE DEF tables, billing, callers, VerifyAt
<1>1. req' = req
  BY WorkflowIsOpen
<1>2. \A p \in VerifyPc \cup Closed : VerifyNext(p) =>
        verify'.pc = p /\ verify'.sub = verify.sub
  BY VerifyNextType
<1>3. CASE FetchOnboardInfo
  <2>1. CASE row.status = "Provisioned"
    <3>1. verify'.pc = "ended" /\ verify'.sub = verify.sub /\ verify.pc = "status"
      BY <1>2, <1>3, <2>1 DEF FetchOnboardInfo, Closed
    <3>2. QED
      BY <1>1, <1>3, <3>1, VerifyKept DEF FetchOnboardInfo, VerifyPc, PaymentFails
  <2>2. CASE row.status # "Provisioned"
    <3>1. verify'.pc = "subscribe" /\ verify'.sub \in subs /\ verify.pc = "status"
      BY <1>3, <2>2 DEF FetchOnboardInfo
    <3>2. UNCHANGED <<row, subs, failed, lago, ended>>
      BY <1>3 DEF FetchOnboardInfo
    <3>3. QED
      BY <1>1, <3>1, <3>2 DEF OneSubscription, At, LagoIsKnown, PaymentFails
  <2>3. QED
    BY <2>1, <2>2
<1>4. CASE Subscribe
  <2>1. verify.pc = "subscribe" /\ verify'.pc = "invoice" /\ verify'.sub = verify.sub
        /\ verify.sub \in subs /\ verify.sub \in Subs
    BY <1>2, <1>4 DEF Subscribe, VerifyPc, OneSubscription, TypeOK
  <2>2. UNCHANGED <<row, subs, failed, ended>>
        /\ \A s \in Subs : lago'[s] = lago[s] \/ s = verify.sub
    BY <1>4, <2>1 DEF Subscribe, TypeOK
  <2>3. OneSubscription'
    BY <1>1, <2>1, <2>2 DEF OneSubscription, At
  <2>4. LagoIsKnown'
    BY <2>1, <2>2 DEF LagoIsKnown, PaymentFails
  <2>5. QED
    BY <2>3, <2>4
<1>5. CASE InvoiceSeen \/ PaymentSeen
  <2>1. /\ verify.pc \in {"invoice", "payment"} /\ verify'.sub = verify.sub
        /\ verify'.pc \in {"payment", "mark", "record"}
    BY <1>2, <1>5 DEF InvoiceSeen, PaymentSeen, VerifyPc
  <2>2. QED
    BY <1>1, <1>5, <2>1, VerifyKept DEF InvoiceSeen, PaymentSeen, VerifyPc, PaymentFails
<1>6. CASE RecordFailure
  <2>1. /\ verify.pc = "record" /\ verify'.pc = "reset" /\ verify'.sub = verify.sub
        /\ verify.sub \in subs /\ failed' = failed \cup {verify.sub}
        /\ UNCHANGED <<row, subs, lago, ended>>
    BY <1>6 DEF RecordFailure, OneSubscription, VerifyPc, TypeOK, Verify
  <2>2. \A r \in Requests : ~At(r, "replace")
    BY <1>6 DEF RecordFailure, OneAtATime, WorkflowsClosed, Closed, At, Idle
  <2>3. OneSubscription'
    BY <1>1, <2>1, <2>2 DEF OneSubscription, At
  <2>4. LagoIsKnown'
    BY <2>1 DEF LagoIsKnown, PaymentFails
  <2>5. QED
    BY <2>3, <2>4
<1>7. CASE ResetIntent \/ MailFailure
  <2>1. /\ verify.pc \in {"reset", "mail"} /\ verify'.sub = verify.sub
        /\ verify'.pc \in {"mail", "cleanup"}
    BY <1>2, <1>7 DEF ResetIntent, MailFailure, VerifyPc, TypeOK, Verify
  <2>2. row'.status = "Absent" => row.status = "Absent"
    BY <1>7 DEF ResetIntent, MailFailure, TypeOK, Row
  <2>3. QED
    BY <1>1, <1>7, <2>1, <2>2, VerifyKept DEF ResetIntent, MailFailure, VerifyPc, PaymentFails
<1>8. CASE CleanUp
  <2>1. /\ verify.pc = "cleanup" /\ verify'.pc = "ended" /\ verify'.sub = verify.sub
        /\ UNCHANGED <<row, subs, failed, lago>>
    BY <1>2, <1>8 DEF CleanUp, Closed
  <2>2. OneSubscription'
    BY <1>1, <2>1 DEF OneSubscription, At, VerifyPc
  <2>3. ended \subseteq ended' /\ failed \subseteq ended'
    BY <1>8 DEF CleanUp, OneSubscription
  <2>4. LagoIsKnown'
    BY <2>1, <2>3 DEF LagoIsKnown
  <2>5. QED
    BY <2>2, <2>4
<1>9. CASE MarkProvisioning
  <2>1. /\ verify.pc = "mark" /\ verify'.pc = "start" /\ verify'.sub = verify.sub
        /\ row'.status = "Provisioning"
    BY <1>9 DEF MarkProvisioning, TypeOK, Verify, Row
  <2>2. QED
    BY <1>1, <1>9, <2>1, VerifyKept DEF MarkProvisioning, VerifyPc, PaymentFails
<1>10. CASE StartOnboard
  <2>1. /\ verify.pc = "start" /\ verify'.sub = verify.sub
        /\ verify'.pc \in {"mark", "ended"}
    BY <1>2, <1>10, TriesAgain DEF StartOnboard, VerifyPc, Closed
  <2>2. QED
    BY <1>1, <1>10, <2>1, VerifyKept DEF StartOnboard, VerifyPc, PaymentFails
<1>11. CASE VerifyAttemptFails
  <2>1. /\ verify'.sub = verify.sub /\ verify.pc \in VerifyPc
        /\ \/ verify.pc \in {"record", "reset", "mail"} /\ verify'.pc = "record"
           \/ verify.pc \in {"mark", "start"} /\ verify'.pc = "mark"
           \/ verify'.pc = verify.pc
    BY <1>11, TriesAgain DEF VerifyAttemptFails, VerifyPc
  <2>2. UNCHANGED <<row, subs, failed, lago, ended>>
    BY <1>11 DEF VerifyAttemptFails
  <2>3. OneSubscription'
    BY <1>1, <2>1, <2>2 DEF OneSubscription, At
  <2>4. LagoIsKnown'
    BY <2>1, <2>2 DEF LagoIsKnown, PaymentFails
  <2>5. QED
    BY <2>3, <2>4
<1>12. QED
  BY <1>3, <1>4, <1>5, <1>6, <1>7, <1>8, <1>9, <1>10, <1>11 DEF VerifyStep


\* Everything else: other workflows, Lago and Stripe, requests that come and
\* go.
LEMMA SubscriptionOther ==
    ASSUME TypeOK, OneSubscription, LagoIsKnown,
           \/ OnboardStep \/ (\E n \in Names : ProductStep(n)) \/ LateStep
           \/ Outside \/ UNCHANGED vars
           \/ \E r \in Requests : Arrive(r) \/ HandlerDies(r)
    PROVE  OneSubscription' /\ LagoIsKnown'
<1> USE DEF tables, billing, workflows, callers
<1>1. CASE OnboardStep
  BY <1>1, SubscriptionKept DEF OnboardStep, CheckOnboardStatus, ReadForm, StartProduct,
     OnboardAttemptFails
<1>2. CASE (\E n \in Names : ProductStep(n)) \/ LateStep
  <2>1. \A n, s : WithStatus(n, s).status = "Absent" => row.status = "Absent" \/ s = "Absent"
    BY DEF WithStatus, TypeOK, Row
  <2>2. row'.status = "Absent" => row.status = "Absent"
    BY <1>2, <2>1 DEF ProductStep, ProductWorks, ProductBreaks, WriteProvisioned, WriteFailed,
       LateStep, WriteLingers, LateWriteLands, LateWrite, TypeOK
  <2>3. UNCHANGED <<subs, failed, lago, ended, verify, req>>
    BY <1>2, LateLeaves DEF ProductStep, ProductWorks, ProductBreaks, WriteProvisioned,
       WriteFailed
  <2>4. QED
    BY <2>2, <2>3, SubscriptionKept
<1>3. CASE Outside
  <2>1. UNCHANGED <<row, subs, failed, ended, verify, req>>
    BY <1>3 DEF Outside, ConfirmIntent, InvoiceGenerated, PaymentDecided, LagoChanges
  <2>2. \A s \in Subs : lago'[s] # "absent" => lago[s] # "absent"
    BY <1>3 DEF Outside, ConfirmIntent, InvoiceGenerated, PaymentDecided, LagoChanges, TypeOK
  <2>3. OneSubscription'
    BY <2>1 DEF OneSubscription, At
  <2>4. LagoIsKnown'
    BY <2>1, <2>2 DEF LagoIsKnown, PaymentFails
  <2>5. QED
    BY <2>3, <2>4
<1>4. ASSUME NEW r \in Requests, Arrive(r) \/ HandlerDies(r)
      PROVE  OneSubscription' /\ LagoIsKnown'
  <2>1. UNCHANGED <<tables, billing, workflows>>
    BY <1>4 DEF Arrive, HandlerDies
  <2>2. CASE HandlerDies(r)
    <3>1. \A q \in Requests : req'[q] = req[q] \/ req'[q].pc # "replace"
      BY <2>2 DEF HandlerDies, Idle, TypeOK
    <3>2. QED
      BY <2>1, <3>1, SubscriptionKept
  <2>3. CASE Arrive(r)
    <3>1. PICK op \in Ops, n \in Names \cup {NoName} :
            req' = [req EXCEPT ![r] = [Idle EXCEPT !.op = op, !.pc = Entry[op], !.name = n]]
      BY <2>3 DEF Arrive
    <3>2. [Idle EXCEPT !.op = op, !.pc = Entry[op], !.name = n].pc # "replace"
      BY DEF Idle, Entry, Ops
    <3>3. \A q \in Requests : req'[q] = req[q] \/ req'[q].pc # "replace"
      BY <3>1, <3>2 DEF TypeOK
    <3>4. QED
      BY <2>1, <3>3, SubscriptionKept
  <2>4. QED
    BY <1>4, <2>2, <2>3
<1>5. CASE UNCHANGED vars
  BY <1>5, SubscriptionKept DEF vars
<1>6. QED
  BY <1>1, <1>2, <1>3, <1>4, <1>5

-----------------------------------------------------------------------------
(* The theorems                                                            *)

LEMMA PatientStep ==
    IInv /\ PatientInv /\ [PatientNext]_vars => (IInv /\ PatientInv)'
<1> SUFFICES ASSUME IInv, PatientInv, [PatientNext]_vars
             PROVE  IInv' /\ PatientInv'
  OBVIOUS
<1>1. IInv' /\ TypeOK
  BY PatientIsNext, InvariantStep DEF IInv
<1>2. OneAtATime'
  BY <1>1, OneAtATimeStep DEF PatientInv
<1>3. ASSUME ~told'
      PROVE  OneSubscription' /\ LagoIsKnown'
  <2>1. OneAtATime /\ OneSubscription /\ LagoIsKnown
    BY <1>3, ToldLasts DEF PatientInv
  <2>2. QED
    BY <1>1, <1>3, <2>1, SubscriptionHandler, SubscriptionVerify, SubscriptionOther
       DEF PatientNext
<1>4. QED
  BY <1>1, <1>2, <1>3 DEF PatientInv

LEMMA PatientInit == Init => IInv /\ PatientInv
<1> SUFFICES ASSUME Init PROVE PatientInv
  BY InitEstablishes
<1>1. OneAtATime
  BY DEF Init, OneAtATime
<1>2. OneSubscription
  BY DEF Init, OneSubscription, VerifyPc, At, Idle
<1>3. LagoIsKnown
  BY DEF Init, LagoIsKnown
<1>4. QED
  BY <1>1, <1>2, <1>3 DEF PatientInv

(* A patient customer is the subject of one request or workflow at a time, *)
(* and until something breaks down his one subscription row, the payment   *)
(* check and Lago agree.                                                   *)
THEOREM PatientInvariant == PatientSpec => []PatientInv
<1>1. QED
  BY PatientInit, PatientStep, PTL DEF PatientSpec

(* A patient customer is billed for one subscription, however often his    *)
(* payment fails and he signs up again: every other one that Lago knows of *)
(* has an end.                                                             *)
THEOREM PatientBilledOnce == PatientSpec => []BilledOnce
<1>1. PatientInv => BilledOnce
  BY DEF PatientInv, OneSubscription, LagoIsKnown, BilledOnce
<1>2. QED
  BY <1>1, PatientInit, PatientStep, PTL DEF PatientSpec

(* When all is quiet, a subscription whose payment failed and that the     *)
(* tables no longer know is ended at Lago.                                 *)
THEOREM PatientFailuresEnded == PatientSpec => []FailedSubscriptionEnded
<1>1. PatientInv => FailedSubscriptionEnded
  BY DEF PatientInv, LagoIsKnown, FailedSubscriptionEnded
<1>2. QED
  BY <1>1, PatientInit, PatientStep, PTL DEF PatientSpec
=============================================================================
