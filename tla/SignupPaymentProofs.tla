------------------------- MODULE SignupPaymentProofs -------------------------
(***************************************************************************)
(* Proofs about SignupPayment, for every number of subscriptions, names,   *)
(* requests and attempts: nobody is provisioned who has not paid, and the  *)
(* components together implement PaidProvisioning.                         *)
(***************************************************************************)
EXTENDS SignupPayment, TLAPS

-----------------------------------------------------------------------------
(* Types                                                                   *)

\* A handler that moves on keeps the type of its locals.
LEMMA MovesType ==
    ASSUME TypeOK, NEW r \in Requests, NEW q \in Busy \cup {Idle}, Moves(r, q)
    PROVE  /\ req' \in [Requests -> Busy \cup {Idle}]
           /\ UNCHANGED <<issued, orphaned, told>>
BY DEF TypeOK, Moves

\* A handler at some position has locals.
LEMMA AtIsBusy ==
    ASSUME TypeOK, NEW r \in Requests, NEW p \in Positions, At(r, p)
    PROVE  req[r] \in Busy
BY DEF TypeOK, At, Idle, Positions

\* Going to another position keeps the type of the locals.
LEMMA GotoType ==
    ASSUME TypeOK, NEW r \in Requests, NEW q \in Busy, q = req[r],
           NEW p \in Positions, Goto(r, p)
    PROVE  /\ req' \in [Requests -> Busy \cup {Idle}]
           /\ UNCHANGED <<issued, orphaned, told>>
<1>1. [q EXCEPT !.pc = p] \in Busy
  BY DEF Busy
<1>2. QED
  BY <1>1, MovesType DEF Goto

\* The locals of a handler that has read nothing yet.
LEMMA FreshLocals ==
    ASSUME NEW o \in Ops, NEW p \in Positions
    PROVE  /\ [Idle EXCEPT !.op = o, !.pc = p] \in Busy
           /\ [Idle EXCEPT !.op = o, !.pc = p].pc = p
<1>1. 1 \in Keys
  BY ConstantsAssumption DEF Keys
<1>2. QED
  BY <1>1 DEF Idle, Busy

\* So does going on without what it read.
LEMMA ForgetsType ==
    ASSUME TypeOK, NEW r \in Requests, NEW q \in Busy, q = req[r],
           NEW p \in Positions, Forgets(r, p)
    PROVE  /\ req' \in [Requests -> Busy \cup {Idle}]
           /\ UNCHANGED <<issued, orphaned, told>>
<1>1. q.op \in Ops
  BY DEF Busy
<1>2. [Idle EXCEPT !.op = q.op, !.pc = p] \in Busy
  BY <1>1, FreshLocals
<1>3. QED
  BY <1>2, MovesType DEF Forgets

\* So does answering.
LEMMA AnswerType ==
    ASSUME TypeOK, NEW r \in Requests, Answer(r)
    PROVE  /\ req' \in [Requests -> Busy \cup {Idle}]
           /\ UNCHANGED <<issued, orphaned, told>>
BY MovesType DEF Answer

\* The steps of the HTTP handlers keep every type.
LEMMA TypeHandler ==
    ASSUME IInv, NEW r \in Requests, HandlerStep(r)
    PROVE  TypeOK'
<1> USE DEF tables, billing, workflows, IInv
<1>0. UNCHANGED late
  BY DEF HandlerStep
<1> USE <1>0
<1>1. CASE ReadCustomer(r)
  <2>1. PICK q \in Busy : q = req[r]
    BY <1>1, AtIsBusy DEF ReadCustomer, Positions
  <2>2. [q EXCEPT !.pc = "find", !.key = row.key] \in Busy
    BY DEF Busy, Positions, TypeOK, Row
  <2>3. /\ req' \in [Requests -> Busy \cup {Idle}]
        /\ UNCHANGED <<issued, orphaned, told>>
    BY <1>1, <2>1, <2>2, GotoType, AnswerType, MovesType
       DEF ReadCustomer, Positions
  <2>4. QED
    BY <1>1, <2>3 DEF ReadCustomer, TypeOK
<1>2. CASE InsertCustomer(r)
  <2>1. PICK q \in Busy : q = req[r]
    BY <1>2, AtIsBusy DEF InsertCustomer, Positions
  <2>2. /\ req' \in [Requests -> Busy \cup {Idle}]
        /\ UNCHANGED <<issued, orphaned, told>>
    BY <1>2, <2>1, ForgetsType, AnswerType DEF InsertCustomer, Positions
  <2>3. [status |-> "NotApplicable", tenant |-> q.name, key |-> 1] \in Row
    BY ConstantsAssumption DEF Row, TenantStatus, Keys, Busy
  <2>4. row' \in Row /\ subs' \subseteq Subs /\ failed' \subseteq Subs
    BY <1>2, <2>1, <2>3 DEF InsertCustomer, TypeOK
  <2>5. QED
    BY <1>2, <2>2, <2>4 DEF InsertCustomer, TypeOK
<1>3. CASE BillCustomer(r)
  <2>1. PICK q \in Busy : q = req[r]
    BY <1>3, AtIsBusy DEF BillCustomer, Positions
  <2>2. /\ req' \in [Requests -> Busy \cup {Idle}]
        /\ UNCHANGED <<issued, orphaned, told>>
    BY <1>3, <2>1, GotoType, AnswerType DEF BillCustomer, Positions
  <2>3. QED
    BY <1>3, <2>2 DEF BillCustomer, TypeOK
<1>4. CASE FindFailedInvoice(r)
  <2>1. PICK q \in Busy : q = req[r]
    BY <1>4, AtIsBusy DEF FindFailedInvoice, Positions
  <2>2. PICK f \in Subs \cup {NoSub} :
          Moves(r, [q EXCEPT !.pc = "replace", !.fail = f])
    BY <1>4, <2>1 DEF FindFailedInvoice
  <2>3. [q EXCEPT !.pc = "replace", !.fail = f] \in Busy
    BY DEF Busy, Positions
  <2>4. /\ req' \in [Requests -> Busy \cup {Idle}]
        /\ UNCHANGED <<issued, orphaned, told>>
    BY <2>2, <2>3, MovesType
  <2>5. QED
    BY <1>4, <2>4 DEF FindFailedInvoice, TypeOK
<1>5. CASE ReplaceSubscription(r)
  <2>1. PICK q \in Busy : q = req[r]
    BY <1>5, AtIsBusy DEF ReplaceSubscription, Positions
  <2>2. [q EXCEPT !.pc = "rebill", !.name = NoName, !.fail = NoSub] \in Busy
    BY DEF Busy, Positions
  <2>3. req' \in [Requests -> Busy \cup {Idle}]
    BY <1>5, <2>1, <2>2 DEF ReplaceSubscription, TypeOK
  <2>4. row' \in Row
    BY <1>5, <2>1 DEF ReplaceSubscription, TypeOK, Row, Busy
  <2>5. subs' \subseteq Subs /\ failed' \subseteq Subs
    BY <1>5 DEF ReplaceSubscription, TypeOK
  <2>6. orphaned' \in BOOLEAN
    BY <1>5 DEF ReplaceSubscription, TypeOK
  <2>7. QED
    BY <1>5, <2>3, <2>4, <2>5, <2>6 DEF ReplaceSubscription, TypeOK
<1>6. CASE UpdateBilling(r)
  <2>1. PICK q \in Busy : q = req[r]
    BY <1>6, AtIsBusy DEF UpdateBilling, Positions
  <2>2. /\ req' \in [Requests -> Busy \cup {Idle}]
        /\ UNCHANGED <<issued, orphaned, told>>
    BY <1>6, <2>1, ForgetsType, AnswerType DEF UpdateBilling, Positions
  <2>3. QED
    BY <1>6, <2>2 DEF UpdateBilling, TypeOK
<1>7. CASE RereadCustomer(r)
  <2>1. PICK q \in Busy : q = req[r]
    BY <1>7, AtIsBusy DEF RereadCustomer, Positions
  <2>2. [q EXCEPT !.pc = "intent", !.key = row.key] \in Busy
    BY DEF Busy, Positions, TypeOK, Row
  <2>3. /\ req' \in [Requests -> Busy \cup {Idle}]
        /\ UNCHANGED <<issued, orphaned, told>>
    BY <1>7, <2>1, <2>2, AnswerType, MovesType DEF RereadCustomer
  <2>4. QED
    BY <1>7, <2>3 DEF RereadCustomer, TypeOK
<1>8. CASE CheckIntent(r)
  <2>1. PICK q \in Busy : q = req[r]
    BY <1>8, AtIsBusy DEF CheckIntent, Positions
  <2>2. /\ req' \in [Requests -> Busy \cup {Idle}]
        /\ UNCHANGED <<issued, orphaned, told>>
    BY <1>8, <2>1, ForgetsType, AnswerType DEF CheckIntent, Positions
  <2>3. QED
    BY <1>8, <2>2 DEF CheckIntent, TypeOK
<1>9. CASE MarkStale(r)
  <2>1. PICK q \in Busy : q = req[r]
    BY <1>9, AtIsBusy DEF MarkStale, Positions
  <2>2. /\ req' \in [Requests -> Busy \cup {Idle}]
        /\ UNCHANGED <<issued, orphaned, told>>
    BY <1>9, <2>1, GotoType DEF MarkStale, Positions
  <2>3. row' \in Row
    BY <1>9 DEF MarkStale, TypeOK, Row, TenantStatus
  <2>4. QED
    BY <1>9, <2>2, <2>3 DEF MarkStale, TypeOK
<1>10. CASE StartVerify(r)
  <2>1. /\ req' \in [Requests -> Busy \cup {Idle}]
        /\ UNCHANGED <<issued, orphaned, told>>
    BY <1>10, AnswerType DEF StartVerify
  <2>2. verify' \in Verify
    BY <1>10 DEF StartVerify, TypeOK, Verify, VerifyPc
  <2>3. QED
    BY <1>10, <2>1, <2>2 DEF StartVerify, TypeOK
<1>11. QED
  BY <1>1, <1>2, <1>3, <1>4, <1>5, <1>6, <1>7, <1>8, <1>9, <1>10
     DEF HandlerStep

\* The payment check goes on to its next activity.
LEMMA VerifyNextType ==
    ASSUME TypeOK, NEW p \in VerifyPc \cup Closed, VerifyNext(p)
    PROVE  verify' \in Verify /\ verify'.pc = p /\ verify'.sub = verify.sub
BY DEF TypeOK, VerifyNext, Verify

\* A failed attempt leads back to the first commit or to the end.
LEMMA RetryType ==
    ASSUME TypeOK, NEW p \in VerifyPc, Retry(p)
    PROVE  /\ verify' \in Verify /\ told' \in BOOLEAN
           /\ verify'.pc \in {p, "ended"} /\ verify'.sub = verify.sub
<1>1. verify \in Verify /\ told \in BOOLEAN /\ verify.tries + 1 \in Nat
  BY DEF TypeOK, Verify
<1>2. CASE /\ verify' = [verify EXCEPT !.pc = p, !.tries = @ + 1]
           /\ UNCHANGED told
  BY <1>1, <1>2 DEF Verify
<1>3. CASE VerifyNext("ended") /\ told' = TRUE
  BY <1>3, VerifyNextType DEF Closed
<1>4. QED
  BY <1>2, <1>3 DEF Retry

\* The activities of OnboardPaymentVerifyWorkflow keep every type.
LEMMA TypeVerify ==
    ASSUME IInv, VerifyStep
    PROVE  TypeOK' /\ SubKnown'
<1> USE DEF tables, billing, workflows, callers, IInv, VerifyAt
<1>00. UNCHANGED late
  BY DEF VerifyStep
<1> USE <1>00
<1>0. /\ VerifyPc \cup Closed \subseteq VerifyPc \cup Closed
      /\ \A p \in VerifyPc : p \notin Closed
  BY DEF VerifyPc, Closed
<1>1. CASE FetchOnboardInfo
  <2>1. verify' \in Verify /\ SubKnown'
    BY <1>1, VerifyNextType
       DEF FetchOnboardInfo, SubKnown, TypeOK, Verify, VerifyPc, Closed
  <2>2. QED
    BY <1>1, <2>1 DEF FetchOnboardInfo, TypeOK
<1>2. CASE Subscribe
  <2>1. verify' \in Verify /\ SubKnown'
    BY <1>2, VerifyNextType DEF Subscribe, SubKnown, VerifyPc
  <2>2. lago' \in [Subs -> LagoState]
    BY <1>2 DEF Subscribe, TypeOK, LagoState
  <2>3. QED
    BY <1>2, <2>1, <2>2 DEF Subscribe, TypeOK
<1>3. CASE InvoiceSeen
  <2>1. verify' \in Verify /\ SubKnown'
    BY <1>3, VerifyNextType DEF InvoiceSeen, SubKnown, VerifyPc
  <2>2. QED
    BY <1>3, <2>1 DEF InvoiceSeen, TypeOK
<1>4. CASE PaymentSeen
  <2>1. verify' \in Verify /\ SubKnown'
    BY <1>4, VerifyNextType DEF PaymentSeen, SubKnown, VerifyPc
  <2>2. QED
    BY <1>4, <2>1 DEF PaymentSeen, TypeOK
<1>5. CASE RecordFailure
  <2>1. verify' \in Verify /\ SubKnown' /\ verify.sub \in Subs
    BY <1>5 DEF RecordFailure, SubKnown, VerifyPc, TypeOK, Verify
  <2>2. QED
    BY <1>5, <2>1 DEF RecordFailure, TypeOK
<1>6. CASE ResetIntent
  <2>1. verify' \in Verify /\ SubKnown'
    BY <1>6 DEF ResetIntent, SubKnown, VerifyPc, TypeOK, Verify
  <2>2. row.key \in confirmed => row.key + 1 \in Keys
    BY ConstantsAssumption DEF KeysLeft, TypeOK, Row, Keys
  <2>3. row' \in Row
    BY <1>6, <2>2 DEF ResetIntent, TypeOK, Row, TenantStatus
  <2>4. QED
    BY <1>6, <2>1, <2>3 DEF ResetIntent, TypeOK
<1>7. CASE MailFailure
  <2>1. verify' \in Verify /\ SubKnown'
    BY <1>7, VerifyNextType DEF MailFailure, SubKnown, VerifyPc
  <2>2. QED
    BY <1>7, <2>1 DEF MailFailure, TypeOK
<1>8. CASE CleanUp
  <2>1. verify' \in Verify /\ SubKnown'
    BY <1>0, <1>8, VerifyNextType DEF CleanUp, SubKnown, Closed
  <2>2. ended' \subseteq Subs
    BY <1>8 DEF CleanUp, TypeOK
  <2>3. QED
    BY <1>8, <2>1, <2>2 DEF CleanUp, TypeOK
<1>9. CASE MarkProvisioning
  <2>1. verify' \in Verify /\ SubKnown'
    BY <1>9 DEF MarkProvisioning, SubKnown, VerifyPc, TypeOK, Verify
  <2>2. row' \in Row
    BY <1>9 DEF MarkProvisioning, TypeOK, Row, TenantStatus
  <2>3. QED
    BY <1>9, <2>1, <2>2 DEF MarkProvisioning, TypeOK
<1>10. CASE StartOnboard
  <2>1. verify' \in Verify /\ SubKnown' /\ told' \in BOOLEAN
    <3>1. VerifyNext("ended") \/ Retry("mark")
      BY <1>10 DEF StartOnboard
    <3>2. CASE Retry("mark")
      BY <1>0, <1>10, <3>2, RetryType DEF StartOnboard, SubKnown, VerifyPc
    <3>3. CASE VerifyNext("ended")
      <4>1. verify' \in Verify /\ verify'.pc = "ended"
        BY <3>3, VerifyNextType DEF Closed
      <4>2. told' \in BOOLEAN
        BY <1>10, RetryType DEF StartOnboard, VerifyPc, TypeOK
      <4>3. QED
        BY <1>0, <4>1, <4>2 DEF SubKnown, Closed
    <3>4. QED
      BY <3>1, <3>2, <3>3
  <2>2. onb' \in Onboard
    BY <1>10 DEF StartOnboard, TypeOK, Onboard
  <2>3. QED
    BY <1>10, <2>1, <2>2 DEF StartOnboard, TypeOK
<1>11. CASE VerifyAttemptFails
  <2>1. PICK p \in VerifyPc : Retry(p) /\ (p # "status" => verify.sub \in Subs)
    BY <1>11 DEF VerifyAttemptFails, VerifyPc, SubKnown
  <2>2. verify' \in Verify /\ SubKnown' /\ told' \in BOOLEAN
    BY <1>0, <2>1, RetryType DEF SubKnown, Closed
  <2>3. QED
    BY <1>11, <2>2 DEF VerifyAttemptFails, TypeOK
<1>12. QED
  BY <1>1, <1>2, <1>3, <1>4, <1>5, <1>6, <1>7, <1>8, <1>9, <1>10, <1>11
     DEF VerifyStep

\* OnboardWorkflow keeps every type.
LEMMA TypeOnboard ==
    ASSUME TypeOK, OnboardStep
    PROVE  TypeOK'
<1> USE DEF tables, billing, callers
<1>1. onb \in Onboard /\ told \in BOOLEAN /\ onb.tries \in Nat /\ row.tenant \in Names \cup {NoName}
  BY DEF TypeOK, Onboard, Row
<1>2. \A p \in {"launch", "ended"} : OnboardNext(p) => onb' \in Onboard
  BY DEF OnboardNext, Onboard, Closed
<1>3. \A p \in {"status", "launch"} : RetryOnboard(p) => onb' \in Onboard /\ told' \in BOOLEAN
  <2> SUFFICES ASSUME NEW p \in {"status", "launch"}, RetryOnboard(p)
               PROVE  onb' \in Onboard /\ told' \in BOOLEAN
    OBVIOUS
  <2>1. [pc |-> p, tries |-> onb.tries + 1, name |-> NoName] \in Onboard
    BY <1>1 DEF Onboard
  <2>2. QED
    BY <1>1, <1>2, <2>1 DEF RetryOnboard, OnboardFails
<1>4. onb' \in Onboard /\ told' \in BOOLEAN
  <2>1. CASE CheckOnboardStatus
    BY <1>1, <1>2, <2>1 DEF CheckOnboardStatus, OnboardFails
  <2>2. CASE ReadForm
    <3>1. [onb EXCEPT !.pc = "start", !.name = row.tenant] \in Onboard
      BY <1>1 DEF Onboard
    <3>2. QED
      BY <1>1, <1>2, <2>2, <3>1 DEF ReadForm, OnboardFails
  <2>3. CASE StartProduct
    BY <1>1, <1>2, <1>3, <2>3 DEF StartProduct
  <2>4. CASE OnboardAttemptFails
    BY <1>3, <2>4 DEF OnboardAttemptFails
  <2>5. QED
    BY <2>1, <2>2, <2>3, <2>4 DEF OnboardStep
<1>5. prod' \in [Names -> ProductPc]
  BY DEF OnboardStep, CheckOnboardStatus, ReadForm, StartProduct, OnboardAttemptFails, TypeOK,
         ProductPc
<1>6. QED
  BY <1>4, <1>5 DEF OnboardStep, CheckOnboardStatus, ReadForm, StartProduct,
     OnboardAttemptFails, TypeOK

\* The product's workflow keeps every type.
LEMMA TypeProduct ==
    ASSUME TypeOK, NEW n \in Names, ProductStep(n)
    PROVE  TypeOK'
<1> USE DEF tables, billing, callers
<1>1. \A s \in TenantStatus : WithStatus(n, s) \in Row
  BY DEF WithStatus, TypeOK, Row
<1>2. row' \in Row
  BY <1>1 DEF ProductStep, ProductWorks, ProductBreaks, WriteProvisioned,
     WriteFailed, TypeOK, TenantStatus
<1>3. prod' \in [Names -> ProductPc]
  BY DEF ProductStep, ProductWorks, ProductBreaks, WriteProvisioned,
     WriteFailed, ProductGoes, TypeOK, ProductPc, Closed
<1>4. QED
  BY <1>2, <1>3 DEF ProductStep, ProductWorks, ProductBreaks,
     WriteProvisioned, WriteFailed, TypeOK

\* So do the status writes that nobody waits for.
LEMMA TypeLate ==
    ASSUME TypeOK, LateStep
    PROVE  TypeOK'
<1> USE DEF tables, billing, workflows, callers
<1>1. ASSUME NEW n \in Names, WriteLingers(n)
      PROVE  TypeOK'
  <2>1. [name |-> n, status |-> Writes[prod[n]]] \in LateWrite
    BY <1>1 DEF WriteLingers, Writes, LateWrite
  <2>2. QED
    BY <1>1, <2>1 DEF WriteLingers, TypeOK
<1>2. ASSUME NEW w \in late, LateWriteLands(w)
      PROVE  TypeOK'
  <2>1. w \in LateWrite
    BY DEF TypeOK
  <2>2. WithStatus(w.name, w.status) \in Row
    BY <2>1 DEF WithStatus, TypeOK, Row, LateWrite, TenantStatus
  <2>3. QED
    BY <1>2, <2>2 DEF LateWriteLands, TypeOK
<1>3. QED
  BY <1>1, <1>2 DEF LateStep

\* What Lago and Stripe do on their own.
LEMMA TypeOutside ==
    ASSUME TypeOK, KeysLeft, Outside
    PROVE  TypeOK' /\ KeysLeft'
<1> USE DEF tables, workflows, callers
<1>1. CASE ConfirmIntent
  BY <1>1 DEF ConfirmIntent, TypeOK, Row, KeysLeft
<1>2. ASSUME NEW s \in Subs, InvoiceGenerated(s) \/ PaymentDecided(s)
      PROVE  TypeOK' /\ KeysLeft'
  <2>1. lago' \in [Subs -> LagoState]
    BY <1>2 DEF InvoiceGenerated, PaymentDecided, LagoChanges, TypeOK,
       LagoState
  <2>2. QED
    BY <1>2, <2>1 DEF InvoiceGenerated, PaymentDecided, LagoChanges, TypeOK,
       KeysLeft
<1>3. QED
  BY <1>1, <1>2 DEF Outside

-----------------------------------------------------------------------------
(* Payments                                                                *)

\* A subscription that is paid for stays so, whatever happens.
LEMMA PaymentLasts ==
    ASSUME IInv, [Next]_vars, Paid
    PROVE  Paid'
<1>1. PICK s \in Subs : lago[s] = "paid"
  BY DEF Paid
<1>2. lago' = lago \/ Subscribe \/ \E t \in Subs : InvoiceGenerated(t) \/ PaymentDecided(t)
  BY DEF Next, HandlerStep, VerifyStep, OnboardStep, ProductStep, LateStep, Outside,
     Arrive, HandlerDies, ReadCustomer, InsertCustomer, BillCustomer,
     FindFailedInvoice, ReplaceSubscription, UpdateBilling, RereadCustomer,
     CheckIntent, MarkStale, StartVerify, FetchOnboardInfo, InvoiceSeen,
     PaymentSeen, RecordFailure, ResetIntent, MailFailure, CleanUp,
     MarkProvisioning, StartOnboard, VerifyAttemptFails, CheckOnboardStatus,
     ReadForm, StartProduct, OnboardAttemptFails, ProductWorks, ProductBreaks,
     WriteProvisioned, WriteFailed, WriteLingers, LateWriteLands, ConfirmIntent, billing, vars
<1>3. lago'[s] = "paid"
  BY <1>1, <1>2 DEF Subscribe, InvoiceGenerated, PaymentDecided, LagoChanges,
     IInv, TypeOK
<1>4. QED
  BY <1>3 DEF Paid

\* Before the first payment no step marks, starts or launches anything.
Unpaid ==
    /\ verify.pc \notin {"mark", "start"}
    /\ onb.pc = "none"
    /\ \A n \in Names : prod[n] = "none"
    /\ late = {}
    /\ row.status \notin Answered

\* Before a payment no handler step leads to an answered status.
LEMMA UnpaidHandler ==
    ASSUME IInv, Unpaid, NEW r \in Requests,
           Arrive(r) \/ HandlerStep(r) \/ HandlerDies(r)
    PROVE  Unpaid'
<1> USE DEF tables, billing, workflows, callers, Unpaid
<1>0. UNCHANGED late
  BY DEF Arrive, HandlerStep, HandlerDies
<1> USE <1>0
<1>1. row \in Row /\ verify \in Verify
  BY DEF IInv, TypeOK
<1>2. CASE InsertCustomer(r)
  BY <1>1, <1>2 DEF InsertCustomer, Answered
<1>3. CASE ReplaceSubscription(r)
  BY <1>1, <1>3 DEF ReplaceSubscription, Row
<1>4. CASE MarkStale(r)
  BY <1>1, <1>4 DEF MarkStale, Row, Answered
<1>5. CASE StartVerify(r)
  BY <1>1, <1>5 DEF StartVerify
<1>6. CASE \/ Arrive(r) \/ HandlerDies(r) \/ ReadCustomer(r) \/ BillCustomer(r)
           \/ FindFailedInvoice(r) \/ UpdateBilling(r) \/ RereadCustomer(r)
           \/ CheckIntent(r)
  BY <1>6 DEF Arrive, HandlerDies, ReadCustomer, BillCustomer,
     FindFailedInvoice, UpdateBilling, RereadCustomer, CheckIntent
<1>7. QED
  BY <1>2, <1>3, <1>4, <1>5, <1>6 DEF HandlerStep

\* Nor does a step of the payment check.
LEMMA UnpaidVerify ==
    ASSUME IInv, Unpaid, ~Paid, VerifyStep
    PROVE  Unpaid'
<1> USE DEF tables, billing, workflows, callers, Unpaid, VerifyAt
<1>0. UNCHANGED late
  BY DEF VerifyStep
<1> USE <1>0
<1>1. row \in Row /\ verify \in Verify /\ TypeOK
  BY DEF IInv, TypeOK
<1>2. ASSUME NEW p \in VerifyPc \cup Closed, VerifyNext(p)
      PROVE  verify'.pc = p
  BY <1>1, <1>2, VerifyNextType
<1>3. CASE FetchOnboardInfo
  BY <1>2, <1>3 DEF FetchOnboardInfo, Closed
<1>4. CASE Subscribe \/ InvoiceSeen \/ MailFailure \/ CleanUp
  BY <1>2, <1>4 DEF Subscribe, InvoiceSeen, MailFailure, CleanUp, Closed,
     VerifyPc
<1>5. CASE PaymentSeen
  <2>1. lago[verify.sub] # "paid"
    BY <1>5 DEF PaymentSeen, IInv, SubKnown, VerifyPc, Paid
  <2>2. QED
    BY <1>2, <1>5, <2>1 DEF PaymentSeen, VerifyPc
<1>6. CASE RecordFailure
  BY <1>1, <1>6 DEF RecordFailure, Verify
<1>7. CASE ResetIntent
  BY <1>1, <1>7 DEF ResetIntent, Verify, Row, Answered
<1>8. CASE VerifyAttemptFails
  <2>1. PICK p \in VerifyPc : Retry(p) /\ p \notin {"mark", "start"}
    BY <1>8 DEF VerifyAttemptFails, VerifyPc
  <2>2. verify'.pc \in {p, "ended"}
    BY <1>1, <2>1, RetryType
  <2>3. QED
    BY <1>8, <2>1, <2>2 DEF VerifyAttemptFails
<1>9. QED
  BY <1>3, <1>4, <1>5, <1>6, <1>7, <1>8
     DEF VerifyStep, MarkProvisioning, StartOnboard

\* Whatever step is taken, what needed a payment still has one.
LEMMA GateStep ==
    ASSUME IInv, [Next]_vars
    PROVE  ProvisioningIsPaid' /\ PaidBeforeProvisioning'
<1>1. CASE Paid
  BY <1>1, PaymentLasts DEF ProvisioningIsPaid, PaidBeforeProvisioning
<1>2. CASE ~Paid
  <2>1. Unpaid
    BY <1>2 DEF IInv, ProvisioningIsPaid, LateComesAfter, PaidBeforeProvisioning, Unpaid
  <2>2. ~OnboardStep /\ ~LateStep /\ \A n \in Names : ~ProductStep(n)
    BY <2>1 DEF Unpaid, OnboardStep, CheckOnboardStatus, ReadForm, StartProduct,
       OnboardAttemptFails, ProductStep, ProductWorks, ProductBreaks,
       WriteProvisioned, WriteFailed, LateStep, WriteLingers, Writes
  <2>3. Outside \/ UNCHANGED vars => Unpaid'
    BY <2>1 DEF Outside, ConfirmIntent, InvoiceGenerated, PaymentDecided,
       LagoChanges, Unpaid, tables, workflows, vars
  <2>4. Unpaid'
    BY <1>2, <2>1, <2>2, <2>3, UnpaidHandler, UnpaidVerify DEF Next
  <2>5. QED
    BY <2>4 DEF Unpaid, ProvisioningIsPaid, PaidBeforeProvisioning
<1>3. QED
  BY <1>1, <1>2

\* A status write that lingers comes from a build, which has not been undone.
LEMMA LateStepKept ==
    ASSUME IInv, [Next]_vars
    PROVE  LateComesAfter'
<1> USE DEF tables, billing, workflows, callers, IInv
<1>1. \A n \in Names : prod[n] # "none" => prod'[n] # "none"
  <2>1. \/ UNCHANGED prod
        \/ prod' = [prod EXCEPT ![onb.name] = "working"]
        \/ \E n \in Names, p \in ProductPc \ {"none"} : prod' = [prod EXCEPT ![n] = p]
    <3>1. CASE \/ VerifyStep \/ LateStep \/ Outside \/ UNCHANGED vars
               \/ \E r \in Requests : Arrive(r) \/ HandlerStep(r) \/ HandlerDies(r)
      BY <3>1 DEF VerifyStep, LateStep, Outside, Arrive, HandlerStep, HandlerDies, ReadCustomer,
             InsertCustomer, BillCustomer, FindFailedInvoice, ReplaceSubscription, UpdateBilling,
             RereadCustomer, CheckIntent, MarkStale, StartVerify, FetchOnboardInfo, Subscribe,
             InvoiceSeen, PaymentSeen, RecordFailure, ResetIntent, MailFailure, CleanUp,
             MarkProvisioning, StartOnboard, VerifyAttemptFails, WriteLingers, LateWriteLands,
             ConfirmIntent, InvoiceGenerated, PaymentDecided, LagoChanges, vars
    <3>2. CASE OnboardStep
      BY <3>2 DEF OnboardStep, CheckOnboardStatus, ReadForm, StartProduct, OnboardAttemptFails
    <3>3. ASSUME NEW n \in Names, ProductStep(n)
          PROVE  \E p \in ProductPc \ {"none"} : prod' = [prod EXCEPT ![n] = p]
      BY <3>3 DEF ProductStep, ProductWorks, ProductBreaks, WriteProvisioned, WriteFailed,
             ProductGoes, ProductPc, Closed
    <3>4. QED
      BY <3>1, <3>2, <3>3 DEF Next
  <2>2. QED
    BY <2>1 DEF TypeOK
<1>2. CASE LateStep
  <2>1. ASSUME NEW n \in Names, WriteLingers(n)
        PROVE  prod[n] # "none"
    BY <2>1 DEF WriteLingers, Writes
  <2>2. \E n \in Names : prod[n] # "none"
    BY <1>2, <2>1 DEF LateStep, LateComesAfter
  <2>3. QED
    BY <1>1, <2>2 DEF LateComesAfter
<1>3. CASE ~LateStep
  <2>1. UNCHANGED late
    BY <1>3 DEF Next, VerifyStep, OnboardStep, ProductStep, Outside, Arrive, HandlerStep,
           HandlerDies, ConfirmIntent, InvoiceGenerated, PaymentDecided, LagoChanges, vars
  <2>2. QED
    BY <1>1, <2>1 DEF LateComesAfter
<1>4. QED
  BY <1>2, <1>3

-----------------------------------------------------------------------------
(* Names                                                                   *)

\* A handler that will write a name has one, and who has a subscription row
\* has one too, whatever a handler does.
LEMMA KnownHandler ==
    ASSUME TypeOK, KnownByName, NEW r \in Requests, HandlerStep(r)
    PROVE  KnownByName'
<1> USE DEF tables, billing, workflows
<1> DEFINE Named == {"read", "insert", "find", "replace"}
<1>1. PICK q \in Busy : q = req[r]
  <2>1. PICK p \in Positions : At(r, p)
    BY DEF HandlerStep, ReadCustomer, InsertCustomer, BillCustomer, FindFailedInvoice,
           ReplaceSubscription, UpdateBilling, RereadCustomer, CheckIntent, MarkStale,
           StartVerify, Positions
  <2>2. QED
    BY <2>1, AtIsBusy
<1>2. ASSUME NEW locals, req' = [req EXCEPT ![r] = locals],
             locals.pc \in Named => locals.name \in Names,
             subs' # {} => row'.tenant \in Names
      PROVE  KnownByName'
  BY <1>2 DEF KnownByName, TypeOK
<1>3. Idle.pc \notin Named /\ \A p \in Positions \ Named : [Idle EXCEPT !.op = q.op, !.pc = p].pc \notin Named
  BY DEF Idle
<1>4. \A p \in Positions : [q EXCEPT !.pc = p].pc = p /\ [q EXCEPT !.pc = p].name = q.name
  BY DEF Busy
<1>5. Answer(r) /\ UNCHANGED <<subs, row>> => KnownByName'
  BY <1>2, <1>3 DEF Answer, Moves, KnownByName
<1>6. \A p \in Positions \ Named :
        (Goto(r, p) \/ Forgets(r, p)) /\ subs' = subs /\ row'.tenant = row.tenant => KnownByName'
  <2> SUFFICES ASSUME NEW p \in Positions \ Named, Goto(r, p) \/ Forgets(r, p),
                      subs' = subs, row'.tenant = row.tenant
               PROVE  KnownByName'
    OBVIOUS
  <2>1. CASE Goto(r, p)
    BY <1>1, <1>2, <1>4, <2>1 DEF Goto, Moves, KnownByName
  <2>2. CASE Forgets(r, p)
    BY <1>1, <1>2, <1>3, <2>2 DEF Forgets, Moves, KnownByName
  <2>3. QED
    BY <2>1, <2>2
<1>7. CASE ReadCustomer(r)
  <2>1. q.name \in Names /\ UNCHANGED <<subs, row>>
    BY <1>1, <1>7 DEF ReadCustomer, At, KnownByName
  <2>2. CASE Goto(r, "insert")
    BY <1>1, <1>2, <1>4, <2>1, <2>2 DEF Goto, Moves, KnownByName, Positions
  <2>3. CASE Moves(r, [req[r] EXCEPT !.pc = "find", !.key = row.key])
    <3>1. [q EXCEPT !.pc = "find", !.key = row.key].name = q.name
      BY DEF Busy
    <3>2. QED
      BY <1>1, <1>2, <2>1, <2>3, <3>1 DEF Moves, KnownByName
  <2>4. QED
    BY <1>5, <1>7, <2>1, <2>2, <2>3 DEF ReadCustomer
<1>8. CASE InsertCustomer(r)
  <2>1. CASE row.status # "Absent"
    BY <1>5, <1>8, <2>1 DEF InsertCustomer
  <2>2. CASE row.status = "Absent"
    <3>1. q.name \in Names /\ row'.tenant = q.name /\ Forgets(r, "bill")
      BY <1>1, <1>8, <2>2 DEF InsertCustomer, At, KnownByName
    <3>2. QED
      BY <1>1, <1>2, <1>3, <3>1 DEF Forgets, Moves, Positions
  <2>3. QED
    BY <2>1, <2>2
<1>9. CASE FindFailedInvoice(r)
  <2>1. PICK f \in Subs \cup {NoSub} : Moves(r, [q EXCEPT !.pc = "replace", !.fail = f])
    BY <1>1, <1>9 DEF FindFailedInvoice
  <2>2. q.name \in Names /\ UNCHANGED <<subs, row>>
    BY <1>1, <1>9 DEF FindFailedInvoice, At, KnownByName
  <2>3. [q EXCEPT !.pc = "replace", !.fail = f].name = q.name
    BY DEF Busy
  <2>4. QED
    BY <1>2, <2>1, <2>2, <2>3 DEF Moves, KnownByName
<1>10. CASE ReplaceSubscription(r)
  <2>1. q.name \in Names /\ row'.tenant = q.name
    BY <1>1, <1>10 DEF ReplaceSubscription, At, KnownByName, TypeOK, Row
  <2>2. req' = [req EXCEPT ![r] = [q EXCEPT !.pc = "rebill", !.name = NoName, !.fail = NoSub]]
    BY <1>1, <1>10 DEF ReplaceSubscription
  <2>3. [q EXCEPT !.pc = "rebill", !.name = NoName, !.fail = NoSub].pc = "rebill"
    BY DEF Busy
  <2>4. QED
    BY <1>2, <2>1, <2>2, <2>3
<1>11. CASE RereadCustomer(r)
  <2>1. [q EXCEPT !.pc = "intent", !.key = row.key].pc = "intent"
    BY DEF Busy
  <2>2. CASE Moves(r, [q EXCEPT !.pc = "intent", !.key = row.key])
    BY <1>2, <1>11, <2>1, <2>2 DEF RereadCustomer, Moves, KnownByName
  <2>3. QED
    BY <1>1, <1>5, <1>11, <2>2 DEF RereadCustomer
<1>12. CASE BillCustomer(r) \/ UpdateBilling(r) \/ CheckIntent(r) \/ MarkStale(r) \/ StartVerify(r)
  <2>1. subs' = subs /\ row'.tenant = row.tenant
    BY <1>12 DEF BillCustomer, UpdateBilling, CheckIntent, MarkStale, StartVerify, TypeOK, Row
  <2>2. CASE Answer(r)
    BY <1>2, <1>3, <2>1, <2>2 DEF Answer, Moves, KnownByName
  <2>3. CASE ~Answer(r)
    <3>1. PICK p \in Positions \ Named : Goto(r, p) \/ Forgets(r, p)
      BY <1>12, <2>3 DEF BillCustomer, UpdateBilling, CheckIntent, MarkStale, StartVerify, Positions
    <3>2. QED
      BY <1>6, <2>1, <3>1
  <2>4. QED
    BY <2>2, <2>3
<1>13. QED
  BY <1>7, <1>8, <1>9, <1>10, <1>11, <1>12 DEF HandlerStep

\* No other step gives or takes a name.
LEMMA KnownElsewhere ==
    ASSUME TypeOK, KnownByName,
           \/ VerifyStep \/ OnboardStep \/ (\E n \in Names : ProductStep(n))
           \/ LateStep \/ Outside \/ UNCHANGED vars
    PROVE  KnownByName'
<1> USE DEF tables, billing, workflows, callers
<1>1. UNCHANGED <<subs, req>>
  BY DEF VerifyStep, OnboardStep, ProductStep, LateStep, Outside, FetchOnboardInfo, Subscribe,
         InvoiceSeen, PaymentSeen, RecordFailure, ResetIntent, MailFailure, CleanUp,
         MarkProvisioning, StartOnboard, VerifyAttemptFails, CheckOnboardStatus, ReadForm,
         StartProduct, OnboardAttemptFails, ProductWorks, ProductBreaks, WriteProvisioned,
         WriteFailed, WriteLingers, LateWriteLands, ConfirmIntent, InvoiceGenerated,
         PaymentDecided, LagoChanges, vars
<1>2. \A n, s : WithStatus(n, s).tenant = row.tenant
  BY DEF WithStatus, TypeOK, Row
<1>3. row'.tenant = row.tenant
  <2>1. CASE VerifyStep
    BY <2>1 DEF VerifyStep, FetchOnboardInfo, Subscribe, InvoiceSeen, PaymentSeen, RecordFailure,
           ResetIntent, MailFailure, CleanUp, MarkProvisioning, StartOnboard, VerifyAttemptFails,
           TypeOK, Row
  <2>2. CASE OnboardStep \/ Outside \/ UNCHANGED vars
    BY <2>2 DEF OnboardStep, CheckOnboardStatus, ReadForm, StartProduct, OnboardAttemptFails,
           Outside, ConfirmIntent, InvoiceGenerated, PaymentDecided, LagoChanges, vars
  <2>3. ASSUME NEW n \in Names, ProductStep(n)
        PROVE  row'.tenant = row.tenant
    BY <1>2, <2>3 DEF ProductStep, ProductWorks, ProductBreaks, WriteProvisioned, WriteFailed
  <2>4. CASE LateStep
    BY <1>2, <2>4 DEF LateStep, WriteLingers, LateWriteLands
  <2>5. QED
    BY <2>1, <2>2, <2>3, <2>4
<1>4. QED
  BY <1>1, <1>3 DEF KnownByName

-----------------------------------------------------------------------------
(* The invariant                                                           *)

\* Every step keeps the inductive invariant.
LEMMA InvariantStep == IInv /\ [Next]_vars => IInv'
<1> SUFFICES ASSUME IInv, [Next]_vars PROVE IInv'
  OBVIOUS
<1> USE DEF tables, billing, workflows, callers
<1>1. ProvisioningIsPaid' /\ PaidBeforeProvisioning' /\ LateComesAfter'
  BY GateStep, LateStepKept
<1>2. KeysLeft'
  <2>1. confirmed' = confirmed \/ ConfirmIntent
    BY DEF Next, HandlerStep, VerifyStep, OnboardStep, ProductStep, LateStep, Outside,
       Arrive, HandlerDies, ReadCustomer, InsertCustomer, BillCustomer,
       FindFailedInvoice, ReplaceSubscription, UpdateBilling, RereadCustomer,
       CheckIntent, MarkStale, StartVerify, FetchOnboardInfo, Subscribe,
       InvoiceSeen, PaymentSeen, RecordFailure, ResetIntent, MailFailure,
       CleanUp, MarkProvisioning, StartOnboard, VerifyAttemptFails,
       CheckOnboardStatus, ReadForm, StartProduct, OnboardAttemptFails,
       ProductWorks, ProductBreaks, WriteProvisioned, WriteFailed, WriteLingers,
       LateWriteLands, InvoiceGenerated, PaymentDecided, LagoChanges, vars
  <2>2. QED
    BY <2>1 DEF IInv, KeysLeft, ConfirmIntent
<1>3. ASSUME TypeOK', KnownByName', UNCHANGED verify
      PROVE  IInv'
  BY <1>1, <1>2, <1>3 DEF IInv, SubKnown
<1>4. ASSUME NEW r \in Requests, Arrive(r)
      PROVE  IInv'
  <2>1. PICK op \in Ops, n \in Names \cup {NoName} :
          /\ req' = [req EXCEPT ![r] =
                      [Idle EXCEPT !.op = op, !.pc = Entry[op], !.name = n]]
          /\ op # "subscribe" => n \in Names
    BY <1>4 DEF Arrive
  <2>2. Entry[op] \in Positions /\ (op = "subscribe" => Entry[op] = "reread")
    BY DEF Entry, Ops, Positions
  <2>3. PICK q : /\ q = [Idle EXCEPT !.op = op, !.pc = Entry[op], !.name = n]
                 /\ q \in Busy /\ q.pc = Entry[op] /\ q.name = n
    <3>1. PICK p \in Positions : p = Entry[op]
      BY <2>2
    <3>2. \E q \in Busy : /\ q = [Idle EXCEPT !.op = op, !.pc = p, !.name = n]
                         /\ q.pc = p /\ q.name = n
      <4>1. 1 \in Keys
        BY ConstantsAssumption DEF Keys
      <4>2. /\ [Idle EXCEPT !.op = op, !.pc = p, !.name = n] \in Busy
            /\ [Idle EXCEPT !.op = op, !.pc = p, !.name = n].pc = p
            /\ [Idle EXCEPT !.op = op, !.pc = p, !.name = n].name = n
        BY <4>1 DEF Idle, Busy
      <4>3. QED
        BY <4>2
    <3>3. QED
      BY <3>1, <3>2, Zenon
  <2>5. TypeOK'
    <3>1. req' \in [Requests -> Busy \cup {Idle}]
      BY <2>1, <2>3 DEF IInv, TypeOK
    <3>2. QED
      BY <1>4, <3>1 DEF Arrive, IInv, TypeOK
  <2>6. KnownByName'
    <3>1. req'[r].pc = Entry[op] /\ req'[r].name = n
      BY <2>1, <2>3 DEF IInv, TypeOK
    <3>2. \A s \in Requests \ {r} : req'[s] = req[s]
      BY <2>1 DEF IInv, TypeOK
    <3>3. UNCHANGED <<row, subs>>
      BY <1>4 DEF Arrive
    <3>4. QED
      BY <2>1, <2>2, <3>1, <3>2, <3>3 DEF IInv, KnownByName
  <2>7. QED
    BY <1>3, <1>4, <2>5, <2>6 DEF Arrive
<1>5. ASSUME NEW r \in Requests, HandlerDies(r)
      PROVE  IInv'
  <2>1. KnownByName'
    BY <1>5 DEF HandlerDies, IInv, TypeOK, KnownByName, Idle
  <2>2. QED
    BY <1>3, <1>5, <2>1 DEF HandlerDies, IInv, TypeOK
<1>6. ASSUME NEW r \in Requests, HandlerStep(r)
      PROVE  IInv'
  <2>1. TypeOK'
    BY <1>6, TypeHandler
  <2>2. SubKnown'
    <3>1. CASE StartVerify(r)
      BY <3>1 DEF StartVerify, IInv, SubKnown
    <3>2. CASE ~StartVerify(r)
      <4>1. UNCHANGED verify
        BY <1>6, <3>2 DEF HandlerStep, ReadCustomer, InsertCustomer,
           BillCustomer, FindFailedInvoice, ReplaceSubscription,
           UpdateBilling, RereadCustomer, CheckIntent, MarkStale
      <4>2. QED
        BY <4>1 DEF IInv, SubKnown
    <3>3. QED
      BY <3>1, <3>2
  <2>3. KnownByName'
    BY <1>6, KnownHandler DEF IInv
  <2>4. QED
    BY <1>1, <1>2, <2>1, <2>2, <2>3 DEF IInv
<1>7. CASE VerifyStep
  BY <1>1, <1>2, <1>7, TypeVerify, KnownElsewhere DEF IInv
<1>8. CASE OnboardStep
  BY <1>3, <1>8, TypeOnboard, KnownElsewhere DEF OnboardStep, CheckOnboardStatus, ReadForm,
     StartProduct, OnboardAttemptFails, IInv
<1>9. ASSUME NEW n \in Names, ProductStep(n)
      PROVE  IInv'
  <2>1. TypeOK' /\ KnownByName'
    BY <1>9, TypeProduct, KnownElsewhere DEF IInv
  <2>2. UNCHANGED verify
    BY <1>9 DEF ProductStep, ProductWorks, ProductBreaks, WriteProvisioned, WriteFailed
  <2>3. QED
    BY <1>3, <2>1, <2>2
<1>10. CASE LateStep
  <2>1. TypeOK' /\ KnownByName'
    BY <1>10, TypeLate, KnownElsewhere DEF IInv
  <2>2. UNCHANGED verify
    BY <1>10 DEF LateStep, WriteLingers, LateWriteLands
  <2>3. QED
    BY <1>3, <2>1, <2>2
<1>11. CASE Outside
  BY <1>3, <1>11, TypeOutside, KnownElsewhere DEF Outside, ConfirmIntent, InvoiceGenerated,
     PaymentDecided, LagoChanges, IInv
<1>12. CASE UNCHANGED vars
  <2>1. TypeOK'
    BY <1>12 DEF vars, IInv, TypeOK
  <2>2. QED
    BY <1>3, <1>12, <2>1, KnownElsewhere DEF vars, IInv
<1>13. QED
  BY <1>4, <1>5, <1>6, <1>7, <1>8, <1>9, <1>10, <1>11, <1>12 DEF Next

\* The initial state has it.
LEMMA InitEstablishes == Init => IInv
<1> SUFFICES ASSUME Init PROVE IInv
  OBVIOUS
<1> USE ConstantsAssumption DEF Init
<1>1. row \in Row
  BY DEF Row, TenantStatus, Keys
<1>2. verify \in Verify /\ onb \in Onboard /\ prod \in [Names -> ProductPc]
  BY DEF Verify, Onboard, ProductPc, Closed
<1>3. lago \in [Subs -> LagoState]
  BY DEF LagoState
<1>4. TypeOK
  BY <1>1, <1>2, <1>3 DEF TypeOK
<1>5. QED
  BY <1>4 DEF IInv, SubKnown, VerifyPc, KeysLeft, KnownByName, Idle, ProvisioningIsPaid,
     LateComesAfter, PaidBeforeProvisioning, Answered

(* Tables, workflows, requests and what Lago and Stripe hold keep their    *)
(* types, whatever the number of requests, subscriptions and attempts.     *)
THEOREM TypeCorrect == Spec => []TypeOK
<1>1. IInv => TypeOK
  BY DEF IInv
<1>2. QED
  BY <1>1, InitEstablishes, InvariantStep, PTL DEF Spec

(* No environment is built, and no page says it is on its way, for someone *)
(* who has not paid: not by a lost answer of a start, not by two sign-ups  *)
(* or payment checks that overlap, not by a status left by an earlier one. *)
THEOREM PaymentGate == Spec => []PaidBeforeProvisioning
<1>1. IInv => PaidBeforeProvisioning
  BY DEF IInv
<1>2. QED
  BY <1>1, InitEstablishes, InvariantStep, PTL DEF Spec

-----------------------------------------------------------------------------
(* Refinement                                                              *)

\* A step that leaves payments and the product's workflow alone may show
\* anything but "provisioned", and "in_progress" once the customer paid.
LEMMA ShowStep ==
    ASSUME UNCHANGED prod, Paid' = Paid,
           \/ row'.status = row.status
           \/ row'.status \in {"NotApplicable", "Stale"}
           \/ row'.status = "Provisioning" /\ Paid
    PROVE  [Promise!Next]_(Promise!vars)
<1>1. Env' = Env
  BY DEF Env, Building, Closed
<1>2. CASE row'.status = row.status
  BY <1>1, <1>2 DEF Shown, Promise!vars
<1>3. CASE row'.status \in {"NotApplicable", "Stale"}
  <2>1. Shown' = "signup"
    BY <1>3 DEF Shown
  <2>2. QED
    BY <1>1, <2>1 DEF Promise!Next, Promise!Show, Promise!Shown
<1>4. CASE row'.status = "Provisioning" /\ Paid
  <2>1. Shown' = "in_progress"
    BY <1>4 DEF Shown
  <2>2. QED
    BY <1>1, <1>4, <2>1 DEF Promise!Next, Promise!Show, Promise!Shown
<1>5. QED
  BY <1>2, <1>3, <1>4

\* Payments only change at Lago.
LEMMA SamePayments == UNCHANGED lago => Paid' = Paid
BY DEF Paid

\* A handler step shows something or nothing at all.
LEMMA HandlerRefines ==
    ASSUME IInv, NEW r \in Requests, HandlerStep(r)
    PROVE  [Promise!Next]_(Promise!vars)
<1> USE DEF tables, billing, workflows, IInv
<1>1. UNCHANGED <<lago, prod>>
  BY DEF HandlerStep, ReadCustomer, InsertCustomer, BillCustomer,
     FindFailedInvoice, ReplaceSubscription, UpdateBilling, RereadCustomer,
     CheckIntent, MarkStale, StartVerify
<1>2. CASE InsertCustomer(r)
  <2>1. row' = row \/ row'.status = "NotApplicable"
    BY <1>2 DEF InsertCustomer
  <2>2. QED
    BY <1>1, <2>1, ShowStep, SamePayments
<1>3. CASE ReplaceSubscription(r)
  <2>1. row'.status = row.status
    BY <1>3 DEF ReplaceSubscription, TypeOK, Row
  <2>2. QED
    BY <1>1, <2>1, ShowStep, SamePayments
<1>4. CASE MarkStale(r)
  <2>1. row'.status = "Stale"
    BY <1>4 DEF MarkStale, TypeOK, Row
  <2>2. QED
    BY <1>1, <2>1, ShowStep, SamePayments
<1>5. CASE \/ ReadCustomer(r) \/ BillCustomer(r) \/ FindFailedInvoice(r)
           \/ UpdateBilling(r) \/ RereadCustomer(r) \/ CheckIntent(r)
           \/ StartVerify(r)
  <2>1. row' = row
    BY <1>5 DEF ReadCustomer, BillCustomer, FindFailedInvoice, UpdateBilling,
       RereadCustomer, CheckIntent, StartVerify
  <2>2. QED
    BY <1>1, <2>1, ShowStep, SamePayments
<1>6. QED
  BY <1>2, <1>3, <1>4, <1>5 DEF HandlerStep

\* A step of the payment check does the same.
LEMMA VerifyRefines ==
    ASSUME IInv, VerifyStep
    PROVE  [Promise!Next]_(Promise!vars)
<1> USE DEF tables, billing, workflows, IInv
<1>1. CASE Subscribe
  <2>1. Paid' = Paid
    BY <1>1 DEF Subscribe, Paid, TypeOK
  <2>2. row' = row /\ prod' = prod
    BY <1>1 DEF Subscribe
  <2>3. QED
    BY <2>1, <2>2, ShowStep
<1>2. CASE ResetIntent
  <2>1. row'.status = row.status \/ row'.status = "NotApplicable"
    BY <1>2 DEF ResetIntent, TypeOK, Row
  <2>2. QED
    BY <1>2, <2>1, ShowStep, SamePayments DEF ResetIntent
<1>3. CASE MarkProvisioning
  <2>1. row'.status = "Provisioning"
    BY <1>3 DEF MarkProvisioning, TypeOK, Row
  <2>2. Paid
    BY <1>3 DEF MarkProvisioning, VerifyAt, ProvisioningIsPaid
  <2>3. QED
    BY <1>3, <2>1, <2>2, ShowStep, SamePayments DEF MarkProvisioning
<1>4. CASE \/ FetchOnboardInfo \/ InvoiceSeen \/ PaymentSeen \/ RecordFailure
           \/ MailFailure \/ CleanUp \/ StartOnboard \/ VerifyAttemptFails
  <2>1. UNCHANGED <<row, lago, prod>>
    BY <1>4 DEF FetchOnboardInfo, InvoiceSeen, PaymentSeen, RecordFailure,
       MailFailure, CleanUp, StartOnboard, VerifyAttemptFails
  <2>2. QED
    BY <2>1, ShowStep, SamePayments
<1>5. QED
  BY <1>1, <1>2, <1>3, <1>4 DEF VerifyStep

\* Once a build has begun, a step that leaves payments alone and ends none or
\* the last of the builds may show what PaidProvisioning lets it.
LEMMA BuildRefines ==
    ASSUME IInv, Env \in {"building", "built"}, UNCHANGED lago,
           Env' = Env \/ (Env = "building" /\ Env' = "built"),
           \/ row'.status = row.status
           \/ row'.status = "ProvisioningFailed"
           \/ row'.status = "Provisioned" /\ Env' = Env
    PROVE  [Promise!Next]_(Promise!vars)
<1>1. Paid' = Paid /\ Paid
  <2>1. \E n \in Names : prod[n] # "none"
    <3>1. (\A n \in Names : prod[n] = "none") => Env = "none"
      BY DEF Env, Building, Closed
    <3>2. Env # "none"
      OBVIOUS
    <3>3. QED
      BY <3>1, <3>2
  <2>2. Paid
    BY <2>1 DEF IInv, PaidBeforeProvisioning
  <2>3. Paid' = Paid
    BY SamePayments
  <2>4. QED
    BY <2>2, <2>3
<1>2. Shown \in Promise!Shown
  BY DEF Shown, Promise!Shown
<1>3. CASE row'.status = row.status
  <2>1. Shown' = Shown
    BY <1>3 DEF Shown
  <2>2. QED
    BY <1>1, <2>1 DEF Promise!Next, Promise!Close, Promise!vars
<1>4. CASE row'.status = "ProvisioningFailed"
  <2>1. Shown' = "in_progress"
    BY <1>4 DEF Shown
  <2>2. QED
    BY <1>1, <2>1 DEF Promise!Next, Promise!Close, Promise!Show, Promise!Shown
<1>5. CASE row'.status = "Provisioned" /\ Env' = Env
  <2>1. Shown' = "provisioned"
    BY <1>5 DEF Shown
  <2>2. QED
    BY <1>1, <1>5, <2>1 DEF Promise!Next, Promise!Show, Promise!Shown
<1>6. QED
  BY <1>3, <1>4, <1>5

\* A step of the product's workflow closes the environment, or shows.
LEMMA ProductRefines ==
    ASSUME IInv, NEW n \in Names, ProductStep(n)
    PROVE  [Promise!Next]_(Promise!vars)
<1> USE DEF tables, billing, IInv
<1>1. UNCHANGED lago
  BY DEF ProductStep, ProductWorks, ProductBreaks, WriteProvisioned, WriteFailed
<1>2. Building(n) /\ prod[n] # "none"
  BY DEF ProductStep, ProductWorks, ProductBreaks, WriteProvisioned, WriteFailed, Building, Closed
<1>3. Env = "building"
  BY <1>2 DEF Env
<1>4. \A pc : ProductGoes(n, pc) => prod'[n] = pc
  BY DEF ProductGoes, TypeOK
<1>5. prod'[n] # "none"
  BY <1>4 DEF ProductStep, ProductWorks, ProductBreaks, WriteProvisioned, WriteFailed
<1>6. Env' \in {"building", "built"}
  BY <1>5 DEF Env
<1>7. CASE ProductWorks(n) \/ ProductBreaks(n)
  <2>1. UNCHANGED row
    BY <1>7 DEF ProductWorks, ProductBreaks
  <2>2. QED
    BY <1>1, <1>3, <1>6, <2>1, BuildRefines
<1>8. CASE WriteProvisioned(n)
  <2>1. Building(n)'
    BY <1>4, <1>8 DEF WriteProvisioned, Building, Closed
  <2>2. Env' = Env
    BY <1>3, <1>5, <2>1 DEF Env
  <2>3. row'.status \in {row.status, "Provisioned"}
    BY <1>8 DEF WriteProvisioned, WithStatus, TypeOK, Row
  <2>4. QED
    BY <1>1, <1>3, <2>2, <2>3, BuildRefines
<1>9. CASE WriteFailed(n)
  <2>1. row'.status \in {row.status, "ProvisioningFailed"}
    BY <1>9 DEF WriteFailed, WithStatus, TypeOK, Row
  <2>2. QED
    BY <1>1, <1>3, <1>6, <2>1, BuildRefines
<1>10. QED
  BY <1>7, <1>8, <1>9 DEF ProductStep

\* A status write that nobody waits for shows what its build had come to.
LEMMA LateRefines ==
    ASSUME IInv, LateStep
    PROVE  [Promise!Next]_(Promise!vars)
<1> USE DEF tables, billing, workflows, IInv
<1>1. UNCHANGED <<lago, prod>> /\ Env' = Env
  BY DEF LateStep, WriteLingers, LateWriteLands, Env, Building
<1>2. ASSUME NEW n \in Names, WriteLingers(n)
      PROVE  [Promise!Next]_(Promise!vars)
  BY <1>1, <1>2, ShowStep, SamePayments DEF WriteLingers
<1>3. ASSUME NEW w \in late, LateWriteLands(w)
      PROVE  [Promise!Next]_(Promise!vars)
  <2>1. w \in LateWrite
    BY DEF TypeOK
  <2>2. IInv
    OBVIOUS
  <2>3. row'.status \in {row.status, "Provisioned", "ProvisioningFailed"}
    BY <1>3, <2>1 DEF LateWriteLands, WithStatus, TypeOK, Row, LateWrite
  <2>4. Env \in {"building", "built"}
    BY DEF LateComesAfter, Env
  <2>5. QED
    BY <1>1, <2>2, <2>3, <2>4, BuildRefines
<1>4. QED
  BY <1>2, <1>3 DEF LateStep

\* Every step is a step of PaidProvisioning or a stutter.
LEMMA StepRefines ==
    ASSUME IInv, [Next]_vars
    PROVE  [Promise!Next]_(Promise!vars)
<1> USE DEF tables, billing, workflows, IInv
<1>1. ASSUME UNCHANGED <<row, prod, lago>>
      PROVE  [Promise!Next]_(Promise!vars)
  BY <1>1, ShowStep, SamePayments
<1>2. ASSUME NEW r \in Requests, Arrive(r) \/ HandlerDies(r)
      PROVE  [Promise!Next]_(Promise!vars)
  BY <1>1, <1>2 DEF Arrive, HandlerDies
<1>3. CASE OnboardStep
  <2>1. CASE StartProduct
    <3>1. Paid' = Paid
      BY <2>1, SamePayments DEF StartProduct
    <3>2. Paid
      BY <2>1 DEF StartProduct, ProvisioningIsPaid
    <3>3. Shown' = Shown
      BY <2>1 DEF StartProduct, Shown
    <3>4. CASE UNCHANGED prod
      BY <2>1, <1>1, <3>4 DEF StartProduct
    <3>5. CASE prod' # prod
      <4>1. PICK n \in Names : prod'[n] = "working"
        <5>1. prod' = [prod EXCEPT ![onb.name] = "working"]
          BY <2>1, <3>5 DEF StartProduct
        <5>2. onb.name \in Names
          BY <3>5, <5>1 DEF TypeOK
        <5>3. QED
          BY <5>1, <5>2 DEF TypeOK
      <4>2. Env' = "building"
        BY <4>1 DEF Env, Building, Closed
      <4>3. QED
        BY <3>1, <3>2, <3>3, <4>2 DEF Promise!Next, Promise!Build
    <3>6. QED
      BY <3>4, <3>5
  <2>2. CASE CheckOnboardStatus \/ ReadForm \/ OnboardAttemptFails
    BY <1>1, <2>2 DEF CheckOnboardStatus, ReadForm, OnboardAttemptFails
  <2>3. QED
    BY <1>3, <2>1, <2>2 DEF OnboardStep
<1>4. CASE Outside
  <2>1. Env' = Env /\ Shown' = Shown
    BY <1>4 DEF Outside, ConfirmIntent, InvoiceGenerated, PaymentDecided,
       LagoChanges, Env, Building, Shown
  <2>2. Paid => Paid'
    BY PaymentLasts
  <2>3. Paid \in BOOLEAN /\ Paid' \in BOOLEAN
    BY DEF Paid
  <2>4. QED
    BY <2>1, <2>2, <2>3 DEF Promise!Next, Promise!Pay, Promise!vars
<1>5. CASE UNCHANGED vars
  BY <1>1, <1>5 DEF vars
<1>6. QED
  BY <1>2, <1>3, <1>4, <1>5, HandlerRefines, VerifyRefines, ProductRefines, LateRefines
     DEF Next

(* The handlers, the two workflows and the product's one implement         *)
(* PaidProvisioning: payment, environment and what the pages answer only   *)
(* ever move as it allows, whatever interleaves or breaks down.            *)
THEOREM Refinement == Spec => KeepsPromise
<1>1. Init => Promise!Init
  <2>1. Init => ~Paid /\ Env = "none" /\ Shown = "signup"
    <3> SUFFICES ASSUME Init PROVE ~Paid /\ Env = "none" /\ Shown = "signup"
      OBVIOUS
    <3>1. ~Paid /\ Shown = "signup"
      BY DEF Init, Paid, Shown
    <3>2. \A n \in Names : prod[n] = "none" /\ ~Building(n)
      BY DEF Init, Building, Closed
    <3>3. QED
      BY <3>1, <3>2 DEF Env
  <2>2. Paid \in BOOLEAN
    BY DEF Paid
  <2>3. QED
    BY <2>1, <2>2 DEF Promise!Init
<1>2. IInv /\ [Next]_vars => [Promise!Next]_(Promise!vars)
  BY StepRefines
<1>3. QED
  BY <1>1, <1>2, InitEstablishes, InvariantStep, PTL
     DEF Spec, KeepsPromise, Promise!Spec
=============================================================================
