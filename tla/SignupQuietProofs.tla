-------------------------- MODULE SignupQuietProofs --------------------------
(***************************************************************************)
(* Proof about SignupPayment, for every number of subscriptions, names,    *)
(* requests, setup intents and attempts: as long as nothing breaks down, a *)
(* customer who owes nothing is on the way to his environment - unless a   *)
(* sign-up renames him between the launch's read of his name and the end   *)
(* of the build, which the code does not prevent.                          *)
(***************************************************************************)
EXTENDS SignupPatienceProofs

\* What broke down stays known.
LEMMA StaysTold ==
    ASSUME [Next]_vars
    PROVE  told' = told \/ told' = TRUE
<1>1. ASSUME NEW r \in Requests, Arrive(r)
      PROVE  told' = told \/ told' = TRUE
  BY <1>1 DEF Arrive
<1>2. CASE [PatientNext]_vars
  BY <1>2, ToldLasts
<1>3. QED
  BY <1>1, <1>2 DEF Next, PatientNext

\* A step that changes nothing of what is on the way but the place of handlers
\* that were not about to start a payment check.
LEMMA QuietKept ==
    ASSUME TypeOK, ~told, QuietInv, UNCHANGED <<subs, lago, verify, onb, prod, late>>,
           row'.status = row.status,
           \/ row'.tenant = row.tenant
           \/ orphaned'
           \/ onb.pc # "start" /\ ~Building(row.tenant),
           orphaned => orphaned',
           \A q \in Requests : At(q, "trigger") => At(q, "trigger")'
    PROVE  QuietInv'
<1>1. Awaited' /\ LateIsTold' /\ FailingIsTold'
  BY DEF QuietInv, Awaited, LateIsTold, FailingIsTold
<1>2. OwesNothing' => OwesNothing /\ NothingFails'
  BY DEF QuietInv, OwesNothing, NothingFails, PaymentFails
<1>3. OwesNothing' => orphaned' \/ OnTheWay'
  BY <1>2 DEF QuietInv, OnTheWay, OwesNothing, Building, Closed
<1>4. QED
  BY <1>1, <1>2, <1>3 DEF QuietInv

\* A new subscription is owed.
LEMMA NewIsOwed ==
    ASSUME ~told, QuietInv, UNCHANGED <<lago, verify, prod, late>>,
           NEW s \in subs', lago[s] = "absent"
    PROVE  QuietInv'
<1>1. ~OwesNothing'
  BY DEF OwesNothing
<1>2. Awaited' /\ LateIsTold' /\ FailingIsTold'
  BY DEF QuietInv, Awaited, LateIsTold, FailingIsTold
<1>3. QED
  BY <1>1, <1>2 DEF QuietInv

LEMMA QuietHandler ==
    ASSUME TypeOK, ~told, QuietInv, NEW r \in Requests, HandlerStep(r)
    PROVE  QuietInv'
<1> USE DEF tables, billing, workflows
<1>1. \A q \in Requests \ {r} : req'[q] = req[q]
  BY HandlerMoves
<1>2. PICK q \in Busy : q = req[r]
  <2>1. PICK p \in Positions : At(r, p)
    BY DEF HandlerStep, ReadCustomer, InsertCustomer, BillCustomer, FindFailedInvoice,
           ReplaceSubscription, UpdateBilling, RereadCustomer, CheckIntent, MarkStale,
           StartVerify, Positions
  <2>2. QED
    BY <2>1, AtIsBusy
<1>3. UNCHANGED late
  BY DEF HandlerStep
<1>4. ~At(r, "trigger") => \A o \in Requests : At(o, "trigger") => At(o, "trigger")'
  BY <1>1 DEF At
<1>5. CASE ReadCustomer(r) \/ BillCustomer(r) \/ FindFailedInvoice(r)
  <2>1. UNCHANGED <<row, subs, lago, verify, onb, prod, orphaned>> /\ ~At(r, "trigger")
    BY <1>5 DEF ReadCustomer, BillCustomer, FindFailedInvoice, Goto, Forgets, Answer, Moves, At
  <2>2. QED
    BY <1>3, <1>4, <2>1, QuietKept
<1>6. CASE UpdateBilling(r) \/ RereadCustomer(r) \/ CheckIntent(r)
  <2>1. UNCHANGED <<row, subs, lago, verify, onb, prod, orphaned>> /\ ~At(r, "trigger")
    BY <1>6 DEF UpdateBilling, RereadCustomer, CheckIntent, Goto, Forgets, Answer, Moves,
       At
  <2>2. QED
    BY <1>3, <1>4, <2>1, QuietKept
<1>7. CASE InsertCustomer(r)
  <2>1. CASE row.status = "Absent"
    BY <1>7, <1>3, <2>1, NewIsOwed DEF InsertCustomer, Fresh
  <2>2. CASE row.status # "Absent"
    <3>1. UNCHANGED <<row, subs, lago, verify, onb, prod, orphaned>> /\ ~At(r, "trigger")
      BY <1>7, <2>2 DEF InsertCustomer, Answer, Moves, At
    <3>2. QED
      BY <1>3, <1>4, <3>1, QuietKept
  <2>3. QED
    BY <2>1, <2>2
<1>8. CASE ReplaceSubscription(r)
  <2>1. /\ UNCHANGED <<lago, verify, onb, prod>> /\ ~At(r, "trigger")
        /\ row'.status = row.status /\ row'.tenant = q.name
        /\ orphaned => orphaned'
        /\ \/ orphaned' \/ q.name = row.tenant
           \/ onb.pc # "start" /\ ~Building(row.tenant)
    BY <1>2, <1>8 DEF ReplaceSubscription, At, TypeOK, Row
  <2>2. CASE q.fail = NoSub
    <3>1. UNCHANGED subs
      BY <1>2, <1>8, <2>2 DEF ReplaceSubscription
    <3>2. QED
      BY <1>3, <1>4, <2>1, <3>1, QuietKept
  <2>3. CASE q.fail # NoSub
    <3>1. PICK s \in Subs : s \in subs' /\ lago[s] = "absent"
      BY <1>2, <1>8, <2>3 DEF ReplaceSubscription, Fresh
    <3>2. QED
      BY <1>3, <2>1, <3>1, NewIsOwed
  <2>4. QED
    BY <2>2, <2>3
<1>9. CASE MarkStale(r)
  <2>1. At(r, "trigger")'
    BY <1>2, <1>9, GoesTo DEF MarkStale, Positions, At
  <2>2. UNCHANGED <<subs, lago, verify, prod, late>>
    BY <1>3, <1>9 DEF MarkStale
  <2>3. OnTheWay'
    BY <2>1 DEF OnTheWay
  <2>4. QED
    BY <2>2, <2>3 DEF QuietInv, Awaited, LateIsTold, FailingIsTold, OwesNothing, NothingFails,
       PaymentFails
<1>10. CASE StartVerify(r)
  <2>1. UNCHANGED <<subs, lago, prod, late>>
    BY <1>3, <1>10 DEF StartVerify
  <2>2. CASE verify.pc \in Closed
    <3>1. verify'.pc = "status"
      BY <1>10, <2>2 DEF StartVerify
    <3>2. Awaited' /\ LateIsTold' /\ FailingIsTold'
      BY <2>1, <2>2 DEF QuietInv, Awaited, Closed, LateIsTold, FailingIsTold
    <3>3. NothingFails' /\ OnTheWay'
      BY <3>1 DEF NothingFails, PaymentFails, OnTheWay, VerifyPc
    <3>4. QED
      BY <3>2, <3>3 DEF QuietInv
  <2>3. CASE verify.pc \notin Closed
    <3>1. verify' = verify /\ verify.pc \in VerifyPc
      BY <1>10, <2>3 DEF StartVerify, TypeOK, Verify
    <3>2. OnTheWay'
      BY <3>1 DEF OnTheWay
    <3>3. QED
      BY <2>1, <3>1, <3>2 DEF QuietInv, Awaited, LateIsTold, FailingIsTold, OwesNothing,
         NothingFails, PaymentFails
  <2>4. QED
    BY <2>2, <2>3
<1>11. QED
  BY <1>5, <1>6, <1>7, <1>8, <1>9, <1>10 DEF HandlerStep

\* The payment check between two of its activities.
LEMMA QuietCheckGoesOn ==
    ASSUME ~told, QuietInv, UNCHANGED <<subs, lago, prod, late, orphaned>>,
           verify.pc \in VerifyPc \ {"status"}, verify'.pc \in VerifyPc,
           verify'.sub = verify.sub, PaymentFails' => PaymentFails,
           verify.pc \in {"invoice", "payment"} =>
               verify'.pc \in {"invoice", "payment"} \/ lago[verify.sub] = "paid"
    PROVE  QuietInv'
<1>1. Awaited' /\ LateIsTold' /\ FailingIsTold'
  BY DEF QuietInv, Awaited, LateIsTold, FailingIsTold
<1>2. OwesNothing' => NothingFails' /\ OnTheWay'
  BY DEF QuietInv, OwesNothing, NothingFails, PaymentFails, OnTheWay
<1>3. QED
  BY <1>1, <1>2 DEF QuietInv

LEMMA QuietVerify ==
    ASSUME IInv, ~told, ~told', QuietInv, VerifyStep
    PROVE  QuietInv'
<1> USE DEF tables, billing, callers, VerifyAt, IInv
<1>1. \A p \in VerifyPc \cup Closed : VerifyNext(p) =>
        verify'.pc = p /\ verify'.sub = verify.sub
  BY VerifyNextType
<1>2. UNCHANGED <<prod, late>> /\ LateIsTold' /\ FailingIsTold'
  <2>1. UNCHANGED <<prod, late>>
    BY DEF VerifyStep, FetchOnboardInfo, Subscribe, InvoiceSeen, PaymentSeen, RecordFailure,
           ResetIntent, MailFailure, CleanUp, MarkProvisioning, StartOnboard, VerifyAttemptFails
  <2>2. QED
    BY <2>1 DEF QuietInv, LateIsTold, FailingIsTold
<1>3. CASE FetchOnboardInfo
  <2>1. Awaited' /\ UNCHANGED <<row, subs, lago, orphaned>>
    BY <1>3 DEF FetchOnboardInfo, QuietInv, Awaited
  <2>2. CASE row.status = "Provisioned"
    <3>1. verify'.pc = "ended"
      BY <1>1, <1>3, <2>2 DEF FetchOnboardInfo, Closed
    <3>2. QED
      BY <1>2, <2>1, <2>2, <3>1 DEF QuietInv, NothingFails, PaymentFails, OnTheWay, VerifyPc
  <2>3. CASE row.status # "Provisioned"
    <3>1. verify'.pc = "subscribe" /\ verify'.sub \in subs
      BY <1>3, <2>3 DEF FetchOnboardInfo
    <3>2. QED
      BY <1>2, <2>1, <3>1 DEF QuietInv, OwesNothing, NothingFails, PaymentFails, OnTheWay, VerifyPc
  <2>4. QED
    BY <2>2, <2>3
<1>4. CASE Subscribe
  <2>1. /\ verify.pc = "subscribe" /\ verify'.pc = "invoice" /\ verify'.sub = verify.sub
        /\ verify.sub \in Subs /\ UNCHANGED <<subs, orphaned>>
    BY <1>1, <1>4 DEF Subscribe, VerifyPc, SubKnown
  <2>2. \A s \in Subs : lago[s] \notin {"subscribed", "pending"}
    BY <2>1 DEF QuietInv, Awaited
  <2>3. CASE lago[verify.sub] = "absent"
    <3>1. lago' = [lago EXCEPT ![verify.sub] = "subscribed"]
      BY <1>4, <2>3 DEF Subscribe
    <3>2. Awaited'
      BY <2>1, <2>2, <3>1 DEF Awaited, TypeOK
    <3>3. OwesNothing' => OwesNothing
      BY <2>1, <3>1 DEF OwesNothing, TypeOK
    <3>4. ~OwesNothing
      BY <2>1, <2>3 DEF QuietInv, NothingFails, VerifyPc
    <3>5. QED
      BY <1>2, <3>2, <3>3, <3>4 DEF QuietInv
  <2>4. CASE lago[verify.sub] # "absent"
    <3>1. UNCHANGED lago
      BY <1>4, <2>4 DEF Subscribe
    <3>2. QED
      BY <1>2, <2>1, <3>1, QuietCheckGoesOn DEF PaymentFails, VerifyPc
  <2>5. QED
    BY <2>3, <2>4
<1>5. CASE InvoiceSeen
  <2>1. /\ verify.pc = "invoice" /\ verify'.pc = "payment" /\ verify'.sub = verify.sub
        /\ UNCHANGED <<subs, lago, orphaned>>
    BY <1>1, <1>5 DEF InvoiceSeen, VerifyPc
  <2>2. QED
    BY <1>2, <2>1, QuietCheckGoesOn DEF PaymentFails, VerifyPc
<1>6. CASE PaymentSeen
  <2>1. /\ verify.pc = "payment" /\ verify'.sub = verify.sub
        /\ UNCHANGED <<subs, lago, orphaned>>
    BY <1>1, <1>6 DEF PaymentSeen, VerifyPc
  <2>2. CASE lago[verify.sub] = "paid" /\ VerifyNext("mark")
    <3>1. verify'.pc = "mark"
      BY <1>1, <2>2 DEF VerifyPc
    <3>2. QED
      BY <1>2, <2>1, <2>2, <3>1, QuietCheckGoesOn DEF PaymentFails, VerifyPc
  <2>3. CASE lago[verify.sub] = "unpaid"
    <3>1. ~OwesNothing'
      BY <2>1, <2>3 DEF QuietInv, OwesNothing, NothingFails, VerifyPc
    <3>2. Awaited'
      BY <2>1, <2>3 DEF QuietInv, Awaited
    <3>3. QED
      BY <1>2, <3>1, <3>2 DEF QuietInv
  <2>4. QED
    BY <1>6, <2>2, <2>3 DEF PaymentSeen
<1>7. CASE RecordFailure \/ ResetIntent \/ MailFailure \/ MarkProvisioning
  <2>1. /\ verify'.sub = verify.sub /\ UNCHANGED <<subs, lago, orphaned>>
        /\ \/ PaymentFails /\ verify'.pc \in {"reset", "mail", "cleanup"}
           \/ verify.pc = "mark" /\ verify'.pc = "start"
    BY <1>1, <1>7 DEF RecordFailure, ResetIntent, MailFailure, MarkProvisioning, PaymentFails,
                      VerifyPc, TypeOK, Verify
  <2>2. QED
    BY <1>2, <2>1, QuietCheckGoesOn DEF PaymentFails, VerifyPc
<1>8. CASE CleanUp
  <2>1. UNCHANGED <<subs, lago>> /\ verify.pc = "cleanup"
    BY <1>8 DEF CleanUp
  <2>2. ~OwesNothing' /\ Awaited'
    BY <2>1 DEF QuietInv, OwesNothing, NothingFails, PaymentFails, Awaited
  <2>3. QED
    BY <1>2, <2>2 DEF QuietInv
<1>9. CASE StartOnboard
  <2>1. verify.pc = "start" /\ UNCHANGED <<subs, lago, orphaned>>
    BY <1>9 DEF StartOnboard
  <2>2. CASE verify'.pc = "mark"
    <3>1. verify'.sub = verify.sub
      BY <1>1, <1>9, <2>2, TriesAgain DEF StartOnboard, VerifyPc, Closed
    <3>2. QED
      BY <1>2, <2>1, <2>2, <3>1, QuietCheckGoesOn DEF PaymentFails, VerifyPc
  <2>3. CASE verify'.pc # "mark"
    <3>1. ~Retry("mark")
      BY <2>3, TriesAgain DEF VerifyPc
    <3>2. onb'.pc = "status" /\ verify'.pc = "ended"
      BY <1>1, <1>9, <3>1 DEF StartOnboard, Closed
    <3>3. NothingFails' /\ OnTheWay'
      BY <3>2 DEF NothingFails, PaymentFails, OnTheWay, VerifyPc
    <3>4. Awaited'
      BY <2>1 DEF QuietInv, Awaited
    <3>5. QED
      BY <1>2, <3>3, <3>4 DEF QuietInv
  <2>4. QED
    BY <2>2, <2>3
<1>10. CASE VerifyAttemptFails
  <2>1. /\ verify'.sub = verify.sub /\ UNCHANGED <<subs, lago, orphaned>>
        /\ \/ verify.pc \in {"record", "reset", "mail"} /\ verify'.pc = "record"
           \/ verify.pc \in {"mark", "start"} /\ verify'.pc = "mark"
           \/ /\ verify.pc \in {"status", "subscribe", "invoice", "payment", "cleanup"}
              /\ verify'.pc = verify.pc
    BY <1>10, TriesAgain DEF VerifyAttemptFails, VerifyPc
  <2>2. CASE verify.pc # "status"
    BY <1>2, <2>1, <2>2, QuietCheckGoesOn DEF PaymentFails, VerifyPc
  <2>3. CASE verify.pc = "status"
    <3>1. Awaited'
      BY <2>1, <2>3 DEF QuietInv, Awaited
    <3>2. NothingFails' /\ OnTheWay'
      BY <2>1, <2>3 DEF NothingFails, PaymentFails, OnTheWay, VerifyPc
    <3>3. QED
      BY <1>2, <3>1, <3>2 DEF QuietInv
  <2>4. QED
    BY <2>2, <2>3
<1>11. QED
  BY <1>3, <1>4, <1>5, <1>6, <1>7, <1>8, <1>9, <1>10 DEF VerifyStep

\* Steps of what comes after the payment check.
LEMMA QuietOnboard ==
    ASSUME IInv, ~told, ~told', QuietInv, OnboardStep
    PROVE  QuietInv'
<1> USE DEF tables, billing, callers, IInv
<1>1. UNCHANGED <<row, subs, lago, verify, req, orphaned, late>>
  BY DEF OnboardStep, CheckOnboardStatus, ReadForm, StartProduct, OnboardAttemptFails
<1>2. Awaited' /\ LateIsTold' /\ (OwesNothing' => OwesNothing /\ NothingFails')
  BY <1>1 DEF QuietInv, Awaited, LateIsTold, OwesNothing, NothingFails, PaymentFails
<1>3. \A p : RetryOnboard(p) => onb'.pc = p
  BY DEF RetryOnboard, OnboardFails, TypeOK, Onboard
<1>4. ~OnboardFails
  BY DEF OnboardFails
<1>5. CASE CheckOnboardStatus
  <2>1. onb'.pc = "launch" /\ UNCHANGED prod
    BY <1>4, <1>5 DEF CheckOnboardStatus, OnboardNext
  <2>2. OnTheWay' /\ FailingIsTold'
    BY <2>1 DEF OnTheWay, QuietInv, FailingIsTold
  <2>3. QED
    BY <1>2, <2>2 DEF QuietInv
<1>6. CASE ReadForm
  <2>1. onb'.pc = "start" /\ onb'.name = row.tenant /\ UNCHANGED prod
    BY <1>4, <1>6 DEF ReadForm, TypeOK, Onboard
  <2>2. OnTheWay' /\ FailingIsTold'
    BY <1>1, <2>1 DEF OnTheWay, QuietInv, FailingIsTold
  <2>3. QED
    BY <1>2, <2>2 DEF QuietInv
<1>7. CASE OnboardAttemptFails
  <2>1. onb'.pc \in {"status", "launch"} /\ UNCHANGED prod
    BY <1>3, <1>7 DEF OnboardAttemptFails
  <2>2. OnTheWay' /\ FailingIsTold'
    BY <2>1 DEF OnTheWay, QuietInv, FailingIsTold
  <2>3. QED
    BY <1>2, <2>2 DEF QuietInv
<1>8. CASE StartProduct
  <2>1. CASE Building(onb.name)
    <3>1. onb'.pc = "launch" /\ UNCHANGED prod
      BY <1>3, <1>8, <2>1 DEF StartProduct
    <3>2. OnTheWay' /\ FailingIsTold'
      BY <3>1 DEF OnTheWay, QuietInv, FailingIsTold
    <3>3. QED
      BY <1>2, <3>2 DEF QuietInv
  <2>2. CASE ~Building(onb.name)
    <3>1. prod' = [prod EXCEPT ![onb.name] = "working"] /\ onb.pc = "start"
      BY <1>8, <2>2 DEF StartProduct
    <3>2. FailingIsTold'
      BY <3>1 DEF QuietInv, FailingIsTold, TypeOK
    <3>3. ASSUME OwesNothing, OnTheWay
          PROVE  OnTheWay'
      <4>1. row.tenant \in Names
        BY <3>3 DEF OwesNothing, KnownByName
      <4>2. CASE onb.name = row.tenant
        <5>1. prod'[row.tenant] = "working"
          BY <3>1, <4>1, <4>2 DEF TypeOK
        <5>2. QED
          BY <1>1, <5>1 DEF OnTheWay
      <4>3. CASE onb.name # row.tenant
        <5>1. prod'[row.tenant] = prod[row.tenant]
          BY <3>1, <4>1, <4>3 DEF TypeOK
        <5>2. QED
          BY <1>1, <3>1, <3>3, <4>3, <5>1 DEF OnTheWay, At
      <4>4. QED
        BY <4>2, <4>3
    <3>4. QED
      BY <1>1, <1>2, <3>2, <3>3 DEF QuietInv
  <2>3. QED
    BY <2>1, <2>2
<1>9. QED
  BY <1>5, <1>6, <1>7, <1>8 DEF OnboardStep

\* Steps of a build, as long as nothing breaks down.
LEMMA QuietProduct ==
    ASSUME IInv, ~told, ~told', QuietInv, NEW n \in Names, ProductStep(n)
    PROVE  QuietInv'
<1> USE DEF tables, billing, callers, IInv
<1>1. UNCHANGED <<subs, lago, verify, onb, req, orphaned, late>>
  BY DEF ProductStep, ProductWorks, ProductBreaks, WriteProvisioned, WriteFailed
<1>2. Awaited' /\ LateIsTold' /\ (OwesNothing' => OwesNothing /\ NothingFails')
  BY <1>1 DEF QuietInv, Awaited, LateIsTold, OwesNothing, NothingFails, PaymentFails
<1>3. ProductWorks(n) \/ WriteProvisioned(n)
  BY DEF ProductStep, ProductBreaks, WriteFailed, QuietInv, FailingIsTold
<1>4. PICK p \in {"provisioned", "after", "ended"} :
        /\ prod' = [prod EXCEPT ![n] = p]
        /\ \/ (p = "provisioned" \/ prod[n] = "after") /\ UNCHANGED row
           \/ WriteProvisioned(n)
  BY <1>3 DEF ProductWorks, WriteProvisioned, ProductGoes
<1>5. FailingIsTold'
  BY <1>4 DEF QuietInv, FailingIsTold, TypeOK
<1>6. ASSUME OwesNothing, OnTheWay
      PROVE  OnTheWay'
  <2>1. row.tenant \in Names
    BY <1>6 DEF OwesNothing, KnownByName
  <2>2. /\ prod'[n] = p
        /\ \A m \in Names \ {n} : prod'[m] = prod[m]
    BY <1>4 DEF TypeOK
  <2>3. CASE row' = row /\ (p = "provisioned" \/ prod[n] = "after" \/ row.tenant # n)
    BY <1>1, <1>6, <2>1, <2>2, <2>3 DEF OnTheWay, At
  <2>4. CASE row'.status = "Provisioned"
    BY <2>4 DEF OnTheWay
  <2>5. ASSUME WriteProvisioned(n)
        PROVE  row'.status = "Provisioned" \/ (row' = row /\ row.tenant # n)
    <3>1. row' = IF row.tenant = n THEN [row EXCEPT !.status = "Provisioned"] ELSE row
      BY <2>5 DEF WriteProvisioned, WithStatus
    <3>2. [row EXCEPT !.status = "Provisioned"].status = "Provisioned"
      BY DEF TypeOK, Row
    <3>3. QED
      BY <3>1, <3>2
  <2>6. QED
    BY <1>4, <2>3, <2>4, <2>5
<1>7. QED
  BY <1>1, <1>2, <1>5, <1>6 DEF QuietInv

\* As long as nothing broke down, a write that lingers says Provisioned.
LEMMA QuietLate ==
    ASSUME IInv, ~told, QuietInv, LateStep
    PROVE  QuietInv'
<1> USE DEF tables, billing, workflows, callers, IInv
<1>1. UNCHANGED <<subs, lago, verify, onb, prod, req, orphaned>>
  BY LateLeaves
<1>2. Awaited' /\ FailingIsTold' /\ (OwesNothing' => OwesNothing /\ NothingFails')
  BY <1>1 DEF QuietInv, Awaited, FailingIsTold, OwesNothing, NothingFails, PaymentFails
<1>3. CASE \E n \in Names : WriteLingers(n)
  <2>1. PICK n \in Names : WriteLingers(n)
    BY <1>3
  <2>2. prod[n] = "provisioned"
    BY <2>1 DEF WriteLingers, Writes, QuietInv, FailingIsTold
  <2>3. row' = row /\ late' = late \cup {[name |-> n, status |-> "Provisioned"]}
    BY <2>1, <2>2 DEF WriteLingers, Writes
  <2>4. LateIsTold'
    BY <2>3 DEF QuietInv, LateIsTold
  <2>5. OnTheWay => OnTheWay'
    BY <1>1, <2>3 DEF OnTheWay, At
  <2>6. QED
    BY <1>1, <1>2, <2>4, <2>5 DEF QuietInv
<1>4. CASE \E w \in late : LateWriteLands(w)
  <2>1. PICK w \in late : LateWriteLands(w)
    BY <1>4
  <2>2. row' = row \/ row'.status = "Provisioned"
    BY <2>1 DEF LateWriteLands, WithStatus, QuietInv, LateIsTold, TypeOK, Row
  <2>3. LateIsTold'
    BY <2>1 DEF LateWriteLands, QuietInv, LateIsTold
  <2>4. OnTheWay => OnTheWay'
    BY <1>1, <2>2 DEF OnTheWay, At
  <2>5. QED
    BY <1>1, <1>2, <2>3, <2>4 DEF QuietInv
<1>5. QED
  BY <1>3, <1>4 DEF LateStep

\* Lago decides about the subscription the payment check waits for.
LEMMA QuietOutside ==
    ASSUME IInv, ~told, ~told', QuietInv, Outside
    PROVE  QuietInv'
<1> USE DEF tables, workflows, callers, IInv
<1>1. CASE ConfirmIntent
  <2>1. /\ UNCHANGED <<row, subs, lago, verify, onb, prod, late, orphaned>>
        /\ \A q \in Requests : At(q, "trigger") => At(q, "trigger")'
    BY <1>1 DEF ConfirmIntent, At
  <2>2. QED
    BY <2>1, QuietKept
<1>2. ASSUME NEW s \in Subs, NEW before \in {"subscribed", "pending"},
             NEW after \in {"pending", "paid", "unpaid"}, LagoChanges(s, before, after)
      PROVE  QuietInv'
  <2>1. /\ verify.sub = s /\ verify.pc \in {"invoice", "payment"}
        /\ lago' = [lago EXCEPT ![s] = after] /\ UNCHANGED <<subs, verify>>
        /\ LateIsTold' /\ FailingIsTold'
    BY <1>2 DEF LateIsTold, FailingIsTold, LagoChanges, QuietInv, Awaited
  <2>2. Awaited'
    BY <1>2, <2>1 DEF QuietInv, Awaited, TypeOK
  <2>3. OnTheWay'
    BY <2>1 DEF OnTheWay, VerifyPc
  <2>4. CASE after = "paid"
    BY <2>1, <2>2, <2>3, <2>4 DEF QuietInv, NothingFails, PaymentFails, TypeOK
  <2>5. CASE after # "paid"
    <3>1. OwesNothing' => OwesNothing
      BY <2>1, <2>5 DEF OwesNothing, TypeOK
    <3>2. ~OwesNothing
      BY <1>2, <2>1 DEF QuietInv, NothingFails, VerifyPc, LagoChanges
    <3>3. QED
      BY <2>1, <2>2, <3>1, <3>2 DEF QuietInv
  <2>6. QED
    BY <2>4, <2>5
<1>3. QED
  BY <1>1, <1>2 DEF Outside, InvoiceGenerated, PaymentDecided

LEMMA QuietArrival ==
    ASSUME IInv, ~told, QuietInv, NEW r \in Requests, Arrive(r)
    PROVE  QuietInv'
<1>1. UNCHANGED <<row, subs, lago, verify, onb, prod, late, orphaned>>
  BY DEF Arrive, tables, billing, workflows
<1>2. \A q \in Requests : At(q, "trigger") => At(q, "trigger")'
  BY DEF Arrive, IInv, TypeOK, At, Idle
<1>3. QED
  BY <1>1, <1>2, QuietKept DEF IInv

-----------------------------------------------------------------------------
(* The theorems                                                            *)

LEMMA QuietStep == IInv /\ QuietInv /\ [Next]_vars => (IInv /\ QuietInv)'
<1> SUFFICES ASSUME IInv, QuietInv, [Next]_vars
             PROVE  IInv' /\ QuietInv'
  OBVIOUS
<1>1. CASE told'
  BY <1>1, InvariantStep DEF QuietInv
<1>2. CASE ~told'
  <2>1. ~told
    BY <1>2, StaysTold
  <2>2. CASE UNCHANGED vars
    <3>1. UNCHANGED <<row, subs, lago, verify, onb, prod, late, orphaned, req>>
      BY <2>2 DEF vars, tables, billing, workflows, callers
    <3>2. \A q \in Requests : At(q, "trigger") => At(q, "trigger")'
      BY <3>1 DEF At
    <3>3. QuietInv'
      BY <2>1, <3>1, <3>2, QuietKept DEF IInv
    <3>4. QED
      BY <3>3, InvariantStep
  <2>3. QuietInv'
    BY <1>2, <2>1, <2>2, QuietHandler, QuietVerify, QuietOnboard, QuietProduct, QuietLate,
       QuietOutside, QuietArrival DEF Next, HandlerDies, IInv
  <2>4. QED
    BY <2>3, InvariantStep
<1>3. QED
  BY <1>1, <1>2

LEMMA QuietInit == Init => IInv /\ QuietInv
<1>1. Init => QuietInv
  BY DEF Init, QuietInv, Awaited, OwesNothing, LateIsTold, FailingIsTold
<1>2. QED
  BY <1>1, InitEstablishes

(* As long as nothing broke down, Lago decides only about the subscription *)
(* that the open payment check waits for, and a customer who owes nothing  *)
(* is on the way to his environment, whatever his requests interleave with *)
(* and however late a status write lands - unless he was renamed between   *)
(* the launch's read of his name and the end of the build.                 *)
THEOREM QuietInvariant == Spec => []QuietInv
<1>1. QED
  BY QuietInit, QuietStep, PTL DEF Spec

(* When nothing moves any more and nothing broke down, a customer who owes *)
(* nothing has his environment, if no sign-up renamed him between the      *)
(* launch's read of his name and the end of the build.                     *)
THEOREM PaidIsProvisioned == Spec => []PaidAndQuietIsProvisioned
<1>1. IInv /\ QuietInv => PaidAndQuietIsProvisioned
  <2> SUFFICES ASSUME IInv, QuietInv, Quiet, OwesNothing, ~told, ~orphaned
               PROVE  row.status = "Provisioned"
    BY DEF PaidAndQuietIsProvisioned
  <2>1. OnTheWay
    BY DEF QuietInv
  <2>2. \A r \in Requests : ~At(r, "trigger")
    BY DEF Quiet, At, Idle
  <2>3. row.tenant \in Names
    BY DEF IInv, KnownByName, OwesNothing
  <2>4. QED
    BY <2>1, <2>2, <2>3 DEF OnTheWay, Quiet, WorkflowsClosed, Building, Closed, VerifyPc
<1>2. QED
  BY <1>1, QuietInit, QuietStep, PTL DEF Spec
=============================================================================
