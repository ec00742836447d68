----------------------- MODULE TenantLifecycleProofs -----------------------
(***************************************************************************)
(* Proofs about TenantLifecycle, for any number of tenants, names and      *)
(* concurrent requests.                                                    *)
(***************************************************************************)
EXTENDS TenantLifecycle, TLAPS

-----------------------------------------------------------------------------
(* Lemmas about the helpers                                                *)

\* A status write carries a status that the table knows.
LEMMA StatusOfType == StatusOf \in [Writing -> TenantStatus]
BY DEF StatusOf, Writing, TenantStatus

\* update_tenant.sql keeps the type of the rows.
LEMMA WithStatusType ==
    ASSUME row \in [Tenants -> Row], NEW n, NEW s \in TenantStatus
    PROVE  WithStatus(n, s) \in [Tenants -> Row]
BY DEF WithStatus, Row

\* A handler at some position has locals.
LEMMA AtIsBusy ==
    ASSUME TypeOK, NEW r \in Requests, NEW ops \in SUBSET Ops, NEW p, At(r, ops, p)
    PROVE  req[r] \in Busy
BY DEF At, TypeOK, Request, Idle, Ops

\* A handler that raises leaves typed requests and alerts.
LEMMA FailType ==
    ASSUME TypeOK, NEW r \in Requests, req[r] \in Busy, Fail(r)
    PROVE  req' \in [Requests -> Request] /\ alerts' \subseteq Tenants
BY DEF TypeOK, Fail, Request, Busy

\* Going to another position keeps the type of the locals.
LEMMA GotoType ==
    ASSUME TypeOK, NEW r \in Requests, req[r] \in Busy, NEW p \in Positions,
           Goto(r, p)
    PROVE  req' \in [Requests -> Request]
<1>1. [req[r] EXCEPT !.pc = p] \in Busy
  BY DEF Busy
<1>2. QED
  BY <1>1 DEF TypeOK, Goto, Request

\* So does returning.
LEMMA ReturnType ==
    ASSUME TypeOK, NEW r \in Requests, Return(r)
    PROVE  req' \in [Requests -> Request] /\ alerts' \subseteq Tenants
BY DEF TypeOK, Return, Request

-----------------------------------------------------------------------------
(* Type correctness                                                        *)

\* A request that arrives is well typed.
LEMMA TypeArrive ==
    ASSUME TypeOK, NEW r \in Requests, ArriveCreate(r) \/ ArriveOnRow(r)
    PROVE  TypeOK'
<1>1. ASSUME NEW q \in Busy, Arrive(r, q)
      PROVE  TypeOK'
  BY <1>1 DEF TypeOK, Arrive, Request
<1>2. ASSUME NEW c \in Tenants, NEW n \in Names, NEW skip \in BOOLEAN
      PROVE  [Idle EXCEPT !.op = "create", !.pc = "check", !.id = c,
                          !.target = n, !.skip = skip] \in Busy
  BY DEF Idle, Busy, Ops, Positions
<1>3. ASSUME NEW c \in Tenants, NEW op \in Ops, NEW n \in Names \cup {NoName}
      PROVE  [Idle EXCEPT !.op = op, !.pc = "read", !.id = c, !.new = n]
               \in Busy
  BY DEF Idle, Busy, Ops, Positions
<1>4. CASE ArriveCreate(r)
  BY <1>1, <1>2, <1>4 DEF ArriveCreate
<1>5. CASE ArriveOnRow(r)
  BY <1>1, <1>3, <1>5 DEF ArriveOnRow
<1>6. QED
  BY <1>4, <1>5

\* The steps of the HTTP handlers keep every type.
LEMMA TypeHandler ==
    ASSUME TypeOK, NEW r \in Requests, HandlerStep(r)
    PROVE  TypeOK'
<1> USE DEF TypeOK, Ops, Positions
<1>1. CASE CheckName(r)
  <2>1. req[r] \in Busy
    BY <1>1, AtIsBusy DEF CheckName
  <2>2. QED
    BY <1>1, <2>1, FailType, GotoType DEF CheckName
<1>2. CASE InsertTenant(r)
  <2>1. req[r] \in Busy
    BY <1>2, AtIsBusy DEF InsertTenant
  <2>2. CASE row[req[r].id].status # "Absent" \/ Carriers(req[r].target) # {}
    BY <1>2, <2>1, <2>2, FailType DEF InsertTenant
  <2>3. CASE ~(row[req[r].id].status # "Absent" \/ Carriers(req[r].target) # {})
    <3>1. row' \in [Tenants -> Row]
      <4> DEFINE new(s) == [name |-> req[r].target, form |-> req[r].target,
                            schemaOk |-> TRUE, status |-> s]
      <4>1. \A s \in TenantStatus : new(s) \in Row
        BY <2>1 DEF Busy, Row
      <4>2. \E s \in TenantStatus : row' = [row EXCEPT ![req[r].id] = new(s)]
        BY <1>2, <2>3 DEF InsertTenant, TenantStatus
      <4>3. QED
        BY <4>1, <4>2
    <3>2. sanctioned' \subseteq Tenants
      BY <1>2, <2>1, <2>3 DEF InsertTenant, Busy
    <3>3. QED
      BY <1>2, <2>1, <2>3, <3>1, <3>2, GotoType DEF InsertTenant
  <2>4. QED
    BY <2>2, <2>3
<1>3. CASE ReadTenant(r)
  <2>1. req[r] \in Busy
    BY <1>3, AtIsBusy DEF ReadTenant
  <2>2. [req[r] EXCEPT !.pc = "write", !.name = row[req[r].id].name,
                       !.target = row[req[r].id].form,
                       !.schemaOk = row[req[r].id].schemaOk] \in Busy
    BY <2>1 DEF Busy, Row
  <2>3. QED
    BY <1>3, <2>1, <2>2, FailType DEF ReadTenant, Request
<1>4. CASE WriteDecision(r)
  <2>1. req[r] \in Busy
    BY <1>4, AtIsBusy DEF WriteDecision
  <2>2. row' \in [Tenants -> Row]
    BY <1>4, <2>1 DEF WriteDecision, Busy, Row, TenantStatus
  <2>3. sanctioned' \subseteq Tenants
    BY <1>4, <2>1 DEF WriteDecision, Busy
  <2>4. req' \in [Requests -> Request] /\ alerts' \subseteq Tenants
    BY <1>4, <2>1, FailType, GotoType DEF WriteDecision
  <2>5. QED
    BY <1>4, <2>2, <2>3, <2>4 DEF WriteDecision
<1>5. CASE WriteRetry(r)
  <2>1. req[r] \in Busy
    BY <1>5, AtIsBusy DEF WriteRetry
  <2>2. row' \in [Tenants -> Row]
    BY <1>5, WithStatusType DEF WriteRetry, TenantStatus
  <2>3. sanctioned' \subseteq Tenants
    BY <1>5 DEF WriteRetry, Carriers
  <2>4. req' \in [Requests -> Request] /\ alerts' \subseteq Tenants
    BY <1>5, <2>1, FailType, GotoType DEF WriteRetry
  <2>5. QED
    BY <1>5, <2>2, <2>3, <2>4 DEF WriteRetry
<1>6. CASE StoreDetails(r)
  <2>1. req[r] \in Busy /\ req[r].op = "update"
    BY <1>6, AtIsBusy DEF StoreDetails, At
  <2>2. [req[r] EXCEPT !.pc = "describe", !.target = req[r].new] \in Busy
    BY <2>1 DEF Busy
  <2>3. row' \in [Tenants -> Row]
    BY <1>6, <2>1 DEF StoreDetails, Busy, Row
  <2>4. contested' \subseteq Names \cup {NoName}
    BY <1>6, <2>1 DEF StoreDetails, Busy
  <2>5. CASE Fail(r) /\ UNCHANGED <<row, contested>>
    BY <1>6, <2>1, <2>5, FailType DEF StoreDetails
  <2>6. QED
    BY <1>6, <2>2, <2>3, <2>4, <2>5 DEF StoreDetails, Request
<1>7. CASE Describe(r)
  <2>1. req[r] \in Busy
    BY <1>7, AtIsBusy DEF Describe
  <2>2. AfterDescribe(r) \in Positions
    BY DEF AfterDescribe
  <2>3. req' \in [Requests -> Request] /\ alerts' \subseteq Tenants
    BY <1>7, <2>1, <2>2, FailType, GotoType DEF Describe
  <2>4. QED
    BY <1>7, <2>3 DEF Describe
<1>8. CASE Terminate(r)
  <2>1. req[r] \in Busy
    BY <1>8, AtIsBusy DEF Terminate
  <2>2. AfterDescribe(r) \in Positions
    BY DEF AfterDescribe
  <2>3. req' \in [Requests -> Request] /\ alerts' \subseteq Tenants
    BY <1>8, <2>1, <2>2, FailType, GotoType DEF Terminate
  <2>4. run' \in [Names -> Run]
    BY <1>8 DEF Terminate, Run, Closed
  <2>5. QED
    BY <1>8, <2>3, <2>4 DEF Terminate
<1>9. CASE RenameTenant(r)
  <2>1. req[r] \in Busy
    BY <1>9, AtIsBusy DEF RenameTenant
  <2>2. CASE TakenByOther(req[r].id, req[r].new)
    BY <1>9, <2>1, <2>2, FailType DEF RenameTenant
  <2>3. CASE ~TakenByOther(req[r].id, req[r].new)
    <3>1. row' \in [Tenants -> Row]
      BY <1>9, <2>1, <2>3 DEF RenameTenant, Busy, Row
    <3>2. contested' \subseteq Names \cup {NoName}
      BY <1>9, <2>1, <2>3 DEF RenameTenant, Busy, Row
    <3>3. [req[r] EXCEPT !.pc = "start", !.target = req[r].new] \in Busy
      BY <2>1 DEF Busy
    <3>4. QED
      BY <1>9, <2>3, <3>1, <3>2, <3>3 DEF RenameTenant, Request
  <2>4. QED
    BY <2>2, <2>3
<1>10. CASE StartRun(r)
  <2>1. req[r] \in Busy
    BY <1>10, AtIsBusy DEF StartRun
  <2>2. req' \in [Requests -> Request] /\ alerts' \subseteq Tenants
    BY <1>10, <2>1, FailType, GotoType, ReturnType DEF StartRun
  <2>3. NewRun(req[r].op \in {"rename", "retry"}) \in Run
    BY DEF NewRun, Run, Open
  <2>4. run' \in [Names -> Run] /\ started' \in Nat
    BY <1>10, <2>3 DEF StartRun
  <2>5. QED
    BY <1>10, <2>2, <2>4 DEF StartRun
<1>11. CASE SignalRun(r)
  <2>1. req[r] \in Busy
    BY <1>11, AtIsBusy DEF SignalRun
  <2>2. req' \in [Requests -> Request] /\ alerts' \subseteq Tenants
    BY <1>11, <2>1, FailType, ReturnType DEF SignalRun
  <2>3. \A m \in Names : /\ [run[m] EXCEPT !.denied = TRUE] \in Run
                         /\ [run[m] EXCEPT !.approved = TRUE] \in Run
    BY DEF Run
  <2>4. run' \in [Names -> Run]
    BY <1>11, <2>3 DEF SignalRun
  <2>5. QED
    BY <1>11, <2>2, <2>4 DEF SignalRun
<1>12. QED
  BY <1>1, <1>2, <1>3, <1>4, <1>5, <1>6, <1>7, <1>8, <1>9, <1>10, <1>11
     DEF HandlerStep

\* The steps of an onboarding execution keep every type.
LEMMA TypeRun ==
    ASSUME TypeOK, NEW n \in Names, RunAdvances(n) \/ WriteAttemptLingers(n)
    PROVE  TypeOK'
<1> USE DEF TypeOK
<1>1. ASSUME NEW p \in {"none"} \cup Open \cup Closed, SetPc(n, p)
      PROVE  run' \in [Names -> Run]
  BY <1>1 DEF SetPc, Run
<1> USE DEF Open, Closed, Work, Writing
<1>2. CASE BeforeMailSent(n)
  BY <1>1, <1>2 DEF BeforeMailSent
<1>3. CASE WaitEnds(n)
  <2>1. run' \in [Names -> Run]
    BY <1>3 DEF WaitEnds, Run
  <2>2. QED
    BY <1>3, <2>1 DEF WaitEnds
<1>4. CASE ActivitiesDone(n)
  BY <1>1, <1>4 DEF ActivitiesDone
<1>5. CASE ActivityFails(n)
  BY <1>1, <1>5 DEF ActivityFails
<1>6. ASSUME run[n].pc \in Writing
      PROVE  WithStatus(n, StatusOf[run[n].pc]) \in [Tenants -> Row]
  BY <1>6, WithStatusType, StatusOfType
<1>7. CASE StatusWritten(n)
  <2>1. run[n].pc = "declining" \/ run[n].pc = "provisioned" \/ run[n].pc = "failing"
    BY <1>7 DEF StatusWritten
  <2>2. AfterWrite(run[n].pc) \in {"none"} \cup Open \cup Closed
    BY <2>1 DEF AfterWrite
  <2>3. QED
    BY <1>1, <1>6, <1>7, <2>2 DEF StatusWritten
<1>8. CASE StatusWriteExhausted(n)
  BY <1>1, <1>8 DEF StatusWriteExhausted, Carriers
<1>9. CASE WriteAttemptLingers(n)
  BY <1>9, StatusOfType DEF WriteAttemptLingers, LateWrite
<1>10. QED
  BY <1>2, <1>3, <1>4, <1>5, <1>7, <1>8, <1>9 DEF RunAdvances

\* Every step keeps every type.
LEMMA TypeStep == TypeOK /\ [Next]_vars => TypeOK'
<1> SUFFICES ASSUME TypeOK, [Next]_vars PROVE TypeOK'
  OBVIOUS
<1>1. ASSUME NEW w \in late, LateWriteLands(w)
      PROVE  TypeOK'
  <2>1. w.status \in TenantStatus
    BY DEF TypeOK, LateWrite
  <2>2. row' \in [Tenants -> Row]
    BY <1>1, <2>1, WithStatusType DEF TypeOK, LateWriteLands
  <2>3. QED
    BY <1>1, <2>2 DEF TypeOK, LateWriteLands
<1>2. CASE UNCHANGED vars
  BY <1>2 DEF TypeOK, vars
<1>3. ASSUME NEW r \in Requests, HandlerDies(r)
      PROVE  TypeOK'
  <2>1. req[r] \in Busy
    BY <1>3 DEF HandlerDies, TypeOK, Request
  <2>2. QED
    BY <1>3, <2>1, FailType DEF HandlerDies, TypeOK
<1>4. QED
  BY <1>1, <1>2, <1>3, TypeArrive, TypeHandler, TypeRun DEF Next

-----------------------------------------------------------------------------
(* The inductive invariant.  Rows first: clearance of a name is never lost *)

RowInv ==
    /\ NamesDistinct
    /\ AbsentRowsHaveNoName
    /\ FormMatchesOrContested
    /\ UnapprovedOnlyOnContestedName

\* A row keeps its name, or gets its first one, or leaves a contested one.
NamesKept ==
    /\ contested \subseteq contested'
    /\ sanctioned \subseteq sanctioned'
    /\ \A c \in Tenants :
         /\ row[c].status # "Absent" => row'[c].status # "Absent"
         /\ \/ row'[c].name = row[c].name
            \/ row[c].name = NoName
            \/ row[c].name \in contested'

\* What update_tenant.sql changes, and what it leaves alone.
LEMMA WithStatusRow ==
    ASSUME TypeOK, NEW n, NEW s \in TenantStatus,
           row' = WithStatus(n, s), NEW c \in Tenants
    PROVE  /\ row'[c].name = row[c].name
           /\ row'[c].form = row[c].form
           /\ row[c].name = n => row'[c].status = s
           /\ row[c].name # n => row'[c].status = row[c].status
BY DEF TypeOK, WithStatus, Row

\* A status write by a cleared name keeps the approval gate.
LEMMA StatusStep ==
    ASSUME IInv, NEW n \in Names, NEW s \in TenantStatus, s # "Absent",
           s = "Provisioned" => Cleared(n),
           row' = WithStatus(n, s), contested' = contested,
           sanctioned \subseteq sanctioned'
    PROVE  RowInv' /\ NamesKept
<1>1. \A c \in Tenants :
        /\ row'[c].name = row[c].name
        /\ row'[c].form = row[c].form
        /\ row[c].name = n => row'[c].status = s
        /\ row[c].name # n => row'[c].status = row[c].status
  BY WithStatusRow DEF IInv
<1>2. NamesDistinct' /\ FormMatchesOrContested'
  BY <1>1 DEF IInv, NamesDistinct, FormMatchesOrContested
<1>3. AbsentRowsHaveNoName'
  BY <1>1, ConstantsAssumption DEF IInv, AbsentRowsHaveNoName
<1>4. UnapprovedOnlyOnContestedName'
  BY <1>1, ConstantsAssumption
     DEF IInv, UnapprovedOnlyOnContestedName, Cleared, NamesDistinct
<1>5. NamesKept
  BY <1>1, ConstantsAssumption DEF IInv, NamesKept
<1>6. QED
  BY <1>2, <1>3, <1>4, <1>5 DEF RowInv

\* A cleared name stays cleared.
LEMMA ClearedKept ==
    ASSUME TypeOK, NamesKept, NEW n \in Names, Cleared(n)
    PROVE  Cleared(n)'
BY ConstantsAssumption DEF TypeOK, NamesKept, Cleared

\* Every step keeps what the invariant says of the rows, and their names.
LEMMA RowStep ==
    ASSUME IInv, [Next]_vars
    PROVE  RowInv' /\ NamesKept
<1> USE DEF IInv
<1>1. CASE UNCHANGED <<row, contested, sanctioned>>
  BY <1>1 DEF RowInv, NamesKept, NamesDistinct, AbsentRowsHaveNoName,
     FormMatchesOrContested, UnapprovedOnlyOnContestedName
<1>2. ASSUME NEW r \in Requests, InsertTenant(r)
      PROVE  RowInv' /\ NamesKept
  <2> DEFINE c == req[r].id
             n == req[r].target
  <2>1. CASE UNCHANGED <<row, sanctioned>>
    BY <1>1, <1>2, <2>1 DEF InsertTenant
  <2>2. CASE row[c].status = "Absent" /\ Carriers(n) = {}
    <3>1. c \in Tenants /\ n \in Names
      BY <1>2, AtIsBusy DEF InsertTenant, At, RequestsInv, RequestInv, Ops, Busy
    <3>2. /\ row'[c].name = n /\ row'[c].form = n
          /\ row'[c].status \in {"Provisioning", "ApprovalPending"}
          /\ \A d \in Tenants \ {c} : row'[d] = row[d]
      BY <1>2, <2>2, <3>1 DEF InsertTenant, TypeOK
    <3>3. row[c].name = NoName /\ \A d \in Tenants : row[d].name # n
      BY <2>2, <3>1 DEF AbsentRowsHaveNoName, Carriers
    <3>4. sanctioned \subseteq sanctioned' /\ contested' = contested
      BY <1>2, <2>2 DEF InsertTenant
    <3>5. NamesDistinct'
      BY <3>1, <3>2, <3>3 DEF NamesDistinct
    <3>6. AbsentRowsHaveNoName' /\ FormMatchesOrContested'
      BY <3>1, <3>2, <3>4, ConstantsAssumption
         DEF AbsentRowsHaveNoName, FormMatchesOrContested
    <3>7. UnapprovedOnlyOnContestedName' /\ NamesKept
      BY <3>1, <3>2, <3>3, <3>4 DEF UnapprovedOnlyOnContestedName, NamesKept
    <3>8. QED
      BY <3>5, <3>6, <3>7 DEF RowInv
  <2>3. QED
    BY <1>2, <2>1, <2>2 DEF InsertTenant
<1>3. ASSUME NEW r \in Requests, WriteDecision(r)
      PROVE  RowInv' /\ NamesKept
  <2> DEFINE c == req[r].id
  <2>1. c \in Tenants /\ row[c].status # "Absent"
    BY <1>3, AtIsBusy DEF WriteDecision, At, RequestsInv, RequestInv, Ops, Busy
  <2>2. /\ row'[c].name = row[c].name /\ row'[c].form = row[c].form
        /\ row'[c].status \in {"Provisioning", "ApprovalDeclined"}
        /\ \A d \in Tenants \ {c} : row'[d] = row[d]
    BY <1>3, <2>1 DEF WriteDecision, TypeOK, Row
  <2>3. sanctioned \subseteq sanctioned' /\ contested' = contested
    BY <1>3 DEF WriteDecision
  <2>4. NamesDistinct' /\ AbsentRowsHaveNoName' /\ FormMatchesOrContested'
    BY <2>1, <2>2, <2>3
       DEF NamesDistinct, AbsentRowsHaveNoName, FormMatchesOrContested
  <2>5. UnapprovedOnlyOnContestedName' /\ NamesKept
    BY <2>1, <2>2, <2>3 DEF UnapprovedOnlyOnContestedName, NamesKept
  <2>6. QED
    BY <2>4, <2>5 DEF RowInv
<1>4. ASSUME NEW r \in Requests, WriteRetry(r)
      PROVE  RowInv' /\ NamesKept
  <2>1. req[r].name \in Names
    BY <1>4 DEF WriteRetry, At, RequestsInv, RequestInv
  <2>2. QED
    BY <1>4, <2>1, StatusStep DEF WriteRetry, TenantStatus
<1>5. ASSUME NEW r \in Requests, StoreDetails(r)
      PROVE  RowInv' /\ NamesKept
  <2> DEFINE c == req[r].id
             n == req[r].new
  <2>1. c \in Tenants /\ n \in Names /\ row[c].status # "Absent"
    BY <1>5, AtIsBusy DEF StoreDetails, At, RequestsInv, RequestInv, Ops, Busy
  <2> SUFFICES ASSUME ~(UNCHANGED <<row, contested>>)
               PROVE  RowInv' /\ NamesKept
    BY <1>1, <1>5 DEF StoreDetails
  <2>2. /\ row'[c].name = row[c].name /\ row'[c].form = n
        /\ row'[c].status = row[c].status
        /\ \A d \in Tenants \ {c} : row'[d] = row[d]
    BY <1>5, <2>1 DEF StoreDetails, TypeOK, Row
  <2>3. /\ sanctioned' = sanctioned /\ contested \subseteq contested'
        /\ row[c].name = n \/ n \in contested'
    BY <1>5 DEF StoreDetails
  <2>4. NamesDistinct' /\ AbsentRowsHaveNoName'
    BY <2>1, <2>2, ConstantsAssumption DEF NamesDistinct, AbsentRowsHaveNoName
  <2>5. FormMatchesOrContested'
    BY <2>1, <2>2, <2>3 DEF FormMatchesOrContested
  <2>6. UnapprovedOnlyOnContestedName' /\ NamesKept
    BY <2>1, <2>2, <2>3 DEF UnapprovedOnlyOnContestedName, NamesKept
  <2>7. QED
    BY <2>4, <2>5, <2>6 DEF RowInv
<1>6. ASSUME NEW r \in Requests, RenameTenant(r)
      PROVE  RowInv' /\ NamesKept
  <2> DEFINE c == req[r].id
             n == req[r].new
  <2>1. CASE UNCHANGED <<row, contested>>
    BY <1>1, <1>6, <2>1 DEF RenameTenant
  <2>2. CASE ~TakenByOther(c, n)
    <3>1. /\ c \in Tenants /\ n \in Names /\ row[c].status # "Absent"
          /\ c \in sanctioned
      BY <1>6, AtIsBusy DEF RenameTenant, At, RequestsInv, RequestInv, Ops, Busy
    <3>2. /\ row'[c].name = n /\ row'[c].form = row[c].form
          /\ row'[c].status = row[c].status
          /\ \A d \in Tenants \ {c} : row'[d] = row[d] /\ row[d].name # n
      BY <1>6, <2>2, <3>1 DEF RenameTenant, TypeOK, Row, TakenByOther
    <3>3. /\ sanctioned' = sanctioned /\ contested \subseteq contested'
          /\ row[c].name = n \/ row[c].name \in contested'
          /\ row[c].form = n \/ row[c].form \in contested'
      BY <1>6, <2>2 DEF RenameTenant
    <3>4. NamesDistinct'
      BY <3>1, <3>2 DEF NamesDistinct
    <3>5. AbsentRowsHaveNoName'
      BY <3>1, <3>2, ConstantsAssumption DEF AbsentRowsHaveNoName
    <3>6. FormMatchesOrContested'
      BY <3>1, <3>2, <3>3 DEF FormMatchesOrContested
    <3>7. UnapprovedOnlyOnContestedName' /\ NamesKept
      BY <3>1, <3>2, <3>3 DEF UnapprovedOnlyOnContestedName, NamesKept
    <3>8. QED
      BY <3>4, <3>5, <3>6, <3>7 DEF RowInv
  <2>3. QED
    BY <1>6, <2>1, <2>2 DEF RenameTenant
<1>7. ASSUME NEW n \in Names, StatusWritten(n)
      PROVE  RowInv' /\ NamesKept
  <2> DEFINE s == StatusOf[run[n].pc]
  <2>1. s \in TenantStatus /\ s # "Absent"
    BY <1>7 DEF StatusWritten, StatusOf, Writing, TenantStatus
  <2>2. s = "Provisioned" => Cleared(n)
    BY <1>7 DEF StatusWritten, StatusOf, Writing, RunsCleared, Work
  <2>3. row' = WithStatus(n, s) /\ UNCHANGED <<contested, sanctioned>>
    BY <1>7 DEF StatusWritten
  <2>4. QED
    BY <2>1, <2>2, <2>3, StatusStep
<1>8. ASSUME NEW w \in late, LateWriteLands(w)
      PROVE  RowInv' /\ NamesKept
  <2>1. /\ w.name \in Names /\ w.status \in TenantStatus /\ w.status # "Absent"
        /\ w.status = "Provisioned" => Cleared(w.name)
    BY DEF LateWritesCleared, TypeOK, LateWrite
  <2>2. QED
    BY <1>8, <2>1, StatusStep DEF LateWriteLands
<1>9. CASE UNCHANGED vars
  BY <1>1, <1>9 DEF vars
<1>10. CASE Next
  <2>1. ASSUME NEW r \in Requests, ArriveCreate(r) \/ ArriveOnRow(r)
        PROVE  UNCHANGED <<row, contested, sanctioned>>
    BY <2>1 DEF ArriveCreate, ArriveOnRow, Arrive
  <2>2. ASSUME NEW r \in Requests,
               \/ CheckName(r) \/ ReadTenant(r) \/ Describe(r)
               \/ Terminate(r) \/ StartRun(r) \/ SignalRun(r)
               \/ HandlerDies(r)
        PROVE  UNCHANGED <<row, contested, sanctioned>>
    BY <2>2 DEF CheckName, ReadTenant, Describe, Terminate, StartRun,
       SignalRun, HandlerDies
  <2>3. ASSUME NEW n \in Names,
               \/ BeforeMailSent(n) \/ WaitEnds(n) \/ ActivitiesDone(n)
               \/ ActivityFails(n) \/ StatusWriteExhausted(n)
               \/ WriteAttemptLingers(n)
        PROVE  UNCHANGED <<row, contested, sanctioned>>
    BY <2>3 DEF BeforeMailSent, WaitEnds, ActivitiesDone, ActivityFails,
       StatusWriteExhausted, WriteAttemptLingers
  <2>4. QED
    BY <1>1, <1>2, <1>3, <1>4, <1>5, <1>6, <1>7, <1>8, <1>10, <2>1, <2>2, <2>3
       DEF Next, HandlerStep, RunAdvances
<1>11. QED
  BY <1>9, <1>10

-----------------------------------------------------------------------------
(* Executions and the status writes that outlive them                      *)

\* Every step keeps what it says of executions and late writes.
LEMMA RunsStep ==
    ASSUME DeclinePolicy # "fallthrough", IInv, [Next]_vars
    PROVE  RunsCleared' /\ LateWritesCleared'
<1> USE DEF IInv, Work
<1>1. NamesKept /\ \A n \in Names : Cleared(n) => Cleared(n)'
  BY RowStep, ClearedKept
<1>2. ASSUME late' \subseteq late
      PROVE  LateWritesCleared'
  BY <1>1, <1>2 DEF LateWritesCleared
<1>3. ASSUME UNCHANGED run
      PROVE  RunsCleared'
  BY <1>1, <1>3 DEF RunsCleared
<1>4. \A r \in Requests :
        Terminate(r) \/ StartRun(r) \/ SignalRun(r) => req[r].target \in Names
  BY DEF Terminate, StartRun, SignalRun, At, RequestsInv, RequestInv
<1>5. ASSUME NEW n \in Names, NEW p, SetPc(n, p),
             p \in Work => run[n].verdict = "approved"
      PROVE  RunsCleared'
  BY <1>1, <1>5 DEF RunsCleared, TypeOK, SetPc, Run
<1>6. ASSUME NEW r \in Requests, NEW n \in Names, n = req[r].target, Terminate(r)
      PROVE  RunsCleared' /\ LateWritesCleared'
  <2>1. CASE UNCHANGED run
    BY <1>2, <1>3, <1>6, <2>1 DEF Terminate
  <2>2. CASE SetPc(n, "terminated")
    BY <1>2, <1>5, <1>6, <2>2 DEF Terminate
  <2>3. QED
    BY <1>6, <2>1, <2>2 DEF Terminate, SetPc
<1>7. ASSUME NEW r \in Requests, NEW n \in Names, n = req[r].target, StartRun(r)
      PROVE  RunsCleared' /\ LateWritesCleared'
  <2>1. CASE UNCHANGED run
    BY <1>2, <1>3, <1>7, <2>1 DEF StartRun
  <2>2. CASE run' = [run EXCEPT ![n] = NewRun(req[r].op \in {"rename", "retry"})]
    <3> DEFINE x == NewRun(req[r].op \in {"rename", "retry"})
    <3>1. x \in Run /\ ~x.approved /\ x.pc \notin Work /\ x.verdict = "none"
      BY DEF NewRun, Run, Open
    <3>2. run'[n] = x /\ \A m \in Names \ {n} : run'[m] = run[m]
      BY <2>2 DEF TypeOK
    <3>3. RunsCleared'
      BY <1>1, <3>1, <3>2 DEF RunsCleared
    <3>4. QED
      BY <1>2, <1>7, <3>3 DEF StartRun
  <2>3. QED
    BY <1>7, <2>1, <2>2 DEF StartRun
<1>8. ASSUME NEW r \in Requests, NEW n \in Names, n = req[r].target, SignalRun(r)
      PROVE  RunsCleared' /\ LateWritesCleared'
  <2>1. req[r].op # "decline" => Cleared(n)
    BY <1>8 DEF SignalRun, At, RequestsInv, RequestInv
  <2>2. CASE UNCHANGED run
    BY <1>2, <1>3, <1>8, <2>2 DEF SignalRun
  <2>3. CASE run' = [run EXCEPT ![n].denied = TRUE]
    BY <1>1, <1>2, <1>8, <2>1, <2>3 DEF SignalRun, RunsCleared, TypeOK, Run
  <2>4. CASE /\ run' = [run EXCEPT ![n].approved = TRUE]
             /\ req[r].op # "decline"
    BY <1>1, <1>2, <1>8, <2>1, <2>4 DEF SignalRun, RunsCleared, TypeOK, Run
  <2>5. QED
    BY <1>8, <2>2, <2>3, <2>4 DEF SignalRun
<1>9. ASSUME NEW n \in Names, RunAdvances(n)
      PROVE  RunsCleared' /\ LateWritesCleared'
  <2>1. LateWritesCleared'
    BY <1>2, <1>9 DEF RunAdvances, BeforeMailSent, WaitEnds, ActivitiesDone,
       ActivityFails, StatusWritten, StatusWriteExhausted
  <2>2. CASE BeforeMailSent(n)
    BY <1>5, <2>1, <2>2 DEF BeforeMailSent
  <2>3. CASE WaitEnds(n)
    BY <1>1, <2>1, <2>3 DEF WaitEnds, RunsCleared, TypeOK, Run
  <2>4. CASE ActivitiesDone(n)
    BY <1>5, <2>1, <2>4 DEF ActivitiesDone, RunsCleared
  <2>5. CASE ActivityFails(n)
    BY <1>5, <2>1, <2>5 DEF ActivityFails
  <2>6. CASE StatusWritten(n)
    <3>1. AfterWrite(run[n].pc) \in Work => run[n].verdict = "approved"
      BY <2>6 DEF StatusWritten, AfterWrite, Writing, RunsCleared
    <3>2. QED
      BY <1>5, <2>1, <2>6, <3>1 DEF StatusWritten
  <2>7. CASE StatusWriteExhausted(n)
    BY <1>5, <2>1, <2>7 DEF StatusWriteExhausted
  <2>8. QED
    BY <1>9, <2>2, <2>3, <2>4, <2>5, <2>6, <2>7 DEF RunAdvances
<1>10. ASSUME NEW w \in late, LateWriteLands(w)
       PROVE  RunsCleared' /\ LateWritesCleared'
  BY <1>2, <1>3, <1>10 DEF LateWriteLands
<1>11. ASSUME UNCHANGED <<run, late>>
       PROVE  RunsCleared' /\ LateWritesCleared'
  BY <1>2, <1>3, <1>11
<1>12. ASSUME NEW r \in Requests,
              \/ ArriveCreate(r) \/ ArriveOnRow(r) \/ CheckName(r)
              \/ InsertTenant(r) \/ ReadTenant(r) \/ WriteDecision(r)
              \/ WriteRetry(r) \/ StoreDetails(r) \/ Describe(r)
              \/ RenameTenant(r) \/ HandlerDies(r)
       PROVE  RunsCleared' /\ LateWritesCleared'
  BY <1>11, <1>12
     DEF ArriveCreate, ArriveOnRow, Arrive, CheckName, InsertTenant,
         ReadTenant, WriteDecision, WriteRetry, StoreDetails, Describe,
         RenameTenant, HandlerDies
<1>13. ASSUME NEW n \in Names, WriteAttemptLingers(n)
       PROVE  RunsCleared' /\ LateWritesCleared'
  <2>1. RunsCleared'
    BY <1>3, <1>13 DEF WriteAttemptLingers
  <2>2. /\ StatusOf[run[n].pc] # "Absent"
        /\ StatusOf[run[n].pc] = "Provisioned" => Cleared(n)
    BY <1>13 DEF WriteAttemptLingers, StatusOf, Writing, RunsCleared
  <2>3. LateWritesCleared'
    BY <1>1, <1>13, <2>2 DEF WriteAttemptLingers, LateWritesCleared
  <2>4. QED
    BY <2>1, <2>3
<1>14. CASE UNCHANGED vars
  BY <1>11, <1>14 DEF vars
<1>15. QED
  BY <1>4, <1>6, <1>7, <1>8, <1>9, <1>10, <1>12, <1>13, <1>14
     DEF Next, HandlerStep

-----------------------------------------------------------------------------
(* Handlers: what a request knows of its row survives everybody's steps    *)

\* What a handler knew before a step of someone else, it knows after it.
LEMMA RequestKept ==
    ASSUME IInv, NamesKept, NEW q \in Request, RequestInv(q)
    PROVE  RequestInv(q)'
<1> USE DEF IInv
<1>1. \A n \in Names : Cleared(n) => Cleared(n)'
  BY ClearedKept
<1>2. q = Idle \/ q \in Busy
  BY DEF Request
<1>3. CASE q = Idle
  BY <1>3 DEF RequestInv, Idle
<1>4. CASE q \in Busy
  <2>1. /\ q.pc \in {"read", "write", "describe", "terminate", "rename"}
        /\ q.op # "create"
        => row'[q.id].status # "Absent"
    BY <1>4 DEF RequestInv, NamesKept, Busy
  <2>2. q.pc = "write" /\ q.op \in {"approve", "rename", "retry"} =>
          \/ q.target \in contested'
          \/ q.target = q.name /\ q.target = row'[q.id].name
    BY <1>4, ConstantsAssumption DEF RequestInv, NamesKept, Busy
  <2>3. q.op = "rename" /\ q.pc \in {"describe", "terminate", "rename"}
          => q.id \in sanctioned'
    BY DEF RequestInv, NamesKept
  <2>4. q.pc \in {"signal", "start"} /\ Cleared(q.target) => Cleared(q.target)'
    BY <1>1, <1>4 DEF RequestInv, Busy
  <2>5. QED
    BY <2>1, <2>2, <2>3, <2>4 DEF RequestInv
<1>5. QED
  BY <1>2, <1>3, <1>4

\* Only one handler moves in a step.
LEMMA RequestReplaced ==
    ASSUME IInv, NamesKept, NEW r \in Requests, NEW q,
           req' = [req EXCEPT ![r] = q], RequestInv(q)'
    PROVE  RequestsInv'
<1>1. \A x \in Requests : req[x] \in Request /\ RequestInv(req[x])
  BY DEF IInv, TypeOK, RequestsInv
<1>2. \A x \in Request : RequestInv(x) => RequestInv(x)'
  BY RequestKept
<1>3. \A x \in Requests \ {r} : \E y \in Request : y = req'[x] /\ RequestInv(y)'
  BY <1>1, <1>2 DEF IInv, TypeOK
<1>4. \A x \in Requests : \E y : y = req'[x] /\ RequestInv(y)'
  BY <1>3 DEF IInv, TypeOK
<1>5. QED
  BY <1>4 DEF RequestsInv, RequestInv, Cleared

\* A handler that raises or returns leaves nothing to be shown.
LEMMA RequestFails ==
    ASSUME IInv, NamesKept, NEW r \in Requests, Fail(r) \/ Return(r)
    PROVE  RequestsInv'
<1>1. RequestInv(Idle)'
  BY DEF RequestInv, Idle
<1>2. QED
  BY <1>1, RequestReplaced DEF Fail, Return

\* A handler that goes on needs what its next position asks for.
LEMMA RequestGoesTo ==
    ASSUME IInv, NamesKept, NEW r \in Requests, NEW q \in Busy, q = req[r],
           NEW p, Goto(r, p), RequestInv([q EXCEPT !.pc = p])'
    PROVE  RequestsInv'
<1>1. req' = [req EXCEPT ![r] = [q EXCEPT !.pc = p]]
  BY DEF Goto, IInv, TypeOK
<1>2. QED
  BY <1>1, RequestReplaced

\* Every step keeps what the invariant says of the handlers.
LEMMA RequestsStep ==
    ASSUME IInv, [Next]_vars
    PROVE  RequestsInv'
<1>1. NamesKept /\ \A n \in Names : Cleared(n) => Cleared(n)'
  BY RowStep, ClearedKept DEF IInv
<1>2. ASSUME UNCHANGED req
      PROVE  RequestsInv'
  <2>1. \A x \in Requests : req[x] \in Request /\ RequestInv(req[x])
    BY DEF IInv, TypeOK, RequestsInv
  <2>2. \A x \in Request : RequestInv(x) => RequestInv(x)'
    BY <1>1, RequestKept
  <2>3. \A x \in Requests : \E y : y = req'[x] /\ RequestInv(y)'
    BY <1>2, <2>1, <2>2
  <2>4. QED
    BY <2>3 DEF RequestsInv, RequestInv, Cleared
<1>3. ASSUME NEW r \in Requests, ArriveCreate(r)
      PROVE  RequestsInv'
  <2>1. PICK c \in Tenants, n \in Names, skip \in BOOLEAN :
          Arrive(r, [Idle EXCEPT !.op = "create", !.pc = "check", !.id = c,
                                 !.target = n, !.skip = skip])
    BY <1>3 DEF ArriveCreate
  <2>2. RequestInv([Idle EXCEPT !.op = "create", !.pc = "check", !.id = c,
                                !.target = n, !.skip = skip])'
    BY DEF RequestInv, Idle
  <2>3. QED
    BY <1>1, <2>1, <2>2, RequestReplaced DEF Arrive
<1>4. ASSUME NEW r \in Requests, ArriveOnRow(r)
      PROVE  RequestsInv'
  <2>1. PICK c \in Tenants, op \in Ops \ {"create"}, n \in Names \cup {NoName} :
          /\ row[c].status # "Absent"
          /\ (n # NoName) <=> op \in {"rename", "update"}
          /\ Arrive(r, [Idle EXCEPT !.op = op, !.pc = "read", !.id = c,
                                    !.new = n])
    BY <1>4 DEF ArriveOnRow
  <2>2. RequestInv([Idle EXCEPT !.op = op, !.pc = "read", !.id = c, !.new = n])'
    BY <2>1 DEF RequestInv, Idle, Ops, Arrive
  <2>3. QED
    BY <1>1, <2>1, <2>2, RequestReplaced DEF Arrive
<1>5. ASSUME NEW r \in Requests, HandlerStep(r)
      PROVE  RequestsInv'
  <2>1. PICK q \in Busy : q = req[r]
    BY <1>5, AtIsBusy DEF HandlerStep, CheckName, InsertTenant, ReadTenant,
       WriteDecision, WriteRetry, StoreDetails, Describe, Terminate,
       RenameTenant, StartRun, SignalRun, Ops, IInv
  <2>2. RequestInv(q)
    BY <2>1 DEF IInv, RequestsInv
  <2>3. CASE Fail(r) \/ Return(r)
    BY <1>1, <2>3, RequestFails
  <2>4. ASSUME NEW p, Goto(r, p), RequestInv([q EXCEPT !.pc = p])'
        PROVE  RequestsInv'
    BY <1>1, <2>1, <2>4, RequestGoesTo
  <2>5. CASE CheckName(r)
    <3>1. CASE Goto(r, "write") /\ UNCHANGED row
      <4>1. q.op = "create"
        BY <2>1, <2>5 DEF CheckName, At
      <4>2. RequestInv([q EXCEPT !.pc = "write"])'
        BY <2>2, <4>1 DEF RequestInv, Busy
      <4>3. QED
        BY <2>4, <3>1, <4>2
    <3>2. QED
      BY <2>3, <2>5, <3>1 DEF CheckName
  <2>6. CASE InsertTenant(r)
    <3>1. q.op = "create" /\ q.target \in Names
      BY <2>1, <2>2, <2>6 DEF InsertTenant, At, RequestInv
    <3>2. CASE ~Fail(r)
      <4>1. Goto(r, "start")
        BY <2>6, <3>2 DEF InsertTenant
      <4>2. ApprovalRequired /\ q.skip => Cleared(q.target)'
        <5>1. row'[q.id].name = q.target
          BY <2>1, <2>6, <3>2 DEF InsertTenant, IInv, TypeOK, Busy
        <5>2. ApprovalRequired /\ q.skip => q.id \in sanctioned'
          BY <2>1, <2>6, <3>2 DEF InsertTenant
        <5>3. QED
          BY <2>1, <5>1, <5>2 DEF Cleared, Busy
      <4>3. RequestInv([q EXCEPT !.pc = "start"])'
        BY <3>1, <4>2 DEF RequestInv, Busy
      <4>4. QED
        BY <2>4, <4>1, <4>3
    <3>3. QED
      BY <2>3, <3>2
  <2>7. CASE ReadTenant(r)
    <3>1. CASE ~Fail(r)
      <4> DEFINE c == q.id
                 x == [q EXCEPT !.pc = "write", !.name = row[c].name,
                                !.target = row[c].form,
                                !.schemaOk = row[c].schemaOk]
      <4>1. req' = [req EXCEPT ![r] = x] /\ UNCHANGED <<row, contested>>
        BY <2>1, <2>7, <3>1 DEF ReadTenant, IInv, TypeOK
      <4>2. /\ c \in Tenants /\ q.op # "create" /\ row[c].status # "Absent"
            /\ q.op \in {"rename", "update"} => q.new \in Names
        BY <2>1, <2>2, <2>7 DEF ReadTenant, At, Ops, RequestInv, Busy
      <4>3. /\ row[c].name \in Names /\ row[c].form \in Names
            /\ row[c].form = row[c].name \/ row[c].form \in contested
        BY <4>2 DEF IInv, TypeOK, Row, AbsentRowsHaveNoName,
           FormMatchesOrContested
      <4>4. PICK y : y = x
        OBVIOUS
      <4>5. /\ y.pc = "write" /\ y.op = q.op /\ y.id = c /\ y.new = q.new
            /\ y.name = row[c].name /\ y.target = row[c].form
        BY <4>4 DEF Busy
      <4>6. RequestInv(y)'
        BY <4>1, <4>2, <4>3, <4>5 DEF RequestInv
      <4>7. QED
        BY <1>1, <4>1, <4>4, <4>6, RequestReplaced
    <3>2. QED
      BY <2>3, <3>1
  <2>8. CASE WriteDecision(r)
    <3>1. CASE ~Fail(r)
      <4>1. PICK p : /\ Goto(r, p)
                     /\ p = IF q.op = "rename" /\ q.new # q.target
                            THEN "describe" ELSE "signal"
        BY <2>1, <2>8, <3>1 DEF WriteDecision
      <4>2. /\ q.op \in {"approve", "rename", "decline"} /\ q.pc = "write"
            /\ q.op # "decline" => q.id \in sanctioned'
            /\ contested' = contested /\ row'[q.id].name = row[q.id].name
        BY <2>1, <2>8 DEF WriteDecision, At, IInv, TypeOK, Row, Busy
      <4>3. q.op # "decline" => Cleared(q.target)'
        BY <2>2, <4>2 DEF RequestInv, Cleared, Busy
      <4>4. row'[q.id].status # "Absent"
        BY <1>1, <2>2, <4>2 DEF RequestInv, NamesKept, Busy
      <4>5. RequestInv([q EXCEPT !.pc = p])'
        BY <2>2, <4>1, <4>2, <4>3, <4>4 DEF RequestInv, Busy
      <4>6. QED
        BY <2>4, <4>1, <4>5
    <3>2. QED
      BY <2>3, <3>1
  <2>9. CASE WriteRetry(r)
    <3>1. CASE ~Fail(r)
      <4>1. Goto(r, "start") /\ q.op = "retry" /\ q.pc = "write"
        BY <2>1, <2>9, <3>1 DEF WriteRetry, At
      <4>2. /\ contested' = contested
            /\ row'[q.id].name = row[q.id].name
            /\ row[q.id].name = q.name => q.id \in sanctioned'
        BY <2>1, <2>9, WithStatusRow
           DEF WriteRetry, IInv, Busy, TenantStatus, Carriers
      <4>3. Cleared(q.target)'
        BY <2>2, <4>1, <4>2 DEF RequestInv, Cleared, Busy
      <4>4. RequestInv([q EXCEPT !.pc = "start"])'
        BY <2>2, <4>1, <4>3 DEF RequestInv, Busy
      <4>5. QED
        BY <2>4, <4>1, <4>4
    <3>2. QED
      BY <2>3, <3>1
  <2>10. CASE StoreDetails(r)
    <3>1. q.op = "update" /\ q.pc = "write"
      BY <2>1, <2>10 DEF StoreDetails, At
    <3>2. PICK y : y = [q EXCEPT !.pc = "describe", !.target = q.new]
      OBVIOUS
    <3>3. /\ y.pc = "describe" /\ y.op = "update" /\ y.id = q.id
          /\ y.name = q.name /\ y.target = q.new /\ y.new = q.new
      BY <3>1, <3>2 DEF Busy
    <3>4. row'[q.id].status # "Absent"
      BY <1>1, <2>2, <3>1 DEF RequestInv, NamesKept, Busy
    <3>5. RequestInv(y)'
      BY <2>2, <3>1, <3>3, <3>4 DEF RequestInv
    <3>6. Fail(r) \/ req' = [req EXCEPT ![r] = y]
      BY <2>1, <2>10, <3>2 DEF StoreDetails, IInv, TypeOK
    <3>7. QED
      BY <1>1, <2>3, <3>5, <3>6, RequestReplaced
  <2>11. ASSUME NEW p, Goto(r, p), UNCHANGED row, UNCHANGED sanctioned,
                q.op \in {"rename", "update"},
                q.pc \in {"describe", "terminate"},
                p \in {"terminate", AfterDescribe(r)}
         PROVE  RequestsInv'
    <3>1. RequestInv([q EXCEPT !.pc = p])'
      BY <2>1, <2>2, <2>11 DEF RequestInv, AfterDescribe, Busy
    <3>2. QED
      BY <2>4, <2>11, <3>1
  <2>12. CASE Describe(r)
    <3>1. q.op \in {"rename", "update"} /\ q.pc = "describe"
      BY <2>1, <2>12 DEF Describe, At
    <3>2. QED
      BY <2>3, <2>11, <2>12, <3>1 DEF Describe
  <2>13. CASE Terminate(r)
    <3>1. q.op \in {"rename", "update"} /\ q.pc = "terminate"
      BY <2>1, <2>13 DEF Terminate, At
    <3>2. QED
      BY <2>3, <2>11, <2>13, <3>1 DEF Terminate
  <2>14. CASE RenameTenant(r)
    <3>1. CASE ~Fail(r)
      <4>1. PICK y : y = [q EXCEPT !.pc = "start", !.target = q.new]
        OBVIOUS
      <4>2. q.op = "rename" /\ q.pc = "rename"
        BY <2>1, <2>14 DEF RenameTenant, At
      <4>3. /\ y.pc = "start" /\ y.op = "rename" /\ y.id = q.id
            /\ y.name = q.name /\ y.target = q.new /\ y.new = q.new
        BY <4>1, <4>2 DEF Busy
      <4>4. req' = [req EXCEPT ![r] = y]
        BY <2>1, <2>14, <3>1, <4>1 DEF RenameTenant, IInv, TypeOK
      <4>5. row'[q.id].name = q.new /\ sanctioned' = sanctioned
        <5>1. /\ row' = [row EXCEPT ![q.id].name = q.new,
                                    ![q.id].schemaOk = FALSE]
              /\ sanctioned' = sanctioned
          BY <2>1, <2>14, <3>1 DEF RenameTenant
        <5>2. q.id \in Tenants /\ row \in [Tenants -> Row]
          BY DEF Busy, IInv, TypeOK
        <5>3. QED
          BY <5>1, <5>2 DEF Row
      <4>6. Cleared(q.new)'
        BY <2>2, <4>2, <4>5 DEF RequestInv, Cleared, Busy
      <4>7. RequestInv(y)'
        BY <2>2, <4>2, <4>3, <4>6 DEF RequestInv
      <4>8. QED
        BY <1>1, <4>4, <4>7, RequestReplaced
    <3>2. QED
      BY <2>3, <3>1
  <2>15. CASE StartRun(r)
    <3>1. CASE Goto(r, "signal") /\ SignalsAfterStart(r)
      <4>1. q.pc = "start" /\ q.op \in {"create", "rename", "retry", "update"}
        BY <2>1, <2>15 DEF StartRun, At
      <4>2. Cleared(q.target)'
        BY <1>1, <2>1, <2>2, <3>1, <4>1 DEF SignalsAfterStart, RequestInv, Busy
      <4>3. RequestInv([q EXCEPT !.pc = "signal"])'
        BY <2>2, <4>1, <4>2 DEF RequestInv, Busy
      <4>4. QED
        BY <2>4, <3>1, <4>3
    <3>2. QED
      BY <2>3, <2>15, <3>1 DEF StartRun
  <2>16. CASE SignalRun(r)
    BY <2>3, <2>16 DEF SignalRun
  <2>17. QED
    BY <1>5, <2>5, <2>6, <2>7, <2>8, <2>9, <2>10, <2>12, <2>13, <2>14, <2>15,
       <2>16 DEF HandlerStep
<1>6. ASSUME NEW n \in Names, RunAdvances(n) \/ WriteAttemptLingers(n)
      PROVE  RequestsInv'
  BY <1>2, <1>6 DEF RunAdvances, BeforeMailSent, WaitEnds, ActivitiesDone,
     ActivityFails, StatusWritten, StatusWriteExhausted,
     WriteAttemptLingers
<1>7. ASSUME NEW w \in late, LateWriteLands(w)
      PROVE  RequestsInv'
  BY <1>2, <1>7 DEF LateWriteLands
<1>8. CASE UNCHANGED vars
  BY <1>2, <1>8 DEF vars
<1>9. ASSUME NEW r \in Requests, HandlerDies(r)
      PROVE  RequestsInv'
  BY <1>1, <1>9, RequestFails DEF HandlerDies
<1>10. QED
  BY <1>3, <1>4, <1>5, <1>6, <1>7, <1>8, <1>9 DEF Next

-----------------------------------------------------------------------------
(* The theorems                                                            *)

\* The initial state has it all.
LEMMA InitEstablishes == Init => TypeOK /\ IInv
<1> SUFFICES ASSUME Init PROVE TypeOK /\ IInv
  OBVIOUS
<1> USE ConstantsAssumption DEF Init
<1>1. TypeOK
  <2>1. row \in [Tenants -> Row] /\ run \in [Names -> Run]
    BY DEF Row, TenantStatus, Run
  <2>2. req \in [Requests -> Request]
    BY DEF Request
  <2>3. QED
    BY <2>1, <2>2 DEF TypeOK
<1>2. RowInv
  BY DEF RowInv, NamesDistinct, AbsentRowsHaveNoName, FormMatchesOrContested,
     UnapprovedOnlyOnContestedName
<1>3. RunsCleared /\ LateWritesCleared
  BY DEF RunsCleared, LateWritesCleared, Work
<1>4. RequestsInv
  BY DEF RequestsInv, RequestInv, Idle
<1>5. QED
  BY <1>1, <1>2, <1>3, <1>4 DEF RowInv, IInv

(* Whatever product, and however many requests interleave, the tables, the *)
(* executions and the handlers' locals keep their types.                   *)
THEOREM TypeCorrect == Spec => []TypeOK
<1>1. Init => TypeOK
  BY InitEstablishes
<1>2. QED
  BY <1>1, TypeStep, PTL DEF Spec

\* Every step keeps the invariant.
LEMMA InvariantStep ==
    ASSUME DeclinePolicy # "fallthrough", IInv, [Next]_vars
    PROVE  IInv'
<1>1. TypeOK'
  BY TypeStep DEF IInv
<1>2. RowInv'
  BY RowStep
<1>3. RunsCleared' /\ LateWritesCleared'
  BY RunsStep
<1>4. RequestsInv'
  BY RequestsStep
<1>5. QED
  BY <1>1, <1>2, <1>3, <1>4 DEF IInv, RowInv

(* For the products whose workflow returns (or fails) on a denial, IInv is *)
(* an invariant: a handler about to signal approval, an approved execution *)
(* and a late write of Provisioned all carry a cleared name.               *)
THEOREM InductiveInvariant ==
    ASSUME DeclinePolicy # "fallthrough"
    PROVE  Spec => []IInv
<1>1. IInv /\ [Next]_vars => IInv'
  BY InvariantStep
<1>2. QED
  BY <1>1, InitEstablishes, PTL DEF Spec

(* A tenant that nobody approved, retried or created as approved is never  *)
(* shown as Provisioned, as long as its name was not given up by a rename  *)
(* or typed into another tenant's form: not by concurrent requests, not by *)
(* a repeated or a late status write, not by a restarted execution.        *)
THEOREM ApprovalGate ==
    ASSUME DeclinePolicy # "fallthrough"
    PROVE  Spec => []UnapprovedOnlyOnContestedName
<1>1. IInv => UnapprovedOnlyOnContestedName
  BY DEF IInv
<1>2. QED
  BY <1>1, InductiveInvariant, PTL

(* An execution whose wait a denial ended never reaches the provisioning   *)
(* activities of its product.                                              *)
THEOREM DeclineGate ==
    ASSUME DeclinePolicy # "fallthrough"
    PROVE  Spec => []DeclinedRunDoesNoWork
<1>1. IInv => DeclinedRunDoesNoWork
  BY DEF IInv, RunsCleared, DeclinedRunDoesNoWork
<1>2. QED
  BY <1>1, InductiveInvariant, PTL
=============================================================================
