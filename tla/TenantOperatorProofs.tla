------------------------ MODULE TenantOperatorProofs ------------------------
(***************************************************************************)
(* Proof about TenantLifecycle under a careful operator, for any number of *)
(* tenants and names: no row stays in Provisioning unless an execution is  *)
(* on its way to write the status, or somebody was told.                   *)
(***************************************************************************)
EXTENDS TenantLifecycleProofs

-----------------------------------------------------------------------------
(* The one request in flight                                               *)

\* A careful operator's steps are steps of the callers there are.
LEMMA OperatorIsNext == [OperatorNext]_vars => [Next]_vars
BY DEF OperatorNext, OperatorArrives, Next

\* Nothing is asked of an idle request.
LEMMA IdleIsFine == OperatorRequest(Idle) /\ OperatorRequest(Idle)'
BY DEF OperatorRequest, Idle, Approves

\* The other requests are idle and stay so.
LEMMA OnlyOne ==
    ASSUME TypeOK, OneRequest, NEW r \in Requests, req[r] \in Busy,
           NEW x \in Request, req' = [req EXCEPT ![r] = x]
    PROVE  /\ req'[r] = x
           /\ \A o \in Requests \ {r} : req[o] = Idle /\ req'[o] = Idle
           /\ OneRequest'
<1>1. req[r] # Idle
  BY DEF Busy, Idle, Ops
<1>2. req'[r] = x /\ \A o \in Requests \ {r} : req'[o] = req[o]
  BY DEF TypeOK
<1>3. \A o \in Requests \ {r} : req[o] = Idle
  BY <1>1 DEF OneRequest
<1>4. OneRequest'
  BY <1>2, <1>3 DEF OneRequest
<1>5. QED
  BY <1>2, <1>3, <1>4

\* What a step of the request r for the tenant q.id has to keep: it touches
\* that tenant's row and the execution of its name, and nothing else.
LEMMA Touches ==
    ASSUME IInv, OperatorInv, NEW r \in Requests, NEW q \in Busy, q = req[r],
           NEW x \in Request, req' = [req EXCEPT ![r] = x],
           x.id = q.id \/ x = Idle,
           \A d \in Tenants \ {q.id} : row'[d] = row[d],
           \A n \in Names : run'[n] = run[n] \/ n = row[q.id].name,
           late' = late, contested \subseteq contested', alerts \subseteq alerts',
           row'[q.id].schemaOk => row'[q.id].form = row'[q.id].name,
           row'[q.id].status = "ApprovalPending" => Unapproved(row[q.id].name)',
           OperatorRequest(x)',
           x = Idle /\ row'[q.id].status = "Provisioning" =>
               \/ q.id \in alerts'
               \/ row'[q.id].name \in contested'
               \/ Underway(row[q.id].name)'
    PROVE  OperatorInv'
<1> USE DEF OperatorInv
<1>1. /\ req'[r] = x /\ OneRequest'
      /\ \A o \in Requests \ {r} : req[o] = Idle /\ req'[o] = Idle
  BY OnlyOne DEF IInv
<1>2. \A d \in Tenants \ {q.id} : row[d].status # "Absent" => run'[row[d].name] = run[row[d].name]
  <2>1. SUFFICES ASSUME NEW d \in Tenants \ {q.id}, row[d].status # "Absent"
                 PROVE  run'[row[d].name] = run[row[d].name]
    OBVIOUS
  <2>2. row[d].name \in Names /\ row[d].name # NoName
    BY <2>1 DEF IInv, TypeOK, Row, AbsentRowsHaveNoName
  <2>3. row[d].name # row[q.id].name
    BY <2>1, <2>2 DEF IInv, NamesDistinct, Busy
  <2>4. QED
    BY <2>2, <2>3
<1>3. FormIsName'
  BY DEF FormIsName
<1>4. LateWritesAreFinal'
  BY DEF LateWritesAreFinal
<1>5. PendingIsUnapproved'
  BY <1>2 DEF PendingIsUnapproved, Unapproved
<1>6. \A o \in Requests : \E y : y = req'[o] /\ OperatorRequest(y)'
  BY <1>1, IdleIsFine
<1>7. (\A o \in Requests : OperatorRequest(req[o]))'
  BY <1>6 DEF OperatorRequest, Approves, Unapproved
<1>8. StalledIsTold'
  <2> SUFFICES ASSUME NEW d \in Tenants, row'[d].status = "Provisioning",
                      \A o \in Requests : req'[o].id # d
               PROVE  \/ d \in alerts' \/ row'[d].name \in contested'
                      \/ Underway(row[d].name)'
    BY DEF StalledIsTold
  <2>1. CASE d = q.id
    BY <1>1, <2>1
  <2>2. CASE d # q.id
    <3>1. \A o \in Requests : req[o].id # d
      BY <1>1, <2>2
    <3>2. row'[d] = row[d] /\ run'[row[d].name] = run[row[d].name]
      BY <1>2, <2>2
    <3>3. QED
      BY <3>1, <3>2 DEF StalledIsTold, Underway
  <2>3. QED
    BY <2>1, <2>2
<1>9. QED
  BY <1>1, <1>3, <1>4, <1>5, <1>7, <1>8

\* A handler that raises tells its caller, or leaves the row of an update.
LEMMA FailTells ==
    ASSUME NEW r \in Requests, NEW q \in Busy, q = req[r], OperatorRequest(q), Fail(r),
           q.op = "update" => row'[q.id].status = row[q.id].status
    PROVE  row'[q.id].status = "Provisioning" => q.id \in alerts'
<1>1. CASE q.op = "update"
  BY <1>1 DEF OperatorRequest
<1>2. CASE q.op # "update"
  BY <1>2 DEF Fail, Background
<1>3. QED
  BY <1>1, <1>2

\* A handler that raises without having written anything.
LEMMA FailsEarly ==
    ASSUME IInv, OperatorInv, NEW r \in Requests, req[r] \in Busy, Fail(r),
           UNCHANGED <<row, run, late, contested>>
    PROVE  OperatorInv'
<1>1. PICK q \in Busy : q = req[r]
  OBVIOUS
<1>2. OperatorRequest(q) /\ q.id \in Tenants
  BY <1>1 DEF OperatorInv, Busy
<1>3. row'[q.id].status = "Provisioning" => q.id \in alerts'
  BY <1>1, <1>2, FailTells
<1>4. /\ row'[q.id].schemaOk => row'[q.id].form = row'[q.id].name
      /\ row'[q.id].status = "ApprovalPending" => Unapproved(row[q.id].name)'
  BY <1>2 DEF OperatorInv, FormIsName, PendingIsUnapproved, Unapproved
<1>5. req' = [req EXCEPT ![r] = Idle] /\ alerts \subseteq alerts' /\ Idle \in Request
  BY DEF Fail, Request
<1>6. QED
  BY <1>1, <1>3, <1>4, <1>5, IdleIsFine, Touches

-----------------------------------------------------------------------------
(* The steps of the handlers                                               *)

\* What is known of a handler at work.
LEMMA AtWork ==
    ASSUME IInv, OperatorInv, NEW r \in Requests, NEW ops \in SUBSET Ops, NEW p, At(r, ops, p)
    PROVE  \E q \in Busy : /\ q = req[r] /\ q.op \in ops /\ q.pc = p /\ q.id \in Tenants
                           /\ OperatorRequest(q) /\ RequestInv(q)
BY AtIsBusy DEF IInv, OperatorInv, RequestsInv, At, Busy

\* A handler's locals at its next position.
LEMMA NextLocals ==
    ASSUME IInv, NEW r \in Requests, NEW q \in Busy, q = req[r], NEW p \in Positions, Goto(r, p)
    PROVE  \E x \in Busy : /\ x.pc = p /\ x.op = q.op /\ x.id = q.id /\ x.name = q.name
                           /\ x.target = q.target /\ x.new = q.new /\ x.schemaOk = q.schemaOk
                           /\ x.skip = q.skip
                           /\ req' = [req EXCEPT ![r] = x]
<1> DEFINE x == [q EXCEPT !.pc = p]
<1>1. x \in Busy /\ req' = [req EXCEPT ![r] = x]
  BY DEF Busy, Goto, IInv, TypeOK
<1>2. /\ x.pc = p /\ x.op = q.op /\ x.id = q.id /\ x.name = q.name
      /\ x.target = q.target /\ x.new = q.new /\ x.schemaOk = q.schemaOk
      /\ x.skip = q.skip
  BY DEF Busy
<1>3. QED
  BY <1>1, <1>2

\* A handler that has not written anything yet, and goes on.
LEMMA GoesOnEarly ==
    ASSUME IInv, OperatorInv, NEW r \in Requests, NEW q \in Busy, q = req[r],
           NEW x \in Busy, req' = [req EXCEPT ![r] = x], x.id = q.id,
           UNCHANGED <<row, run, late, contested, alerts>>, OperatorRequest(x)'
    PROVE  OperatorInv'
<1>1. q.id \in Tenants /\ x # Idle /\ x \in Request
  BY DEF Busy, Idle, Ops, Request
<1>2. /\ row'[q.id].schemaOk => row'[q.id].form = row'[q.id].name
      /\ row'[q.id].status = "ApprovalPending" => Unapproved(row[q.id].name)'
  BY <1>1 DEF OperatorInv, FormIsName, PendingIsUnapproved, Unapproved
<1>3. QED
  BY <1>1, <1>2, Touches

LEMMA OperatorCreates ==
    ASSUME IInv, OperatorInv, NEW r \in Requests, CheckName(r) \/ InsertTenant(r)
    PROVE  OperatorInv'
<1> USE DEF Ops, Positions
<1>1. CASE CheckName(r)
  <2>1. PICK q \in Busy : q = req[r] /\ q.op = "create" /\ q.id \in Tenants
    BY <1>1, AtWork DEF CheckName
  <2>2. CASE Goto(r, "write") /\ UNCHANGED alerts
    <3>1. PICK x \in Busy : /\ x.pc = "write" /\ x.op = "create" /\ x.id = q.id
                            /\ req' = [req EXCEPT ![r] = x]
      BY <2>1, <2>2, NextLocals
    <3>2. OperatorRequest(x)'
      BY <3>1 DEF OperatorRequest, Written
    <3>3. QED
      BY <1>1, <2>1, <2>2, <3>1, <3>2, GoesOnEarly DEF CheckName
  <2>3. QED
    BY <1>1, <2>1, <2>2, FailsEarly DEF CheckName
<1>2. CASE InsertTenant(r)
  <2>1. PICK q \in Busy : /\ q = req[r] /\ q.op = "create" /\ q.pc = "write" /\ q.id \in Tenants
                          /\ OperatorRequest(q) /\ q.target \in Names
    BY <1>2, AtWork DEF InsertTenant, RequestInv
  <2>2. CASE row[q.id].status # "Absent" \/ Carriers(q.target) # {}
    BY <1>2, <2>1, <2>2, FailsEarly DEF InsertTenant
  <2>3. CASE ~(row[q.id].status # "Absent" \/ Carriers(q.target) # {})
    <3>1. PICK x \in Busy : /\ x.pc = "start" /\ x.op = "create" /\ x.id = q.id
                            /\ x.target = q.target /\ x.skip = q.skip
                            /\ req' = [req EXCEPT ![r] = x]
      BY <1>2, <2>1, <2>3, NextLocals DEF InsertTenant
    <3>2. /\ row'[q.id].name = q.target /\ row'[q.id].form = q.target
          /\ row'[q.id].status = IF ApprovalRequired /\ q.skip THEN "Provisioning"
                                                               ELSE "ApprovalPending"
          /\ \A d \in Tenants \ {q.id} : row'[d] = row[d]
          /\ UNCHANGED <<run, late, contested, alerts>>
      BY <1>2, <2>1, <2>3 DEF InsertTenant, IInv, TypeOK
    <3>3. Unapproved(row[q.id].name)'
      <4>1. run[q.target].approved => Cleared(q.target)
        BY <2>1 DEF IInv, RunsCleared
      <4>2. run[q.target].approved => q.target \in contested
        BY <2>3, <4>1 DEF Cleared, Carriers
      <4>3. QED
        BY <3>2, <4>2 DEF Unapproved
    <3>4. OperatorRequest(x)'
      BY <3>1, <3>2 DEF OperatorRequest, Approves, Written
    <3>5. x # Idle /\ x \in Request
      BY <3>1 DEF Idle, Request
    <3>6. QED
      BY <2>1, <3>1, <3>2, <3>3, <3>4, <3>5, Touches
  <2>4. QED
    BY <2>2, <2>3
<1>3. QED
  BY <1>1, <1>2

LEMMA OperatorReads ==
    ASSUME IInv, OperatorInv, NEW r \in Requests, ReadTenant(r)
    PROVE  OperatorInv'
<1>1. PICK q \in Busy : /\ q = req[r] /\ q.op # "create" /\ q.pc = "read" /\ q.id \in Tenants
                        /\ q.op \in Ops /\ OperatorRequest(q)
  BY AtWork DEF ReadTenant, Ops
<1>2. CASE Fail(r)
  BY <1>1, <1>2, FailsEarly DEF ReadTenant
<1>3. CASE ~Fail(r)
  <2>1. PICK x : x = [q EXCEPT !.pc = "write", !.name = row[q.id].name,
                               !.target = row[q.id].form, !.schemaOk = row[q.id].schemaOk]
    OBVIOUS
  <2>2. /\ x \in Busy /\ x.pc = "write" /\ x.op = q.op /\ x.id = q.id /\ x.new = q.new
        /\ x.name = row[q.id].name /\ x.target = row[q.id].form
        /\ x.schemaOk = row[q.id].schemaOk
    BY <1>1, <2>1 DEF Busy, Positions, IInv, TypeOK, Row
  <2>3. req' = [req EXCEPT ![r] = x] /\ UNCHANGED <<row, run, late, contested, alerts>>
    BY <1>1, <1>3, <2>1 DEF ReadTenant, IInv, TypeOK
  <2>4. OperatorRequest(x)'
    BY <1>1, <2>2, <2>3 DEF OperatorRequest, OperatorInv, FormIsName, Written, Unapproved
  <2>5. QED
    BY <1>1, <2>2, <2>3, <2>4, GoesOnEarly
<1>4. QED
  BY <1>2, <1>3

LEMMA OperatorDecides ==
    ASSUME IInv, OperatorInv, NEW r \in Requests, WriteDecision(r)
    PROVE  OperatorInv'
<1> USE DEF Ops, Positions
<1>1. PICK q \in Busy : /\ q = req[r] /\ q.op \in {"approve", "rename", "decline"}
                        /\ q.pc = "write" /\ q.id \in Tenants
                        /\ OperatorRequest(q) /\ RequestInv(q)
  BY AtWork DEF WriteDecision
<1>2. /\ row'[q.id].name = row[q.id].name /\ row'[q.id].form = row[q.id].form
      /\ row'[q.id].schemaOk = row[q.id].schemaOk
      /\ row'[q.id].status = IF q.op # "decline" THEN "Provisioning" ELSE "ApprovalDeclined"
      /\ \A d \in Tenants \ {q.id} : row'[d] = row[d]
      /\ UNCHANGED <<run, late, contested>>
  BY <1>1 DEF WriteDecision, IInv, TypeOK, Row
<1>3. row'[q.id].schemaOk => row'[q.id].form = row'[q.id].name
  BY <1>1, <1>2 DEF OperatorInv, FormIsName
<1>4. CASE Fail(r)
  <2>1. row'[q.id].status = "Provisioning" => q.id \in alerts'
    BY <1>1, <1>4, FailTells
  <2>2. req' = [req EXCEPT ![r] = Idle] /\ alerts \subseteq alerts' /\ Idle \in Request
    BY <1>4 DEF Fail, Request
  <2>3. QED
    BY <1>1, <1>2, <1>3, <2>1, <2>2, IdleIsFine, Touches
<1>5. CASE ~Fail(r)
  <2>1. PICK p \in {"describe", "signal"} :
          q.schemaOk /\ Goto(r, p) /\ UNCHANGED alerts /\ (p = "describe" => q.op = "rename")
    BY <1>1, <1>5 DEF WriteDecision
  <2>2. PICK x \in Busy : /\ x.pc = p /\ x.op = q.op /\ x.id = q.id /\ x.name = q.name
                          /\ x.target = q.target /\ x.new = q.new /\ x.skip = q.skip
                          /\ req' = [req EXCEPT ![r] = x]
    BY <1>1, <2>1, NextLocals
  <2>3. q.target = row[q.id].name /\ (q.op # "decline" => Unapproved(q.target))
    BY <1>1, <2>1 DEF OperatorRequest
  <2>4. OperatorRequest(x)'
    BY <1>1, <1>2, <2>1, <2>2, <2>3 DEF OperatorRequest, Approves, Unapproved, Written
  <2>5. x # Idle /\ x \in Request
    BY <2>2 DEF Idle, Request, Busy
  <2>6. QED
    BY <1>1, <1>2, <1>3, <2>1, <2>2, <2>4, <2>5, Touches
<1>6. QED
  BY <1>4, <1>5

LEMMA OperatorRetries ==
    ASSUME IInv, OperatorInv, NEW r \in Requests, WriteRetry(r)
    PROVE  OperatorInv'
<1> USE DEF Ops, Positions
<1>1. PICK q \in Busy : /\ q = req[r] /\ q.op = "retry" /\ q.pc = "write" /\ q.id \in Tenants
                        /\ OperatorRequest(q) /\ RequestInv(q)
  BY AtWork DEF WriteRetry
<1>2. /\ q.name = row[q.id].name /\ q.name \in Names /\ (q.schemaOk => q.target = q.name)
  BY <1>1 DEF OperatorRequest, RequestInv
<1>3. /\ row' = WithStatus(q.name, "Provisioning") /\ UNCHANGED <<run, late, contested>>
      /\ \A d \in Tenants \ {q.id} : row[d].name # q.name
  BY <1>1, <1>2, ConstantsAssumption DEF WriteRetry, IInv, NamesDistinct
<1>4. \A d \in Tenants \ {q.id} : row'[d] = row[d]
  BY <1>3 DEF WithStatus
<1>5. /\ row'[q.id].name = row[q.id].name /\ row'[q.id].status = "Provisioning"
      /\ row'[q.id].form = row[q.id].form /\ row'[q.id].schemaOk = row[q.id].schemaOk
  BY <1>1, <1>2, <1>3 DEF WithStatus, IInv, TypeOK, Row
<1>6. row'[q.id].schemaOk => row'[q.id].form = row'[q.id].name
  BY <1>1, <1>5 DEF OperatorInv, FormIsName
<1>7. CASE Fail(r)
  <2>1. q.id \in alerts'
    BY <1>1, <1>5, <1>7, FailTells
  <2>2. req' = [req EXCEPT ![r] = Idle] /\ alerts \subseteq alerts' /\ Idle \in Request
    BY <1>7 DEF Fail, Request
  <2>3. QED
    BY <1>1, <1>3, <1>4, <1>5, <1>6, <2>1, <2>2, IdleIsFine, Touches
<1>8. CASE ~Fail(r)
  <2>1. q.schemaOk /\ Goto(r, "start") /\ UNCHANGED alerts
    BY <1>1, <1>8 DEF WriteRetry
  <2>2. PICK x \in Busy : /\ x.pc = "start" /\ x.op = "retry" /\ x.id = q.id
                          /\ x.target = q.target /\ req' = [req EXCEPT ![r] = x]
    BY <1>1, <2>1, NextLocals
  <2>3. OperatorRequest(x)'
    BY <1>2, <1>5, <2>1, <2>2 DEF OperatorRequest, Approves, Written
  <2>4. x # Idle /\ x \in Request
    BY <2>2 DEF Idle, Request
  <2>5. QED
    BY <1>1, <1>3, <1>4, <1>5, <1>6, <2>1, <2>2, <2>3, <2>4, Touches
<1>9. QED
  BY <1>7, <1>8

LEMMA OperatorEdits ==
    ASSUME IInv, OperatorInv, NEW r \in Requests, StoreDetails(r)
    PROVE  OperatorInv'
<1>1. PICK q \in Busy : /\ q = req[r] /\ q.op = "update" /\ q.pc = "write" /\ q.id \in Tenants
                        /\ OperatorRequest(q)
  BY AtWork DEF StoreDetails, Ops
<1>2. CASE Fail(r) /\ UNCHANGED <<row, contested>>
  BY <1>1, <1>2, FailsEarly DEF StoreDetails
<1>3. CASE ~(Fail(r) /\ UNCHANGED <<row, contested>>)
  <2>1. PICK x : x = [q EXCEPT !.pc = "describe", !.target = q.new]
    OBVIOUS
  <2>2. /\ x \in Busy /\ x.pc = "describe" /\ x.op = "update" /\ x.id = q.id
        /\ x.new = q.new /\ x.target = q.new
    BY <1>1, <2>1 DEF Busy, Positions
  <2>3. /\ req' = [req EXCEPT ![r] = x] /\ UNCHANGED <<run, late, alerts>>
        /\ row' = [row EXCEPT ![q.id].form = q.new] /\ contested \subseteq contested'
    BY <1>1, <1>3, <2>1 DEF StoreDetails, IInv, TypeOK
  <2>4. /\ row'[q.id].name = row[q.id].name /\ row'[q.id].form = q.new
        /\ row'[q.id].status = row[q.id].status
        /\ \A d \in Tenants \ {q.id} : row'[d] = row[d]
    BY <1>1, <2>3 DEF IInv, TypeOK, Row
  <2>5. q.new = row[q.id].name /\ row[q.id].status # "Provisioning"
    BY <1>1 DEF OperatorRequest
  <2>6. row'[q.id].status = "ApprovalPending" => Unapproved(row[q.id].name)'
    BY <1>1, <2>3, <2>4 DEF OperatorInv, PendingIsUnapproved, Unapproved
  <2>7. OperatorRequest(x)'
    BY <2>2, <2>4, <2>5 DEF OperatorRequest, Approves, Written
  <2>8. x # Idle /\ x \in Request
    BY <2>2 DEF Idle, Request
  <2>9. QED
    BY <1>1, <2>2, <2>3, <2>4, <2>5, <2>6, <2>7, <2>8, Touches
<1>4. QED
  BY <1>2, <1>3

\* Where a handler goes that renames, or edits, a tenant with an execution.
LEMMA GoesOnAfterDescribe ==
    ASSUME NEW q \in Busy, OperatorRequest(q), q.op \in {"rename", "update"},
           q.pc \in {"describe", "terminate"}, UNCHANGED row,
           NEW x \in Busy, x.op = q.op, x.id = q.id, x.target = q.target, x.new = q.new,
           x.pc \in {"terminate", "rename", "start"}
    PROVE  OperatorRequest(x)'
BY DEF OperatorRequest, Approves, Written

LEMMA OperatorTerminates ==
    ASSUME IInv, OperatorInv, NEW r \in Requests, Describe(r) \/ Terminate(r)
    PROVE  OperatorInv'
<1> USE DEF Ops
<1>1. PICK q \in Busy : /\ q = req[r] /\ q.op \in {"rename", "update"} /\ q.id \in Tenants
                        /\ q.pc \in {"describe", "terminate"}
                        /\ OperatorRequest(q) /\ RequestInv(q)
  <2>1. CASE Describe(r)
    BY <2>1, AtWork DEF Describe
  <2>2. CASE Terminate(r)
    BY <2>2, AtWork DEF Terminate
  <2>3. QED
    BY <2>1, <2>2
<1>2. CASE Fail(r) /\ UNCHANGED run
  BY <1>1, <1>2, FailsEarly DEF Describe, Terminate
<1>3. ASSUME NEW p \in {"terminate", "rename", "start"}, Goto(r, p), UNCHANGED row
      PROVE  \E x \in Busy : /\ req' = [req EXCEPT ![r] = x] /\ x.id = q.id
                             /\ OperatorRequest(x)' /\ x # Idle /\ x \in Request
  <2>1. PICK x \in Busy : /\ x.pc = p /\ x.op = q.op /\ x.id = q.id
                          /\ x.target = q.target /\ x.new = q.new
                          /\ req' = [req EXCEPT ![r] = x]
    BY <1>1, <1>3, NextLocals DEF Positions
  <2>2. OperatorRequest(x)'
    BY <1>1, <1>3, <2>1, GoesOnAfterDescribe
  <2>3. x # Idle /\ x \in Request
    BY <2>1 DEF Idle, Request, Busy
  <2>4. QED
    BY <2>1, <2>2, <2>3
<1>4. CASE ~(Fail(r) /\ UNCHANGED run) /\ Describe(r)
  <2>1. PICK p \in {"terminate", "rename", "start"} :
          Goto(r, p) /\ UNCHANGED <<row, run, late, contested, alerts>>
    BY <1>4 DEF Describe, AfterDescribe
  <2>2. QED
    BY <1>1, <1>3, <2>1, GoesOnEarly
<1>5. CASE ~(Fail(r) /\ UNCHANGED run) /\ Terminate(r)
  <2>1. PICK p \in {"terminate", "rename", "start"} :
          Goto(r, p) /\ UNCHANGED <<row, late, contested, alerts>>
    BY <1>5 DEF Terminate, AfterDescribe
  <2>2. q.target = row[q.id].name /\ q.target \in Names
    BY <1>1 DEF OperatorRequest, RequestInv, Written
  <2>3. run' = [run EXCEPT ![q.target].pc = "terminated"]
    BY <1>1, <1>5 DEF Terminate
  <2>4. /\ \A n \in Names : run'[n] = run[n] \/ n = q.target
        /\ run'[q.target].approved = run[q.target].approved
    BY <2>2, <2>3 DEF IInv, TypeOK, Run
  <2>5. /\ row'[q.id].schemaOk => row'[q.id].form = row'[q.id].name
        /\ row'[q.id].status = "ApprovalPending" => Unapproved(row[q.id].name)'
    BY <1>1, <2>1, <2>2, <2>4 DEF OperatorInv, FormIsName, PendingIsUnapproved, Unapproved
  <2>6. PICK x \in Busy : /\ req' = [req EXCEPT ![r] = x] /\ x.id = q.id
                          /\ OperatorRequest(x)' /\ x # Idle /\ x \in Request
    BY <1>3, <2>1
  <2>7. QED
    BY <1>1, <2>1, <2>2, <2>4, <2>5, <2>6, Touches
<1>6. QED
  BY <1>2, <1>4, <1>5

LEMMA OperatorRenames ==
    ASSUME IInv, OperatorInv, NEW r \in Requests, RenameTenant(r)
    PROVE  OperatorInv'
<1>1. PICK q \in Busy : /\ q = req[r] /\ q.op = "rename" /\ q.pc = "rename" /\ q.id \in Tenants
                        /\ OperatorRequest(q) /\ RequestInv(q)
  BY AtWork DEF RenameTenant, Ops
<1>2. CASE Fail(r) /\ UNCHANGED <<row, contested>>
  BY <1>1, <1>2, FailsEarly DEF RenameTenant
<1>3. CASE ~(Fail(r) /\ UNCHANGED <<row, contested>>)
  <2>1. PICK x : x = [q EXCEPT !.pc = "start", !.target = q.new]
    OBVIOUS
  <2>2. /\ x \in Busy /\ x.pc = "start" /\ x.op = "rename" /\ x.id = q.id
        /\ x.target = q.new /\ x # Idle /\ x \in Request
    BY <1>1, <2>1 DEF Busy, Positions, Idle, Request
  <2>3. /\ req' = [req EXCEPT ![r] = x] /\ UNCHANGED <<run, late, alerts>>
        /\ row' = [row EXCEPT ![q.id].name = q.new, ![q.id].schemaOk = FALSE]
        /\ contested \subseteq contested'
    BY <1>1, <1>3, <2>1 DEF RenameTenant, IInv, TypeOK
  <2>4. /\ row'[q.id].name = q.new /\ row'[q.id].schemaOk = FALSE
        /\ row'[q.id].status = row[q.id].status
        /\ \A d \in Tenants \ {q.id} : row'[d] = row[d]
    <3>1. row \in [Tenants -> Row] /\ q.id \in Tenants
      BY <1>1 DEF IInv, TypeOK
    <3>2. QED
      BY <2>3, <3>1 DEF Row
  <2>5. row[q.id].status # "ApprovalPending"
    BY <1>1 DEF OperatorRequest, Approves, Written
  <2>6. OperatorRequest(x)'
    BY <2>2, <2>4, <2>5 DEF OperatorRequest, Approves, Written
  <2>7. QED
    BY <1>1, <2>2, <2>3, <2>4, <2>5, <2>6, Touches
<1>4. QED
  BY <1>2, <1>3

LEMMA OperatorStarts ==
    ASSUME ApprovalRequired, IInv, OperatorInv, NEW r \in Requests, StartRun(r)
    PROVE  OperatorInv'
<1> USE DEF Ops
<1>1. PICK q \in Busy : /\ q = req[r] /\ q.op \in {"create", "rename", "retry", "update"}
                        /\ q.pc = "start" /\ q.id \in Tenants
                        /\ OperatorRequest(q) /\ RequestInv(q)
  BY AtWork DEF StartRun
<1>2. CASE Fail(r) /\ UNCHANGED run
  BY <1>1, <1>2, FailsEarly DEF StartRun
<1>3. CASE ~(Fail(r) /\ UNCHANGED run)
  <2>1. /\ q.target = row[q.id].name /\ q.target \in Names
        /\ row[q.id].status # (IF Approves(q) THEN "ApprovalPending" ELSE "Provisioning")
    BY <1>1 DEF OperatorRequest, RequestInv, Written
  <2>2. /\ run' = [run EXCEPT ![q.target] = NewRun(q.op \in {"rename", "retry"})]
        /\ UNCHANGED <<row, late, contested>>
    BY <1>1, <1>3 DEF StartRun
  <2>3. /\ \A n \in Names : run'[n] = run[n] \/ n = q.target
        /\ run'[q.target].approved = FALSE
    BY <2>1, <2>2 DEF IInv, TypeOK, NewRun
  <2>4. /\ row'[q.id].schemaOk => row'[q.id].form = row'[q.id].name
        /\ row'[q.id].status = "ApprovalPending" => Unapproved(row[q.id].name)'
    BY <1>1, <2>1, <2>2, <2>3 DEF OperatorInv, FormIsName, Unapproved
  <2>5. CASE SignalsAfterStart(r)
    <3>1. Goto(r, "signal") /\ UNCHANGED alerts /\ Approves(q)
      BY <1>1, <1>3, <2>5 DEF StartRun, SignalsAfterStart, Approves
    <3>2. PICK x \in Busy : /\ x.pc = "signal" /\ x.op = q.op /\ x.id = q.id
                            /\ x.target = q.target /\ x.new = q.new /\ x.skip = q.skip
                            /\ req' = [req EXCEPT ![r] = x]
      BY <1>1, <3>1, NextLocals DEF Positions
    <3>3. q.op # "update"
      BY <1>1, <2>5 DEF SignalsAfterStart
    <3>4. OperatorRequest(x)'
      BY <2>1, <2>2, <2>3, <3>1, <3>2, <3>3
         DEF OperatorRequest, Approves, Unapproved, Written
    <3>5. x # Idle /\ x \in Request
      BY <3>2 DEF Idle, Request, Busy
    <3>6. QED
      BY <1>1, <2>1, <2>2, <2>3, <2>4, <3>1, <3>2, <3>4, <3>5, Touches
  <2>6. CASE ~SignalsAfterStart(r)
    <3>1. ~Approves(q)
      BY <1>1, <2>6 DEF SignalsAfterStart, Approves
    <3>2. req' = [req EXCEPT ![r] = Idle] /\ UNCHANGED alerts /\ Idle \in Request
      BY <1>3, <2>6 DEF StartRun, Return, Request
    <3>3. QED
      BY <1>1, <2>1, <2>2, <2>3, <2>4, <3>1, <3>2, IdleIsFine, Touches
  <2>7. QED
    BY <2>5, <2>6
<1>4. QED
  BY <1>2, <1>3

LEMMA OperatorSignals ==
    ASSUME IInv, OperatorInv, NEW r \in Requests, SignalRun(r)
    PROVE  OperatorInv'
<1> USE DEF Ops
<1>1. PICK q \in Busy : /\ q = req[r] /\ q.op \in Ops \ {"update"} /\ q.pc = "signal"
                        /\ q.id \in Tenants /\ OperatorRequest(q) /\ RequestInv(q)
  BY AtWork DEF SignalRun
<1>2. CASE Fail(r) /\ UNCHANGED run
  BY <1>1, <1>2, FailsEarly DEF SignalRun
<1>3. CASE ~(Fail(r) /\ UNCHANGED run)
  <2>1. /\ q.target = row[q.id].name /\ q.target \in Names
        /\ row[q.id].status # (IF Approves(q) THEN "ApprovalPending" ELSE "Provisioning")
    BY <1>1 DEF OperatorRequest, RequestInv, Written
  <2>2. /\ run[q.target].pc \in Open /\ UNCHANGED <<row, late, contested, alerts>>
        /\ run' = IF q.op = "decline" THEN [run EXCEPT ![q.target].denied = TRUE]
                                      ELSE [run EXCEPT ![q.target].approved = TRUE]
        /\ req' = [req EXCEPT ![r] = Idle] /\ Idle \in Request
    BY <1>1, <1>3 DEF SignalRun, Return, Request
  <2>3. /\ \A n \in Names : run'[n] = run[n] \/ n = q.target
        /\ run'[q.target].pc = run[q.target].pc
        /\ run'[q.target].approved = (run[q.target].approved \/ q.op # "decline")
    BY <2>1, <2>2 DEF IInv, TypeOK, Run
  <2>4. row'[q.id].schemaOk => row'[q.id].form = row'[q.id].name
    BY <1>1, <2>2 DEF OperatorInv, FormIsName
  <2>5. CASE q.op = "decline"
    <3>1. ~Approves(q)
      BY <2>5 DEF Approves
    <3>2. row'[q.id].status = "ApprovalPending" => Unapproved(row[q.id].name)'
      BY <1>1, <2>1, <2>2, <2>3, <2>5 DEF OperatorInv, PendingIsUnapproved, Unapproved
    <3>3. QED
      BY <1>1, <2>1, <2>2, <2>3, <2>4, <3>1, <3>2, IdleIsFine, Touches
  <2>6. CASE q.op # "decline"
    <3>1. Approves(q) /\ Unapproved(q.target)
      BY <1>1, <2>6 DEF OperatorRequest
    <3>2. run[q.target].pc = "after" => q.target \in contested
      BY <2>1, <3>1 DEF Unapproved, IInv, RunsCleared, Work
    <3>3. row'[q.id].name \in contested' \/ Underway(row[q.id].name)'
      BY <2>1, <2>2, <2>3, <2>6, <3>2 DEF Underway
    <3>4. QED
      BY <1>1, <2>1, <2>2, <2>3, <2>4, <3>1, <3>3, IdleIsFine, Touches
  <2>7. QED
    BY <2>5, <2>6
<1>4. QED
  BY <1>2, <1>3

-----------------------------------------------------------------------------
(* Requests that come and go, and the executions                           *)

LEMMA OperatorArrival ==
    ASSUME IInv, OperatorInv, NEW r \in Requests, OperatorArrives(r)
    PROVE  OperatorInv'
<1>1. /\ \A o \in Requests : req[o] = Idle
      /\ UNCHANGED <<row, run, late, contested, alerts>>
  BY DEF OperatorArrives, ArriveCreate, ArriveOnRow, Arrive
<1>2. PICK x \in Request : req' = [req EXCEPT ![r] = x] /\ OperatorRequest(x)'
  <2>1. CASE ArriveCreate(r)
    <3>1. PICK c \in Tenants, n \in Names, skip \in BOOLEAN :
            Arrive(r, [Idle EXCEPT !.op = "create", !.pc = "check", !.id = c,
                                   !.target = n, !.skip = skip])
      BY <2>1 DEF ArriveCreate
    <3>2. PICK x : x = [Idle EXCEPT !.op = "create", !.pc = "check", !.id = c,
                                    !.target = n, !.skip = skip]
      OBVIOUS
    <3>3. x \in Request /\ x.op = "create" /\ x.pc = "check"
      BY <3>2 DEF Request, Busy, Idle, Ops, Positions
    <3>4. OperatorRequest(x)'
      BY <3>3 DEF OperatorRequest, Written
    <3>5. QED
      BY <3>1, <3>2, <3>3, <3>4 DEF Arrive
  <2>2. CASE ArriveOnRow(r)
    <3>1. PICK c \in Tenants, op \in Ops \ {"create"}, n \in Names \cup {NoName} :
            Arrive(r, [Idle EXCEPT !.op = op, !.pc = "read", !.id = c, !.new = n])
      BY <2>2 DEF ArriveOnRow
    <3>2. PICK x : x = [Idle EXCEPT !.op = op, !.pc = "read", !.id = c, !.new = n]
      OBVIOUS
    <3>3. /\ x \in Request /\ x.op = op /\ x.pc = "read" /\ x.id = c /\ x.new = n
          /\ req' = [req EXCEPT ![r] = x]
      BY <3>1, <3>2 DEF Request, Busy, Idle, Ops, Positions, Arrive
    <3>4. req'[r] = x
      BY <3>3 DEF IInv, TypeOK
    <3>5. /\ CalledFor(op, row[c].status)
          /\ op = "update" => n = row[c].name
      BY <3>1, <3>3, <3>4 DEF OperatorArrives, Ops
    <3>6. op \in {"approve", "rename"} => Unapproved(row[c].name)
      BY <3>5 DEF CalledFor, OperatorInv, PendingIsUnapproved
    <3>7. op = "update" => row[c].status # "Provisioning"
      BY <3>5 DEF CalledFor, CanUpdateTenant
    <3>8. OperatorRequest(x)'
      BY <1>1, <3>1, <3>3, <3>5, <3>6, <3>7 DEF OperatorRequest, Unapproved, Written
    <3>9. QED
      BY <3>3, <3>8
  <2>3. QED
    BY <2>1, <2>2 DEF OperatorArrives
<1>3. req'[r] = x /\ \A o \in Requests \ {r} : req'[o] = Idle
  BY <1>1, <1>2 DEF IInv, TypeOK
<1>4. OneRequest'
  BY <1>3 DEF OneRequest
<1>5. FormIsName' /\ LateWritesAreFinal' /\ PendingIsUnapproved'
  BY <1>1 DEF OperatorInv, FormIsName, LateWritesAreFinal, PendingIsUnapproved, Unapproved
<1>6. \A o \in Requests : \E y : y = req'[o] /\ OperatorRequest(y)'
  BY <1>2, <1>3, IdleIsFine
<1>7. (\A o \in Requests : OperatorRequest(req[o]))'
  BY <1>6 DEF OperatorRequest, Approves, Unapproved
<1>8. StalledIsTold'
  <2>1. \A c \in Tenants, o \in Requests : req[o].id # c
    BY <1>1, ConstantsAssumption DEF Idle
  <2>2. QED
    BY <1>1, <2>1 DEF OperatorInv, StalledIsTold, Underway
<1>9. QED
  BY <1>4, <1>5, <1>7, <1>8 DEF OperatorInv

\* What the executions, and the writes that linger, do to the rows.
LEMMA ExecutionsGoOn ==
    ASSUME IInv, OperatorInv, UNCHANGED <<req, contested>>, alerts \subseteq alerts',
           LateWritesAreFinal',
           \A c \in Tenants :
             /\ row'[c].name = row[c].name /\ row'[c].form = row[c].form
             /\ row'[c].schemaOk = row[c].schemaOk
             /\ \/ row'[c].status = row[c].status
                \/ row'[c].status \in {"ApprovalDeclined", "Provisioned", "ProvisioningFailed"},
           \A n \in Names : run'[n].approved = run[n].approved,
           \A c \in Tenants :
             row'[c].status = "Provisioning" /\ Underway(row[c].name) =>
                 c \in alerts' \/ Underway(row[c].name)'
    PROVE  OperatorInv'
<1> USE DEF OperatorInv
<1>1. OneRequest' /\ FormIsName'
  BY DEF OneRequest, FormIsName
<1>2. \A c \in Tenants : row[c].status # "Absent" => row[c].name \in Names
  BY DEF IInv, TypeOK, Row, AbsentRowsHaveNoName
<1>3. PendingIsUnapproved'
  BY <1>2 DEF PendingIsUnapproved, Unapproved
<1>4. \A o \in Requests : \E y : y = req'[o] /\ OperatorRequest(y)'
  <2>1. SUFFICES ASSUME NEW o \in Requests
                 PROVE  \E y : y = req'[o] /\ OperatorRequest(y)'
    OBVIOUS
  <2>2. PICK y \in Request : y = req[o] /\ OperatorRequest(y) /\ RequestInv(y)
    BY DEF IInv, TypeOK, RequestsInv
  <2>3. CASE y = Idle
    BY <2>2, <2>3, IdleIsFine
  <2>4. CASE y \in Busy
    <3>1. y.id \in Tenants
      BY <2>4 DEF Busy
    <3>2. /\ y.op \in {"approve", "rename"} /\ y.pc \in {"read", "write"} =>
               row[y.id].name \in Names
          /\ y.pc = "signal" /\ y.op # "update" => y.target \in Names
      BY <1>2, <2>2, <2>4, <3>1 DEF RequestInv, Busy
    <3>3. y.op = "update" => y.pc # "signal"
      BY <2>2 DEF OperatorRequest, Approves
    <3>4. OperatorRequest(y)'
      BY <2>2, <3>1, <3>2, <3>3 DEF OperatorRequest, Approves, Unapproved
    <3>5. QED
      BY <2>2, <3>4
  <2>5. QED
    BY <2>2, <2>3, <2>4 DEF Request
<1>5. (\A o \in Requests : OperatorRequest(req[o]))'
  BY <1>4 DEF OperatorRequest, Approves, Unapproved
<1>6. StalledIsTold'
  BY DEF StalledIsTold
<1>7. QED
  BY <1>1, <1>3, <1>5, <1>6

LEMMA OperatorExecution ==
    ASSUME IInv, OperatorInv, NEW n \in Names, RunAdvances(n) \/ WriteAttemptLingers(n)
    PROVE  OperatorInv'
<1>1. ASSUME NEW s \in TenantStatus, row' = WithStatus(n, s)
      PROVE  \A c \in Tenants :
               /\ row'[c].name = row[c].name /\ row'[c].form = row[c].form
               /\ row'[c].schemaOk = row[c].schemaOk
               /\ row'[c].status = IF row[c].name = n THEN s ELSE row[c].status
  BY <1>1 DEF WithStatus, IInv, TypeOK, Row
<1>2. ASSUME NEW p, SetPc(n, p)
      PROVE  /\ \A m \in Names : run'[m].approved = run[m].approved
             /\ \A m \in Names \ {n} : run'[m] = run[m]
             /\ run'[n].pc = p
  BY <1>2 DEF SetPc, IInv, TypeOK, Run
<1>3. \A c \in Tenants : row[c].status # "Absent" => row[c].name \in Names
  BY DEF IInv, TypeOK, Row, AbsentRowsHaveNoName
<1>4. CASE UNCHANGED row /\ UNCHANGED <<req, late, contested>> /\ alerts \subseteq alerts'
           /\ (\A m \in Names : run'[m].approved = run[m].approved)
           /\ (\A m \in Names \ {n} : run'[m] = run[m])
           /\ (run[n].pc \in Open \ {"after"} =>
                 run'[n].pc \in Open \ {"after"} \/ Carriers(n) \subseteq alerts')
  <2>1. LateWritesAreFinal'
    BY <1>4 DEF OperatorInv, LateWritesAreFinal
  <2>2. \A c \in Tenants : row[c].status = "Provisioning" /\ Underway(row[c].name) =>
                             c \in alerts' \/ Underway(row[c].name)'
    BY <1>3, <1>4 DEF Underway, Carriers
  <2>3. QED
    BY <1>4, <2>1, <2>2, ExecutionsGoOn
<1> USE DEF Open, Work, Writing
<1>5. CASE BeforeMailSent(n) \/ ActivityFails(n)
  BY <1>2, <1>4, <1>5 DEF BeforeMailSent, ActivityFails
<1>6. CASE WaitEnds(n)
  <2>1. /\ \A m \in Names : run'[m].approved = run[m].approved
        /\ \A m \in Names \ {n} : run'[m] = run[m]
        /\ run'[n].pc \in {"failing", "declining", "working"}
    BY <1>6 DEF WaitEnds, IInv, TypeOK, Run
  <2>2. QED
    BY <1>4, <1>6, <2>1 DEF WaitEnds
<1>7. CASE ActivitiesDone(n)
  BY <1>2, <1>4, <1>7 DEF ActivitiesDone
<1>8. CASE StatusWriteExhausted(n)
  BY <1>2, <1>4, <1>8 DEF StatusWriteExhausted
<1>9. run[n].pc \in Writing =>
        StatusOf[run[n].pc] \in {"ApprovalDeclined", "Provisioned", "ProvisioningFailed"}
  BY DEF StatusOf
<1>10. CASE StatusWritten(n)
  <2>1. PICK s \in {"ApprovalDeclined", "Provisioned", "ProvisioningFailed"} :
          row' = WithStatus(n, s)
    BY <1>9, <1>10 DEF StatusWritten
  <2>2. s \in TenantStatus
    BY DEF TenantStatus
  <2>3. \A c \in Tenants :
          /\ row'[c].name = row[c].name /\ row'[c].form = row[c].form
          /\ row'[c].schemaOk = row[c].schemaOk
          /\ row'[c].status = IF row[c].name = n THEN s ELSE row[c].status
    BY <1>1, <2>1, <2>2
  <2>4. /\ UNCHANGED <<req, late, contested, alerts>>
        /\ \A m \in Names : run'[m].approved = run[m].approved
        /\ \A m \in Names \ {n} : run'[m] = run[m]
    BY <1>2, <1>10 DEF StatusWritten
  <2>5. LateWritesAreFinal'
    BY <2>4 DEF OperatorInv, LateWritesAreFinal
  <2>6. \A c \in Tenants : row'[c].status = "Provisioning" /\ Underway(row[c].name) =>
                             c \in alerts' \/ Underway(row[c].name)'
    <3>1. SUFFICES ASSUME NEW c \in Tenants, row'[c].status = "Provisioning",
                          Underway(row[c].name)
                   PROVE  Underway(row[c].name)'
      OBVIOUS
    <3>2. row[c].name # n /\ row[c].status = "Provisioning"
      BY <2>3, <3>1
    <3>3. row'[c].name = row[c].name /\ run'[row[c].name] = run[row[c].name]
      BY <1>3, <2>3, <2>4, <3>2
    <3>4. QED
      BY <3>1, <3>3 DEF Underway
  <2>7. QED
    BY <2>3, <2>4, <2>5, <2>6, ExecutionsGoOn
<1>11. CASE WriteAttemptLingers(n)
  <2>1. UNCHANGED <<row, run, req, contested, alerts>>
    BY <1>11 DEF WriteAttemptLingers
  <2>2. LateWritesAreFinal'
    BY <1>9, <1>11 DEF WriteAttemptLingers, OperatorInv, LateWritesAreFinal
  <2>3. QED
    BY <2>1, <2>2, ExecutionsGoOn DEF Underway
<1>12. QED
  BY <1>5, <1>6, <1>7, <1>8, <1>10, <1>11 DEF RunAdvances

LEMMA OperatorLateWrite ==
    ASSUME IInv, OperatorInv, NEW w \in late, LateWriteLands(w)
    PROVE  OperatorInv'
<1>1. w.status \in {"ApprovalDeclined", "Provisioned", "ProvisioningFailed"}
  BY DEF OperatorInv, LateWritesAreFinal
<1>2. /\ row' = WithStatus(w.name, w.status) /\ late' \subseteq late
      /\ UNCHANGED <<run, req, contested, alerts>>
  BY DEF LateWriteLands
<1>3. \A c \in Tenants :
        /\ row'[c].name = row[c].name /\ row'[c].form = row[c].form
        /\ row'[c].schemaOk = row[c].schemaOk
        /\ row'[c].status = row[c].status \/ row'[c].status = w.status
  BY <1>2 DEF WithStatus, IInv, TypeOK, Row
<1>4. LateWritesAreFinal'
  BY <1>2 DEF OperatorInv, LateWritesAreFinal
<1>5. \A c \in Tenants : Underway(row[c].name) => Underway(row[c].name)'
  BY <1>2, <1>3 DEF Underway
<1>6. QED
  BY <1>1, <1>2, <1>3, <1>4, <1>5, ExecutionsGoOn

-----------------------------------------------------------------------------
(* The theorems                                                            *)

LEMMA OperatorStep ==
    ASSUME ApprovalRequired, IInv, OperatorInv, [OperatorNext]_vars
    PROVE  OperatorInv'
<1>1. ASSUME NEW r \in Requests, HandlerStep(r)
      PROVE  OperatorInv'
  BY <1>1, OperatorCreates, OperatorReads, OperatorDecides, OperatorRetries, OperatorEdits,
     OperatorTerminates, OperatorRenames, OperatorStarts, OperatorSignals DEF HandlerStep
<1>2. ASSUME NEW r \in Requests, HandlerDies(r)
      PROVE  OperatorInv'
  <2>1. req[r] \in Busy
    BY <1>2 DEF HandlerDies, IInv, TypeOK, Request
  <2>2. QED
    BY <1>2, <2>1, FailsEarly DEF HandlerDies
<1>3. CASE UNCHANGED vars
  <2>1. LateWritesAreFinal'
    BY <1>3 DEF vars, OperatorInv, LateWritesAreFinal
  <2>2. QED
    BY <1>3, <2>1, ExecutionsGoOn DEF vars, Underway
<1>4. QED
  BY <1>1, <1>2, <1>3, OperatorArrival, OperatorExecution, OperatorLateWrite DEF OperatorNext

LEMMA OperatorInit == Init => OperatorInv
<1> SUFFICES ASSUME Init PROVE OperatorInv
  OBVIOUS
<1>1. \A r \in Requests : OperatorRequest(req[r])
  BY IdleIsFine DEF Init
<1>2. OneRequest /\ FormIsName /\ LateWritesAreFinal /\ PendingIsUnapproved /\ StalledIsTold
  BY DEF Init, OneRequest, FormIsName, LateWritesAreFinal, PendingIsUnapproved, StalledIsTold
<1>3. QED
  BY <1>1, <1>2 DEF OperatorInv

(* Under a careful operator, one handler is in flight, it works on the     *)
(* execution of its own row's name, and a row in Provisioning is on its    *)
(* way or somebody was told.                                               *)
THEOREM OperatorInvariant ==
    ASSUME ApprovalRequired, DeclinePolicy # "fallthrough"
    PROVE  OperatorSpec => [](IInv /\ OperatorInv)
<1>1. Init => IInv /\ OperatorInv
  BY InitEstablishes, OperatorInit
<1>2. IInv /\ OperatorInv /\ [OperatorNext]_vars => (IInv /\ OperatorInv)'
  BY OperatorIsNext, InvariantStep, OperatorStep
<1>3. QED
  BY <1>1, <1>2, PTL DEF OperatorSpec

(* No silent stall: a row that shows Provisioning while no handler is busy *)
(* with it and no open execution was told to go on is one about which some *)
(* caller got an error, whatever raises on the way.                        *)
THEOREM NoSilentStall ==
    ASSUME ApprovalRequired, DeclinePolicy # "fallthrough"
    PROVE  OperatorSpec => []StallIsReported
<1>1. OperatorInv => StallIsReported
  BY DEF OperatorInv, StalledIsTold, Underway, StallIsReported
<1>2. QED
  BY <1>1, OperatorInvariant, PTL
=============================================================================
