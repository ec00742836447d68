-------------------------- MODULE TenantLifecycle --------------------------
(***************************************************************************)
(* The approval gate of an operator-provisioned product: the HTTP handlers *)
(* that create, approve, decline, rename, retry and edit a tenant, and the *)
(* onboarding workflow of that product, which waits for a signal, runs its *)
(* provisioning activities and writes the tenant's status.                 *)
(*                                                                         *)
(* Handlers and workflows share only two things: the tables customer and   *)
(* provisioningstatus (variable row, one record per customer) and the      *)
(* Temporal server (variable run, the latest execution of every workflow   *)
(* id; the id holds nothing but the tenant name).  Every await of a        *)
(* handler is a step of its own, so two requests interleave freely.        *)
(*                                                                         *)
(* A name that a rename gave up, or that was typed into the form of a      *)
(* tenant called otherwise, is "contested": the workflow id derived from   *)
(* it can then belong to another tenant than the row that carries it.      *)
(***************************************************************************)
EXTENDS Naturals, FiniteSets

CONSTANTS
    Tenants,          \* ids of table customer
    Names,            \* tenant names, also the variable part of a workflow id
    NoTenant,         \* an idle request names no tenant
    NoName,           \* a row that was not inserted yet has no name
    Requests,         \* handlers that can be in flight at the same time
    ApprovalRequired, \* column product.approvalRequired
    BeforeMail,       \* the workflow sends a mail before it waits
    AfterSteps,       \* the workflow does more after it wrote Provisioned
    DeclinePolicy,    \* what the workflow does with a declined request
    QuotedIdAccepted, \* the driver takes an id with quotes around it
    MaxRequests,      \* bound: requests that ever arrive
    MaxRuns           \* bound: onboarding executions Temporal accepts

ASSUME ConstantsAssumption ==
    /\ NoName \notin Names
    /\ NoTenant \notin Tenants
    /\ ApprovalRequired \in BOOLEAN
    /\ BeforeMail \in BOOLEAN
    /\ AfterSteps \in BOOLEAN
    /\ QuotedIdAccepted \in BOOLEAN
    /\ DeclinePolicy \in {"return", "fallthrough", "attribute_error"}
    /\ MaxRequests \in Nat
    /\ MaxRuns \in Nat

VARIABLES
    row,         \* [Tenants -> customer JOIN provisioningstatus]
    run,         \* [Names -> latest onboarding execution under that name]
    req,         \* [Requests -> the handler's locals and position]
    late,        \* attempts at a status write that nobody waits for any more
    issued,      \* requests that arrived so far
    started,     \* executions started so far
    sanctioned,  \* history: rows that some request set to Provisioning
    contested,   \* history: names that may lead to another tenant's run
    alerts       \* history: rows about which somebody was told of an error

vars == <<row, run, req, late, issued, started, sanctioned, contested, alerts>>

-----------------------------------------------------------------------------
(* Data                                                                    *)

TenantStatus ==
    {"Absent", "ApprovalPending", "ApprovalDeclined", "Provisioning",
     "Provisioned", "ProvisioningFailed"}

CanUpdateTenant == {"ApprovalDeclined", "ApprovalPending"}

Row == [name : Names \cup {NoName}, form : Names \cup {NoName},
        schemaOk : BOOLEAN, status : TenantStatus]

\* Phases in which provisioning activities run or have run.
Work == {"working", "provisioned", "after"}
\* Phases whose outstanding activity is UpdateTenantStatusActivity.
Writing == {"declining", "provisioned", "failing"}
Open == {"mail", "waiting"} \cup Work \cup Writing
Closed == {"completed", "failed", "terminated"}

Run == [pc : {"none"} \cup Open \cup Closed, approved : BOOLEAN,
        denied : BOOLEAN, verdict : {"none", "approved", "denied"}]

\* Mutated form: a decline writes a member the enumeration does not have.
StatusOf_no_such_member ==
    [p \in Writing |-> IF p = "declining" THEN "Declined" ELSE "Provisioned"]

\* The status the outstanding write of a phase carries.
StatusOf == [p \in Writing |->
               CASE p = "declining"   -> "ApprovalDeclined"
                 [] p = "provisioned" -> "Provisioned"
                 [] p = "failing"     -> "ProvisioningFailed"]

Ops == {"create", "approve", "rename", "decline", "retry", "update"}

Positions == {"check", "read", "write", "describe", "terminate", "rename",
              "start", "signal"}

Busy == [op : Ops,
         pc : Positions,
         id : Tenants,
         name : Names \cup {NoName},    \* tenantname as read
         target : Names \cup {NoName},  \* name the workflow id is built of
         new : Names \cup {NoName},     \* name given by the caller
         schemaOk : BOOLEAN,            \* customer.schema as read
         skip : BOOLEAN]                \* skip_approval

Idle == [op |-> "idle", pc |-> "idle", id |-> NoTenant, name |-> NoName,
         target |-> NoName, new |-> NoName, schemaOk |-> TRUE, skip |-> FALSE]

Request == Busy \cup {Idle}

LateWrite == [name : Names \cup {NoName}, status : TenantStatus]

TypeOK ==
    /\ row \in [Tenants -> Row]
    /\ run \in [Names -> Run]
    /\ req \in [Requests -> Request]
    /\ late \subseteq LateWrite
    /\ issued \in Nat
    /\ started \in Nat
    /\ sanctioned \subseteq Tenants
    /\ contested \subseteq Names \cup {NoName}
    /\ alerts \subseteq Tenants

Init ==
    /\ row = [c \in Tenants |-> [name |-> NoName, form |-> NoName,
                                 schemaOk |-> TRUE, status |-> "Absent"]]
    /\ run = [n \in Names |-> [pc |-> "none", approved |-> FALSE,
                               denied |-> FALSE, verdict |-> "none"]]
    /\ req = [r \in Requests |-> Idle]
    /\ late = {}
    /\ issued = 0
    /\ started = 0
    /\ sanctioned = {}
    /\ contested = {}
    /\ alerts = {}

-----------------------------------------------------------------------------
(* The database                                                            *)

\* Mutated form: the table has no UNIQUE (product, tenantname).
TakenByOther_not_unique(c, n) == FALSE

\* UNIQUE (product, tenantname): n belongs to another row than c.
TakenByOther(c, n) == \E d \in Tenants \ {c} : row[d].name = n

Carriers(n) == {c \in Tenants : row[c].name = n}

\* update_tenant.sql finds the row by name and looks at nothing else.
WithStatus(n, s) ==
    [c \in Tenants |-> IF row[c].name = n
                       THEN [row[c] EXCEPT !.status = s]
                       ELSE row[c]]

-----------------------------------------------------------------------------
(* HTTP handlers                                                           *)

Goto(r, pc) == req' = [req EXCEPT ![r].pc = pc]

Return(r) == req' = [req EXCEPT ![r] = Idle] /\ UNCHANGED alerts

\* After it stored the form, an update goes on in a background task.
Background(r) == req[r].op = "update" /\ req[r].pc \notin {"read", "write"}

\* The handler raises; the caller, unless it already has its answer, sees it.
Fail(r) ==
    /\ req' = [req EXCEPT ![r] = Idle]
    /\ alerts' = IF Background(r) THEN alerts ELSE alerts \cup {req[r].id}

At(r, ops, pc) == req[r].op \in ops /\ req[r].pc = pc

Arrive(r, request) ==
    /\ req[r] = Idle
    /\ issued < MaxRequests
    /\ issued' = issued + 1
    /\ req' = [req EXCEPT ![r] = request]
    /\ UNCHANGED <<row, run, late, started, sanctioned, contested, alerts>>

\* POST /provisioning/{product}
ArriveCreate(r) ==
    \E c \in Tenants, n \in Names, skip \in BOOLEAN :
        /\ row[c].status = "Absent"
        /\ Arrive(r, [Idle EXCEPT !.op = "create", !.pc = "check", !.id = c,
                                  !.target = n, !.skip = skip])

\* approveOrDecline (with or without a new name), retryProvisioning and
\* updateTenantDetails of a row that exists
ArriveOnRow(r) ==
    \E c \in Tenants, op \in Ops \ {"create"}, n \in Names \cup {NoName} :
        /\ row[c].status # "Absent"
        /\ (n # NoName) <=> op \in {"rename", "update"}
        /\ Arrive(r, [Idle EXCEPT !.op = op, !.pc = "read", !.id = c,
                                  !.new = n])

\* get_existing_tenant_names before the insert
CheckName(r) ==
    /\ At(r, {"create"}, "check")
    /\ IF Carriers(req[r].target) # {}
       THEN Fail(r)
       ELSE Goto(r, "write") /\ UNCHANGED alerts
    /\ UNCHANGED <<row, run, late, issued, started, sanctioned, contested>>

\* create_tenant.sql; the insert fails on a name or e-mail taken meanwhile
InsertTenant(r) ==
    LET c == req[r].id
        n == req[r].target
        skipped == ApprovalRequired /\ req[r].skip
    IN
    /\ At(r, {"create"}, "write")
    /\ IF row[c].status # "Absent" \/ Carriers(n) # {}
       THEN Fail(r) /\ UNCHANGED <<row, sanctioned>>
       ELSE /\ row' = [row EXCEPT ![c] =
                         [name |-> n, form |-> n, schemaOk |-> TRUE,
                          status |-> IF skipped THEN "Provisioning"
                                                ELSE "ApprovalPending"]]
            /\ sanctioned' = IF skipped THEN sanctioned \cup {c}
                                        ELSE sanctioned
            /\ Goto(r, "start")
            /\ UNCHANGED alerts
    /\ UNCHANGED <<run, late, issued, started, contested>>

\* get_tenant.sql; an update is refused on the status or the schema it read
ReadTenant(r) ==
    LET c == req[r].id IN
    /\ At(r, Ops \ {"create"}, "read")
    /\ IF /\ req[r].op = "update"
          /\ row[c].status \notin CanUpdateTenant \/ ~row[c].schemaOk
       THEN Fail(r)
       ELSE /\ req' = [req EXCEPT ![r].pc = "write",
                                  ![r].name = row[c].name,
                                  ![r].target = row[c].form,
                                  ![r].schemaOk = row[c].schemaOk]
            /\ UNCHANGED alerts
    /\ UNCHANGED <<row, run, late, issued, started, sanctioned, contested>>

\* approve_tenant: both puts in one transaction, whatever the status is;
\* only then the stored form is validated against the stored schema
WriteDecision(r) ==
    LET c == req[r].id
        approval == req[r].op # "decline"
    IN
    /\ At(r, {"approve", "rename", "decline"}, "write")
    /\ row' = [row EXCEPT ![c].status = IF approval THEN "Provisioning"
                                                    ELSE "ApprovalDeclined"]
    /\ sanctioned' = IF approval THEN sanctioned \cup {c} ELSE sanctioned
    /\ IF ~req[r].schemaOk
       THEN Fail(r)
       ELSE /\ Goto(r, IF /\ req[r].op = "rename"
                          /\ req[r].new # req[r].target
                       THEN "describe" ELSE "signal")
            /\ UNCHANGED alerts
    /\ UNCHANGED <<run, late, issued, started, contested>>

\* retry_provisioning: update_tenant.sql with the name read before
WriteRetry(r) ==
    /\ At(r, {"retry"}, "write")
    /\ row' = WithStatus(req[r].name, "Provisioning")
    /\ sanctioned' = sanctioned \cup Carriers(req[r].name)
    /\ IF ~req[r].schemaOk
       THEN Fail(r)
       ELSE Goto(r, "start") /\ UNCHANGED alerts
    /\ UNCHANGED <<run, late, issued, started, contested>>

\* update_tenant_details.sql, given the id in quotes that the driver binds as
\* part of the value, stores the form; the rest is a background task
StoreDetails(r) ==
    LET c == req[r].id
        n == req[r].new
    IN
    /\ At(r, {"update"}, "write")
    /\ IF ~QuotedIdAccepted
       THEN Fail(r) /\ UNCHANGED <<row, contested>>
       ELSE /\ row' = [row EXCEPT ![c].form = n]
            /\ contested' = IF row[c].name = n THEN contested
                                               ELSE contested \cup {n}
            /\ req' = [req EXCEPT ![r].pc = "describe", ![r].target = n]
            /\ UNCHANGED alerts
    /\ UNCHANGED <<run, late, issued, started, sanctioned>>

AfterDescribe(r) == IF req[r].op = "rename" THEN "rename" ELSE "start"

\* describe() raises when no execution ever had the id
Describe(r) ==
    LET pc == run[req[r].target].pc IN
    /\ At(r, {"rename", "update"}, "describe")
    /\ IF pc = "none"
       THEN Fail(r)
       ELSE /\ Goto(r, IF pc \in Open THEN "terminate" ELSE AfterDescribe(r))
            /\ UNCHANGED alerts
    /\ UNCHANGED <<row, run, late, issued, started, sanctioned, contested>>

\* terminate() raises when the execution closed meanwhile
Terminate(r) ==
    LET n == req[r].target
        pc == run[n].pc
    IN
    /\ At(r, {"rename", "update"}, "terminate")
    /\ IF pc \notin Open
       THEN Fail(r) /\ UNCHANGED run
       ELSE /\ run' = [run EXCEPT ![n].pc = "terminated"]
            /\ Goto(r, AfterDescribe(r))
            /\ UNCHANGED alerts
    /\ UNCHANGED <<row, late, issued, started, sanctioned, contested>>

\* Mutated form: the column schema is taken to agree with the new name.
RenameTenant_schema_kept(r) ==
    LET c == req[r].id
        n == req[r].new
    IN
    /\ At(r, {"rename"}, "rename")
    /\ IF TakenByOther(c, n)
       THEN Fail(r) /\ UNCHANGED <<row, contested>>
       ELSE /\ row' = [row EXCEPT ![c].name = n]
            /\ contested' = contested
                              \cup ({row[c].name, row[c].form} \ {n})
            /\ req' = [req EXCEPT ![r].pc = "start", ![r].target = n]
            /\ UNCHANGED alerts
    /\ UNCHANGED <<run, late, issued, started, sanctioned>>

\* update_tenant_name.sql: the form is written into column schema, column
\* data keeps the old name
RenameTenant(r) ==
    LET c == req[r].id
        n == req[r].new
    IN
    /\ At(r, {"rename"}, "rename")
    /\ IF TakenByOther(c, n)
       THEN Fail(r) /\ UNCHANGED <<row, contested>>
       ELSE /\ row' = [row EXCEPT ![c].name = n, ![c].schemaOk = FALSE]
            /\ contested' = contested
                              \cup ({row[c].name, row[c].form} \ {n})
            /\ req' = [req EXCEPT ![r].pc = "start", ![r].target = n]
            /\ UNCHANGED alerts
    /\ UNCHANGED <<run, late, issued, started, sanctioned>>

NewRun(emailSent) ==
    [pc |-> IF BeforeMail /\ ~emailSent THEN "mail" ELSE "waiting",
     approved |-> FALSE, denied |-> FALSE, verdict |-> "none"]

\* Mutated form: retry_provisioning starts the workflow and leaves it waiting.
SignalsAfterStart_retry_forgotten(r) ==
    \/ req[r].op = "create" /\ ApprovalRequired /\ req[r].skip
    \/ req[r].op = "rename"

\* The caller goes on to the approve signal after the start.
SignalsAfterStart(r) ==
    \/ req[r].op = "create" /\ ApprovalRequired /\ req[r].skip
    \/ req[r].op = "rename"
    \/ req[r].op = "retry" /\ ApprovalRequired

\* ProductWorkflow.onboard: refused while the id is open, or by an outage
StartRun(r) ==
    LET n == req[r].target IN
    /\ At(r, {"create", "rename", "retry", "update"}, "start")
    /\ \/ Fail(r) /\ UNCHANGED <<run, started>>
       \/ /\ run[n].pc \notin Open
          /\ started < MaxRuns
          /\ started' = started + 1
          /\ run' = [run EXCEPT ![n] =
                       NewRun(req[r].op \in {"rename", "retry"})]
          /\ IF SignalsAfterStart(r)
             THEN Goto(r, "signal") /\ UNCHANGED alerts
             ELSE Return(r)
    /\ UNCHANGED <<row, late, issued, sanctioned, contested>>

\* Mutated form: the error of a signal to a closed execution is swallowed.
SignalRun_error_swallowed(r) ==
    LET n == req[r].target IN
    /\ At(r, Ops \ {"update"}, "signal")
    /\ run' = IF run[n].pc \notin Open THEN run
              ELSE IF req[r].op = "decline"
                   THEN [run EXCEPT ![n].denied = TRUE]
                   ELSE [run EXCEPT ![n].approved = TRUE]
    /\ Return(r)
    /\ UNCHANGED <<row, late, issued, started, sanctioned, contested>>

\* ProductWorkflow.approve / .decline: a closed execution takes no signal
SignalRun(r) ==
    LET n == req[r].target IN
    /\ At(r, Ops \ {"update"}, "signal")
    /\ IF run[n].pc \notin Open
       THEN Fail(r) /\ UNCHANGED run
       ELSE /\ run' = IF req[r].op = "decline"
                      THEN [run EXCEPT ![n].denied = TRUE]
                      ELSE [run EXCEPT ![n].approved = TRUE]
            /\ Return(r)
    /\ UNCHANGED <<row, late, issued, started, sanctioned, contested>>

\* Any await may raise: PostgreSQL or Temporal is away, the server restarts.
HandlerDies(r) ==
    /\ req[r] # Idle
    /\ Fail(r)
    /\ UNCHANGED <<row, run, late, issued, started, sanctioned, contested>>

-----------------------------------------------------------------------------
(* The onboarding workflow                                                 *)

SetPc(n, pc) == run' = [run EXCEPT ![n].pc = pc]

\* SendBeforeProvisioningMailActivity
BeforeMailSent(n) ==
    /\ run[n].pc = "mail"
    /\ SetPc(n, "waiting")
    /\ UNCHANGED <<row, req, late, issued, started, sanctioned, contested,
                   alerts>>

\* Mutated form: whatever ended the wait, the activities run.
WaitEnds_any_answer(n) ==
    /\ run[n].pc = "waiting"
    /\ run[n].approved \/ run[n].denied
    /\ run' = [run EXCEPT ![n].verdict = "approved", ![n].pc = "working"]
    /\ UNCHANGED <<row, req, late, issued, started, sanctioned, contested,
                   alerts>>

\* Mutated form: the wait is for the approval only.
WaitEnds_approval_only(n) ==
    /\ run[n].pc = "waiting"
    /\ run[n].approved
    /\ run' = [run EXCEPT ![n].verdict = "approved", ![n].pc = "working"]
    /\ UNCHANGED <<row, req, late, issued, started, sanctioned, contested,
                   alerts>>

\* wait_condition(approved or denied); denied is looked at first
WaitEnds(n) ==
    /\ run[n].pc = "waiting"
    /\ \/ /\ run[n].denied
          /\ run' = [run EXCEPT ![n].verdict = "denied",
                                ![n].pc = IF DeclinePolicy = "attribute_error"
                                          THEN "failing" ELSE "declining"]
       \/ /\ ~run[n].denied
          /\ run[n].approved
          /\ run' = [run EXCEPT ![n].verdict = "approved",
                                ![n].pc = "working"]
    /\ UNCHANGED <<row, req, late, issued, started, sanctioned, contested,
                   alerts>>

\* The provisioning activities, or those after the final status, succeed.
ActivitiesDone(n) ==
    /\ \/ run[n].pc = "working" /\ SetPc(n, "provisioned")
       \/ run[n].pc = "after" /\ SetPc(n, "completed")
    /\ UNCHANGED <<row, req, late, issued, started, sanctioned, contested,
                   alerts>>

\* An activity used up its attempts: the workflow's except block is entered.
ActivityFails(n) ==
    /\ run[n].pc \in {"mail", "working", "after"}
    /\ SetPc(n, "failing")
    /\ UNCHANGED <<row, req, late, issued, started, sanctioned, contested,
                   alerts>>

\* Mutated form: no return after the decline was written.
AfterWrite_no_return(pc) ==
    CASE pc = "declining"   -> "working"
      [] pc = "provisioned" -> IF AfterSteps THEN "after" ELSE "completed"
      [] pc = "failing"     -> "failed"

\* Where the workflow continues after its status write.
AfterWrite(pc) ==
    CASE pc = "declining"   -> IF DeclinePolicy = "fallthrough"
                               THEN "working" ELSE "completed"
      [] pc = "provisioned" -> IF AfterSteps THEN "after" ELSE "completed"
      [] pc = "failing"     -> "failed"

\* UpdateTenantStatusActivity commits and its result is recorded.
StatusWritten(n) ==
    /\ run[n].pc \in Writing
    /\ row' = WithStatus(n, StatusOf[run[n].pc])
    /\ SetPc(n, AfterWrite(run[n].pc))
    /\ UNCHANGED <<req, late, issued, started, sanctioned, contested, alerts>>

\* A worker picks an attempt up and keeps at it when the attempt times out
\* and is repeated, or when the execution is terminated: nothing recalls it.
WriteAttemptLingers(n) ==
    /\ run[n].pc \in Writing
    /\ late' = late \cup {[name |-> n, status |-> StatusOf[run[n].pc]]}
    /\ UNCHANGED <<row, run, req, issued, started, sanctioned, contested,
                   alerts>>

\* Its attempts are used up: the except block, or the failed execution,
\* which an operator of Temporal sees.
StatusWriteExhausted(n) ==
    /\ run[n].pc \in Writing
    /\ IF run[n].pc = "failing"
       THEN SetPc(n, "failed") /\ alerts' = alerts \cup Carriers(n)
       ELSE SetPc(n, "failing") /\ UNCHANGED alerts
    /\ UNCHANGED <<row, req, late, issued, started, sanctioned, contested>>

\* Such an attempt commits, whatever its execution does by then.
LateWriteLands(w) ==
    /\ w \in late
    /\ row' = WithStatus(w.name, w.status)
    /\ late' = late \ {w}
    /\ UNCHANGED <<run, req, issued, started, sanctioned, contested, alerts>>

-----------------------------------------------------------------------------
(* Specification                                                           *)

HandlerStep(r) ==
    \/ CheckName(r) \/ InsertTenant(r) \/ ReadTenant(r) \/ WriteDecision(r)
    \/ WriteRetry(r) \/ StoreDetails(r) \/ Describe(r) \/ Terminate(r)
    \/ RenameTenant(r) \/ StartRun(r) \/ SignalRun(r)

RunAdvances(n) ==
    \/ BeforeMailSent(n) \/ WaitEnds(n) \/ ActivitiesDone(n)
    \/ ActivityFails(n) \/ StatusWritten(n) \/ StatusWriteExhausted(n)

Next ==
    \/ \E r \in Requests :
         ArriveCreate(r) \/ ArriveOnRow(r) \/ HandlerStep(r) \/ HandlerDies(r)
    \/ \E n \in Names : RunAdvances(n) \/ WriteAttemptLingers(n)
    \/ \E w \in late : LateWriteLands(w)

\* A worker polls its queue and every activity has a timeout and a bounded
\* number of attempts, so an open execution that can move does.
Fairness == \A n \in Names : WF_vars(RunAdvances(n))

Spec == Init /\ [][Next]_vars

(***************************************************************************)
(* A careful operator: one request at a time (an update with its           *)
(* background task), only what the status of the row calls for, and the    *)
(* tenant's name is left alone when its details are edited.                *)
(***************************************************************************)
CalledFor(op, status) ==
    \/ op \in {"approve", "rename", "decline"} /\ status = "ApprovalPending"
    \/ op = "retry" /\ status = "ProvisioningFailed"
    \/ op = "update" /\ status \in CanUpdateTenant

OperatorArrives(r) ==
    /\ \A q \in Requests : req[q] = Idle
    /\ ArriveCreate(r) \/ ArriveOnRow(r)
    /\ LET q == req'[r] IN
       /\ q.op = "create" \/ CalledFor(q.op, row[q.id].status)
       /\ q.op = "update" => q.new = row[q.id].name

OperatorNext ==
    \/ \E r \in Requests :
         OperatorArrives(r) \/ HandlerStep(r) \/ HandlerDies(r)
    \/ \E n \in Names : RunAdvances(n) \/ WriteAttemptLingers(n)
    \/ \E w \in late : LateWriteLands(w)

OperatorSpec == Init /\ [][OperatorNext]_vars

\* The server finishes the requests it accepted.
FairOperatorSpec ==
    OperatorSpec /\ Fairness /\ \A r \in Requests : WF_vars(HandlerStep(r))

-----------------------------------------------------------------------------
(* Properties                                                              *)

\* A tenant that no request ever approved, retried or created as approved is
\* never shown as Provisioned, unless its name is contested: not by two
\* concurrent requests, a repeated or late status write, or a restart.
UnapprovedOnlyOnContestedName ==
    \A c \in Tenants :
        row[c].status = "Provisioned" =>
            c \in sanctioned \/ row[c].name \in contested

\* An execution whose wait was ended by a denial never gets to the
\* provisioning activities ("Update tenant status if request is declined").
DeclinedRunDoesNoWork ==
    \A n \in Names : run[n].verdict = "denied" => run[n].pc \notin Work

\* No silent stall: a row that shows Provisioning while no handler is busy
\* with it and no open execution has been told to go on is one about which
\* some caller got an error (or an execution failed for want of a database).
StallIsReported ==
    \A c \in Tenants :
        LET n == row[c].name IN
        /\ row[c].status = "Provisioning"
        /\ \A r \in Requests : req[r].id # c
        /\ run[n].pc \notin Open \/ ~run[n].approved
        => c \in alerts \/ n \in contested

\* "Tenant details are updated successfully": the statement that stores the
\* details of a tenant whose details can be updated stores them.
DetailsAreStored ==
    [][\A r \in Requests :
         StoreDetails(r) => row'[req[r].id].form = req[r].new]_vars

\* Once signalled, an execution closes, whatever fails on its way.
SignalledRunSettles ==
    \A n \in Names :
        (run[n].pc = "waiting" /\ (run[n].approved \/ run[n].denied))
            ~> run[n].pc \in Closed

\* Under a careful operator no row shows Provisioning for ever, unless some
\* caller got an error about it or the name was contested by a rename.
ProvisioningSettles ==
    \A c \in Tenants :
        row[c].status = "Provisioning" ~>
            \/ row[c].status # "Provisioning"
            \/ c \in alerts \/ row[c].name \in contested

-----------------------------------------------------------------------------
(***************************************************************************)
(* The inductive invariant behind UnapprovedOnlyOnContestedName.  A name   *)
(* is cleared when it is contested or its row was sanctioned; clearance is *)
(* never lost, and everything on its way to a Provisioned status - a       *)
(* handler about to signal, an approved execution, a late write - carries  *)
(* a cleared name.                                                         *)
(***************************************************************************)
Cleared(n) ==
    n \in contested \/ \E c \in Tenants : row[c].name = n /\ c \in sanctioned

NamesDistinct ==
    \A c, d \in Tenants :
        row[c].name = row[d].name /\ row[c].name # NoName => c = d

AbsentRowsHaveNoName ==
    \A c \in Tenants :
        /\ row[c].status = "Absent" <=> row[c].name = NoName
        /\ row[c].name = NoName <=> row[c].form = NoName

FormMatchesOrContested ==
    \A c \in Tenants :
        row[c].form # NoName =>
            row[c].form = row[c].name \/ row[c].form \in contested

RunsCleared ==
    \A n \in Names :
        /\ run[n].approved => Cleared(n)
        /\ run[n].pc \in Work => run[n].verdict = "approved"
        /\ run[n].verdict = "approved" => run[n].approved

LateWritesCleared ==
    \A w \in late :
        /\ w.name \in Names
        /\ w.status # "Absent"
        /\ w.status = "Provisioned" => Cleared(w.name)

\* What a handler knows about the row it read, at each position.
RequestInv(q) ==
    /\ q.op = "create" => q.target \in Names /\ q.pc \in {"check", "write", "start", "signal"}
    /\ q.op \in {"rename", "update"} => q.new \in Names
    /\ q.pc \in {"read", "write", "describe", "terminate", "rename"} /\ q.op # "create"
          => row[q.id].status # "Absent"
    /\ q.op # "create" /\ q.pc \notin {"idle", "read"}
          => q.target \in Names /\ q.name \in Names
    /\ q.pc = "write" /\ q.op \in {"approve", "rename", "retry"} =>
          \/ q.target \in contested
          \/ q.target = q.name /\ q.target = row[q.id].name
    /\ q.op = "rename" /\ q.pc \in {"describe", "terminate", "rename"}
          => q.id \in sanctioned
    /\ q.pc = "signal" /\ q.op # "decline" => Cleared(q.target)
    /\ q.pc = "start" =>
          \/ q.op \in {"rename", "retry"} /\ Cleared(q.target)
          \/ q.op = "create" /\ (ApprovalRequired /\ q.skip => Cleared(q.target))
          \/ q.op = "update"

RequestsInv == \A r \in Requests : RequestInv(req[r])

IInv ==
    /\ TypeOK
    /\ NamesDistinct
    /\ AbsentRowsHaveNoName
    /\ FormMatchesOrContested
    /\ RunsCleared
    /\ LateWritesCleared
    /\ RequestsInv
    /\ UnapprovedOnlyOnContestedName

-----------------------------------------------------------------------------
(***************************************************************************)
(* The inductive invariant behind StallIsReported, under a careful         *)
(* operator.  A row in Provisioning that no handler is busy with has an    *)
(* open execution that was told to go on and that has yet to write the     *)
(* status, or somebody was told.  For that, the one handler in flight      *)
(* works on the execution of its own row's name, signals only an execution *)
(* that was not approved before, and what answers without a signal leaves  *)
(* a row that is not in Provisioning.                                      *)
(***************************************************************************)
OneRequest ==
    \A r, q \in Requests : req[r] # Idle /\ req[q] # Idle => r = q

FormIsName == \A c \in Tenants : row[c].schemaOk => row[c].form = row[c].name

LateWritesAreFinal ==
    \A w \in late : w.status \in {"ApprovalDeclined", "Provisioned", "ProvisioningFailed"}

Unapproved(n) == n \in contested \/ ~run[n].approved

PendingIsUnapproved ==
    \A c \in Tenants : row[c].status = "ApprovalPending" => Unapproved(row[c].name)

\* The handler's request leads to an approval signal.
Approves(q) ==
    \/ q.op \in {"approve", "rename", "retry"}
    \/ q.op = "create" /\ ApprovalRequired /\ q.skip

\* After it wrote the row, or read it for good.
Written == {"describe", "terminate", "rename", "start", "signal"}

OperatorRequest(q) ==
    /\ q.op = "update" => row[q.id].status # "Provisioning" /\ q.new = row[q.id].name
    /\ q.op # "idle" /\ q.pc \in Written =>
         /\ q.target = row[q.id].name
         /\ row[q.id].status # (IF Approves(q) THEN "ApprovalPending" ELSE "Provisioning")
    /\ q.op # "create" /\ q.pc = "write" =>
         q.name = row[q.id].name /\ (q.schemaOk => q.target = q.name)
    /\ q.op \in {"approve", "rename"} /\ q.pc \in {"read", "write"} =>
         Unapproved(row[q.id].name)
    /\ q.op # "decline" /\ q.pc = "signal" => Approves(q) /\ Unapproved(q.target)

Underway(n) == run[n].approved /\ run[n].pc \in Open \ {"after"}

StalledIsTold ==
    \A c \in Tenants :
        /\ row[c].status = "Provisioning"
        /\ \A r \in Requests : req[r].id # c
        => c \in alerts \/ row[c].name \in contested \/ Underway(row[c].name)

OperatorInv ==
    /\ OneRequest
    /\ FormIsName
    /\ LateWritesAreFinal
    /\ PendingIsUnapproved
    /\ \A r \in Requests : OperatorRequest(req[r])
    /\ StalledIsTold

=============================================================================
