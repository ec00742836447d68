# Launchpad: TLA+ models, checks and proofs

Launchpad is a FastAPI service that signs tenants up for nine products and has
Temporal workflows build their environments. The repository's own `README.md`
is empty; what its authors intend is in docstrings, comments, SQL comments and
messages, and those are quoted below where a property comes from one.

Paths are relative to `src/`.

## 1. Inventory

| Part | State it keeps | Operations | Talks to |
|---|---|---|---|
| Tenant handlers: `app/routes/provisioning.py`, `tenant.py` | tables `customer`, `provisioningstatus` | create, approve, decline, approve under a new name, retry, edit details (with a background task) | PostgreSQL, Temporal (start, signal, describe, terminate) |
| Onboarding workflows: `app/cli/temporal/<product>/workflows/onboarding.py` | the execution's position and its `approved`/`denied` flags | wait for a signal, provisioning activities, status writes, failure handler | activities, the same tables |
| Self sign-up handlers: `app/routes/self_signup/signup.py`, `subscriptions.py`, `route_utils/session_util.py` | tables `customer`, `provisioningstatus`, `subscription`, `failedinvoices` | `signUp`, `createSubscription`, `enterpriseSignUp` | PostgreSQL, Lago, Stripe, Temporal |
| Payment check: `workflows/payments/verify.py` and its activities | execution position, attempts | subscribe, poll invoice, poll payment, failure commits, cleanup, trigger | Lago, Stripe, PostgreSQL, Temporal |
| `workflows/onboard.py` | execution position, attempts | check the status, start the product's workflow | PostgreSQL, Temporal |
| OTP and sessions: `route_utils/user_otp.py`, `user_session.py` | Redis keys with TTL, attempt counters | create, validate, delete | Redis, mail |
| Jeeves spaces: `jeeves/workflows/space_creation.py` | table of spaces | as tenants, per space | as tenants |
| Shared settings: `cli/cloudflare_utils.py`, `keycloak_setup.py`, `space_creation.py` | scope of an R2 token, mapper of a client, names of spaces | read, extend, write back | Cloudflare, Keycloak, 1Password |
| Deprovisioning: `routes/deprovisioning.py`, `*/workflows/deprovisioning.py` | status, external resources | start, approve or decline, delete resources | Temporal, activities |
| Deployment: `routes/deployment.py`, veritable and dexit `deployment.py` | deployment rows | start, roll out | Temporal, Kubernetes |
| Activities: `app/cli/temporal/activities/` | external resources | some 130 create, delete, look-up and notify calls | Keycloak, PostgreSQL, Cloudflare, Kubernetes, Novu, Slack |
| Worker: `worker.py`, `main.py`, `core/cli_settings.py` | which queue serves which activities | start, register | Temporal |
| Billing outside sign-up: `insert_subscription_details.py`, `update_subscription_end_date.py`, webhooks | `subscription` rows, Lago end dates | check-then-insert, set the end date, react to invoices | Lago, PostgreSQL |
| Database access: `app/core/db.py`, `jinjasql.py` | connection pools | fetch, execute, transaction | PostgreSQL |
| Middleware: rate limiter, authentication, metrics | Redis | per request | Redis |
| Schedules, name suggestions, coupons, plans, forms, mails, users | - | sequential reads, formatting, thin calls | Lago, Keycloak |

Nothing in the service locks a row or keeps a lock of its own. Handlers and
workflows share tables and the Temporal server, and every `await` is a place
where another handler, or an activity on a worker, can get in between. What
makes it hard:

* **Status is written before the thing it announces.** `approve_tenant` commits
  `Provisioning` before it validates the form and signals
  (`provisioning.py:199`); `retry_provisioning` before it starts (`:257`).
* **Workflows write by tenant name** (`sql/update_tenant.sql`), handlers by id;
  a workflow id is built of the name as well (`starter.py`). A rename makes the
  two disagree.
* **Activities time out and are repeated; nothing recalls an attempt** that is
  still on its way to PostgreSQL. A lost result of a start is a start.
* **Values are read several awaits before they are used**: the tenant row, the
  failed invoice (`signup.py:71`), the status that `_create_subscription`
  overwrites with `Stale` (`subscriptions.py:87`).
* **Lago, Stripe and Temporal are not part of any transaction.**
* **An activity is several requests, and is repeated as a whole.** Each kind of
  request behaves differently when its resource is there already: it is
  replaced, kept, doubled or refused. A workflow of 60 to 90 activities is right
  only if every one of them is right when repeated, and when the whole workflow
  is run again.
* **Secrets take many ways**: generated in the workflow's code or by an
  activity, passed as arguments, read back from the vault or from the cluster.

What makes each part correct:

* tenants: nobody is provisioned whom nobody approved; a denial is final for
  its execution; nothing stalls at `Provisioning` in silence; an execution that
  was told to go on or to stop closes;
* self sign-up: no environment before a payment; none lost after it; one
  customer is billed for one subscription; a failed subscription is ended;
* OTP: a password is valid once, for ten minutes, for a bounded number of
  attempts, and a validation of an old one does not remove a new one;
* provisioning: repeating an activity or replaying a workflow gives the same
  credentials and resources; every activity a workflow names is registered on
  its queue; what onboarding creates, deprovisioning deletes;
* billing: one Lago subscription per purchase, whatever is retried.

`PROJECT.json` has the full list of hazards, each at its line.

## 2. Plan

| # | Modules | Composes | State |
|---|---|---|---|
| 1 | `TenantLifecycle`, `TenantLifecycleProofs`, `TenantOperatorProofs`, `MCTenantLifecycle` | handlers, tables, Temporal, onboarding executions | done |
| 2 | `PaidProvisioning` (abstract), `SignupPayment`, `SignupPaymentProofs`, `SignupPatienceProofs`, `SignupQuietProofs`, `MCSignupPayment` | handlers, tables, Lago, Stripe, three workflows | done |
| 3 | `OtpStore`, `OtpStoreProofs`, `MCOtpStore` | concurrent requests, Redis, expiry, mail failure | done |
| 4 | `Activities`, one `<Product>Plan` per product, `ProductPlans`; `Provisioning`, `ProvisioningProofs`, `ProvisioningSafetyProofs`, `MCProvisioning` | onboarding, deployment and teardown of every product, Temporal's retries and replays, the world outside | done |
| 5 | `SharedSettings` | workflows of several tenants or spaces, one setting | done |
| 6 | two workflows of one tenant at once (a teardown beside an onboarding); the space handlers of `provisioning.py` (the shape of 1); invoice webhooks | 1 and 4 | left |

`Provisioning` takes the place of the two modules (`ProductOnboarding`,
`TenantDeprovisioning`) first planned: onboarding, deployment and teardown are
sequences of the same kind of call, and what matters is how they follow upon
each other. The billing activities are steps of these sequences.

Every safety property that a passing run checks is proved (section 8). Theorem
left: `CredentialsAgree` for the two products whose installer's secret is read
and written back (`KeepsSecrets`, section 8).

## 3. TenantLifecycle

Models the operator-provisioned products. Correspondence:

| In the model | In the code |
|---|---|
| `row[c]` | `customer` joined with `provisioningstatus`; `name` is `tenantname`, `form` the name inside `data`, `schemaOk` says that column `schema` still holds a schema |
| `run[n]` | the latest execution with the id that name `n` gives; `approved`, `denied` are the signals' flags, `verdict` what ended the wait |
| `req[r]` | a handler's locals and the await it is at |
| `late` | attempts of `UpdateTenantStatusActivity` that a worker still carries out |
| `CheckName`, `InsertTenant` | `provisioning` |
| `ReadTenant`, `WriteDecision`, `Describe`, `Terminate`, `RenameTenant` | `approve_tenant`; the middle two also `update_provisioning_workflow` |
| `WriteRetry` | `retry_provisioning` |
| `StoreDetails` | `update_tenant`; what follows it is the background task |
| `StartRun`, `SignalRun` | `ProductWorkflow.onboard`, `.approve`, `.decline` |
| `HandlerDies` | any await of a handler raises, or the server restarts |
| `WaitEnds` | `wait_condition`, the look at `denied` |
| `ActivitiesDone`, `ActivityFails` | the list of provisioning activities as one phase, its success or the except block |
| `StatusWritten`, `StatusWriteExhausted`, `WriteAttemptLingers`, `LateWriteLands` | one status write: recorded, out of attempts, and an attempt whose execution no longer waits for it |

Variants of the workflows are constants. `BeforeMail`: a mail is sent before
the wait (hdp, jeeves). `AfterSteps`: work follows the final status (dexit).
`ApprovalRequired`: the product's column. `DeclinePolicy`: `"return"` (dexit,
penknife, jeeves), `"fallthrough"` (hdp, zsegment, practifly, which write
`ApprovalDeclined` and go on), `"attribute_error"` (muspell, which names an
enumeration member that does not exist and so enters the except block).

History variables: `sanctioned` (rows that some request set to `Provisioning`),
`alerts` (rows about which somebody saw an error) and `contested`. A name is
*contested* once a rename gave it up or somebody typed it into the form of a
tenant called otherwise. The workflow id derived from a contested name can
belong to another tenant than the row that carries it, and the code has no
defence against that: the properties except such names, openly.

`QuotedIdAccepted`. `update_tenant` passes the id with quotes around it to a
statement that binds it, and the driver refuses 38 characters for a UUID, so
the real value is `FALSE`: the handler always raises there. The passing runs
and the theorems use `TRUE`, under which `HandlerDies` still lets the handler
raise at that point: they hold of the code as it is, and of the code once the
quotes are gone and the background task is reached.

Abstractions: names are already lower-case (`TENANT_NAME_PATTERN`); an e-mail
address belongs to one tenant id; mails, Slack and logging are left out except
where their failure changes control.

### Runs

| Run | Bounds | Shows |
|---|---|---|
| `tenant_lifecycle` | 2 tenants, 2 names, 2 handlers at a time, 3 requests, 2 executions, symmetry | `UnapprovedOnlyOnContestedName`, `DeclinedRunDoesNoWork`, and `IInv`, the inductive invariant of the proofs |
| `tenant_operator` | 2 tenants, 2 names, one request at a time, 4 requests, 2 executions, no symmetry | `StallIsReported`, `SignalledRunSettles`, `ProvisioningSettles`, and `OperatorInv`, the inductive invariant behind the first |
| `decline_fallthrough` | 1 tenant, `DeclinePolicy = "fallthrough"` | `DeclinedRunDoesNoWork` is violated |
| `update_details` | 1 tenant, `QuotedIdAccepted = FALSE` | `DetailsAreStored` is violated |

Two tenants and two names let a rename give a name to the other tenant; three
requests let two decisions overlap on a tenant that a third created; two
executions let a terminated one and its late write meet its successor. Four
requests let a careful operator create, decline or see a failure, rename or
retry, and create the second tenant under the freed name. `BeforeMail` is off
in `tenant_operator`: the mail only adds one more place to fail. All bounds
(`MaxRequests`, `MaxRuns`) are guards of `Arrive` and `StartRun`.

`CHECK_DEADLOCK FALSE` in every configuration: a system with no request in
flight and the bound on requests reached is at rest, rightly.

**Fairness.** `Fairness` is weak fairness of every execution's own steps:
`UpdateTenantStatusActivity.get_retry_policy` and the timeouts of the
activities bound each attempt and their number, and a worker polls its queue,
so an execution that can move does. A wait without a signal is not enabled, so
nothing is assumed about it. `FairOperatorSpec` adds that the server finishes
the requests it accepted. No fairness is assumed of arrivals, outages, late
writes or of an operator.

*A careful operator* (`OperatorNext`) sends one request at a time and only what
the status calls for. Without him `StallIsReported` is false for a dull reason:
two requests about one tenant, each answered without an error, of which the
later write wins.

## 4. SignupPayment and PaidProvisioning

Models one customer of a self-signup product (pricedx, veritable). Table rows
of different customers do not meet: every statement of these handlers and
activities selects by customer id, by e-mail or by the customer's tenant name,
the ids of the payment check and of `OnboardWorkflow` hold the customer's id,
and that of the product's workflow his tenant name, unique within the product
(`<Product>OnboardingWorkflow.get_workflow_id`): under another name another
execution can start while the first is open, so `prod` has one for each name.

| In the model | In the code |
|---|---|
| `row`, `subs`, `failed` | the customer joined with his status; his `subscription` and `failedinvoices` rows |
| `lagoCustomer`, `confirmed`, `lago`, `ended` | what Lago and Stripe know |
| `verify`, `onb`, `prod` | the latest execution of the payment check, of `OnboardWorkflow`, and for each name of the product's workflow |
| `late` | status writes of attempts that nobody waits for any more |
| `ReadCustomer` to `UpdateBilling` | `create_customer`: `get_first_subscription_status`, `create_new_customer`, `reconcile_subscription`, `update_existing_customer` |
| `RereadCustomer` to `StartVerify` | `_create_subscription` |
| `FetchOnboardInfo` to `StartOnboard` | the activities of `OnboardPaymentVerifyWorkflow`, each commit a step of its own |
| `VerifyAttemptFails`, `Retry` | an attempt that breaks off, repeated from the activity's first commit, or the end |
| `StartOnboard`, `StartProduct` | starts refused while the id is open; the second disjunct is a start whose result is lost |
| `ReadForm`, then `StartProduct` | `trigger_provisioning_workflow` (`onboard/k8s.py`): the name is read, the form validated (an invalid one is not tried again), and the product's workflow started under the name that was read |
| `WriteProvisioned`, `WriteFailed`, `WriteLingers`, `LateWriteLands` | the status writes of the product's workflow, by name: recorded, and an attempt that timed out, was repeated or given up, and commits afterwards |
| `Outside` | the customer completes a setup intent; Lago issues the first invoice and settles it |

Kept abstract: the code's activities have 2, 4 or 10 attempts and the model
one `MaxAttempts`; the product's workflow is seen through its status writes;
`failedinvoices` rows are identified with their subscription. The attempts of
the status write may linger; those of every other activity are taken to end when
they fail. So one case is left out: an attempt at the trigger
(`onboard/trigger.py`) that was given up and commits its `Provisioning` after
the product's workflow wrote its final status.

History variables: `orphaned` (a sign-up changed the tenant's name after the
launch had read it and before the build ended) and `told` (some handler or
execution broke down).

**A payment the code does lose.** `trigger_provisioning_workflow` reads the
name (`k8s.py:22`), awaits the validation and starts the build under the name it
read; `reconcile_subscription` commits another name without asking whether
anything is under way (`signup.py:106`). If it does so between that read and the
final status write, the environment is built under the old name,
`update_tenant.sql` finds no row of that name and raises nothing, and a paying
customer stays at `Provisioning` with nobody told. No text of the repository
promises otherwise, so there is no violated run; `orphaned` is exactly this
interleaving, and `PaidAndQuietIsProvisioned`, `QuietInv` and `PaymentSettles`
say that, short of a breakdown that somebody sees, there is no other. Without
the part of `orphaned` that is about the launch (`onb.pc = "start"`) TLC finds
`QuietInv` and `PaidAndQuietIsProvisioned` violated.

### Runs

| Run | Bounds | Shows |
|---|---|---|
| `signup_payment` | 3 subscriptions, 2 names, 2 handlers at a time, 3 requests, 2 attempts, no lingering writes, symmetry | `PaidBeforeProvisioning`, `PaidAndQuietIsProvisioned`, `QuietInv`, the inductive invariant behind it, and `KeepsPromise`: `PaidProvisioning` is implemented |
| `patient_signup` | as above, 5 requests one after the other, 2 lingering writes at once | `BilledOnce`, `FailedSubscriptionEnded`, and `PatientInv`, the inductive invariant behind both |
| `signup_liveness` | 2 subscriptions, 2 names, 2 requests, 1 lingering write, no symmetry | `PaymentSettles`; `QuietInv` and `KeepsPromise` again, with the writes that land late |
| `failed_subscription` | 2 requests | `FailedSubscriptionEnded` is violated once the customer does not wait |
| `replace_subscription` | 2 handlers, 3 requests | `NewReplacesFailed` is violated |

Three requests are a first sign-up, the form's `createSubscription` and a
sign-up again that overlaps the payment check. Two failed payments need
`MaxKeys = 3` and three subscriptions. Two attempts are the least for which a
lost result and a repetition both happen, and for which they can be used up.

**Fairness** (`FairSpec`): handlers that were accepted go on, executions go on
(see above). Nothing is assumed of Stripe, Lago or the customer, so
`PaymentSettles` starts from a customer who has paid.

### The abstract specification

`PaidProvisioning` is what sign-up promises: an environment is built only for
someone who paid, the pages say that it is on its way only then, and that it is
there only once it is being built. The mapping: `paid` is that some
subscription is paid at Lago, `env` comes from the product's execution, and
`shown` is what `get_first_subscription_status` answers for the status.

## 5. Activities, the plans, Provisioning

How a tenant is built, renewed and torn down. Three layers:

* `Activities`: one operator per activity class of
  `app/cli/temporal/activities/`, named after it. Its value is a *step*, or a
  sequence of them when the activity looks and creates several times: what it
  does to which resources, in the code's order; which secrets it stores and
  where it has them from; what it cannot do without and what it trips over;
  whether its errors are caught; how many attempts it has. The header of the
  module defines the fields.
* `<Product>Plan`: the workflows of a product as sequences of these steps, in the
  order of the code, each with the `if` around it; `ProductPlans` puts them
  together by job, with the workflows that `cli_settings.py` configures.
* `Provisioning`: the tenant, the workflow that runs for it, and the world. It
  knows nothing of products: plans, handlers and what is there before the tenant
  are constants. `MCProvisioning` gives it those of ten products
  (`space` is the creation of one more space of a Jeeves tenant).

| In the model | In the code |
|---|---|
| `world` | what is there (databases, roles, realms, buckets, vault items, deployments, rows), and which secrets, in which version, each holds |
| `memo`, `version` | results of activities in the execution's history; passwords `generate_password` makes in workflow code, which are other ones after a replay |
| `twice` | the resources of which there is more than one |
| `LeaveOut` | the `if` around a call is not taken |
| `Succeed`, `Obstruct` | a call is answered; a call that raises on every attempt because of what is, or is not, there |
| `Repeat`, `GiveUp` | an attempt that fails after it has reached some of its resources, all or none, repeated or the last one |
| `StaleAttempt` | two attempts look before either inserts |
| `Replay` | a worker that has lost its cache runs the workflow's code again |
| `Raise` | the `except` of `run`: the failure handler, or, in it, the end |
| `Retry`, `Redeploy`, `Deprovision` | `retry_provisioning`; `deploy_workflow`; `de_provision_tenant` and its approval |

Abstractions. Vault items, buckets and objects that are always written
together are one resource; names are short and the tenant's name is `"tenant"`;
mails and messages have no effect. The wait for an approval is before the plan
(`TenantLifecycle` has it), and so is the wait of a teardown, after which a
denial ends it with nothing done. One workflow of a tenant runs at a time.
Secrets inside one resource are all written by one request.

### The run `provisioning`

Bounds: three runs per tenant in any order (an onboarding, then two of retry,
deployment and teardown, as the product has them), and one trouble: a call that
goes wrong at any point and in any of its ways, or one replay anywhere. Three
runs are an onboarding that fails, its retry and the teardown, or a teardown and
an onboarding after it. One trouble reaches every half-done activity; a second
one only meets an activity that has been repeated once already, and repeating
is idempotent or caught by `BuiltOnce` the first time. Both sets of options of a
product make every condition true once and false once. The theorems of
section 8 hold without either bound.

| Property | Says |
|---|---|
| `CredentialsAgree` | when a tenant is built, all that holds a secret (role, vault, pooler, configuration) holds the same version of it; a replay may break it for passwords generated in workflow code only |
| `KeysAreKept` | the keys of a bucket, told once, are never overwritten with `None` by a workflow that is not told them |
| `BuiltOnce` | repeated calls and repeated runs create nothing a second time |
| `NeverStopped` | no run comes to a call that can only raise, whatever earlier runs left |
| `ProvisionedIsComplete` | a tenant shown as Provisioned has all that is built before the status is written, also when activities were cut short half-way, and whatever errors were caught |
| `TeardownIsComplete` | a teardown that ended leaves nothing that serves the tenant or starts pods for it |
| `HalfTornIsNotShown` | a teardown that failed does not leave the tenant shown as Provisioned |
| `OthersAreKept` | what was there before the tenant and belongs to others stays |

The code falls short of them in places. These are named, one by one, in
`MCProvisioning`, the properties hold of all the rest, and no exception is
wider than one product and one resource or activity. An exception is where the
property would be violated, so a hazard that is one (PROJECT.json says which) is
described here and not guarded by the property:

* `Stale`: Dexit's service account, Penknife's authentication client, Muspell's
  StarRocks user and scaled job keep the password of the first run while the
  vault gets that of the second; Zsegment's customer at Lago gets a new
  identifier with every run (`zsegment/workflows/onboarding.py:486`).
* `TwiceBuilt`: Chatwoot's account and user, when an attempt dies before it has
  stored the id (`chatwoot_setup.py:84`); the access key at Sinch, whose secret
  is then lost (`fax_setup.py:201`); Penknife's mapping and audit rows; rows that
  are looked for and then inserted (`insert_subscription_details.py:83`).
* `HalfBuilt`, what a tenant shown as Provisioned may lack. First, what is
  created behind the thing a repeated attempt looks for, when an attempt dies in
  between: the mappers of Penknife's identity provider (`keycloak_setup.py:1105`),
  the token of Chatwoot's bot in the vault of Jeeves and of a space
  (`chatwoot_setup.py:571`; were the token named in the template of a
  configuration, which is in a bucket, the configuration would be refused from
  then on), the body of the layout of Jeeves and of a space
  (`jeeves_novu_setup.py:77`), the mark of the primary mail provider at Novu of
  Dexit, Jeeves and a space (`:307`, `dexit_novu_setup.py:293`). Second, what is
  built by code that only logs its errors: the layout and the workflow at Novu of
  Jeeves and of a space (`jeeves_novu_setup.py:71-92`, `:200`), the identity
  providers of the help desks and of Muspell (`keycloak_setup.py:529`, `:597`),
  the access key at Sinch (`fax_setup.py:198`), the grants for PostHog
  (`postgres_setup.py:954`).
* `Obstacles`: a retry of Practifly or Veritable after the tenant's resource was
  created is refused; Pricedx and Jeeves drop the role that owns the schema
  before the schema (`pricedx/workflows/deprovisioning.py:215`,
  `jeeves/.../deprovisioning.py:237`); Pricedx' teardown calls an activity its
  worker has not registered (`:251`), so it never gets to DeProvisioned; the
  message about a failed Jeeves onboarding is not registered either
  (`onboarding.py:1513`); Jeeves' teardown looks for Chatwoot's account under
  another name (`:255`).
* `Leftovers`: the KEDA objects of Dexit and Veritable stay after the teardown,
  and go on starting workers.
* `Taken`: Dexit's teardown deletes the identity provider `jeeves-<tenant>` of
  the help desk (`keycloak_setup.py:1236`).
* `Silent`: the teardowns of Pricedx and Jeeves have no failure handler.

`KeysAreKept` is stated for runs in which no call went wrong: when the answer of
the call that creates an R2 token is lost, its keys are lost with it
(`cloudflare_utils.py:317`), and `None` is what gets stored.

`CHECK_DEADLOCK FALSE`: a tenant whose three runs are over is at rest. No
fairness is assumed, all properties are safety.

## 6. OtpStore

The one-time password and the session token of one customer in Redis
(`user_otp.py`, `user_session.py`): two keys with an expiry, each with a counter
of tries beside it that has none. Each Redis command is a step, `MULTI ... EXEC`
one step; between two of them any other handler runs, and a handler may die.
Secrets are numbered in the order in which they are set; 0 is a key that is not
there.

| In the model | In the code |
|---|---|
| `DeleteOtp`, `SetOtp`, `Mailed`, `NotMailed`, `UnsetOtp` | `generate_otp`, `create_signup_otp` |
| `ReadOtp`, `NoOtp`, `RightOtp`, `LastOtp`, `WrongOtp` | `validate_otp` and its four ends |
| `FindToken`, `MissToken`, `SetToken` | `get_session_token`, `create_session` |
| `ReadToken`, `NoToken`, `RightToken`, `WrongToken` | `validate_session` |
| `RefreshToken`, `ResetCount` | `refresh_session` |
| `ExpireOtp`, `ExpireToken`, `Die` | TTLs; a request that ends anywhere |

`again` collects the answers that allow another try, `owedOtp` and `owedToken`
are what the customer was last told is good, `calm` says that no two requests
have overlapped and none has died.

Run `otp_store`: two handlers at a time (with symmetry), five requests,
`MAX_RETRIES` 3 for both keys (10 for sessions in the code, out of reach for no
gain). Five requests are one for a password, three tries and one more.

* `TriesAreCounted` holds for any overlap: wrong tries that were answered
  "try again" have numbers of their own below the limit, so a password is not
  guessed at more often by asking in parallel.
* `PromiseIsKept` holds for a customer who does one thing at a time. It is false
  of overlapping requests, which is why `calm` is in it: a validation that finds
  its password gone deletes the one just sent (`user_otp.py:80`), and a
  validation that finds no token deletes one just created
  (`user_session.py:64`).

No fairness, all properties are safety. `CHECK_DEADLOCK FALSE`: after the bound
on requests the store is at rest. Portal links use the same functions under
another suffix, hence keys of their own.

## 7. SharedSettings

A setting that several workflows extend by reading it, adding an entry and
writing all of it back: the buckets of a shared R2 token
(`add_buckets_to_token`), the spaces in the mapper of a Keycloak client
(`update_keycloak_client_mapper`), and the names of a tenant's spaces in the
vault (`space_creation.py:266`). In the first two one activity reads and writes,
so a repeated attempt reads again; in the third one activity reads and another
writes, so a repeated write adds the same name again. Run `shared_token`: two
workflows, one repeated attempt each.

## 8. Proofs

Checked with TLAPS; no step is left out. The assumptions on constants are
`ConstantsAssumption` in the first two modules, `TriesAssumption`,
`AskedAssumption` and `HandlersAssumption` in `OtpStore`, and `BoundsAssumption`,
`StepAssumption` and `PlanAssumption` in `Provisioning`; TLC evaluates them on
every run of the module.

`TenantLifecycleProofs`, for any tenants, names, requests and bounds:

* `TypeCorrect`: `Spec => []TypeOK`, for every `DeclinePolicy`.
* `InductiveInvariant`, `ApprovalGate`, `DeclineGate`: for every
  `DeclinePolicy` but `"fallthrough"`, of which `decline_fallthrough` shows that
  it breaks both gates.

`UnapprovedOnlyOnContestedName` is not inductive: a status write that is
outstanding says nothing of who approved. `IInv` adds where approval can hide:
a name is `Cleared` when it is contested or its row is sanctioned; an execution
that was signalled, a late write of `Provisioned` and a handler about to signal
all carry a cleared name (`RunsCleared`, `LateWritesCleared`, `RequestInv`);
clearance is never lost because a row that loses its name leaves a contested
one (`NamesKept`, `ClearedKept`); and names are unique (`NamesDistinct`), which
is what makes a write by name a write to the cleared row. The step proof has
one part per conjunct (`RowStep`, `RunsStep`, `RequestsStep`) and in it one
case per action.

`TenantOperatorProofs`, for any tenants, names, requests and bounds, under a
careful operator (`OperatorSpec`):

* `OperatorInvariant`, `NoSilentStall`: for products that need an approval and
  whose workflow does not fall through a denial, `StallIsReported`. All products
  with a workflow that waits need one (`true` in `product."approvalRequired"`,
  migrations `20250318081150`, `20250327110915` and `20250331110435`). Were there
  one that does not, the theorem would be false of it: `retry_provisioning`
  signals the execution it starts only `if product_details.approvalRequired`
  (`provisioning.py:273`), and the execution would wait for good.

`StallIsReported` speaks of rows alone; whether one stalls is decided by the
execution of its name and by the handler at work. `OperatorInv` ties the three
together: the one handler works on the execution of its own row's name and
signals only one that was not approved before (`OperatorRequest`), a pending row
has such an execution (`PendingIsUnapproved`), what a lingering attempt still
writes is a final status (`LateWritesAreFinal`), and a row in `Provisioning` is
on its way or somebody was told (`StalledIsTold`). The gates' `IInv` is carried
along, which is why the theorem is about `IInv /\ OperatorInv`.

`SignupPaymentProofs`, for any number of subscriptions, names, requests, setup
intents, attempts and lingering writes:

* `TypeCorrect`: among other things, a completed setup intent is always below
  `MaxKeys` (`KeysLeft`), so a replacement has a key to take.
* `PaymentGate`: a payment is never undone (`PaymentLasts`), and before it no
  execution is at `mark` or beyond (`ProvisioningIsPaid`); `UnpaidHandler` and
  `UnpaidVerify` show that no step leads there without one.
* `Refinement`: `Spec => KeepsPromise`, by mapping every step to a step of
  `PaidProvisioning` or a stutter (`StepRefines`).

`SignupPatienceProofs`, for the same constants, about a customer who waits for
each answer (`PatientSpec`):

* `PatientInvariant`; `PatientBilledOnce` and `PatientFailuresEnded`, that is
  `BilledOnce` and `FailedSubscriptionEnded`. `PatientInv` adds that a request
  finds all workflows closed and no other request (`OneAtATime`); that the one
  row of `subscription`, the payment check and the failed invoice a handler has
  read are about one subscription (`OneSubscription`); and that Lago knows of no
  other one without an end (`LagoIsKnown`). The last two are claimed as long as
  nothing broke down: afterwards a row may be missing for good.

`SignupQuietProofs`, for the same constants and any customer (`Spec`):

* `QuietInvariant`, `PaidIsProvisioned`: `PaidAndQuietIsProvisioned`, with the
  rename during the launch or the build as the exception (section 4). When all is
  quiet nothing is left to show how the payment got lost or not, so `QuietInv`
  speaks of the way there: Lago decides only about the subscription that the
  open payment check waits for (`Awaited`), and once nothing is owed that check
  cannot have failed (`NothingFails`) and something is on the way to the
  environment, whichever request overwrites the status meanwhile (`OnTheWay`):
  also a launch that has read the name the row still has, and a build under that
  name. `KnownByName` keeps the name in the row and in the requests that bring
  one; as long as nothing broke down no build fails (`FailingIsTold`) and a write
  that lingers can only say `Provisioned` (`LateIsTold`), so it takes nothing
  away.

`OtpStoreProofs`, for any handlers, limits and numbers of requests:

* `TypeCorrect`; `TriesCounted`; `PromiseKept`.
* `TriesAreCounted` is not inductive: it says nothing of tries that have been
  read and are not answered yet. `CountInv` does: a try that waits for its
  answer has a number the counter has reached, as long as its password is there,
  and no other try of that password, waiting or answered, has the same one.
  That a deleted password never comes back (secrets are numbered upwards) keeps
  the counter's restart apart from the old numbers.
* `CalmInv` says what a handler that is alone may count on at each place it can
  be at: no counter is ahead of the wrong tries, but for the one about to be
  answered, and what it is about to take away is owed to nobody.

`ProvisioningProofs`, for any products, plans, options, standing resources,
numbers of runs and of troubles, under `PlanAssumption` (an onboarding and its
failure handler delete nothing that the onboarding builds, and the handler does
not write Provisioned), which the run `provisioning` evaluates for all products:

* `ShownIsComplete`: where no operation of the onboarding creates anything behind
  what it looks for, and none catches its errors (`WholeSteps`, up to
  `KnownHalf`), `ProvisionedIsComplete` holds. `IInv` adds that a running onboarding has done all firm steps before
  the one it is at (`SoFar`); a step is done for good because only deletions take
  away (`StepKeeps`, `DoneKept`), and a status is written by a step or kept
  (`CompleteNow`, `CompleteKept`).
* `TornDownIsComplete`: where the teardown surely deletes all that any workflow
  of the product builds and that serves its tenants, and builds none of it anew
  (`ClearsAll`), `TeardownIsComplete` holds. `TInv` adds that nothing is there
  that no workflow builds, and that the steps of a running teardown have taken
  away what they name (`TornTo`).

`ProvisioningSafetyProofs`, for the same constants:

* `TypeCorrect`.
* `OthersKept`: `OthersAreKept`, an action property, if no deletion of the
  product names what belongs to others (`SparesOthers`). However far a deletion
  gets, it takes away nothing but what it names (`SparesStep`).
* `CreatedOnce`: `BuiltOnce`, where what an operation looks for is there as soon
  as anything it creates (`BuildsOnce`). That has to be true of the world at all
  times (`GuardsAreThere`), also after a teardown: a guard is not taken away
  before what is behind it.
* `NotStopped`: `NeverStopped`, where each step's needs were there before the
  tenant or are made by an earlier step that is made whenever this one is, and
  no later step takes them away; and where nothing is built that bars a step
  (`NeverRaises`). `SupplyInv` keeps what the steps so far have given (`MadeTo`),
  through repeated and half-done calls, and bounds what there can be.
* `HalfTornIsTold`: `HalfTornIsNotShown`, where the calls of the teardown raise
  only when they go wrong and the handler writes a status (`TellsFailure`).
  `TellInv` says where the one failing call was: after it, the handler's write
  cannot fail without a second one.
* `KeysKept`: `KeysAreKept`, where everyone who creates a key stores it under the
  same name, with nothing in between that can raise or be left out, and only if
  there is none (`StoresKeys`). The hard case is a run that dies between the
  two: the next one finds the key's owner and is not told the key. `KeyInv` says
  that then either the key is stored already or the workflow that knows it is
  still between the two steps (`Window`), and that what can end it there would
  count as a call that went wrong.
* `SecretsAgree`: `CredentialsAgree`, where each secret of the product is of one
  of two kinds (`KeepsSecrets`). It has a root (`RootedIn`): a resource that is
  written once and never taken away, from which everything else that holds the
  secret has it, or from whose creation the workflow knows it. Or every run
  makes it anew (`Renewed`): past some step of its plan the workflow does not
  learn it any more, and after that step the run replaces whatever any workflow
  of the product has ever written it into. `SecretInv` has an invariant for each
  kind. `RootHolds`: all that holds a rooted secret, and what the workflow knows
  of it, is what the root holds. `Renewing`: what the running workflow has
  replaced so far holds what it knows now (`Fresh`), which a replay does not
  change if an activity has returned it (`AsKnown`). `HeldInv` closes the gap
  between the two: a secret is held only where a step open to this tenant writes
  it, so the run that replaces all such places has replaced all that hold it,
  whatever an earlier run, given up half-way, has left behind. The
  passwords (PostgreSQL, Redis, Superset, Kestra) and the secrets of Keycloak's
  clients that a workflow generates are renewed; the keys of
  buckets, the Fernet keys, the secret of the webhooks and StarRocks' password
  are rooted.

The conditions on plans are in `Provisioning`, beside the properties. They are
about the plans as written, not about what happens to a tenant. `MCProvisioning`
has TLC evaluate them, up to the exceptions listed in section 5, for:

| Condition | Holds of | Not of |
|---|---|---|
| `WholeSteps` | all but two | Jeeves and its spaces: Chatwoot's account is found by the id that is stored last |
| `ClearsAll` | Pricedx, Veritable, Practifly, Dexit | Jeeves, whose teardown leaves the scaling; the others have no teardown |
| `SparesOthers` | all | |
| `BuildsOnce` | all but one | Jeeves: its teardown takes away the provider that is looked for, not the mappers behind it |
| `NeverRaises` | all but two | Jeeves and its spaces: the bot and the inbox need Chatwoot's account, and what was looked for is the id that is stored last |
| `TellsFailure` | Veritable, Practifly, Dexit | Pricedx and Jeeves: no handler; the others have no teardown |
| `StoresKeys` | all but one | Veritable: a key that was not told is read from the vault |
| `KeepsSecrets` | all but two | Zsegment and Muspell: the installer's secret is read where it may be there already, and written back; it is neither new nor written once |

For these products the properties hold for any number of runs, failed calls and
replays, which the run shows for three and one; for the products in the last
column the run is what there is.

Only model-checked: the liveness properties (fairness is out of the prover's
reach), the properties for the products in the last column, and the insides of
the plans as such (that they are those of the code is by reading).

## 9. What the violated runs say

* `decline_fallthrough`: hdp (`onboarding.py:145`), zsegment (`:224`) and
  practifly (`:209`) write `ApprovalDeclined` and go on to provision the tenant,
  who ends as `Provisioned`. The signal's docstring is "Signal to reject the
  workflow".
* `update_details`: `tenant.py:125` binds the id with quotes around it, so the
  details are never stored; the unreachable answer is "Tenant details are
  updated successfully".
* `failed_subscription`: a customer who signs up again before
  `SubscriptionCleanupActivity` ran removes the row that tells it what to end,
  and the failed subscription stays open at Lago. With a patient customer it
  is ended (`patient_signup`).
* `replace_subscription`: two sign-ups that overlap after a failed payment read
  the same failed invoice; both create a subscription, one deletes the failed
  one, so a customer has two.

* `shared_token`: two tenants of Muspell that are onboarded at once extend the
  scope of the shared reader token (`muspell/workflows/onboarding.py:738`); the
  second PUT writes back what it read before the first one
  (`cloudflare_utils.py:504`), so a bucket that was in the scope is out of it.
  The docstring says "This activity never removes existing access."

The exceptions of the run `provisioning` (section 5) are flaws as well; they
have no run of their own because no text of the repository promises otherwise.

Seen while modelling and part of the model, without a run of their own: muspell
reports a denial as `ProvisioningFailed` (`muspell/workflows/onboarding.py:279`);
approval under a new name writes the form into column `schema`
(`sql/update_tenant_name.sql:3`), so such a tenant can be neither retried nor
approved again (`schemaOk`); and a lost result of a start lets
`OnboardWorkflow` run a second time after it closed, although its docstring
says "guarantees exactly one execution of workflow" (the second disjunct of
`StartOnboard`; the promise holds all the same).

## 10. Not modelled

* The requests inside an activity, beyond what they leave behind, look for, need
  and return; templates and manifests; the polling of pods and jobs.
* Activities that are defined but called by no workflow at this commit. They are
  in `Activities`, in no plan: `AttachMinioPolicy`, `ClassificationModelDeployment`,
  `EntityModelDeployment`, `StoreClearMLTasks`, `CreateCloudflareQueue`,
  `DeleteCloudflareQueue`, `CreateDroplet`, `CreateMinioBucket`, `CreateMinioUser`,
  `DeleteIdpFromDexithelp`, `DeleteJob`, `DeleteSinchSubproject`, `GetTenantCrd`,
  `JeevesSendAfterProvisioningMail`, `Job`, `K8sConfigMapCreatFromTemplate`,
  `KeycloakOrganisationSetup`, `MatomoUserMapping`, `MuspellSparkSetup`,
  `PenknifeNovuSetup`, `RevokeAllPrivilegesOnTable`, `RevokeKeycloakUserMapping`,
  `RevokeMatomoUserMapping`, `RevokeOwnershipOnTable`, `StatefulSetRestart`,
  `WorkersKVDeleteKeys`, `WorkersKVPut`. `SendBeforeProvisioningMail` comes
  before the approval, in `TenantLifecycle`; `KubeConfigCertExpiry` has a
  scheduled workflow of its own.
* Workflows that do not exist: HDP, Zsegment and Muspell have no teardown
  (`hdp_deboarding` and `zsegment_deboarding` are queues no worker serves),
  Penknife's calls nothing, and Dexit's deployment names a queue that is not
  defined (`dexit/dexit.py:98`), so it never starts.
* Two workflows of one tenant at once. `de_provision_tenant` does not look at
  the status, so a teardown can run beside an onboarding; `Provisioning` has one
  position and one memory.
* The space handlers inside `provisioning.py`, and the listing of tenants.
* Invoice webhooks, connection pools, the rate limiter, schedules, name
  suggestions, coupons, plans and add-ons, users, forms, mails and messages:
  sequential code, thin calls, or guards that change none of the state above.
  Authentication is a guard of every request.

Running: `tlc -config <run>.cfg <module>` for the checks, the module being the
`MC...` one of the component (`SharedSettings` itself for `SharedToken.cfg`), and
`tlapm` on the eight `*Proofs` modules for the theorems. On two cores every run
takes less than three minutes.
