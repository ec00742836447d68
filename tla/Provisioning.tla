---------------------------- MODULE Provisioning ----------------------------
(***************************************************************************)
(* The workflows that build a tenant, renew it and tear it down, run by    *)
(* Temporal against the world outside.  A workflow is a plan, a sequence   *)
(* of the steps of module Activities; Temporal makes one call after the    *)
(* other, repeats an attempt whose answer it has not got, and gives the    *)
(* workflow an error when the attempts are used up.  The workflow's        *)
(* `except' runs its failure handler; an operator may start a workflow     *)
(* again.  A worker that has lost its cache runs the workflow's code       *)
(* again: the results of activities are those of the first time, what the  *)
(* code computes itself (generate_password) is computed anew.              *)
(*                                                                         *)
(* The module is about ANY plans: modules ProductPlans and MCProvisioning  *)
(* give it those of the products.                                          *)
(***************************************************************************)
EXTENDS Activities

CONSTANTS
    Products,     \* the products
    Options,      \* the sets of options a tenant of the product may have
    Standing,     \* the resources that are there before the tenant
    Plan,         \* the plan of a job: job -> product -> sequence of steps
    Handler,      \* the failure handler of a job, of the same form
    MaxRuns,      \* bound: workflows run for the tenant
    MaxTroubles,  \* bound: calls that go wrong, and replays of a workflow
    KnownStale, KnownTwice, KnownHalf, KnownObstacles, KnownLeft, KnownTaken,
    KnownSilent
                  \* where the code falls short of a property, see there

Onboard == "onboarding"
Renew   == "deployment"
Remove  == "deprovisioning"
Jobs    == {Onboard, Renew, Remove}

Statuses == {"Provisioning", "Provisioned", "ProvisioningFailed",
             "DeProvisioned", "DeprovisioningFailed"}

StepsOf(plan) == {plan[i] : i \in DOMAIN plan}

Steps(p) == UNION {StepsOf(Plan[j][p]) : j \in Jobs}

SecretsOf(p, kinds) == UNION {s.carries : s \in {t \in Steps(p) : t.does \in kinds}}

\* The secrets only the answer of their creation tells, and all those the
\* workflow has from the answer of an activity.
Issued(p)   == SecretsOf(p, {"issue"})
Returned(p) == SecretsOf(p, {"make", "issue"})

\* A step whose resources the tenant cannot do without, where it is made.
Sturdy(s) == s.does \in Builds /\ s.known = {} /\ s.skip = {}

Reached(s, n) == {s.on[i] : i \in 1 .. n}
Whole(s)      == Reached(s, Len(s.on))

\* The plans and the failure handlers of a product.
Scripts(p)  == UNION {{Plan[j][p], Handler[j][p]} : j \in Jobs}
AllSteps(p) == UNION {StepsOf(plan) : plan \in Scripts(p)}

Deleted(plan) == UNION {Whole(s) : s \in {t \in StepsOf(plan) : t.does = "delete"}}
Built(plan)   == UNION {Whole(s) : s \in {t \in StepsOf(plan) : t.does \in Builds}}

\* All that any workflow of the product builds, and all it takes away.
Buildable(p) == UNION {Built(Plan[j][p]) \cup Built(Handler[j][p]) : j \in Jobs}
TakenAway(p) == UNION {Deleted(plan) : plan \in Scripts(p)}

ASSUME BoundsAssumption == MaxRuns \in Nat \ {0} /\ MaxTroubles \in Nat

\* Secrets have names, and a status that is written is one of the enumeration.
ASSUME StepAssumption ==
    \A p \in Products : \A s \in AllSteps(p) :
        s.carries \subseteq STRING /\ (s.does = "status" => s.status \in Statuses)

\* An onboarding takes away nothing that it builds, and its failure handler
\* does not say that the tenant is provisioned.
ASSUME PlanAssumption ==
    \A p \in Products :
        /\ \A j \in Jobs : \A plan \in {Plan[j][p], Handler[j][p]} :
            /\ Len(plan) \in Nat /\ DOMAIN plan = 1 .. Len(plan)
            /\ \A s \in StepsOf(plan) :
                Len(s.on) \in Nat /\ (s.does = "lookup" => Len(s.on) = 1)
        /\ \A s \in {t \in Steps(p) : Sturdy(t)} :
            /\ (Whole(s) \cup {s.guard}) \cap Deleted(Plan[Onboard][p]) = {}
            /\ (Whole(s) \cup {s.guard}) \cap Deleted(Handler[Onboard][p]) = {}
        /\ \A i \in DOMAIN Handler[Onboard][p] : Handler[Onboard][p][i].status # "Provisioned"

VARIABLES
    product, options,  \* of the tenant
    job, mode, pc,     \* the workflow that runs, how it goes, its next step
    memo,              \* what its activities have returned: secret -> version
    version,           \* of the passwords the workflow's code has generated
    world,             \* resource -> {<<secret, version>>}; what is there
    twice,             \* the resources that are there more than once
    status,            \* of the tenant, in the database
    runs, faults, replays,
    stopped            \* <<job, act>>: an activity could not but raise

tenant == <<product, options>>
vars == <<tenant, job, mode, pc, memo, version, world, twice, status,
          runs, faults, replays, stopped>>

There == DOMAIN world
-----------------------------------------------------------------------------
\* The next step, and what the workflow's code makes of it

Script == IF mode = "failing" THEN Handler[job][product] ELSE Plan[job][product]

Busy    == mode \in {"running", "failing"}
AtStep  == Busy /\ pc <= Len(Script)
Call    == Script[pc]

Chosen == IF job = Renew THEN options \cup {"deployment"} ELSE options

\* What the workflow passes as a secret: the answer it has, or its own
\* password; 0 is None.
Value(x) == IF x \in DOMAIN memo THEN memo[x] ELSE version

\* The `if' around the call.
LeftOut(s) ==
    \/ ~(s.when \subseteq Chosen)
    \/ s.unless \cap Chosen # {}
    \/ s.skip \cap There # {}
    \/ \E x \in s.known : Value(x) = 0

Obstructed(s) == ~(s.needs \subseteq There) \/ s.bars \cap There # {}
-----------------------------------------------------------------------------
\* What an attempt that gets to the n-th resource does to the world

\* The secrets as the call has them: new ones, passed, or read from other
\* resources.
Written(s) ==
    IF s.does = "issue" THEN {<<x, version>> : x \in s.carries}
    ELSE IF s.sources = {} THEN {<<x, Value(x)>> : x \in s.carries}
    ELSE {v \in UNION {world[q] : q \in s.sources \cap There} : v[1] \in s.carries}

\* Mutated form: the operation looks for all that it would create.
Found_all(s) == s.does = "once" /\ Whole(s) \subseteq There

\* An operation that looks first finds what it would create.
Found(s) == s.does = "once" /\ s.guard \in There

Upsert(s, n) ==
    LET on == Reached(s, n) new == Written(s)
    IN  [q \in There \cup on |-> IF q \in on THEN new ELSE world[q]]

Create(s, n) ==
    LET new == Written(s)
    IN  [q \in There \cup Reached(s, n) |-> IF q \in There THEN world[q] ELSE new]

AddTo(s, n) ==
    LET on == Reached(s, n) new == Written(s)
    IN  [q \in There \cup on |->
            (IF q \in There THEN world[q] ELSE {}) \cup (IF q \in on THEN new ELSE {})]

\* Mutated form: a deletion that lists the resources of the kind, and forgets
\* the tenant's name.
World_by_kind(s, n) ==
    CASE s.does = "delete" ->
            [q \in {r \in There : r[1] \notin {t[1] : t \in Reached(s, n)}} |-> world[q]]
      [] s.does = "put" -> Upsert(s, n)
      [] s.does = "keyed" -> AddTo(s, n)
      [] s.does = "once" -> IF Found(s) THEN world ELSE Create(s, n)
      [] s.does \in {"ensure", "insert", "lookup", "issue"} -> Create(s, n)
      [] OTHER -> world

World(s, n) ==
    CASE s.does = "put" -> Upsert(s, n)
      [] s.does \in {"ensure", "insert", "lookup", "issue"} -> Create(s, n)
      [] s.does = "once" -> IF Found(s) THEN world ELSE Create(s, n)
      [] s.does = "keyed" -> AddTo(s, n)
      [] s.does = "delete" -> [q \in There \ Reached(s, n) |-> world[q]]
      [] OTHER -> world

\* The resources the attempt makes one more of.
Again(s, n) ==
    {q \in Reached(s, n) \cap There :
        \/ s.does = "insert"
        \/ s.does = "once" /\ ~Found(s)
        \/ s.does = "keyed" /\ ~(Written(s) \subseteq world[q])}

Twice(s, n) ==
    IF s.does = "delete" THEN twice \ Reached(s, n) ELSE twice \cup Again(s, n)

Effect(s, n) == world' = World(s, n) /\ twice' = Twice(s, n)

\* What a call that is answered returns to the workflow: the password it has
\* made, the one the resource holds if the workflow does not know it yet (none:
\* the workflow takes its own), the credential of what it has created.
Held(q, secrets) == {v \in IF q \in There THEN world[q] ELSE {} : v[1] \in secrets}

Known(x) == x \in DOMAIN memo /\ memo[x] # 0

Answer(s) ==
    CASE s.does = "make"  -> {<<x, version>> : x \in s.carries}
      [] s.does = "fetch" -> Held(s.on[1], {x \in s.carries : ~Known(x)})
      [] s.does = "issue" ->
            {<<x, version>> : x \in IF s.on[1] \in There THEN {} ELSE s.carries}
      [] OTHER -> {}

Memo(s) ==
    LET new == Answer(s)
    IN  [x \in DOMAIN memo \cup {v[1] : v \in new} |->
            IF \E v \in new : v[1] = x THEN (CHOOSE v \in new : v[1] = x)[2] ELSE memo[x]]

Unknown(p) == [x \in Issued(p) |-> 0]
-----------------------------------------------------------------------------
Init ==
    /\ product \in Products
    /\ options \in Options[product]
    /\ job = Onboard /\ mode = "running" /\ pc = 1
    /\ memo = Unknown(product) /\ version = 1
    /\ world = [q \in Standing[product] |-> {}] /\ twice = {}
    /\ status = "Provisioning"
    /\ runs = 1 /\ faults = 0 /\ replays = 0
    /\ stopped = {}

\* Mutated form: the exception ends the workflow without its handler.
Raise_not_handled == mode' = "failed" /\ pc' = pc

\* An exception: the workflow goes into its handler, the handler ends it.
Raise ==
    IF mode = "running" THEN mode' = "failing" /\ pc' = 1
    ELSE mode' = "failed" /\ pc' = pc

\* The `if' is not taken.
LeaveOut ==
    /\ AtStep /\ LeftOut(Call)
    /\ pc' = pc + 1
    /\ UNCHANGED <<tenant, job, mode, memo, version, world, twice, status,
                   runs, faults, replays, stopped>>

Calling == AtStep /\ ~LeftOut(Call)

\* The call is answered.
Succeed ==
    /\ Calling /\ ~Obstructed(Call)
    /\ Effect(Call, Len(Call.on))
    /\ memo' = Memo(Call)
    /\ status' = IF Call.does = "status" THEN Call.status ELSE status
    /\ pc' = pc + 1
    /\ UNCHANGED <<tenant, job, mode, version, runs, faults, replays, stopped>>

\* Every attempt raises: the error is the activity's answer or the workflow's
\* exception.
Obstruct ==
    /\ Calling /\ Obstructed(Call)
    /\ IF Call.quiet THEN mode' = mode /\ pc' = pc + 1 /\ stopped' = stopped
       ELSE Raise /\ stopped' = stopped \cup {<<job, Call.act>>}
    /\ UNCHANGED <<tenant, job, memo, version, world, twice, status,
                   runs, faults, replays>>

\* A call goes wrong after it has reached some of the resources: the service
\* fails, the worker is stopped, the answer is late or lost.
Fault ==
    /\ Calling /\ ~Obstructed(Call)
    /\ faults + replays < MaxTroubles
    /\ faults' = faults + 1
    /\ \E n \in 0 .. Len(Call.on) : Effect(Call, n)
    /\ UNCHANGED <<tenant, job, memo, version, runs, replays, stopped>>

PerhapsWritten == {status, IF Call.does = "status" THEN Call.status ELSE status}

\* The attempt is repeated.
Repeat ==
    /\ Fault
    /\ Call.tries > 1
    /\ status' \in PerhapsWritten
    /\ UNCHANGED <<mode, pc>>

\* Mutated form: the activities that build catch their errors.
GiveUp_errors_caught ==
    /\ Fault
    /\ \/ Raise
       \/ (Call.quiet \/ Call.does \in Builds) /\ mode' = mode /\ pc' = pc + 1
    /\ status' \in PerhapsWritten

\* Mutated form: an activity that deletes catches its errors.
GiveUp_deletions_caught ==
    /\ Fault
    /\ \/ Call.does # "delete" /\ Raise
       \/ (Call.quiet \/ Call.does = "delete") /\ mode' = mode /\ pc' = pc + 1
    /\ status' \in PerhapsWritten

\* It was the last one.  An activity that catches its errors ends like one
\* that is answered, unless it was its worker that was stopped.
GiveUp ==
    /\ Fault
    /\ \/ Raise
       \/ Call.quiet /\ mode' = mode /\ pc' = pc + 1
    /\ status' \in PerhapsWritten

\* An attempt that was given up still runs while the next one looks: both find
\* nothing and both insert.
StaleAttempt ==
    /\ Calling /\ Call.does = "lookup" /\ Call.on[1] \notin There
    /\ faults + replays < MaxTroubles
    /\ faults' = faults + 1
    /\ world' = World(Call, 1) /\ twice' = twice \cup Reached(Call, 1)
    /\ pc' = pc + 1
    /\ UNCHANGED <<tenant, job, mode, memo, version, status, runs, replays, stopped>>

\* Another worker runs the workflow's code from its first line.
Replay ==
    /\ Busy /\ faults + replays < MaxTroubles
    /\ version' = version + 1
    /\ replays' = replays + 1
    /\ UNCHANGED <<tenant, job, mode, pc, memo, world, twice, status,
                   runs, faults, stopped>>

End ==
    /\ Busy /\ pc > Len(Script)
    /\ mode' = IF mode = "running" THEN "ended" ELSE "failed"
    /\ UNCHANGED <<tenant, job, pc, memo, version, world, twice, status,
                   runs, faults, replays, stopped>>

Start(j) ==
    /\ ~Busy /\ runs < MaxRuns
    /\ Plan[j][product] # << >>
    /\ job' = j /\ mode' = "running" /\ pc' = 1
    /\ memo' = Unknown(product) /\ version' = version + 1
    /\ runs' = runs + 1
    /\ UNCHANGED <<tenant, world, twice, faults, replays, stopped>>

\* Mutated form: a status the enumeration does not have.
Retry_no_such_status == Start(Onboard) /\ status' = "Retrying"

\* retry_provisioning, deploy_workflow, and deboard after its approval: none of
\* them looks at the status.
Retry       == Start(Onboard) /\ status' = "Provisioning"
Redeploy    == Start(Renew) /\ UNCHANGED status
Deprovision == Start(Remove) /\ UNCHANGED status

Next ==
    \/ LeaveOut \/ Succeed \/ Obstruct \/ Repeat \/ GiveUp \/ StaleAttempt
    \/ Replay \/ End \/ Retry \/ Redeploy \/ Deprovision

Spec == Init /\ [][Next]_vars
-----------------------------------------------------------------------------
TypeOK ==
    /\ product \in Products /\ options \in Options[product]
    /\ job \in Jobs /\ mode \in {"running", "failing", "ended", "failed"}
    /\ pc \in Nat \ {0}
    /\ version \in Nat \ {0}
    /\ memo \in [DOMAIN memo -> Nat]
    /\ world \in [There -> SUBSET (STRING \X Nat)]
    /\ twice \subseteq There
    /\ status \in Statuses
    /\ runs \in 1 .. MaxRuns
    /\ faults \in Nat /\ replays \in Nat /\ faults + replays <= MaxTroubles

Onboarded == mode = "ended" /\ job # Remove

\* When a tenant is built, everything that holds a secret (the role in the
\* database, the vault's entry, the pooler, the configuration of the pods)
\* holds the same one. A replay breaks this for the passwords the workflow's
\* code generates, and a second run for the resources that keep what they
\* have: the ones of KnownStale.
CredentialsAgree ==
    Onboarded =>
        LET held == UNION {world[q] : q \in {r \in There : <<product, r>> \notin KnownStale}}
        IN  \A v, w \in held :
                v[1] = w[1] /\ v[2] # 0 /\ w[2] # 0 =>
                    \/ v[2] = w[2]
                    \/ replays > 0 /\ v[1] \notin Returned(product)

\* Whoever writes the secret x, and what they write it into.
Writers(p, x) == {s \in AllSteps(p) : s.does \in Builds /\ x \in s.carries}
Holders(p, x) == UNION {Whole(s) : s \in Writers(p, x)}

Stales(p, s) == \A q \in Whole(s) : <<p, q>> \in KnownStale

\* The workflow knows x only as r's creation told it, or as it was read again.
ToldBy(p, x, r) ==
    /\ x \in Issued(p)
    /\ \A s \in AllSteps(p) : x \in s.carries =>
        /\ s.does # "make"
        /\ s.does = "issue" => s.on = <<r>>
        /\ s.does = "fetch" => <<p, s.on[1]>> \notin KnownStale

\* What r holds is written once and kept for good, and everything else that
\* holds x has it from there.
RootedIn(p, x, r) ==
    /\ r \notin TakenAway(p)
    /\ \A s \in AllSteps(p) : s.does \in Builds /\ r \in Whole(s) =>
        s.does \in {"ensure", "issue"} /\ s.on = <<r>> /\ s.sources = {}
    /\ \A s \in Writers(p, x) :
        \/ s.on = <<r>> \/ Stales(p, s)
        \/ s.does # "issue" /\ s.sources # {}
               /\ \A q \in s.sources : <<p, q>> \notin KnownStale
        \/ s.sources = {} /\ ToldBy(p, x, r)

\* A step made under the options wherever s is.
CalledLike(t, s) ==
    /\ t.when \subseteq s.when \ {"deployment"}
    /\ t.unless \subseteq s.unless \ {"deployment"}

\* The i-th step replaces what q holds, or makes the secret x anew, in every run
\* that gets past it.
Imperative(s) == ~s.quiet /\ s.skip = {} /\ s.known = {}

Replaces(plan, i, q) ==
    plan[i].does = "put" /\ plan[i].on = <<q>> /\ Imperative(plan[i])

Makes(plan, i, x) ==
    plan[i].does = "make" /\ x \in plan[i].carries /\ Imperative(plan[i])

\* After its m-th step the workflow knows x for good, and replaces all that
\* holds it.
RenewsAfter(p, plan, x, m) ==
    /\ \A k \in DOMAIN plan : x \in plan[k].carries =>
        /\ plan[k].does \in {"make", "fetch", "issue"} => k <= m
        /\ plan[k].does \in Builds =>
            \/ Stales(p, plan[k])
            \/ /\ plan[k].does = "put" /\ k > m
               /\ \A q \in plan[k].sources \cap Holders(p, x) :
                    /\ <<p, q>> \notin KnownStale
                    /\ \E i \in m + 1 .. k - 1 :
                        Replaces(plan, i, q) /\ CalledLike(plan[i], plan[k])
               /\ x \in Returned(p) =>
                    \E i \in 1 .. m : Makes(plan, i, x) /\ CalledLike(plan[i], plan[k])
    /\ \A s \in Writers(p, x) : \A q \in Whole(s) :
        <<p, q>> \in KnownStale \/ \E i \in DOMAIN plan :
            i > m /\ Replaces(plan, i, q) /\ CalledLike(plan[i], s)

\* Every onboarding, and every renewal, writes x anew wherever it is.
Renewed(p, x) ==
    \A j \in {Onboard, Renew} : j = Onboard \/ Plan[j][p] # << >> =>
        \E m \in 0 .. Len(Plan[j][p]) : RenewsAfter(p, Plan[j][p], x, m)

\* Every secret of the product has a root, or is written anew by every run.
KeepsSecrets(p) ==
    \A s \in AllSteps(p) : s.does \in Builds => \A x \in s.carries :
        Renewed(p, x) \/ \E r \in Buildable(p) : RootedIn(p, x, r)

\* The keys of a bucket are told once, by the call that creates them: as long
\* as no call goes wrong nothing the tenant has holds None in their place,
\* whatever its renewals, that are not told them, write.
KeysAreKept ==
    Onboarded /\ faults = 0 => \A q \in There : \A v \in world[q] : v[2] # 0

\* A call that cannot raise, made under the same options as another one.
Alongside(m, s) ==
    /\ m.when = s.when /\ m.unless = s.unless /\ m.skip = {} /\ m.known = {}
    /\ m.needs = {} /\ m.bars = {}

\* The plan stores the key x of t, where nothing can come between its creation
\* and the k-th step.
StoresAt(plan, x, t, i, k) ==
    /\ i \in DOMAIN plan /\ k \in DOMAIN plan /\ i < k
    /\ plan[i].does = "issue" /\ x \in plan[i].carries /\ plan[i].on = <<t>>
    /\ \A m \in i .. k : Alongside(plan[m], plan[i])

\* A key is stored where it is there already or not at all, by everyone who
\* creates it.
StoredWith(p, s, x, t) ==
    /\ s.does = "ensure" /\ Len(s.on) = 1 /\ s.on[1] \notin TakenAway(p)
    /\ t \notin Standing[p]
    /\ \A plan \in Scripts(p) : \A k \in DOMAIN plan :
            plan[k] = s => \E i \in DOMAIN plan : StoresAt(plan, x, t, i, k)
    /\ \A plan \in Scripts(p) : \A i \in DOMAIN plan :
            plan[i].does \in Builds /\ t \in Whole(plan[i]) =>
                \E k \in DOMAIN plan : plan[k] = s /\ StoresAt(plan, x, t, i, k)

\* What the product's workflows write is never a key that was lost.
StoresKeys(p) ==
    \A s \in AllSteps(p) : s.does \in Builds \ {"issue"} /\ s.sources = {} =>
        \A x \in (s.carries \cap Issued(p)) \ s.known :
            \E t \in Buildable(p) : StoredWith(p, s, x, t)

\* Nothing is created a second time by a repeated call or a repeated run.
BuiltOnce == \A q \in twice : <<product, q>> \in KnownTwice

\* What is behind g is created after it, and g stays.
Behind(p, q, g) ==
    /\ q \notin Standing[p] /\ g \notin TakenAway(p)
    /\ \A s \in AllSteps(p) : \A b \in 1 .. Len(s.on) :
            s.does \in Builds /\ s.on[b] = q => \E a \in 1 .. b : s.on[a] = g

\* What an operation looks for is there as soon as anything it creates.
BuildsOnce(p) ==
    \A s \in AllSteps(p) : \A q \in Whole(s) : <<p, q>> \notin KnownTwice =>
        /\ s.does \notin {"insert", "lookup"}
        /\ s.does = "keyed" => s.carries = {}
        /\ s.does = "once" => q = s.guard \/ Behind(p, q, s.guard)

\* No run comes to a call that can only raise, whatever an earlier run of the
\* tenant has done and left.
NeverStopped == \A o \in stopped : <<product, o[1], o[2]>> \in KnownObstacles

\* What is there after a step, new or found.
Gives(s) ==
    IF s.does = "once" THEN {s.guard} \cap Whole(s)
    ELSE IF s.does \in Builds THEN Whole(s) ELSE {}

Takes(s) == IF s.does = "delete" THEN Whole(s) ELSE {}

\* Whenever the workflow makes the k-th call, it has made the i-th one before.
MadeBefore(plan, i, k) ==
    /\ i < k /\ ~plan[i].quiet /\ plan[i].known = {}
    /\ plan[i].when \subseteq plan[k].when /\ plan[i].unless \subseteq plan[k].unless
    /\ plan[i].skip \subseteq plan[k].skip /\ plan[i].skip \cap Deleted(plan) = {}

\* What the k-th step needs was there before the tenant, or the plan has made
\* it, and it was not taken away.
Supplied(p, plan, k, q) ==
    \/ q \in Standing[p] \ TakenAway(p)
    \/ \E i \in DOMAIN plan :
        /\ q \in Gives(plan[i]) /\ MadeBefore(plan, i, k)
        /\ \A m \in i + 1 .. k : q \notin Takes(plan[m])

\* A call of the product can raise only if it went wrong.
NeverRaises(p) ==
    \A j \in Jobs : \A plan \in {Plan[j][p], Handler[j][p]} : \A k \in DOMAIN plan :
        \/ plan[k].quiet \/ <<p, j, plan[k].act>> \in KnownObstacles
        \/ /\ \A q \in plan[k].needs : Supplied(p, plan, k, q)
           /\ plan[k].bars \cap (Standing[p] \cup Buildable(p)) = {}

\* A step this tenant cannot do without.
Firm(s) == Sturdy(s) /\ s.when \subseteq options /\ s.unless \cap options = {}

\* What is found must be whole: an activity that was cut short between two
\* creations has to complete them when it is repeated. And an error that is
\* caught must not hide that something is missing. Neither is so of the
\* resources of KnownHalf.
Done(s) == \A q \in Whole(s) : q \in There \/ <<product, q>> \in KnownHalf

\* An onboarding creates nothing behind what it looks for, and what a call leaves
\* undone is an error of the workflow.
WholeSteps(p) ==
    \A s \in {t \in StepsOf(Plan[Onboard][p]) : Sturdy(t)} : \A q \in Whole(s) :
        <<p, q>> \in KnownHalf \/ (~s.quiet /\ (s.does = "once" => q = s.guard))

\* A tenant whose onboarding shows it as Provisioned has all that the onboarding
\* builds before it says so.
ProvisionedIsComplete ==
    status = "Provisioned" /\ job = Onboard =>
        \E i \in DOMAIN Plan[Onboard][product] :
            /\ Plan[Onboard][product][i].status = "Provisioned"
            /\ \A k \in 1 .. i - 1 :
                Firm(Plan[Onboard][product][k]) => Done(Plan[Onboard][product][k])

\* A deletion that is made in every teardown, and whose failure ends it.
Sure(s) ==
    /\ s.does = "delete" /\ ~s.quiet
    /\ s.known = {} /\ s.skip = {} /\ s.when = {} /\ s.unless = {}

Cleared(plan) == UNION {Whole(s) : s \in {t \in StepsOf(plan) : Sure(t)}}

\* A teardown that has ended with the status DeProvisioned has left nothing that
\* serves the tenant or starts pods for it.
Serving == {"statefulset", "deployment", "service", "virtualservice", "keda", "cronjob"}

TeardownIsComplete ==
    status = "DeProvisioned" /\ job = Remove /\ mode = "ended" =>
        \A q \in There \ Standing[product] : q[1] \in Serving => <<product, q>> \in KnownLeft

\* The teardown of the product surely deletes all that serves its tenants, and
\* does not build it anew.
ClearsAll(p) ==
    /\ Built(Plan[Remove][p]) \cap Cleared(Plan[Remove][p]) = {}
    /\ \A q \in Buildable(p) \ Standing[p] :
        q[1] \in Serving => <<p, q>> \in KnownLeft \/ q \in Cleared(Plan[Remove][p])

\* A teardown that has failed half-way does not leave the tenant shown as
\* Provisioned, unless the call that would say so is the one that goes wrong, or
\* the workflow has no handler (KnownSilent).
HalfTornIsNotShown ==
    job = Remove /\ mode = "failed" /\ faults <= 1 =>
        status # "Provisioned" \/ product \in KnownSilent

\* Only a call that goes wrong ends the teardown, and then its handler writes
\* another status.
Unfailing(s) == s.quiet \/ (s.needs = {} /\ s.bars = {})

Tells(s) ==
    /\ s.does = "status" /\ s.needs = {} /\ s.bars = {}
    /\ s.when = {} /\ s.unless = {} /\ s.skip = {} /\ s.known = {}

TellsFailure(p) ==
    /\ \A s \in StepsOf(Plan[Remove][p]) \cup StepsOf(Handler[Remove][p]) : Unfailing(s)
    /\ \A s \in StepsOf(Handler[Remove][p]) : s.status # "Provisioned"
    /\ \E s \in StepsOf(Handler[Remove][p]) : Tells(s)

\* No workflow of the tenant takes away what was there before it and belongs
\* to others: the product's database, the realm of the help desk.
Others == {q \in Standing[product] : <<product, q>> \notin KnownTaken}

\* No deletion of the product names what belongs to others.
SparesOthers(p) ==
    \A q \in Standing[p] \cap TakenAway(p) : <<p, q>> \in KnownTaken

OthersAreKept == [][Others \subseteq DOMAIN world']_vars
=============================================================================
