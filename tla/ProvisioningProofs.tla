------------------------- MODULE ProvisioningProofs -------------------------
(***************************************************************************)
(* Proofs about Provisioning, for every plan that keeps PlanAssumption,    *)
(* every number of runs and of troubles: a tenant that an onboarding shows *)
(* as Provisioned has all that the onboarding builds before it says so,    *)
(* and a teardown that ends leaves nothing that serves the tenant.         *)
(***************************************************************************)
EXTENDS Provisioning, TLAPS

\* The onboarding has made all firm steps before the n-th one.
SoFar(n) ==
    \A k \in DOMAIN Plan[Onboard][product] :
        k < n /\ Firm(Plan[Onboard][product][k]) => Done(Plan[Onboard][product][k])

IInv ==
    /\ product \in Products /\ job \in Jobs /\ pc \in Nat \ {0}
    /\ job = Onboard /\ mode = "running" => SoFar(pc)
    /\ ProvisionedIsComplete
-----------------------------------------------------------------------------
(* What a step does to what is there                                       *)

\* Only a deletion takes away.
LEMMA WorldKeeps ==
    ASSUME NEW s, NEW n
    PROVE  s.does # "delete" => There \subseteq DOMAIN World(s, n)
BY DEF World, Upsert, Create, AddTo, There

\* And it takes away what it names.
LEMMA WorldDeletes ==
    ASSUME NEW s, NEW n, s.does = "delete"
    PROVE  There \ Reached(s, n) \subseteq DOMAIN World(s, n)
BY DEF World, There

\* What builds has built what it has reached, unless it has found something.
LEMMA WorldBuilds ==
    ASSUME NEW s, NEW n, s.does \in Builds, ~Found(s)
    PROVE  Reached(s, n) \subseteq DOMAIN World(s, n)
BY DEF World, Upsert, Create, AddTo, There, Builds, Found

\* A part of the resources is reached before all of them.
LEMMA PartOfWhole ==
    ASSUME NEW s, NEW n \in 0 .. Len(s.on), Len(s.on) \in Nat
    PROVE  Reached(s, n) \subseteq Whole(s)
BY DEF Reached, Whole

\* A workflow's next call is a step of its plan, or of its failure handler.
LEMMA CallOfPlan ==
    ASSUME product \in Products, job \in Jobs, pc \in Nat \ {0}, AtStep
    PROVE  /\ Len(Call.on) \in Nat
           /\ Call.does = "lookup" => Len(Call.on) = 1
           /\ mode = "running" =>
                /\ Call = Plan[job][product][pc]
                /\ pc \in DOMAIN Plan[job][product]
           /\ mode # "running" =>
                /\ Call = Handler[job][product][pc]
                /\ pc \in DOMAIN Handler[job][product]
<1>1. pc <= Len(Script) /\ (mode = "running" \/ mode = "failing")
  BY DEF AtStep, Busy
<1>2. Script \in {Plan[job][product], Handler[job][product]}
  BY DEF Script
<1>3. pc \in DOMAIN Script /\ Len(Script) \in Nat
  BY <1>1, <1>2, PlanAssumption
<1>4. Call \in StepsOf(Script)
  BY <1>3 DEF Call, StepsOf
<1>5. QED
  BY <1>1, <1>2, <1>3, <1>4, PlanAssumption DEF Call, Script

\* The onboarding is a sequence.
LEMMA OnboardingPlan ==
    ASSUME NEW p \in Products
    PROVE  /\ Len(Plan[Onboard][p]) \in Nat
           /\ DOMAIN Plan[Onboard][p] = 1 .. Len(Plan[Onboard][p])
BY PlanAssumption DEF Jobs
-----------------------------------------------------------------------------
(* What an onboarding keeps                                                *)

\* What an onboarding, or its failure handler, takes away.
Away == Deleted(Plan[Onboard][product]) \cup Deleted(Handler[Onboard][product])

\* A step of the onboarding.
LEMMA CallOfOnboarding ==
    ASSUME IInv, job = Onboard, AtStep
    PROVE  /\ Len(Call.on) \in Nat
           /\ Call.does = "delete" => Whole(Call) \subseteq Away
           /\ mode = "running" =>
                /\ Call = Plan[Onboard][product][pc]
                /\ pc \in DOMAIN Plan[Onboard][product]
                /\ Call \in StepsOf(Plan[Onboard][product]) \cap Steps(product)
           /\ mode # "running" => Call.status # "Provisioned"
<1>1. product \in Products /\ job \in Jobs /\ pc \in Nat \ {0}
  BY DEF IInv
<1>2. CASE mode = "running"
  BY <1>1, <1>2, CallOfPlan DEF Steps, StepsOf, Jobs, Away, Deleted
<1>3. CASE mode # "running"
  <2>1. Call = Handler[Onboard][product][pc] /\ pc \in DOMAIN Handler[Onboard][product]
    BY <1>1, <1>3, CallOfPlan
  <2>2. Call.does = "delete" => Whole(Call) \subseteq Away
    BY <2>1 DEF Away, Deleted, StepsOf
  <2>3. QED
    BY <1>1, <1>3, <2>1, <2>2, CallOfPlan, PlanAssumption
<1>4. QED
  BY <1>2, <1>3

\* It takes away what is in Away, however far it gets.
LEMMA StepKeeps ==
    ASSUME IInv, job = Onboard, AtStep, NEW n \in 0 .. Len(Call.on), world' = World(Call, n)
    PROVE  There \subseteq There' \cup Away
<1>1. PICK s : s = Call
  OBVIOUS
<1>2. Len(s.on) \in Nat /\ (s.does = "delete" => Whole(s) \subseteq Away)
  BY <1>1, CallOfOnboarding
<1>3. world' = World(s, n) /\ n \in 0 .. Len(s.on)
  BY <1>1
<1>4. CASE s.does = "delete"
  BY <1>2, <1>3, <1>4, PartOfWhole, WorldDeletes DEF There
<1>5. CASE s.does # "delete"
  BY <1>3, <1>5, WorldKeeps DEF There
<1>6. QED
  BY <1>4, <1>5

\* A firm step that is done stays done.
LEMMA DoneKept ==
    ASSUME product \in Products, UNCHANGED tenant, There \subseteq There' \cup Away,
           NEW s \in Steps(product), Sturdy(s), Done(s)
    PROVE  Done(s)'
<1>1. (Whole(s) \cup {s.guard}) \cap Away = {}
  BY PlanAssumption DEF Away
<1>2. QED
  BY <1>1 DEF Done, tenant

\* So all the steps that are done stay done.
LEMMA SoFarKept ==
    ASSUME product \in Products, UNCHANGED tenant, There \subseteq There' \cup Away,
           NEW n, SoFar(n)
    PROVE  SoFar(n)'
<1> SUFFICES ASSUME NEW k \in DOMAIN Plan[Onboard][product],
                    k < n, Firm(Plan[Onboard][product][k])'
             PROVE  Done(Plan[Onboard][product][k])'
  BY DEF SoFar, tenant
<1>1. PICK s : s = Plan[Onboard][product][k]
  OBVIOUS
<1>2. s \in Steps(product) /\ Sturdy(s) /\ Firm(s)
  BY <1>1 DEF Steps, StepsOf, Jobs, Firm, tenant
<1>3. Done(s)
  BY <1>1, <1>2 DEF SoFar
<1>4. Done(s)'
  BY <1>2, <1>3, DoneKept
<1>5. QED
  BY <1>1, <1>4 DEF tenant
-----------------------------------------------------------------------------
(* What an onboarding has built                                            *)

\* The i-th step says that the tenant is provisioned, and may say so.
Complete(i) ==
    /\ i \in DOMAIN Plan[Onboard][product]
    /\ Plan[Onboard][product][i].status = "Provisioned"
    /\ SoFar(i)

LEMMA Completeness ==
    ASSUME product \in Products
    PROVE  ProvisionedIsComplete <=>
                (status = "Provisioned" /\ job = Onboard => \E i : Complete(i))
<1>1. /\ Len(Plan[Onboard][product]) \in Nat
      /\ DOMAIN Plan[Onboard][product] = 1 .. Len(Plan[Onboard][product])
  BY OnboardingPlan
<1>2. \A i \in DOMAIN Plan[Onboard][product] :
        SoFar(i) <=> \A k \in 1 .. i - 1 :
            Firm(Plan[Onboard][product][k]) => Done(Plan[Onboard][product][k])
  BY <1>1 DEF SoFar
<1>3. QED
  BY <1>1, <1>2 DEF ProvisionedIsComplete, Complete

\* Who was complete stays complete in the same run.
LEMMA CompleteStays ==
    ASSUME product \in Products, UNCHANGED tenant, There \subseteq There' \cup Away,
           NEW i, Complete(i)
    PROVE  ProvisionedIsComplete'
<1>1. SoFar(i)'
  BY SoFarKept DEF Complete
<1>2. product' = product
  BY DEF tenant
<1>3. /\ i \in DOMAIN Plan[Onboard][product'] /\ Plan[Onboard][product'][i].status = "Provisioned"
      /\ \A k \in 1 .. i - 1 : k \in DOMAIN Plan[Onboard][product'] /\ k < i
  BY <1>2, OnboardingPlan DEF Complete
<1>4. \A k \in 1 .. i - 1 :
        Firm(Plan[Onboard][product][k])' => Done(Plan[Onboard][product][k])'
  BY <1>1, <1>3 DEF SoFar
<1>5. QED
  BY <1>3, <1>4 DEF ProvisionedIsComplete

LEMMA CompleteKept ==
    ASSUME IInv, UNCHANGED <<tenant, job>>,
           status' = "Provisioned" => status = "Provisioned",
           job = Onboard => There \subseteq There' \cup Away
    PROVE  ProvisionedIsComplete'
<1>1. CASE status' = "Provisioned" /\ job = Onboard
  <2>1. PICK i : Complete(i)
    BY <1>1, Completeness DEF IInv
  <2>2. QED
    BY <1>1, <2>1, CompleteStays DEF IInv
<1>2. CASE ~(status' = "Provisioned" /\ job = Onboard)
  BY <1>2 DEF ProvisionedIsComplete
<1>3. QED
  BY <1>1, <1>2

\* The step that says so comes after all the other ones.
LEMMA CompleteNow ==
    ASSUME IInv, UNCHANGED <<tenant, job>>, job = Onboard, mode = "running",
           There \subseteq There' \cup Away, pc \in DOMAIN Plan[Onboard][product],
           \/ status' = Plan[Onboard][product][pc].status
           \/ status' = status
    PROVE  ProvisionedIsComplete'
<1>1. CASE status' = "Provisioned" /\ status' = Plan[Onboard][product][pc].status
  <2>1. PICK i : i = pc
    OBVIOUS
  <2>2. Complete(i)
    BY <1>1, <2>1 DEF Complete, IInv
  <2>3. QED
    BY <2>2, CompleteStays DEF IInv
<1>2. CASE status' # "Provisioned" \/ status' = status
  BY <1>2, CompleteKept
<1>3. QED
  BY <1>1, <1>2

\* Once the step is done, the onboarding has got one step further.
LEMMA NextStep ==
    ASSUME IInv, UNCHANGED <<tenant, job>>, job = Onboard, mode = "running",
           There \subseteq There' \cup Away, pc' = pc + 1, NEW s, s = Plan[Onboard][product][pc],
           Firm(s) => Done(s)'
    PROVE  SoFar(pc)'
<1>1. PICK n \in Nat \ {0} : n = pc
  BY DEF IInv
<1>2. SoFar(n)'
  BY <1>1, SoFarKept DEF IInv
<1>3. product' = product /\ options' = options /\ product \in Products
  BY DEF IInv, tenant
<1>4. ASSUME NEW k \in DOMAIN Plan[Onboard][product], k < n + 1,
             NEW t, t = Plan[Onboard][product][k], Firm(t)
      PROVE  Done(t)'
  <2>1. k \in Nat
    BY <1>3, OnboardingPlan
  <2>2. CASE k < n
    <3>1. t \in Steps(product) /\ Sturdy(t) /\ Done(t)
      BY <1>1, <1>4, <2>2 DEF IInv, SoFar, Steps, StepsOf, Jobs, Firm
    <3>2. QED
      BY <1>3, <3>1, DoneKept
  <2>3. CASE k = n
    BY <1>1, <1>4, <2>3
  <2>4. QED
    BY <1>1, <1>4, <2>1, <2>2, <2>3
<1>5. ASSUME NEW k \in DOMAIN Plan[Onboard][product], k < n + 1,
             Firm(Plan[Onboard][product][k])'
      PROVE  Done(Plan[Onboard][product][k])'
  <2>1. PICK t : t = Plan[Onboard][product][k]
    OBVIOUS
  <2>2. Firm(t)
    BY <1>3, <1>5, <2>1 DEF Firm
  <2>3. Done(t)'
    BY <1>4, <1>5, <2>1, <2>2
  <2>4. QED
    BY <1>3, <2>1, <2>3
<1>6. SoFar(n + 1)'
  BY <1>3, <1>5 DEF SoFar
<1>7. QED
  BY <1>1, <1>2, <1>6
-----------------------------------------------------------------------------
(* The actions                                                             *)

\* A call that reaches all its resources is done.
LEMMA CallDoes ==
    ASSUME WholeSteps(product), product' = product,
           NEW s \in StepsOf(Plan[Onboard][product]), Sturdy(s),
           world' = World(s, Len(s.on))
    PROVE  Done(s)'
<1> SUFFICES ASSUME NEW q \in Whole(s), <<product, q>> \notin KnownHalf
             PROVE  q \in There'
  BY DEF Done
<1>1. s.does = "once" => q = s.guard
  BY DEF WholeSteps
<1>2. CASE Found(s)
  <2>1. s.does = "once" /\ q \in There
    BY <1>1, <1>2 DEF Found
  <2>2. QED
    BY <2>1, WorldKeeps DEF There
<1>3. CASE ~Found(s)
  BY <1>3, WorldBuilds DEF Whole, Sturdy, There
<1>4. QED
  BY <1>2, <1>3

\* Where errors are caught, nothing is promised.
LEMMA QuietDoes ==
    ASSUME WholeSteps(product), product' = product,
           NEW s \in StepsOf(Plan[Onboard][product]), Sturdy(s), s.quiet
    PROVE  Done(s)'
BY DEF WholeSteps, Done

\* What is left out is not firm.
LEMMA LeavesOut ==
    ASSUME IInv, WholeSteps(product), LeaveOut
    PROVE  IInv'
<1>1. /\ UNCHANGED <<tenant, job, mode, world, status>> /\ pc' = pc + 1 /\ There' = There
      /\ AtStep /\ LeftOut(Call)
  BY DEF LeaveOut, There
<1>2. ProvisionedIsComplete'
  BY <1>1, CompleteKept DEF IInv
<1>3. CASE job = Onboard /\ mode = "running"
  <2>1. PICK s : s = Call
    OBVIOUS
  <2>2. s = Plan[Onboard][product][pc]
    BY <1>1, <1>3, <2>1, CallOfOnboarding
  <2>3. ~Firm(s)
    BY <1>1, <1>3, <2>1 DEF LeftOut, Firm, Sturdy, Chosen, Onboard, Renew
  <2>4. QED
    BY <1>1, <1>2, <1>3, <2>2, <2>3, NextStep DEF IInv, tenant
<1>4. CASE ~(job = Onboard /\ mode = "running")
  BY <1>1, <1>2, <1>4 DEF IInv, tenant
<1>5. QED
  BY <1>3, <1>4

\* What is answered is done.
LEMMA Succeeds ==
    ASSUME IInv, WholeSteps(product), Succeed
    PROVE  IInv'
<1>1. PICK s : s = Call
  OBVIOUS
<1>2. /\ UNCHANGED <<tenant, job, mode>> /\ pc' = pc + 1 /\ AtStep
      /\ world' = World(s, Len(s.on))
      /\ status' = IF s.does = "status" THEN s.status ELSE status
  BY <1>1 DEF Succeed, Calling, Effect
<1>3. CASE job = Onboard
  <2>1. There \subseteq There' \cup Away
    BY <1>1, <1>2, <1>3, CallOfOnboarding, StepKeeps
  <2>2. CASE mode = "running"
    <3>1. s = Plan[Onboard][product][pc] /\ pc \in DOMAIN Plan[Onboard][product]
          /\ s \in StepsOf(Plan[Onboard][product])
      BY <1>1, <1>2, <1>3, <2>2, CallOfOnboarding
    <3>2. Firm(s) => Done(s)'
      BY <1>2, <3>1, CallDoes DEF Firm, tenant
    <3>3. SoFar(pc)'
      BY <1>2, <1>3, <2>1, <2>2, <3>1, <3>2, NextStep
    <3>4. ProvisionedIsComplete'
      BY <1>2, <1>3, <2>1, <2>2, <3>1, CompleteNow
    <3>5. QED
      BY <1>2, <3>3, <3>4 DEF IInv, tenant
  <2>3. CASE mode # "running"
    <3>1. status' = "Provisioned" => status = "Provisioned"
      BY <1>1, <1>2, <1>3, <2>3, CallOfOnboarding
    <3>2. ProvisionedIsComplete'
      BY <1>2, <2>1, <3>1, CompleteKept DEF IInv
    <3>3. QED
      BY <1>2, <2>3, <3>2 DEF IInv, tenant
  <2>4. QED
    BY <2>2, <2>3
<1>4. CASE job # Onboard
  BY <1>2, <1>4 DEF IInv, tenant, ProvisionedIsComplete
<1>5. QED
  BY <1>3, <1>4
\* What goes wrong goes wrong after some of the resources.
LEMMA FaultKeeps ==
    ASSUME IInv, Fault, status' \in PerhapsWritten
    PROVE  /\ job = Onboard => There \subseteq There' \cup Away
           /\ ProvisionedIsComplete'
<1>1. PICK s : s = Call
  OBVIOUS
<1>2. /\ UNCHANGED <<tenant, job>> /\ AtStep
      /\ \E n \in 0 .. Len(s.on) : world' = World(s, n)
      /\ status' = status \/ status' = s.status
  BY <1>1 DEF Fault, Calling, Effect, PerhapsWritten
<1>3. CASE job = Onboard
  <2>1. There \subseteq There' \cup Away
    BY <1>1, <1>2, <1>3, StepKeeps
  <2>2. CASE mode = "running"
    <3>1. s = Plan[Onboard][product][pc] /\ pc \in DOMAIN Plan[Onboard][product]
      BY <1>1, <1>2, <1>3, <2>2, CallOfOnboarding
    <3>2. QED
      BY <1>2, <1>3, <2>1, <2>2, <3>1, CompleteNow
  <2>3. CASE mode # "running"
    <3>1. s.status # "Provisioned"
      BY <1>1, <1>2, <1>3, <2>3, CallOfOnboarding
    <3>2. QED
      BY <1>2, <1>3, <2>1, <3>1, CompleteKept
  <2>4. QED
    BY <2>1, <2>2, <2>3
<1>4. CASE job # Onboard
  BY <1>2, <1>4 DEF ProvisionedIsComplete
<1>5. QED
  BY <1>3, <1>4

\* An attempt that is repeated, or given up, says nothing of its step.
LEMMA Fails ==
    ASSUME IInv, WholeSteps(product), Repeat \/ GiveUp
    PROVE  IInv'
<1>1. /\ Fault /\ status' \in PerhapsWritten /\ UNCHANGED <<tenant, job>> /\ AtStep
  BY DEF Repeat, GiveUp, Fault, Calling
<1>2. ProvisionedIsComplete' /\ (job = Onboard => There \subseteq There' \cup Away)
  BY <1>1, FaultKeeps
<1>3. CASE UNCHANGED <<mode, pc>> /\ job = Onboard /\ mode = "running"
  <2>1. PICK n : n = pc
    OBVIOUS
  <2>2. SoFar(n)'
    BY <1>1, <1>2, <1>3, <2>1, SoFarKept DEF IInv
  <2>3. SoFar(pc)'
    BY <1>3, <2>1, <2>2
  <2>4. QED
    BY <1>1, <1>2, <1>3, <2>3 DEF IInv, tenant
<1>4. CASE /\ job = Onboard /\ mode = "running"
           /\ Call.quiet /\ mode' = mode /\ pc' = pc + 1
  <2>1. PICK s : s = Call
    OBVIOUS
  <2>2. /\ s = Plan[Onboard][product][pc] /\ s \in StepsOf(Plan[Onboard][product])
        /\ s.quiet
    BY <1>1, <1>4, <2>1, CallOfOnboarding
  <2>3. Firm(s) => Done(s)'
    BY <1>1, <2>2, QuietDoes DEF Firm, tenant
  <2>4. SoFar(pc)'
    BY <1>1, <1>2, <1>4, <2>2, <2>3, NextStep
  <2>5. QED
    BY <1>1, <1>2, <1>4, <2>4 DEF IInv, tenant
<1>5. CASE mode' # "running" /\ pc' \in Nat \ {0}
  BY <1>1, <1>2, <1>5 DEF IInv, tenant
<1>6. CASE /\ ~(job = Onboard /\ mode = "running") /\ mode' = mode
           /\ pc' = pc \/ pc' = pc + 1
  BY <1>1, <1>2, <1>6 DEF IInv, tenant
<1>7. QED
  BY <1>3, <1>4, <1>5, <1>6 DEF Repeat, GiveUp, Raise, IInv

\* What cannot but raise does nothing.
LEMMA Obstructs ==
    ASSUME IInv, WholeSteps(product), Obstruct
    PROVE  IInv'
<1>1. /\ UNCHANGED <<tenant, job, world, status>> /\ There' = There /\ AtStep
  BY DEF Obstruct, Calling, There
<1>2. ProvisionedIsComplete'
  BY <1>1, CompleteKept
<1>3. CASE /\ job = Onboard /\ mode = "running"
           /\ Call.quiet /\ mode' = mode /\ pc' = pc + 1
  <2>1. PICK s : s = Call
    OBVIOUS
  <2>2. /\ s = Plan[Onboard][product][pc] /\ s \in StepsOf(Plan[Onboard][product])
        /\ s.quiet
    BY <1>1, <1>3, <2>1, CallOfOnboarding
  <2>3. Firm(s) => Done(s)'
    BY <1>1, <2>2, QuietDoes DEF Firm, tenant
  <2>4. SoFar(pc)'
    BY <1>1, <1>3, <2>2, <2>3, NextStep
  <2>5. QED
    BY <1>1, <1>2, <1>3, <2>4 DEF IInv, tenant
<1>4. CASE mode' # "running" /\ pc' \in Nat \ {0}
  BY <1>1, <1>2, <1>4 DEF IInv, tenant
<1>5. CASE ~(job = Onboard /\ mode = "running") /\ mode' = mode /\ pc' = pc + 1
  BY <1>1, <1>2, <1>5 DEF IInv, tenant
<1>6. QED
  BY <1>3, <1>4, <1>5 DEF Obstruct, Raise, IInv
\* A row that two attempts have inserted is there.
LEMMA StaleBuilds ==
    ASSUME IInv, WholeSteps(product), StaleAttempt
    PROVE  IInv'
<1>1. PICK s : s = Call
  OBVIOUS
<1>2. /\ UNCHANGED <<tenant, job, mode, status>> /\ pc' = pc + 1 /\ AtStep
      /\ s.does = "lookup" /\ world' = World(s, 1)
  BY <1>1 DEF StaleAttempt, Calling
<1>3. There \subseteq There'
  BY <1>2, WorldKeeps DEF There
<1>4. ProvisionedIsComplete'
  BY <1>2, <1>3, CompleteKept
<1>5. CASE job = Onboard /\ mode = "running"
  <2>1. s = Plan[Onboard][product][pc] /\ s \in StepsOf(Plan[Onboard][product])
    BY <1>1, <1>2, <1>5, CallOfOnboarding
  <2>2. ASSUME Firm(s) PROVE Done(s)'
    <3>1. Sturdy(s) /\ Len(s.on) = 1
      BY <1>1, <1>2, <2>2, CallOfPlan DEF Firm, IInv
    <3>2. world' = World(s, Len(s.on))
      BY <1>2, <3>1
    <3>3. QED
      BY <1>2, <2>1, <3>1, <3>2, CallDoes DEF tenant
  <2>3. SoFar(pc)'
    BY <1>2, <1>3, <1>5, <2>1, <2>2, NextStep
  <2>4. QED
    BY <1>2, <1>4, <2>3 DEF IInv, tenant
<1>6. CASE ~(job = Onboard /\ mode = "running")
  BY <1>2, <1>4, <1>6 DEF IInv, tenant
<1>7. QED
  BY <1>5, <1>6

\* A replay and an end change nothing of the world.
LEMMA GoesOn ==
    ASSUME IInv, Replay \/ End
    PROVE  IInv'
<1>1. /\ UNCHANGED <<tenant, job, pc, world, status>> /\ There' = There
      /\ mode' = mode \/ mode' # "running"
  BY DEF Replay, End, There
<1>2. ProvisionedIsComplete'
  BY <1>1, CompleteKept
<1>3. CASE job = Onboard /\ mode = "running"
  <2>1. PICK n : n = pc
    OBVIOUS
  <2>2. SoFar(n)'
    BY <1>1, <1>3, <2>1, SoFarKept DEF IInv
  <2>3. SoFar(pc)'
    BY <1>1, <2>1, <2>2
  <2>4. QED
    BY <1>1, <1>2, <2>3 DEF IInv, tenant
<1>4. CASE ~(job = Onboard /\ mode = "running")
  BY <1>1, <1>2, <1>4 DEF IInv, tenant
<1>5. QED
  BY <1>3, <1>4

\* An onboarding starts with nothing done and is not shown as Provisioned; the
\* other workflows promise nothing here.
LEMMA Starts ==
    ASSUME IInv, Retry \/ Redeploy \/ Deprovision
    PROVE  IInv'
<1>1. /\ UNCHANGED tenant /\ pc' = 1
      /\ job' # Onboard \/ status' # "Provisioned"
      /\ job' \in Jobs
  BY DEF Retry, Redeploy, Deprovision, Start, Jobs, Onboard, Renew, Remove
<1>2. ProvisionedIsComplete'
  BY <1>1 DEF ProvisionedIsComplete
<1>3. SoFar(pc)'
  BY <1>1, OnboardingPlan DEF SoFar, IInv, tenant
<1>4. QED
  BY <1>1, <1>2, <1>3 DEF IInv, tenant

\* The tenant and its options stay what they are.
LEMMA SameTenant == [Next]_vars => UNCHANGED tenant
BY DEF Next, vars, LeaveOut, Succeed, Obstruct, Repeat, GiveUp, Fault, StaleAttempt, Replay,
       End, Retry, Redeploy, Deprovision, Start

\* Every step keeps the invariant.
LEMMA InvariantStep ==
    (WholeSteps(product) => IInv) /\ [Next]_vars => (WholeSteps(product) => IInv)'
<1> SUFFICES ASSUME WholeSteps(product) => IInv, [Next]_vars, WholeSteps(product)'
             PROVE  IInv'
  OBVIOUS
<1>1. WholeSteps(product) /\ IInv
  BY SameTenant DEF tenant, WholeSteps
<1>2. CASE UNCHANGED vars
  BY <1>1, <1>2 DEF vars, tenant, IInv, SoFar, ProvisionedIsComplete, Firm, Done, There
<1>3. CASE Next
  BY <1>1, <1>3, LeavesOut, Succeeds, Fails, Obstructs, StaleBuilds, GoesOn, Starts DEF Next
<1>4. QED
  BY <1>2, <1>3

\* It holds at the start.
LEMMA InvariantInit == Init => IInv
<1> SUFFICES ASSUME Init PROVE IInv
  OBVIOUS
<1>1. product \in Products /\ job \in Jobs /\ pc = 1
  BY DEF Init, Jobs
<1>2. SoFar(pc)
  BY <1>1, OnboardingPlan DEF SoFar
<1>3. ProvisionedIsComplete
  BY DEF Init, ProvisionedIsComplete
<1>4. QED
  BY <1>1, <1>2, <1>3 DEF IInv

(* However often the tenant is onboarded, renewed and torn down, and        *)
(* whatever goes wrong on the way: an onboarding whose operations create    *)
(* nothing behind what they look for and catch none of their errors (but    *)
(* for the resources of KnownHalf) shows the tenant as Provisioned only     *)
(* when everything else is there that it builds before it says so.          *)
THEOREM ShownIsComplete == Spec => [](WholeSteps(product) => ProvisionedIsComplete)
<1>1. Init => (WholeSteps(product) => IInv)
  BY InvariantInit
<1>2. (WholeSteps(product) => IInv) => (WholeSteps(product) => ProvisionedIsComplete)
  BY DEF IInv
<1>3. QED
  BY <1>1, <1>2, InvariantStep, PTL DEF Spec
-----------------------------------------------------------------------------
(* The teardown                                                            *)

\* The teardown has taken away what its steps before the n-th one surely do.
TornTo(n) ==
    \A k \in DOMAIN Plan[Remove][product] :
        k < n /\ Sure(Plan[Remove][product][k]) => Whole(Plan[Remove][product][k]) \cap There = {}

TInv ==
    /\ product \in Products /\ job \in Jobs /\ pc \in Nat \ {0}
    /\ There \subseteq Standing[product] \cup Buildable(product)
    /\ job = Remove /\ mode = "running" => TornTo(pc)
    /\ job = Remove /\ mode = "ended" => Cleared(Plan[Remove][product]) \cap There = {}

\* What a step has reached is all that it adds.
LEMMA WorldAdds ==
    ASSUME NEW s, NEW n
    PROVE  DOMAIN World(s, n) \subseteq There \cup (IF s.does \in Builds THEN Reached(s, n) ELSE {})
BY DEF World, Upsert, Create, AddTo, There, Builds

\* A call adds something the product's workflows build; one of the teardown
\* nothing that the teardown surely takes away.
LEMMA StepAdds ==
    ASSUME TInv, ClearsAll(product), UNCHANGED <<tenant, job>>, AtStep,
           NEW n \in 0 .. Len(Call.on), world' = World(Call, n)
    PROVE  /\ There' \subseteq Standing[product] \cup Buildable(product)
           /\ job = Remove /\ mode = "running" =>
                There' \cap Cleared(Plan[Remove][product]) \subseteq There
<1>1. PICK s : s = Call
  OBVIOUS
<1>2. product \in Products /\ job \in Jobs /\ pc \in Nat \ {0}
  BY DEF TInv
<1>3. /\ Len(s.on) \in Nat
      /\ mode = "running" =>
            s = Plan[job][product][pc] /\ pc \in DOMAIN Plan[job][product]
      /\ mode # "running" =>
            s = Handler[job][product][pc] /\ pc \in DOMAIN Handler[job][product]
  BY <1>1, <1>2, CallOfPlan
<1>4. Reached(s, n) \subseteq Whole(s)
  BY <1>1, <1>3, PartOfWhole
<1>5. There' \subseteq There \cup (IF s.does \in Builds THEN Whole(s) ELSE {})
  BY <1>1, <1>4, WorldAdds DEF There
<1>6. s.does \in Builds => Whole(s) \subseteq Buildable(product)
  <2>1. s.does \in Builds => Whole(s) \subseteq Built(Plan[job][product]) \cup Built(Handler[job][product])
    BY <1>3 DEF Built, StepsOf
  <2>2. QED
    BY <1>2, <2>1 DEF Buildable
<1>7. s.does \in Builds /\ job = Remove /\ mode = "running" =>
        Whole(s) \cap Cleared(Plan[Remove][product]) = {}
  <2>1. s.does \in Builds /\ job = Remove /\ mode = "running" =>
            Whole(s) \subseteq Built(Plan[Remove][product])
    BY <1>3 DEF Built, StepsOf
  <2>2. QED
    BY <2>1 DEF ClearsAll
<1>8. QED
  BY <1>5, <1>6, <1>7 DEF TInv

\* What is torn down stays so for the rest of the teardown.
LEMMA TornKept ==
    ASSUME UNCHANGED tenant, NEW n, TornTo(n),
           There' \cap Cleared(Plan[Remove][product]) \subseteq There
    PROVE  TornTo(n)'
<1>1. product' = product
  BY DEF tenant
<1>2. ASSUME NEW k \in DOMAIN Plan[Remove][product], k < n, NEW s,
             s = Plan[Remove][product][k], Sure(s)
      PROVE  Whole(s) \cap There' = {}
  <2>1. Whole(s) \cap There = {}
    BY <1>2 DEF TornTo
  <2>2. Whole(s) \subseteq Cleared(Plan[Remove][product])
    BY <1>2 DEF Cleared, StepsOf
  <2>3. QED
    BY <2>1, <2>2
<1>3. QED
  BY <1>1, <1>2 DEF TornTo

\* A step further.
LEMMA TornFurther ==
    ASSUME UNCHANGED tenant, NEW n \in Nat, TornTo(n), product \in Products,
           There' \cap Cleared(Plan[Remove][product]) \subseteq There,
           NEW s, s = Plan[Remove][product][n], Sure(s) => Whole(s) \cap There' = {}
    PROVE  TornTo(n + 1)'
<1>1. product' = product
  BY DEF tenant
<1>2. TornTo(n)'
  BY TornKept
<1>3. \A k \in DOMAIN Plan[Remove][product] : k \in Nat
  BY PlanAssumption DEF Jobs
<1>4. QED
  BY <1>1, <1>2, <1>3 DEF TornTo
\* A call that has reached all it should, as far as it is sure, or that is not
\* made and is not sure.
LEMMA TornStep ==
    ASSUME TInv, ClearsAll(product), UNCHANGED <<tenant, job, mode>>, AtStep, pc' = pc + 1,
           \/ world' = world /\ ~Sure(Call)
           \/ \E n \in 0 .. Len(Call.on) :
                world' = World(Call, n) /\ (Sure(Call) => n = Len(Call.on))
    PROVE  TInv'
<1>1. PICK s : s = Call
  OBVIOUS
<1>2. product \in Products /\ job \in Jobs /\ pc \in Nat \ {0}
  BY DEF TInv
<1>3. /\ There' \subseteq Standing[product] \cup Buildable(product)
      /\ job = Remove /\ mode = "running" =>
            There' \cap Cleared(Plan[Remove][product]) \subseteq There
  BY StepAdds DEF TInv, There
<1>4. Sure(s) => Whole(s) \cap There' = {}
  <2>1. CASE Sure(s)
    <3>1. world' = World(s, Len(s.on)) /\ s.does = "delete"
      BY <1>1, <2>1 DEF Sure
    <3>2. There' \subseteq There \ Reached(s, Len(s.on))
      BY <3>1 DEF World, There
    <3>3. QED
      BY <3>2 DEF Whole
  <2>2. QED
    BY <2>1
<1>5. job = Remove /\ mode = "running" => TornTo(pc)'
  <2>1. SUFFICES ASSUME job = Remove, mode = "running" PROVE TornTo(pc)'
    OBVIOUS
  <2>2. PICK n \in Nat : n = pc
    BY <1>2
  <2>3. s = Plan[Remove][product][n]
    BY <1>1, <1>2, <2>1, <2>2, CallOfPlan
  <2>4. TornTo(n + 1)'
    BY <1>2, <1>3, <1>4, <2>1, <2>2, <2>3, TornFurther DEF TInv
  <2>5. QED
    BY <2>2, <2>4
<1>6. mode # "ended"
  BY DEF AtStep, Busy
<1>7. QED
  BY <1>2, <1>3, <1>5, <1>6 DEF TInv, tenant

\* A workflow that is given up is not at its end.
LEMMA TornRaise ==
    ASSUME TInv, ClearsAll(product), UNCHANGED <<tenant, job>>, AtStep, Raise,
           \/ world' = world
           \/ \E n \in 0 .. Len(Call.on) : world' = World(Call, n)
    PROVE  TInv'
<1>1. There' \subseteq Standing[product] \cup Buildable(product)
  BY StepAdds DEF TInv, There
<1>2. mode' \in {"failing", "failed"} /\ pc' \in Nat \ {0}
  BY DEF Raise, TInv
<1>3. QED
  BY <1>1, <1>2 DEF TInv, tenant

\* An attempt that is to be repeated.
LEMMA TornRepeat ==
    ASSUME TInv, ClearsAll(product), Repeat
    PROVE  TInv'
<1>1. /\ UNCHANGED <<tenant, job, mode, pc>> /\ AtStep
      /\ \E n \in 0 .. Len(Call.on) : world' = World(Call, n)
  BY DEF Repeat, Fault, Calling, Effect
<1>2. /\ There' \subseteq Standing[product] \cup Buildable(product)
      /\ job = Remove /\ mode = "running" =>
            There' \cap Cleared(Plan[Remove][product]) \subseteq There
  BY <1>1, StepAdds
<1>3. job = Remove /\ mode = "running" => TornTo(pc)'
  <2>1. PICK n : n = pc
    OBVIOUS
  <2>2. job = Remove /\ mode = "running" => TornTo(n)'
    BY <1>1, <1>2, <2>1, TornKept DEF TInv
  <2>3. QED
    BY <1>1, <2>1, <2>2
<1>4. mode # "ended"
  BY <1>1 DEF AtStep, Busy
<1>5. QED
  BY <1>1, <1>2, <1>3, <1>4 DEF TInv, tenant

\* The end of a teardown.
LEMMA TornEnd ==
    ASSUME TInv, ClearsAll(product), End
    PROVE  TInv'
<1>1. /\ UNCHANGED <<tenant, job, pc, world>> /\ There' = There /\ pc > Len(Script)
      /\ mode' \in {"ended", "failed"} /\ (mode' = "ended" => mode = "running")
  BY DEF End, There
<1>2. job = Remove /\ mode' = "ended" => Cleared(Plan[Remove][product]) \cap There = {}
  <2>1. SUFFICES ASSUME job = Remove, mode' = "ended"
                 PROVE  Cleared(Plan[Remove][product]) \cap There = {}
    OBVIOUS
  <2>2. TornTo(pc) /\ Script = Plan[Remove][product] /\ pc > Len(Plan[Remove][product])
    BY <1>1, <2>1 DEF TInv, Script
  <2>3. \A k \in DOMAIN Plan[Remove][product] : k < pc
    BY <2>2, PlanAssumption DEF TInv, Jobs
  <2>4. QED
    BY <2>2, <2>3 DEF TornTo, Cleared, StepsOf
<1>3. QED
  BY <1>1, <1>2 DEF TInv, tenant
\* Every step keeps the invariant of the teardown.
LEMMA TornNext ==
    ASSUME TInv, ClearsAll(product), Next
    PROVE  TInv'
<1>1. CASE LeaveOut
  <2>1. UNCHANGED <<tenant, job, mode, world>> /\ pc' = pc + 1 /\ AtStep /\ LeftOut(Call)
    BY <1>1 DEF LeaveOut
  <2>2. ~Sure(Call)
    BY <2>1 DEF LeftOut, Sure
  <2>3. QED
    BY <2>1, <2>2, TornStep
<1>2. CASE Succeed
  <2>1. UNCHANGED <<tenant, job, mode>> /\ pc' = pc + 1 /\ AtStep
        /\ world' = World(Call, Len(Call.on))
    BY <1>2 DEF Succeed, Calling, Effect
  <2>2. Len(Call.on) \in 0 .. Len(Call.on)
    BY <2>1, CallOfPlan DEF TInv
  <2>3. QED
    BY <2>1, <2>2, TornStep
<1>3. CASE Obstruct
  <2>1. UNCHANGED <<tenant, job, world>> /\ AtStep
        /\ (Raise \/ (Call.quiet /\ mode' = mode /\ pc' = pc + 1))
    BY <1>3 DEF Obstruct, Calling
  <2>2. QED
    BY <2>1, TornRaise, TornStep DEF Sure
<1>4. CASE Repeat
  BY <1>4, TornRepeat
<1>5. CASE GiveUp
  <2>1. UNCHANGED <<tenant, job>> /\ AtStep
        /\ (\E n \in 0 .. Len(Call.on) : world' = World(Call, n))
        /\ (Raise \/ (Call.quiet /\ mode' = mode /\ pc' = pc + 1))
    BY <1>5 DEF GiveUp, Fault, Calling, Effect
  <2>2. QED
    BY <2>1, TornRaise, TornStep DEF Sure
<1>6. CASE StaleAttempt
  <2>1. UNCHANGED <<tenant, job, mode>> /\ pc' = pc + 1 /\ AtStep
        /\ Call.does = "lookup" /\ world' = World(Call, 1)
    BY <1>6 DEF StaleAttempt, Calling
  <2>2. Len(Call.on) = 1
    BY <2>1, CallOfPlan DEF TInv
  <2>3. 1 \in 0 .. Len(Call.on)
    BY <2>2
  <2>4. ~Sure(Call)
    BY <2>1 DEF Sure
  <2>5. QED
    BY <2>1, <2>3, <2>4, TornStep
<1>7. CASE Replay
  BY <1>7 DEF Replay, TInv, TornTo, There, tenant
<1>8. CASE End
  BY <1>8, TornEnd
<1>9. CASE Retry \/ Redeploy \/ Deprovision
  <2>1. UNCHANGED <<tenant, world>> /\ pc' = 1 /\ job' \in Jobs /\ mode' = "running"
    BY <1>9 DEF Retry, Redeploy, Deprovision, Start, Jobs
  <2>2. TornTo(pc)'
    BY <2>1, PlanAssumption DEF TornTo, TInv, Jobs, tenant
  <2>3. QED
    BY <2>1, <2>2 DEF TInv, tenant, There
<1>10. QED
  BY <1>1, <1>2, <1>3, <1>4, <1>5, <1>6, <1>7, <1>8, <1>9 DEF Next

LEMMA TornInvariant ==
    (ClearsAll(product) => TInv) /\ [Next]_vars => (ClearsAll(product) => TInv)'
<1> SUFFICES ASSUME ClearsAll(product) => TInv, [Next]_vars, ClearsAll(product)'
             PROVE  TInv'
  OBVIOUS
<1>1. ClearsAll(product) /\ TInv
  BY SameTenant DEF tenant, ClearsAll
<1>2. CASE UNCHANGED vars
  BY <1>1, <1>2 DEF vars, tenant, TInv, TornTo, There
<1>3. QED
  BY <1>1, <1>2, TornNext

LEMMA TornInit == Init => TInv
<1> SUFFICES ASSUME Init PROVE TInv
  OBVIOUS
<1>1. There \subseteq Standing[product] \cup Buildable(product)
  BY DEF Init, There
<1>2. QED
  BY <1>1 DEF Init, TInv, Jobs, Onboard, Remove

(* A teardown that has come to its end has left nothing that serves the     *)
(* tenant, whatever the tenant's earlier workflows have built, where they   *)
(* were cut short, and whatever its own calls have come to: if it surely    *)
(* deletes what any of them builds.                                         *)
THEOREM TornDownIsComplete == Spec => [](ClearsAll(product) => TeardownIsComplete)
<1>1. Init => (ClearsAll(product) => TInv)
  BY TornInit
<1>2. (ClearsAll(product) => TInv) => (ClearsAll(product) => TeardownIsComplete)
  BY DEF TInv, ClearsAll, TeardownIsComplete
<1>3. QED
  BY <1>1, <1>2, TornInvariant, PTL DEF Spec
=============================================================================
