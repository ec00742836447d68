---------------------- MODULE ProvisioningSafetyProofs ----------------------
(***************************************************************************)
(* More proofs about Provisioning, for every plan, every number of runs    *)
(* and of troubles: types, what is created once, what is never taken away, *)
(* keys that are not lost, calls that cannot but raise, the status of a    *)
(* teardown that has failed and secrets that agree.  Each is a theorem     *)
(* about the products whose plans have a property of their own, stated in  *)
(* Provisioning beside the safety property; TLC evaluates it for the plans *)
(* in the code.                                                            *)
(***************************************************************************)
EXTENDS ProvisioningProofs

-----------------------------------------------------------------------------
(* Types                                                                   *)

Credentials == STRING \X Nat

\* The workflow that runs is one of the product's, its next call one of its
\* steps.
LEMMA CallInScript ==
    ASSUME TypeOK, AtStep
    PROVE  /\ Script \in {Plan[job][product], Handler[job][product]}
           /\ Script \in Scripts(product) /\ job \in Jobs
           /\ Len(Script) \in Nat /\ DOMAIN Script = 1 .. Len(Script)
           /\ pc \in DOMAIN Script /\ Call = Script[pc] /\ Call \in StepsOf(Script)
           /\ Call \in AllSteps(product)
           /\ Len(Call.on) \in Nat /\ (Call.does = "lookup" => Len(Call.on) = 1)
           /\ Call.carries \subseteq STRING
           /\ Call.does = "status" => Call.status \in Statuses
<1>1. product \in Products /\ job \in Jobs /\ pc \in Nat \ {0}
  BY DEF TypeOK
<1>2. Script \in {Plan[job][product], Handler[job][product]}
  BY DEF Script
<1>3. Script \in Scripts(product)
  BY <1>1, <1>2 DEF Scripts
<1>4. Len(Script) \in Nat /\ DOMAIN Script = 1 .. Len(Script)
  BY <1>1, <1>2, PlanAssumption
<1>5. pc \in DOMAIN Script /\ Call = Script[pc]
  BY <1>1, <1>4 DEF AtStep, Call
<1>6. Call \in StepsOf(Script)
  BY <1>5 DEF StepsOf
<1>7. Call \in AllSteps(product)
  BY <1>3, <1>6 DEF AllSteps
<1>8. Len(Call.on) \in Nat /\ (Call.does = "lookup" => Len(Call.on) = 1)
  BY <1>1, <1>2, <1>6, PlanAssumption
<1>9. Call.carries \subseteq STRING /\ (Call.does = "status" => Call.status \in Statuses)
  BY <1>1, <1>7, StepAssumption
<1>10. QED
  BY <1>1, <1>2, <1>3, <1>4, <1>5, <1>6, <1>7, <1>8, <1>9

\* What the workflow passes as a secret is a version.
LEMMA ValueType == ASSUME TypeOK, NEW x PROVE Value(x) \in Nat
BY DEF TypeOK, Value

LEMMA WrittenType ==
    ASSUME TypeOK, NEW s, s.carries \subseteq STRING
    PROVE  Written(s) \subseteq Credentials
<1>1. CASE s.does = "issue"
  <2>1. Written(s) = {<<x, version>> : x \in s.carries}
    BY <1>1 DEF Written
  <2>2. version \in Nat
    BY DEF TypeOK
  <2>3. QED
    BY <2>1, <2>2 DEF Credentials
<1>2. CASE s.does # "issue" /\ s.sources = {}
  <2>1. Written(s) = {<<x, Value(x)>> : x \in s.carries}
    BY <1>2 DEF Written
  <2>2. QED
    BY <2>1, ValueType DEF Credentials
<1>3. CASE s.does # "issue" /\ s.sources # {}
  <2>1. Written(s) \subseteq UNION {world[q] : q \in s.sources \cap There}
    BY <1>3 DEF Written
  <2>2. \A q \in There : world[q] \subseteq Credentials
    BY DEF TypeOK, Credentials
  <2>3. QED
    BY <2>1, <2>2
<1>4. QED
  BY <1>1, <1>2, <1>3

\* The world an attempt leaves: nothing holds more than what it held and what
\* the attempt writes.
LEMMA WorldHolds ==
    ASSUME NEW s, NEW n
    PROVE  \A q \in DOMAIN World(s, n) : \A v \in World(s, n)[q] :
              \/ q \in There /\ v \in world[q]
              \/ /\ s.does \in Builds /\ q \in Reached(s, n) /\ v \in Written(s)
                 /\ s.does \in {"ensure", "issue"} => q \notin There
<1>1. CASE s.does = "put"
  BY <1>1 DEF World, Upsert, There, Builds
<1>2. CASE s.does \in {"ensure", "insert", "lookup", "issue"}
  <2>1. World(s, n) = Create(s, n)
    BY <1>2 DEF World
  <2>2. QED
    BY <1>2, <2>1 DEF Create, There, Builds
<1>3. CASE s.does = "once"
  <2>1. World(s, n) = IF Found(s) THEN world ELSE Create(s, n)
    BY <1>3 DEF World
  <2>2. QED
    BY <1>3, <2>1 DEF Create, There, Builds
<1>4. CASE s.does = "keyed"
  <2>1. World(s, n) = AddTo(s, n)
    BY <1>4 DEF World
  <2>2. QED
    BY <1>4, <2>1 DEF AddTo, There, Builds
<1>5. CASE s.does = "delete"
  <2>1. World(s, n) = [q \in There \ Reached(s, n) |-> world[q]]
    BY <1>5 DEF World
  <2>2. QED
    BY <1>5, <2>1 DEF There
<1>6. CASE s.does \notin {"put", "ensure", "insert", "lookup", "issue", "once", "keyed", "delete"}
  <2>1. World(s, n) = world
    BY <1>6 DEF World
  <2>2. QED
    BY <1>6, <2>1 DEF There
<1>7. QED
  BY <1>1, <1>2, <1>3, <1>4, <1>5, <1>6

LEMMA WorldIsFunction ==
    ASSUME TypeOK, NEW s, NEW n
    PROVE  World(s, n) = [q \in DOMAIN World(s, n) |-> World(s, n)[q]]
<1>1. world = [q \in There |-> world[q]]
  BY DEF TypeOK
<1>2. QED
  BY <1>1 DEF World, Upsert, Create, AddTo, There

LEMMA WorldType ==
    ASSUME TypeOK, NEW s, s.carries \subseteq STRING, NEW n, world' = World(s, n)
    PROVE  world' \in [There' -> SUBSET Credentials]
<1>1. world' = [q \in There' |-> world'[q]]
  BY WorldIsFunction DEF There
<1>2. Written(s) \subseteq Credentials
  BY WrittenType
<1>3. \A q \in There : world[q] \subseteq Credentials
  BY DEF TypeOK, Credentials
<1>4. \A q \in There' : \A v \in world'[q] : v \in Credentials
  BY <1>2, <1>3, WorldHolds DEF There
<1>5. QED
  BY <1>1, <1>4

\* What is there more than once is there.
LEMMA TwiceType ==
    ASSUME TypeOK, NEW s, NEW n, world' = World(s, n), twice' = Twice(s, n)
    PROVE  twice' \subseteq There'
<1>1. twice \subseteq There
  BY DEF TypeOK
<1>2. CASE s.does = "delete"
  BY <1>1, <1>2, WorldDeletes DEF Twice, There
<1>3. CASE s.does # "delete"
  <2>1. There \subseteq There'
    BY <1>3, WorldKeeps DEF There
  <2>2. twice' = twice \cup Again(s, n) /\ Again(s, n) \subseteq There
    BY <1>3 DEF Twice, Again
  <2>3. QED
    BY <1>1, <2>1, <2>2
<1>4. QED
  BY <1>2, <1>3

\* The answer of a call is of credentials, and the memory keeps versions.
LEMMA MemoType ==
    ASSUME TypeOK, NEW s, s.carries \subseteq STRING
    PROVE  Memo(s) \in [DOMAIN Memo(s) -> Nat]
<1> DEFINE new == Answer(s)
           mem == DOMAIN memo \cup {v[1] : v \in new}
           val(x) == IF \E v \in new : v[1] = x THEN (CHOOSE v \in new : v[1] = x)[2] ELSE memo[x]
<1>1. version \in Nat /\ memo \in [DOMAIN memo -> Nat]
      /\ \A q \in There : world[q] \subseteq Credentials
  BY DEF TypeOK, Credentials
<1>2. new \subseteq Credentials
  <2>1. CASE s.does = "make"
    BY <1>1, <2>1 DEF Answer, Credentials
  <2>2. CASE s.does = "fetch"
    BY <1>1, <2>2 DEF Answer, Held
  <2>3. CASE s.does = "issue"
    <3>1. new \subseteq {<<x, version>> : x \in s.carries}
      BY <2>3 DEF Answer
    <3>2. QED
      BY <1>1, <3>1 DEF Credentials
  <2>4. CASE s.does \notin {"make", "fetch", "issue"}
    BY <2>4 DEF Answer
  <2>5. QED
    BY <2>1, <2>2, <2>3, <2>4
<1>3. ASSUME NEW x \in mem PROVE val(x) \in Nat
  <2>1. CASE \E v \in new : v[1] = x
    <3>1. PICK w : w = CHOOSE v \in new : v[1] = x
      OBVIOUS
    <3>2. w \in new
      BY <2>1, <3>1
    <3>3. w[2] \in Nat
      BY <1>2, <3>2 DEF Credentials
    <3>4. QED
      BY <2>1, <3>1, <3>3
  <2>2. CASE ~ \E v \in new : v[1] = x
    <3>1. x \in DOMAIN memo
      BY <1>3, <2>2
    <3>2. QED
      BY <1>1, <2>2, <3>1
  <2>3. QED
    BY <2>1, <2>2
<1>4. Memo(s) = [x \in mem |-> val(x)]
  BY DEF Memo
<1> HIDE DEF mem, val
<1>5. QED
  BY <1>3, <1>4

LEMMA UnknownType == ASSUME NEW p PROVE Unknown(p) \in [DOMAIN Unknown(p) -> Nat]
BY DEF Unknown

\* A call that goes wrong.
LEMMA FaultType ==
    ASSUME TypeOK, Fault, status' \in PerhapsWritten
    PROVE  /\ world' \in [There' -> SUBSET Credentials] /\ twice' \subseteq There'
           /\ status' \in Statuses /\ faults' \in Nat /\ faults' + replays' <= MaxTroubles
           /\ UNCHANGED <<tenant, job, memo, version, runs, replays>>
<1>1. AtStep /\ faults' = faults + 1 /\ UNCHANGED <<tenant, job, memo, version, runs, replays>>
  BY DEF Fault, Calling
<1>2. PICK n \in 0 .. Len(Call.on) : world' = World(Call, n) /\ twice' = Twice(Call, n)
  BY DEF Fault, Effect
<1>3. Call.carries \subseteq STRING /\ (Call.does = "status" => Call.status \in Statuses)
  BY <1>1, CallInScript
<1>4. world' \in [There' -> SUBSET Credentials] /\ twice' \subseteq There'
  BY <1>2, <1>3, WorldType, TwiceType
<1>5. status' \in Statuses
  BY <1>3 DEF PerhapsWritten, TypeOK
<1>6. faults' \in Nat /\ faults' + replays' <= MaxTroubles
  BY <1>1, BoundsAssumption DEF Fault, TypeOK
<1>7. QED
  BY <1>1, <1>4, <1>5, <1>6

LEMMA TypeStep == TypeOK /\ [Next]_vars => TypeOK'
<1> SUFFICES ASSUME TypeOK, [Next]_vars PROVE TypeOK'
  OBVIOUS
<1> USE DEF Credentials
<1>1. CASE UNCHANGED vars
  BY <1>1 DEF vars, tenant, TypeOK, There
<1>2. CASE LeaveOut
  BY <1>2 DEF LeaveOut, tenant, TypeOK, There
<1>3. CASE Succeed
  <2>1. /\ AtStep /\ world' = World(Call, Len(Call.on)) /\ twice' = Twice(Call, Len(Call.on))
        /\ memo' = Memo(Call)
    BY <1>3 DEF Succeed, Calling, Effect
  <2>2. Call.carries \subseteq STRING /\ (Call.does = "status" => Call.status \in Statuses)
    BY <2>1, CallInScript
  <2>3. world' \in [There' -> SUBSET Credentials] /\ twice' \subseteq There'
    BY <2>1, <2>2, WorldType, TwiceType
  <2>4. memo' \in [DOMAIN memo' -> Nat]
    BY <2>1, <2>2, MemoType
  <2>5. status' \in Statuses /\ pc' \in Nat \ {0}
    BY <1>3, <2>2 DEF Succeed, TypeOK
  <2>6. UNCHANGED <<tenant, job, mode, version, runs, faults, replays>>
    BY <1>3 DEF Succeed
  <2>7. QED
    BY <2>3, <2>4, <2>5, <2>6 DEF TypeOK, tenant
<1>4. CASE Obstruct
  <2>1. mode' \in {"running", "failing", "ended", "failed"} /\ pc' \in Nat \ {0}
    BY <1>4 DEF Obstruct, Raise, TypeOK
  <2>2. UNCHANGED <<tenant, job, memo, version, world, twice, status, runs, faults, replays>>
    BY <1>4 DEF Obstruct
  <2>3. QED
    BY <2>1, <2>2 DEF TypeOK, tenant, There
<1>5. CASE Repeat
  <2>1. Fault /\ status' \in PerhapsWritten /\ UNCHANGED <<mode, pc>>
    BY <1>5 DEF Repeat
  <2>2. QED
    BY <2>1, FaultType DEF TypeOK, tenant
<1>6. CASE GiveUp
  <2>1. Fault /\ status' \in PerhapsWritten
    BY <1>6 DEF GiveUp
  <2>2. mode' \in {"running", "failing", "ended", "failed"} /\ pc' \in Nat \ {0}
    BY <1>6 DEF GiveUp, Raise, TypeOK
  <2>3. QED
    BY <2>1, <2>2, FaultType DEF TypeOK, tenant
<1>7. CASE StaleAttempt
  <2>1. /\ AtStep /\ Call.does = "lookup" /\ world' = World(Call, 1)
        /\ twice' = twice \cup Reached(Call, 1) /\ faults' = faults + 1 /\ pc' = pc + 1
        /\ faults + replays < MaxTroubles
        /\ UNCHANGED <<tenant, job, mode, memo, version, status, runs, replays>>
    BY <1>7 DEF StaleAttempt, Calling
  <2>2. Call.carries \subseteq STRING
    BY <2>1, CallInScript
  <2>3. world' \in [There' -> SUBSET Credentials]
    BY <2>1, <2>2, WorldType
  <2>4. There \subseteq There' /\ Reached(Call, 1) \subseteq There'
    BY <2>1, WorldKeeps, WorldBuilds DEF There, Builds, Found
  <2>5. faults' \in Nat /\ faults' + replays' <= MaxTroubles
    BY <2>1, BoundsAssumption DEF TypeOK
  <2>6. QED
    BY <2>1, <2>3, <2>4, <2>5 DEF TypeOK, tenant
<1>8. CASE Replay
  BY <1>8, BoundsAssumption DEF Replay, TypeOK, tenant, There
<1>9. CASE End
  BY <1>9 DEF End, TypeOK, tenant, There
<1>10. CASE Retry \/ Redeploy \/ Deprovision
  <2>1. /\ job' \in Jobs /\ mode' = "running" /\ pc' = 1 /\ memo' = Unknown(product)
        /\ version' = version + 1 /\ runs < MaxRuns /\ runs' = runs + 1
        /\ status' \in Statuses
        /\ UNCHANGED <<tenant, world, twice, faults, replays>>
    BY <1>10 DEF Retry, Redeploy, Deprovision, Start, Jobs, Statuses, TypeOK
  <2>2. memo' \in [DOMAIN memo' -> Nat]
    BY <2>1, UnknownType
  <2>3. runs' \in 1 .. MaxRuns
    BY <2>1, BoundsAssumption DEF TypeOK
  <2>4. QED
    BY <2>1, <2>2, <2>3 DEF TypeOK, tenant, There
<1>11. QED
  BY <1>1, <1>2, <1>3, <1>4, <1>5, <1>6, <1>7, <1>8, <1>9, <1>10 DEF Next

(* The tenant, the workflow, what it knows and the world keep their types,  *)
(* for any plans of well-formed steps, any bounds.                          *)
THEOREM TypeCorrect == Spec => []TypeOK
<1>1. Init => TypeOK
  <2> SUFFICES ASSUME Init PROVE TypeOK
    OBVIOUS
  <2>1. memo \in [DOMAIN memo -> Nat]
    BY UnknownType DEF Init
  <2>2. world \in [There -> SUBSET (STRING \X Nat)] /\ twice \subseteq There
    BY DEF Init, There
  <2>3. runs \in 1 .. MaxRuns /\ faults + replays <= MaxTroubles
    BY BoundsAssumption DEF Init
  <2>4. QED
    BY <2>1, <2>2, <2>3 DEF Init, TypeOK, Jobs, Statuses
<1>2. QED
  BY <1>1, TypeStep, PTL DEF Spec

-----------------------------------------------------------------------------
(* What a step does to the world                                           *)

\* The world changes by calls only, each as far as it got.
LEMMA StepsOfWorld ==
    ASSUME TypeOK, [Next]_vars
    PROVE  \/ UNCHANGED <<world, twice>>
           \/ /\ AtStep /\ ~LeftOut(Call)
              /\ \E n \in 0 .. Len(Call.on) :
                    /\ world' = World(Call, n)
                    /\ \/ twice' = Twice(Call, n)
                       \/ Call.does = "lookup" /\ twice' = twice \cup Reached(Call, n)
<1>1. CASE Succeed
  <2>1. AtStep /\ ~LeftOut(Call) /\ Effect(Call, Len(Call.on))
    BY <1>1 DEF Succeed, Calling
  <2>2. Len(Call.on) \in 0 .. Len(Call.on)
    BY <2>1, CallInScript
  <2>3. QED
    BY <2>1, <2>2 DEF Effect
<1>2. CASE Repeat \/ GiveUp
  BY <1>2 DEF Repeat, GiveUp, Fault, Calling, Effect
<1>3. CASE StaleAttempt
  <2>1. /\ AtStep /\ ~LeftOut(Call) /\ Call.does = "lookup" /\ world' = World(Call, 1)
        /\ twice' = twice \cup Reached(Call, 1)
    BY <1>3 DEF StaleAttempt, Calling
  <2>2. Len(Call.on) = 1
    BY <2>1, CallInScript
  <2>3. 1 \in 0 .. Len(Call.on)
    BY <2>2
  <2>4. QED
    BY <2>1, <2>3
<1>4. CASE UNCHANGED vars \/ LeaveOut \/ Obstruct \/ Replay \/ End \/ Retry \/ Redeploy \/ Deprovision
  BY <1>4 DEF vars, LeaveOut, Obstruct, Replay, End, Retry, Redeploy, Deprovision, Start
<1>5. QED
  BY <1>1, <1>2, <1>3, <1>4 DEF Next

\* A workflow takes away what its deletions name, and makes what its other
\* steps name.
LEMMA StepsTake ==
    ASSUME TypeOK, [Next]_vars
    PROVE  /\ There \subseteq There' \cup TakenAway(product)
           /\ There' \subseteq There \cup Buildable(product)
<1>1. CASE UNCHANGED world
  BY <1>1 DEF There
<1>2. CASE AtStep /\ \E n \in 0 .. Len(Call.on) : world' = World(Call, n)
  <2>1. PICK n \in 0 .. Len(Call.on) : world' = World(Call, n)
    BY <1>2
  <2>2. PICK s : s = Call
    OBVIOUS
  <2>3. /\ s \in StepsOf(Script) /\ Len(s.on) \in Nat /\ Script \in Scripts(product)
        /\ Script \in {Plan[job][product], Handler[job][product]} /\ job \in Jobs
    BY <1>2, <2>2, CallInScript
  <2>4. Reached(s, n) \subseteq Whole(s)
    BY <2>2, <2>3, PartOfWhole
  <2>5. CASE s.does = "delete"
    <3>1. Whole(s) \subseteq Deleted(Script)
      BY <2>3, <2>5 DEF Deleted
    <3>2. Whole(s) \subseteq TakenAway(product)
      BY <2>3, <3>1 DEF TakenAway
    <3>3. There \ Reached(s, n) \subseteq There' /\ There' \subseteq There
      BY <2>1, <2>2, <2>5, WorldDeletes, WorldAdds DEF There, Builds
    <3>4. QED
      BY <2>4, <3>2, <3>3
  <2>6. CASE s.does # "delete"
    <3>1. There \subseteq There'
      BY <2>1, <2>2, <2>6, WorldKeeps DEF There
    <3>2. There' \subseteq There \cup (IF s.does \in Builds THEN Whole(s) ELSE {})
      BY <2>1, <2>2, <2>4, WorldAdds DEF There
    <3>3. s.does \in Builds => Whole(s) \subseteq Built(Script)
      BY <2>3 DEF Built
    <3>4. Built(Script) \subseteq Buildable(product)
      BY <2>3 DEF Buildable
    <3>5. QED
      BY <3>1, <3>2, <3>3, <3>4
  <2>7. QED
    BY <2>5, <2>6
<1>3. QED
  BY <1>1, <1>2, StepsOfWorld
-----------------------------------------------------------------------------
(* What was there before the tenant                                        *)

LEMMA SparesStep ==
    ASSUME TypeOK, SparesOthers(product), Others \subseteq There, [Next]_vars
    PROVE  Others \subseteq There' /\ Others' = Others
<1>1. Others' = Others
  BY SameTenant DEF Others, tenant
<1>2. Others \cap TakenAway(product) = {}
  BY DEF Others, SparesOthers
<1>3. QED
  BY <1>1, <1>2, StepsTake

(* Whatever runs for the tenant, and however far a deletion gets before it  *)
(* goes wrong: what was there before the tenant and is not among the known  *)
(* exceptions is there after every step.                                    *)
THEOREM OthersKept ==
    ASSUME \A p \in Products : SparesOthers(p)
    PROVE  Spec => OthersAreKept
<1>1. Init => Others \subseteq There
  BY DEF Init, Others, There
<1>2. TypeOK /\ Others \subseteq There /\ [Next]_vars =>
        (Others \subseteq There)' /\ Others \subseteq DOMAIN world'
  <2> SUFFICES ASSUME TypeOK, Others \subseteq There, [Next]_vars
               PROVE  (Others \subseteq There)' /\ Others \subseteq DOMAIN world'
    OBVIOUS
  <2>1. SparesOthers(product)
    BY DEF TypeOK
  <2>2. Others \subseteq There' /\ Others' = Others
    BY <2>1, SparesStep
  <2>3. QED
    BY <2>2 DEF There
<1>3. QED
  BY <1>1, <1>2, TypeCorrect, PTL DEF Spec, OthersAreKept
-----------------------------------------------------------------------------
(* The status of a teardown that has failed                                *)

\* The failure handler has written its status, unless a second call has gone
\* wrong.
TellInv ==
    job = Remove =>
        /\ mode = "failing" =>
            /\ faults >= 1
            /\ \A i \in DOMAIN Handler[Remove][product] :
                i < pc /\ Tells(Handler[Remove][product][i]) /\ faults <= 1 =>
                    status # "Provisioned"
        /\ mode = "failed" => faults >= 2 \/ status # "Provisioned"

\* A call of the handler that is made or left out.
LEMMA HandlerCall ==
    ASSUME TypeOK, TellsFailure(product), job = Remove, AtStep, NEW s, s = Call
    PROVE  /\ Obstructed(s) => s.quiet
           /\ mode = "failing" =>
                /\ s = Handler[Remove][product][pc] /\ s.status # "Provisioned"
                /\ Tells(s) => s.does = "status" /\ ~LeftOut(s) /\ ~Obstructed(s)
<1>1. Script = (IF mode = "failing" THEN Handler[Remove][product] ELSE Plan[Remove][product])
  BY DEF Script
<1>2. s \in StepsOf(Script) /\ s = Script[pc]
  BY CallInScript
<1>3. Unfailing(s) /\ (mode = "failing" => s.status # "Provisioned")
  BY <1>1, <1>2 DEF TellsFailure
<1>4. Obstructed(s) => s.quiet
  BY <1>3 DEF Unfailing, Obstructed
<1>5. Tells(s) => s.does = "status" /\ ~LeftOut(s) /\ ~Obstructed(s)
  BY DEF Tells, LeftOut, Obstructed
<1>6. QED
  BY <1>1, <1>2, <1>3, <1>4, <1>5

LEMMA TellStep ==
    ASSUME TypeOK, TellsFailure(product), TellInv, [Next]_vars
    PROVE  TellInv'
<1>1. faults \in Nat /\ pc \in Nat \ {0}
  BY DEF TypeOK
<1>2. product' = product
  BY SameTenant DEF tenant
<1>3. CASE UNCHANGED vars
  BY <1>3, <1>2 DEF vars, TellInv
<1>4. CASE Retry \/ Redeploy \/ Deprovision
  BY <1>4 DEF Retry, Redeploy, Deprovision, Start, TellInv
<1>5. CASE Replay
  BY <1>5, <1>2 DEF Replay, TellInv
<1>6. CASE End
  <2>1. UNCHANGED <<job, pc, status, faults>> /\ pc > Len(Script)
        /\ \/ mode = "running" /\ mode' = "ended"
           \/ mode = "failing" /\ mode' = "failed"
    BY <1>6 DEF End, Busy
  <2>2. SUFFICES ASSUME job = Remove, mode = "failing" PROVE faults >= 2 \/ status # "Provisioned"
    BY <1>2, <2>1 DEF TellInv
  <2>3. Script = Handler[Remove][product]
    BY <2>2 DEF Script
  <2>4. PICK i \in DOMAIN Handler[Remove][product] : Tells(Handler[Remove][product][i])
    BY DEF TellsFailure, StepsOf
  <2>5. i < pc
    BY <1>1, <2>1, <2>3, PlanAssumption DEF TypeOK, Jobs
  <2>6. QED
    BY <1>1, <2>2, <2>4, <2>5 DEF TellInv
<1>7. CASE LeaveOut \/ Succeed \/ (Obstruct /\ Call.quiet)
  <2>1. /\ AtStep /\ UNCHANGED <<job, mode, faults>> /\ pc' = pc + 1
        /\ mode \in {"running", "failing"}
        /\ LeftOut(Call) \/ Obstructed(Call) \/ (Succeed /\ ~Obstructed(Call))
    BY <1>7 DEF LeaveOut, Succeed, Obstruct, Calling, AtStep, Busy
  <2>2. SUFFICES ASSUME job = Remove, mode = "failing"
                 PROVE  /\ faults >= 1
                        /\ \A i \in DOMAIN Handler[Remove][product] :
                             i < pc + 1 /\ Tells(Handler[Remove][product][i]) /\ faults <= 1 =>
                                status' # "Provisioned"
    BY <1>2, <2>1 DEF TellInv
  <2>3. PICK s : s = Call
    OBVIOUS
  <2>4. /\ s = Handler[Remove][product][pc] /\ s.status # "Provisioned"
        /\ Tells(s) => s.does = "status" /\ ~LeftOut(s) /\ ~Obstructed(s)
    BY <2>1, <2>2, <2>3, HandlerCall
  <2>5. status' = status \/ status' # "Provisioned"
    BY <1>7, <2>3, <2>4 DEF LeaveOut, Succeed, Obstruct
  <2>6. Tells(s) => status' # "Provisioned"
    BY <2>1, <2>3, <2>4 DEF Succeed
  <2>7. ASSUME NEW i \in DOMAIN Handler[Remove][product], i < pc + 1,
               Tells(Handler[Remove][product][i]), faults <= 1
        PROVE  status' # "Provisioned"
    <3>1. i \in Nat
      BY PlanAssumption DEF TypeOK, Jobs
    <3>2. CASE i = pc
      BY <2>4, <2>6, <2>7, <3>2
    <3>3. CASE i < pc
      BY <2>2, <2>5, <2>7, <3>3 DEF TellInv
    <3>4. QED
      BY <1>1, <2>7, <3>1, <3>2, <3>3
  <2>8. faults >= 1
    BY <2>2 DEF TellInv
  <2>9. QED
    BY <2>7, <2>8
<1>8. CASE Obstruct /\ ~Call.quiet
  <2>1. job # Remove /\ job' = job
    BY <1>8, HandlerCall DEF Obstruct, Calling
  <2>2. QED
    BY <2>1 DEF TellInv
<1>9. CASE Repeat \/ GiveUp \/ StaleAttempt
  <2>1. /\ job' = job /\ faults' = faults + 1
        /\ \/ mode = "running" /\ mode' \in {"running", "failing"} /\ (mode' = "failing" => pc' = 1)
           \/ mode = "failing" /\ mode' \in {"failing", "failed"}
    BY <1>9 DEF Repeat, GiveUp, Fault, StaleAttempt, Calling, AtStep, Busy, Raise
  <2>2. CASE mode = "running"
    <3>1. \A i \in DOMAIN Handler[Remove][product] : ~(i < 1)
      BY PlanAssumption DEF TypeOK, Jobs
    <3>2. QED
      BY <1>1, <1>2, <2>1, <2>2, <3>1 DEF TellInv
  <2>3. CASE mode = "failing"
    BY <1>1, <1>2, <2>1, <2>3 DEF TellInv
  <2>4. QED
    BY <2>1, <2>2, <2>3
<1>10. QED
  BY <1>3, <1>4, <1>5, <1>6, <1>7, <1>8, <1>9 DEF Next

(* A teardown of a product whose failure handler tells so, and whose calls  *)
(* raise only when they go wrong, has failed: unless a second call went     *)
(* wrong, the tenant is not shown as Provisioned, whatever its status was.  *)
THEOREM HalfTornIsTold == Spec => [](TellsFailure(product) => HalfTornIsNotShown)
<1>1. Init => (TellsFailure(product) => TellInv)
  BY DEF Init, TellInv, Onboard, Remove
<1>2. TypeOK /\ (TellsFailure(product) => TellInv) /\ [Next]_vars =>
        (TellsFailure(product) => TellInv)'
  <2> SUFFICES ASSUME TypeOK, TellsFailure(product) => TellInv, [Next]_vars,
                      TellsFailure(product)'
               PROVE  TellInv'
    OBVIOUS
  <2>1. TellsFailure(product)
    BY SameTenant DEF tenant, TellsFailure
  <2>2. QED
    BY <2>1, TellStep
<1>3. TypeOK /\ (TellsFailure(product) => TellInv) =>
        (TellsFailure(product) => HalfTornIsNotShown)
  <2> SUFFICES ASSUME TypeOK, TellInv PROVE HalfTornIsNotShown
    OBVIOUS
  <2>1. faults \in Nat
    BY DEF TypeOK
  <2>2. QED
    BY <2>1 DEF TellInv, HalfTornIsNotShown
<1>4. QED
  BY <1>1, <1>2, <1>3, TypeCorrect, PTL DEF Spec

-----------------------------------------------------------------------------
(* What is created once                                                    *)

\* As soon as an operation finds one of its resources it finds what it looks
\* for.
GuardsAreThere ==
    \A s \in AllSteps(product) : \A q \in Whole(s) :
        s.does = "once" /\ <<product, q>> \notin KnownTwice /\ q \in There => s.guard \in There

OnceInv == GuardsAreThere /\ BuiltOnce

\* What is new in the world has been reached by a call that found nothing.
LEMMA NewIsReached ==
    ASSUME NEW s, NEW n, NEW q \in DOMAIN World(s, n), q \notin There
    PROVE  s.does \in Builds /\ q \in Reached(s, n) /\ Reached(s, n) \subseteq DOMAIN World(s, n)
<1>1. s.does \in Builds /\ q \in Reached(s, n)
  BY WorldAdds
<1>2. ~Found(s)
  BY DEF World, Found, There
<1>3. QED
  BY <1>1, <1>2, WorldBuilds

LEMMA GuardsStep ==
    ASSUME TypeOK, BuildsOnce(product), GuardsAreThere, [Next]_vars
    PROVE  GuardsAreThere'
<1>1. product' = product
  BY SameTenant DEF tenant
<1>2. ASSUME NEW s \in AllSteps(product), NEW q \in Whole(s), s.does = "once",
             <<product, q>> \notin KnownTwice, q \in There', q # s.guard
      PROVE  s.guard \in There'
  <2>1. PICK g : g = s.guard
    OBVIOUS
  <2>2. Behind(product, q, g)
    BY <1>2, <2>1 DEF BuildsOnce
  <2>3. CASE q \in There
    <3>1. g \in There /\ g \notin TakenAway(product)
      BY <1>2, <2>1, <2>2, <2>3 DEF GuardsAreThere, Behind
    <3>2. QED
      BY <2>1, <3>1, StepsTake
  <2>4. CASE q \notin There
    <3>1. There' # There
      BY <1>2, <2>4
    <3>2. AtStep /\ \E n \in 0 .. Len(Call.on) : world' = World(Call, n)
      BY <3>1, StepsOfWorld DEF There
    <3>3. PICK n \in 0 .. Len(Call.on) : world' = World(Call, n)
      BY <3>2
    <3>4. PICK c : c = Call
      OBVIOUS
    <3>5. c \in AllSteps(product) /\ Len(c.on) \in Nat
      BY <3>2, <3>4, CallInScript
    <3>6. c.does \in Builds /\ q \in Reached(c, n) /\ Reached(c, n) \subseteq There'
      BY <1>2, <2>4, <3>3, <3>4, NewIsReached DEF There
    <3>7. PICK b \in 1 .. n : c.on[b] = q
      BY <3>6 DEF Reached
    <3>8. b \in 1 .. Len(c.on) /\ n \in 0 .. Len(c.on)
      BY <3>3, <3>4, <3>5
    <3>9. PICK a \in 1 .. b : c.on[a] = g
      BY <2>2, <3>5, <3>6, <3>7, <3>8 DEF Behind
    <3>10. a \in 1 .. n
      BY <3>5, <3>8, <3>7, <3>9
    <3>11. g \in Reached(c, n)
      BY <3>9, <3>10 DEF Reached
    <3>12. QED
      BY <2>1, <3>6, <3>11
  <2>5. QED
    BY <2>3, <2>4
<1>3. QED
  BY <1>1, <1>2 DEF GuardsAreThere

LEMMA OnceStep ==
    ASSUME TypeOK, BuildsOnce(product), OnceInv, [Next]_vars
    PROVE  OnceInv'
<1>1. product' = product
  BY SameTenant DEF tenant
<1>2. GuardsAreThere'
  BY GuardsStep DEF OnceInv
<1>3. ASSUME NEW q \in twice', q \notin twice PROVE <<product, q>> \in KnownTwice
  <2>1. AtStep /\ \E n \in 0 .. Len(Call.on) :
            \/ twice' = Twice(Call, n)
            \/ Call.does = "lookup" /\ twice' = twice \cup Reached(Call, n)
    BY <1>3, StepsOfWorld
  <2>2. PICK s : s = Call
    OBVIOUS
  <2>3. PICK n \in 0 .. Len(s.on) :
            \/ twice' = Twice(s, n)
            \/ s.does = "lookup" /\ twice' = twice \cup Reached(s, n)
    BY <2>1, <2>2
  <2>4. s \in AllSteps(product) /\ Reached(s, n) \subseteq Whole(s)
    BY <2>1, <2>2, <2>3, CallInScript, PartOfWhole
  <2>5. q \in Reached(s, n) /\ (q \in Again(s, n) \/ s.does = "lookup")
    BY <1>3, <2>3 DEF Twice, Again
  <2>6. SUFFICES ASSUME <<product, q>> \notin KnownTwice PROVE FALSE
    OBVIOUS
  <2>7. q \in Whole(s)
    BY <2>4, <2>5
  <2>8. s.does \notin {"insert", "lookup"} /\ (s.does = "keyed" => s.carries = {})
    BY <2>4, <2>6, <2>7 DEF BuildsOnce
  <2>9. q \in Again(s, n) /\ q \in There
    BY <2>5, <2>8 DEF Again
  <2>10. CASE s.does = "once"
    <3>1. s.guard \in There
      BY <2>4, <2>6, <2>7, <2>9, <2>10 DEF OnceInv, GuardsAreThere
    <3>2. Found(s)
      BY <2>10, <3>1 DEF Found
    <3>3. QED
      BY <2>8, <2>9, <2>10, <3>2 DEF Again
  <2>11. CASE s.does = "keyed"
    <3>1. Written(s) = {}
      BY <2>8, <2>11 DEF Written
    <3>2. QED
      BY <2>9, <2>11, <3>1 DEF Again
  <2>12. QED
    BY <2>8, <2>9, <2>10, <2>11 DEF Again
<1>4. BuiltOnce'
  BY <1>1, <1>3 DEF OnceInv, BuiltOnce
<1>5. QED
  BY <1>2, <1>4 DEF OnceInv

(* Whatever is repeated, cut short or run again for the tenant, and however *)
(* often: a product whose operations look for what is there as soon as any  *)
(* of what they create creates nothing a second time, but for the known     *)
(* exceptions.                                                              *)
THEOREM CreatedOnce == Spec => [](BuildsOnce(product) => BuiltOnce)
<1>1. Init => (BuildsOnce(product) => OnceInv)
  <2> SUFFICES ASSUME Init, BuildsOnce(product) PROVE OnceInv
    OBVIOUS
  <2>1. BuiltOnce /\ There = Standing[product]
    BY DEF Init, BuiltOnce, There
  <2>2. GuardsAreThere
    BY <2>1 DEF GuardsAreThere, BuildsOnce, Behind
  <2>3. QED
    BY <2>1, <2>2 DEF OnceInv
<1>2. TypeOK /\ (BuildsOnce(product) => OnceInv) /\ [Next]_vars =>
        (BuildsOnce(product) => OnceInv)'
  <2> SUFFICES ASSUME TypeOK, BuildsOnce(product) => OnceInv, [Next]_vars,
                      BuildsOnce(product)'
               PROVE  OnceInv'
    OBVIOUS
  <2>1. BuildsOnce(product)
    BY SameTenant DEF tenant, BuildsOnce, Behind
  <2>2. QED
    BY <2>1, OnceStep
<1>3. (BuildsOnce(product) => OnceInv) => (BuildsOnce(product) => BuiltOnce)
  BY DEF OnceInv
<1>4. QED
  BY <1>1, <1>2, <1>3, TypeCorrect, PTL DEF Spec

-----------------------------------------------------------------------------
(* Calls that cannot but raise                                             *)

\* A step the workflow does not go past without having made it, unless it finds
\* what makes it superfluous.
Asked(plan, s, chosen) ==
    /\ ~s.quiet /\ s.known = {} /\ s.when \subseteq chosen /\ s.unless \cap chosen = {}
    /\ s.skip \cap Deleted(plan) = {}

\* What the steps before the n-th one have given is there, as far as no step up
\* to the n-th one takes it away.
MadeTo(plan, chosen, there, n) ==
    \A i \in DOMAIN plan : i < n /\ Asked(plan, plan[i], chosen) =>
        \/ plan[i].skip \cap there # {}
        \/ \A q \in Gives(plan[i]) :
            (\A m \in i + 1 .. n : m \in DOMAIN plan => q \notin Takes(plan[m])) => q \in there

SupplyInv ==
    /\ Standing[product] \ TakenAway(product) \subseteq There
    /\ There \subseteq Standing[product] \cup Buildable(product)
    /\ Busy => MadeTo(Script, Chosen, There, pc)
    /\ NeverStopped

\* A call takes away what its step does.
LEMMA CallTakes ==
    ASSUME TypeOK, [Next]_vars
    PROVE  There' = There \/ (AtStep /\ There \subseteq There' \cup Takes(Call))
<1>1. CASE UNCHANGED world
  BY <1>1 DEF There
<1>2. CASE AtStep /\ \E n \in 0 .. Len(Call.on) : world' = World(Call, n)
  <2>1. PICK n \in 0 .. Len(Call.on) : world' = World(Call, n)
    BY <1>2
  <2>2. PICK s : s = Call
    OBVIOUS
  <2>3. Reached(s, n) \subseteq Whole(s)
    BY <1>2, <2>1, <2>2, CallInScript, PartOfWhole
  <2>4. CASE s.does = "delete"
    BY <1>2, <2>1, <2>2, <2>3, <2>4, WorldDeletes DEF There, Takes
  <2>5. CASE s.does # "delete"
    BY <1>2, <2>1, <2>2, <2>5, WorldKeeps DEF There
  <2>6. QED
    BY <2>4, <2>5
<1>3. QED
  BY <1>1, <1>2, StepsOfWorld

\* A call of the plan, whatever it has come to, keeps what the earlier ones have
\* given.
LEMMA MadeStays ==
    ASSUME NEW plan, NEW chosen, NEW there, NEW there2, NEW n \in DOMAIN plan,
           DOMAIN plan \subseteq Nat, MadeTo(plan, chosen, there, n),
           there \subseteq there2 \cup Takes(plan[n])
    PROVE  MadeTo(plan, chosen, there2, n)
<1> SUFFICES ASSUME NEW i \in DOMAIN plan, i < n, Asked(plan, plan[i], chosen),
                    plan[i].skip \cap there2 = {},
                    NEW q \in Gives(plan[i]),
                    \A m \in i + 1 .. n : m \in DOMAIN plan => q \notin Takes(plan[m])
             PROVE  q \in there2
  BY DEF MadeTo
<1>1. Takes(plan[n]) \subseteq Deleted(plan)
  BY DEF Takes, Deleted, StepsOf
<1>2. plan[i].skip \cap there = {}
  BY <1>1 DEF Asked
<1>3. q \in there
  BY <1>2 DEF MadeTo
<1>4. n \in i + 1 .. n
  OBVIOUS
<1>5. QED
  BY <1>3, <1>4

LEMMA MadeFurther ==
    ASSUME NEW plan, NEW chosen, NEW there, NEW there2, NEW n \in DOMAIN plan,
           DOMAIN plan \subseteq Nat, MadeTo(plan, chosen, there, n),
           there \subseteq there2 \cup Takes(plan[n]),
           Asked(plan, plan[n], chosen) =>
              plan[n].skip \cap there2 # {} \/ Gives(plan[n]) \subseteq there2
    PROVE  MadeTo(plan, chosen, there2, n + 1)
<1>1. MadeTo(plan, chosen, there2, n)
  BY MadeStays
<1> SUFFICES ASSUME NEW i \in DOMAIN plan, i < n + 1, Asked(plan, plan[i], chosen),
                    plan[i].skip \cap there2 = {},
                    NEW q \in Gives(plan[i]),
                    \A m \in i + 1 .. n + 1 : m \in DOMAIN plan => q \notin Takes(plan[m])
             PROVE  q \in there2
  BY DEF MadeTo
<1>2. CASE i = n
  BY <1>2
<1>3. CASE i < n
  <2>1. \A m \in i + 1 .. n : m \in i + 1 .. n + 1
    OBVIOUS
  <2>2. QED
    BY <1>1, <1>3, <2>1 DEF MadeTo
<1>4. QED
  BY <1>2, <1>3

\* A call that is answered has given what it should.
LEMMA AnsweredGives ==
    ASSUME NEW s, world' = World(s, Len(s.on))
    PROVE  Gives(s) \subseteq There'
<1>1. CASE s.does = "once" /\ Found(s)
  <2>1. world' = world
    BY <1>1 DEF World
  <2>2. QED
    BY <1>1, <2>1 DEF Gives, Found, There
<1>2. CASE s.does \in Builds /\ ~Found(s)
  BY <1>2, WorldBuilds DEF Gives, Whole, There
<1>3. CASE s.does \notin Builds
  BY <1>3 DEF Gives, Builds
<1>4. QED
  BY <1>1, <1>2, <1>3 DEF Found

\* Every step keeps what has been made.
LEMMA MadeStep ==
    ASSUME TypeOK, Busy => MadeTo(Script, Chosen, There, pc), [Next]_vars, Busy'
    PROVE  MadeTo(Script, Chosen, There, pc)'
<1>1. product' = product /\ options' = options
  BY SameTenant DEF tenant
<1>2. pc \in Nat \ {0} /\ (\A j \in Jobs : \A plan \in {Plan[j][product], Handler[j][product]} :
        Len(plan) \in Nat /\ DOMAIN plan = 1 .. Len(plan))
  BY PlanAssumption DEF TypeOK
<1>3. CASE pc' = 1
  <2>1. Script' \in {Plan[job'][product], Handler[job'][product]} /\ job' \in Jobs
    BY <1>1, TypeStep DEF Script, TypeOK
  <2>2. \A i \in DOMAIN Script' : ~(i < 1)
    BY <1>2, <2>1
  <2>3. QED
    BY <1>3, <2>2 DEF MadeTo
<1>4. CASE UNCHANGED <<job, mode, pc>>
  <2>1. Busy /\ Script' = Script /\ Chosen' = Chosen
    BY <1>1, <1>4 DEF Busy, Script, Chosen
  <2>2. CASE There' = There
    BY <1>4, <2>1, <2>2 DEF MadeTo
  <2>3. CASE AtStep /\ There \subseteq There' \cup Takes(Call)
    <3>1. pc \in DOMAIN Script /\ Call = Script[pc] /\ DOMAIN Script \subseteq Nat
      BY <2>3, CallInScript
    <3>2. MadeTo(Script, Chosen, There', pc)
      BY <2>1, <2>3, <3>1, MadeStays
    <3>3. QED
      BY <1>4, <2>1, <3>2 DEF MadeTo
  <2>4. QED
    BY <2>2, <2>3, CallTakes
<1>5. CASE /\ AtStep /\ UNCHANGED <<job, mode>> /\ pc' = pc + 1
           /\ \/ LeftOut(Call) /\ There' = There
              \/ Call.quiet
              \/ world' = World(Call, Len(Call.on))
  <2>1. Busy /\ Script' = Script /\ Chosen' = Chosen
    BY <1>1, <1>5 DEF Busy, Script, Chosen
  <2>2. pc \in DOMAIN Script /\ Call = Script[pc] /\ DOMAIN Script \subseteq Nat
    BY <1>5, CallInScript
  <2>3. There \subseteq There' \cup Takes(Call)
    BY CallTakes
  <2>4. Asked(Script, Call, Chosen) => Call.skip \cap There' # {} \/ Gives(Call) \subseteq There'
    <3>1. CASE LeftOut(Call) /\ There' = There
      BY <3>1 DEF Asked, LeftOut
    <3>2. CASE Call.quiet
      BY <3>2 DEF Asked
    <3>3. CASE world' = World(Call, Len(Call.on))
      <4>1. PICK s : s = Call
        OBVIOUS
      <4>2. Gives(s) \subseteq There'
        BY <3>3, <4>1, AnsweredGives
      <4>3. QED
        BY <4>1, <4>2
    <3>4. QED
      BY <1>5, <3>1, <3>2, <3>3
  <2>5. MadeTo(Script, Chosen, There', pc + 1)
    BY <2>1, <2>2, <2>3, <2>4, MadeFurther
  <2>6. QED
    BY <1>5, <2>1, <2>5 DEF MadeTo
<1>6. CASE UNCHANGED vars \/ Repeat \/ Replay
  BY <1>4, <1>6 DEF vars, Repeat, Fault, Replay
<1>7. CASE LeaveOut \/ Succeed
  BY <1>5, <1>7 DEF LeaveOut, Succeed, Calling, Effect, There
<1>8. CASE Obstruct \/ GiveUp
  <2>1. AtStep /\ job' = job /\ (Raise \/ (Call.quiet /\ mode' = mode /\ pc' = pc + 1))
    BY <1>8 DEF Obstruct, GiveUp, Fault, Calling
  <2>2. QED
    BY <1>3, <1>5, <2>1 DEF Raise, Busy
<1>9. CASE StaleAttempt
  <2>1. /\ AtStep /\ UNCHANGED <<job, mode>> /\ pc' = pc + 1 /\ Call.does = "lookup"
        /\ world' = World(Call, 1)
    BY <1>9 DEF StaleAttempt, Calling
  <2>2. Len(Call.on) = 1
    BY <2>1, CallInScript
  <2>3. QED
    BY <1>5, <2>1, <2>2
<1>10. CASE End
  BY <1>10 DEF End, Busy
<1>11. CASE Retry \/ Redeploy \/ Deprovision
  BY <1>3, <1>11 DEF Retry, Redeploy, Deprovision, Start
<1>12. QED
  BY <1>6, <1>7, <1>8, <1>9, <1>10, <1>11 DEF Next

\* A call that is made has what it needs, and nothing is in its way.
LEMMA NotObstructed ==
    ASSUME TypeOK, NeverRaises(product), SupplyInv, Calling, ~Call.quiet,
           <<product, job, Call.act>> \notin KnownObstacles
    PROVE  ~Obstructed(Call)
<1>1. /\ AtStep /\ ~LeftOut(Call) /\ job \in Jobs
      /\ Script \in {Plan[job][product], Handler[job][product]}
      /\ pc \in DOMAIN Script /\ Call = Script[pc] /\ DOMAIN Script \subseteq Nat
  BY CallInScript DEF Calling
<1>2. /\ \A q \in Script[pc].needs : Supplied(product, Script, pc, q)
      /\ Script[pc].bars \cap (Standing[product] \cup Buildable(product)) = {}
  BY <1>1 DEF NeverRaises
<1>3. Script[pc].bars \cap There = {}
  BY <1>2 DEF SupplyInv
<1>4. ASSUME NEW q \in Script[pc].needs PROVE q \in There
  <2>1. CASE q \in Standing[product] \ TakenAway(product)
    BY <2>1 DEF SupplyInv
  <2>2. ASSUME NEW i \in DOMAIN Script, q \in Gives(Script[i]), MadeBefore(Script, i, pc),
               \A m \in i + 1 .. pc : q \notin Takes(Script[m])
        PROVE  q \in There
    <3>1. MadeTo(Script, Chosen, There, pc)
      BY <1>1 DEF SupplyInv, AtStep
    <3>2. /\ Script[pc].when \subseteq Chosen /\ Script[pc].unless \cap Chosen = {}
          /\ Script[pc].skip \cap There = {}
      BY <1>1 DEF LeftOut
    <3>3. i < pc /\ Asked(Script, Script[i], Chosen) /\ Script[i].skip \cap There = {}
      BY <2>2, <3>2 DEF MadeBefore, Asked
    <3>4. QED
      BY <2>2, <3>1, <3>3 DEF MadeTo
  <2>3. QED
    BY <1>2, <1>4, <2>1, <2>2 DEF Supplied
<1>5. QED
  BY <1>1, <1>3, <1>4 DEF Obstructed

LEMMA SupplyStep ==
    ASSUME TypeOK, NeverRaises(product), SupplyInv, [Next]_vars
    PROVE  SupplyInv'
<1>1. product' = product
  BY SameTenant DEF tenant
<1>2. /\ Standing[product] \ TakenAway(product) \subseteq There'
      /\ There' \subseteq Standing[product] \cup Buildable(product)
  BY StepsTake DEF SupplyInv
<1>3. (Busy => MadeTo(Script, Chosen, There, pc))'
  BY MadeStep DEF SupplyInv
<1>4. NeverStopped'
  <2>1. CASE stopped' = stopped
    BY <1>1, <2>1 DEF SupplyInv, NeverStopped
  <2>2. CASE Obstruct /\ ~Call.quiet
    <3>1. stopped' = stopped \cup {<<job, Call.act>>} /\ Calling /\ Obstructed(Call)
      BY <2>2 DEF Obstruct
    <3>2. <<product, job, Call.act>> \in KnownObstacles
      BY <2>2, <3>1, NotObstructed
    <3>3. QED
      BY <1>1, <3>1, <3>2 DEF SupplyInv, NeverStopped
  <2>3. stopped' = stopped \/ (Obstruct /\ ~Call.quiet)
    BY DEF Next, vars, LeaveOut, Succeed, Obstruct, Repeat, GiveUp, Fault, StaleAttempt,
           Replay, End, Retry, Redeploy, Deprovision, Start
  <2>4. QED
    BY <2>1, <2>2, <2>3
<1>5. QED
  BY <1>1, <1>2, <1>3, <1>4 DEF SupplyInv

(* Whatever the tenant's earlier workflows have built, taken away and left  *)
(* half done, and whatever goes wrong: a product whose plans make what      *)
(* their steps need, and build nothing that bars them, comes to no call     *)
(* that can only raise, but for the known ones.                             *)
THEOREM NotStopped == Spec => [](NeverRaises(product) => NeverStopped)
<1>1. Init => SupplyInv
  <2> SUFFICES ASSUME Init PROVE SupplyInv
    OBVIOUS
  <2>1. There = Standing[product] /\ NeverStopped
    BY DEF Init, There, NeverStopped
  <2>2. \A i \in DOMAIN Script : ~(i < pc)
    BY OnboardingPlan DEF Init, Script
  <2>3. MadeTo(Script, Chosen, There, pc)
    BY <2>2 DEF MadeTo
  <2>4. QED
    BY <2>1, <2>3 DEF SupplyInv
<1>2. TypeOK /\ (NeverRaises(product) => SupplyInv) /\ [Next]_vars =>
        (NeverRaises(product) => SupplyInv)'
  <2> SUFFICES ASSUME TypeOK, NeverRaises(product) => SupplyInv, [Next]_vars,
                      NeverRaises(product)'
               PROVE  SupplyInv'
    OBVIOUS
  <2>1. NeverRaises(product)
    BY SameTenant DEF tenant, NeverRaises, Supplied
  <2>2. QED
    BY <2>1, SupplyStep
<1>3. (NeverRaises(product) => SupplyInv) => (NeverRaises(product) => NeverStopped)
  BY DEF SupplyInv
<1>4. QED
  BY <1>1, <1>2, <1>3, TypeCorrect, PTL DEF Spec

-----------------------------------------------------------------------------
(* Keys that are told once                                                 *)

Made(s, chosen) == s.when \subseteq chosen /\ s.unless \cap chosen = {}

\* The workflow is between the creation of t and the step that stores its key.
Window(plan, chosen, n, s, x, t) ==
    \E i, k \in DOMAIN plan :
        /\ plan[k] = s /\ StoresAt(plan, x, t, i, k)
        /\ i < n /\ n <= k /\ Made(plan[i], chosen)

\* There the workflow knows the key or has it stored, and nowhere else it has
\* to be stored still.
KeyIsSafe(s, x, t) ==
    /\ t \in There /\ s.on[1] \notin There => Busy /\ Window(Script, Chosen, pc, s, x, t)
    /\ Busy /\ Window(Script, Chosen, pc, s, x, t) => Value(x) # 0 \/ s.on[1] \in There

KeyInv ==
    /\ \A q \in There : \A v \in world[q] : v[2] # 0
    /\ \A x : x \notin Issued(product) => Value(x) # 0
    /\ \A s \in AllSteps(product) : \A x, t :
            StoredWith(product, s, x, t) => KeyIsSafe(s, x, t)

\* In a window the call is made and cannot raise.
LEMMA InWindow ==
    ASSUME TypeOK, Busy, NEW s, NEW x, NEW t, Window(Script, Chosen, pc, s, x, t)
    PROVE  AtStep /\ ~LeftOut(Call) /\ ~Obstructed(Call)
<1>1. PICK i, k \in DOMAIN Script :
        StoresAt(Script, x, t, i, k) /\ i < pc /\ pc <= k /\ Made(Script[i], Chosen)
  BY DEF Window
<1>2. Script \in {Plan[job][product], Handler[job][product]}
  BY DEF Script
<1>3. Len(Script) \in Nat /\ DOMAIN Script = 1 .. Len(Script) /\ pc \in Nat \ {0}
  BY <1>2, PlanAssumption DEF TypeOK
<1>4. AtStep /\ pc \in i .. k /\ Call = Script[pc]
  BY <1>1, <1>3 DEF AtStep, Call
<1>5. Alongside(Call, Script[i])
  BY <1>1, <1>4 DEF StoresAt
<1>6. QED
  BY <1>1, <1>4, <1>5 DEF Alongside, LeftOut, Obstructed, Made

\* A window is entered by creating.
LEMMA WindowEntered ==
    ASSUME NEW plan, DOMAIN plan \subseteq Nat, NEW chosen, NEW n \in Nat, NEW s, NEW x, NEW t,
           Window(plan, chosen, n + 1, s, x, t)
    PROVE  \/ Window(plan, chosen, n, s, x, t)
           \/ /\ n \in DOMAIN plan /\ plan[n].does = "issue" /\ x \in plan[n].carries
              /\ plan[n].on = <<t>> /\ Made(plan[n], chosen) /\ Alongside(plan[n], plan[n])
<1>1. PICK i, k \in DOMAIN plan :
        /\ plan[k] = s /\ StoresAt(plan, x, t, i, k)
        /\ i < n + 1 /\ n + 1 <= k /\ Made(plan[i], chosen)
  BY DEF Window
<1>2. CASE i < n
  <2>1. n <= k
    BY <1>1
  <2>2. QED
    BY <1>1, <1>2, <2>1 DEF Window
<1>3. CASE i = n
  <2>1. i \in i .. k
    BY <1>1
  <2>2. QED
    BY <1>1, <1>3, <2>1 DEF StoresAt
<1>4. QED
  BY <1>1, <1>2, <1>3

\* What a call returns is a version that is none.
LEMMA AnswerIsKnown ==
    ASSUME TypeOK, KeyInv, NEW s, NEW v \in Answer(s)
    PROVE  v[2] # 0
<1>1. version # 0
  BY DEF TypeOK
<1>2. CASE s.does = "make"
  BY <1>1, <1>2 DEF Answer
<1>3. CASE s.does = "fetch"
  BY <1>3 DEF Answer, Held, KeyInv
<1>4. CASE s.does = "issue"
  BY <1>1, <1>4 DEF Answer
<1>5. CASE s.does \notin {"make", "fetch", "issue"}
  BY <1>5 DEF Answer
<1>6. QED
  BY <1>2, <1>3, <1>4, <1>5

\* What the workflow knows it does not forget while it runs.
LEMMA ValueAfter ==
    ASSUME TypeOK, KeyInv, NEW s, memo' = Memo(s), version' = version, NEW x
    PROVE  /\ Value(x) # 0 => Value(x)' # 0
           /\ (\E v \in Answer(s) : v[1] = x) => Value(x)' # 0
<1> DEFINE new == Answer(s)
           mem == DOMAIN memo \cup {v[1] : v \in new}
           val(y) == IF \E v \in new : v[1] = y THEN (CHOOSE v \in new : v[1] = y)[2] ELSE memo[y]
<1>1. memo' = [y \in mem |-> val(y)]
  BY DEF Memo
<1>2. CASE \E v \in new : v[1] = x
  <2>1. PICK w : w = CHOOSE v \in new : v[1] = x
    OBVIOUS
  <2>2. w \in new
    BY <1>2, <2>1
  <2>3. w[2] # 0
    BY <2>2, AnswerIsKnown
  <2>4. val(x) # 0
    BY <1>2, <2>1, <2>3
  <2>5. x \in mem
    BY <1>2
  <2> HIDE DEF mem, val
  <2>6. memo'[x] = val(x) /\ x \in DOMAIN memo'
    BY <1>1, <2>5
  <2>7. QED
    BY <2>4, <2>6 DEF Value
<1>3. CASE ~ \E v \in new : v[1] = x
  <2>1. val(x) = memo[x] /\ (x \in mem <=> x \in DOMAIN memo)
    BY <1>3
  <2> HIDE DEF mem, val
  <2>2. DOMAIN memo' = mem /\ (x \in mem => memo'[x] = val(x))
    BY <1>1
  <2>3. Value(x)' = Value(x)
    BY <2>1, <2>2 DEF Value
  <2>4. QED
    BY <1>3, <2>3 DEF new
<1>4. QED
  BY <1>2, <1>3

\* A key that was lost is written where one is already.
LEMMA BlankIsKept ==
    ASSUME TypeOK, StoresKeys(product), KeyInv, Calling, NEW s, s = Call, s.does \in Builds,
           NEW v \in Written(s), v[2] = 0
    PROVE  s.does = "ensure" /\ Len(s.on) = 1 /\ s.on[1] \in There
<1>1. /\ AtStep /\ ~LeftOut(s) /\ s \in AllSteps(product) /\ Script \in Scripts(product)
      /\ pc \in DOMAIN Script /\ s = Script[pc] /\ DOMAIN Script = 1 .. Len(Script)
  BY CallInScript DEF Calling
<1>2. version # 0
  BY DEF TypeOK
<1>3. s.does # "issue" /\ s.sources = {}
  BY <1>2 DEF Written, KeyInv
<1>4. PICK x \in s.carries : v = <<x, Value(x)>>
  BY <1>3 DEF Written
<1>5. Value(x) = 0
  BY <1>4
<1>6. x \in (s.carries \cap Issued(product)) \ s.known
  BY <1>1, <1>4, <1>5 DEF KeyInv, LeftOut
<1>7. PICK t : StoredWith(product, s, x, t)
  BY <1>1, <1>3, <1>6 DEF StoresKeys
<1>8. PICK i \in DOMAIN Script : StoresAt(Script, x, t, i, pc)
  BY <1>1, <1>7 DEF StoredWith
<1>9. i < pc /\ pc \in i .. pc
  BY <1>1, <1>8 DEF StoresAt
<1>10. Made(Script[i], Chosen)
  <2>1. Alongside(s, Script[i])
    BY <1>1, <1>8, <1>9 DEF StoresAt
  <2>2. QED
    BY <1>1, <2>1 DEF Alongside, LeftOut, Made
<1>11. Busy /\ Window(Script, Chosen, pc, s, x, t)
  BY <1>1, <1>8, <1>9, <1>10 DEF Window, AtStep
<1>12. s.on[1] \in There
  BY <1>1, <1>5, <1>7, <1>11 DEF KeyInv, KeyIsSafe
<1>13. QED
  BY <1>7, <1>12 DEF StoredWith


\* Nothing holds a key that was lost.
LEMMA NoBlankStep ==
    ASSUME TypeOK, StoresKeys(product), KeyInv, [Next]_vars
    PROVE  \A q \in There' : \A v \in world'[q] : v[2] # 0
<1>1. CASE UNCHANGED world
  BY <1>1 DEF KeyInv, There
<1>2. CASE AtStep /\ ~LeftOut(Call) /\ \E n \in 0 .. Len(Call.on) : world' = World(Call, n)
  <2>1. PICK n \in 0 .. Len(Call.on) : world' = World(Call, n)
    BY <1>2
  <2>2. PICK s : s = Call
    OBVIOUS
  <2>3. Calling /\ Len(s.on) \in Nat
    BY <1>2, <2>2, CallInScript DEF Calling
  <2> SUFFICES ASSUME NEW q \in There', NEW v \in world'[q], v[2] = 0 PROVE FALSE
    OBVIOUS
  <2>4. \/ q \in There /\ v \in world[q]
        \/ /\ s.does \in Builds /\ q \in Reached(s, n) /\ v \in Written(s)
           /\ s.does = "ensure" => q \notin There
    BY <2>1, <2>2, WorldHolds DEF There
  <2>5. /\ s.does \in Builds /\ q \in Reached(s, n) /\ v \in Written(s)
        /\ s.does = "ensure" => q \notin There
    BY <2>4 DEF KeyInv
  <2>6. s.does = "ensure" /\ Len(s.on) = 1 /\ s.on[1] \in There
    BY <2>2, <2>3, <2>5, BlankIsKept
  <2>7. n \in 0 .. 1
    BY <2>1, <2>2, <2>6
  <2>8. q = s.on[1]
    BY <2>5, <2>7 DEF Reached
  <2>9. QED
    BY <2>5, <2>6, <2>8
<1>3. QED
  BY <1>1, <1>2, StepsOfWorld

\* A workflow that goes on keeps what it knows.
LEMMA ValueStays ==
    ASSUME TypeOK, KeyInv, [Next]_vars, ~(Retry \/ Redeploy \/ Deprovision), NEW x, Value(x) # 0
    PROVE  Value(x)' # 0
<1>1. CASE UNCHANGED <<memo, version>>
  BY <1>1 DEF Value
<1>2. CASE Succeed
  <2>1. memo' = Memo(Call) /\ version' = version
    BY <1>2 DEF Succeed
  <2>2. PICK s : s = Call
    OBVIOUS
  <2>3. memo' = Memo(s)
    BY <2>1, <2>2
  <2>4. QED
    BY <2>1, <2>3, ValueAfter
<1>3. CASE Replay
  BY <1>3 DEF Replay, Value, TypeOK
<1>4. QED
  BY <1>1, <1>2, <1>3 DEF Next, vars, LeaveOut, Obstruct, Repeat, GiveUp, Fault, StaleAttempt, End

LEMMA ValueStep ==
    ASSUME TypeOK, KeyInv, [Next]_vars, NEW x, x \notin Issued(product)
    PROVE  Value(x)' # 0
<1>1. CASE Retry \/ Redeploy \/ Deprovision
  BY <1>1 DEF Retry, Redeploy, Deprovision, Start, Value, Unknown, TypeOK
<1>2. QED
  BY <1>1, ValueStays DEF KeyInv

\* A step that goes on to the next call, or stays, where the call was made.
LEMMA SafeGoesOn ==
    ASSUME TypeOK, KeyInv, [Next]_vars, NEW s \in AllSteps(product), NEW x, NEW t,
           StoredWith(product, s, x, t), Succeed
    PROVE  KeyIsSafe(s, x, t)'
<1>1. PICK c : c = Call
  OBVIOUS
<1>2. PICK r : r = s.on[1]
  OBVIOUS
<1>3. /\ AtStep /\ ~LeftOut(c) /\ Busy /\ world' = World(c, Len(c.on)) /\ memo' = Memo(c)
      /\ UNCHANGED <<tenant, job, mode, version>> /\ pc' = pc + 1
  BY <1>1 DEF Succeed, Calling, Effect, AtStep
<1>4. Busy' /\ Script' = Script /\ Chosen' = Chosen
  BY <1>3 DEF Busy, Script, Chosen, tenant
<1>5. /\ c = Script[pc] /\ pc \in DOMAIN Script /\ DOMAIN Script = 1 .. Len(Script)
      /\ Len(Script) \in Nat /\ Script \in Scripts(product) /\ pc \in Nat \ {0}
      /\ Len(c.on) \in Nat
  BY <1>1, <1>3, CallInScript DEF TypeOK
<1>6. r \in There => r \in There'
  BY <1>2, StepsTake DEF StoredWith
<1>7. KeyIsSafe(s, x, t)
  BY DEF KeyInv
<1>8. Value(x) # 0 => Value(x)' # 0
  BY <1>3, ValueAfter
<1>9. ASSUME Window(Script, Chosen, pc + 1, s, x, t) PROVE Value(x)' # 0 \/ r \in There'
  <2>1. CASE Window(Script, Chosen, pc, s, x, t)
    BY <1>2, <1>3, <1>6, <1>7, <1>8, <2>1 DEF KeyIsSafe
  <2>2. CASE c.does = "issue" /\ x \in c.carries /\ c.on = <<t>>
    <3>1. CASE t \in There
      BY <1>2, <1>6, <1>7, <1>8, <3>1 DEF KeyIsSafe
    <3>2. CASE t \notin There
      <4>1. Answer(c) = {<<y, version>> : y \in c.carries}
        BY <2>2, <3>2 DEF Answer
      <4>2. <<x, version>> \in Answer(c)
        BY <2>2, <4>1
      <4>3. QED
        BY <1>3, <4>2, ValueAfter
    <3>3. QED
      BY <3>1, <3>2
  <2>3. DOMAIN Script \subseteq Nat /\ pc \in Nat
    BY <1>5
  <2>4. \/ Window(Script, Chosen, pc, s, x, t)
        \/ Script[pc].does = "issue" /\ x \in Script[pc].carries /\ Script[pc].on = <<t>>
    BY <1>9, <2>3, WindowEntered
  <2>5. QED
    BY <1>5, <2>1, <2>2, <2>4
<1>10. ASSUME t \in There', r \notin There' PROVE Window(Script, Chosen, pc + 1, s, x, t)
  <2>1. CASE t \in There
    <3>1. Window(Script, Chosen, pc, s, x, t)
      BY <1>2, <1>6, <1>7, <1>10, <2>1 DEF KeyIsSafe
    <3>2. PICK i, k \in DOMAIN Script :
            /\ Script[k] = s /\ StoresAt(Script, x, t, i, k)
            /\ i < pc /\ pc <= k /\ Made(Script[i], Chosen)
      BY <3>1 DEF Window
    <3>3. pc # k
      <4>1. SUFFICES ASSUME c = s PROVE FALSE
        BY <1>5, <3>2
      <4>2. c.does \in Builds /\ ~Found(c) /\ Len(c.on) = 1
        BY <4>1 DEF StoredWith, Builds, Found
      <4>3. r \in Reached(c, Len(c.on))
        BY <1>2, <4>1, <4>2 DEF Reached
      <4>4. r \in There'
        BY <1>3, <4>2, <4>3, WorldBuilds DEF There
      <4>5. QED
        BY <1>10, <4>4
    <3>4. i < pc + 1 /\ pc + 1 <= k
      BY <1>5, <3>2, <3>3
    <3>5. QED
      BY <3>2, <3>4 DEF Window
  <2>2. CASE t \notin There
    <3>1. c.does \in Builds /\ t \in Whole(c)
      BY <1>3, <1>10, <2>2, NewIsReached DEF There, Whole
    <3>2. PICK k \in DOMAIN Script : Script[k] = s /\ StoresAt(Script, x, t, pc, k)
      BY <1>5, <3>1 DEF StoredWith
    <3>3. pc < pc + 1 /\ pc + 1 <= k
      BY <1>5, <3>2 DEF StoresAt
    <3>4. Made(Script[pc], Chosen)
      BY <1>3, <1>5 DEF LeftOut, Made
    <3>5. QED
      BY <1>5, <3>2, <3>3, <3>4 DEF Window
  <2>3. QED
    BY <2>1, <2>2
<1>11. QED
  BY <1>2, <1>3, <1>4, <1>9, <1>10 DEF KeyIsSafe


LEMMA PlanPlaces ==
    ASSUME TypeOK, NEW j \in Jobs
    PROVE  \A plan \in {Plan[j][product], Handler[j][product]} : DOMAIN plan \subseteq Nat \ {0}
<1>1. \A plan \in {Plan[j][product], Handler[j][product]} :
        Len(plan) \in Nat /\ DOMAIN plan = 1 .. Len(plan)
  BY PlanAssumption DEF TypeOK
<1>2. QED
  BY <1>1

LEMMA SafeStep ==
    ASSUME TypeOK, KeyInv, [Next]_vars, faults' = 0, NEW s \in AllSteps(product), NEW x, NEW t,
           StoredWith(product, s, x, t)
    PROVE  KeyIsSafe(s, x, t)'
<1>1. faults \in Nat /\ pc \in Nat \ {0}
  BY DEF TypeOK
<1>2. KeyIsSafe(s, x, t)
  BY DEF KeyInv
<1>3. product' = product /\ options' = options
  BY SameTenant DEF tenant
<1>4. CASE UNCHANGED vars
  BY <1>2, <1>4 DEF vars, tenant, KeyIsSafe, Busy, Script, Chosen, Value, There
<1>5. CASE Succeed
  BY <1>5, SafeGoesOn
<1>6. CASE Replay
  <2>1. /\ UNCHANGED <<world, mode, pc>> /\ There' = There /\ Busy' = Busy
        /\ Script' = Script /\ Chosen' = Chosen
    BY <1>3, <1>6 DEF Replay, Busy, Script, Chosen, There
  <2>2. Value(x) # 0 => Value(x)' # 0
    BY <1>6, ValueStays DEF Replay, Retry, Redeploy, Deprovision, Start
  <2>3. QED
    BY <1>2, <2>1, <2>2 DEF KeyIsSafe
<1>7. CASE Retry \/ Redeploy \/ Deprovision
  <2>1. ~Busy /\ There' = There /\ pc' = 1 /\ job' \in Jobs /\ mode' = "running"
    BY <1>7 DEF Retry, Redeploy, Deprovision, Start, Jobs, There
  <2>2. Script' \in {Plan[job'][product], Handler[job'][product]}
    BY <1>3 DEF Script
  <2>3. DOMAIN Script' \subseteq Nat \ {0}
    BY <2>1, <2>2, PlanPlaces
  <2>4. ~Window(Script, Chosen, pc, s, x, t)'
    BY <2>1, <2>3 DEF Window
  <2>5. QED
    BY <1>2, <2>1, <2>4 DEF KeyIsSafe
<1>8. CASE End
  <2>1. Busy /\ There' = There /\ ~Busy' /\ pc > Len(Script)
    BY <1>8 DEF End, Busy, There
  <2>2. ~AtStep
    <3>1. Script \in {Plan[job][product], Handler[job][product]}
      BY DEF Script
    <3>2. Len(Script) \in Nat
      BY <3>1, PlanAssumption DEF TypeOK
    <3>3. QED
      BY <1>1, <2>1, <3>2 DEF AtStep
  <2>3. ~Window(Script, Chosen, pc, s, x, t)
    BY <2>1, <2>2, InWindow
  <2>4. QED
    BY <1>2, <2>1, <2>3 DEF KeyIsSafe
<1>9. CASE LeaveOut \/ Obstruct
  <2>1. /\ AtStep /\ Busy /\ There' = There /\ UNCHANGED <<job, memo, version>>
        /\ LeftOut(Call) \/ Obstructed(Call)
        /\ (pc' = pc + 1 /\ mode' = mode) \/ pc' = 1 \/ ~Busy'
    BY <1>9 DEF LeaveOut, Obstruct, Calling, AtStep, Raise, Busy, There
  <2>2. ~Window(Script, Chosen, pc, s, x, t)
    BY <2>1, InWindow
  <2>3. ~(t \in There /\ s.on[1] \notin There)
    BY <1>2, <2>2 DEF KeyIsSafe
  <2>4. CASE pc' = pc + 1 /\ mode' = mode
    <3>1. Script' = Script /\ Chosen' = Chosen
      BY <1>3, <2>1, <2>4 DEF Script, Chosen
    <3>2. pc \in DOMAIN Script /\ Call = Script[pc] /\ DOMAIN Script \subseteq Nat
      BY <2>1, CallInScript
    <3>3. ~(Made(Script[pc], Chosen) /\ Alongside(Script[pc], Script[pc]))
      BY <2>1, <3>2 DEF Made, Alongside, LeftOut, Obstructed
    <3>4. ~Window(Script, Chosen, pc + 1, s, x, t)
      BY <1>1, <2>2, <3>2, <3>3, WindowEntered
    <3>5. QED
      BY <2>1, <2>3, <2>4, <3>1, <3>4 DEF KeyIsSafe
  <2>5. CASE pc' = 1
    <3>1. Script' \in {Plan[job][product], Handler[job][product]} /\ job \in Jobs
      BY <1>3, <2>1 DEF Script, TypeOK
    <3>2. DOMAIN Script' \subseteq Nat \ {0}
      BY <3>1, PlanPlaces
    <3>3. ~Window(Script, Chosen, pc, s, x, t)'
      BY <2>5, <3>2 DEF Window
    <3>4. QED
      BY <2>1, <2>3, <3>3 DEF KeyIsSafe
  <2>6. CASE ~Busy'
    BY <2>1, <2>3, <2>6 DEF KeyIsSafe
  <2>7. QED
    BY <2>1, <2>4, <2>5, <2>6
<1>10. CASE Repeat \/ GiveUp \/ StaleAttempt
  BY <1>1, <1>10 DEF Repeat, GiveUp, Fault, StaleAttempt
<1>11. QED
  BY <1>4, <1>5, <1>6, <1>7, <1>8, <1>9, <1>10 DEF Next

LEMMA KeyStep ==
    ASSUME TypeOK, StoresKeys(product), faults = 0 => KeyInv, [Next]_vars
    PROVE  (faults = 0 => KeyInv)'
<1> SUFFICES ASSUME faults' = 0 PROVE KeyInv'
  OBVIOUS
<1>1. faults = 0
  BY DEF TypeOK, Next, vars, LeaveOut, Succeed, Obstruct, Repeat, GiveUp, Fault, StaleAttempt,
         Replay, End, Retry, Redeploy, Deprovision, Start
<1>2. KeyInv /\ product' = product
  BY <1>1, SameTenant DEF tenant
<1>3. \A q \in There' : \A v \in world'[q] : v[2] # 0
  BY <1>2, NoBlankStep
<1>4. \A x : x \notin Issued(product) => Value(x)' # 0
  BY <1>2, ValueStep
<1>5. \A s \in AllSteps(product) : \A x, t :
        StoredWith(product, s, x, t) => KeyIsSafe(s, x, t)'
  BY <1>2, SafeStep
<1>6. QED
  BY <1>2, <1>3, <1>4, <1>5 DEF KeyInv

(* As long as no call goes wrong, whatever runs for the tenant, is replayed *)
(* or stopped by a call that can only raise: a product that stores a key    *)
(* right after its creation, and only where there is none, holds no key     *)
(* that was lost.                                                           *)
THEOREM KeysKept == Spec => [](StoresKeys(product) => KeysAreKept)
<1>1. Init => (StoresKeys(product) => (faults = 0 => KeyInv))
  <2> SUFFICES ASSUME Init PROVE KeyInv
    OBVIOUS
  <2>1. \A q \in There : \A v \in world[q] : v[2] # 0
    BY DEF Init, There
  <2>2. \A x : x \notin Issued(product) => Value(x) # 0
    BY DEF Init, Value, Unknown
  <2>3. \A i \in DOMAIN Script : ~(i < pc)
    BY OnboardingPlan DEF Init, Script
  <2>4. \A s, x, t : ~Window(Script, Chosen, pc, s, x, t)
    BY <2>3 DEF Window
  <2>5. There = Standing[product]
    BY DEF Init, There
  <2>6. ASSUME NEW s, NEW x, NEW t, StoredWith(product, s, x, t)
        PROVE  KeyIsSafe(s, x, t)
    BY <2>4, <2>5, <2>6 DEF StoredWith, KeyIsSafe
  <2>7. QED
    BY <2>1, <2>2, <2>6 DEF KeyInv
<1>2. TypeOK /\ (StoresKeys(product) => (faults = 0 => KeyInv)) /\ [Next]_vars =>
        (StoresKeys(product) => (faults = 0 => KeyInv))'
  <2> SUFFICES ASSUME TypeOK, StoresKeys(product) => (faults = 0 => KeyInv), [Next]_vars,
                      StoresKeys(product)'
               PROVE  (faults = 0 => KeyInv)'
    OBVIOUS
  <2>1. StoresKeys(product)
    BY SameTenant DEF tenant, StoresKeys, StoredWith
  <2>2. QED
    BY <2>1, KeyStep
<1>3. (StoresKeys(product) => (faults = 0 => KeyInv)) => (StoresKeys(product) => KeysAreKept)
  BY DEF KeyInv, KeysAreKept
<1>4. QED
  BY <1>1, <1>2, <1>3, TypeCorrect, PTL DEF Spec

-----------------------------------------------------------------------------
(* Secrets that agree                                                      *)

\* The workflows of the tenant may make the call.
OpenTo(s) == s.when \ {"deployment"} \subseteq options /\ s.unless \cap options = {}

\* What is held was written by a step.
HeldInv ==
    \A q \in There : \A v \in world[q] :
        \E s \in Writers(product, v[1]) : q \in Whole(s) /\ OpenTo(s)

\* What holds a secret that has a root has it from there, and so has the
\* workflow if nothing else tells it.
RootHolds(x, r) ==
    /\ \A q \in There : <<product, q>> \notin KnownStale =>
        \A v \in world[q] : v[1] = x /\ v[2] # 0 => r \in There /\ v \in world[r]
    /\ r \in There => \A v, w \in world[r] : v[1] = x /\ w[1] = x => v = w
    /\ ToldBy(product, x, r) =>
        /\ x \in DOMAIN memo
        /\ memo[x] # 0 => r \in There /\ <<x, memo[x]>> \in world[r]

\* A replay gives the workflow another secret of its own.
Exempt(x) == replays > 0 /\ x \notin Returned(product)

Knows(plan, x, n) ==
    \A i \in DOMAIN plan : i < n /\ Makes(plan, i, x) /\ Made(plan[i], Chosen) => x \in DOMAIN memo

\* What the steps after the m-th one, up to the n-th one, have replaced holds
\* the workflow's secret.
AsKnown(x, v) == v[1] = x => v[2] = Value(x) /\ (x \in Returned(product) => x \in DOMAIN memo)

Fresh(plan, x, m, n) ==
    \A i \in DOMAIN plan : \A q \in There :
        /\ m < i /\ i < n /\ Replaces(plan, i, q) /\ Made(plan[i], Chosen)
        /\ <<product, q>> \notin KnownStale
        => \A v \in world[q] : AsKnown(x, v)

Renewing(x) ==
    job # Remove /\ mode \in {"running", "ended"} /\ ~Exempt(x) =>
        /\ mode = "ended" => pc > Len(Plan[job][product])
        /\ job = Onboard \/ Plan[job][product] # << >>
        /\ Knows(Plan[job][product], x, pc)
        /\ \A m \in 0 .. Len(Plan[job][product]) :
            RenewsAfter(product, Plan[job][product], x, m) =>
                Fresh(Plan[job][product], x, m, pc)

SecretInv ==
    /\ HeldInv
    /\ \A x, r : RootedIn(product, x, r) => RootHolds(x, r)
    /\ \A x : Renewing(x)

\* A step that is made is open to the tenant.
LEMMA OpenCall ==
    ASSUME NEW s, ~LeftOut(s)
    PROVE  OpenTo(s) /\ Made(s, Chosen)
BY DEF LeftOut, OpenTo, Chosen, Made

\* So is one made wherever it is.
LEMMA OpenMade ==
    ASSUME NEW t, NEW s, CalledLike(t, s), OpenTo(s)
    PROVE  Made(t, Chosen)
BY DEF CalledLike, OpenTo, Chosen, Made

\* What a call writes is a secret it carries, and where it has it from.
LEMMA WrittenFrom ==
    ASSUME NEW s, NEW v \in Written(s)
    PROVE  /\ v[1] \in s.carries
           /\ s.does = "issue" => v = <<v[1], version>>
           /\ s.does # "issue" /\ s.sources = {} => v = <<v[1], Value(v[1])>>
           /\ s.does # "issue" /\ s.sources # {} => \E q \in s.sources \cap There : v \in world[q]
BY DEF Written

\* A resource holds what it held, unless it is written anew.
LEMMA WorldStays ==
    ASSUME NEW s, NEW n, NEW q \in There \cap DOMAIN World(s, n),
           s.does = "put" => q \notin Reached(s, n)
    PROVE  world[q] \subseteq World(s, n)[q]
BY DEF World, Upsert, Create, AddTo, There

LEMMA WorldPut ==
    ASSUME NEW s, NEW n, NEW q \in Reached(s, n), s.does = "put"
    PROVE  World(s, n)[q] = Written(s)
BY DEF World, Upsert

LEMMA WorldIssues ==
    ASSUME NEW s, NEW n, NEW q \in Reached(s, n), s.does = "issue", q \notin There
    PROVE  q \in DOMAIN World(s, n) /\ World(s, n)[q] = Written(s)
<1>1. World(s, n) = Create(s, n)
  BY DEF World
<1>2. QED
  BY <1>1 DEF Create

\* The workflow knows what it knew, or what the call has answered.
LEMMA MemoIs ==
    ASSUME NEW s, NEW x
    PROVE  /\ DOMAIN memo \subseteq DOMAIN Memo(s)
           /\ (\E v \in Answer(s) : v[1] = x) =>
                x \in DOMAIN Memo(s) /\ \E v \in Answer(s) : v[1] = x /\ v[2] = Memo(s)[x]
           /\ ~(\E v \in Answer(s) : v[1] = x) =>
                /\ x \in DOMAIN Memo(s) <=> x \in DOMAIN memo
                /\ x \in DOMAIN memo => Memo(s)[x] = memo[x]
<1> DEFINE new == Answer(s)
           mem == DOMAIN memo \cup {v[1] : v \in new}
           val(y) == IF \E v \in new : v[1] = y THEN (CHOOSE v \in new : v[1] = y)[2] ELSE memo[y]
<1>1. Memo(s) = [y \in mem |-> val(y)]
  BY DEF Memo
<1>2. DOMAIN memo \subseteq mem /\ ((\E v \in new : v[1] = x) => x \in mem)
      /\ (~(\E v \in new : v[1] = x) => (x \in mem <=> x \in DOMAIN memo))
  OBVIOUS
<1>3. (\E v \in new : v[1] = x) => \E v \in new : v[1] = x /\ v[2] = val(x)
  <2> SUFFICES ASSUME \E v \in new : v[1] = x PROVE \E v \in new : v[1] = x /\ v[2] = val(x)
    OBVIOUS
  <2>1. PICK w : w = CHOOSE v \in new : v[1] = x
    OBVIOUS
  <2>2. w \in new /\ w[1] = x
    BY <2>1
  <2>3. QED
    BY <2>1, <2>2
<1>4. ~(\E v \in new : v[1] = x) => val(x) = memo[x]
  OBVIOUS
<1> HIDE DEF mem, val
<1>5. DOMAIN Memo(s) = mem /\ (x \in mem => Memo(s)[x] = val(x))
  BY <1>1
<1>6. QED
  BY <1>2, <1>3, <1>4, <1>5

\* What a call answers is a secret it carries.
LEMMA AnswerFrom ==
    ASSUME NEW s, NEW v \in Answer(s)
    PROVE  /\ v[1] \in s.carries /\ s.does \in {"make", "fetch", "issue"}
           /\ s.does = "fetch" => s.on[1] \in There /\ v \in world[s.on[1]]
           /\ s.does = "issue" => s.on[1] \notin There /\ v = <<v[1], version>>
<1>1. CASE s.does = "make"
  BY <1>1 DEF Answer
<1>2. CASE s.does = "fetch"
  BY <1>2 DEF Answer, Held
<1>3. CASE s.does = "issue"
  BY <1>3 DEF Answer
<1>4. CASE s.does \notin {"make", "fetch", "issue"}
  BY <1>4 DEF Answer
<1>5. QED
  BY <1>1, <1>2, <1>3, <1>4

\* What is held was written by a step of the product.
LEMMA HeldStep == ASSUME TypeOK, HeldInv, [Next]_vars PROVE HeldInv'
<1>1. product' = product /\ options' = options
  BY SameTenant DEF tenant
<1>2. CASE UNCHANGED world
  BY <1>1, <1>2 DEF HeldInv, There, OpenTo
<1>3. CASE AtStep /\ ~LeftOut(Call) /\ \E n \in 0 .. Len(Call.on) : world' = World(Call, n)
  <2>1. PICK n \in 0 .. Len(Call.on) : world' = World(Call, n)
    BY <1>3
  <2>2. PICK s : s = Call
    OBVIOUS
  <2>3. s \in AllSteps(product) /\ Len(s.on) \in Nat /\ OpenTo(s)
    BY <1>3, <2>2, CallInScript, OpenCall
  <2>4. Reached(s, n) \subseteq Whole(s)
    BY <2>1, <2>2, <2>3, PartOfWhole
  <2>5. ASSUME NEW q \in There', NEW v \in world'[q]
        PROVE  \E t \in Writers(product, v[1]) : q \in Whole(t) /\ OpenTo(t)
    <3>1. CASE q \in There /\ v \in world[q]
      BY <3>1 DEF HeldInv
    <3>2. CASE s.does \in Builds /\ q \in Reached(s, n) /\ v \in Written(s)
      <4>1. s \in Writers(product, v[1])
        BY <2>3, <3>2, WrittenFrom DEF Writers
      <4>2. QED
        BY <2>3, <2>4, <3>2, <4>1
    <3>3. QED
      BY <2>1, <2>2, <3>1, <3>2, WorldHolds DEF There
  <2>6. QED
    BY <1>1, <2>5 DEF HeldInv, OpenTo
<1>4. QED
  BY <1>2, <1>3, StepsOfWorld

\* The root keeps what it holds.
LEMMA RootIsKept ==
    ASSUME NEW s \in AllSteps(product), Len(s.on) \in Nat, NEW n \in 0 .. Len(s.on),
           world' = World(s, n), NEW x, NEW r, RootedIn(product, x, r), r \in There
    PROVE  r \in There' /\ world'[r] = world[r]
<1>1. Reached(s, n) \subseteq Whole(s)
  BY PartOfWhole
<1>2. ASSUME s.does = "delete" PROVE r \notin Whole(s)
  <2>1. PICK plan \in Scripts(product) : s \in StepsOf(plan)
    BY DEF AllSteps
  <2>2. Whole(s) \subseteq Deleted(plan)
    BY <1>2, <2>1 DEF Deleted
  <2>3. QED
    BY <2>1, <2>2 DEF RootedIn, TakenAway
<1>3. r \in There'
  <2>1. CASE s.does = "delete"
    BY <1>1, <1>2, <2>1, WorldDeletes DEF There
  <2>2. CASE s.does # "delete"
    BY <2>2, WorldKeeps DEF There
  <2>3. QED
    BY <2>1, <2>2
<1>4. s.does \in Builds /\ r \in Reached(s, n) => s.does \in {"ensure", "issue"}
  BY <1>1 DEF RootedIn
<1>5. world[r] \subseteq world'[r]
  <2>1. s.does = "put" => r \notin Reached(s, n)
    BY <1>4 DEF Builds
  <2>2. QED
    BY <1>3, <2>1, WorldStays DEF There
<1>6. world'[r] \subseteq world[r]
  BY <1>3, <1>4, WorldHolds DEF There
<1>7. QED
  BY <1>3, <1>5, <1>6

\* What a call writes of the secret is what the root holds.
LEMMA WrittenFromRoot ==
    ASSUME NEW s \in AllSteps(product), s.does \in Builds, NEW x, NEW r,
           RootedIn(product, x, r), RootHolds(x, r),
           NEW v \in Written(s), v[1] = x, v[2] # 0, NEW q \in Whole(s),
           <<product, q>> \notin KnownStale, q # r
    PROVE  r \in There /\ v \in world[r]
<1>1. s \in Writers(product, x)
  BY WrittenFrom DEF Writers
<1>2. s.on # <<r>>
  <2>1. SUFFICES ASSUME s.on = <<r>> PROVE q = r
    OBVIOUS
  <2>2. Len(s.on) = 1 /\ s.on[1] = r
    BY <2>1
  <2>3. QED
    BY <2>2 DEF Whole, Reached
<1>3. ~Stales(product, s)
  BY DEF Stales
<1>4. CASE s.does # "issue" /\ s.sources # {}
           /\ \A t \in s.sources : <<product, t>> \notin KnownStale
  <2>1. PICK t \in s.sources \cap There : v \in world[t]
    BY <1>4, WrittenFrom
  <2>2. QED
    BY <1>4, <2>1 DEF RootHolds
<1>5. CASE s.sources = {} /\ ToldBy(product, x, r)
  <2>1. x \in s.carries /\ s.does # "issue"
    BY <1>2, <1>5, WrittenFrom DEF ToldBy
  <2>2. v = <<x, Value(x)>>
    BY <1>5, <2>1, WrittenFrom
  <2>3. v = <<x, memo[x]>> /\ memo[x] # 0
    BY <1>5, <2>2 DEF RootHolds, Value
  <2>4. QED
    BY <1>5, <2>3 DEF RootHolds
<1>6. QED
  BY <1>1, <1>2, <1>3, <1>4, <1>5 DEF RootedIn

\* A call leaves what has the secret from its root.
LEMMA RootCall ==
    ASSUME NEW s \in AllSteps(product), Len(s.on) \in Nat, NEW n \in 0 .. Len(s.on),
           world' = World(s, n), NEW x, NEW r, RootedIn(product, x, r), RootHolds(x, r)
    PROVE  /\ \A q \in There' : <<product, q>> \notin KnownStale =>
                \A v \in world'[q] : v[1] = x /\ v[2] # 0 => r \in There' /\ v \in world'[r]
           /\ r \in There' => \A v, w \in world'[r] : v[1] = x /\ w[1] = x => v = w
           /\ r \in There => r \in There' /\ world'[r] = world[r]
<1>1. Reached(s, n) \subseteq Whole(s)
  BY PartOfWhole
<1>2. r \in There => r \in There' /\ world'[r] = world[r]
  BY RootIsKept
<1>3. ASSUME NEW q \in There', <<product, q>> \notin KnownStale,
             NEW v \in world'[q], v[1] = x, v[2] # 0
      PROVE  r \in There' /\ v \in world'[r]
  <2>1. CASE q \in There /\ v \in world[q]
    BY <1>2, <1>3, <2>1 DEF RootHolds
  <2>2. CASE q = r
    BY <1>3, <2>2
  <2>3. CASE q # r /\ s.does \in Builds /\ q \in Reached(s, n) /\ v \in Written(s)
    BY <1>1, <1>2, <1>3, <2>3, WrittenFromRoot
  <2>4. QED
    BY <1>3, <2>1, <2>2, <2>3, WorldHolds DEF There
<1>4. ASSUME r \in There', NEW v \in world'[r], NEW w \in world'[r], v[1] = x, w[1] = x
      PROVE  v = w
  <2>1. CASE r \in There
    BY <1>2, <1>4, <2>1 DEF RootHolds
  <2>2. CASE r \notin There
    <3>1. s.does \in Builds /\ r \in Whole(s) /\ v \in Written(s) /\ w \in Written(s)
      BY <1>1, <1>4, <2>2, WorldHolds DEF There
    <3>2. s.sources = {}
      BY <3>1 DEF RootedIn
    <3>3. QED
      BY <1>4, <3>1, <3>2, WrittenFrom
  <2>3. QED
    BY <2>1, <2>2
<1>5. QED
  BY <1>2, <1>3, <1>4

\* And the workflow knows it from there.
LEMMA RootAnswer ==
    ASSUME TypeOK, NEW s \in AllSteps(product), Len(s.on) \in Nat, world' = World(s, Len(s.on)),
           memo' = Memo(s), NEW x, NEW r, RootedIn(product, x, r), RootHolds(x, r),
           ToldBy(product, x, r)
    PROVE  x \in DOMAIN memo' /\ (memo'[x] # 0 => r \in There' /\ <<x, memo'[x]>> \in world'[r])
<1>1. x \in DOMAIN memo /\ (memo[x] # 0 => r \in There /\ <<x, memo[x]>> \in world[r])
  BY DEF RootHolds
<1>2. x \in DOMAIN memo'
  BY <1>1, MemoIs
<1>3. Len(s.on) \in 0 .. Len(s.on)
  OBVIOUS
<1>4. r \in There => r \in There' /\ world'[r] = world[r]
  BY <1>3, RootIsKept
<1>5. CASE ~ \E v \in Answer(s) : v[1] = x
  BY <1>1, <1>2, <1>4, <1>5, MemoIs
<1>6. ASSUME NEW v \in Answer(s), v[1] = x, v[2] = memo'[x], memo'[x] # 0
      PROVE  r \in There' /\ <<x, memo'[x]>> \in world'[r]
  <2>1. x \in s.carries /\ s.does \in {"make", "fetch", "issue"}
    BY <1>6, AnswerFrom
  <2>2. CASE s.does = "fetch"
    <3>1. s.on[1] \in There /\ v \in world[s.on[1]] /\ <<product, s.on[1]>> \notin KnownStale
      BY <2>1, <2>2, AnswerFrom DEF ToldBy
    <3>2. r \in There /\ v \in world[r]
      BY <1>6, <3>1 DEF RootHolds
    <3>3. v \in STRING \X Nat
      BY <3>1 DEF TypeOK
    <3>4. v = <<x, memo'[x]>>
      BY <1>6, <3>3
    <3>5. QED
      BY <1>4, <3>2, <3>4
  <2>3. CASE s.does = "issue"
    <3>1. s.on = <<r>>
      BY <2>1, <2>3 DEF ToldBy
    <3>2. s.on[1] = r /\ Len(s.on) = 1
      BY <3>1
    <3>3. r \notin There /\ v = <<x, version>>
      BY <1>6, <2>3, <3>2, AnswerFrom
    <3>4. r \in Reached(s, Len(s.on))
      BY <3>2 DEF Reached
    <3>5. r \in There' /\ world'[r] = Written(s)
      BY <2>3, <3>3, <3>4, WorldIssues DEF There
    <3>6. <<x, version>> \in Written(s)
      BY <2>1, <2>3 DEF Written
    <3>7. QED
      BY <1>6, <3>3, <3>5, <3>6
  <2>4. QED
    BY <2>1, <2>2, <2>3 DEF ToldBy
<1>7. QED
  BY <1>2, <1>5, <1>6, MemoIs

\* The workflow learns from calls that are answered, and a new one starts
\* without knowing any key.
LEMMA StepsOfMemo ==
    ASSUME TypeOK, [Next]_vars
    PROVE  \/ UNCHANGED memo
           \/ memo' = Unknown(product) /\ UNCHANGED world
           \/ AtStep /\ world' = World(Call, Len(Call.on)) /\ memo' = Memo(Call)
BY DEF Next, vars, LeaveOut, Succeed, Calling, Effect, Obstruct, Repeat, GiveUp, Fault,
       StaleAttempt, Replay, End, Retry, Redeploy, Deprovision, Start

LEMMA RootStep ==
    ASSUME TypeOK, [Next]_vars, NEW x, NEW r, RootedIn(product, x, r), RootHolds(x, r)
    PROVE  RootHolds(x, r)'
<1>1. product' = product
  BY SameTenant DEF tenant
<1>2. /\ \A q \in There' : <<product, q>> \notin KnownStale =>
            \A v \in world'[q] : v[1] = x /\ v[2] # 0 => r \in There' /\ v \in world'[r]
      /\ r \in There' => \A v, w \in world'[r] : v[1] = x /\ w[1] = x => v = w
      /\ r \in There => r \in There' /\ world'[r] = world[r]
  <2>1. CASE UNCHANGED world
    BY <2>1 DEF RootHolds, There
  <2>2. CASE AtStep /\ \E n \in 0 .. Len(Call.on) : world' = World(Call, n)
    <3>1. PICK n \in 0 .. Len(Call.on) : world' = World(Call, n)
      BY <2>2
    <3>2. PICK s : s = Call
      OBVIOUS
    <3>3. s \in AllSteps(product) /\ Len(s.on) \in Nat
      BY <2>2, <3>2, CallInScript
    <3>4. QED
      BY <3>1, <3>2, <3>3, RootCall
  <2>3. QED
    BY <2>1, <2>2, StepsOfWorld
<1>3. ASSUME ToldBy(product, x, r)
      PROVE  x \in DOMAIN memo' /\ (memo'[x] # 0 => r \in There' /\ <<x, memo'[x]>> \in world'[r])
  <2>1. CASE UNCHANGED memo
    BY <1>2, <1>3, <2>1 DEF RootHolds
  <2>2. CASE memo' = Unknown(product)
    BY <1>3, <2>2 DEF ToldBy, Unknown
  <2>3. CASE AtStep /\ world' = World(Call, Len(Call.on)) /\ memo' = Memo(Call)
    <3>1. PICK s : s = Call
      OBVIOUS
    <3>2. s \in AllSteps(product) /\ Len(s.on) \in Nat
      BY <2>3, <3>1, CallInScript
    <3>3. QED
      BY <1>3, <2>3, <3>1, <3>2, RootAnswer
  <2>4. QED
    BY <2>1, <2>2, <2>3, StepsOfMemo
<1>4. QED
  BY <1>1, <1>2, <1>3 DEF RootHolds

\* A step that is made anew in every run is made where its options are chosen.
LEMMA MadeAnew ==
    ASSUME NEW s, Imperative(s), Made(s, Chosen)
    PROVE  ~LeftOut(s) /\ ~s.quiet
BY DEF Imperative, Made, LeftOut

\* What the workflow knows for good it does not learn anew.
LEMMA NothingNew ==
    ASSUME NEW plan, NEW k \in DOMAIN plan, NEW x, NEW m, k > m, m \in Nat, k \in Nat,
           RenewsAfter(product, plan, x, m),
           memo' = Memo(plan[k]), version' = version
    PROVE  Value(x)' = Value(x) /\ (x \in DOMAIN memo => x \in DOMAIN memo')
<1>1. PICK s : s = plan[k]
  OBVIOUS
<1>2. memo' = Memo(s)
  BY <1>1
<1>3. ~ \E v \in Answer(s) : v[1] = x
  BY <1>1, AnswerFrom DEF RenewsAfter
<1>4. /\ x \in DOMAIN memo' <=> x \in DOMAIN memo
      /\ x \in DOMAIN memo => memo'[x] = memo[x]
  BY <1>2, <1>3, MemoIs
<1>5. QED
  BY <1>4 DEF Value

\* A put after the m-th step writes what the workflow knows.
LEMMA WrittenFresh ==
    ASSUME TypeOK, HeldInv, NEW plan, Len(plan) \in Nat, DOMAIN plan = 1 .. Len(plan),
           NEW k \in DOMAIN plan, NEW x, NEW m \in Nat,
           k > m, RenewsAfter(product, plan, x, m), Knows(plan, x, k), Fresh(plan, x, m, k),
           ~LeftOut(plan[k]), plan[k].does \in Builds,
           NEW v \in Written(plan[k]), v[1] = x,
           NEW q \in Whole(plan[k]), <<product, q>> \notin KnownStale
    PROVE  AsKnown(x, v)
<1>1. PICK s : s = plan[k]
  OBVIOUS
<1>2. OpenTo(s) /\ v \in Written(s) /\ x \in s.carries
  BY <1>1, OpenCall, WrittenFrom
<1>3. ~Stales(product, s)
  BY <1>1 DEF Stales
<1>4. /\ s.does = "put"
      /\ \A t \in s.sources \cap Holders(product, x) :
            /\ <<product, t>> \notin KnownStale
            /\ \E i \in m + 1 .. k - 1 : Replaces(plan, i, t) /\ CalledLike(plan[i], s)
      /\ x \in Returned(product) =>
            \E i \in 1 .. m : Makes(plan, i, x) /\ CalledLike(plan[i], s)
  BY <1>1, <1>2, <1>3 DEF RenewsAfter
<1>5. CASE s.sources = {}
  <2>1. v = <<x, Value(x)>>
    BY <1>2, <1>4, <1>5, WrittenFrom
  <2>2. x \in Returned(product) => x \in DOMAIN memo
    <3>1. SUFFICES ASSUME x \in Returned(product) PROVE x \in DOMAIN memo
      OBVIOUS
    <3>2. PICK i \in 1 .. m : Makes(plan, i, x) /\ CalledLike(plan[i], s)
      BY <1>4, <3>1
    <3>3. Made(plan[i], Chosen)
      BY <1>2, <3>2, OpenMade
    <3>4. QED
      <4>1. i < k /\ i \in DOMAIN plan
        OBVIOUS
      <4>2. QED
        BY <3>2, <3>3, <4>1 DEF Knows
  <2>3. QED
    BY <2>1, <2>2 DEF AsKnown
<1>6. CASE s.sources # {}
  <2>1. PICK t \in s.sources \cap There : v \in world[t]
    BY <1>2, <1>4, <1>6, WrittenFrom
  <2>2. t \in Holders(product, x)
    BY <2>1 DEF HeldInv, Holders
  <2>3. PICK i \in m + 1 .. k - 1 : Replaces(plan, i, t) /\ CalledLike(plan[i], s)
    BY <1>4, <2>1, <2>2
  <2>4. Made(plan[i], Chosen)
    BY <1>2, <2>3, OpenMade
  <2>5. <<product, t>> \notin KnownStale /\ m < i /\ i < k /\ i \in DOMAIN plan
    BY <1>4, <2>1, <2>2, <2>3
  <2>6. QED
    BY <2>1, <2>3, <2>4, <2>5 DEF Fresh
<1>7. QED
  BY <1>5, <1>6

\* What was replaced holds what the workflow knows, after another call too.
LEMMA FreshKept ==
    ASSUME TypeOK, HeldInv, product' = product,
           NEW plan, Len(plan) \in Nat, DOMAIN plan = 1 .. Len(plan), NEW k \in DOMAIN plan,
           ~LeftOut(plan[k]), Len(plan[k].on) \in Nat, NEW n \in 0 .. Len(plan[k].on),
           world' = World(plan[k], n), NEW x, NEW m \in Nat,
           RenewsAfter(product, plan, x, m), Knows(plan, x, k), Fresh(plan, x, m, k),
           k > m => Value(x)' = Value(x) /\ (x \in DOMAIN memo => x \in DOMAIN memo'),
           NEW i \in DOMAIN plan, NEW q \in There', m < i, i < k, Replaces(plan, i, q),
           Made(plan[i], Chosen), <<product, q>> \notin KnownStale, NEW v \in world'[q]
    PROVE  AsKnown(x, v)'
<1>1. SUFFICES ASSUME v[1] = x PROVE AsKnown(x, v)'
  BY DEF AsKnown
<1>2. k > m
  OBVIOUS
<1>3. AsKnown(x, v)
  <2>1. CASE q \in There /\ v \in world[q]
    BY <2>1 DEF Fresh
  <2>2. CASE plan[k].does \in Builds /\ q \in Reached(plan[k], n) /\ v \in Written(plan[k])
    <3>1. q \in Whole(plan[k])
      BY <2>2, PartOfWhole
    <3>2. QED
      BY <1>1, <1>2, <2>2, <3>1, WrittenFresh
  <2>3. QED
    BY <2>1, <2>2, WorldHolds DEF There
<1>4. QED
  BY <1>2, <1>3 DEF AsKnown

\* And after the call that replaces it.
LEMMA FreshNow ==
    ASSUME TypeOK, HeldInv, product' = product,
           NEW plan, Len(plan) \in Nat, DOMAIN plan = 1 .. Len(plan), NEW k \in DOMAIN plan,
           ~LeftOut(plan[k]), world' = World(plan[k], Len(plan[k].on)), NEW x, NEW m \in Nat,
           RenewsAfter(product, plan, x, m), Knows(plan, x, k), Fresh(plan, x, m, k),
           k > m => Value(x)' = Value(x) /\ (x \in DOMAIN memo => x \in DOMAIN memo'),
           NEW q, m < k, Replaces(plan, k, q), <<product, q>> \notin KnownStale, NEW v \in world'[q]
    PROVE  AsKnown(x, v)'
<1>1. SUFFICES ASSUME v[1] = x PROVE AsKnown(x, v)'
  BY DEF AsKnown
<1>2. plan[k].does = "put" /\ plan[k].on = <<q>>
  BY DEF Replaces
<1>3. Len(plan[k].on) = 1 /\ plan[k].on[1] = q
  BY <1>2
<1>4. q \in Reached(plan[k], 1) /\ q \in Whole(plan[k])
  BY <1>3 DEF Reached, Whole
<1>5. v \in Written(plan[k])
  BY <1>2, <1>3, <1>4, WorldPut
<1>6. AsKnown(x, v)
  BY <1>1, <1>2, <1>4, <1>5, WrittenFresh DEF Builds
<1>7. QED
  BY <1>6 DEF AsKnown

\* A workflow that is renewing the secret goes on doing so.
LEMMA RenewsOn ==
    ASSUME TypeOK, HeldInv, UNCHANGED <<product, options, job, version>>,
           NEW plan, Len(plan) \in Nat, DOMAIN plan = 1 .. Len(plan), NEW k \in DOMAIN plan,
           Len(plan[k].on) \in Nat, NEW x,
           Knows(plan, x, k),
           \A m \in 0 .. Len(plan) : RenewsAfter(product, plan, x, m) => Fresh(plan, x, m, k),
           \/ world' = world
           \/ ~LeftOut(plan[k]) /\ \E n \in 0 .. Len(plan[k].on) : world' = World(plan[k], n),
           memo' = memo \/ memo' = Memo(plan[k]),
           NEW l, l = k \/ l = k + 1,
           l = k + 1 /\ Imperative(plan[k]) /\ Made(plan[k], Chosen)
                /\ plan[k].does \in {"put", "make"} =>
                world' = World(plan[k], Len(plan[k].on)) /\ memo' = Memo(plan[k])
    PROVE  /\ Knows(plan, x, l)'
           /\ \A m \in 0 .. Len(plan) : RenewsAfter(product, plan, x, m) => Fresh(plan, x, m, l)'
<1>1. Chosen' = Chosen
  BY DEF Chosen
<1>2. DOMAIN memo \subseteq DOMAIN memo'
  BY MemoIs
<1>3. ASSUME NEW i \in DOMAIN plan, i < l, Makes(plan, i, x), Made(plan[i], Chosen)
      PROVE  x \in DOMAIN memo'
  <2>1. CASE i < k
    BY <1>2, <1>3, <2>1 DEF Knows
  <2>2. CASE i = k /\ l = k + 1
    <3>1. plan[k].does = "make" /\ x \in plan[k].carries /\ memo' = Memo(plan[k])
      BY <1>3, <2>2 DEF Makes
    <3>2. PICK s : s = plan[k]
      OBVIOUS
    <3>3. <<x, version>> \in Answer(s)
      BY <3>1, <3>2 DEF Answer
    <3>4. QED
      BY <3>1, <3>2, <3>3, MemoIs
  <2>3. QED
    BY <1>3, <2>1, <2>2
<1>4. ASSUME NEW m \in 0 .. Len(plan), RenewsAfter(product, plan, x, m),
             NEW i \in DOMAIN plan, NEW q \in There', m < i, i < l, Replaces(plan, i, q),
             Made(plan[i], Chosen), <<product, q>> \notin KnownStale, NEW v \in world'[q]
      PROVE  AsKnown(x, v)'
  <2>1. Fresh(plan, x, m, k) /\ m \in Nat
    BY <1>4
  <2>2. k > m => Value(x)' = Value(x) /\ (x \in DOMAIN memo => x \in DOMAIN memo')
    <3>1. CASE memo' = memo
      BY <3>1 DEF Value
    <3>2. CASE memo' = Memo(plan[k])
      BY <1>4, <2>1, <3>2, NothingNew
    <3>3. QED
      BY <3>1, <3>2
  <2>3. CASE i < k /\ world' = world
    <3>1. AsKnown(x, v)
      BY <1>4, <2>1, <2>3 DEF Fresh, There
    <3>2. QED
      BY <1>4, <2>2, <2>3, <3>1 DEF AsKnown
  <2>4. CASE i < k /\ ~LeftOut(plan[k]) /\ \E n \in 0 .. Len(plan[k].on) : world' = World(plan[k], n)
    <3>1. PICK n \in 0 .. Len(plan[k].on) : world' = World(plan[k], n)
      BY <2>4
    <3>2. QED
      BY <1>4, <2>1, <2>2, <2>4, <3>1, FreshKept
  <2>5. CASE i = k /\ l = k + 1
    <3>1. Imperative(plan[k]) /\ plan[k].does = "put"
      BY <1>4, <2>5 DEF Replaces
    <3>2. ~LeftOut(plan[k]) /\ world' = World(plan[k], Len(plan[k].on))
      BY <1>4, <2>5, <3>1, MadeAnew
    <3>3. QED
      BY <1>4, <2>1, <2>2, <2>5, <3>2, FreshNow
  <2>6. QED
    BY <1>4, <2>3, <2>4, <2>5
<1>5. Knows(plan, x, l)'
  BY <1>1, <1>3 DEF Knows
<1>6. ASSUME NEW m \in 0 .. Len(plan), RenewsAfter(product, plan, x, m)
      PROVE  Fresh(plan, x, m, l)'
  BY <1>1, <1>4, <1>6 DEF Fresh
<1>7. QED
  BY <1>5, <1>6

\* A step in which the workflow gets no further than its next call.
LEMMA RenewGoesOn ==
    ASSUME TypeOK, HeldInv, NEW x, Renewing(x),
           LeaveOut \/ Succeed \/ Obstruct \/ Repeat \/ GiveUp \/ StaleAttempt,
           UNCHANGED tenant, job' # Remove, mode' \in {"running", "ended"}, ~Exempt(x)'
    PROVE  Renewing(x)'
<1>1. /\ AtStep /\ mode = "running" /\ mode' = "running"
      /\ UNCHANGED <<job, version, replays, product, options>>
      /\ memo' = memo \/ memo' = Memo(Call)
      /\ pc' = pc \/ pc' = pc + 1
  BY DEF LeaveOut, Succeed, Obstruct, Repeat, GiveUp, StaleAttempt, Fault, Calling, Raise,
         AtStep, Busy, tenant
<1>2. PICK plan : plan = Plan[job][product]
  OBVIOUS
<1>3. PICK k : k = pc
  OBVIOUS
<1>4. PICK l : l = pc'
  OBVIOUS
<1>5. PICK s : s = Call
  OBVIOUS
<1>6. /\ Script = plan /\ Len(plan) \in Nat /\ DOMAIN plan = 1 .. Len(plan)
      /\ k \in DOMAIN plan /\ s = plan[k] /\ Len(s.on) \in Nat
  BY <1>1, <1>2, <1>3, <1>5, CallInScript DEF Script
<1>7. ~Exempt(x) /\ job # Remove
  BY <1>1 DEF Exempt
<1>8. /\ job = Onboard \/ plan # << >>
      /\ Knows(plan, x, k)
      /\ \A m \in 0 .. Len(plan) : RenewsAfter(product, plan, x, m) => Fresh(plan, x, m, k)
  BY <1>1, <1>2, <1>3, <1>7 DEF Renewing
<1>9. world' = world \/ (~LeftOut(s) /\ \E n \in 0 .. Len(s.on) : world' = World(s, n))
  <2>1. [Next]_vars
    BY DEF Next
  <2>2. QED
    BY <1>5, <2>1, StepsOfWorld
<1>10. \/ l = k
       \/ ~(Imperative(s) /\ Made(s, Chosen) /\ s.does \in {"put", "make"})
       \/ world' = World(s, Len(s.on)) /\ memo' = Memo(s)
  <2>1. CASE LeaveOut \/ Obstruct \/ GiveUp
    <3>1. l = k \/ LeftOut(s) \/ s.quiet
      BY <1>1, <1>3, <1>4, <1>5, <2>1 DEF LeaveOut, Obstruct, GiveUp, Raise
    <3>2. QED
      BY <3>1, MadeAnew
  <2>2. CASE Succeed
    BY <1>5, <2>2 DEF Succeed, Effect
  <2>3. CASE Repeat
    BY <1>3, <1>4, <2>3 DEF Repeat
  <2>4. CASE StaleAttempt
    BY <1>5, <2>4 DEF StaleAttempt
  <2>5. QED
    BY <2>1, <2>2, <2>3, <2>4
<1>11. /\ Knows(plan, x, l)'
       /\ \A m \in 0 .. Len(plan) : RenewsAfter(product, plan, x, m) => Fresh(plan, x, m, l)'
  <2>1. Len(plan[k].on) \in Nat /\ (l = k \/ l = k + 1) /\ k # k + 1
    BY <1>1, <1>3, <1>4, <1>6 DEF TypeOK
  <2>2. memo' = memo \/ memo' = Memo(plan[k])
    BY <1>1, <1>5, <1>6
  <2>3. \/ world' = world
        \/ ~LeftOut(plan[k]) /\ \E n \in 0 .. Len(plan[k].on) : world' = World(plan[k], n)
    BY <1>6, <1>9
  <2>4. l = k + 1 /\ Imperative(plan[k]) /\ Made(plan[k], Chosen)
            /\ plan[k].does \in {"put", "make"} =>
        world' = World(plan[k], Len(plan[k].on)) /\ memo' = Memo(plan[k])
    BY <1>6, <1>10, <2>1
  <2>5. QED
    BY <1>1, <1>6, <1>8, <2>1, <2>2, <2>3, <2>4, RenewsOn
<1>12. Plan[job'][product'] = plan /\ job' = job /\ product' = product /\ mode' = "running"
  BY <1>1, <1>2
<1>13. QED
  BY <1>4, <1>8, <1>11, <1>12 DEF Renewing

LEMMA RenewStep ==
    ASSUME TypeOK, HeldInv, NEW x, Renewing(x), [Next]_vars
    PROVE  Renewing(x)'
<1>1. product' = product /\ options' = options /\ UNCHANGED tenant
  BY SameTenant DEF tenant
<1> SUFFICES ASSUME job' # Remove, mode' \in {"running", "ended"}, ~Exempt(x)'
             PROVE  Renewing(x)'
  BY DEF Renewing
<1>2. CASE LeaveOut \/ Succeed \/ Obstruct \/ Repeat \/ GiveUp \/ StaleAttempt
  BY <1>1, <1>2, RenewGoesOn
<1>3. CASE UNCHANGED vars
  <2>1. /\ UNCHANGED <<job, mode, pc, memo, version, world, replays>>
        /\ Chosen' = Chosen /\ There' = There
    BY <1>1, <1>3 DEF vars, Chosen, There
  <2>2. \A v : AsKnown(x, v)' <=> AsKnown(x, v)
    BY <1>1, <2>1 DEF AsKnown, Value
  <2>3. QED
    BY <1>1, <2>1, <2>2 DEF Renewing, Exempt, Knows, Fresh
<1>4. CASE Replay
  <2>1. /\ UNCHANGED <<job, mode, pc, memo, world>> /\ replays' = replays + 1
        /\ Chosen' = Chosen /\ There' = There
    BY <1>1, <1>4 DEF Replay, Chosen, There
  <2>2. replays' > 0
    BY <2>1 DEF TypeOK
  <2>3. x \in Returned(product) /\ ~Exempt(x)
    BY <1>1, <2>2 DEF Exempt
  <2>4. \A v : AsKnown(x, v) => AsKnown(x, v)'
    BY <1>1, <2>1, <2>3 DEF AsKnown, Value
  <2>5. QED
    BY <1>1, <2>1, <2>3, <2>4 DEF Renewing, Knows, Fresh
<1>5. CASE End
  <2>1. /\ mode = "running" /\ pc > Len(Script)
        /\ UNCHANGED <<job, pc, memo, version, world, replays>>
        /\ Chosen' = Chosen /\ There' = There
    BY <1>1, <1>5 DEF End, Busy, Chosen, There
  <2>2. Script = Plan[job][product] /\ ~Exempt(x)
    BY <1>1, <2>1 DEF Script, Exempt
  <2>3. QED
    BY <1>1, <2>1, <2>2 DEF Renewing, Knows, Fresh, AsKnown, Value
<1>6. CASE Retry \/ Redeploy \/ Deprovision
  <2>1. job' \in Jobs /\ mode' = "running" /\ pc' = 1
        /\ (job' = Onboard \/ Plan[job'][product] # << >>)
    BY <1>6 DEF Retry, Redeploy, Deprovision, Start, Jobs
  <2>2. PICK plan : plan = Plan[job'][product']
    OBVIOUS
  <2>3. DOMAIN plan \subseteq Nat \ {0} /\ Len(plan) \in Nat
    BY <1>1, <2>1, <2>2, PlanPlaces, PlanAssumption DEF TypeOK
  <2>4. Knows(plan, x, 1)' /\ \A m \in 0 .. Len(plan) : Fresh(plan, x, m, 1)'
    BY <2>3 DEF Knows, Fresh
  <2>5. QED
    BY <1>1, <2>1, <2>2, <2>4 DEF Renewing
<1>7. QED
  BY <1>2, <1>3, <1>4, <1>5, <1>6 DEF Next

\* Two resources that hold a secret with a root hold the root's.
LEMMA RootedAgree ==
    ASSUME NEW x, NEW r, RootHolds(x, r),
           NEW q \in There, NEW v \in world[q], <<product, q>> \notin KnownStale,
           NEW o \in There, NEW w \in world[o], <<product, o>> \notin KnownStale,
           v[1] = x, w[1] = x, v[2] # 0, w[2] # 0
    PROVE  v[2] = w[2]
BY DEF RootHolds

\* What holds a secret that a workflow has renewed holds the workflow's.
LEMMA RenewedIsKnown ==
    ASSUME TypeOK, HeldInv, NEW x, Renewing(x), Renewed(product, x), Onboarded, ~Exempt(x),
           NEW q \in There, NEW v \in world[q], <<product, q>> \notin KnownStale, v[1] = x
    PROVE  v[2] = Value(x)
<1>1. PICK plan : plan = Plan[job][product]
  OBVIOUS
<1>2. Len(plan) \in Nat /\ DOMAIN plan = 1 .. Len(plan) /\ pc \in Nat
  BY <1>1, PlanAssumption DEF TypeOK
<1>3. /\ pc > Len(plan) /\ (job = Onboard \/ plan # << >>)
      /\ \A m \in 0 .. Len(plan) : RenewsAfter(product, plan, x, m) => Fresh(plan, x, m, pc)
  BY <1>1 DEF Renewing, Onboarded
<1>4. job \in {Onboard, Renew}
  BY DEF TypeOK, Jobs, Onboarded
<1>5. PICK m \in 0 .. Len(plan) : RenewsAfter(product, plan, x, m)
  BY <1>1, <1>3, <1>4 DEF Renewed
<1>6. PICK t \in Writers(product, x) : q \in Whole(t) /\ OpenTo(t)
  BY DEF HeldInv
<1>7. PICK i \in DOMAIN plan : i > m /\ Replaces(plan, i, q) /\ CalledLike(plan[i], t)
  BY <1>5, <1>6 DEF RenewsAfter
<1>8. Made(plan[i], Chosen) /\ i < pc /\ m < i
  BY <1>2, <1>3, <1>6, <1>7, OpenMade
<1>9. AsKnown(x, v)
  BY <1>3, <1>5, <1>7, <1>8 DEF Fresh
<1>10. QED
  BY <1>9 DEF AsKnown

LEMMA SecretsDoAgree ==
    ASSUME TypeOK, KeepsSecrets(product), SecretInv
    PROVE  CredentialsAgree
<1> SUFFICES ASSUME Onboarded,
                    NEW q \in There, NEW v \in world[q], <<product, q>> \notin KnownStale,
                    NEW o \in There, NEW w \in world[o], <<product, o>> \notin KnownStale,
                    v[1] = w[1], v[2] # 0, w[2] # 0
             PROVE  v[2] = w[2] \/ (replays > 0 /\ v[1] \notin Returned(product))
  BY DEF CredentialsAgree
<1>1. PICK x : x = v[1]
  OBVIOUS
<1>2. PICK s \in Writers(product, x) : q \in Whole(s)
  BY <1>1 DEF SecretInv, HeldInv
<1>3. Renewed(product, x) \/ \E r \in Buildable(product) : RootedIn(product, x, r)
  BY <1>2 DEF KeepsSecrets, Writers
<1>4. CASE \E r \in Buildable(product) : RootedIn(product, x, r)
  <2>1. PICK r : RootedIn(product, x, r)
    BY <1>4
  <2>2. QED
    BY <1>1, <2>1, RootedAgree DEF SecretInv
<1>5. CASE Renewed(product, x)
  <2>1. CASE Exempt(x)
    BY <1>1, <2>1 DEF Exempt
  <2>2. CASE ~Exempt(x)
    <3>1. v[2] = Value(x) /\ w[2] = Value(x)
      BY <1>1, <1>5, <2>2, RenewedIsKnown DEF SecretInv
    <3>2. QED
      BY <3>1
  <2>3. QED
    BY <2>1, <2>2
<1>6. QED
  BY <1>3, <1>4, <1>5

(* For every number of runs and of troubles: when a tenant is built or      *)
(* renewed, everything that holds a secret holds the same one, if each      *)
(* secret of the product either has a root that is written once and that    *)
(* all the others have it from, or is written anew by every run wherever    *)
(* one of the product's workflows has ever written it.                      *)
THEOREM SecretsAgree == Spec => [](KeepsSecrets(product) => CredentialsAgree)
<1>1. Init => SecretInv
  <2> SUFFICES ASSUME Init PROVE SecretInv
    OBVIOUS
  <2>1. \A q \in There : world[q] = {}
    BY DEF Init, There
  <2>2. HeldInv
    BY <2>1 DEF HeldInv
  <2>3. ASSUME NEW x, NEW r, RootedIn(product, x, r) PROVE RootHolds(x, r)
    <3>1. ToldBy(product, x, r) => x \in DOMAIN memo /\ memo[x] = 0
      BY DEF ToldBy, Init, Unknown
    <3>2. QED
      BY <2>1, <3>1 DEF RootHolds
  <2>4. ASSUME NEW x PROVE Renewing(x)
    <3>1. PICK plan : plan = Plan[job][product]
      OBVIOUS
    <3>2. DOMAIN plan \subseteq Nat \ {0} /\ pc = 1 /\ job = Onboard /\ mode = "running"
      BY <3>1, OnboardingPlan DEF Init
    <3>3. Knows(plan, x, 1) /\ \A m \in 0 .. Len(plan) : Fresh(plan, x, m, 1)
      BY <3>2 DEF Knows, Fresh
    <3>4. QED
      BY <3>1, <3>2, <3>3 DEF Renewing
  <2>5. QED
    BY <2>2, <2>3, <2>4 DEF SecretInv
<1>2. TypeOK /\ SecretInv /\ [Next]_vars => SecretInv'
  <2> SUFFICES ASSUME TypeOK, SecretInv, [Next]_vars PROVE SecretInv'
    OBVIOUS
  <2>1. product' = product
    BY SameTenant DEF tenant
  <2>2. HeldInv'
    BY HeldStep DEF SecretInv
  <2>3. \A x, r : RootedIn(product, x, r) => RootHolds(x, r)'
    BY RootStep DEF SecretInv
  <2>4. \A x : Renewing(x)'
    BY RenewStep DEF SecretInv
  <2>5. QED
    BY <2>1, <2>2, <2>3, <2>4 DEF SecretInv
<1>3. TypeOK /\ SecretInv => (KeepsSecrets(product) => CredentialsAgree)
  BY SecretsDoAgree
<1>4. QED
  BY <1>1, <1>2, <1>3, TypeCorrect, PTL DEF Spec
=============================================================================
