---------------------------- MODULE ProductPlans ----------------------------
(***************************************************************************)
(* The plans of all products, by job: the workflows a worker is configured *)
(* to run (cli_settings.py).  "space" is the creation of one more space of *)
(* an onboarded Jeeves tenant.  The deprovisioning of Penknife calls no    *)
(* activity, that of HDP, Zsegment and Muspell does not exist; Dexit's     *)
(* deployment names a queue that is not defined and never starts.          *)
(***************************************************************************)
EXTENDS HdpPlan, PricedxPlan, VeritablePlan, PenknifePlan, PractiflyPlan,
        ZsegmentPlan, DexitPlan, MuspellPlan, JeevesPlan

AllProducts == {"hdp", "pricedx", "veritable", "penknife", "practifly",
                "zsegment", "dexit", "muspell", "jeeves", "space"}

Nothing == [p \in AllProducts |-> << >>]

AllPlans ==
    [onboarding |->
        [hdp |-> HdpOnboarding, pricedx |-> PricedxOnboarding,
         veritable |-> VeritableOnboarding, penknife |-> PenknifeOnboarding,
         practifly |-> PractiflyOnboarding, zsegment |-> ZsegmentOnboarding,
         dexit |-> DexitOnboarding, muspell |-> MuspellOnboarding,
         jeeves |-> JeevesOnboarding, space |-> JeevesSpaceCreation],
     deployment |->
        [Nothing EXCEPT !.veritable = VeritableDeployment, !.jeeves = JeevesOnboarding],
     deprovisioning |->
        [Nothing EXCEPT !.pricedx = PricedxDeprovisioning,
                        !.veritable = VeritableDeprovisioning,
                        !.practifly = PractiflyDeprovisioning,
                        !.dexit = DexitDeprovisioning,
                        !.jeeves = JeevesDeprovisioning]]

AllHandlers ==
    [onboarding |->
        [hdp |-> HdpFailure, pricedx |-> PricedxFailure, veritable |-> VeritableFailure,
         penknife |-> PenknifeFailure, practifly |-> PractiflyFailure,
         zsegment |-> ZsegmentFailure, dexit |-> DexitFailure,
         muspell |-> MuspellFailure, jeeves |-> JeevesFailure,
         space |-> JeevesSpaceFailure],
     deployment |-> [Nothing EXCEPT !.jeeves = JeevesFailure],
     deprovisioning |->
        [Nothing EXCEPT !.veritable = VeritableDeprovisionFailure,
                        !.practifly = PractiflyDeprovisionFailure,
                        !.dexit = DexitDeprovisionFailure]]

AllStanding ==
    [hdp |-> {}, pricedx |-> PricedxStanding, veritable |-> {},
     penknife |-> PenknifeStanding, practifly |-> PractiflyStanding,
     zsegment |-> ZsegmentStanding, dexit |-> DexitStanding,
     muspell |-> MuspellStanding, jeeves |-> JeevesStanding,
     space |-> JeevesSpaceStanding]

\* Every step is made with its condition true for some of these options, and
\* with its condition false for others.
AllOptions ==
    [[p \in AllProducts |-> {{}}] EXCEPT
        !.dexit   = {{}, {"dicom", "zsegment"}},
        !.muspell = {{"ro_role"}, {"ro_role", "ui", "applications", "production"}},
        !.jeeves  = {{}, {"production"}},
        !.zsegment = {{}, {"production"}}]
=============================================================================
