-------------------------- MODULE PaidProvisioning --------------------------
(***************************************************************************)
(* What self sign-up promises to the company and to its customer: an       *)
(* environment is built only for a customer who paid, the sign-up pages    *)
(* tell nobody that his environment is on its way before that, and they    *)
(* tell him that it is there only when a build of it has begun.            *)
(***************************************************************************)
VARIABLES
    paid,   \* the customer paid for some subscription
    env,    \* his environment: "none", "building" or "built" (maybe badly)
    shown   \* what the pages answer: "signup", "in_progress", "provisioned"

vars == <<paid, env, shown>>

Shown == {"signup", "in_progress", "provisioned"}

Init == paid = FALSE /\ env = "none" /\ shown = "signup"

Pay == ~paid /\ paid' = TRUE /\ UNCHANGED <<env, shown>>

\* Also again: a second attempt rebuilds what is there.
Build ==
    /\ paid
    /\ env' = "building"
    /\ UNCHANGED <<paid, shown>>

Close ==
    /\ env = "building"
    /\ env' = "built"
    /\ shown' \in {shown, "in_progress"}
    /\ UNCHANGED paid

Show ==
    /\ shown' \in Shown
    /\ shown' # "signup" => paid
    /\ shown' = "provisioned" => env # "none"
    /\ UNCHANGED <<paid, env>>

Next == Pay \/ Build \/ Close \/ Show

Spec == Init /\ [][Next]_vars
=============================================================================
