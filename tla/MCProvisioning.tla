--------------------------- MODULE MCProvisioning ---------------------------
(***************************************************************************)
(* The instance of Provisioning for TLC: the plans of the products, and    *)
(* the places where they fall short of its properties.  A property is      *)
(* checked of everything else; an exception is an entry of README.md.      *)
(***************************************************************************)
EXTENDS Provisioning, ProductPlans

\* A second run makes a new password, these keep the one of the first: the
\* operations that write them find something there and leave it alone.  For
\* Lago it is the identifier of the customer, new with every run.
Stale ==
    {<<"dexit", Client("tenant", "service-account")>>,
     <<"penknife", Client("tenant", "penknife-auth")>>,
     <<"muspell", <<"keda", "tenant", "roi-export-scaledjob">>>>,
     <<"muspell", <<"starrocksuser", "muspell">>>>,
     <<"zsegment", <<"lago", "customer">>>>,
     <<"zsegment", <<"lago", "subscription">>>>}

\* Inserted without a look (chatwoot, the audit of Penknife's user, the Lago
\* customer with its new identifier), found only under a key that the first
\* attempt did not store (the access key at Sinch), or looked for by two
\* attempts at once (rows of the database).
TwiceBuilt ==
    {<<"dexit", <<"row", "subscription">>>>,
     <<"dexit", <<"sinch", "accesskey">>>>,
     <<"jeeves", <<"row", "space">>>>,
     <<"jeeves", <<"chatwoot", "account">>>>, <<"jeeves", <<"chatwoot", "user">>>>,
     <<"space", <<"chatwoot", "account">>>>, <<"space", <<"chatwoot", "user">>>>,
     <<"penknife", <<"subscriptionmapping", "tenant">>>>,
     <<"penknife", <<"useraudit", "tenant">>>>,
     <<"zsegment", <<"lago", "customer">>>>, <<"zsegment", <<"lago", "subscription">>>>}

\* Created after what a repeated attempt finds: the mappers of an identity
\* provider, the body of the layout, the primary provider of mails, the token of
\* the bot.  And what activities build that only log their errors: the identity
\* providers of the help desk and of Muspell, the key at Sinch, the templates of
\* Jeeves, the grant for PostHog.
HalfBuilt ==
    {<<"penknife", Mappers("tenant")>>}
    \cup {<<"muspell", IdP("tenant")>>, <<"muspell", Mappers("tenant")>>}
    \cup {<<"dexit", q>> : q \in
        {IdP("dexithelp"), Mappers("dexithelp"), <<"novu", "primary">>,
         <<"sinch", "accesskey">>, V("sinch_access_key"), V("sinch_access_key_secret")}}
    \cup {<<"jeeves", IdP("help")>>, <<"jeeves", Mappers("help")>>}
    \cup {"jeeves", "space"} \X
        {<<"novu", "layout">>, <<"novu", "layoutbody">>, <<"novu", "workflow">>,
         <<"novu", "primary">>, V("chatwoot_bot_token"), Grant("posthog", "jeeves")}

\* A retry after the tenant's resource was created is refused; the role cannot
\* be dropped while it owns the schema; two activities are not registered with
\* the worker that is to run them; the account is looked for under a name the
\* onboarding does not store it under.
Obstacles ==
    {<<"practifly", "onboarding", "TenantCrdExistsActivity">>,
     <<"veritable", "onboarding", "TenantCrdExistsActivity">>,
     <<"jeeves", "onboarding", "SlackNotificationActivity">>,
     <<"jeeves", "deployment", "SlackNotificationActivity">>,
     <<"pricedx", "deprovisioning", "DeletePostgresUserActivity">>,
     <<"pricedx", "deprovisioning", "DeleteIdpFromHelpinstanceActivity">>,
     <<"jeeves", "deprovisioning", "DeletePostgresUserActivity">>,
     <<"jeeves", "deprovisioning", "DeleteChatwootAccountActivity">>}

\* The scaling of the workers is not taken away.
Leftovers ==
    {<<"dexit", <<"keda", "tenant", w>>>> :
        w \in {"temporal-worker-all", "temporal-worker-dsl", "temporal-worker-dslp",
               "temporal-worker-event"}}
    \cup {<<"veritable", <<"keda", "tenant", w>>>> : w \in {"worker", "worker-critical"}}

\* The Jeeves tenant of the same name loses its provider in the help desk.
Taken == {<<"dexit", IdP("help")>>}

\* Their teardowns have no failure handler.
Silent == {"pricedx", "jeeves"}

\* What the theorems of ProvisioningProofs ask of a product. Chatwoot's accounts
\* are found by what is stored last; Jeeves' teardown leaves its scaling, and does
\* not get to its end.
ASSUME WholeStepsAssumption == \A p \in AllProducts \ {"jeeves", "space"} : WholeSteps(p)
ASSUME ClearsAllAssumption ==
    \A p \in {"pricedx", "veritable", "practifly", "dexit"} : ClearsAll(p)

\* What those of ProvisioningSafetyProofs ask. A second answer about the key of
\* Veritable's bucket comes from the vault; Jeeves' chatwoot account is not what
\* its activity looks for, and its teardown takes the provider away alone; the
\* installer's secret of Zsegment and Muspell is read and written back.
ASSUME StoresKeysAssumption == \A p \in AllProducts \ {"veritable"} : StoresKeys(p)
ASSUME BuildsOnceAssumption == \A p \in AllProducts \ {"jeeves"} : BuildsOnce(p)
ASSUME NeverRaisesAssumption ==
    \A p \in AllProducts \ {"jeeves", "space"} : NeverRaises(p)
ASSUME TellsFailureAssumption ==
    \A p \in {"veritable", "practifly", "dexit"} : TellsFailure(p)
ASSUME KeepsSecretsAssumption ==
    \A p \in AllProducts \ {"zsegment", "muspell"} : KeepsSecrets(p)
ASSUME SparesOthersAssumption == \A p \in AllProducts : SparesOthers(p)
=============================================================================
