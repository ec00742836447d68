----------------------------- MODULE DexitPlan ------------------------------
(***************************************************************************)
(* The Dexit onboarding workflow, src/app/cli/temporal/dexit/workflows/    *)
(* commonOnboardingScript.py, after the approval, and deprovisioning.py.   *)
(* The deployment workflow runs the onboarding without approval, status    *)
(* and mails: the steps of a tenant that is not in option "deployment".    *)
(* Every password is the result of an activity, so a replay returns the    *)
(* same one.                                                               *)
(***************************************************************************)
EXTENDS Activities

\* The database, the realm of the help desk and the user of the reports are
\* there before any tenant; a Jeeves tenant of the same name has its provider
\* in the help desk of Jeeves.
DexitStanding == {DB("dexit"), Realm("dexithelp"), Role("dexit_superset_ro"), IdP("help")}

DexitPostgres ==
    << CreatePasswordActivity("pg_password"),
       PostgresUserCreationActivity("dexit", "pg_password"),
       PostgresSupavisorPollUserActivity("dexit", "pg_password"),
       OnePasswordCreateOrUpdateActivity("pg_password", {"pg_password"}),
       PostgresSchemaCreationActivity("dexit", "tenant", "dexit"),
       PostgresGrantAccessToUserActivity("dexit", "dexit", {"tenant"}) >>

DexitSuperset ==
    << CreatePasswordActivity("superset_password"),
       SupersetTenantSetupActivity("tenant", "superset_password"),
       OnePasswordCreateOrUpdateActivity("superset_base_url", {}),
       OnePasswordCreateOrUpdateActivity("superset_username", {}),
       OnePasswordCreateOrUpdateActivity("superset_password", {"superset_password"}) >>

DexitNamespace ==
    << KeycloakUserMappingActivity("dexit", "dexit"),
       PostgresGrantAllPrivilegesOnTableActivity("dexit", "dexit"),
       K8sNamespaceCreationActivity("tenant"),
       K8sSecretCreationActivity("tenant", "registrycred", {}) >>

\* The identifiers are those of the row found or inserted.
DexitBilling ==
    << InsertSubscriptionDetailsActivity,
       OnePasswordCreateOrUpdateActivity("external_customer_id", {}),
       OnePasswordCreateOrUpdateActivity("lago_subscription_id", {}) >>
    \o LagoSetupActivity({})

DexitFax ==
    DexitNovuSetupActivity
    \o << CreatePasswordActivity("webhook_secret"),
          OnePasswordInsertIfNotExistsActivity("webhook_secret", {"webhook_secret"}) >>
    \o FaxSetupActivity

\* The client is part of the realm's template.
DexitKeycloak ==
    << KeycloakRealmSetupActivity("tenant", {}),
       Ensure("KeycloakRealmSetupActivity", Client("tenant", "dexit")),
       KeycloakCreateClientRolesActivity("tenant", "dexit"),
       KeycloakCreateCompositeRolesActivity("tenant", "dexit"),
       CreatePasswordActivity("service_account_secret"),
       OnePasswordCreateOrUpdateActivity("service_account_secret",
                                         {"service_account_secret"}),
       KeycloakServiceAccountSetupActivity("tenant", "service-account",
                                           {"service_account_secret"}),
       KeycloakAssignServiceAccountRoleActivity("tenant", "service-account", "Admin",
                                                {Roles("tenant", "dexit")}),
       DexitKeycloakCreateIDPFlowActivity("dexithelp"),
       KeycloakCreateTenantCustomerAdminUserActivity("tenant", {Roles("tenant", "dexit")}) >>

DexitUi ==
    << CreateCloudflareDNSRecordActivity("tenant.api"),
       CreateCloudflareBucketActivity("tenant"),
       LinkBucketToDomainActivity("tenant"),
       UpdateCORSForBucketActivity("tenant"),
       PropagateDNSRecordActivity(Record("tenant.api")),
       CopyArtifactsToBucketActivity("tenant") >>

\* Whether the token existed before is not looked at: keys that were lost are
\* stored as None.
DexitBucketKeys ==
    << CreateCloudflareBucketCredentialsActivity("tenant", "s3_key"),
       OnePasswordInsertIfNotExistsActivity("s3_bucket_name", {}),
       OnePasswordInsertIfNotExistsActivity("s3_access_key", {"s3_key"}),
       OnePasswordInsertIfNotExistsActivity("s3_secret_key", {"s3_key"}) >>

DexitRedis ==
    << CreatePasswordActivity("redis_password"),
       K8sSecretCreationActivity("tenant", "dexit-redis", {"redis_password"}),
       RedisSetupActivity("tenant", "redis_password"),
       OnePasswordCreateOrUpdateActivity("redis_dns", {"redis_password"}) >>

DexitWorkerSettings ==
    << CreatePasswordActivity("worker_password"),
       OnePasswordCreateOrUpdateActivity("worker_username", {}),
       OnePasswordCreateOrUpdateActivity("worker_password", {"worker_password"}),
       OnePasswordCreateOrUpdateActivity("cf_api_token", {}),
       OnePasswordCreateOrUpdateActivity("cf_account_id", {}),
       OnePasswordCreateOrUpdateActivity("cf_kv_namespace_id", {}),
       OnePasswordCreateOrUpdateActivity("cf_queue_id", {}) >>

\* The secrets the templates of the configuration refer to.
DexitSecrets == {"pg_password", "redis_password", "worker_password", "webhook_secret",
                 "s3_key", "superset_password", "service_account_secret"}

DexitVaults == {V("pg_password"), V("redis_dns"), V("worker_password"),
                V("webhook_secret"), V("s3_access_key"), V("s3_secret_key"),
                V("superset_password"), V("service_account_secret")}

DexitConfiguration ==
    << K8sConfigMapCreationActivity("tenant", "dexit-app-config", DexitSecrets, DexitVaults),
       DatabaseMigrationJobActivity("tenant", "dexit-dbmate-migration-job", {"pg_password"}),
       PostgresGrantSupersetReadOnlyActivity("dexit", "tenant", "dexit",
                                             "dexit_superset_ro") >>

DexitNetwork ==
    << KubernetesServiceActivity("tenant", "dexit"),
       KubernetesIstioVirtualServiceActivity("tenant", "dexit-vs"),
       WorkersKVConfigUploadActivity("tenant", DexitSecrets, DexitVaults),
       KubernetesDeploymentActivity("tenant", "dexit", {"pg_password"}),
       TemporalNamespaceActivity("dexit_tenant"),
       TemporalSearchAttributesCreationActivity("dexit_tenant") >>

\* One deployment for each of the six kinds of workers.
DexitWorkers ==
    << "dexit-worker-all", "dexit-worker-dsl", "dexit-worker-dslp",
       "dexit-worker-event", "dexit-worker-ml", "dexit-training-worker" >>

DexitServers ==
    [i \in DOMAIN DexitWorkers |->
        KubernetesDeploymentActivity("tenant", DexitWorkers[i], {"pg_password"})]
    \o << VMPodScrapperActivity("tenant", "dexit-metrics"),
          CheckPodRunningStatusActivity(<<"deployment", "tenant", "dexit">>) >>
    \o [i \in DOMAIN DexitWorkers |->
        CheckPodRunningStatusActivity(<<"deployment", "tenant", DexitWorkers[i]>>)]

DexitScaling ==
    << When({"zsegment"}, ZSegmentSetupActivity),
       KedaApplyTemplatedYamlActivity("tenant", "temporal-worker-all"),
       KedaApplyTemplatedYamlActivity("tenant", "temporal-worker-dsl"),
       KedaApplyTemplatedYamlActivity("tenant", "temporal-worker-dslp"),
       KedaApplyTemplatedYamlActivity("tenant", "temporal-worker-event") >>

\* _deploy_dicom_server
DexitDicom ==
    AllWhen({"dicom"},
        << CreatePasswordActivity("pg_dicom_password"),
           PostgresDatabaseCreationActivity("dexit_dicom"),
           PostgresUserCreationActivity("dexit_dicom", "pg_dicom_password"),
           OnePasswordCreateOrUpdateActivity("pg_dicom_password", {"pg_dicom_password"}),
           PostgresGrantAccessToUserActivity("dexit_dicom", "dexit_dicom", {}),
           K8sConfigMapCreationActivity("tenant", "dexit-dicom-config",
               {"pg_dicom_password"}, {V("pg_dicom_password")}),
           KubernetesDeploymentActivity("tenant", "dexit-dicom", {}),
           KubernetesServiceActivity("tenant", "dexit-dicom"),
           CheckPodRunningStatusActivity(<<"deployment", "tenant", "dexit-dicom">>) >>)

\* self.is_onboarding
DexitEnd ==
    AllUnless({"deployment"},
        << UpdateTenantStatusActivity("Provisioned"),
           SendAfterProvisioningMailActivity("tenant") >>)

DexitOnboarding ==
    DexitPostgres \o DexitSuperset \o DexitNamespace \o DexitBilling \o DexitFax
        \o DexitKeycloak \o DexitUi \o DexitBucketKeys \o DexitRedis
        \o DexitWorkerSettings \o DexitConfiguration \o DexitNetwork
        \o DexitServers \o DexitScaling \o DexitDicom \o DexitEnd

DexitFailure ==
    AllUnless({"deployment"}, << UpdateTenantStatusActivity("ProvisioningFailed") >>)
-----------------------------------------------------------------------------
\* The teardown (the workers' scrapers it deletes were never made): neither the
\* database nor the realm, the vault, the bucket, the accounts at the services
\* or the scaling are taken away.

DexitStopServer ==
    << DeleteKubernetesServiceActivity("tenant", "dexit"),
       DeleteKubernetesServiceActivity("tenant", "dexit-dicom"),
       DeleteKubernetesIstioVirtualServiceActivity("tenant", "dexit-vs"),
       VMPodScrapperDeletionActivity("tenant", "dexit-metrics") >>
    \o [i \in DOMAIN DexitWorkers |->
        VMPodScrapperDeletionActivity("tenant", DexitWorkers[i])]
    \o << DeploymentDeletionActivity("tenant", "dexit"),
          DeploymentDeletionActivity("tenant", "dexit-dicom") >>
    \o [i \in DOMAIN DexitWorkers |->
        DeploymentDeletionActivity("tenant", DexitWorkers[i])]

\* The provider taken away is `jeeves-<tenant>' of the realm `help', not that of
\* this tenant.
DexitDeleteConfiguration ==
    << DeleteK8sConfigMapActivity("tenant", "dexit-app-config"),
       DeleteK8sConfigMapActivity("tenant", "dexit-dicom-config"),
       RedisDeleteNamespaceActivity("tenant"),
       DeleteIdpFromHelpinstanceActivity("help"),
       DeleteCloudflareDNSRecordActivity("tenant.api"),
       UpdateTenantStatusActivity("DeProvisioned") >>

DexitDeprovisioning == DexitStopServer \o DexitDeleteConfiguration

DexitDeprovisionFailure == << UpdateTenantStatusActivity("DeprovisioningFailed") >>
=============================================================================
