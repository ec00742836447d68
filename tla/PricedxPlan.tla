---------------------------- MODULE PricedxPlan ----------------------------
(***************************************************************************)
(* The PriceDx onboarding and deprovisioning workflows,                    *)
(* src/app/cli/temporal/pricedx/workflows/: their activities in order.     *)
(* Both passwords are generated in the code of the onboarding workflow.    *)
(***************************************************************************)
EXTENDS Activities

\* The database of all tenants is there before any of them.
PricedxStanding == {DB("pricedx")}

PricedxPostgres ==
    << PostgresUserCreationActivity("pricedx", "pg_password"),
       OnePasswordCreateOrUpdateActivity("pg_password", {"pg_password"}),
       PostgresSupavisorPollUserActivity("pricedx", "pg_password"),
       OnePasswordCreateOrUpdateActivity("pg_dsn", {"pg_password"}),
       PostgresSchemaCreationActivity("pricedx", "tenant", "pricedx"),
       OnePasswordCreateOrUpdateActivity("pg_schema_name", {}),
       PostgresGrantAccessToUserActivity("pricedx", "pricedx", {"tenant"}) >>

PricedxNamespace ==
    << K8sNamespaceCreationActivity("tenant"),
       K8sSecretCreationActivity("tenant", "registrycred", {}),
       RedisSetupActivity("pricedx", "redis_password"),
       OnePasswordCreateOrUpdateActivity("redis_password", {"redis_password"}),
       OnePasswordCreateOrUpdateActivity("redis_dsn", {}) >>

PricedxBucket ==
    << CreateCloudflareDNSRecordActivity("tenant.api"),
       CreateCloudflareBucketActivity("tenant"),
       LinkBucketToDomainActivity("tenant"),
       UpdateCORSForBucketActivity("tenant"),
       CopyArtifactsToBucketActivity("tenant"),
       OnePasswordInsertIfNotExistsActivity("base_url_cdn", {}),
       K8sConfigMapCreationActivity("tenant", "pricedx-tenant-config",
           {"pg_password", "redis_password"}, {V("pg_dsn"), V("redis_password")}) >>

PricedxKeycloak ==
    << KeycloakRealmSetupActivity("tenant", {}),
       KeycloakClientSetupActivity("tenant", "pricedx", {}),
       KeycloakCreateClientRolesActivity("tenant", "pricedx"),
       KeycloakCreateTenantCustomerAdminUserActivity("tenant", {Roles("tenant", "pricedx")}),
       KeycloakCreateInternalUsersActivity("tenant", {Roles("tenant", "pricedx")}) >>

PricedxServer ==
    << KubernetesServiceActivity("tenant", "pricedx"),
       KubernetesIstioVirtualServiceActivity("tenant", "pricedx-vs"),
       KubernetesDeploymentActivity("tenant", "pricedx", {"pg_password"}),
       VMPodScrapperActivity("tenant", "pricedx-metrics"),
       PropagateDNSRecordActivity(Record("tenant.api")),
       CheckPodRunningStatusActivity(<<"deployment", "tenant", "pricedx">>) >>

PricedxEnd ==
    << UpdateTenantStatusActivity("Provisioned"),
       SendAfterProvisioningMailActivity("tenant") >>

PricedxOnboarding ==
    PricedxPostgres \o PricedxNamespace \o PricedxBucket \o PricedxKeycloak
        \o PricedxServer \o PricedxEnd

PricedxFailure ==
    << UpdateTenantStatusActivity("ProvisioningFailed"), SlackNotificationActivity >>
-----------------------------------------------------------------------------
PricedxStopServer ==
    << DeleteKubernetesServiceActivity("tenant", "pricedx"),
       DeleteKubernetesIstioVirtualServiceActivity("tenant", "pricedx-vs"),
       VMPodScrapperDeletionActivity("tenant", "pricedx-metrics"),
       VMPodScrapperDeletionActivity("tenant", "pricedx-worker-metrics"),
       DeploymentDeletionActivity("tenant", "pricedx"),
       DeploymentDeletionActivity("tenant", "pricedx-worker"),
       DeleteK8sConfigMapActivity("tenant", "pricedx-tenant-config"),
       RedisDeleteNamespaceActivity("pricedx"),
       DeleteDatabaseMigrationJobActivity("tenant", "pricedx-db-schema-migration-job") >>

\* The user is dropped while it still owns its schema.
PricedxDropDatabase ==
    << DeleteSupavisorTenantActivity("pricedx"),
       DeletePostgresUserActivity("pricedx", {"pricedx"}),
       DeletePostgresSchemaActivity("pricedx", "tenant") >>

\* DeleteIdpFromHelpinstanceActivity is in no workflow of this task queue.
PricedxDeleteKeycloak ==
    << DeleteKeycloakClientActivity,
       DeleteKeycloakRealmActivity,
       Unregistered(DeleteIdpFromHelpinstanceActivity("tenant")) >>

PricedxDeleteBucket ==
    << DeleteCloudflareBucketActivity("tenant"),
       DeleteCloudflareDNSRecordActivity("tenant.api"),
       UpdateTenantStatusActivity("DeProvisioned") >>

PricedxDeprovisioning ==
    PricedxStopServer \o PricedxDropDatabase \o PricedxDeleteKeycloak
        \o PricedxDeleteBucket
=============================================================================
