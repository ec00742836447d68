--------------------------- MODULE PenknifePlan ----------------------------
(***************************************************************************)
(* The Penknife onboarding workflow, src/app/cli/temporal/penknife/        *)
(* workflows/onboarding.py, after the approval: its activities in order.   *)
(* Three passwords are generated in the workflow's code: the one of the    *)
(* database, the one of Redis and the secret of the auth client.  The      *)
(* deprovisioning workflow of this product does nothing.                   *)
(***************************************************************************)
EXTENDS Activities

\* The database of all tenants is there before any of them.
PenknifeStanding == {DB("penknife")}

PenknifePostgres ==
    << OnePasswordCreateOrUpdateActivity("pg_password", {"pg_password"}),
       PostgresUserCreationActivity("penknife", "pg_password"),
       PostgresSupavisorPollUserActivity("penknife", "pg_password"),
       PostgresSchemaCreationActivity("penknife", "tenant", "penknife"),
       PostgresGrantAccessToUserActivity("penknife", "penknife", {"tenant"}),
       KeycloakUserMappingActivity("penknife", "penknife"),
       PostgresGrantAllPrivilegesOnTableActivity("penknife", "penknife"),
       TableSpaceActivity("penknife", "penknife") >>

PenknifeNamespace ==
    << K8sNamespaceCreationActivity("tenant"),
       K8sSecretCreationActivity("tenant", "registrycred", {}),
       K8sSecretCreationActivity("tenant", "postgres-password", {"pg_password"}),
       OnePasswordCreateOrUpdateActivity("redis_password", {"redis_password"}),
       RedisSetupActivity("tenant", "redis_password") >>

PenknifeKeycloak ==
    << KeycloakRealmSetupActivity("tenant", {}),
       KeycloakClientSetupActivity("tenant", "penknife", {}),
       OnePasswordCreateOrUpdateActivity("auth_credential", {"auth_credential"}),
       KeycloakClientSetupActivity("tenant", "penknife-auth", {"auth_credential"}) >>

PenknifeUsers ==
    << KeycloakCreateClientRolesActivity("tenant", "penknife"),
       KeycloakCreateTenantCustomerAdminUserActivity("tenant", {Client("tenant", "penknife")}),
       KeycloakCreateIDPFlowActivity("tenant") >>

PenknifeConfigMap(name) ==
    K8sConfigMapCreationActivity("tenant", name,
        {"pg_password", "redis_password", "auth_credential"},
        {V("pg_password"), V("redis_password"), V("auth_credential")})

PenknifeConfigMaps ==
    << PenknifeConfigMap("penknife-tenant-config"),
       PenknifeConfigMap("penknife-cli-vector-config"),
       PenknifeConfigMap("penknife-statestore-config") >>

PenknifeUi ==
    << CreateCloudflareDNSRecordActivity("tenant.api"),
       CreateCloudflareBucketActivity("tenant"),
       LinkBucketToDomainActivity("tenant"),
       CreateCloudflareDNSRecordActivity("tenant-careers.api"),
       CreateCloudflareBucketActivity("careers"),
       LinkBucketToDomainActivity("careers"),
       PenknifeCopyArtifactsToBucketActivity("tenant", "careers"),
       PropagateDNSRecordActivity(Record("tenant.api")),
       PropagateDNSRecordActivity(Record("tenant-careers.api")) >>

PenknifeNetwork ==
    << DatabaseMigrationJobActivity("tenant", "penknife-db-schema-migration-job", {}),
       KubernetesServiceActivity("tenant", "penknife"),
       KubernetesIstioVirtualServiceActivity("tenant", "penknife-vs"),
       KubernetesIstioVirtualServiceActivity("tenant", "penknife-careers-vs") >>

PenknifeServers ==
    << KubernetesDeploymentActivity("tenant", "penknife", {"pg_password"}),
       KubernetesDeploymentActivity("tenant", "penknife-cli", {}) >>

PenknifeEnd ==
    << VMPodScrapperActivity("tenant", "penknife-metrics"),
       TemporalNamespaceActivity("penknife_tenant"),
       PenknifeUserSetupActivity("tenant", "penknife", "tenant"),
       CheckPodRunningStatusActivity(<<"deployment", "tenant", "penknife">>),
       CheckPodRunningStatusActivity(<<"deployment", "tenant", "penknife-cli">>),
       UpdateTenantStatusActivity("Provisioned") >>

PenknifeOnboarding ==
    PenknifePostgres \o PenknifeNamespace \o PenknifeKeycloak \o PenknifeUsers
        \o PenknifeConfigMaps \o PenknifeUi \o PenknifeNetwork
        \o PenknifeServers \o PenknifeEnd

PenknifeFailure == << UpdateTenantStatusActivity("ProvisioningFailed") >>
=============================================================================
