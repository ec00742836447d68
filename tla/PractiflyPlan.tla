--------------------------- MODULE PractiflyPlan ---------------------------
(***************************************************************************)
(* The Practifly onboarding and deprovisioning workflows,                  *)
(* src/app/cli/temporal/practifly/workflows/: their activities in order.   *)
(* Both passwords are generated in the code of the onboarding workflow,    *)
(* stored in secrets of the namespace and mostly read there.               *)
(***************************************************************************)
EXTENDS Activities

\* The bucket of the web core of all tenants is there before any of them.
PractiflyStanding == {Bucket("practifly-web-core")}

PractiflySecrets ==
    << K8sNamespaceCreationActivity("tenant"),
       K8sSecretCreationActivity("tenant", "practifly-redis", {"redis_password"}),
       K8sSecretCreationActivity("tenant", "practifly-postgres", {"pg_password"}) >>

\* The role takes the password from the secret, the pooler takes the one the
\* workflow has.
PractiflyDatabase ==
    << PostgresDatabaseCreationActivity("practifly"),
       PostgresUserCreationFromSecretActivity("practifly", "tenant",
           "practifly-postgres", "pg_password"),
       PostgresSupavisorPollUserActivity("practifly", "pg_password"),
       PostgresSchemaCreationActivity("practifly", "tenant", "practifly"),
       PostgresGrantAccessToUserActivity("practifly", "practifly", {"tenant"}),
       K8sSecretCreationActivity("tenant", "registrycred", {}),
       RedisSetupFromSecretActivity("tenant", "practifly-redis", "redis_password"),
       PVCSetupActivity("tenant", "practifly-pvc"),
       KubernetesServiceActivity("tenant", "practifly"),
       KubernetesIstioVirtualServiceActivity("tenant", "practifly-vs"),
       OnePasswordInsertIfNotExistsActivity("fernet_key", {"fernet_key"}) >>

PractiflyConfigMap(name) ==
    K8sConfigMapCreationActivity("tenant", name, {"fernet_key"}, {V("fernet_key")})

PractiflyConfigMaps ==
    << PractiflyConfigMap("practifly-common-config"),
       PractiflyConfigMap("practifly-env-config"),
       PractiflyConfigMap("practifly-tenant-config"),
       PractiflyConfigMap("practifly-cli-vector-config"),
       PractiflyConfigMap("practifly-provisioning-config") >>

PractiflyBucket ==
    << CreateCloudflareDNSRecordActivity("tenant.api"),
       CreateCloudflareBucketActivity("tenant"),
       LinkBucketToDomainActivity("tenant"),
       PropagateDNSRecordActivity(Record("tenant.api")) >>

PractiflyKeycloak ==
    << KeycloakRealmSetupActivity("practifly_tenant", {}),
       KeycloakCreateTenantCustomerAdminUserActivity("practifly_tenant", {}),
       KeycloakCreateInternalUsersActivity("practifly_tenant", {}),
       TemporalNamespaceActivity("practifly_tenant"),
       VMPodScrapperActivity("tenant", "practifly-metrics"),
       VMPodScrapperActivity("tenant", "practifly-cli-metrics"),
       PractiflyJobActivity("tenant", "practifly-tenant-provisioning-job") >>

PractiflyUi ==
    << CopyArtifactsToBucketActivity("tenant"),
       CopyWebCoreToBucketActivity("practifly-web-core"),
       StatefulSetPodDeletionActivity("tenant", "practifly"),
       StatefulSetPodDeletionActivity("tenant", "practifly-cli") >>

PractiflyServer == << KubernetesDeploymentActivity("tenant", "practifly", {}) >>

PractiflyCli == << KubernetesDeploymentActivity("tenant", "practifly-cli", {}) >>

\* The resource that bars another onboarding is written last, after the mail.
PractiflyEnd ==
    << CheckPodRunningStatusActivity(<<"deployment", "tenant", "practifly">>),
       CheckPodRunningStatusActivity(<<"deployment", "tenant", "practifly-cli">>),
       UpdateTenantStatusActivity("Provisioned"),
       SendAfterProvisioningMailActivity("practifly_tenant"),
       TenantCrdCreationActivity("practifly") >>

PractiflyOnboarding ==
    << TenantCrdExistsActivity("practifly") >> \o PractiflySecrets
        \o PractiflyDatabase \o PractiflyConfigMaps \o PractiflyBucket
        \o PractiflyKeycloak \o PractiflyUi \o PractiflyServer \o PractiflyCli
        \o PractiflyEnd

PractiflyFailure == << UpdateTenantStatusActivity("ProvisioningFailed") >>
-----------------------------------------------------------------------------
PractiflyStopServer ==
    << DeleteKubernetesServiceActivity("tenant", "practifly"),
       DeleteKubernetesIstioVirtualServiceActivity("tenant", "practifly-vs"),
       DeleteDatabaseMigrationJobActivity("tenant", "practifly-tenant-alembic-job"),
       DeleteDatabaseMigrationJobActivity("tenant", "practifly-tenant-provisioning-job"),
       DeleteDatabaseMigrationJobActivity("tenant", "practifly-tenant-deployment-job"),
       StatefulSetPodDeletionActivity("tenant", "practifly"),
       DeploymentDeletionActivity("tenant", "practifly"),
       StatefulSetPodDeletionActivity("tenant", "practifly-cli"),
       DeploymentDeletionActivity("tenant", "practifly-cli") >>

PractiflyDeleteConfiguration ==
    << DeleteK8sConfigMapActivity("tenant", "practifly-common-config"),
       DeleteK8sConfigMapActivity("tenant", "practifly-env-config"),
       DeleteK8sConfigMapActivity("tenant", "practifly-tenant-config"),
       DeleteK8sConfigMapActivity("tenant", "practifly-cli-vector-config"),
       DeleteK8sConfigMapActivity("tenant", "practifly-provisioning-config"),
       K8sSecretDeletionActivity("tenant", "practifly-postgres"),
       K8sSecretDeletionActivity("tenant", "practifly-redis") >>

PractiflyDeleteBucket ==
    << DeleteCloudflareDNSRecordActivity("tenant.api"),
       DeleteFilesFromCloudflareActivity("tenant"),
       DeleteCloudflareBucketActivity("tenant"),
       PVCDeletionActivity("tenant", "practifly-pvc"),
       VMPodScrapperDeletionActivity("tenant", "practifly-metrics"),
       VMPodScrapperDeletionActivity("tenant", "practifly-cli-metrics"),
       DeleteTemporalNamespaceActivity("practifly_tenant") >>

PractiflyDeprovisionEnd ==
    << UpdateTenantStatusActivity("DeProvisioned"),
       TenantCrdDeletionActivity("practifly") >>

PractiflyDeprovisioning ==
    PractiflyStopServer \o PractiflyDeleteConfiguration \o PractiflyDeleteBucket
        \o PractiflyDeprovisionEnd

PractiflyDeprovisionFailure == << UpdateTenantStatusActivity("DeprovisioningFailed") >>
=============================================================================
