--------------------------- MODULE VeritablePlan ---------------------------
(***************************************************************************)
(* The Veritable onboarding, deployment and deprovisioning workflows,      *)
(* src/app/cli/temporal/veritable/workflows/: their activities in order.   *)
(* Onboarding generates its passwords in the workflow's code; deployment,  *)
(* which renews a tenant's installation, first looks for the passwords in  *)
(* the namespace's secrets.                                                *)
(***************************************************************************)
EXTENDS Activities

PostgresSecret == <<"secret", "tenant", "veritable-postgres">>
RedisSecret    == <<"secret", "tenant", "veritable-redis">>
R2Secret       == <<"secret", "tenant", "veritable-cloudflare-r2">>

\* Mutated form: the vault is not read when the token was found.
VeritableDataBucket_vault_not_read ==
    << CreateCloudflareBucketActivity("data"),
       UpdateCORSForBucketActivity("data"),
       CreateCloudflareBucketCredentialsActivity("data", "s3_access_key"),
       Knowing({"s3_access_key"},
           OnePasswordInsertIfNotExistsActivity("s3_access_key", {"s3_access_key"})),
       K8sSecretCreationActivity("tenant", "veritable-cloudflare-r2", {"s3_access_key"}) >>

\* The keys of the data bucket: issued once, kept in the vault, read there
\* when the token was found.
VeritableDataBucket ==
    << CreateCloudflareBucketActivity("data"),
       UpdateCORSForBucketActivity("data"),
       CreateCloudflareBucketCredentialsActivity("data", "s3_access_key"),
       OnePasswordGetActivity("s3_access_key"),
       Knowing({"s3_access_key"},
           OnePasswordInsertIfNotExistsActivity("s3_access_key", {"s3_access_key"})),
       K8sSecretCreationActivity("tenant", "veritable-cloudflare-r2", {"s3_access_key"}) >>

VeritableDatabase ==
    << PostgresDatabaseCreationActivity("veritable"),
       PostgresUserCreationActivity("veritable", "pg_password"),
       PostgresSupavisorPollUserActivity("veritable", "pg_password"),
       PostgresSchemaCreationActivity("veritable", "tenant", "veritable"),
       PostgresGrantAccessToUserActivity("veritable", "veritable", {"tenant"}),
       VeritableNovuOnboardingActivity,
       K8sSecretCreationActivity("tenant", "veritable-novu", {}) >>

VeritableSecrets ==
    << TenantCrdExistsActivity("veritable"),
       K8sNamespaceCreationActivity("tenant"),
       K8sSecretCreationActivity("tenant", "veritable-redis", {"redis_password"}),
       K8sSecretCreationActivity("tenant", "veritable-postgres", {"pg_password"}) >>

VeritableRedis ==
    << K8sSecretCreationActivity("tenant", "registrycred", {}),
       RedisSetupActivity("tenant", "redis_password"),
       OnePasswordInsertIfNotExistsActivity("fernet_key", {"fernet_key"}) >>

VeritableConfigMap(name) ==
    K8sConfigMapCreationActivity("tenant", name, {"fernet_key"}, {V("fernet_key")})

VeritableConfigMaps ==
    << K8sConfigMapCreationActivity("tenant", "veritable-custom-config", {}, {}),
       VeritableConfigMap("veritable-env-config"),
       VeritableConfigMap("veritable-tenant-config"),
       VeritableConfigMap("veritable-provisioning-config") >>

VeritableUi ==
    << CreateCloudflareDNSRecordActivity("tenant.api"),
       CreateCloudflareBucketActivity("ui"),
       LinkBucketToDomainActivity("ui"),
       PropagateDNSRecordActivity(<<"bucketdomain", "ui">>),
       CopyArtifactsToBucketActivity("ui") >>

VeritableKeycloak ==
    << KeycloakRealmSetupActivity("veritable_tenant", {}),
       KeycloakCreateTenantCustomerAdminUserActivity("veritable_tenant", {}),
       KeycloakCreateInternalUsersActivity("veritable_tenant", {}) >>

VeritableMigration ==
    << VeritableDatabaseMigrationJobActivity("tenant", "veritable-tenant-provisioning-job") >>

VeritableServer ==
    << KubernetesServiceActivity("tenant", "veritable"),
       KubernetesIstioVirtualServiceActivity("tenant", "veritable-vs"),
       KubernetesDeploymentActivity("tenant", "veritable", {}) >>

VeritableWorkers ==
    << KubernetesDeploymentActivity("tenant", "veritable-worker", {}),
       KubernetesDeploymentActivity("tenant", "veritable-worker-critical", {}) >>

VeritableMetrics ==
    << TemporalNamespaceActivity("veritable_tenant"),
       VMPodScrapperActivity("tenant", "veritable-metrics"),
       VMPodScrapperActivity("tenant", "veritable-worker-metrics") >>

VeritablePods ==
    << CheckPodRunningStatusActivity(<<"deployment", "tenant", "veritable">>),
       CheckPodRunningStatusActivity(<<"deployment", "tenant", "veritable-worker">>),
       CheckPodRunningStatusActivity(<<"deployment", "tenant", "veritable-worker-critical">>) >>

\* The status comes before the checks that the pods run.
VeritableEnd ==
    << UpdateTenantStatusActivity("Provisioned") >> \o VeritablePods \o
    << KedaApplyTemplatedYamlActivity("tenant", "server"),
       KedaApplyTemplatedYamlActivity("tenant", "worker"),
       KedaApplyTemplatedYamlActivity("tenant", "worker-critical"),
       TenantCrdCreationActivity("veritable"),
       OnboardSuccessMailActivity >>

VeritableOnboarding ==
    VeritableSecrets \o VeritableDatabase \o VeritableDataBucket \o VeritableRedis
        \o VeritableConfigMaps \o VeritableUi \o VeritableKeycloak
        \o VeritableMigration \o VeritableServer \o VeritableWorkers
        \o VeritableMetrics \o VeritableEnd

VeritableFailure ==
    << UpdateTenantStatusActivity("ProvisioningFailed"), OnboardFailureMailActivity >>
-----------------------------------------------------------------------------
\* The deployment workflow

\* A password that is in the namespace is kept.
RenewSecrets ==
    << K8sNamespaceCreationActivity("tenant"),
       K8sSecretFetchActivity("tenant", "veritable-redis", {"redis_password"}),
       K8sSecretCreationActivity("tenant", "veritable-redis", {"redis_password"}),
       K8sSecretFetchActivity("tenant", "veritable-postgres", {"pg_password"}),
       K8sSecretCreationActivity("tenant", "veritable-postgres", {"pg_password"}) >>

\* Nothing is done about the bucket when its secret is in the namespace.
RenewDataBucket ==
    << K8sSecretFetchActivity("tenant", "veritable-cloudflare-r2", {}) >>
        \o AllUnlessThere({R2Secret}, VeritableDataBucket)

RenewConfigMaps ==
    << VeritableConfigMap("veritable-env-config"),
       VeritableConfigMap("veritable-tenant-config"),
       VeritableConfigMap("veritable-provisioning-config") >>

RenewRealm == << KeycloakRealmSetupActivity("veritable_tenant", {}) >>

RenewEnd ==
    << KedaApplyTemplatedYamlActivity("tenant", "worker"),
       KedaApplyTemplatedYamlActivity("tenant", "worker-critical") >>
        \o VeritablePods \o << TenantCrdCreationActivity("veritable") >>

\* It writes no status, and its failure handler only raises.
VeritableDeployment ==
    RenewSecrets \o VeritableDatabase \o RenewDataBucket \o VeritableRedis
        \o RenewConfigMaps \o VeritableUi \o RenewRealm \o VeritableServer
        \o VeritableWorkers \o VeritableMetrics \o RenewEnd
-----------------------------------------------------------------------------
VeritableStopServer ==
    << DeleteKubernetesServiceActivity("tenant", "veritable"),
       DeleteKubernetesIstioVirtualServiceActivity("tenant", "veritable-vs"),
       DeleteVeritableDatabaseMigrationJobActivity("tenant",
           "veritable-tenant-provisioning-job"),
       KedaScaledObjectDeletionActivity("tenant", "server"),
       DeploymentDeletionActivity("tenant", "veritable"),
       DeploymentDeletionActivity("tenant", "veritable-worker"),
       DeploymentDeletionActivity("tenant", "veritable-worker-critical") >>

VeritableDeleteConfiguration ==
    << DeleteK8sConfigMapActivity("tenant", "veritable-custom-config"),
       DeleteK8sConfigMapActivity("tenant", "veritable-env-config"),
       DeleteK8sConfigMapActivity("tenant", "veritable-tenant-config"),
       DeleteK8sConfigMapActivity("tenant", "veritable-provisioning-config"),
       K8sSecretDeletionActivity("tenant", "veritable-postgres"),
       K8sSecretDeletionActivity("tenant", "veritable-redis"),
       K8sSecretDeletionActivity("tenant", "veritable-novu"),
       K8sSecretDeletionActivity("tenant", "veritable-cloudflare-r2") >>

VeritableDeleteBuckets ==
    << DeleteCloudflareDNSRecordActivity("tenant"),
       DeleteFilesFromCloudflareActivity("data"),
       DeleteCloudflareBucketActivity("data"),
       DeleteFilesFromCloudflareActivity("ui"),
       DeleteCloudflareBucketActivity("ui"),
       VMPodScrapperDeletionActivity("tenant", "veritable-metrics"),
       VMPodScrapperDeletionActivity("tenant", "veritable-worker-metrics") >>

VeritableDeprovisionEnd ==
    << DeleteTemporalNamespaceActivity("veritable_tenant"),
       VeritableNovuDeProvisionActivity,
       DeleteCloudflareBucketActivity("ui"),
       Quietly(UpdateSubscriptionEndDateActivity),
       UpdateTenantStatusActivity("DeProvisioned"),
       TenantCrdDeletionActivity("veritable") >>

VeritableDeprovisioning ==
    VeritableStopServer \o VeritableDeleteConfiguration \o VeritableDeleteBuckets
        \o VeritableDeprovisionEnd

VeritableDeprovisionFailure == << UpdateTenantStatusActivity("DeprovisioningFailed") >>
=============================================================================
