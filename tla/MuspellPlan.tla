---------------------------- MODULE MuspellPlan -----------------------------
(***************************************************************************)
(* The Muspell Archive onboarding workflow, src/app/cli/temporal/muspell/  *)
(* workflows/onboarding.py, after the approval.  Four passwords are        *)
(* generated in the workflow's code (database, Redis, StarRocks,           *)
(* Superset); that of the DICOM database and the installer's secret come   *)
(* from activities.  Options: "applications" (an application list),        *)
(* "production" (the environment), "ui" (copy_ui_bundle), "ro_role" (the   *)
(* read-only role is there).  The product has no deprovisioning.           *)
(***************************************************************************)
EXTENDS Activities

MuspellStanding ==
    {DB("muspell"), Role("muspell_ro"), <<"r2token", "zsc-worker">>}

MuspellDicomDatabase ==
    << CreatePasswordActivity("pg_dicom_password"),
       PostgresDatabaseCreationActivity("muspell_dicom"),
       PostgresUserCreationActivity("muspell_dicom", "pg_dicom_password"),
       OnePasswordCreateOrUpdateActivity("pg_dicom_password", {"pg_dicom_password"}),
       PostgresGrantAccessToUserActivity("muspell_dicom", "muspell_dicom", {}) >>

\* The vault is written before the role.
MuspellPostgres ==
    << OnePasswordCreateOrUpdateActivity("pg_username", {}),
       OnePasswordCreateOrUpdateActivity("pg_password", {"pg_password"}),
       PostgresUserCreationActivity("muspell", "pg_password"),
       PostgresSchemaCreationActivity("muspell", "tenant", "muspell"),
       PostgresGrantAccessToUserActivity("muspell", "muspell", {"tenant"}),
       PostgresCheckRoleExistsActivity("muspell"),
       When({"ro_role"}, PostgresGrantSupersetReadOnlyActivity(
           "muspell", "tenant", "muspell", "muspell_ro")),
       KeycloakUserMappingActivity("muspell", "muspell"),
       PostgresGrantAllPrivilegesOnTableActivity("muspell", "muspell"),
       PostgresSchemaCreationActivity("muspell", "superset", "muspell"),
       PostgresGrantAccessToUserActivity("muspell", "muspell", {"superset"}) >>

MuspellNamespace ==
    << K8sNamespaceCreationActivity("tenant"),
       K8sSecretCreationActivity("tenant", "registrycred", {}),
       RedisSetupActivity("tenant", "redis_password"),
       OnePasswordCreateOrUpdateActivity("redis_password", {"redis_password"}) >>

MuspellUi ==
    << CreateCloudflareDNSRecordActivity("tenant.api"),
       CreateCloudflareBucketActivity("tenant"),
       LinkBucketToDomainActivity("tenant"),
       UpdateCORSForBucketActivity("tenant"),
       When({"ui"}, CopyArtifactsToBucketActivity("tenant")) >>

MuspellBucketKeys ==
    << CreateCloudflareBucketCredentialsActivity("tenant", "s3_key"),
       OnePasswordInsertIfNotExistsActivity("base_url_cdn", {}),
       OnePasswordInsertIfNotExistsActivity("keycloak_auth_url", {}),
       OnePasswordInsertIfNotExistsActivity("s3_bucket_name", {}),
       OnePasswordInsertIfNotExistsActivity("s3_access_key", {"s3_key"}),
       OnePasswordInsertIfNotExistsActivity("s3_secret_key", {"s3_key"}) >>

\* The bucket of the documents, outside production.
MuspellDocuments ==
    AllUnless({"production"},
        << CreateCloudflareBucketActivity("documents"),
           CreateCloudflareBucketCredentialsActivity("documents", "r2_key"),
           OnePasswordInsertIfNotExistsActivity("r2_documents_bucket_name", {}),
           OnePasswordInsertIfNotExistsActivity("r2_documents_access_key", {"r2_key"}),
           OnePasswordInsertIfNotExistsActivity("r2_documents_secret_key", {"r2_key"}),
           OnePasswordInsertIfNotExistsActivity("r2_endpoint", {}),
           UpdateCORSForBucketActivity("documents"),
           AddBucketsToR2TokenActivity("documents") >>)

MuspellAppToken == << AddBucketsToR2TokenActivity("tenant") >>

\* The secret the installer's client has is taken again when there is one.
MuspellKeycloak ==
    << KeycloakRealmSetupActivity("tenant", {}),
       KeycloakClientSetupActivity("tenant", "muspell", {}),
       KeycloakCreateClientRolesActivity("tenant", "muspell"),
       KeycloakGetClientSecretActivity("tenant", "installer", {"installer_secret"}),
       UnlessThere({Client("tenant", "installer")},
                   CreatePasswordActivity("installer_secret")),
       OnePasswordCreateOrUpdateActivity("installer_client_secret", {"installer_secret"}),
       OnePasswordCreateOrUpdateActivity("installer_client_id", {}),
       KeycloakServiceAccountSetupActivity("tenant", "installer", {"installer_secret"}),
       KeycloakGrantRealmManagementRolesActivity("tenant", "installer"),
       JeevesKeycloakCreateIDPFlowActivity("tenant") >>

MuspellUsers ==
    << KeycloakCreateTenantCustomerAdminUserActivity("tenant", {Roles("tenant", "muspell")}),
       KeycloakCreateInternalUsersActivity("tenant", {Roles("tenant", "muspell")}) >>

MuspellStarRocks ==
    << CreateStarRocksCatalogActivity("tenant", {}),
       OnePasswordCreateOrUpdateActivity("catalog", {}),
       CreateStarRocksUserActivity("muspell", "tenant", "starrocks_password"),
       StarRocksGrantReadOnlyCatalogActivity("readonly_user", "tenant"),
       OnePasswordInsertIfNotExistsActivity("sr_username", {}),
       OnePasswordInsertIfNotExistsActivity("sr_password", {"starrocks_password"}) >>

MuspellConfigMap(name) ==
    K8sConfigMapCreationActivity("tenant", name,
        {"pg_password", "redis_password", "s3_key", "installer_secret",
         "starrocks_password", "pg_dicom_password"},
        {V("pg_password"), V("redis_password"), V("s3_access_key"),
         V("installer_client_secret"), V("sr_password"), V("pg_dicom_password")})

MuspellConfigMaps ==
    << MuspellConfigMap("muspell-config"), MuspellConfigMap("muspell-config-system"),
       MuspellConfigMap("muspell-dicom-config") >>

\* The scaled job has the database's URL, with the password, in its payload;
\* applied again it keeps what it has.
MuspellScaling ==
    << K8sSecretCreationActivity("tenant", "redis-credentials", {"redis_password"}),
       KedaApplyTemplatedYamlActivity("tenant", "redis-trigger-auth"),
       Carrying({"pg_password"},
           KedaApplyTemplatedYamlActivity("tenant", "roi-export-scaledjob")) >>

MuspellServers ==
    << KubernetesServiceActivity("tenant", "muspell-archive"),
       KubernetesIstioVirtualServiceActivity("tenant", "muspell-vs"),
       KubernetesDeploymentActivity("tenant", "muspell-archive", {}),
       KubernetesDeploymentActivity("tenant", "muspell-dicom", {}),
       KubernetesServiceActivity("tenant", "muspell-dicom"),
       VMPodScrapperActivity("tenant", "muspell-metrics"),
       PropagateDNSRecordActivity(Record("tenant.api")) >>

MuspellSuperset ==
    << K8sSecretCreationActivity("tenant", "superset-secrets",
                                 {"superset_password", "pg_password"}),
       KubernetesDeploymentActivity("tenant", "muspell-superset", {"redis_password"}),
       KubernetesServiceActivity("tenant", "muspell-superset"),
       CheckPodRunningStatusActivity(<<"deployment", "tenant", "muspell-archive">>),
       CheckPodRunningStatusActivity(<<"deployment", "tenant", "muspell-dicom">>),
       CheckPodRunningStatusActivity(<<"deployment", "tenant", "muspell-superset">>) >>

\* The job connects as the role, with the password of this run.
MuspellSystems ==
    AllWhen({"applications"},
        << MuspellConfigUpdateJobActivity("muspell", "muspell", "tenant"),
           KeycloakSetUserAttributeActivity("tenant"),
           KubernetesDeploymentRestartActivity("tenant", "muspell-archive") >>)

MuspellEnd ==
    << UpdateTenantStatusActivity("Provisioned"),
       SendAfterProvisioningMailActivity("tenant") >>

MuspellOnboarding ==
    MuspellDicomDatabase \o MuspellPostgres \o MuspellNamespace \o MuspellUi
        \o MuspellBucketKeys \o MuspellDocuments \o MuspellAppToken
        \o MuspellKeycloak \o MuspellUsers \o MuspellStarRocks
        \o MuspellConfigMaps \o MuspellScaling \o MuspellServers
        \o MuspellSuperset \o MuspellSystems \o MuspellEnd

MuspellFailure == << UpdateTenantStatusActivity("ProvisioningFailed") >>
=============================================================================
