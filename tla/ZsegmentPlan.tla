--------------------------- MODULE ZsegmentPlan ----------------------------
(***************************************************************************)
(* The ZSegment onboarding workflow, src/app/cli/temporal/zsegment/        *)
(* workflows/onboarding.py, after the approval: its activities in order.   *)
(* Generated in the workflow's code: the passwords of the database and of  *)
(* Redis, the installer's secret when the vault has none, and the          *)
(* identifier under which the tenant is a customer of the billing service. *)
(***************************************************************************)
EXTENDS Activities

\* The database of all tenants is there before any of them.
ZsegmentStanding == {DB("zsegment")}

\* Before: the newest tag, in production.
ZsegmentPostgres ==
    << When({"production"}, ZsegmentFetchLatestTagActivity),
       OnePasswordCreateOrUpdateActivity("pg_password", {"pg_password"}),
       PostgresUserCreationActivity("zsegment", "pg_password"),
       PostgresSchemaCreationActivity("zsegment", "tenant", "zsegment"),
       PostgresGrantAccessToUserActivity("zsegment", "zsegment", {"tenant"}) >>

\* Mutated form: the secret the vault has is not read.
ZsegmentInstaller_vault_not_read ==
    << OnePasswordCreateOrUpdateActivity("installer_secret", {"installer_secret"}),
       KeycloakRealmSetupActivity("tenant", {"installer_secret"}),
       KeycloakClientSetupActivity("tenant", "zsegment", {}),
       KeycloakClientSetupActivity("tenant", "installer", {"installer_secret"}) >>

\* The secret of the vault is used again when there is one.
ZsegmentInstaller ==
    << OnePasswordGetActivity("installer_secret"),
       OnePasswordCreateOrUpdateActivity("installer_secret", {"installer_secret"}),
       KeycloakRealmSetupActivity("tenant", {"installer_secret"}),
       KeycloakClientSetupActivity("tenant", "zsegment", {}),
       KeycloakClientSetupActivity("tenant", "installer", {"installer_secret"}) >>

ZsegmentRoles ==
    << KeycloakAssignServiceAccountRoleActivity("tenant", "installer", "manage-users", {}),
       KeycloakAssignServiceAccountRoleActivity("tenant", "installer", "view-clients", {}),
       KeycloakAssignServiceAccountRoleActivity("tenant", "installer", "query-clients", {}),
       KeycloakCreateClientRolesActivity("tenant", "zsegment"),
       KeycloakCreateTenantCustomerAdminUserActivity("tenant", {Roles("tenant", "zsegment")}) >>

ZsegmentServices ==
    << K8sNamespaceCreationActivity("tenant"),
       K8sSecretCreationActivity("tenant", "registrycred", {}),
       OnePasswordCreateOrUpdateActivity("redis_password", {"redis_password"}),
       RedisSetupActivity("tenant", "redis_password"),
       RocketMQTopicSetupActivity("tenant"),
       GiteaSetupActivity("tenant", "tenant") >>

\* uuid4 in the workflow's code: another run has another customer.
ZsegmentBilling ==
    << OnePasswordCreateOrUpdateActivity("lago_customer_id", {"lago_customer_id"}) >>
        \o LagoSetupActivity({"lago_customer_id"})

ZsegmentConfigMaps ==
    << K8sConfigMapCreationActivity("tenant", "zsegment-api-config",
           {"installer_secret", "lago_customer_id", "pg_password", "redis_password"}, {}),
       K8sConfigMapCreationActivity("tenant", "zsegment-engine-config",
           {"lago_customer_id", "pg_password", "redis_password"}, {}) >>

ZsegmentUi ==
    << CreateCloudflareDNSRecordActivity("tenant.api"),
       CreateCloudflareDNSRecordActivity("tenant.cs"),
       CreateCloudflareBucketActivity("tenant"),
       LinkBucketToDomainActivity("tenant"),
       PropagateDNSRecordActivity(Record("tenant.api")),
       CopyArtifactsToBucketActivity("tenant"),
       CopyArtifactsToBucketActivity("tenant") >>

ZsegmentServers ==
    << KubernetesDeploymentActivity("tenant", "zsegment-api", {"pg_password"}),
       KubernetesDeploymentActivity("tenant", "zsegment-engine", {"pg_password"}) >>

ZsegmentNetwork ==
    << VMPodScrapperActivity("tenant", "zsegment-api-metrics"),
       VMPodScrapperActivity("tenant", "zsegment-engine-metrics"),
       KubernetesServiceActivity("tenant", "zsegment-api"),
       KubernetesServiceActivity("tenant", "zsegment-engine"),
       KubernetesServiceActivity("tenant", "zsegment-api-grpc-nodeport"),
       KubernetesIstioVirtualServiceActivity("tenant", "zsegment-api-vs"),
       CreateKubernetesResourcesActivity("tenant") >>

ZsegmentEnd ==
    << CheckPodRunningStatusActivity(<<"deployment", "tenant", "zsegment-api">>),
       CheckPodRunningStatusActivity(<<"deployment", "tenant", "zsegment-engine">>),
       GrafanaDashboardActivity("spring"),
       GrafanaDashboardActivity("camel"),
       GrafanaDashboardActivity("connector"),
       UpdateTenantStatusActivity("Provisioned"),
       SendAfterProvisioningMailActivity("tenant") >>

ZsegmentOnboarding ==
    ZsegmentPostgres \o ZsegmentInstaller \o ZsegmentRoles \o ZsegmentServices
        \o ZsegmentBilling \o ZsegmentConfigMaps \o ZsegmentUi
        \o ZsegmentServers \o ZsegmentNetwork \o ZsegmentEnd

ZsegmentFailure == << UpdateTenantStatusActivity("ProvisioningFailed") >>
=============================================================================
