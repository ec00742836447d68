----------------------------- MODULE JeevesPlan -----------------------------
(***************************************************************************)
(* The Jeeves workflows, src/app/cli/temporal/jeeves/workflows/:           *)
(* onboarding.py after the approval, space_creation.py and                 *)
(* deprovisioning.py.  The passwords of the database and of Redis are      *)
(* generated in the workflow's code.  Option "deployment" (is_deployment)  *)
(* leaves out the status writes, "production" asks for the latest tag.     *)
(***************************************************************************)
EXTENDS Activities

\* The database, the realm of the help desk and the analytics user are there
\* before any tenant.
JeevesStanding == {DB("jeeves"), Realm("help"), Role("posthog")}

JeevesSettings ==
    << Unless({"deployment"}, CreateSpaceActivity),
       OnePasswordCreateOrUpdateActivity("auth_secret", {}),
       OnePasswordCreateOrUpdateActivity("keycloak_attribute_to_match_user", {}),
       OnePasswordCreateOrUpdateActivity("ehr_field_to_match_user", {}),
       OnePasswordCreateOrUpdateActivity("keycloak_auth_url", {}) >>

\* The role first; then its password alone and in two connection strings.
JeevesPostgres ==
    << PostgresUserCreationActivity("jeeves", "pg_password"),
       OnePasswordCreateOrUpdateActivity("pg_password", {"pg_password"}),
       OnePasswordGetActivity("atlas_pg_host"),
       OnePasswordCreateOrUpdateActivity("atlas_pg_dsn", {"pg_password"}),
       PostgresSupavisorPollUserActivity("jeeves", "pg_password"),
       OnePasswordGetActivity("supavisor_pg_host"),
       OnePasswordCreateOrUpdateActivity("pg_dsn", {"pg_password"}),
       PostgresSchemaCreationActivity("jeeves", "tenant-ehr", "jeeves"),
       OnePasswordCreateOrUpdateActivity("db_schema_name", {}),
       PostgresGrantAccessToUserActivity("jeeves", "jeeves", {"tenant-ehr"}),
       KeycloakUserMappingActivity("jeeves", "jeeves"),
       PostgresGrantAllPrivilegesOnTableActivity("jeeves", "jeeves") >>

JeevesAnalytics(sch) ==
    << PostgresGrantAllPrivilegesOnTablesActivity("jeeves", sch, "posthog"),
       PostgresGrantAllPrivilegesOnSequencesActivity("jeeves", sch, "posthog"),
       PostgresGrantAllPrivilegesOnFunctionsActivity("jeeves", sch, "posthog"),
       PostgresGrantAllPrivilegesOnSchemaActivity("jeeves", sch, "posthog") >>

JeevesNamespace ==
    << K8sNamespaceCreationActivity("tenant"),
       K8sSecretCreationActivity("tenant", "registrycred", {}),
       RedisSetupActivity("tenant", "redis_password"),
       OnePasswordCreateOrUpdateActivity("redis_password", {"redis_password"}),
       OnePasswordCreateOrUpdateActivity("redis_dsn", {}),
       OnePasswordInsertIfNotExistsActivity("space_names", {}),
       OnePasswordInsertIfNotExistsActivity("org_domains", {}),
       OnePasswordInsertIfNotExistsActivity("outbound_queue_id", {}) >>

JeevesUi ==
    << CreateCloudflareDNSRecordActivity("tenant.api"),
       CreateCloudflareBucketActivity("tenant"),
       LinkBucketToDomainActivity("tenant"),
       UpdateCORSForBucketActivity("tenant"),
       When({"production"}, JeevesFetchLatestTagActivity),
       CopyArtifactsToBucketActivity("tenant") >>

\* Keys that were lost are stored as None, under both names.
JeevesBucketKeys ==
    << CreateCloudflareBucketCredentialsActivity("tenant", "s3_key"),
       OnePasswordInsertIfNotExistsActivity("base_url_cdn", {}),
       OnePasswordInsertIfNotExistsActivity("s3_media_bucket_name", {}),
       OnePasswordInsertIfNotExistsActivity("s3_access_key", {"s3_key"}),
       OnePasswordInsertIfNotExistsActivity("s3_secret_key", {"s3_key"}),
       OnePasswordInsertIfNotExistsActivity("s3_ui_bucket_name", {}),
       OnePasswordInsertIfNotExistsActivity("s3_ui_bucket_access_key", {"s3_key"}),
       OnePasswordInsertIfNotExistsActivity("s3_ui_bucket_secret_key", {"s3_key"}) >>

JeevesSpaceSettings ==
    << OnePasswordInsertIfNotExistsActivity("base_ui_url", {}),
       OnePasswordInsertIfNotExistsActivity("space_config_file_path_template", {}),
       OnePasswordCreateOrUpdateActivity("space_display_name", {}),
       OnePasswordCreateOrUpdateActivity("vespa_index_name", {}),
       OnePasswordCreateOrUpdateActivity("space_name", {}),
       OnePasswordInsertIfNotExistsActivity("mpd_api", {}),
       OnePasswordInsertIfNotExistsActivity("s3_mpd_api", {}) >>
    \o JeevesNovuSetupActivity \o ChatwootSetupActivity

JeevesConfigMap(name) ==
    K8sConfigMapCreationActivity("tenant", name, {"pg_password", "redis_password", "s3_key"},
        {V("pg_password"), V("atlas_pg_dsn"), V("pg_dsn"), V("redis_password"),
         V("s3_access_key"), V("s3_secret_key"), V("chatwoot_api_key"), V("novu_api_key")})

JeevesConfigMaps ==
    << JeevesConfigMap("jeeves-tenant-config"), JeevesConfigMap("jeeves-rclone-config"),
       JeevesConfigMap("jeeves-ehr-config") >>

JeevesKeycloak ==
    << KeycloakRealmSetupActivity("tenant", {}),
       KeycloakClientSetupActivity("tenant", "jeeves", {}),
       KeycloakClientSetupActivity("tenant", "jeeves-ehr", {}),
       KeycloakClientSetupActivity("tenant", "formauth", {}),
       KeycloakClientSetupActivity("tenant", "fhircast", {}),
       KeycloakClientSetupActivity("tenant", "formauth", {}),
       KeycloakClientSetupActivity("tenant", "fhircast", {}),
       ChatwootSamlSetupActivity,
       KeycloakCreateClientRolesActivity("tenant", "jeeves-ehr"),
       KeycloakCreateGroupActivity("tenant", "ehr", {Roles("tenant", "jeeves-ehr")}),
       KeycloakCreateGroupActivity("tenant", "ehr-users", {Group("tenant", "ehr")}),
       JeevesKeycloakCreateIDPFlowActivity("help") >>

JeevesUsers ==
    << KeycloakCreateTenantCustomerAdminUserActivity("tenant", {Roles("tenant", "jeeves-ehr")}),
       KeycloakCreateInternalUsersActivity("tenant", {Roles("tenant", "jeeves-ehr")}),
       DatabaseMigrationJobActivity("tenant", "jeeves-db-schema-migration-job-ehr", {}),
       VespaJobActivity("tenant", "vespa-ehr") >>

JeevesServers ==
    << KubernetesServiceActivity("tenant", "jeeves"),
       KubernetesIstioVirtualServiceActivity("tenant", "jeeves-vs"),
       OnePasswordGetActivity("dynamic_url_hash_key"),
       KubernetesDeploymentActivity("tenant", "jeeves", {}),
       KubernetesDeploymentActivity("tenant", "jeeves-worker", {}),
       VMPodScrapperActivity("tenant", "jeeves-metrics"),
       TemporalNamespaceActivity("jeeves_tenant"),
       AiVoiceSetupActivity("s3_access_key"),
       CopyThumbnailTemplateActivity("s3_access_key"),
       PropagateDNSRecordActivity(Record("tenant.api")),
       CheckPodRunningStatusActivity(<<"deployment", "tenant", "jeeves">>),
       CheckPodRunningStatusActivity(<<"deployment", "tenant", "jeeves-worker">>) >>

\* The scaling is set up after the status has been written.
JeevesEnd ==
    << Unless({"deployment"}, UpdateTenantStatusActivity("Provisioned")),
       Unless({"deployment"}, Put("UpdateSpaceStatusActivity", <<"row", "spacestatus">>)),
       KedaApplyTemplatedYamlActivity("tenant", "scaledobject-server"),
       KedaApplyTemplatedYamlActivity("tenant", "scaledobject-worker") >>

JeevesOnboarding ==
    JeevesSettings \o JeevesPostgres \o JeevesAnalytics("tenant-ehr")
        \o JeevesNamespace \o JeevesUi \o JeevesBucketKeys \o JeevesSpaceSettings
        \o JeevesConfigMaps \o JeevesKeycloak \o JeevesUsers \o JeevesServers
        \o JeevesEnd

\* The failure is not announced: SlackNotificationActivity is not among the
\* activities the worker of this workflow has registered.
JeevesFailure ==
    << Unless({"deployment"}, UpdateTenantStatusActivity("ProvisioningFailed")),
       Unless({"deployment"},
              Quietly(Put("UpdateSpaceStatusActivity", <<"row", "spacestatus">>))),
       Unregistered(SlackNotificationActivity) >>
-----------------------------------------------------------------------------
\* One more space of an onboarded tenant, asked for by the product. The names
\* of vault keys and services below are those of the new space.

JeevesSpaceStanding ==
    JeevesStanding \cup
    {Role("jeeves"), NS("tenant"), V("pg_password"), V("space_names"), Realm("tenant"),
     Client("tenant", "jeeves"), Client("tenant", "formauth"), <<"row", "space">>,
     <<"deployment", "tenant", "jeeves">>, <<"deployment", "tenant", "jeeves-worker">>}

JeevesSpaceDatabase ==
    << PostgresSchemaCreationActivity("jeeves", "tenant-space", "jeeves"),
       OnePasswordCreateOrUpdateActivity("db_schema_name", {}),
       PostgresGrantAccessToUserActivity("jeeves", "jeeves", {"tenant-space"}),
       RedisSetupActivity("space", "redis_password"),
       OnePasswordCreateOrUpdateActivity("redis_password", {"redis_password"}) >>

\* The list of the names is read, and written with one more name; there is no
\* list to extend when it could not be read.
JeevesSpaceNames ==
    JeevesNovuSetupActivity \o ChatwootSetupActivity \o
    << OnePasswordInsertIfNotExistsActivity("outbound_queue_id", {}),
       OnePasswordGetActivity("space_names"),
       Needing({V("space_names")}, OnePasswordCreateOrUpdateActivity("space_names", {})),
       OnePasswordCreateOrUpdateActivity("space_display_name", {}),
       OnePasswordCreateOrUpdateActivity("vespa_index_name", {}),
       OnePasswordCreateOrUpdateActivity("space_name", {}) >>

JeevesSpaceServers ==
    << K8sConfigMapCreationActivity("tenant", "jeeves-space-config", {"redis_password"},
           {V("redis_password"), V("chatwoot_api_key"), V("novu_api_key")}),
       K8sConfigMapCreationActivity("tenant", "jeeves-tenant-config", {}, {V("pg_password")}),
       FetchDeploymentImageTagActivity,
       KubernetesDeploymentUpdateActivity("tenant", "jeeves"),
       KubernetesDeploymentUpdateActivity("tenant", "jeeves-worker"),
       DatabaseMigrationJobActivity("tenant", "jeeves-db-schema-migration-job-space", {}) >>
    \o JeevesAnalytics("tenant-space")

JeevesSpaceKeycloak ==
    << KeycloakClientSetupActivity("tenant", "jeeves-space", {}),
       KeycloakCreateClientRolesActivity("tenant", "jeeves-space"),
       KeycloakUpdateClientMapperActivity("tenant", "jeeves"),
       KeycloakUpdateClientMapperActivity("tenant", "formauth"),
       KeycloakCreateGroupActivity("tenant", "space", {Roles("tenant", "jeeves-space")}),
       KeycloakCreateGroupActivity("tenant", "space-users", {Group("tenant", "space")}),
       KeycloakCreateTenantCustomerAdminUserActivity("tenant",
                                                     {Roles("tenant", "jeeves-space")}),
       KeycloakCreateInternalUsersActivity("tenant", {Roles("tenant", "jeeves-space")}),
       VespaJobActivity("tenant", "vespa-space"),
       UpdateSpaceStatusActivity("Provisioned") >>

JeevesSpaceCreation ==
    JeevesSpaceDatabase \o JeevesSpaceNames \o JeevesSpaceServers \o JeevesSpaceKeycloak

\* The handler's own error is caught.
JeevesSpaceFailure == << Quietly(UpdateSpaceStatusActivity("ProvisioningFailed")) >>
-----------------------------------------------------------------------------
\* The teardown: no failure handler. The Redis namespace, the migration job
\* and the schema are looked for under names the onboarding has not used.

JeevesStopServer ==
    << DeleteKubernetesServiceActivity("tenant", "jeeves"),
       DeleteKubernetesIstioVirtualServiceActivity("tenant", "jeeves-vs"),
       VMPodScrapperDeletionActivity("tenant", "jeeves-metrics"),
       VMPodScrapperDeletionActivity("tenant", "jeeves-worker-metrics"),
       DeploymentDeletionActivity("tenant", "jeeves"),
       DeploymentDeletionActivity("tenant", "jeeves-worker"),
       DeleteK8sConfigMapActivity("tenant", "jeeves-tenant-config"),
       DeleteK8sConfigMapActivity("tenant", "jeeves-rclone-config") >>

JeevesDeleteStores ==
    << RedisDeleteNamespaceActivity("jeeves_tenant"),
       DeleteTemporalNamespaceActivity("jeeves_tenant"),
       VespaDeleteActivity,
       DeleteDatabaseMigrationJobActivity("tenant", "jeeves-db-schema-migration-job"),
       DeleteSupavisorTenantActivity("jeeves") >>

JeevesDropDatabase ==
    << DeletePostgresUserActivity("jeeves", {"jeeves"}),
       DeletePostgresSchemaActivity("jeeves", "jeeves_tenant"),
       DeleteChatwootAccountActivity >>

JeevesDeprovisionEnd ==
    << DeleteKeycloakClientActivity,
       DeleteKeycloakRealmActivity,
       DeleteIdpFromHelpinstanceActivity("help"),
       DeleteCloudflareBucketActivity("tenant"),
       DeleteCloudflareDNSRecordActivity("tenant.api"),
       UpdateTenantStatusActivity("DeProvisioned") >>

JeevesDeprovisioning ==
    JeevesStopServer \o JeevesDeleteStores \o JeevesDropDatabase \o JeevesDeprovisionEnd
=============================================================================
