------------------------------ MODULE HdpPlan ------------------------------
(***************************************************************************)
(* The HDP onboarding workflow, src/app/cli/temporal/hdp/workflows/        *)
(* onboarding.py, after the approval: its activities in order.  The four   *)
(* passwords and the one of Redis are generated in the workflow's code.    *)
(***************************************************************************)
EXTENDS Activities

HdpVault ==
    << OnePasswordCreateOrUpdateActivity("hdp_pg_password", {"hdp_pg_password"}),
       OnePasswordCreateOrUpdateActivity("kestra_pg_password", {"kestra_pg_password"}),
       OnePasswordCreateOrUpdateActivity("kestra_password", {"kestra_password"}),
       OnePasswordCreateOrUpdateActivity("superset_password", {"superset_password"}) >>

HdpPostgres ==
    << PostgresDatabaseCreationActivity("hdp"),
       PostgresDatabaseCreationActivity("kestra"),
       PostgresUserCreationActivity("hdp", "hdp_pg_password"),
       PostgresUserCreationActivity("kestra", "kestra_pg_password"),
       PostgresGrantAccessToUserActivity("hdp", "hdp", {}),
       PostgresGrantAccessToUserActivity("kestra", "kestra", {}) >>

HdpConfiguration ==
    << K8sNamespaceCreationActivity("tenant"),
       K8sSecretCreationActivity("tenant", "registrycred", {}),
       OnePasswordCreateOrUpdateActivity("redis_password", {"redis_password"}),
       RedisSetupActivity("tenant", "redis_password"),
       K8sConfigMapCreationActivity("tenant", "hdp-tenant-config",
           {"hdp_pg_password", "redis_password"},
           {V("hdp_pg_password"), V("redis_password")}),
       K8sConfigMapCreationActivity("tenant", "kestra-config",
           {"kestra_pg_password"}, {V("kestra_pg_password")}),
       DnsSetupActivity("tenant") >>

HdpUi == << UiSetupActivity("hdp-ui"), UiSetupActivity("hdp-superset") >>

HdpKeycloak ==
    << KeycloakRealmSetupActivity("tenant", {}),
       KeycloakClientSetupActivity("tenant", "hdp", {}),
       KeycloakCreateClientRolesActivity("tenant", "hdp"),
       KeycloakCreateTenantCustomerAdminUserActivity("tenant", {Roles("tenant", "hdp")}) >>

HdpNetwork ==
    << KubernetesServiceActivity("tenant", "hdp"),
       KubernetesIstioVirtualServiceActivity("tenant", "hdp-vs") >>

HdpServers ==
    << PVCSetupActivity("tenant", "hdp-volume"),
       KubernetesStatefulSetActivity("tenant", "hdp",
           {"hdp_pg_password", "redis_password", "superset_password"}) >>

HdpKestra ==
    << PVCSetupActivity("tenant", "kestra-volume"),
       KubernetesStatefulSetActivity("tenant", "kestra", {"kestra_password"}) >>

HdpEnd ==
    << UpdateTenantStatusActivity("Provisioned"),
       SendAfterProvisioningMailActivity("tenant") >>

HdpOnboarding ==
    HdpVault \o HdpPostgres \o HdpConfiguration \o HdpUi \o HdpKeycloak
        \o HdpNetwork \o HdpServers \o HdpKestra \o HdpEnd

HdpFailure == << UpdateTenantStatusActivity("ProvisioningFailed") >>
=============================================================================
