----------------------------- MODULE Activities -----------------------------
(***************************************************************************)
(* What the activities of the provisioning workflows do to the world       *)
(* outside: one operator per activity class of                             *)
(* src/app/cli/temporal/activities/, named after the class.  Its           *)
(* parameters are the fields of the class's input that tell one call from  *)
(* another; its value is a STEP, a record a workflow's plan is made of:    *)
(*                                                                         *)
(*   act      the registered name of the activity                          *)
(*   does     "put"     every resource of `on' is there afterwards, with   *)
(*                      the credentials of this call (an upsert)           *)
(*            "ensure"  every resource of `on' is there afterwards; one    *)
(*                      that is there already keeps what it has            *)
(*            "once"    nothing when `guard' is there already, else one    *)
(*                      more of every resource of `on'                     *)
(*            "insert"  one more row is added on every call                *)
(*            "lookup"  one more row, unless a query made just before      *)
(*                      finds one                                          *)
(*            "keyed"   one more row, unless one with these `carries' is   *)
(*                      there: they are its key                            *)
(*            "delete"  the resources of `on' are gone afterwards          *)
(*            "make"    returns a fresh password                           *)
(*            "fetch"   returns what the first resource of `on' holds,     *)
(*                      for a workflow that does not know it yet           *)
(*            "issue"   creates `on' and returns its credential; one that  *)
(*                      is there already has a credential nobody can read  *)
(*            "status"  writes the tenant's status                         *)
(*            "check"   changes nothing                                    *)
(*   on       the resources, in the order the code touches them            *)
(*   guard    what a "once" step looks for before it does anything         *)
(*   carries  the secrets the call writes into (or returns from) them      *)
(*   sources  where those secrets are read from; {} when the workflow      *)
(*            passes them as arguments                                     *)
(*   needs    resources without which the code raises                      *)
(*   bars     resources with which the code raises                         *)
(*   quiet    the error is caught, the workflow goes on                    *)
(*   known    the secrets without which the workflow leaves the call out   *)
(*   skip     the resources with which the workflow leaves it out          *)
(*   tries    maximum_attempts of its retry policy                         *)
(*   when, unless   the options of the tenant under which, and without     *)
(*            which, the workflow makes the call                           *)
(*   status   the status a "status" step writes                            *)
(*                                                                         *)
(* A resource is a tuple of strings that starts with its kind.  An         *)
(* activity that looks and creates several times is a sequence of such     *)
(* steps with one name: all of them are skipped over when it is repeated,  *)
(* so that repeating it from the first or from the last step is the same.  *)
(*                                                                         *)
(* Some activities are registered but called by no workflow (README.md     *)
(* lists them); they are here so that the module has what a workflow of    *)
(* the worker can call.                                                    *)
(***************************************************************************)
EXTENDS Naturals, Sequences, FiniteSets

\* Operations that leave something behind, and the other ones.
Builds == {"put", "ensure", "once", "insert", "lookup", "keyed", "issue"}

Step(act, does, on) ==
    [act |-> act, does |-> does, on |-> on, guard |-> << >>, carries |-> {},
     sources |-> {}, needs |-> {}, bars |-> {}, quiet |-> FALSE, tries |-> 5,
     known |-> {}, skip |-> {}, when |-> {}, unless |-> {}, status |-> ""]

Put(act, r)    == Step(act, "put", <<r>>)
Ensure(act, r) == Step(act, "ensure", <<r>>)
Delete(act, r) == Step(act, "delete", <<r>>)
Check(act)     == Step(act, "check", << >>)

Once(act, guard, rs) == [Step(act, "once", rs) EXCEPT !.guard = guard]

Carrying(secrets, s) == [s EXCEPT !.carries = secrets]
From(rs, s)          == [s EXCEPT !.sources = rs]
Needing(rs, s)       == [s EXCEPT !.needs = @ \cup rs]
Barred(rs, s)        == [s EXCEPT !.bars = rs]
Quietly(s)           == [s EXCEPT !.quiet = TRUE]
Knowing(secrets, s)  == [s EXCEPT !.known = secrets]
UnlessThere(rs, s)   == [s EXCEPT !.skip = rs]
Tries(n, s)          == [s EXCEPT !.tries = n]
When(chosen, s)      == [s EXCEPT !.when = @ \cup chosen]
Unless(chosen, s)    == [s EXCEPT !.unless = @ \cup chosen]

\* A block of steps under one condition of the workflow.
AllWhen(chosen, steps)    == [i \in DOMAIN steps |-> When(chosen, steps[i])]
AllUnlessThere(rs, steps) == [i \in DOMAIN steps |-> UnlessThere(rs, steps[i])]
AllUnless(chosen, steps)  == [i \in DOMAIN steps |-> Unless(chosen, steps[i])]
-----------------------------------------------------------------------------
\* Kubernetes (server_side_apply and delete of the dynamic client)

NS(ns) == <<"namespace", ns>>

K8sNamespaceCreationActivity(ns) == Put("K8sNamespaceCreationActivity", NS(ns))

\* maximum_attempts is 1: it is the one creation that is not repeated.
K8sConfigMapCreationActivity(ns, name, secrets, vaults) ==
    Tries(1, Needing({NS(ns)} \cup vaults, From(vaults, Carrying(secrets,
        Put("K8sConfigMapCreationActivity", <<"configmap", ns, name>>)))))

K8sConfigMapCreatFromTemplateActivity(ns, name, secrets, vaults) ==
    Needing({NS(ns)} \cup vaults, From(vaults, Carrying(secrets,
        Put("K8sConfigMapCreatFromTemplateActivity", <<"configmap", ns, name>>))))

DeleteK8sConfigMapActivity(ns, name) ==
    Delete("DeleteK8sConfigMapActivity", <<"configmap", ns, name>>)

K8sSecretCreationActivity(ns, name, secrets) ==
    Needing({NS(ns)}, Carrying(secrets,
        Put("K8sSecretCreationActivity", <<"secret", ns, name>>)))

K8sSecretDeletionActivity(ns, name) ==
    Delete("K8sSecretDeletionActivity", <<"secret", ns, name>>)

K8sSecretFetchActivity(ns, name, secrets) ==
    Tries(3, Carrying(secrets,
        Step("K8sSecretFetchActivity", "fetch", <<<<"secret", ns, name>>>>)))

KubernetesServiceActivity(ns, name) ==
    Needing({NS(ns)}, Put("KubernetesServiceActivity", <<"service", ns, name>>))

DeleteKubernetesServiceActivity(ns, name) ==
    Delete("DeleteKubernetesServiceActivity", <<"service", ns, name>>)

KubernetesIstioVirtualServiceActivity(ns, name) ==
    Needing({NS(ns)}, Put("KubernetesIstioVirtualServiceActivity",
                          <<"virtualservice", ns, name>>))

DeleteKubernetesIstioVirtualServiceActivity(ns, name) ==
    Delete("DeleteKubernetesIstioVirtualServiceActivity",
           <<"virtualservice", ns, name>>)

PVCSetupActivity(ns, name) ==
    Needing({NS(ns)}, Put("PVCSetupActivity", <<"pvc", ns, name>>))

PVCDeletionActivity(ns, name) ==
    Delete("PVCDeletionActivity", <<"pvc", ns, name>>)

CreateKubernetesResourcesActivity(ns) ==
    Needing({NS(ns)}, Step("CreateKubernetesResourcesActivity", "put",
        <<<<"serviceaccount", ns>>, <<"role", ns>>, <<"rolebinding", ns>>>>))

KubernetesStatefulSetActivity(ns, name, secrets) ==
    Needing({NS(ns)}, Carrying(secrets,
        Put("KubernetesStatefulSetActivity", <<"statefulset", ns, name>>)))

StatefulSetPodDeletionActivity(ns, name) ==
    Delete("StatefulSetPodDeletionActivity", <<"statefulset", ns, name>>)

KubernetesDeploymentActivity(ns, name, secrets) ==
    Needing({NS(ns)}, Carrying(secrets,
        Put("KubernetesDeploymentActivity", <<"deployment", ns, name>>)))

\* Raises NotFoundError when there is no such deployment.
KubernetesDeploymentUpdateActivity(ns, name) ==
    Tries(3, Needing({<<"deployment", ns, name>>},
                     Check("KubernetesDeploymentUpdateActivity")))

DeploymentDeletionActivity(ns, name) ==
    Delete("DeploymentDeletionActivity", <<"deployment", ns, name>>)

\* An object that is there already is left alone.
KedaApplyTemplatedYamlActivity(ns, name) ==
    Tries(3, Needing({NS(ns)},
        Ensure("KedaApplyTemplatedYamlActivity", <<"keda", ns, name>>)))

KedaScaledObjectDeletionActivity(ns, name) ==
    Delete("KedaScaledObjectDeletionActivity", <<"keda", ns, name>>)

\* Every error, a missing deployment too, becomes the tag "production".
FetchDeploymentImageTagActivity ==
    Tries(3, Quietly(Check("FetchDeploymentImageTagActivity")))

\* Polls for ten minutes, once.
CheckPodRunningStatusActivity(workload) ==
    Tries(1, Needing({workload}, Check("CheckPodRunningStatusActivity")))

\* The former job is deleted first, then applied anew.
JobActivity(ns, name, secrets) ==
    Needing({NS(ns)}, Carrying(secrets, Put("JobActivity", <<"job", ns, name>>)))

DeleteJobActivity(ns, name) ==
    Delete("DeleteJobActivity", <<"job", ns, name>>)

DatabaseMigrationJobActivity(ns, name, secrets) ==
    Needing({NS(ns)}, Carrying(secrets,
        Put("DatabaseMigrationJobActivity", <<"job", ns, name>>)))

DeleteDatabaseMigrationJobActivity(ns, name) ==
    Delete("DeleteDatabaseMigrationJobActivity", <<"job", ns, name>>)

VMPodScrapperActivity(ns, name) ==
    Needing({NS(ns)}, Put("VMPodScrapperActivity", <<"podscrape", ns, name>>))

VMPodScrapperDeletionActivity(ns, name) ==
    Delete("VMPodScrapperDeletionActivity", <<"podscrape", ns, name>>)
-----------------------------------------------------------------------------
\* Passwords and the 1Password vault

V(key) == <<"vault", key>>

CreatePasswordActivity(secret) ==
    Carrying({secret}, Step("CreatePasswordActivity", "make", << >>))

OnePasswordCreateOrUpdateActivity(key, secrets) ==
    Carrying(secrets, Put("OnePasswordCreateOrUpdateActivity", V(key)))

OnePasswordInsertIfNotExistsActivity(key, secrets) ==
    Carrying(secrets, Ensure("OnePasswordInsertIfNotExistsActivity", V(key)))

\* A key that cannot be read is returned as None.
OnePasswordGetActivity(key) ==
    Carrying({key}, Step("OnePasswordGetActivity", "fetch", <<V(key)>>))
-----------------------------------------------------------------------------
\* Postgres and Supavisor

DB(db)          == <<"database", db>>
Role(user)      == <<"role", user>>
Schema(db, sch) == <<"schema", db, sch>>
Grant(user, db) == <<"grant", user, db>>
Owned(user, db) == <<"owned", user, db>>

\* The schema belongs to the user from then on.
PostgresSchemaCreationActivity(db, sch, user) ==
    Needing({DB(db), Role(user)},
        Step("PostgresSchemaCreationActivity", "ensure",
             <<Schema(db, sch), Owned(user, db)>>))

\* CREATE ROLE, or ALTER USER when the role is there: always this password.
PostgresUserCreationActivity(user, secret) ==
    Carrying({secret}, Put("PostgresUserCreationActivity", Role(user)))

PostgresUserCreationFromSecretActivity(user, ns, name, secret) ==
    Needing({<<"secret", ns, name>>}, From({<<"secret", ns, name>>},
        Carrying({secret},
            Put("PostgresUserCreationFromSecretActivity", Role(user)))))

PostgresDatabaseCreationActivity(db) ==
    Ensure("PostgresDatabaseCreationActivity", DB(db))

PostgresGrantAccessToUserActivity(db, user, schemas) ==
    Needing({DB(db), Role(user)} \cup {Schema(db, sch) : sch \in schemas},
        Put("PostgresGrantAccessToUserActivity", Grant(user, db)))

\* CREATE USER MAPPING IF NOT EXISTS
KeycloakUserMappingActivity(db, user) ==
    Needing({DB(db), Role(user)},
        Ensure("KeycloakUserMappingActivity", <<"usermapping", "keycloak", user>>))

RevokeKeycloakUserMappingActivity(db, user) ==
    Quietly(Needing({DB(db)}, Delete("RevokeKeycloakUserMappingActivity",
                                     <<"usermapping", "keycloak", user>>)))

MatomoUserMappingActivity(db, user) ==
    Needing({DB(db), Role(user)},
        Ensure("MatomoUserMappingActivity", <<"usermapping", "matomo", user>>))

RevokeMatomoUserMappingActivity(db, user) ==
    Quietly(Needing({DB(db)}, Delete("RevokeMatomoUserMappingActivity",
                                     <<"usermapping", "matomo", user>>)))

TableSpaceActivity(db, user) ==
    Needing({DB(db), Role(user)},
            Put("TableSpaceActivity", <<"tablespace", user>>))

PostgresGrantAllPrivilegesOnTableActivity(db, user) ==
    Needing({DB(db), Role(user)},
        Put("PostgresGrantAllPrivilegesOnTableActivity", Grant(user, db)))

\* PUT of the pooler's tenant with the database password.
PostgresSupavisorPollUserActivity(user, secret) ==
    Carrying({secret},
        Put("PostgresSupavisorPollUserActivity", <<"supavisor", user>>))

DeleteSupavisorTenantActivity(user) ==
    Delete("DeleteSupavisorTenantActivity", <<"supavisor", user>>)

\* DROP USER fails while the user owns something or has a privilege.
DeletePostgresUserActivity(user, dbs) ==
    Barred(UNION {{Owned(user, db), Grant(user, db)} : db \in dbs},
           Delete("DeletePostgresUserActivity", Role(user)))

RevokeAllPrivilegesOnTableActivity(db, user) ==
    Quietly(Needing({DB(db), Role(user)},
        Delete("RevokeAllPrivilegesOnTableActivity", Grant(user, db))))

\* REASSIGN OWNED takes the schemas and tables, DROP OWNED the privileges.
RevokeOwnershipOnTableActivity(db, user) ==
    Quietly(Needing({DB(db), Role(user)},
        Step("RevokeOwnershipOnTableActivity", "delete",
             <<Owned(user, db), Grant(user, db), <<"tablespace", user>>>>)))

DeletePostgresSchemaActivity(db, sch) ==
    Quietly(Needing({DB(db)},
        Delete("DeletePostgresSchemaActivity", Schema(db, sch))))

\* The four grants to an analytics user: every error is caught.
QuietGrant(act, db, sch, user) ==
    Quietly(Needing({DB(db), Role(user), Schema(db, sch)}, Put(act, Grant(user, db))))

PostgresGrantAllPrivilegesOnSchemaActivity(db, sch, user) ==
    QuietGrant("PostgresGrantAllPrivilegesOnSchemaActivity", db, sch, user)

PostgresGrantAllPrivilegesOnSequencesActivity(db, sch, user) ==
    QuietGrant("PostgresGrantAllPrivilegesOnSequencesActivity", db, sch, user)

PostgresGrantAllPrivilegesOnTablesActivity(db, sch, user) ==
    QuietGrant("PostgresGrantAllPrivilegesOnTablesActivity", db, sch, user)

PostgresGrantAllPrivilegesOnFunctionsActivity(db, sch, user) ==
    QuietGrant("PostgresGrantAllPrivilegesOnFunctionsActivity", db, sch, user)

\* SET ROLE to the owner of the schema; errors are raised.
PostgresGrantSupersetReadOnlyActivity(db, sch, owner, user) ==
    Needing({DB(db), Role(user), Role(owner), Schema(db, sch)},
        Put("PostgresGrantSupersetReadOnlyActivity", Grant(user, db)))

PostgresCheckRoleExistsActivity(db) ==
    Needing({DB(db)}, Check("PostgresCheckRoleExistsActivity"))
-----------------------------------------------------------------------------
\* Keycloak

Realm(realm)            == <<"realm", realm>>
Client(realm, client)   == <<"client", realm, client>>
Roles(realm, client)    == <<"clientroles", realm, client>>
Group(realm, group)     == <<"group", realm, group>>
KcUser(realm, user)     == <<"user", realm, user>>
IdP(realm)              == <<"idp", realm>>
Mappers(realm)          == <<"idpmappers", realm>>

KeycloakRealmSetupActivity(realm, secrets) ==
    Carrying(secrets, Ensure("KeycloakRealmSetupActivity", Realm(realm)))

\* create_client(skip_exists = True): a client that is there keeps its secret.
KeycloakClientSetupActivity(realm, client, secrets) ==
    Needing({Realm(realm)}, Carrying(secrets,
        Ensure("KeycloakClientSetupActivity", Client(realm, client))))

KeycloakServiceAccountSetupActivity(realm, client, secrets) ==
    Needing({Realm(realm)}, Carrying(secrets,
        Ensure("KeycloakServiceAccountSetupActivity", Client(realm, client))))

KeycloakCreateClientRolesActivity(realm, client) ==
    Needing({Client(realm, client)},
        Ensure("KeycloakCreateClientRolesActivity", Roles(realm, client)))

KeycloakCreateCompositeRolesActivity(realm, client) ==
    Needing({Roles(realm, client)},
        Put("KeycloakCreateCompositeRolesActivity", <<"composites", realm, client>>))

\* The role, of another client, is given to the client's service account.
KeycloakAssignServiceAccountRoleActivity(realm, client, role, needs) ==
    Needing({Client(realm, client)} \cup needs,
        Put("KeycloakAssignServiceAccountRoleActivity",
            <<"servicerole", realm, client, role>>))

KeycloakGrantRealmManagementRolesActivity(realm, client) ==
    Needing({Client(realm, client)},
        Put("KeycloakGrantRealmManagementRolesActivity",
            <<"managementroles", realm, client>>))

KeycloakCreateTenantCustomerAdminUserActivity(realm, needs) ==
    Needing({Realm(realm)} \cup needs,
        Ensure("KeycloakCreateTenantCustomerAdminUserActivity", KcUser(realm, "admin")))

KeycloakCreateInternalUsersActivity(realm, needs) ==
    Needing({Realm(realm)} \cup needs,
        Ensure("KeycloakCreateInternalUsersActivity", KcUser(realm, "internal")))

KeycloakSetUserAttributeActivity(realm) ==
    Needing({KcUser(realm, "admin")},
        Put("KeycloakSetUserAttributeActivity", <<"attribute", realm, "admin">>))

KeycloakCreateGroupActivity(realm, group, needs) ==
    Needing({Realm(realm)} \cup needs,
        Ensure("KeycloakCreateGroupActivity", Group(realm, group)))

KeycloakOrganisationSetupActivity(realm) ==
    Needing({Realm(realm)},
        Ensure("KeycloakOrganisationSetupActivity", <<"organisation", realm>>))

\* The mappers are created only after the provider was: a provider that is
\* found keeps the mappers it has.
KeycloakCreateIDPFlowActivity(realm) ==
    Needing({Realm(realm)},
        Once("KeycloakCreateIDPFlowActivity", IdP(realm), <<IdP(realm), Mappers(realm)>>))

JeevesKeycloakCreateIDPFlowActivity(realm) ==
    Quietly(Needing({Realm(realm)}, Once("JeevesKeycloakCreateIDPFlowActivity",
                                IdP(realm), <<IdP(realm), Mappers(realm)>>)))

DexitKeycloakCreateIDPFlowActivity(realm) ==
    Quietly(Needing({Realm(realm)}, Once("DexitKeycloakCreateIDPFlowActivity",
                                IdP(realm), <<IdP(realm), Mappers(realm)>>)))

DeleteIdpFromHelpinstanceActivity(realm) ==
    Quietly(Step("DeleteIdpFromHelpinstanceActivity", "delete",
                 <<IdP(realm), Mappers(realm)>>))

DeleteIdpFromDexithelpActivity(realm) ==
    Quietly(Step("DeleteIdpFromDexithelpActivity", "delete",
                 <<IdP(realm), Mappers(realm)>>))

\* delete_client is given the clientId where the server wants the internal
\* id: the 404 is caught, the client stays.
DeleteKeycloakClientActivity == Quietly(Check("DeleteKeycloakClientActivity"))

\* delete_realm builds a set of dicts whenever the realm is there: the
\* TypeError is caught, the realm stays.
DeleteKeycloakRealmActivity == Quietly(Check("DeleteKeycloakRealmActivity"))

\* Read the mapper, change it, write it back.
KeycloakUpdateClientMapperActivity(realm, client) ==
    Needing({Client(realm, client)},
        Put("KeycloakUpdateClientMapperActivity", <<"mapper", realm, client>>))

\* A client that is not there has the secret None.
KeycloakGetClientSecretActivity(realm, client, secrets) ==
    Carrying(secrets, Step("KeycloakGetClientSecretActivity", "fetch",
                           <<Client(realm, client)>>))
-----------------------------------------------------------------------------
\* Cloudflare, DNS

Bucket(b) == <<"bucket", b>>
Record(d) == <<"dns", d>>

CreateCloudflareBucketActivity(b) ==
    Ensure("CreateCloudflareBucketActivity", Bucket(b))

\* A bucket with files in it is refused.
DeleteCloudflareBucketActivity(b) ==
    Quietly(Barred({<<"files", b>>},
        Step("DeleteCloudflareBucketActivity", "delete",
             <<Bucket(b), <<"bucketdomain", b>>, <<"cors", b>>>>)))

\* The queue, then the consumer that reads it.
CreateCloudflareQueueActivity(q) ==
    Step("CreateCloudflareQueueActivity", "ensure",
         <<<<"queue", q>>, <<"consumer", q>>>>)

DeleteCloudflareQueueActivity(q) ==
    Step("DeleteCloudflareQueueActivity", "delete",
         <<<<"consumer", q>>, <<"queue", q>>>>)

WorkersKVPutActivity(key, secrets) ==
    Carrying(secrets, Put("WorkersKVPutActivity", <<"kv", key>>))

WorkersKVDeleteKeysActivity(key) ==
    Delete("WorkersKVDeleteKeysActivity", <<"kv", key>>)

\* References to vault keys that cannot be read are left out.
WorkersKVConfigUploadActivity(key, secrets, vaults) ==
    From(vaults, Carrying(secrets,
        Put("WorkersKVConfigUploadActivity", <<"kv", key>>)))

CreateCloudflareDNSRecordActivity(d) ==
    Ensure("CreateCloudflareDNSRecordActivity", Record(d))

DeleteCloudflareDNSRecordActivity(d) ==
    Quietly(Delete("DeleteCloudflareDNSRecordActivity", Record(d)))

PropagateDNSRecordActivity(record) ==
    Needing({record}, Check("PropagateDNSRecordActivity"))

LinkBucketToDomainActivity(b) ==
    Needing({Bucket(b)},
        Ensure("LinkBucketToDomainActivity", <<"bucketdomain", b>>))

\* Files are copied again by every call.
CopyFiles(act, b) == Needing({Bucket(b)}, Put(act, <<"files", b>>))

CopyArtifactsToBucketActivity(b) == CopyFiles("CopyArtifactsToBucketActivity", b)
CopyWebCoreToBucketActivity(b)   == CopyFiles("CopyWebCoreToBucketActivity", b)

\* The site and the careers site, each into its bucket.
PenknifeCopyArtifactsToBucketActivity(b, careers) ==
    Needing({Bucket(b), Bucket(careers)},
        Step("PenknifeCopyArtifactsToBucketActivity", "put",
             <<<<"files", b>>, <<"files", careers>>>>))

DeleteFilesFromCloudflareActivity(b) ==
    Delete("DeleteFilesFromCloudflareActivity", <<"files", b>>)

UpdateCORSForBucketActivity(b) ==
    Needing({Bucket(b)}, Put("UpdateCORSForBucketActivity", <<"cors", b>>))

\* Returns the keys of the new token; of a token that exists already it
\* returns that it exists.
CreateCloudflareBucketCredentialsActivity(b, secret) ==
    Carrying({secret}, Step("CreateCloudflareBucketCredentialsActivity", "issue",
                            <<<<"r2token", b>>>>))

\* Reads the policies of the shared token, adds the buckets, writes them
\* back; does nothing when there is no such token.
AddBucketsToR2TokenActivity(b) ==
    Put("AddBucketsToR2TokenActivity", <<"r2policy", b>>)

\* A Conflict of the Google API is tolerated.
DnsSetupActivity(d) == Ensure("DnsSetupActivity", Record(d))
-----------------------------------------------------------------------------
\* Stores and services of the tenant

RedisSetupActivity(ns, secret) ==
    Carrying({secret}, Put("RedisSetupActivity", <<"redis", ns>>))

RedisSetupFromSecretActivity(ns, name, secret) ==
    Needing({<<"secret", ns, name>>}, From({<<"secret", ns, name>>},
        Carrying({secret}, Put("RedisSetupFromSecretActivity", <<"redis", ns>>))))

RedisDeleteNamespaceActivity(ns) ==
    Delete("RedisDeleteNamespaceActivity", <<"redis", ns>>)

CreateMinioBucketActivity(b) ==
    Ensure("CreateMinioBucketActivity", <<"minio", b>>)

CreateMinioUserActivity(user, secret) ==
    Carrying({secret}, Put("CreateMinioUserActivity", <<"miniouser", user>>))

\* The policy has one name for all tenants; one that is there is kept.
AttachMinioPolicyActivity(user) ==
    Needing({<<"miniouser", user>>},
        Put("AttachMinioPolicyActivity", <<"miniopolicy", user>>))

CreateStarRocksCatalogActivity(c, secrets) ==
    Carrying(secrets, Ensure("CreateStarRocksCatalogActivity", <<"catalog", c>>))

CreateStarRocksUserActivity(user, c, secret) ==
    Needing({<<"catalog", c>>}, Carrying({secret},
        Ensure("CreateStarRocksUserActivity", <<"starrocksuser", user>>)))

StarRocksGrantReadOnlyCatalogActivity(user, c) ==
    Needing({<<"catalog", c>>},
        Put("StarRocksGrantReadOnlyCatalogActivity", <<"catalogrights", user>>))

UiSetupActivity(b) == Put("UiSetupActivity", <<"ui", b>>)

GrafanaDashboardActivity(d) ==
    Tries(3, Put("GrafanaDashboardActivity", <<"dashboard", d>>))

\* "User exists" (422) and "repository exists" (409) are tolerated.
GiteaSetupActivity(user, repo) ==
    Step("GiteaSetupActivity", "ensure",
         <<<<"giteauser", user>>, <<"gitearepo", repo>>>>)

RocketMQTopicSetupActivity(topic) ==
    Put("RocketMQTopicSetupActivity", <<"topic", topic>>)

\* The user is updated with this password when it is there.
SupersetTenantSetupActivity(tenant, secret) ==
    Carrying({secret}, Put("SupersetTenantSetupActivity", <<"superset", tenant>>))

CreateDropletActivity(name) == Ensure("CreateDropletActivity", <<"droplet", name>>)

AiVoiceSetupActivity(key) ==
    Needing({V(key)}, Put("AiVoiceSetupActivity", <<"files", "ai_voice">>))

CopyThumbnailTemplateActivity(key) ==
    Needing({V(key)}, Put("CopyThumbnailTemplateActivity", <<"files", "thumbnail">>))

VespaJobActivity(ns, name) ==
    Needing({NS(ns)}, Put("VespaJobActivity", <<"job", ns, name>>))

VespaDeleteActivity == Tries(3, Quietly(Delete("VespaDeleteActivity", <<"vespa">>)))

TemporalNamespaceActivity(ns) ==
    Ensure("TemporalNamespaceActivity", <<"temporalns", ns>>)

DeleteTemporalNamespaceActivity(ns) ==
    Delete("DeleteTemporalNamespaceActivity", <<"temporalns", ns>>)

TemporalSearchAttributesCreationActivity(ns) ==
    Needing({<<"temporalns", ns>>},
        Ensure("TemporalSearchAttributesCreationActivity", <<"attributes", ns>>))

TenantCrdCreationActivity(name) == Put("TenantCrdCreationActivity", <<"tenantcrd", name>>)

TenantCrdDeletionActivity(name) ==
    Delete("TenantCrdDeletionActivity", <<"tenantcrd", name>>)

\* The workflow that asks raises when the resource is there.
TenantCrdExistsActivity(name) ==
    Barred({<<"tenantcrd", name>>}, Check("TenantCrdExistsActivity"))

GetTenantCrdActivity == Check("GetTenantCrdActivity")

KubernetesDeploymentRestartActivity(ns, name) ==
    Needing({<<"deployment", ns, name>>}, Check("KubernetesDeploymentRestartActivity"))

StatefulSetRestartActivity(ns, name) ==
    Needing({<<"statefulset", ns, name>>}, Check("StatefulSetRestartActivity"))
-----------------------------------------------------------------------------
\* Chatwoot, fax, Novu: look in the vault, create, store the key in the vault

\* Mutated form: the bot is added by the attempt that creates the inbox.
LiveInbox_half(act) ==
    Once(act, <<"chatwoot", "inbox">>, <<<<"chatwoot", "inbox">>, <<"chatwoot", "botofinbox">>>>)

\* The inbox, and the bot in it: each is looked for.
LiveInbox(act) ==
    Step(act, "ensure", <<<<"chatwoot", "inbox">>, <<"chatwoot", "botofinbox">>>>)

\* The first two parts are skipped when the vault has their key: killed between
\* the two writes of a part, the repeated attempt creates a second account or
\* user. The bot is looked for at Chatwoot: killed before its token is in the
\* vault, the repeated attempt finds the bot and does not store its token.
ChatwootSetupActivity ==
    LET act == "ChatwootSetupActivity"
        account == <<"chatwoot", "account">>
        user == <<"chatwoot", "user">>
        bot == <<"chatwoot", "bot">>
    IN  << Once(act, V("chatwoot_account_id"), <<account, V("chatwoot_account_id")>>),
           Once(act, V("chatwoot_api_key"), <<user, V("chatwoot_api_key")>>),
           Needing({account}, Once(act, bot, <<bot, V("chatwoot_bot_token")>>)),
           Needing({account}, LiveInbox(act)),
           Put(act, <<"chatwoot", "attributes">>) >>

ChatwootSamlSetupActivity ==
    Needing({V("chatwoot_account_id"), V("chatwoot_api_key")},
        Put("ChatwootSamlSetupActivity", <<"chatwoot", "saml">>))

\* Reads the account id in the section <product>_<tenant> of the vault, where
\* the setup has not stored it, and raises.
DeleteChatwootAccountActivity ==
    Tries(3, Needing({V("chatwoot_account_id of <product>_<tenant>")},
        Delete("DeleteChatwootAccountActivity", <<"chatwoot", "account">>)))

\* The subproject and the service are found by name; the access key by its
\* entry in the vault. The key's own errors are caught.
FaxSetupActivity ==
    LET act == "FaxSetupActivity"
    IN  << Ensure(act, <<"sinch", "subproject">>),
           Ensure(act, V("sinch_project_id")),
           Needing({V("webhook_secret")}, From({V("webhook_secret")},
               Carrying({"webhook_secret"}, Ensure(act, <<"sinch", "service">>)))),
           Ensure(act, V("sinch_fax_service_id")),
           Quietly(Once(act, V("sinch_access_key"),
               <<<<"sinch", "accesskey">>, V("sinch_access_key"),
                 V("sinch_access_key_secret")>>)) >>

\* Returns when the vault has no subproject, and when the call is refused.
DeleteSinchSubprojectActivity ==
    Quietly(Delete("DeleteSinchSubprojectActivity", <<"sinch", "subproject">>))

\* The organisation, its key, the templates, the providers of the channels. The
\* one for mail is created, then made the primary one: not any more when an
\* attempt finds it.
NovuSetup(act, templates, channels) ==
    LET mail == <<"novu", "email">>
    IN  << Ensure(act, <<"novu", "organisation">>), Ensure(act, V("novu_api_key")) >>
        \o templates \o << Once(act, mail, <<mail, <<"novu", "primary">>>>) >>
        \o [i \in DOMAIN channels |-> Ensure(act, <<"novu", channels[i]>>)]

\* The layout is created without its body, the body is put into it: not any more
\* when an attempt finds the layout. What Novu refuses is only logged.
JeevesNovuSetupActivity ==
    LET act == "JeevesNovuSetupActivity"
        layout == <<"novu", "layout">>
    IN  NovuSetup(act,
            << Quietly(Once(act, layout, <<layout, <<"novu", "layoutbody">>>>)),
               Quietly(Put(act, <<"novu", "workflow">>)) >>, <<"in_app">>)

\* Templates of another origin are deleted and created anew.
DexitNovuSetupActivity ==
    LET act == "DexitNovuSetupActivity"
    IN  NovuSetup(act, << Put(act, <<"novu", "templates">>) >>, <<"in_app", "chat">>)

\* create_novu_workflow_templates is not awaited: no template is created.
PenknifeNovuSetupActivity ==
    NovuSetup("PenknifeNovuSetupActivity", << >>, <<"in_app">>)

VeritableNovuOnboardingActivity ==
    Ensure("VeritableNovuOnboardingActivity", <<"novu", "organisation">>)

\* The organisation stays, empty.
VeritableNovuDeProvisionActivity ==
    Step("VeritableNovuDeProvisionActivity", "delete",
         <<<<"novu", "subscribers">>, <<"novu", "workflows">>, <<"novu", "integrations">>>>)
-----------------------------------------------------------------------------
\* Jobs, models, the rows of the launchpad database, mails and messages

\* The former job and its pods are deleted first; polling that ends without
\* an answer is a success.
PractiflyJobActivity(ns, name) ==
    Needing({NS(ns)}, Put("PractiflyJobActivity", <<"job", ns, name>>))

VeritableDatabaseMigrationJobActivity(ns, name) ==
    Needing({NS(ns)}, Put("VeritableDatabaseMigrationJobActivity", <<"job", ns, name>>))

DeleteVeritableDatabaseMigrationJobActivity(ns, name) ==
    Delete("DeleteVeritableDatabaseMigrationJobActivity", <<"job", ns, name>>)

\* The row found or inserted is returned.
MuspellConfigUpdateJobActivity(db, user, sch) ==
    Needing({Role(user), Schema(db, sch)},
        Ensure("MuspellConfigUpdateJobActivity", <<"systems", db>>))

MuspellSparkSetupActivity == Check("MuspellSparkSetupActivity")

\* The repository may be there; the ClearML task is a new one every time.
ClassificationModelDeploymentActivity ==
    Step("ClassificationModelDeploymentActivity", "insert",
         <<<<"clearml", "classification">>>>)

EntityModelDeploymentActivity ==
    Step("EntityModelDeploymentActivity", "insert", <<<<"clearml", "entity">>>>)

StoreClearMLTasksActivity(db) ==
    Needing({DB(db)}, Put("StoreClearMLTasksActivity", <<"clearmltasks", db>>))

\* Runs the other product's onboarding and polls until it has ended.
ZSegmentSetupActivity == Tries(1, Put("ZSegmentSetupActivity", <<"zsegment">>))

JeevesFetchLatestTagActivity ==
    Tries(1, Quietly(Check("JeevesFetchLatestTagActivity")))

ZsegmentFetchLatestTagActivity ==
    Tries(3, Quietly(Check("ZsegmentFetchLatestTagActivity")))

\* create_subscriber_in_novu is not awaited; the mapping is inserted with a
\* new subscriber id by every attempt.
PenknifeUserSetupActivity(realm, db, sch) ==
    Needing({KcUser(realm, "admin"), Schema(db, sch)},
        Step("PenknifeUserSetupActivity", "insert",
             <<<<"subscriptionmapping", sch>>, <<"useraudit", sch>>>>))

InsertSubscriptionDetailsActivity ==
    Tries(3, Step("InsertSubscriptionDetailsActivity", "lookup",
                  <<<<"row", "subscription">>>>))

\* The customer is created or updated under its identifier; the customer's
\* live subscription is looked for.
LagoSetupActivity(identifiers) ==
    << Carrying(identifiers, Step("LagoSetupActivity", "keyed", <<<<"lago", "customer">>>>)),
       Carrying(identifiers,
           Step("LagoSetupActivity", "keyed", <<<<"lago", "subscription">>>>)) >>

UpdateSubscriptionEndDateActivity ==
    Tries(4, Put("UpdateSubscriptionEndDateActivity", <<"lago", "endingat">>))

CreateSpaceActivity ==
    Step("CreateSpaceActivity", "lookup", <<<<"row", "space">>>>)

UpdateSpaceStatusActivity(value) ==
    [Step("UpdateSpaceStatusActivity", "status", << >>) EXCEPT !.status = value]

UpdateTenantStatusActivity(value) ==
    [Step("UpdateTenantStatusActivity", "status", << >>) EXCEPT !.status = value]

SendBeforeProvisioningMailActivity == Check("SendBeforeProvisioningMailActivity")

\* The password of the mail is set on the tenant's user first.
SendAfterProvisioningMailActivity(realm) ==
    Needing({KcUser(realm, "admin")},
        Step("SendAfterProvisioningMailActivity", "put",
             <<<<"temporarypassword", realm>>, <<"mail", realm>>>>))

JeevesSendAfterProvisioningMailActivity ==
    Put("JeevesSendAfterProvisioningMailActivity", <<"mail", "jeeves">>)

OnboardSuccessMailActivity == Check("OnboardSuccessMailActivity")

OnboardFailureMailActivity == Check("OnboardFailureMailActivity")

SlackNotificationActivity == Quietly(Check("SlackNotificationActivity"))

KubeConfigCertExpiryActivity == Tries(4, Check("KubeConfigCertExpiryActivity"))

\* An activity type that no worker of the workflow's queue has registered
\* fails on every attempt, before its own code could catch anything.
Unregistered(s) == Needing({<<"registration", s.act>>}, [s EXCEPT !.quiet = FALSE])
=============================================================================
