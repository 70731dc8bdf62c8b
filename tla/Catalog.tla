------------------------------- MODULE Catalog -------------------------------
(***************************************************************************)
(* The datasets of datasets/catalog.py, in the order register_all          *)
(* registers them: the tier and level of each, the App permission it       *)
(* reads with, the datasets it depends on, and whether the two harvest     *)
(* engines have a query for it.                                            *)
(***************************************************************************)
EXTENDS Sequences, SequencesExt

OrgDefault ==
    <<"organization", "members", "pending_members", "teams", "team_members",
      "team_repositories", "repositories", "org_rulesets",
      "org_custom_properties", "org_domains", "org_ip_allow_list">>

RepoDefault ==
    <<"issues", "pull_requests", "discussions", "releases", "labels",
      "milestones", "collaborators", "branch_protection_rules",
      "repo_rulesets", "repo_custom_property_values", "environments",
      "deployments", "vulnerability_alerts", "topics", "languages">>

OptionalRepo ==
    <<"workflow_runs", "check_suites", "packages", "forks", "stargazers",
      "watchers", "dependency_graph_manifests", "deploy_keys">>
OptionalOrg == <<"projects_v2", "audit_log", "org_webhooks">>
Optional == OptionalRepo \o OptionalOrg

AllDatasets == OrgDefault \o RepoDefault \o Optional

(* default_tier_names, and the level that decides the phase of a dataset.  *)
DefaultTierNames == OrgDefault \o RepoDefault
OrgLevelDatasets == Range(OrgDefault \o OptionalOrg)

(* required_permissions: one name each; several are the dataset's own.     *)
RequiredPermission(d) ==
    CASE d \in {"organization", "repositories", "collaborators", "topics",
                "languages", "forks", "stargazers", "watchers"}
            -> "metadata"
      [] d \in {"members", "pending_members", "teams", "team_members",
                "team_repositories"}
            -> "members"
      [] d \in {"org_rulesets", "org_domains", "org_ip_allow_list", "audit_log"}
            -> "organization_administration"
      [] d \in {"branch_protection_rules", "repo_rulesets", "deploy_keys"}
            -> "administration"
      [] d \in {"issues", "labels", "milestones"}             -> "issues"
      [] d \in {"releases", "dependency_graph_manifests"}     -> "contents"
      [] d = "org_custom_properties" -> "organization_custom_properties"
      [] d = "repo_custom_property_values" -> "repository_custom_properties"
      [] d = "workflow_runs"         -> "actions"
      [] d = "check_suites"          -> "checks"
      [] d = "projects_v2"           -> "organization_projects"
      [] d = "org_webhooks"          -> "organization_hooks"
      [] OTHER                       -> d

(* depends_on, in the order the catalog lists it.                          *)
DependsOnOf(d) ==
    CASE d = "team_members"      -> <<"teams">>
      [] d = "team_repositories" -> <<"teams", "repositories">>
      [] d \notin OrgLevelDatasets -> <<"repositories">>
      [] OTHER                   -> <<>>

(* The datasets the engines have a query for.                              *)
OrgLevelNames  == Range(OrgDefault)
RepoLevelNames == Range(RepoDefault)
HasQuery       == OrgLevelNames \cup RepoLevelNames

(* register refuses a name it has, and get a name nobody registered.       *)
ASSUME CatalogAssumption ==
    /\ IsInjective(AllDatasets)
    /\ \A d \in Range(AllDatasets) : Range(DependsOnOf(d)) \subseteq Range(AllDatasets)
=============================================================================
