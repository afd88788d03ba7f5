-------------------------- MODULE ConnectorScripts --------------------------
(* The connector proofs, src/tools/connector_*.py, the executive agent smoke *)
(* and the two boundary proofs, each as the sequence of steps its main()     *)
(* takes, in the order of the code.  Steps on a provider's connection or     *)
(* action name the provider.  The parts of a script are joined where it is   *)
(* named.                                                                    *)
EXTENDS ProofSteps

Begin == <<Do("contract", ""), Do("try", ""),
           Health("orchestrator", "service.orchestrator.health")>>
CompareBoth == <<Do("compare", "both"), Do("publish", "")>>
CompareMissing == <<Do("compare", "missing"), Do("publish", "")>>
Unchecked == <<Do("publish", "")>>     \* no contract to compare with
New == {"new"}
Repeated == {"duplicate"}
Accepted == New \cup Repeated
Refused == {"refused"}
-----------------------------------------------------------------------------
IntegrationDeliveries ==
    <<Step("register", "gmail", New, "connector.connection-registers"),
      Proves("enable", "gmail", "connector.connection-enables"),
      Step("register", "stripe", Accepted, ""),
      Do("enable", "stripe"),
      Step("event", "faq", New, "connector.verified-low-risk-auto-handled"),
      Notes("connector.source-normalized"),
      Step("event", "email", Accepted, "connector.unverified-delivery-trust-downgraded"),
      Step("event", "email", Repeated, "connector.duplicate-idempotent"),
      Step("event", "billing", Accepted, "connector.billing-approval-gated"),
      Proves("inspect", "pending", "connector.approval-visible")>>

IntegrationAudit ==
    <<Step("receipts", "", 3, "connector.duplicate-no-second-receipt"),
      Notes("connector.receipts-persisted"),
      Proves("inspect", "connections", "connector.no-secret-material"),
      Proves("inspect", "capabilities", "connector.no-outbound-send"),
      Proves("inspect", "briefings", "connector.executive-routing-persisted"),
      Notes("connector.truth-boundary")>>

IntegrationScript == Begin \o IntegrationDeliveries \o IntegrationAudit \o CompareBoth

(* Enabling is not looked at.                                                *)
AdapterSetup ==
    <<Step("register", "generic", Accepted, ""),
      Do("tryEnable", "generic"),
      Proves("adapter", "generic", "adapter.generic-configured-with-secret-reference"),
      Step("register", "github", Accepted, ""),
      Do("tryEnable", "github"),
      Proves("adapter", "github", "adapter.github-configured-with-secret-reference")>>

AdapterDeliveries ==
    <<Step("event", "generic-1", Accepted, "adapter.generic-valid-signature-accepted"),
      Notes("adapter.verified-delivery-establishes-trust"),
      Step("event", "generic-bad", Refused, "adapter.generic-invalid-signature-rejected"),
      Step("event", "generic-stale", Refused, "adapter.generic-stale-timestamp-rejected"),
      Step("event", "generic-1", Repeated, "adapter.generic-replay-deduplicated"),
      Step("event", "github-1", Accepted, "adapter.github-valid-signature-accepted"),
      Notes("adapter.github-safe-event-normalized"),
      Step("event", "github-bad", Refused, "adapter.github-invalid-signature-rejected"),
      Step("event", "github-1", Repeated, "adapter.github-delivery-id-deduplicated"),
      Step("event", "github-ping", Refused, "adapter.github-unsupported-event-rejected"),
      Proves("inspect", "adapters", "adapter.secret-material-not-exposed"),
      Step("receipts", "", 2, "adapter.only-verified-deliveries-persisted"),
      Proves("inspect", "briefings", "adapter.executive-routing-preserved"),
      Notes("adapter.no-outbound-provider-mutation"),
      Notes("adapter.truth-boundary")>>

(* The keys come first.                                                      *)
AdapterScript ==
    <<Do("keys", "")>> \o Begin \o AdapterSetup \o AdapterDeliveries \o CompareBoth
-----------------------------------------------------------------------------
ProviderGithub ==
    <<Step("register", "github", Accepted, ""),
      Proves("start", "github", "oauth.github-authorization-created"),
      Notes("oauth.pkce-s256-present"),
      Notes("oauth.readonly-scopes-only"),
      Proves("wrongState", "github", "oauth.invalid-state-rejected"),
      Proves("complete", "github", "oauth.authorization-code-exchange-completes"),
      Proves("reuse", "github", "oauth.state-single-use"),
      Proves("inspect", "credential", "oauth.token-material-not-exposed"),
      Notes("oauth.credential-reference-lifecycle"),
      Step("providerHealth", "github", 200, "oauth.readonly-provider-health-pass"),
      Do("metrics", ""),
      Do("refresh", "github"),
      Proves("issuedMore", "", "oauth.refresh-rotates-runtime-token")>>

ProviderGoogle ==
    <<Step("register", "gmail", Accepted, ""),
      Proves("start", "gmail", "oauth.google-gmail-authorization-created"),
      Do("complete", "gmail"),
      Step("providerHealth", "gmail", 200, "oauth.gmail-identity-health-pass"),
      Step("register", "calendar", Accepted, ""),
      Proves("start", "calendar", "oauth.google-calendar-readonly-scope"),
      Proves("revoke", "github", "oauth.disconnect-revokes-local-credential"),
      Step("providerHealth", "github", 409, "oauth.revoked-health-blocked"),
      Do("metrics", ""),
      Step("counted", "unsafe", 0, "oauth.no-outbound-provider-mutation"),
      Notes("oauth.truth-boundary")>>

ProviderScript == Begin \o ProviderGithub \o ProviderGoogle \o CompareMissing
-----------------------------------------------------------------------------
Connect(provider, id) ==
    <<Step("register", provider, Accepted, ""),
      Do("start", provider), Proves("complete", provider, id)>>

SyncFirst ==
    <<Step("sync", "github", "new", "sync.github.reads-provider-data"),
      Step("sync", "gmail", "new", "sync.gmail.reads-provider-data"),
      Step("sync", "calendar", "new", "sync.calendar.reads-provider-data"),
      Proves("inspect", "runs", "sync.executive-agent-receives-provider-signals"),
      Notes("sync.first-pass-ingests-all-items"),
      Do("fetchReceipts", ""),
      Proves("inspect", "receipts", "sync.github.normalized-to-code-update"),
      Notes("sync.gmail.normalized-to-email"),
      Notes("sync.calendar.normalized-to-calendar-event"),
      Step("fetched", "", 6, "sync.receipts-persisted")>>

(* All three second passes run before the first of them is looked at.        *)
SyncSecond ==
    <<Step("sync", "github", "again", ""),
      Step("sync", "gmail", "again", ""),
      Step("sync", "calendar", "again", ""),
      Proves("deduplicated", "", "sync.second-pass-deduplicates-all-items"),
      Do("metrics", ""),
      Step("counted", "unsafe", 0, "sync.no-provider-mutations"),
      Proves("inspect", "results", "sync.no-token-material-exposed"),
      Step("register", "slack", Accepted, ""),
      Step("sync", "slack", "unsupported", "sync.unsupported-provider-fails-closed"),
      Notes("sync.truth-boundary")>>

SyncScript == Begin \o
    Connect("github", "sync.github.connection-ready") \o
    Connect("gmail", "sync.gmail.connection-ready") \o
    Connect("calendar", "sync.calendar.connection-ready") \o
    SyncFirst \o SyncSecond \o CompareMissing
-----------------------------------------------------------------------------
ApprovedRequests ==
    <<Step("policy", "", FALSE, "connector.write-policy-live-disabled"),
      Step("register", "gmail", Accepted, ""), Do("enable", "gmail"),
      Step("register", "calendar", Accepted, ""), Do("enable", "calendar"),
      Step("register", "github", Accepted, ""), Do("enable", "github"),
      Step("create", "gmail", "SYNTHETIC", ""),
      Step("create", "calendar", "SYNTHETIC", ""),
      Step("create", "github", "SYNTHETIC", ""),
      Proves("inspect", "actions", "connector.gmail-write-approval-required"),
      Notes("connector.calendar-write-approval-required"),
      Notes("connector.github-write-approval-required"),
      Step("execute", "gmail", "blocked", "connector.unapproved-write-blocked"),
      Proves("pending", {"gmail", "calendar", "github"}, "connector.approvals-visible")>>

ApprovedExecutions ==
    <<Do("approve", "gmail"), Do("approve", "calendar"), Do("approve", "github"),
      Step("execute", "gmail", "executed", "connector.approved-gmail-synthetic-executes"),
      Step("execute", "calendar", "executed", "connector.approved-calendar-synthetic-executes"),
      Step("execute", "github", "executed", "connector.approved-github-synthetic-executes"),
      Proves("recreate", "gmail", "connector.idempotent-request-replay"),
      Step("execute", "gmail", "replay", "connector.idempotent-execution-replay"),
      Proves("persisted", "", "connector.receipts-persisted"),
      Proves("inspect", "approvals", "connector.audit-explainable"),
      Step("create", "live", "LIVE", ""),
      Do("approve", "live"),
      Step("execute", "live", "blocked", ""),
      Proves("notExecuted", "live", "connector.live-write-fails-closed"),
      Notes("connector.truth-boundary")>>

ApprovedScript == Begin \o ApprovedRequests \o ApprovedExecutions \o CompareBoth
-----------------------------------------------------------------------------
LiveWriteRequests ==
    <<Step("policy", "", TRUE, "live.policy-enabled-in-proof-runtime"),
      Step("register", "github", Accepted, ""), Do("start", "github"),
      Proves("completeWrite", "github", "oauth.github-write-scope-issued"),
      Step("register", "gmail", Accepted, ""), Do("start", "gmail"),
      Proves("completeWrite", "gmail", "oauth.gmail-write-scope-issued"),
      Step("register", "calendar", Accepted, ""), Do("start", "calendar"),
      Proves("completeWrite", "calendar", "oauth.calendar-write-scope-issued"),
      Step("create", "gmail", "LIVE", ""),
      Step("create", "calendar", "LIVE", ""),
      Step("create", "github", "LIVE", "")>>

\* Mutant: only the unsafe counter is looked at before the approvals.
BlockedUncounted ==
    <<Step("execute", "gmail", "blocked", "live.gmail-unapproved-blocked"),
      Step("execute", "calendar", "blocked", "live.calendar-unapproved-blocked"),
      Step("execute", "github", "blocked", "live.github-unapproved-blocked"),
      Do("metrics", ""),
      Step("counted", "unsafe", 0, "live.provider-untouched-before-approval")>>

LiveWriteBlocked ==
    <<Step("execute", "gmail", "blocked", "live.gmail-unapproved-blocked"),
      Step("execute", "calendar", "blocked", "live.calendar-unapproved-blocked"),
      Step("execute", "github", "blocked", "live.github-unapproved-blocked"),
      Do("metrics", ""),
      Step("counted", "write", 0, ""),
      Step("counted", "unsafe", 0, "live.provider-untouched-before-approval")>>

LiveWriteExecutions ==
    <<Do("approve", "gmail"), Do("approve", "calendar"), Do("approve", "github"),
      Step("execute", "gmail", "executed", "live.gmail-approved-executes"),
      Step("execute", "calendar", "executed", "live.calendar-approved-executes"),
      Step("execute", "github", "executed", "live.github-approved-executes"),
      Do("metrics", ""),
      Step("counted", "gmail", 1, "live.gmail-provider-post-observed"),
      Step("counted", "calendar", 1, "live.calendar-provider-post-observed"),
      Step("counted", "github", 1, "live.github-provider-post-observed"),
      Step("counted", "write", 3, ""),
      Step("counted", "unsafe", 0, "live.provider-no-unsafe-mutations")>>

\* Mutant: the replay is believed, the stub not asked again.
AuditBelieving ==
    <<Step("execute", "gmail", "replay", "live.execution-replay-idempotent"),
      Proves("persisted", "", "live.receipts-persisted"),
      Proves("inspect", "approvals", "live.approval-audit-preserved"),
      Notes("live.truth-boundary")>>

LiveWriteAudit ==
    <<Step("execute", "gmail", "replay", ""),
      Do("metrics", ""),
      Step("counted", "write", 3, "live.execution-replay-idempotent"),
      Proves("persisted", "", "live.receipts-persisted"),
      Proves("inspect", "approvals", "live.approval-audit-preserved"),
      Notes("live.truth-boundary")>>

LiveWriteScript == Begin \o LiveWriteRequests \o LiveWriteBlocked \o LiveWriteExecutions
    \o LiveWriteAudit \o CompareBoth
-----------------------------------------------------------------------------
(* The test-account lane: four gates before anything is asked of the         *)
(* orchestrator.  validate_contract() and --preflight come before the try.   *)
\* Mutant: the project's own repository is not recognised.
GatesUnordered == <<Do("contract", ""), Do("preflight", ""), Do("try", ""),
    Proves("gate", "armed", "gate.confirmation"),
    Proves("gate", "broker", "gate.credentials-present"),
    Proves("gate", "targets", "gate.targets-present")>>

TestAccountGates == <<Do("contract", ""), Do("preflight", ""), Do("try", ""),
    Proves("gate", "armed", "gate.confirmation"),
    Proves("gate", "broker", "gate.credentials-present"),
    Proves("gate", "targets", "gate.targets-present"),
    Proves("gate", "repository", "gate.project-repo-blocked")>>

TestAccountRequests ==
    <<Health("orchestrator", "service.orchestrator.health"),
      Step("policy", "", TRUE, "live.policy-enabled"),
      Step("register", "github", Accepted, ""),
      Step("register", "gmail", Accepted, ""),
      Step("register", "calendar", Accepted, ""),
      Do("start", "github"),
      Proves("completeWrite", "github", "oauth.github-write-scope-issued"),
      Do("start", "gmail"),
      Proves("completeWrite", "gmail", "oauth.gmail-write-scope-issued"),
      Do("start", "calendar"),
      Proves("completeWrite", "calendar", "oauth.calendar-write-scope-issued"),
      Step("create", "github", "LIVE", ""),
      Step("create", "gmail", "LIVE", ""),
      Step("create", "calendar", "LIVE", ""),
      Step("execute", "github", "blocked", "live.github-unapproved-blocked"),
      Step("execute", "gmail", "blocked", "live.gmail-unapproved-blocked"),
      Step("execute", "calendar", "blocked", "live.calendar-unapproved-blocked")>>

TestAccountExecutions ==
    <<Do("approve", "github"), Do("approve", "gmail"), Do("approve", "calendar"),
      Step("execute", "github", "executed", "live.github-approved-executes"),
      Step("execute", "gmail", "executed", "live.gmail-approved-executes"),
      Step("execute", "calendar", "executed", "live.calendar-approved-executes"),
      Step("execute", "gmail", "replay", "live.execution-replay-idempotent"),
      Proves("persisted", "", "live.receipts-persisted"),
      Proves("inspect", "approvals", "live.approval-audit-preserved"),
      Notes("live.evidence-sanitized"),
      Notes("live.truth-boundary")>>

TestAccountScript ==
    TestAccountGates \o TestAccountRequests \o TestAccountExecutions \o CompareBoth
-----------------------------------------------------------------------------
(* No try block: a failure leaves no report.  Every request is a GET.        *)
ReadOnlyRequests ==
    <<Do("tokens", ""), Do("hosts", ""),
      Proves("get", "user", "live.github.identity-read"),
      Proves("get", "repos", "live.github.repository-read"),
      Proves("get", "messages", "live.gmail.message-list-read"),
      Proves("get", "events", "live.calendar.event-list-read"),
      Notes("live.get-only-policy"),
      Notes("live.response-body-not-persisted"),
      Notes("live.provider-host-allowlist"),
      Notes("live.no-provider-mutations"),
      Notes("live.truth-boundary"),
      Notes("live.token-material-not-persisted")>>

ReadOnlyScript == ReadOnlyRequests \o CompareMissing

ExecutiveRun ==
    <<Proves("overnight", "", "executive.run-created"),
      Proves("inspect", "briefing", "executive.low-risk-auto-handled"),
      Notes("executive.untrusted-external-drafted"),
      Notes("executive.billing-approval-gated"),
      Notes("executive.deployment-approval-gated"),
      Notes("executive.signups-tracked"),
      Notes("executive.code-update-verified"),
      Proves("inspect", "voice sessions", "executive.voice-briefing-created"),
      Notes("executive.next-briefing-retained"),
      Notes("executive.actions-explainable"),
      Proves("gated", "", "executive.pending-approvals-visible"),
      Proves("briefed", "", "executive.briefing-persisted"),
      Notes("executive.truth-boundary")>>

ExecutiveScript == Begin \o ExecutiveRun \o CompareBoth
-----------------------------------------------------------------------------
(* The revision, and here the certified reference, are read before the try.  *)
ExternalBefore ==
    <<Do("revision", ""), Do("reference", ""), Do("try", ""),
      Proves("source", "revision", "revision.exact-platform-head-bound"),
      Proves("source", "reference", "ownership.certified-destination-runtime"),
      Proves("source", "trees", "source.all-ai-runtime-trees-absent"),
      Proves("source", "image ref", "runtime.image-ref-certified-revision-tagged"),
      Proves("source", "compose", "compose.external-runtime-has-no-source-build"),
      Notes("compose.full-integration-config-renders-source-absent"),
      Proves("image", "", "runtime.release-artifact-provenance-verified"),
      Step("composeUp", "", {"core", "runtime"}, "compose.full-integration-started")>>

ExternalRuntime ==
    <<Health("core", "health.gateway"), Health("core", "health.identity"),
      Health("core", "health.user"), Health("core", "health.audit"),
      Health("runtime", "health.external-ai-runtime"),
      Health("core", "health.dashboard"),
      Health("core", "observability.prometheus-ready"),
      Proves("image", "", "runtime.container-bound-to-certified-release-image"),
      Proves("tasks", {"runtime"}, "contract.direct-ai-runtime-response"),
      Do("account", ""),
      Proves("tasks", {"core", "runtime"}, "contract.authenticated-gateway-route"),
      Notes("contract.gateway-response-matches-runtime"),
      Health("runtime", "observability.ai-runtime-target-up"),
      Notes("truth-boundary.hosted-runtime-only")>>

ExternalScript == ExternalBefore \o ExternalRuntime \o Unchecked

BoundaryCore ==
    <<Do("revision", ""), Do("try", ""),
      Proves("source", "revision", "revision.exact-head-bound"),
      Proves("source", "trees", "core.orchestrator-source-absent"),
      Proves("source", "compose", "core.compose-excludes-orchestrator-service"),
      Do("absent", ""),
      Step("composeUp", "", {"core"}, ""),
      Health("core", "core.gateway-healthy-without-ai-runtime"),
      Health("core", "core.identity-healthy-without-ai-runtime"),
      Health("core", "core.user-healthy-without-ai-runtime"),
      Health("core", "core.audit-healthy-without-ai-runtime"),
      Health("core", "core.dashboard-reachable-without-ai-runtime")>>

(* The container is never removed.                                           *)
BoundaryRuntime ==
    <<Proves("image", "", "external.versioned-image-resolved"),
      Do("dockerRun", ""),
      Health("runtime", "external.orchestrator-healthy"),
      Proves("image", "", "external.runtime-identity-bound"),
      Proves("tasks", {"runtime"}, "boundary.direct-contract-response"),
      Do("account", ""),
      Proves("tasks", {"core", "runtime"}, "boundary.authenticated-gateway-route"),
      Notes("boundary.gateway-response-matches-runtime"),
      Notes("truth-boundary.hosted-runtime-only")>>

BoundaryScript == BoundaryCore \o BoundaryRuntime \o Unchecked
-----------------------------------------------------------------------------
Suites == {"integration", "adapter", "provider", "sync", "approved", "live write",
           "test account", "read only", "executive", "external", "boundary"}

Script(suite) ==
    CASE suite = "integration" -> IntegrationScript
      [] suite = "adapter" -> AdapterScript
      [] suite = "provider" -> ProviderScript
      [] suite = "sync" -> SyncScript
      [] suite = "approved" -> ApprovedScript
      [] suite = "live write" -> LiveWriteScript
      [] suite = "test account" -> TestAccountScript
      [] suite = "read only" -> ReadOnlyScript
      [] suite = "executive" -> ExecutiveScript
      [] suite = "external" -> ExternalScript
      [] OTHER -> BoundaryScript
=============================================================================
