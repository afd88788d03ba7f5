-------------------------- MODULE ConnectorContracts ------------------------
(* The checks each connector proof has to record, from the contract files    *)
(* under build-evidence/.  The external integration and the core boundary    *)
(* proof have no contract.                                                   *)

IntegrationContract ==
    {"service.orchestrator.health", "connector.connection-registers",
     "connector.connection-enables",
     "connector.verified-low-risk-auto-handled",
     "connector.source-normalized",
     "connector.unverified-delivery-trust-downgraded",
     "connector.duplicate-idempotent", "connector.billing-approval-gated",
     "connector.approval-visible", "connector.duplicate-no-second-receipt",
     "connector.receipts-persisted", "connector.no-secret-material",
     "connector.no-outbound-send", "connector.executive-routing-persisted",
     "connector.truth-boundary"}

AdapterContract ==
    {"service.orchestrator.health",
     "adapter.generic-configured-with-secret-reference",
     "adapter.github-configured-with-secret-reference",
     "adapter.generic-valid-signature-accepted",
     "adapter.verified-delivery-establishes-trust",
     "adapter.generic-invalid-signature-rejected",
     "adapter.generic-stale-timestamp-rejected",
     "adapter.generic-replay-deduplicated",
     "adapter.github-valid-signature-accepted",
     "adapter.github-safe-event-normalized",
     "adapter.github-invalid-signature-rejected",
     "adapter.github-delivery-id-deduplicated",
     "adapter.github-unsupported-event-rejected",
     "adapter.secret-material-not-exposed",
     "adapter.only-verified-deliveries-persisted",
     "adapter.executive-routing-preserved",
     "adapter.no-outbound-provider-mutation", "adapter.truth-boundary"}

ProviderContract ==
    {"service.orchestrator.health", "oauth.github-authorization-created",
     "oauth.google-gmail-authorization-created",
     "oauth.google-calendar-readonly-scope", "oauth.pkce-s256-present",
     "oauth.readonly-scopes-only", "oauth.invalid-state-rejected",
     "oauth.authorization-code-exchange-completes",
     "oauth.state-single-use", "oauth.token-material-not-exposed",
     "oauth.credential-reference-lifecycle",
     "oauth.readonly-provider-health-pass",
     "oauth.refresh-rotates-runtime-token",
     "oauth.gmail-identity-health-pass",
     "oauth.disconnect-revokes-local-credential",
     "oauth.revoked-health-blocked", "oauth.no-outbound-provider-mutation",
     "oauth.truth-boundary"}

SyncContract ==
    {"service.orchestrator.health", "sync.github.connection-ready",
     "sync.gmail.connection-ready", "sync.calendar.connection-ready",
     "sync.github.reads-provider-data", "sync.gmail.reads-provider-data",
     "sync.calendar.reads-provider-data",
     "sync.github.normalized-to-code-update",
     "sync.gmail.normalized-to-email",
     "sync.calendar.normalized-to-calendar-event",
     "sync.executive-agent-receives-provider-signals",
     "sync.first-pass-ingests-all-items",
     "sync.second-pass-deduplicates-all-items", "sync.receipts-persisted",
     "sync.no-provider-mutations", "sync.no-token-material-exposed",
     "sync.unsupported-provider-fails-closed", "sync.truth-boundary"}

ReadOnlyContract ==
    {"live.github.identity-read", "live.github.repository-read",
     "live.gmail.message-list-read", "live.calendar.event-list-read",
     "live.get-only-policy", "live.response-body-not-persisted",
     "live.token-material-not-persisted", "live.provider-host-allowlist",
     "live.no-provider-mutations", "live.truth-boundary"}

ApprovedContract ==
    {"service.orchestrator.health", "connector.write-policy-live-disabled",
     "connector.gmail-write-approval-required",
     "connector.calendar-write-approval-required",
     "connector.github-write-approval-required",
     "connector.unapproved-write-blocked", "connector.approvals-visible",
     "connector.approved-gmail-synthetic-executes",
     "connector.approved-calendar-synthetic-executes",
     "connector.approved-github-synthetic-executes",
     "connector.idempotent-request-replay",
     "connector.idempotent-execution-replay",
     "connector.receipts-persisted", "connector.audit-explainable",
     "connector.live-write-fails-closed", "connector.truth-boundary"}

LiveWriteContract ==
    {"service.orchestrator.health", "live.policy-enabled-in-proof-runtime",
     "oauth.github-write-scope-issued", "oauth.gmail-write-scope-issued",
     "oauth.calendar-write-scope-issued", "live.gmail-unapproved-blocked",
     "live.calendar-unapproved-blocked", "live.github-unapproved-blocked",
     "live.provider-untouched-before-approval",
     "live.gmail-approved-executes", "live.calendar-approved-executes",
     "live.github-approved-executes", "live.gmail-provider-post-observed",
     "live.calendar-provider-post-observed",
     "live.github-provider-post-observed",
     "live.provider-no-unsafe-mutations",
     "live.execution-replay-idempotent", "live.receipts-persisted",
     "live.approval-audit-preserved", "live.truth-boundary"}

TestAccountContract ==
    {"gate.confirmation", "gate.credentials-present",
     "gate.targets-present", "gate.project-repo-blocked",
     "service.orchestrator.health", "live.policy-enabled",
     "oauth.github-write-scope-issued", "oauth.gmail-write-scope-issued",
     "oauth.calendar-write-scope-issued", "live.github-unapproved-blocked",
     "live.gmail-unapproved-blocked", "live.calendar-unapproved-blocked",
     "live.github-approved-executes", "live.gmail-approved-executes",
     "live.calendar-approved-executes", "live.execution-replay-idempotent",
     "live.receipts-persisted", "live.approval-audit-preserved",
     "live.evidence-sanitized", "live.truth-boundary"}

ExecutiveContract ==
    {"service.orchestrator.health", "executive.run-created",
     "executive.low-risk-auto-handled",
     "executive.untrusted-external-drafted",
     "executive.billing-approval-gated",
     "executive.deployment-approval-gated", "executive.signups-tracked",
     "executive.code-update-verified", "executive.voice-briefing-created",
     "executive.next-briefing-retained", "executive.actions-explainable",
     "executive.pending-approvals-visible", "executive.briefing-persisted",
     "executive.truth-boundary"}

Contract(suite) ==
    CASE suite = "integration" -> IntegrationContract
      [] suite = "adapter" -> AdapterContract
      [] suite = "provider" -> ProviderContract
      [] suite = "sync" -> SyncContract
      [] suite = "read only" -> ReadOnlyContract
      [] suite = "approved" -> ApprovedContract
      [] suite = "live write" -> LiveWriteContract
      [] suite = "test account" -> TestAccountContract
      [] suite = "executive" -> ExecutiveContract
      [] OTHER -> {}
=============================================================================
