-------------------------- MODULE HostedContracts --------------------------
(* The checks each hosted proof has to record, from the contract files under *)
(* build-evidence/.  The browser proof has no contract.                      *)

CoreContract ==
    {"infrastructure.postgres.ready", "infrastructure.redis.ready",
     "infrastructure.rabbitmq.ready", "service.identity.health",
     "service.user.health", "service.audit.health", "service.gateway.health",
     "auth.register", "auth.gateway-rejects-missing-token",
     "auth.gateway-authorized-read",
     "auth.gateway-rejects-insufficient-scope", "auth.refresh-rotation",
     "auth.reused-refresh-rejected", "auth.logout-revokes-refresh",
     "cache.user-by-id-materialized", "cache.users-list-materialized",
     "messaging.user-created-audit-event",
     "resilience.user-service-fallback", "resilience.user-service-recovery"}

ResilienceContract ==
    {"service.gateway.health", "service.identity.health",
     "service.user.health", "resilience.read-baseline",
     "resilience.circuit-initially-closed", "resilience.fallback-structured",
     "resilience.user-read-circuit-opens",
     "resilience.open-circuit-short-circuits",
     "resilience.gateway-control-plane-responsive",
     "resilience.user-service-restarts",
     "resilience.user-read-circuit-half-open",
     "resilience.user-read-circuit-closes",
     "resilience.protected-read-recovers"}

SecurityContract ==
    {"service.gateway.health", "service.identity.health",
     "security.register-user", "security.protected-route-rejects-anonymous",
     "security.forged-identity-headers-rejected",
     "security.valid-consumer-read",
     "security.forged-admin-header-cannot-escalate",
     "security.tampered-access-token-rejected",
     "security.refresh-token-cannot-authenticate",
     "security.password-stored-as-bcrypt",
     "security.refresh-token-not-stored-raw",
     "security.refresh-token-stored-as-sha256",
     "security.refresh-rotation-issues-new-token",
     "security.rotated-token-revokes-old-hash",
     "security.replacement-token-hash-active",
     "security.rotated-token-replay-rejected",
     "security.concurrent-refresh-single-winner",
     "security.concurrent-refresh-single-active-descendant"}

RecoveryContract ==
    {"service.gateway.health", "service.identity.health",
     "service.user.health", "data.identity-baseline-persisted",
     "data.user-baseline-persisted", "data.refresh-baseline-persisted",
     "durability.postgres-restart-survives",
     "durability.service-restart-survives", "cache.users-list-populated",
     "cache.redis-cleared", "cache.authoritative-read-recovers",
     "cache.users-list-repopulated", "backup.postgres-created",
     "backup.checksum-recorded", "recovery.fresh-database-created",
     "recovery.restore-completes", "recovery.identity-restored",
     "recovery.user-restored", "recovery.refresh-metadata-restored",
     "recovery.restored-identity-authenticates",
     "recovery.restored-user-readable",
     "recovery.restored-refresh-token-operational",
     "recovery.primary-remains-operational"}

DeploymentContract ==
    {"release.revision-bound", "release.compose-checksum-recorded",
     "release.service-image-identities-recorded", "release.manifest-created",
     "release.manifest-checksum-verifies", "deployment.gateway-health",
     "deployment.identity-health", "deployment.user-health",
     "deployment.authenticated-read",
     "failure.controlled-gateway-outage-detected",
     "failure.protected-read-unavailable", "rollback.gateway-restored",
     "rollback.verified-image-restored", "rollback.protected-read-recovers",
     "rollback.state-preserved", "evidence.machine-readable",
     "truth-boundary.hosted-runtime"}

ObservabilityContract ==
    {"prometheus.ready", "loki.ready", "tempo.ready", "grafana.ready",
     "otel-collector.running", "alloy.running", "prometheus.core-targets-up",
     "traffic.generated", "prometheus.http-metrics-query",
     "tempo.received-spans", "loki.received-container-logs",
     "grafana.datasources-provisioned", "grafana.dashboard-provisioned"}

LoadContract ==
    {"service.gateway.health", "service.identity.health",
     "service.user.health", "load.authenticated-session-created",
     "load.warmup-completes", "load.concurrent-requests-complete",
     "load.sustained-profile-completes",
     "load.error-rate-within-hosted-guardrail",
     "load.p95-within-hosted-guardrail",
     "load.throughput-above-hosted-floor",
     "load.latency-percentiles-recorded",
     "load.gateway-responsive-during-load",
     "load.rate-limit-enforced-under-overload",
     "load.services-healthy-after-load", "load.protected-read-recovers",
     "load.state-integrity-preserved", "load.truth-boundary"}

ContractFile(suite) ==
    CASE suite = "core" -> CoreContract
      [] suite = "resilience" -> ResilienceContract
      [] suite = "security" -> SecurityContract
      [] suite = "recovery" -> RecoveryContract
      [] suite = "deployment" -> DeploymentContract
      [] suite = "observability" -> ObservabilityContract
      [] suite = "load" -> LoadContract

(* The browser proof has no contract.                                        *)
Contract(suite) == IF suite = "browser" THEN {} ELSE ContractFile(suite)
=============================================================================
