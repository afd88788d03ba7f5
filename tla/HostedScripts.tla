---------------------------- MODULE HostedScripts ---------------------------
(* The hosted runtime proofs, src/tools/*_runtime_smoke.py, each as the      *)
(* sequence of steps its main() takes, in the order of the code.             *)
EXTENDS ProofSteps

Prologue == <<Do("contract", ""), Do("try", "")>>

(* contract comparison, report, exit; deployment looks for missing checks    *)
(* only, the browser proof has no contract to compare with.                  *)
Epilogue == <<Do("compare", "both"), Do("publish", "")>>
-----------------------------------------------------------------------------
CoreReadiness ==
    <<Proves("ping", "postgres", "infrastructure.postgres.ready"),
      Proves("ping", "redis", "infrastructure.redis.ready"),
      Proves("ping", "rabbitmq", "infrastructure.rabbitmq.ready"),
      Health("identity-service", "service.identity.health"),
      Health("user-service", "service.user.health"),
      Health("audit-service", "service.audit.health"),
      Health("gateway", "service.gateway.health")>>

CoreIdentity ==
    <<Proves("register", "fixed", "auth.register"),
      Proves("rejected", "no token", "auth.gateway-rejects-missing-token"),
      Step("read", "", {200}, "auth.gateway-authorized-read"),
      Proves("rejected", "scope", "auth.gateway-rejects-insufficient-scope"),
      Step("refresh", 1, 200, "auth.refresh-rotation"),
      Step("refresh", 1, 401, "auth.reused-refresh-rejected"),
      Do("logout", 2),
      Step("refresh", 2, 401, "auth.logout-revokes-refresh")>>

CoreUsers ==
    <<Do("create", "fixed"),
      Do("readById", "fixed"),
      Proves("byIdCached", "", "cache.user-by-id-materialized"),
      Do("readMain", "fixed"),
      Proves("listCached", "", "cache.users-list-materialized")>>

\* Mutant: the events are read without waiting for the restarted service.
CoreAuditHasty ==
    <<Do("event", "fixed"),
      Do("restart", {"audit-service"}),
      Proves("event", "fixed", "messaging.user-created-audit-event")>>

CoreAudit ==
    <<Do("event", "fixed"),
      Do("restart", {"audit-service"}),
      Health("audit-service", ""),
      Proves("event", "fixed", "messaging.user-created-audit-event")>>

CoreOutage ==
    <<Do("stop", {"user-service"}),
      Step("read", "", {503}, "resilience.user-service-fallback"),
      Do("start", {"user-service"}),
      Health("user-service", ""),
      Proves("waitRead", "", "resilience.user-service-recovery")>>

CoreScript ==
    Prologue \o CoreReadiness \o CoreIdentity \o CoreUsers \o CoreAudit \o CoreOutage \o Epilogue
-----------------------------------------------------------------------------
ResilienceOutage ==
    <<Health("gateway", "service.gateway.health"),
      Health("identity-service", "service.identity.health"),
      Health("user-service", "service.user.health"),
      Do("register", "stamped"),
      Step("read", "", {200}, "resilience.read-baseline"),
      Proves("breaker", "CLOSED", "resilience.circuit-initially-closed"),
      Do("stop", {"user-service"}),
      Proves("outage", 8, "resilience.fallback-structured"),
      Proves("breaker", "OPEN", "resilience.user-read-circuit-opens"),
      Proves("denied", "", "resilience.open-circuit-short-circuits"),
      Health("gateway", "resilience.gateway-control-plane-responsive")>>

\* Mutant: the probes do not wait for HALF_OPEN.
ResilienceHasty ==
    <<Do("start", {"user-service"}),
      Health("user-service", "resilience.user-service-restarts"),
      Proves("ping", "gateway", "resilience.user-read-circuit-half-open"),
      Step("read", "", {200}, ""),
      Step("read", "", {200}, ""),
      Step("read", "", {200}, ""),
      Proves("breaker", "CLOSED", "resilience.user-read-circuit-closes"),
      Step("read", "", {200}, "resilience.protected-read-recovers")>>

ResilienceRecovery ==
    <<Do("start", {"user-service"}),
      Health("user-service", "resilience.user-service-restarts"),
      Proves("breaker", "HALF_OPEN", "resilience.user-read-circuit-half-open"),
      Step("read", "", {200}, ""),
      Step("read", "", {200}, ""),
      Step("read", "", {200}, ""),
      Proves("breaker", "CLOSED", "resilience.user-read-circuit-closes"),
      Step("read", "", {200}, "resilience.protected-read-recovers")>>

ResilienceScript == Prologue \o ResilienceOutage \o ResilienceRecovery \o Epilogue
-----------------------------------------------------------------------------
SecurityAccess ==
    <<Health("gateway", "service.gateway.health"),
      Health("identity-service", "service.identity.health"),
      Proves("register", "stamped", "security.register-user"),
      Proves("rejected", "no token", "security.protected-route-rejects-anonymous"),
      Proves("rejected", "no token", "security.forged-identity-headers-rejected"),
      Step("read", "", {200}, "security.valid-consumer-read"),
      Proves("rejected", "scope", "security.forged-admin-header-cannot-escalate"),
      Proves("rejected", "signature", "security.tampered-access-token-rejected"),
      Proves("rejected", "refresh token", "security.refresh-token-cannot-authenticate")>>

SecurityTokens ==
    <<Proves("psql", "", "security.password-stored-as-bcrypt"),
      Proves("psql", "", "security.refresh-token-not-stored-raw"),
      Proves("onlyActive", 1, "security.refresh-token-stored-as-sha256"),
      Step("refresh", 1, 200, "security.refresh-rotation-issues-new-token"),
      Proves("revoked", 1, "security.rotated-token-revokes-old-hash"),
      Proves("active", 2, "security.replacement-token-hash-active"),
      Step("refresh", 1, 401, "security.rotated-token-replay-rejected")>>

SecurityRace ==
    <<Proves("race", 2, "security.concurrent-refresh-single-winner"),
      Do("revoked", 2),
      Do("active", 3),
      Proves("onlyActive", 3, "security.concurrent-refresh-single-active-descendant")>>

SecurityScript == Prologue \o SecurityAccess \o SecurityTokens \o SecurityRace \o Epilogue
-----------------------------------------------------------------------------
RecoveryBaseline ==
    <<Health("gateway", "service.gateway.health"),
      Health("identity-service", "service.identity.health"),
      Health("user-service", "service.user.health"),
      Do("register", "stamped"),
      Do("create", "stamped"),
      Proves("remember", "", "data.identity-baseline-persisted"),
      Proves("unchanged", "main", "data.user-baseline-persisted"),
      Proves("active", 1, "data.refresh-baseline-persisted"),
      Do("readUser", "stamped")>>

RecoveryRestarts ==
    <<Do("restart", {"postgres"}),
      Do("ping", "postgres"),
      Health("identity-service", ""),
      Health("user-service", ""),
      Do("unchanged", "main"),
      Proves("readUser", "stamped", "durability.postgres-restart-survives"),
      Do("restart", {"identity-service", "user-service", "gateway"}),
      Health("identity-service", ""),
      Health("user-service", ""),
      Health("gateway", ""),
      Proves("readUser", "stamped", "durability.service-restart-survives"),
      Proves("listCached", "", "cache.users-list-populated"),
      Do("flush", ""),
      Proves("listEmpty", "", "cache.redis-cleared"),
      Proves("readUser", "stamped", "cache.authoritative-read-recovers"),
      Proves("listCached", "", "cache.users-list-repopulated")>>

RecoveryBackup ==
    <<Proves("dump", "", "backup.postgres-created"),
      Proves("psql", "", "backup.checksum-recorded"),
      Proves("createdb", "", "recovery.fresh-database-created"),
      Proves("restore", "", "recovery.restore-completes"),
      Proves("unchanged", "copy", "recovery.identity-restored"),
      Proves("unchanged", "copy", "recovery.user-restored"),
      Proves("unchanged", "copy", "recovery.refresh-metadata-restored")>>

\* Mutant: Redis is not flushed before the recovered service is read.
RecoveryUnflushed ==
    <<Do("name", "recovery-identity"),
      Do("run", "recovery-identity"),
      Health("recovery-identity", ""),
      Proves("login", "stamped", "recovery.restored-identity-authenticates"),
      Step("refreshCopy", 1, 200, "recovery.restored-refresh-token-operational"),
      Do("name", "recovery-user"),
      Do("run", "recovery-user"),
      Health("recovery-user", ""),
      Proves("readCopy", "stamped", "recovery.restored-user-readable"),
      Proves("readUser", "stamped", "recovery.primary-remains-operational")>>

\* Mutant: the name is kept only once docker compose run has returned.
RecoveryNamedLate ==
    <<Do("run", "recovery-identity"),
      Do("name", "recovery-identity"),
      Health("recovery-identity", ""),
      Proves("login", "stamped", "recovery.restored-identity-authenticates"),
      Step("refreshCopy", 1, 200, "recovery.restored-refresh-token-operational"),
      Do("flush", ""),
      Do("run", "recovery-user"),
      Do("name", "recovery-user"),
      Health("recovery-user", ""),
      Proves("readCopy", "stamped", "recovery.restored-user-readable"),
      Proves("readUser", "stamped", "recovery.primary-remains-operational")>>

RecoveryOfServices ==
    <<Do("name", "recovery-identity"),
      Do("run", "recovery-identity"),
      Health("recovery-identity", ""),
      Proves("login", "stamped", "recovery.restored-identity-authenticates"),
      Step("refreshCopy", 1, 200, "recovery.restored-refresh-token-operational"),
      Do("flush", ""),
      Do("name", "recovery-user"),
      Do("run", "recovery-user"),
      Health("recovery-user", ""),
      Proves("readCopy", "stamped", "recovery.restored-user-readable"),
      Proves("readUser", "stamped", "recovery.primary-remains-operational")>>

RecoveryScript ==
    Prologue \o RecoveryBaseline \o RecoveryRestarts \o RecoveryBackup \o RecoveryOfServices
    \o Epilogue
-----------------------------------------------------------------------------
ReleaseManifest ==
    <<Do("contract", ""),
      Do("release", "git revision"),
      Do("try", ""),
      Proves("release", "revision", "release.revision-bound"),
      Proves("release", "compose file", "release.compose-checksum-recorded"),
      Proves("release", "images", "release.service-image-identities-recorded"),
      Proves("release", "manifest", "release.manifest-created"),
      Proves("release", "manifest", "release.manifest-checksum-verifies")>>

ReleaseOutage ==
    <<Health("gateway", "deployment.gateway-health"),
      Health("identity-service", "deployment.identity-health"),
      Health("user-service", "deployment.user-health"),
      Do("register", "fixed"),
      Do("create", "fixed"),
      Do("readUser", "fixed"),
      Proves("count", "", "deployment.authenticated-read"),
      Do("stop", {"gateway"}),
      Proves("down", "gateway", "failure.controlled-gateway-outage-detected"),
      Step("read", "", {0, 503}, "failure.protected-read-unavailable"),
      Do("start", {"gateway"}),
      Health("gateway", "rollback.gateway-restored"),
      Proves("release", "images", "rollback.verified-image-restored"),
      Step("read", "", {200}, "rollback.protected-read-recovers"),
      Proves("recount", "fixed", "rollback.state-preserved"),
      Proves("release", "report", "evidence.machine-readable"),
      Proves("release", "report", "truth-boundary.hosted-runtime")>>

ReleaseEpilogue == <<Do("compare", "missing"), Do("publish", "")>>

DeploymentScript == ReleaseManifest \o ReleaseOutage \o ReleaseEpilogue
-----------------------------------------------------------------------------
(* No contract and no comparison; the cookie holds the refresh token.        *)
BrowserSession ==
    <<Do("try", ""),
      Proves("rejected", "path", "browser.implementation-path-hidden"),
      Proves("rejected", "origin", "browser.cross-origin-register-rejected"),
      Proves("register", "stamped", "browser.registration-cookie-bound"),
      Step("refresh", 1, 200, "browser.refresh-rotates-cookie"),
      Step("refresh", 1, 401, "browser.rotated-cookie-replay-rejected"),
      Proves("rejected", "origin", "browser.cross-origin-refresh-rejected"),
      Proves("logout", 2, "browser.logout-expires-cookie"),
      Step("refresh", 2, 401, "browser.logout-revokes-cookie")>>

BrowserScript == BrowserSession \o <<Do("publish", "")>>

(* The four rounds of traffic ignore every answer they get.                  *)
Observability ==
    <<Proves("ping", "prometheus", "prometheus.ready"),
      Proves("ping", "loki", "loki.ready"),
      Proves("ping", "tempo", "tempo.ready"),
      Proves("ping", "grafana", "grafana.ready"),
      Proves("ping", "otel-collector", "otel-collector.running"),
      Proves("ping", "alloy", "alloy.running"),
      Proves("targets", "", "prometheus.core-targets-up"),
      Do("register", "fixed"),
      Step("read", "", {0, 200, 503}, ""),
      Step("read", "", {0, 200, 503}, ""),
      Step("read", "", {0, 200, 503}, ""),
      Step("read", "", {0, 200, 503}, "traffic.generated"),
      Proves("ping", "prometheus", "prometheus.http-metrics-query"),
      Proves("ping", "tempo", "tempo.received-spans"),
      Proves("ping", "loki", "loki.received-container-logs"),
      Proves("ping", "grafana", "grafana.datasources-provisioned"),
      Proves("ping", "grafana", "grafana.dashboard-provisioned")>>

ObservabilityScript == Prologue \o Observability \o Epilogue

(* The profiles themselves, and the probe, are the business of LoadProof.    *)
LoadSetup ==
    <<Health("gateway", "service.gateway.health"),
      Health("identity-service", "service.identity.health"),
      Health("user-service", "service.user.health"),
      Proves("register", "fixed", "load.authenticated-session-created"),
      Step("read", "", {200}, ""),
      Do("count", ""),
      Step("read", "", {200}, ""),
      Step("read", "", {200}, ""),
      Step("read", "", {200}, ""),
      Step("read", "", {200}, ""),
      Proves("listCached", "", "load.warmup-completes")>>

LoadProfiles ==
    <<Do("load", "burst"),
      Do("load", "sustained"),
      Proves("load", "observations", "load.concurrent-requests-complete"),
      Proves("load", "observations", "load.sustained-profile-completes"),
      Proves("load", "error rate", "load.error-rate-within-hosted-guardrail"),
      Proves("load", "p95", "load.p95-within-hosted-guardrail"),
      Proves("load", "throughput", "load.throughput-above-hosted-floor"),
      Proves("load", "percentiles", "load.latency-percentiles-recorded"),
      Proves("load", "health samples", "load.gateway-responsive-during-load"),
      Proves("load", "probe", "load.rate-limit-enforced-under-overload")>>

LoadRecovery ==
    <<Health("gateway", ""),
      Health("identity-service", ""),
      Health("user-service", "load.services-healthy-after-load"),
      Step("read", "", {200}, "load.protected-read-recovers"),
      Proves("recount", "", "load.state-integrity-preserved"),
      Proves("load", "contract", "load.truth-boundary")>>

LoadScript == Prologue \o LoadSetup \o LoadProfiles \o LoadRecovery \o Epilogue
-----------------------------------------------------------------------------
Script(suite) ==
    CASE suite = "core" -> CoreScript
      [] suite = "resilience" -> ResilienceScript
      [] suite = "security" -> SecurityScript
      [] suite = "recovery" -> RecoveryScript
      [] suite = "deployment" -> DeploymentScript
      [] suite = "browser" -> BrowserScript
      [] suite = "observability" -> ObservabilityScript
      [] suite = "load" -> LoadScript

Suites == {"core", "resilience", "security", "recovery", "deployment", "browser",
           "observability", "load"}
=============================================================================
