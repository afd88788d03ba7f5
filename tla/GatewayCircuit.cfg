\* A read route (two retries) and two requests at once, over a breaker of a
\* smaller window whose order of sizes is that of application.yml:
\* Permitted < MinimumCalls < WindowSize.
SPECIFICATION CircuitFairSpec
CONSTANTS
    Request = {r1, r2}
    Retries = 2
    WindowSize = 4
    MinimumCalls = 3
    Permitted = 2
INVARIANTS
    CircuitTypeOK
    NoSurplusEffect
PROPERTIES
    Recovers
    ShedsLoad
