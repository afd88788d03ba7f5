\* Two probes of each kind under way at once, two addresses of each: a probe
\* of old settings can answer before, between and after those of a check.
SPECIFICATION FairSpec
CONSTANTS
    GatewayProbe = {g1, g2}
    RuntimeProbe = {n1, n2}
    Base = {ba, bb}
    Port = {pa, pb}
    DefaultBase = ba
    DefaultPort = pa
    NoAddress = NoAddress
INVARIANTS
    HealthIsOfTheseSettings
    RecoveryCheckMends
    PanelsAgree
PROPERTIES
    CheckEnds
