\* Every connector proof, run twice, with two failures and two wrong answers anywhere.
SPECIFICATION Spec
CONSTANTS
    MaxFaults = 2
    MaxLies = 2
    MaxRuns = 2
INVARIANTS
    SoundPlatformPasses
    ArmedOrUntouched
    PassMeansOnce
PROPERTIES
    ClaimsHoldWhenMade
    EvidenceSpec
