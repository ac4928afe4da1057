\* Up to two probes of a host fail; two lines fill the security evidence.
SPECIFICATION Spec
CONSTANTS
    Cases <- MCCases
    MaxFailed = 2
    DenialCap = 2
INVARIANTS
    UnmarkedMeansTrue
    FalseAlarmsAreKnown
    VersionsMeanWhatTheySay
    ChecksMissNothing
    SameServicesNoDrift
CHECK_DEADLOCK FALSE
