SPECIFICATION FairAPISpec
CONSTANTS
    Server <- MCServer
    Release <- MCRelease
    MaxFaults = 1
    Setting <- MCSetting
    Request = {r1, r2}
    MaxSignals = 1
INVARIANTS RecordedIsApplied HandledOnSchema InVersionOrder VerifierIsConfigured
PROPERTIES CleanExitCutsNone RequestsEnd SignalledExits ComeUp
CHECK_DEADLOCK FALSE
