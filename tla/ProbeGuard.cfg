SPECIFICATION FairSpec
CONSTANTS
    Instances = {i1, i2, i3}
    ProbeTimeout = 3
    MaxProbe = 4
INVARIANTS OneProbeAtATime
PROPERTY GuardIsReleased
