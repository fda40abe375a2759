SPECIFICATION Spec
CONSTANTS
    Stages = 4
    Width = 2
    Taps <- MCTaps
    Hold = 8
    Gap = 4
    ResetClocks = 9
    Quiet = 2
    Noisy <- MCNoisy
    Lights = 2
    Seeds <- MCSeeds
    ResetWord <- MCResetWord
INVARIANTS TypeOK OncePerCycle CycleServed LedsInStep
PROPERTY SeedKept
