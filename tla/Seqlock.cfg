SPECIFICATION FairSpec
CONSTANTS
    SeqSize = 4
    MaxChanges = 6
INVARIANTS
    TypeOK
    WitnessSound
    DoubtShutsWitness
PROPERTY
    QuietReopens
