\* Three frames in any order, each intact or with a wrong length, cut into chunks at their end
\* or after three bytes.  A header in the data claims more bytes than any frame has.
SPECIFICATION FairPassiveSpec
CONSTANTS
    Slaves = {grid}
    Blocks = {power, energy}
    Count <- Registers
    Lures = {energy}
    Damages = {"intact", "length"}
    FalseLength = 20
    None = none
    ChunkSizes = {3}
    MaxFrames = 3
    MaxUnread = 1
    MaxUnplugs = 1
    power = power
    energy = energy
INVARIANTS
    PassiveTypeOK
    TransactionsGenuine
    CleanMeansComplete
PROPERTIES
    ImplementsChannel
    OutageReported
\* the bus falls silent after MaxFrames, and the thread may end
CHECK_DEADLOCK FALSE
