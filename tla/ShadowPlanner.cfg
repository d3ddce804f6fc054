\* Plans made from 13:00 to 15:00.  SiteExport and Penalty are such that charging and
\* exporting one unit more earns less than what the cap pays for a later export.
SPECIFICATION WorkerSpec
CONSTANTS
    Scenarios <- MCScenarios
    Inputs <- MCInputs
    Schedule <- MCSchedule
    Confirmed = TRUE
    MinStored = 2
    MaxStored = 8
    ChargeGain = 2
    DischargeDraw = 2
    ChargeLimit = 2
    DischargeLimit = 1
    SiteImport = 3
    SiteExport = 1
    StoredQuantum = 1
    PremiumQuantum = 1
    SuperCap = 1
    Penalty = 30
    LoadDraw = 3
    Untrusted = 6
    FullScore = 2
    ArchiveInterval = 2
    FirstHour = 13
    MaxClock = 2
    MaxPlans = 3
INVARIANTS
    SearchSafe
    EnergyAccounted
    CostsExact
    PruningLossless
    HistoryFaithful
    VintagesRegular
