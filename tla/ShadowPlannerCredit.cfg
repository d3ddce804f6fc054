\* A unit charged at 17:00 would keep the hours from 18:00 to 21:00 free of imports.
SPECIFICATION WorkerSpec
CONSTANTS
    Scenarios <- CreditScenarios
    Inputs <- CreditInputs
    Schedule = {}
    Confirmed = TRUE
    MinStored = 2
    MaxStored = 8
    ChargeGain = 2
    DischargeDraw = 2
    ChargeLimit = 1
    DischargeLimit = 1
    SiteImport = 3
    SiteExport = 3
    StoredQuantum = 1
    PremiumQuantum = 1
    SuperCap = 2
    Penalty = 20
    LoadDraw = 3
    Untrusted = 6
    FullScore = 2
    ArchiveInterval = 2
    FirstHour = 17
    MaxClock = 0
    MaxPlans = 1
INVARIANTS
    CheapestFound
