SPECIFICATION FairServerSpec
CONSTANTS
    pfm = pfm
    seeder = seeder
    r1 = r1
    r2 = r2
    NoProcess = NoProcess
    Servers <- OneServer
    Seeders <- OneSeeder
    Requests <- TwoRequests
    Retries = 2
    LastVersion = 3
INVARIANTS
    ServerTypeOK
    SchemaWhole
    ServesMigrated
    CutOnlyLate
PROPERTIES
    StartupEnds
    SignalEnds
    RestartsSuffice
