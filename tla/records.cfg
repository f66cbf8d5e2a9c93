\* Every input of the case sets, each algorithm on its own.
CONSTANTS
    SingleUser = {6}
    Pairs <- MCPairs
    Aggregates = {22}
    Shared = {4}
    Stop = Stop
    MergedAgents <- MCMerged
    Reserved = {9}
    Gateway <- MCGateway
    Acts <- MCActs
    ConnectionCases <- MCConnections
    MonitoringCases <- MCMonitoring
    LatencyCases <- MCLatency
    BillingCases <- MCBilling
    DirectoryCases <- MCDirectory
    LedgerCases <- MCLedger
    RalliCases <- MCRalli
    ContractCases <- MCContract
    ProviderCases <- MCProvider
    InvoiceCases <- MCInvoice
    MeterCases <- MCMeter
    RollupCases <- MCRollup
    SpeedCases <- MCSpeed
    PageCases <- MCPage
    ReconcileCases <- MCReconcile
SPECIFICATION Spec
CHECK_DEADLOCK FALSE
INVARIANTS
    MergesKeepEverything
    DirectoryResolved
    LoadsComplete
    RollupsAgree
    DashboardAddsUp
    AuditAgrees
    RoutesAreExact
