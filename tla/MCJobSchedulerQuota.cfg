CONSTANTS
    Runs = {"first", "second"}
    NoRun = NoRun
    MaxJobs = 2
    Events <- MCEvents
    External <- MCExternal
    Quotas <- MCQuotas
    MaxWorkers = 2
    Total <- MCTwoThenOne
    Own <- MCOwn
    Parents <- MCParents
    QuotasOf <- MCQuotasOf
    QuotaLimit <- MCQuotaLimit
    MaxConcurrency <- MCMaxConcurrency
    Outer <- MCFlat
SPECIFICATION Spec
INVARIANTS
    Accounting
    WithinLimits
    WorkConserving
