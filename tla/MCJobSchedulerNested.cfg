CONSTANTS
    Runs = {"first", "plain"}
    NoRun = NoRun
    MaxJobs = 2
    Events <- MCEvents
    External <- MCExternal
    Quotas <- MCQuotas
    MaxWorkers = 1
    Total <- MCTwoThenOne
    Own <- MCOwn
    Parents <- MCParents
    QuotasOf <- MCQuotasOf
    QuotaLimit <- MCQuotaLimit
    MaxConcurrency <- MCMaxConcurrency
    Outer <- MCNested
SPECIFICATION FairSpec
INVARIANT
    OutcomeFaithful
PROPERTY CallsEnd
