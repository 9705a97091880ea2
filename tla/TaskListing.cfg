\* Every filter, both stores, three tasks.
SPECIFICATION Spec
CONSTANTS
    Ids <- ThreeIds
    alice = alice
    context = context
    Owners = {alice}
    OwnerOf <- AllHers
    Contexts = {context}
    ContextOf <- SameContext
    States <- TwoStates
    Instants <- HalfSeconds
    Requests <- FourRequests
    Stores <- BothStores
    MaxSaves = 2
INVARIANTS TypeOK QuietWalkIsExact UntouchedAreListed StoresAgree
CHECK_DEADLOCK FALSE
