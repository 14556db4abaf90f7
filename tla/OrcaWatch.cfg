SPECIFICATION LiveSpec
CONSTANTS
    Runs = {r1, r2}
    Workers = {w1}
    None = None
    Slots = {1, 2}
    Budgets <- MCBudgets
INVARIANTS
    OneWatcher
    RepeatsHaveACause
PROPERTIES
    EndsAreTold
\* A session may be idle for good.
CHECK_DEADLOCK FALSE
