\* One thread binds again while another saves through the same repository.
CONSTANTS
    p1 = p1
    p2 = p2
    NoProcess = NoProcess
    Processes = {p1, p2}
    Authority = {1, 2}
    Instances <- ThreadedInstances
SPECIFICATION Spec
INVARIANTS
    MutationHasItsRow
CHECK_DEADLOCK FALSE
