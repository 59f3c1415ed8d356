\* Three changes are enough for two overlapping writes and a lone one after them.
CONSTANTS
    Addr <- MCAddr
    Configured <- MCConfigured
    Goroutine = {g1, g2}
    LegacyBook = {"x"}
    MaxFailures = 1
    MaxChanges = 3
    MaxFaults = 2
SPECIFICATION Spec
INVARIANTS FileDecodes FileCurrent SavedKept
CHECK_DEADLOCK FALSE
