SPECIFICATION Spec
CONSTANTS
    Own = Own
    MaxChanges = 2
    MaxReports = 1
    MaxLists = 2
    MaxFaults = 2
INVARIANTS
    TypeOK
    LiveIsCurrent
    NotFoundIsTrue
PROPERTIES
    EndsCurrent
