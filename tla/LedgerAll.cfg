SPECIFICATION Spec
CONSTANTS
    o1 = o1
    o2 = o2
    None = None
    Objects = {o1, o2}
    MaxRecords = 2
    MaxFaults = 2
CHECK_DEADLOCK FALSE
INVARIANT RecordsIntact
 
PROPERTY EveryRecordMarked
