SPECIFICATION TSpec
CONSTANTS
    INT_MAX = 32767
    Writers = {uart}
    Lines <- MCLines
    Statuses <- MCStatuses
    NULL = NULL
INVARIANTS
    StatusReadsBack
