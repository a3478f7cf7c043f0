\* Three parts per command line; int32_t is 16 bits wide, one address fills
\* half the access list, and two messages, two stop sequences and texts of
\* two characters are the limits.
SPECIFICATION Spec
CONSTANTS
    Argvs <- MCArgvs
    Files <- MCFiles
    strtol <- MCstrtol
    strtof <- MCstrtof
    snprintf <- MCsnprintf
    Addresses <- MCAddresses
    Colon <- MCColon
    Half = 32768
    ACL_MAX = 2
    Machines <- MCMachines
    Bodies <- MCBodies
    Absent = Absent
    NaN = NaN
    Inf = Inf
    MAX_MESSAGES = 2
    CONTENT_MAX = 3
    STOP_MAX = 2
    STOP_LEN = 3
    MaxParts = 3
INVARIANTS
    TypeOK
    Precedence
    AclAccumulates
    AdviceSound
    HeapSound
    RequestUnderstood
    ParamsInRange
