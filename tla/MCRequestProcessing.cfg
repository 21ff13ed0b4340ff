CONSTANTS
    MadeTexts <- MCMadeTexts
    OtherTexts <- MCOtherTexts
    Digits = {1, 2, 10}
    METHOD_SIZE = 8
    PATH_SIZE = 256
    MAX_HEADERS = 16
    HEADER_SIZE = 64
    RESP_SIZE = 256
    COMP_SIZE = 44
SPECIFICATION Spec
INVARIANTS
    TypeOK
    ParsedAsWritten
    MadeRequestsPass
    CompressesInput
