CONSTANTS
    Plain <- MCPlain
    Slashed <- MCSlashed
    Slash <- MCSlash
    Exported = {"*", "/"}
    Wildcard = "*"
    Root = "/"
    Handlers = {"long", "index"}
    Index = "index"
    NotFound = "notfound"
    MaxConns = 2
    MaxExports = 1
    Body <- MCBody
    Uris = {"/", "/a"}
    Cuts <- MCCuts
    ULLONG_MAX = 100000
    HTTP_MAX_HEADER_SIZE = 100
    UriMax = 10
SPECIFICATION Spec
INVARIANTS ServiceFreedLast AnswerWasRight AnswerIntact
PROPERTIES EveryoneAnswered DeleteReturns
