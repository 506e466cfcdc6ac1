SPECIFICATION Spec
CONSTANTS
    r1 = r1
    r2 = r2
    r3 = r3
    nas = nas
    printer = printer
    bare = bare
    addr = addr
    junk = junk
    Requests = {r1}
    NoRequest = NoRequest
    Names = {nas, printer, bare}
    RefusedNames = {bare}
    Values = {addr, junk}
    RefusedValues = {junk}
    InitialConfig <- ClaimConfig
    CallsOf <- ClaimCalls
\* Every request ends and every script stops: nothing is left to do.
CHECK_DEADLOCK FALSE
INVARIANTS UpdateReplaces
