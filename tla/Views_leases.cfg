SPECIFICATION Spec
CONSTANTS
    r1 = r1
    nas = nas
    printer = printer
    addr = addr
    ip1 = ip1
    ip2 = ip2
    vpn1 = vpn1
    vpn2 = vpn2
    alice = alice
    Requests = {r1}
    NoRequest = NoRequest
    Names = {nas, printer}
    RefusedNames = {}
    Values = {addr}
    RefusedValues = {}
    InitialConfig <- MCInitialConfig
    CallsOf <- MCCalls
    Macs = {nas, printer}
    NoMac = NoMac
    Addresses = {ip1, ip2}
    LastTime = 2
    ViewNames = {"leases"}
    Blocks <- EndlessBlocks
    InitialLogs <- ReleasedLogs
    MaxTurns = 1
    MaxLosses = 0
    ArpTables <- MCArpTables
    Incomplete = Incomplete
    OtherHosts <- MCOtherHosts
    Servers <- MCServers
    ClientsOf <- MCClients
\* A view is answered once, and the router's changes are bounded.
CHECK_DEADLOCK FALSE
INVARIANTS ListedIsActiveOrLatest
