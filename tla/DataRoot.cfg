\* Two threads write, register and export; three runners in two processes contend for the root;
\* four outputs in a chain of shared tasks, the last of which is provisional; two threads that
\* record one task of two answers; a request with two retries; plans of up to two members;
\* two clients of the MCP server.
SPECIFICATION RootSpec
CONSTANTS
    t1 = t1 t2 = t2 d1 = d1 d2 = d2 b1 = b1 e1 = e1 e2 = e2 f1 = f1 f2 = f2 None = None
    p1 = p1 p2 = p2 r1 = r1 r2 = r2 r3 = r3 j1 = j1 j2 = j2 g1 = g1 g2 = g2
    Free = Free Torn = Torn Missing = Missing NoOutput = NoOutput
    Threads = {t1, t2}
    Exporters = {t1}
    Fresh = {d1, d2}
    Baselines = {b1}
    Exports = {e1, e2}
    Folder <- Apart
    Fetchers = {g1, g2} Requests = 2 Secret = {2} MaxUpstream = 1 MaxFetches = 3 MaxTears = 1
    Retries = 2 MaxChunks = 1 Waits = {45}
    Supply = 2 Grids = {1, 2} MaxFaults = 1 MaxChanges = 1 MaxCrashes = 1 MaxRetries = 1
    Conns = {g1, g2} Keys = {7} PageSize = 1 TextRows = 1 MaxYes = 1
    Cases <- McpCases
    Planned <- TwoPlans
    Given <- ThreePlans
    MaxStamp = 1
    MaxDamages = 1
    Processes = {p1, p2}
    Runners = {r1, r2, r3}
    Home <- Homes
    Jobs = {j1, j2}
    Outputs = {1, 2, 3, 4}
    Tasks = {1, 2, 4}
    Needs <- Chained
    Provisional = {4}
SYMMETRY Symmetric
INVARIANTS DocumentsResolve ExportsResolve OneProcessWorks FetchedOnce FailuresAreShown RepliesAreExact FutureHolds McpHolds
CHECK_DEADLOCK FALSE
