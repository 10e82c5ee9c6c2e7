SPECIFICATION McpSpec
CONSTANTS
    c1 = c1
    c2 = c2
    a1 = a1
    r1 = r1
    None = None
    ComponentIds = {c1, c2}
    AppIds = {a1}
    AreaIds = {r1}
    Callers = {m1}
    Batches <- MCBatches
    Unknown = Unknown
    Failed = Failed
INVARIANT EachSectionWasReal
PROPERTIES
    OutcomeEndsCall
    ClosingEndsMcp
