SPECIFICATION FairSpec
CONSTANTS
    None = None
    app = app
    tool = tool
    Process = {app, tool}
    Canon <- MCCanon
    FactsOf <- MCFacts
    Releases <- MCReleases
    Databases <- MCDatabases
    NewKeys = {1, 6}
    MaxFaults = 2
INVARIANTS SchemaIsKnown RepairsHold
PROPERTY ComesUp
