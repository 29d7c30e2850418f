\* Who receives what, over a fabric shared by two scopes.
CONSTANTS
    Names = {"a", "b", "s", "x", "y", "clients", "n1", "n2", "n3", "c1", "c2", "c3"}
    Partials = {"b+"}
    Reserved = {"@retained", "@sys", "@meta", "$SYS", "$meta", "*", "**", "@x"}
    Nodes = {"n1", "n2", "n3"}
    Clients = {"c1", "c2", "c3"}
    ScopeOf <- MCScopeOf
    Home <- MCHome
    User <- MCUser
    Rules <- MCRules
    DefaultAllow = FALSE
    StaleRules <- MCStaleRules
    DefaultBound = 1
    TopicNames <- MCTopicNames
    FilterNames <- MCFilterNames
    SysSuffixes <- MCSysSuffixes
    MaxSubs = 2
    MaxStored = 1
    MaxClock = 3
SPECIFICATION Spec
INVARIANT LiveAsSpecified
INVARIANT RetainedAsSpecified
INVARIANT ReadsAreGranted
INVARIANT SpacesAreTheBrokers
INVARIANT StaleIsFlagged
