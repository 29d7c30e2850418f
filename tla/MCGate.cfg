\* Both accept loops at the connection limit, and a storm of CONNECTs.
CONSTANTS
    Conns = {"p1", "p2", "t1", "t2"}
    TlsConns = {"t1", "t2"}
    Cert <- MCCert
    Logins <- MCLogins
    Passwords <- MCPasswords
    None = None
    AllowAnonymous = FALSE
    MaxConnections = 2
    Rate = 2
    Burst = 1
    ConnectTimeout = 1
SPECIFICATION FairSpec
INVARIANT LimitHolds
PROPERTY CountSettles
PROPERTY QuietSecondGivesHeadroom
