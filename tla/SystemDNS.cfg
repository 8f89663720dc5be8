SPECIFICATION FairSpec
CONSTANTS
    UDPFlows = {u}
    TCPFlows = {t}
    None = none
    home = home
    vpn = vpn
    lab = lab
    six = six
    IPv4 <- MCIPv4
    Names <- MCNames
    Reports <- MCReports
    MaxQueries = 1
INVARIANT RetryFresh
INVARIANT AsksResponsible
PROPERTY QueriesSettle
CHECK_DEADLOCK FALSE
