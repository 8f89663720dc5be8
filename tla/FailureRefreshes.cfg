SPECIFICATION FairSpec
CONSTANTS
    UDPFlows = {u}
    TCPFlows = {t}
    None = none
    home = home
    vpn = vpn
    lab = lab
    six = six
    IPv4 <- MCIPv4
    Names <- MCNames
    Reports <- MCReports
    MaxQueries = 1
PROPERTY FailureRefreshes
CHECK_DEADLOCK FALSE
