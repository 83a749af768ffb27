SPECIFICATION Spec
CONSTANTS
    a = a
    b = b
    m = m
    d = d
    e = e
    ErrLookup = ErrLookup
    OtherError = OtherError
    GeoIPError = GeoIPError
    ErrRejected = ErrRejected
    IPs <- MCIPs
    Domains <- MCDomains
    CountryOf <- MCCountryOf
    Cases <- MCCases
INVARIANTS
    MatchNeverPanics
    FirstMatchingRoute
    OutcomesHaveACause
