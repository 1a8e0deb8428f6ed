\* Lengths at and beyond what an entry holds; three announcements in a row.
SPECIFICATION FairSpec
CONSTANTS
    PrefixLength = {0, 40, 252, 253}
    CertLength = {0, 252, 300, 960}
    MaxAnnouncements = 3
INVARIANTS
    TypeOK
    ValuesArriveWhole
    CertificateIsOfPrefix
    AddressIsOfPrefix
PROPERTY
    ResolveRequestsEnd
CHECK_DEADLOCK FALSE
