\* A certificate as long as the one of the tests.
SPECIFICATION Spec
CONSTANTS
    PrefixLength = {40}
    CertLength = {0, 392}
    MaxAnnouncements = 1
INVARIANT
    CertificatesAreAnnounced
CHECK_DEADLOCK FALSE
