\* One namespace and its public flag, acknowledged without a write, after a failed one.
CONSTANTS
    Names = {n}
    Tokens = {t1, t2}
    Indexes = {default}
    Default = default
    MaxUnsettled = 4
    None = None

SPECIFICATION SpecAcks
INVARIANT
    AckedSettingsStay
