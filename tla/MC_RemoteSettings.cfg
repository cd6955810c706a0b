CONSTANTS
  Value = {v1, v2}
  Setter = {t1, t2}
  MaxChange = 3
  Nothing = Nothing
SPECIFICATION SettingFairSpec
INVARIANT SettingTypeOK
INVARIANT PendingHasTimer
INVARIANT Settled
PROPERTY Agree
CHECK_DEADLOCK FALSE
