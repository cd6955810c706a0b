CONSTANTS
  Value = {v1, v2}
  Setter = {t1}
  MaxChange = 4
  Nothing = Nothing
SPECIFICATION SettingSpec
INVARIANT Published
CHECK_DEADLOCK FALSE
