CONSTANTS
  w1 = w1
  t1 = t1
  low = low
  high = high
  Writers = {w1}
  DigestTickers = {t1}
  Levels = {low, high}
  LastDay = 2
SPECIFICATION SettingsSpec
INVARIANT PolicyChangeSurvives
CHECK_DEADLOCK FALSE
