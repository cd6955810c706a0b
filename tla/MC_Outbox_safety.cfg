SPECIFICATION OutboxSpec
CONSTANTS
  Absent = Absent
  bg = bg
  pub = pub
  vol = vol
  bri = bri
  game = game
  v1 = v1
  v2 = v2
  src = src
  Thread = {bg, pub}
  Bg = bg
  Key = {vol, bri, game}
  Value = {v1, v2}
  Source = {src}
  Inputs <- SafetyInputs
  MaxRef = 3
  WireCap = 1
INVARIANTS OutboxTypeOK NothingLost PendingIsFreshest
PROPERTIES DeliverySpec
CHECK_DEADLOCK FALSE
