SPECIFICATION OutboxSpec
CONSTANTS
  Absent = Absent
  bg = bg
  pub = pub
  vol = vol
  bri = bri
  game = game
  v1 = v1
  v2 = v2
  src = src
  Thread = {bg, pub}
  Bg = bg
  Key = {vol, bri, game}
  Value = {v1, v2}
  Source = {src}
  Inputs <- StatusInputs
  MaxRef = 2
  WireCap = 1
INVARIANTS RowShowsNewestStatus
CHECK_DEADLOCK FALSE
