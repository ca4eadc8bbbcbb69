CONSTANTS
  Words = 6
  PageWords = 2
  MaxRead = 2
  Lengths = {0, 2, 9}
  Reg = {r1, r2}
  Value = {v1, v2}
  Retries = 2
  MaxBytes = 3
  LongBits = 8
  ShortBits = 6
  Limit = 2
  MaxText = 2
  Numbers = {0, 5, 127, 128, 255}
  Sizes <- MCSizes
SPECIFICATION Spec
INVARIANTS TypeOK FlashRight AllOrNothing OcRight TwiRight BusReleased TextRight
PROPERTIES CallsReturn
