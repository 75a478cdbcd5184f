\* One bKash intent, two requests at once, notifications repeated.
SPECIFICATION DeliverySpec
CONSTANTS
  i1 = i1
  i2 = i2
  Intents = {i1}
  Others = {}
  Provider <- AllBkash
  Workers = {w1, w2}
  Keys = {k1}
  Patches = {"CANCELLED"}
  Overrides = {}
  MaxCredits = 1
  MaxRefunds = 1
  NoKey = NoKey
  NoIntent = NoIntent
  Job = Job
INVARIANT TypeOK
PROPERTIES PaymentIsCredited PaymentIsHeld
CHECK_DEADLOCK FALSE
