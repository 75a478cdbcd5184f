\* Two SSLCommerz intents, two requests at once, and the job.
SPECIFICATION Spec
CONSTANTS
  i1 = i1
  i2 = i2
  Intents = {i1, i2}
  Others = {}
  Provider <- AllSslcommerz
  Workers = {w1, w2}
  Keys = {}
  Patches = {}
  Overrides = {}
  MaxCredits = 1
  MaxRefunds = 1
  NoKey = NoKey
  NoIntent = NoIntent
  Job = Job
INVARIANTS MarkerMeansSettled PaidIsCredited WaitingHasUrl
PROPERTY ImplementsLedger
SYMMETRY Symmetry
CHECK_DEADLOCK FALSE
