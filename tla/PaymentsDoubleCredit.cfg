\* A notification repeated to a server that handles one request at a time.
SPECIFICATION Spec
CONSTANTS
  i1 = i1
  i2 = i2
  Intents = {i1, i2}
  Others = {}
  Provider <- OneOfEach
  Workers = {w1}
  Keys = {}
  Patches = {}
  Overrides = {}
  MaxCredits = 2
  MaxRefunds = 1
  NoKey = NoKey
  NoIntent = NoIntent
  Job = Job
INVARIANT NoDoubleCredit
CHECK_DEADLOCK FALSE
