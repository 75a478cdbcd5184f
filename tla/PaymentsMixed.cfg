\* One intent at each gateway, one request at a time and the job, requests repeated
\* with one key, an order put back to DRAFT, payments of other orders.
SPECIFICATION Spec
CONSTANTS
  i1 = i1
  i2 = i2
  Intents = {i1, i2}
  Others = {x}
  Provider <- OneOfEach
  Workers = {w1}
  Keys = {k1}
  Patches = {}
  Overrides = {"DRAFT"}
  MaxCredits = 1
  MaxRefunds = 1
  NoKey = NoKey
  NoIntent = NoIntent
  Job = Job
INVARIANT AnswerIsPayable
PROPERTY ImplementsLedger
CHECK_DEADLOCK FALSE
