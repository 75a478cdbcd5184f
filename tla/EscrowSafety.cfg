\* One order, two requests at once, and the job.
SPECIFICATION Spec
CONSTANTS
  Orders = {o1}
  Workers = {w1, w2}
  Requested = {"capture", "dispute", "refund", "release", "hold"}
  Patches = {"SHIPMENT_BOOKED", "IN_TRANSIT", "DELIVERED", "CANCELLED"}
  NoOrder = NoOrder
  Job = Job
INVARIANTS TypeOK CompletedAfterPayout CancelledAfterFreeze
PROPERTY ImplementsSettlement
SYMMETRY Symmetry
CHECK_DEADLOCK FALSE
