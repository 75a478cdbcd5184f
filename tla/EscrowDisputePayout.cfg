\* A dispute in the release window.
SPECIFICATION Spec
CONSTANTS
  Orders = {o1}
  Workers = {w1}
  Requested = {"capture", "dispute"}
  Patches = {"SHIPMENT_BOOKED", "IN_TRANSIT", "DELIVERED"}
  NoOrder = NoOrder
  Job = Job
PROPERTY DisputeBlocksPayout
CHECK_DEADLOCK FALSE
