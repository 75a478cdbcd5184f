\* Two orders, one request at a time, a job that may fail for a while.
SPECIFICATION JobSpec
CONSTANTS
  Orders = {o1, o2}
  Workers = {w1}
  Requested = {"capture", "hold"}
  Patches = {"SHIPMENT_BOOKED"}
  NoOrder = NoOrder
  Job = Job
PROPERTY DueHoldIsSettled
CHECK_DEADLOCK FALSE
