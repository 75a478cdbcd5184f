\* One order, two requests at once, two parcels, one dispute.
SPECIFICATION DeliverySpec
CONSTANTS
  Orders = {o1}
  Disputes = {d1}
  Workers = {w1, w2}
  Patches = {"IN_TRANSIT"}
  MaxParcels = 2
  NoOrder = NoOrder
INVARIANTS TypeOK BookedHasShipment DeliveredIsTrue DisputeIsRecorded
PROPERTIES ImplementsConsignment DeliveryReachesOrder
CHECK_DEADLOCK FALSE
