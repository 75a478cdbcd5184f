\* One order, two requests at once: every interleaving of their awaits.
SPECIFICATION Spec
CONSTANTS
  Orders = {o1}
  Sessions = {s1}
  Requests = {r1, r2}
  Overrides = {"PAYMENT_PENDING", "IN_TRANSIT"}
INVARIANTS TypeOK HistoryCausal PaidBeforeShipping
PROPERTY ImplementsLifecycle
SYMMETRY Symmetry
CHECK_DEADLOCK FALSE
