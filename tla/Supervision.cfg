CONSTANTS
  MaxSessions = 2
  Confirm = 2
  Nets = {n1, n2}
  NoNet = NoNet
SPECIFICATION SupSpec
INVARIANTS Supervised
PROPERTIES ExitNoticed FlowReturns ConfirmedChange ChangeReported
