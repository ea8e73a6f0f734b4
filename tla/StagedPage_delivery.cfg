\* An owner who uses the page: the delivery of a bridge stage is never recorded.
CONSTANTS
  t1 = t1
  null = null
  Last = 2
  ChainOf <- Bridged
  MaxNonce = 1
  Tabs = {t1}
  Page = t1
  Mishaps = {}
  None = null
SPECIFICATION PageSpec
PROPERTIES
  DeliveriesAreRecorded
CHECK_DEADLOCK FALSE
