\* A program of two stages on one chain, of which the first is carried out.
CONSTANTS
  t1 = t1
  null = null
  Last = 2
  ChainOf <- OneChain
  MaxNonce = 2
  Tabs = {t1}
  Mishaps = {}
  None = null
SPECIFICATION Spec
INVARIANTS
  NoReceiptIsSkipped
CHECK_DEADLOCK FALSE
