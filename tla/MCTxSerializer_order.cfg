CONSTANTS
  t1 = t1
  t2 = t2
  t3 = t3
  t4 = t4
  t5 = t5
  k1 = k1
  k2 = k2
  Transactions = {t1, t2, t3}
  Keys = {k1}
  MaxQueueSize = 3
  MaxGlobalQueueSize = 3
  ConcurrentTransactions = 1
SPECIFICATION FairSpec
PROPERTIES ArrivalOrder
