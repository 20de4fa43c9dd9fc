CONSTANTS
  n1 = n1
  n2 = n2
  Threads = {t1, t2, t3}
  Tasks <- MCTasks
  HomeSeq <- MCHomeSeq
  LastQueue = 1
  NoThread = NoThread
  NoTask = NoTask
SPECIFICATION FairSpec
INVARIANTS OnePlace IInv CountAgrees StatusAgrees ErrorKeepsNode
PROPERTIES PoolSpec CallsReturn
