CONSTANTS
  a = a
  n1 = n1
  n2 = n2
  n3 = n3
  Nets = {a}
  Dispatches <- MCDispatches
  Tasks <- MCTasks3
  HomeSeq <- MCHomeSeq
  NoTask = NoTask
  Width <- MCWidth211
  Hosts = 1
  Urls = 1
  MaxRun = 1
  MaxConns = 1
  MaxFaults = 0
SPECIFICATION Spec
SYMMETRY Symmetry
 
PROPERTY ScanUndisturbed
