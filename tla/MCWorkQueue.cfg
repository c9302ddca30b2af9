\* Three queues, six items, one barrier; see MCWorkQueue for the program.
SPECIFICATION FairSpec
CONSTANTS
  main = main
  bar = bar
  i1 = i1
  i2 = i2
  i3 = i3
  i4 = i4
  i5 = i5
  i6 = i6
  None = None
  NUMPROC = 3
  Main = main
  Items <- MCItems
  Clients <- MCClients
  Barriers = {bar}
  Parent <- MCParent
  Stage <- MCStage
  WaitFor <- MCWaitFor
  Bar <- MCBar
  Key <- MCKey
  PwqItems = {i1, i3, i5, i6}
INVARIANTS
  BwaitCovers
  WorkerNotForgotten
  WaiterNotForgotten
  ExitDrains
PROPERTIES
  Terminates
  IsPool
