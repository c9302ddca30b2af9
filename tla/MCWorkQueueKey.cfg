\* The program of MCWorkQueue, every item submitted through PWQ::Run.
SPECIFICATION Spec
CONSTANTS
  main = main
  bar = bar
  i1 = i1
  i2 = i2
  i3 = i3
  i4 = i4
  i5 = i5
  i6 = i6
  None = None
  NUMPROC = 2
  Main = main
  Items <- MCItems
  Clients <- MCClients
  Barriers = {bar}
  Parent <- MCParent
  Stage <- MCStage
  WaitFor <- MCWaitFor
  Bar <- MCBar
  Key <- MCKey
  PwqItems = {i1, i2, i3, i4, i5, i6}
INVARIANT SameKeySameThread
