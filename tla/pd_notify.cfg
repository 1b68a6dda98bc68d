SPECIFICATION FairSpec
CONSTANTS
  s1 = s1
  s2 = s2
  NoMsg = NoMsg
  Senders = {s1, s2}
  MaxPush = 2
  Built <- MCAny
  InitFails = TRUE
  SendFails = TRUE
  ReceiveFails = TRUE
  Stops = TRUE
  Epoch = 9
INVARIANTS PopsMatchEntries SendsAfterConnect
PROPERTIES ImplementsChannel BackoffDoubles ReportReturns StopEndsReceive
CHECK_DEADLOCK FALSE
