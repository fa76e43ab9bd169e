CONSTANTS
  Threads = {t1, t2}
  Chats = {c1}
  Api = {"CreateCall", "StartRTMP", "Setup", "Stop", "Close"}
  MaxCreates = 3
  Nil = Nil
SPECIFICATION FairSpec
INVARIANTS OneWinner CloseSweeps
PROPERTIES KeepsRegistry NoCallLost CallsReturn
CHECK_DEADLOCK FALSE
