CONSTANTS
  Threads = {t1, t2}
  Chats = {c1}
  Api = {"CreateCall", "StartRTMP", "Setup", "Stop", "Close"}
  MaxCreates = 3
  Nil = Nil
SPECIFICATION Spec
PROPERTIES RemovesOwn
CHECK_DEADLOCK FALSE
