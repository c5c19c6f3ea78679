SPECIFICATION PluginSpec
CONSTANTS
  Workers = {w1, w2}
  Requests = {r1, r2}
  Impus = {i1}
  i1 = i1
  Calls = {1, 2, 3, 4, 5, 6, 7, 8, 9, 10, 11, 12, 13}
  MaxCallListLength = 11
  Entries <- ThirteenthCall
  StoredBefore <- TwelveCalls
  MaxRestarts = 0
  NotifierAttached = FALSE
  NoRequest = NoRequest
  NoEntry = NoEntry
  OptionMaps <- SomeOptions
  GoodUrls = {}
  Absent = Absent
  Unreadable = Unreadable
INVARIANTS ObjectsDeletedOnce StoreAndNotifierOutliveWorkers ListsAreBounded RecordsKept
PROPERTIES RequestsSettle UnloadCompletes
CHECK_DEADLOCK FALSE
