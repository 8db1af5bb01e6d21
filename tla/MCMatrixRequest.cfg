SPECIFICATION Spec
CONSTANTS
  Users = {u}
  Ttl = 1
  Settings <- MCSettings
  MaxClock = 2
  MaxRestarts = 1
  PageCap = 2
  ExportCap = 2
  Histories <- MCHistories
  Requests <- MCRequests
  Searches <- MCSearches
INVARIANTS PaymentShownOnce PaidColumnAddsUp TotalsAgree SameAsAlone ActsShown ListedIsFound
PROPERTIES ShutOutInTime
CHECK_DEADLOCK FALSE
