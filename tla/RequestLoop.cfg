SPECIFICATION Spec
CONSTANTS
  Origins = {a, b, c}
  Https = {a, b}
  First = a
  Forbidden = {b}
  RetryMethods = {"GET", "POST", "QUERY"}
  RetryStatuses = {303, 503}
  CallerNames = {"authorization", "cookie", "content-type", "x-key"}
  HookNames = {"cookie", "x-key"}
  Calls <- SmallCalls
  MaxRedirects = 2
  MaxRetries = 2
  NoOrigin = NoOrigin
CHECK_DEADLOCK FALSE
INVARIANTS
  CredentialsStayHome BodyStaysHome AuthSeesCleanHeaders
  SlotMatchesExchange FailsClosed TraceTellsAttempts
