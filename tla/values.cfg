SPECIFICATION Spec
CONSTANTS
  UrlTexts <- MCUrlTexts
  ProxyTexts <- MCProxyTexts
  Proxies <- MCProxies
  LuaValues <- MCLuaValues
  JsonTexts <- MCJsonTexts
  Returned <- MCReturned
  Strings <- MCStrings
  CStr <- MCCStr
  After <- MCAfter
  Printed <- MCPrinted
  Utf8 <- MCUtf8
  Others = {"half", "inf"}
  Finite = {"half"}
  MaxInteger = 3
  Lowest = 0
  Highest = 3
  Depth = 2
INVARIANTS
  ConversionsTypeOK
  UrlMeansTheSame
  UrlIsAccepted
  ProxyReadsBack
  PortInRange
  JsonRoundTrip
  DecodersAgree
  ModuleReturned
CHECK_DEADLOCK FALSE
