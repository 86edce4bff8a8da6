SPECIFICATION FairSpec
CONSTANT Requests = {r1}
PROPERTIES FuturesResolve SlotsComeBack
CHECK_DEADLOCK FALSE
