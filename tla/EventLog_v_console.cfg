INIT EventInit
NEXT EventNext
CONSTANTS
 EngineTxs={"e1","e2"}
 ApprovalTxs={"d1"}
 MaxEvents=3
 MaxConnects=2
INVARIANT ConsoleLosesNothing
CHECK_DEADLOCK FALSE
