CONSTANTS
  Prompts = {p1, p2}
  Methods = {"execute", "execute_async"}
  MaxCalls = 2
  MaxFaults = 1
SPECIFICATION FairSpec
INVARIANTS ToldTheTruth NeverWokenForNothing
PROPERTIES ImplementsPromptOutcome FinishedIsReported
CHECK_DEADLOCK FALSE
