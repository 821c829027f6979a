SPECIFICATION FairSpec
CONSTANTS
  Jobs = {j1}
  DraftKeys = {d1}
  Requests = {r1, r2}
  Idle = Idle
  None = None
  FirstText = FirstText
  TypedText = TypedText
  Blank = Blank
  honest = honest
  leaky = leaky
  invented = invented
  ModelOutputs <- MCOutputs
  Mentions <- MCMentions
  Prices = {"old price", "no price"}
  Addresses = {"here", "there"}
  FactSheets <- MCFacts
  DailyQuota = 1
  MaxSubmissions = 2
  MaxEdits = 1
INVARIANTS ChargedOnce
PROPERTIES HandwrittenKept  GenerationEnds
CHECK_DEADLOCK FALSE
