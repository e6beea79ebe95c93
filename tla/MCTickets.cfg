CONSTANTS
  Surprise <- MCSurprise
  DrawRate = 1000
  DrawSample = 6
  LiveReady = {"e0"}
  LiveBlocked = {"d1"}
  Slates <- MCSlates
  Products = {"weekend", "midweek", "other"}
  Rules <- MCRules
  Limits <- MCLimits
  LongSlate = 3
  ShortSlate = 1
  Situations <- MCSituations
  Targets = {900}
SPECIFICATION TicketsSpec
INVARIANTS PlanIsBest DemotionSparesThePlan
  PickIsTheSignal GuardAgreesWithValidation PublishedTicketIsPlayable
CHECK_DEADLOCK FALSE
