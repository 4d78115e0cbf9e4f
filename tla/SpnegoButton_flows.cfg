CONSTANTS
  Flows <- ChoiceFlows
  Outcomes = {"valid", "rejected", "continue"}
SPECIFICATION FairSpec
CHECK_DEADLOCK FALSE
INVARIANT TypeOK
INVARIANT MandatoryStepsPassed
INVARIANT TicketOnlyOnDemand
INVARIANT ChallengeAnswersGet
INVARIANT FormOffersButton
PROPERTY NoDeadEnd
PROPERTY ClickIsAnswered
