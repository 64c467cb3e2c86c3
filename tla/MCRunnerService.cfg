SPECIFICATION FairSpec
CONSTANTS
  Slots <- MCSlots
  StepKinds <- MCStepKinds
  MaxAttempts = 2
  MaxFaults = 2
INVARIANTS ReturnsAlone PromptIsGone
PROPERTIES OutcomeIsReported PlanEnds CancellationEnds
CHECK_DEADLOCK FALSE
