SPECIFICATION ErrorSpec
CONSTANT MaxLayers = 3
INVARIANTS
    RetryDecisionStable
    HiddenCasesDecideAlike
    ClassificationsAgree
CHECK_DEADLOCK FALSE
