SPECIFICATION SentSpec
CONSTANTS
    MaxOrders = 1
    MaxTicks = 0
INVARIANTS
    OperatorPauseSurvives
\* the bounds on orders stop the operator for good
CHECK_DEADLOCK FALSE
