SPECIFICATION Spec
CONSTANTS
    Plans <- AllPlans
    MaxTokens = 2
INVARIANTS NothingIsLost FollowsThePlan DrawingIsSound NeverStuck RunsOnce
CHECK_DEADLOCK FALSE
