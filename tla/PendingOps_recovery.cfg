SPECIFICATION Spec
CONSTANT Scopes <- AllScopes
INVARIANTS StackExact ReplayEquivalent SurvivorsCarryTheRest RecoveryExact
CHECK_DEADLOCK FALSE
