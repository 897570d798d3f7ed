SPECIFICATION Spec
CONSTANTS
    Events = {e1, e2}
    Scopes = {0, 1}
    Outside = 0
    MaxAttempts = 2
    MaxPending = 3
    MaxRules = 1
    MaxTransient = 1
INVARIANTS ToldOnce RulesFirst
PROPERTIES EventsTold ForcesResume
