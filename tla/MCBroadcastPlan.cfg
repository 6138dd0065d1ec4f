SPECIFICATION Spec
CONSTANTS
    MaxChanges = 2
    MaxGrants = 2
    MaxToggles = 2
    MaxDrops = 1
INVARIANTS TypeOK PlanConverges RelayIsAuthorized NoChildLeftBehind
CHECK_DEADLOCK FALSE
