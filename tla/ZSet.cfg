SPECIFICATION Spec
CONSTANTS
    Member <- MCMember
    Score = {1, 2}
INVARIANTS
    TreeExact
    QueriesExact
PROPERTIES
    ImplementsSortedMap
