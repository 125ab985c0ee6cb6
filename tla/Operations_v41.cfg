SPECIFICATION Spec
CONSTANTS
    Version = 41
    Operation = {"ping", "get", "getWithMetadata", "containsKey", "put", "putIfAbsent",
                 "replace", "remove", "removeWithVersion", "replaceWithVersion"}
    MaxCalls = 3
INVARIANTS
    TakesItsOwnBody
    EntryIsThePreviousOne
    TrueMeansDone
    StoredAsAsked
CHECK_DEADLOCK FALSE
