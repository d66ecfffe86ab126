CONSTANTS
    Endpoints = 1
    MaxHeight = 3
    Depth = 1
    IndexLag = 1
    Timeout = 1
    Modes <- OutageOnly
SPECIFICATION Spec
PROPERTIES
    OnlyPersistentFailureSkips
