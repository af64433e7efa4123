SPECIFICATION Spec
CONSTANTS
    Startups <- Everything
    Terminals <- Sizes
    PreviewChoices <- SomeChoices
    MaxPreview = 4
    MaxLines = 1
CHECK_DEADLOCK FALSE
INVARIANTS SectionsApart SectionsWhole AllFit
PROPERTIES PressKeepsSize PreviewToggles
