SPECIFICATION FairCoordSpec
CONSTANTS
    MaxExtensions = 1
PROPERTIES
    UnansweredRequestStands
