CONSTANTS
    Defs <- TheDefs
    Fields <- TheFields
    Minute = 6
    Wait = 3
    MaxDelay = 1
    MaxClock = 19
SPECIFICATION FairSpec
INVARIANTS RoundFiresAll CronAsDenoted
PROPERTIES MinuteCovered DestructorEnds
CHECK_DEADLOCK FALSE
