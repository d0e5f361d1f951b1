\* Two servers, three instants, two calendars.
CONSTANTS
    Servers = {v1, v2}
    Crons <- TwoCrons
    Horizon = 2
    MaxRevisions = 4
    MaxManual = 1
    MaxFaults = 1
    MaxMoves = 2
SPECIFICATION FairScheduleSpec
INVARIANTS OncePerInstant RunOrPaused ArchivedQuiet
PROPERTY DueHandled
CHECK_DEADLOCK FALSE
