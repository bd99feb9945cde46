\* A key that is queued and one that toggles the text; two presses, a queue of
\* one key, one disk and two sideloads.
CONSTANTS
    Keys = {"power", "home"}
    ToggleKeys = {"home"}
    QueueMax = 1
    MaxPresses = 2
    MaxChanges = 1
    MaxSessions = 2
SPECIFICATION FairSpec
INVARIANTS NoStaleCancel LongPressOwn
 
