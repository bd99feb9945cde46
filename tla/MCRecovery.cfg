\* Three commands, two power losses and two failures, the whole menu.
CONSTANTS
    Commands <- MCCommands
    BcbArgs = 3
    MiscIsMtd = FALSE
    PackageWipes = TRUE
    MultiStage = TRUE
    MenuChoices = {"reboot", "wipe_data", "wipe_cache", "wipe_media", "other"}
    MaxCommands = 3
    MaxCrashes = 2
    MaxErrors = 2
SPECIFICATION FairSpec
PROPERTIES  NoSpuriousError NoSurpriseWipe ReachesUser
