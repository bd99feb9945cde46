\* A device that dies between clearing the BCB and unlinking the command file.
CONSTANTS
    Commands <- MCUpdateWipe
    BcbArgs = 3
    MiscIsMtd = FALSE
    PackageWipes = FALSE
    MultiStage = FALSE
    MenuChoices = {"reboot"}
    MaxCommands = 2
    MaxCrashes = 1
    MaxErrors = 0
SPECIFICATION Spec
PROPERTY NoSurpriseWipe
