\* Two volumes, two threads (main, and the input thread, which sends commands
\* when the reboot key is pressed), a disk coming or going, a death of vold.
CONSTANTS
    Volumes = {sd, usb}
    Main = main
    Threads = {main, input}
    Monitor = monitor
    NoVolume = NoVolume
    MaxOps = 2
    MaxEvents = 1
    MaxLosses = 1
SPECIFICATION FairSpec
INVARIANTS ReturnsAnswered ListAccurate
PROPERTIES LoneCommandsReturn
