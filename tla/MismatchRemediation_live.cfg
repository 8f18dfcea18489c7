CONSTANTS
    Sessions = {s1}
    Commands = {c1, c2}
    NoCommand = NoCommand
    MayCrash = FALSE
SPECIFICATION FairSpec
PROPERTY
    CommandsFinish
