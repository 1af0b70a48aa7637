SPECIFICATION MCSpec
CONSTANTS
    brick = brick
    curtain = curtain
    Broken = Broken
    Size = 3
    Ids = {1, 2}
    Presets = {brick, curtain}
    Blocks <- BlocksDef
    Quarters <- QuartersDef
    Cutoff <- CutoffDef
    OpenAir = 8
    MaxSteps = 1
    MaxSent = 2
    MaxNews = 1
    MaxBuilt = 2
    MaxWalked = 1
INVARIANTS
    IndexIsExact
    QuietPagesAgree
    EarsAgreeWithFeet
PROPERTIES
    WalkersStopAtWalls
