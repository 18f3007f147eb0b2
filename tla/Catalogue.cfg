\* Four edits of two administrators, over three spellings of two slugs; three
\* prompts of two stages, activated three times.
CONSTANTS
    Handlers = {h1, h2}
    Slugs <- MCSlugs
    Spellings <- MCSpellings
    Sanitized <- MCSanitized
    Blank = ""
    MaxEdits = 4
    Stages = {stageA, stageB}
    MaxVersions = 3
    MaxActivations = 3
SYMMETRY Symmetry
SPECIFICATION CatalogueSpec
INVARIANTS
    SlugsUnique
    IdsUnique
    OneActivePerStage
    LatestActivationWins
PROPERTIES
    DeletedForGood
    
