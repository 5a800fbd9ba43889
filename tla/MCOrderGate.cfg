\* One plugin's verdicts on an order of three versions.
CONSTANTS
    Plugins = {p1}
    MaxVersion = 3
SPECIFICATION FairSpec
INVARIANTS TypeOK AskedWhileProposed
PROPERTIES NeverReleasedUngated AwaitsUntilAnswered 
