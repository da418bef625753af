SPECIFICATION EpisodesSpec
CONSTANTS
    a = a
    b = b
    Actions = {a, b}
    Unnamed = Unnamed
    MaxRows = 5
    MaxRare = 1
    MaxEpisodes = 2
SYMMETRY Symmetry
CHECK_DEADLOCK FALSE
INVARIANTS GrantIsTheLastWord OneOpenEpisode SupportIsCurrent
PROPERTY RevokedForGood
