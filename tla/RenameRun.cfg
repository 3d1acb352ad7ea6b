CONSTANTS
    Names <- MCNames
    Width <- MCWidth
    MaxDepth = 2
    Protected = 0
    Foreign = {foreign}
    Nowhere = Nowhere
    Trees <- MCTrees
    RowLists <- MCRowLists
    Grounds <- MCGrounds
    MaxMishaps = 1
SPECIFICATION Spec
CHECK_DEADLOCK FALSE
INVARIANTS
    TypeOK
    TranslationsTrue
    AcceptedPlansRun
    NothingLeftToRename
    LinksFollow
    HistoryFits
    FindingsMapBack
PROPERTIES
    NoFileReplaced
