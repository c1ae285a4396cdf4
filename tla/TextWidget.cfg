SPECIFICATION FairSpec
CONSTANTS
  MaxVariables = 2
  Functions <- Arity
  Layouts <- All
  Starts <- MCStarts
  Words <- MCWords
  Colons <- MCColons
  Section <- MCSection
  Places <- MCPlaces
  Classes <- MCClasses
  MAX_WIDGETS = 3
  LAYERS = 2
  Findings <- Found
  MaxUpdates = 2
  MaxChanges = 1
INVARIANTS TypeOK ShowsValue
PROPERTIES MeansWhatItSays EndsAreShown
CHECK_DEADLOCK FALSE
