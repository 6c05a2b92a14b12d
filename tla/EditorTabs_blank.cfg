SPECIFICATION TabsSpec
CONSTANTS
  f1 = f1
  f2 = f2
  f3 = f3
  Keys = {f1, f2, f3}
  NoKey = NoKey
  Saved <- SavedTabs
INVARIANT ActiveTabShows
CHECK_DEADLOCK FALSE
