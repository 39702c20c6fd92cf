SPECIFICATION Spec
CHECK_DEADLOCK FALSE
CONSTANTS
  tvId = tvId
  ampId = ampId
  TV = TV
  tele = tele
  noSlug = noSlug
  bare = bare
  full = full
  None = None
  NoSlug = noSlug
  Names = {TV, tele}
  Rests = {bare, full}
  Bare = bare
  Slug <- MCSlug
  Stored <- MCStored
  Foreign <- MCForeign
  MaxOpen = 2
  MaxClicks = 2
  MaxOthers = 1
  MaxLosses = 1
INVARIANTS TypeOK UniqueIds CopiesAgree
