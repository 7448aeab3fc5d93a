CONSTANTS
  x = x
  y = y
  Caller = {x, y}
  Epoch = 3
  AllowNonRegistered = FALSE
  ForcePermit = TRUE
  MayHappen = {"exit", "raise", "sick", "replace"}
SPECIFICATION FairSpec
INVARIANTS TypeOK ServesWhileLooping
PROPERTIES StopsWhenAsked PermittedCallersAreServed
