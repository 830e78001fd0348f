SPECIFICATION FairSpec
CONSTANTS
  Typed <- Runs
  Pasted <- Pastes
  Moves <- MoveKeys
  Deletes <- DeleteKeys
  Spaces <- Blanks
  Null = Null
  Valid <- Invoices
  CharLimit = 3
INVARIANT
  TypeOK
PROPERTIES
  WhatIsEnteredIsShown
  QuitKeyQuits
CHECK_DEADLOCK FALSE
