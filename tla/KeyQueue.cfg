CONSTANTS
  Power = Power
  VolDown = VolDown
  Repeatable <- MCRepeatable
  TextStates <- MCTextStates
  QueueMax = 4
  Rounds = 2
  MaxEvents = 6
  Scroll = Scroll
  Flings <- MCFlings
  Up = Up
  Down = Down
  RelSteps <- MCRelSteps
  MenuTop = 1
  MaxMenuRows = 3
  MenuMaxRows = 8
  MenuLists <- MCMenuLists
  Jumps <- MCJumps
SPECIFICATION Spec
INVARIANT TypeOK
INVARIANT SelectionShown
INVARIANT WindowInList
PROPERTY PressAnswered
CHECK_DEADLOCK FALSE
