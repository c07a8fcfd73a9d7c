SPECIFICATION FairSleepSpec
CONSTANTS
  NCoro = 5
  NULL = NULL
INVARIANTS
  ListsTellStates
  SleepersQueued
PROPERTIES
  ImplementsStack
  WokenInOrder
  EverySleeperWakes
