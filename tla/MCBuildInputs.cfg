SPECIFICATION Spec
CONSTANTS
  Targets <- MCTargets
  Generators <- MCGenerators
  MaxEdits = 3
  Missing = Missing
INVARIANTS
  TypeOK
  DefinesShared
  EditsTakeEffect
  BindingsWhole
CHECK_DEADLOCK FALSE
