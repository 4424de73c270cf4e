SPECIFICATION Spec
CONSTANTS
  Stages = {"Update"}
  Kinds <- RegisteredKinds
  Own <- OwnDescriptors
  MaxSystems = 1
  MaxCommands = 1
  MaxEvents = 0
PROPERTY DeferredApplied
