SPECIFICATION Spec
CONSTANTS
  Stages = {"Update"}
  Kinds <- RegisteredKinds
  Own <- OwnDescriptors
  MaxSystems = 3
  MaxCommands = 2
  MaxEvents = 2
CONSTRAINT FewSteps
INVARIANTS
  FlushOrdered
  PlanCovers
PROPERTIES
  EventsCommitted
