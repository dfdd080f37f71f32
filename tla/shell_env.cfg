SPECIFICATION Spec
CONSTANTS
  Nodes <- MCNodes
  Nics <- MCNics
  Reservations <- MCReservations
  Classes <- MCClasses
  MaxDepth = 2
  Faults = 1
INVARIANTS
  LocalServices
  VnisAgree
  SameReservation
  RabbitTasks
