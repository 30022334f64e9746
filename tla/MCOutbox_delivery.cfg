SPECIFICATION OutboxSpec
CONSTANTS
  r1 = r1  r2 = r2  audit = audit  email = email
  Events = {1, 2}
  HandlerNames = {audit, email}
  HandlersOf <- AuditAndEmail
  SingleWrite = {audit}
  Relays = {r1, r2}
  BatchLimit = 1
  MaxAttempts = 2
  MaxFaults = 2
  MaxCrashes = 1
SYMMETRY RelaySymmetry
INVARIANTS OutboxTypeOK
PROPERTIES ImplementsDelivery
CHECK_DEADLOCK FALSE
