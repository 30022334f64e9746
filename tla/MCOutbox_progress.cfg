SPECIFICATION FairOutboxSpec
CONSTANTS
  r1 = r1  r2 = r2  audit = audit  email = email
  Events = {1, 2}
  HandlerNames = {audit, email}
  HandlersOf <- EmailOnly
  SingleWrite = {audit}
  Relays = {r1}
  BatchLimit = 2
  MaxAttempts = 2
  MaxFaults = 2
  MaxCrashes = 1
PROPERTIES EveryEventIsProcessed
CHECK_DEADLOCK FALSE
