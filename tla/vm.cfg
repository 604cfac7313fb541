SPECIFICATION MCSpec
CONSTANTS
  InitCommands = 1
  MaxRetransmits = 2
  MaxProbes = 1
  NetLimit = 2
  Contacts = {c1, c2}
  NoContact = noContact
  MaxRegisters = 2
  QueueLimit = 3
INVARIANTS BackendSafe
PROPERTIES LeadsLife SipHolds VmSettles
CHECK_DEADLOCK FALSE
