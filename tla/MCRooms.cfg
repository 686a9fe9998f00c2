CONSTANTS
  Procs = {p1, p2, p3}
  Size = 2
  MaxTicket = 2
SPECIFICATION Spec
INVARIANTS TypeOK RoomExclusion ExitCodeAlone ChangeRoomNeverDies
PROPERTIES BatchesInTicketOrder EveryTicketAdmitted
CHECK_DEADLOCK FALSE
