CONSTANTS
  Staff = {ann, tom}
  SelfScoped = {tom}
  Technicians = {tom}
  Images = {photo}
  SlaHours = {0, 1}
  NumCases = 1
  MaxChanges = 4
  MaxInFlight = 2
  MaxClock = 2
  MaxFaults = 1
SPECIFICATION Spec
CHECK_DEADLOCK FALSE
INVARIANTS TypeOK HistoryIsSupported SlaAgreesWithCase TechnicianIsTold PhotosAreAccounted
