CONSTANTS
  w1 = w1  w2 = w2
  c1 = c1  c2 = c2
  h1 = h1  h2 = h2
  Workers <- MCWorkers
  Clients <- MCClients
  Patient <- MCPatient
  Handles <- MCHandles
  MaxPackets <- MCPackets
  NoTask = NoTask
  Nop = Nop
  NoHandle = NoHandle
  Absent = Absent
SPECIFICATION Spec
SYMMETRY MCSymmetry
INVARIANTS TypeOK OnlyHandshaked EntryLeadsHome Confidential PatientAnswered
CHECK_DEADLOCK FALSE
