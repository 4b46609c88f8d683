SPECIFICATION Spec
CONSTANTS
  Paths = {p1, p2}
  Busy = {p1}
  Workers = {w1, w2}
  Tickets = {t1}
  Batches = {b1}
  Settings <- MCSettings
  TTL = 1
  DbFails = FALSE
  MaxEvents = 4
INVARIANTS OwnContent BatchOnce TicketOnce
PROPERTIES AbsentLately
SYMMETRY Symmetry
