SPECIFICATION FairSpec
CONSTANTS
  t1 = t1
  t2 = t2
  t3 = t3
  Transports = {t1, t2, t3}
  Multicast = {t2}
  PassThrough = {}
  Control = {t3}
  EndpointOf <- MCEndpointOf
  BindPort <- MCBindPort
  LowPort = 1
  HighPort = 2
  EphemeralPorts = {3}
  Fds = {0, 1, 2}
  None = None
  ITERATION_THRESHOLD = 1
  MaxEntries = 2
INVARIANTS
  BoundPortsReserved
  ReservationsBound
  EventsFindTheirEntry
PROPERTY
  EveryDatagramRead
