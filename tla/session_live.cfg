SPECIFICATION WireSpec
CONSTANTS
  Callers = {c1}
  Refresher = Refresher
  Users = {u1}
  Demo = Demo
  Nobody = Nobody
  Arrangements <- ThreeOrders
  Lives <- ShortAndLong
INVARIANT AskedAgainInTime
PROPERTIES
  WireImplementsSession
  DueTokenHandled
  LossOfLicenseNoticed
