SPECIFICATION Spec
CONSTANTS
  Callers = {c1, c2}
  Refresher = Refresher
  Users = {u1, u2}
  Demo = Demo
  Nobody = Nobody
SYMMETRY Symmetry
INVARIANTS
  TypeOK
  SessionComplete
  LicenseArmed
  CoherentUnlessOverlap
PROPERTY ImplementsLicenseSession
