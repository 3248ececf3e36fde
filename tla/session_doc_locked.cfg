SPECIFICATION ServerSpec
CONSTANTS
  Callers = {c1, c2}
  Refresher = Refresher
  Users = {u1}
  Demo = Demo
  Nobody = Nobody
INVARIANT LoggedOutMeansLocked
