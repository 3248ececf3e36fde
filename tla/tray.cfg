SPECIFICATION FairSpec
CONSTANTS
  Trays = {c1}
  Principals = {Demo, u1}
  Nobody = Nobody
INVARIANT TypeOK
PROPERTIES ActsForShownUser WindowCatchesUp WindowResponds
