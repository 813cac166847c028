\* The claim FreshestIsOurs, refuted.
CONSTANTS
  j1 = j1 j2 = j2 a = a b = b n1 = n1 n2 = n2 NoVal = NoVal
  Nodes = {n1, n2}
  Writes = {a, b}
  BackupJobs = {j1, j2}
  MaxKey = 2
  Disturbances = {"overlap"}
SPECIFICATION Spec
SYMMETRY Symmetry
PROPERTY FreshestIsOurs
