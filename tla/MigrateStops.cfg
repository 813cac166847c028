\* A database moves to and fro; commands and Jobs stop half-way.
CONSTANTS
  j1 = j1 a = a b = b n1 = n1 n2 = n2 NoVal = NoVal
  Nodes = {n1, n2}
  Writes = {a, b}
  BackupJobs = {j1}
  MaxKey = 3
  Disturbances = {"abort", "jobfail", "linger"}
SPECIFICATION Spec
SYMMETRY Symmetry
INVARIANTS TypeOK 
PROPERTIES TeardownAfterBackup 
