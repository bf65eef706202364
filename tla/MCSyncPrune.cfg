\* One request at a time, among them a sync for one user; nobody uploads.
SPECIFICATION Spec
CONSTANTS
  fa = fa
  fb = fb
  alice = alice
  bob = bob
  n = n
  File = {fa, fb}
  User = {alice, bob}
  Owner <- MCOwner
  Name <- MCName
  BuiltinName = {n}
  Content = {"v1", "v2", "bad", "raw"}
  Good = {"v1", "v2"}
  Undecodable = {"raw"}
  Thread = {t1}
  Boot = Boot
  None = None
  Job <- MCJob
  Change <- MCChange
  Bucket0 <- MCBucket
  Supabase0 <- MCSupabase
  Files0 <- MCFiles
  MaxJobs = 2
  MaxUploads = 0
INVARIANT
  OnlyOrphansGo
