\* Two requests and the boot thread; two users with a tool each.
SPECIFICATION Spec
CONSTANTS
  fa = fa
  fb = fb
  alice = alice
  bob = bob
  n = n
  File = {fa, fb}
  User = {alice, bob}
  Owner <- MCOwner
  Name <- MCName
  BuiltinName = {n}
  Content = {"v1", "v2", "bad", "raw"}
  Good = {"v1", "v2"}
  Undecodable = {"raw"}
  Thread = {t1, t2}
  Boot = Boot
  None = None
  Job <- MCJob
  Change <- MCChange
  Bucket0 <- MCBucket
  Supabase0 <- MCSupabase
  Files0 <- MCFiles
  MaxJobs = 2
  MaxUploads = 1
SYMMETRY ThreadSymmetry
INVARIANTS
  TypeOK
  RegistryFollowsDisk
  EtagsTellTruth
  CallsFindOwnTool
  NobodyElsesTool
  RetryFindsTool
  LocksFollowWork

  
