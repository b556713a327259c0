CONSTANTS
  u1 = u1
  u2 = u2
  u3 = u3
  i1 = i1
  i2 = i2
  i3 = i3
  n1 = n1
  n2 = n2
  a1 = a1
  a2 = a2
  a3 = a3
  a4 = a4
  k1 = k1
  k2 = k2
  k3 = k3
  f1 = f1
  f2 = f2
  f3 = f3
  d1 = d1
  d2 = d2
  d3 = d3
  d4 = d4
  None = None
  Downloads <- MCDownloads
  AssetOf <- MCAssetOf
  SizeOf <- MCSizeOf
  MaxServes = 2
  MaxReads = 1
  MaxCacheBytes = 2
  MaxEntries = 2
  MaxFileBytes = 2
  Uploads <- MCUploads
  Images <- MCImages
  Assets <- MCAssets
  Workloads <- MCWorkloads
  KeyOf <- MCKeyOf
  FileOf <- MCFileOf
  Parent <- MCParent
  Covered = {k2}
  MaxBody = 3
  MaxInflightBody = 4
  MaxImage = 2
  MaxInflightImage = 3
  MaxActive = 2
  MaxHashes = 1
  MaxPendingHashes = 2
  MaxMemoized = 1
SPECIFICATION Spec
INVARIANTS CountersBalance NoIdleCapacity
PROPERTIES EveryoneAnswered
CHECK_DEADLOCK FALSE
