CONSTANTS
  Publishers = {p1}
  Uploads = {"first", "again"}
  Upload <- RepeatedUpload
  Impatient = {"first"}
  Names = {1}
  Versions = {"v1"}
  Contents = {"x", "y"}
  Torn = Torn
  NoFile = NoFile
  Fetchers = {"g1"}
  Wanted <- OneFetchesOnePulls
  FromPull = FromPull
  MaxAttempts <- RetryFirst
  MaxFaults = 0
SPECIFICATION RegistrySpec
CHECK_DEADLOCK FALSE
INVARIANTS EtagMatchesBytes
