CONSTANTS
  Publishers = {p1, p2}
  Uploads = {"first", "second", "other", "bad"}
  Upload <- DistinctUpload
  Impatient = {}
  Names = {1, 2}
  Versions = {"v1", "v2"}
  Contents = {"x", "y", "z"}
  Torn = Torn
  NoFile = NoFile
  Fetchers = {"g2"}
  Wanted <- OneFetchesOnePulls
  FromPull = FromPull
  MaxAttempts <- RetryFirst
  MaxFaults = 1
SPECIFICATION FairRegistrySpec
CHECK_DEADLOCK FALSE
INVARIANTS RegistryTypeOK OneLatestPerName ArtifactHasItsFile EtagMatchesBytes PublishedIsRegistered PublishInv FilesInv
PROPERTIES PublishesAreAtomic PublishesEnd GatewaysCatchUp
