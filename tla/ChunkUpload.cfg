CONSTANTS
  Uploads = {u1}
  Shards = {1, 2}
  MinShards = 1
  Hosts = {h1, h2, h3}
  OldHosts = {o1}
  Unset = Unset
  Outsider = Outsider
  Nobody = Nobody
SPECIFICATION FairSpec
INVARIANTS
  OneShardPerHost
  CompleteOnSuccess
  NothingLeftBehind
PROPERTIES
  UploadReturns
