CONSTANTS
  Downloads = {d1}
  Shards = {1, 2, 3}
  MinShards = 2
  Hosts = {h1, h2, h3}
  Unset = Unset
  Outsider = Outsider
  Nobody = Nobody
SPECIFICATION FairSpec
INVARIANTS
  ResultIsRight
PROPERTIES
  DownloadReturns
