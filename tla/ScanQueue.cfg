\* Two libraries, both of them scheduled: requests, sweeps, failures and a crash.
CONSTANTS
  la = la  lb = lb
  Library = {la, lb}
  Rank <- ByLetter
  Scheduled = {la, lb}
  NoKey = NoKey
  NoJob = NoJob
  Period = 1
  RetryLimit = 2
  MaxFail = 2
SPECIFICATION FairSpec
INVARIANTS WantedIsQueued
PROPERTIES RequestIsHonoured
