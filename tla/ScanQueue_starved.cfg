\* Two libraries on the shortest schedule allowed.
CONSTANTS
  la = la  lb = lb
  Library = {la, lb}
  Rank <- ByLetter
  Scheduled = {la, lb}
  NoKey = NoKey
  NoJob = NoJob
  Period = 3
  RetryLimit = 3
  MaxFail = 0
SPECIFICATION FairSpec
PROPERTIES DueIsScanned
