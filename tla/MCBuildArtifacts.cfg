CONSTANTS
  Abis64 = {"arm64-v8a"}
  Abis32 = {"x86"}
  ResFiles = {"f", "g"}
  Resources = {"icon"}
  Needed <- MCNeeded
  System = {"liblog.so"}
  InNdk = {"libc++_shared.so"}
  MaxVersion = 1
  MaxRuns = 3
  MaxFailures = 2
  Remote = {"r"}
  Local = {"l"}
  Modules = {"m", "n"}
  Jobs <- MCJobs
  MaxBuilds = 2
SPECIFICATION MCSpec
INVARIANT TypesOK
INVARIANT CacheIsWhole
INVARIANT IncludesAreComplete
INVARIANT ApkIsExact
INVARIANT BlockedOnlyAfterFailure
