SPECIFICATION Spec
CONSTANTS
  Procs = {p1, p2, p3}
  Versions = {"dev", "old", "rc9", "rc10"}
  NoVersion = "no version"
  Parse <- MCParse
  Rank <- MCRank
  Binaries = {"devbin", "old", "rc9", "rc10", "arm", "unsigned", "misbuilt"}
  NoBinary = "no binary"
  Ver <- MCVer
  Witness <- MCWitness
  Signed = {"old", "rc9", "rc10", "arm", "misbuilt"}
  HostBuilds = {"devbin", "old", "rc9", "rc10", "unsigned", "misbuilt"}
  Jobs <- MCJobs
  MaxCrashes = 1
  MaxOutside = 1
SYMMETRY MCSymmetry
INVARIANTS
  TaskRunnable
PROPERTIES
  NeverLowered
  SelectedVersion
  UninstallFinal
