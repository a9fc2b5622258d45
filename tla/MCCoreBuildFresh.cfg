CONSTANTS
  None = None
  Files <- MCFiles
  Versions <- MCVersions
  Trees <- MCTrees
  Binaries <- MCBinaries
  Places <- MCPlaces
  BuildEnvs <- MCPlainEnvs
  Builds = {b1}
  MaxOutside = 0
SPECIFICATION BuildSpec
INVARIANT DeletedOnlyIfBad
