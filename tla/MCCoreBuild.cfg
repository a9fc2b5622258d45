CONSTANTS
  None = None
  Files <- MCFiles
  Versions <- MCVersions
  Trees <- MCTrees
  Binaries <- MCBinaries
  Places <- MCPlaces
  BuildEnvs <- MCAllEnvs
  Builds = {b1, b2}
  MaxOutside = 2
SYMMETRY MCSymmetry
SPECIFICATION BuildSpec
INVARIANTS BuildTypeOK
PROPERTIES LoadedCoreIsSound BuildEndsClean
