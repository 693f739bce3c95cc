CONSTANTS
  NULL = NULL
  MaxLevel <- MCMaxLevel
  CalLevel <- MCCalLevel
  Atoms <- MCAtoms
  Hashes <- MCHashes
  Inject <- MCInject
  Times <- MCTimes
  LevelCorrections <- MCLevelCorrections
  Genuine <- MCGenuine
  Signed <- MCSigned
  RoundRoot <- MCRoundRoot
  MaxEdits = 0
  SuccessResetsStatus = TRUE
SPECIFICATION ExtSpec
PROPERTY ExtendedReparses
