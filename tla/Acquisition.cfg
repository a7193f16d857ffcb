SPECIFICATION FairSpec
CONSTANTS
  Listings <- MCListings
  PageSize = 1
  MaxPages = 2
  MaxTries = 2
  MaxBlocks = 3
  Names <- MCNames
  Released <- MCReleased
  Folder <- MCFolder
  Running <- V0
  Bases <- MCBases
  None = None
INVARIANTS SearchAnswers HonestSourceServes 
PROPERTY AcquisitionEnds
