SPECIFICATION Spec
CONSTANTS
  Names <- MCNames
  Tree <- MCTree
  Kind <- MCKind
  Candidates <- MCCandidates
  Realpath <- MCRealpath
  Nowhere <- MCNowhere
  Php <- MCPhp
  Omitted <- MCOmitted
  Unscanned <- MCUnscanned
  Cropped <- MCCropped
  Roots <- TopRoot
  Metadata <- TopMetadata
INVARIANT
  OmitsTestTrees
