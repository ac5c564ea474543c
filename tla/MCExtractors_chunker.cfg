CONSTANTS
  Target = 5
  Overlap = 2
  MinTokens = 2
  Formats = {"md", "docx", "pdf", "txt"}
  Sizes = {1, 2, 7}
  MaxLevel = 2
  MaxPages = 2
  MaxLines = 5

SPECIFICATION Spec
INVARIANTS ChunksCoverTheDocument HeadingsAreHonest ThinOnlyWhereNothingFits PagesAreTheSections CodeIsText NoLineIsLost SectionsFollowTheOutline
PROPERTIES GrowthKeepsEarlierChunks
CHECK_DEADLOCK FALSE
