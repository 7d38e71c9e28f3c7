CONSTANTS
  UniverseSize = 2
  Footprints = {1, 2}
  ConfigFootprint = 3
  Labels = {"default", "a"}
  DefaultLabel = "default"
  LabelSum <- MCLabelSum
  OtherPatterns = {}
  SubCount = 1
  SubPersonalities = 2
SPECIFICATION Spec
INVARIANTS OnePixelSource AddressAgrees OutputFollows LabelStored
PROPERTIES FactoryReset IdentifyShown
