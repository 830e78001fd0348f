SPECIFICATION Spec
CONSTANTS
  Encode <- SmallEncode
  Decode <- SmallDecode
  Values <- SmallValues
  OtherData <- SmallOther
  HashSize = 2
  Parts <- SmallParts
  Zero = 0
  LongTexts = {"long"}
  Sha256 <- SmallSha256
  Unknown = {"?"}
  Absent = Absent
  ZeroKey = ZeroKey
  Error = Error
  Skip = Skip
  Defaults <- SmallDefaults
  OtherInvoice <- Required
  Writers = {"other"}
  MaxOptions = 0
  MaxExtra = 1
  MaxRounds = 1
INVARIANTS PayeeKeyIsSet
CHECK_DEADLOCK FALSE
