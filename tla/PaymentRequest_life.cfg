\* Requests of this package and of other implementations, read and written.
SPECIFICATION Spec
CONSTANTS
  Encode <- SmallEncode
  Decode <- SmallDecode
  Values <- SmallValues
  OtherData <- SmallOther
  HashSize = 2
  Parts <- SmallParts
  Zero = 0
  LongTexts = {"long"}
  Sha256 <- SmallSha256
  Unknown = {"?"}
  Absent = Absent
  ZeroKey = ZeroKey
  Error = Error
  Skip = Skip
  Defaults <- SmallDefaults
  OtherInvoice <- Required
  Writers = {"lnpilot", "other"}
  MaxOptions = 3
  MaxExtra = 3
  MaxRounds = 1
INVARIANTS TypeOK EveryValueIsListed OneDescription RoundTrip OwnInvoiceIsAccepted
  LastOccurrenceCounts FieldOrderSurvives
CHECK_DEADLOCK FALSE
