SPECIFICATION Spec
CONSTANTS
  ByteBits = 4
  GroupBits = 3
  WordBits = 8
  CltvBits = 4
  Second = 6
  FirstUnknown = 6
  HeightBits = 3
  TxBits = 3
  OutBits = 2
  FeeBytes = 1
  PpmBytes = 1
  DeltaBytes = 1
  Points <- FewKeys
  KeyBytes = 2
  HashBytes = 2
  HashSize = 2
  ProgramSizes <- Sizes
  V0Sizes <- V0
  MaxVersion = 4
  P2PKH = 5
  P2SH = 6
  Absent = Absent
  TimestampGroups = 2
  LengthGroups = 2
  SignatureGroups = 2
  Type <- SmallTypes
  OwnRequests <- Requests
  OtherParts <- Parts
  Signatures <- OneSignature
  MaxRounds = 2
INVARIANTS
  TypeOK
  ValuesSurvive
  OwnIsAccepted
  ReadCanBeWritten
  NoLeadingZeros
PROPERTY
  ReadIsRepresentable
CHECK_DEADLOCK FALSE
