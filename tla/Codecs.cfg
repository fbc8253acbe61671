\* Length_Low wraps after 64 bytes, Length_High after 128
CONSTANTS
  Letters = {"a"}
  MaxName = 3
  Targets = {"node", "gone"}
  LowLimit = 512
  HighLimit = 2
  Portions = {0, 1, 9, 25}
  MaxMessage = 130
  Sources <- MCSources
  Encodings <- MCEncodings
  Targets64 = {1, 3, 4, 5, 8, 9, 12}
  Texts <- MCTexts
  Lengths <- MCLengths
  Answers <- MCAnswers
SPECIFICATION CodecsSpec
INVARIANTS
  EventsAreRead
  OnlyEventsPass
  DigestIsStandard
  CorruptedIsNoticed
  Base64RoundTrip
  DecodingStays
  ValidIsWellFormed
  HeadersReadBack
  AcceptIsStandard
