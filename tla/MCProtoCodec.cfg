CONSTANTS
  Width = 15
  TagWidth = 8
  Messages1 <- MCMessages1
  Messages2 <- MCMessages2
  RawTypes = {"MsgMintResponse", "MsgMint", "QueryParamsResponse"}
  RawBytes <- MCRawBytes
  MaxCut = 16
  Alphabet = {1, 10, 11, 12, 13, 127, 255}
  RawLength = 5
SPECIFICATION Spec
INVARIANTS InBounds RoundTrip ConcatenationMerges TruncationDetected
PROPERTY Progress
