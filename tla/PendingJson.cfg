\* Up to three pending logs out of four, previews of one or two.
CONSTANTS
  FieldSize <- MCFieldSize
  FieldMax <- MCFieldMax
  Requests <- MCRequests
  BufferSizes <- MCBufferSizes
  PreviewLimits <- MCPreviewLimits
  Capacity = 3
  MaxPosts = 4
SPECIFICATION Spec
INVARIANTS
  JsonTypeOK
  StaysInBuffer
  WholeOrError
  ReadsBack
  FailsOnlyFor
  RefusedOnlyFor
