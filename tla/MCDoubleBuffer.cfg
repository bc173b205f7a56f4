SPECIFICATION BufferSpec
CONSTANT
  Wrap = 5
INVARIANTS
  BufferTypeOK
  SomeoneReleases
  ExactUnlessOverlapped
PROPERTY
  KeepsShowing
