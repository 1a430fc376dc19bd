\* Two files, dumped, loaded and overwritten, crashes at any point.
SPECIFICATION Spec
CONSTANTS
  Files = {f1, f2}
  Values <- SomeValues
  None = None
  Swept = Swept
  Streams = {1, 2}
  MaxCount = 2
  Allowed = {}
INVARIANTS TypeOK StreamsClosed
PROPERTIES PromisedSpec SessionsSaved LoadsReturn
