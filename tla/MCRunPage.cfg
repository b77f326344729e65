SPECIFICATION FairSpec
CONSTANTS
  Steps = 1
  MaxVersion = 1
  MaxStreams = 1
  MaxWire = 1
INVARIANTS PageTypeOK ShownOutcomeIsTrue FreshAfterEvent ListedIsDownloadable
PROPERTIES PageCatchesUp ReaderComesBack
