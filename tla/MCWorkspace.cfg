CONSTANTS
  Texts = {t1}
  NoText = NoText
  MaxVersion = 2
SPECIFICATION FairSpec
INVARIANTS
  TypeOK
  TabAgrees
PROPERTIES
  BusyEnds
