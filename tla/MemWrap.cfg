CONSTANTS
  NumStores = 4
  Addr = {0, 1}
  Word = {0, 1}
SPECIFICATION WrapSpec
PROPERTY LoadFindsBuffered
