SPECIFICATION TransferSpec
CONSTANTS
  WordSize = 65536
  Ams = {0, 1, 2, 5, 9, 10, 11, 99, 100, 101, 999, 1000, 4096, 16384}
  MaxDigits = 2
  Base = 2
  AddressDigits = 2
  TextDigits = {1, 2, 3}
  TextValues = {1, 2, 5}
  MaxReviews = 1
  MaxLogs = 2
  Sampled = {99, 100}
INVARIANTS WorthTheSame SplitPaysNoMore TooSmallIsNothing OwnTransferRecognised RecognisedLooksMoved
