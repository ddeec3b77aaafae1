\* One phone, two files of one mission; reloads, failed reads of the store, lost requests.
SPECIFICATION LiveSpec
CONSTANTS
  s = s  None = None
  Tasks <- OneTask
  MaxFiles = 2  MaxFaults = 3  MaxReturns = 2
INVARIANTS WaitingFileIsKept NewestOwns
PROPERTIES EveryFileSettles
CHECK_DEADLOCK FALSE
