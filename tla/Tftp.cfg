SPECIFICATION Spec
CONSTANTS
  f1 = f1
  f2 = f2
  Files = {f1, f2}
  FileLen <- MCFileLen
  TFTP_DEFAULTSIZE_PACKET = 1
  TFTP_MAX_PACKET = 2
  FSYS_BUFLEN = 4
  MAX_TFTP_RETRIES = 1
  TFTP_REXMT = 2
  TFTP_TIMEOUT = 3
  BlockNumbers = 5
  Servers = {"plain", "blksize", "full", "bad", "missing", "stray"}
  MaxRequests = 2
  MaxFaults = 1
  SeekTo = {0}
  ReadSizes = {4}
INVARIANT StoredIsFile
PROPERTIES RefinesFileService
CHECK_DEADLOCK FALSE
