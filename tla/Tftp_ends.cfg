SPECIFICATION Spec
CONSTANTS
  f1 = f1
  f2 = f2
  Files = {f1}
  FileLen <- MCFileLen
  TFTP_DEFAULTSIZE_PACKET = 1
  TFTP_MAX_PACKET = 2
  FSYS_BUFLEN = 4
  MAX_TFTP_RETRIES = 1
  TFTP_REXMT = 2
  TFTP_TIMEOUT = 3
  BlockNumbers = 3
  Servers = {"plain", "full"}
  MaxRequests = 2
  MaxFaults = 1
  SeekTo = {}
  ReadSizes = {9}
PROPERTY CallsEnd
CHECK_DEADLOCK FALSE
