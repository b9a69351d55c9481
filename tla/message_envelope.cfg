\* send_request / recv_response over one pipe, with a peer that may write
\* headers of either version or forged ones.
CONSTANTS
  p1 = p1
  p2 = p2
  Garbage = Garbage
  Payloads = {p1, p2}
  Ids = {1, 2}
  MinVersion <- MCMinVersion
  Version = 1
  HeaderTable <- MCHeaderTable
  SenderVersions = {0, 1}
  ForeignHeaders <- MCForeignHeaders
  MaxMsgs = 3
SPECIFICATION Spec
PROPERTY EnvelopeRefined
