CONSTANTS
  Subjects = {"codec", "sizes", "link", "buffers", "layers", "crc", "marks",
              "shares", "lists", "firmware", "net kex", "core kex"}
  FullBlock = 2
  Octets = {0, 1, 7}
  MaxInput = 8
  MAX_FRAME_SIZE = 4
  MaxFaults = 3
  N = 3
  Value = {1, 2}
  ENVELOPE_BLOCK_SIZE = 512
  MAX_TIMESTAMP_SKEW_MS = 5
  MaxPayload = 4200
  MaxBytes = 14
  MAX_CANARY_BITS = 4
  MaxText = 6
  SecretBytes = {0, 90, 255}
  Coefficients = {3, 129}
  MaxShares = 3
  Keys = {k1, k2}
  MaxEntries = 3
  MaxReason = 2
  Images = {i1, i2}
  DeviceKey = k1
  MaxVersion = 1
  MaxPairs = 2
  MaxReplies = 2
  MaxHandshakes = 3
SPECIFICATION Spec
INVARIANTS TypesOK CodecsExact CredentialsExact LinkExact
PROPERTIES RingIsQueue
CHECK_DEADLOCK FALSE
