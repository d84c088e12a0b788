\* Three devices and two types build vectors of six entries: an insertion index
\* of span 3 is exact up to four entries and wraps beyond.
SPECIFICATION Spec
CONSTANTS
  Types <- MCTypes
  EnabledTypes <- MCEnabledTypes
  SystemResource <- MCSystemResource
  Devices = {host, arm, camera}
  Host = host
  NoDevice = NoDevice
  Levels <- MCLevels
  Messages = {"NOERROR"}
  IndexSpan = 3
INVARIANTS KeysUnique TypesAscend HostEntryIsLast
PROPERTIES EntriesKeepTheirOrder ImplementsMap
