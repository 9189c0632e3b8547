SPECIFICATION DeviceSpec
CONSTANTS
  Phones = {p1}
  NoPhone = NoPhone
  DeviceTries = 1
  RequestLimit = 1
CHECK_DEADLOCK FALSE
PROPERTIES
  ClaimedBeforeDispatch
