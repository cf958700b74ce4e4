SPECIFICATION TimerPicSpec
CONSTANTS
  s1 = s1
  s2 = s2
  Thread <- MCThread
  WORD = 10
  SECOND = 4
  frequency = 4
  Duration <- MCDuration
  Irq = {0, 6, 8}
  Firmware <- MCFirmware
  NoVector = NoVector
INVARIANTS
  NothingLeftInService
PROPERTY SleepLongEnough
