SPECIFICATION TimerSpec
CONSTANTS
  Impls = {i1, i2, i3, i4}
  NoImpl = NoImpl
INVARIANT TimerTypeOK
PROPERTIES RefinesOneShot ArmedWaitFires
