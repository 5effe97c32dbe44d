SPECIFICATION Spec
CONSTANTS
  a = a
  b = b
  boot = boot
  uart = uart
  other = other
  NULL = NULL
  Dev <- MCDev
  Uart <- uart
  Task <- MCTask
  Boot <- boot
  Names <- MCNames
  UartName <- MCUartName
  Mode <- MCMode
  RefWrap = 8
  MaxOpens = 2
  Serial = TRUE
INVARIANTS
  RefCountsOpens
  UsableWhileOpen
  DriverOpenWhenUsed
  NamesUnique
