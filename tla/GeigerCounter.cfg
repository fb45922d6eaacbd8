SPECIFICATION Spec
CONSTANTS
  httpd = httpd
  Readers = {httpd}
  Slots = 3
  U16 = 3
  U32 = 5
  BootTicks = 1
INVARIANTS
  CpmIsSomeWindow
  ReadIsAtomic
  ReadMixesTwoWindows
  ReportsFilledWindow
PROPERTY
  ImplementsWindow
