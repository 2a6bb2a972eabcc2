\* The register layer as the gateway's threads use it.
CONSTANTS
  Threads <- MCThreads
  Regs <- MCRegs
  Page <- MCPage
  Addr <- MCAddr
  Whole <- MCWhole
  ReadOnly <- MCReadOnly
  Uses <- MCUses
  Values = {0, 1}
  NoReg = "none"
  SpiFails = FALSE
SPECIFICATION Spec
INVARIANTS TypeOK RightPage
PROPERTIES Atomic
