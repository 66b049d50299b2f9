SPECIFICATION Spec
CONSTANTS
  Main = Main
  Callers = {r1, r2}
  MaxCred = 3
  MaxStarts = 2
  MaxFaults = 1
  Faults = {"open", "write", "sync", "rename", "chmod", "reply", "blank", "power"}
SYMMETRY Symmetric
INVARIANTS IdentityInv IdentityStable TokenNotWasted CredentialCurrent
PROPERTY ImplementsRegister
CHECK_DEADLOCK FALSE
