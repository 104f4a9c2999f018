SPECIFICATION ListSpec
CONSTANTS
  Commands <- MCCommands
  CodeOrder <- MCCodeOrder
  HashOrder <- MCHashOrder
  Routines = {r1, r2}
  NULL = NULL
  Other = Other
  Posted = {"START", "USER_CODE"}
  Modulus = 16
SYMMETRY RoutineSymmetry
INVARIANTS ListTypeOK CountExact RegistrationTakes
