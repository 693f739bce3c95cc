CONSTANTS
  NULL = NULL
  I1 = I1
  I2 = I2
  Ints <- MCInts
  Imps <- MCImps
  Strs <- MCStrs
  MaxLinks = 2
  CallbackMultiple = TRUE
  Tmpl = "ExtendReq"
  Reminder = TRUE
  Lenient = FALSE
SPECIFICATION Spec
INVARIANT TypeOK
PROPERTIES ValuesPreserved DuplicateRejected
