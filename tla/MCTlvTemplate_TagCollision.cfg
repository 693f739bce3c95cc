CONSTANTS
  NULL = NULL
  I1 = I1
  I2 = I2
  Ints <- MCInts
  Imps <- MCImps
  Strs <- MCStrs
  MaxLinks = 2
  CallbackMultiple = TRUE
  Tmpl = "AggregationReq"
  Reminder = TRUE
  Lenient = TRUE
SPECIFICATION Spec
PROPERTY ValidAccepted
