-------------------------------- MODULE MCLog --------------------------------
(* The logger with the KSI_LOG_* levels numbered in their order, messages   *)
(* at ERROR and DEBUG, and TRACE, which KSI_LOG_init refuses as a level.   *)
EXTENDS Log

MCCallLevels == {ERROR, DEBUG, TRACE}
MCNames == {"-", "a.log"}
=============================================================================
