--------------------------------- MODULE Log ---------------------------------
(***************************************************************************)
(* The logger of src/src/ksi_log.c: the level filter of writeLog, the log  *)
(* stream a KSI_CTX holds (KSI_LOG_init, closeLogFile), and the helpers    *)
(* that dump blobs, TLVs and hashes.                                       *)
(*                                                                         *)
(* What is logged is left out: a written line is its destination and its   *)
(* level.  FILE handles and heap copies of the file name are numbered from *)
(* one counter, next, so that a handle that was closed or a copy that was  *)
(* lost can be told from the one that replaced it.                         *)
(***************************************************************************)
EXTENDS Integers, Sequences

CONSTANTS
  NONE, FATAL, ERROR, WARN, INFO, DEBUG, TRACE,  \* values of KSI_LOG_*
  CallLevels,     \* levels the application passes to init and to the loggers
  Names,          \* file names passed to KSI_LOG_init ("-" is stdout)
  MaxHandles,     \* bound on the FILEs opened and the names copied
  ErrInitStatus,  \* what KSI_ERR_apply returns for an err never failed or succeeded
  NULL

ASSUME LogAssumption ==
  /\ {NONE, FATAL, ERROR, WARN, INFO, DEBUG, TRACE} \subseteq Int
  /\ NONE < FATAL /\ FATAL < ERROR /\ ERROR < WARN /\ WARN < INFO /\ INFO < DEBUG
  /\ CallLevels \subseteq Int
  /\ "-" \in Names
  /\ MaxHandles \in Nat
  /\ \A h \in 1..MaxHandles : h # NULL

VARIABLES
  ctx,    \* [level, stream, file]: logLevel, logStream and logFile of KSI_CTX
  open,   \* FILE handles open
  heap,   \* copies of file names allocated
  next,   \* the handle the next fopen or KSI_calloc returns
  out,    \* the lines the last call wrote, each [dest, level]
  res,    \* status of the last call
  last    \* the last call the application made

vars == <<ctx, open, heap, next, out, res, last>>

STDOUT == 0
Handles == 1..MaxHandles

\* Faulty variant: the upper bound of the level check left out.
ValidLevelUnbounded(lvl) == NONE <= lvl

\* The levels KSI_LOG_init accepts.
ValidLevel(lvl) == NONE <= lvl /\ lvl <= DEBUG

\* The levels a context can hold: none, or a call level init admitted.
Ctx == [level : {NONE} \cup {l \in CallLevels : NONE <= l /\ l <= DEBUG},
        stream : Handles \cup {NULL}, file : Handles \cup {NULL}]

\* A written line.
Line == [dest : Handles \cup {STDOUT}, level : CallLevels]

Codes == {"OK", "INVALID_ARGUMENT", "IO_ERROR", "UNKNOWN_ERROR", "TOSTRING_ERROR",
          ErrInitStatus}

TypeOK ==
  /\ ctx \in Ctx
  /\ open \subseteq Handles
  /\ heap \subseteq Handles
  /\ next \in 1..(MaxHandles + 1)
  /\ out \in Seq(Line)
  /\ res \in Codes \cup {NULL}
  /\ last \in {"init", "log", "logBlob", "logTlv", "logDataHash", NULL}

\* A fresh KSI_CTX: no log file, logging off.
Init ==
  /\ ctx = [level |-> NONE, stream |-> NULL, file |-> NULL]
  /\ open = {}
  /\ heap = {}
  /\ next = 1
  /\ out = << >>
  /\ res = NULL
  /\ last = NULL

-----------------------------------------------------------------------------
(***************************************************************************)
(* Writing.                                                                *)
(***************************************************************************)
\* writeLog: nothing when the context's level is below the message's, else
\* one line to the log stream, or to stdout when there is none.
WriteLog(c, lvl) ==
  IF c.level < lvl THEN << >>
  ELSE << [dest |-> IF c.stream # NULL THEN c.stream ELSE STDOUT, level |-> lvl] >>

\* KSI_LOG_trace ... KSI_LOG_fatal, and KSI_LOG_log.
LogFn(lvl) ==
  /\ out' = WriteLog(ctx, lvl)
  /\ res' = "OK"
  /\ last' = "log"
  /\ UNCHANGED <<ctx, open, heap, next>>

\* KSI_LOG_logBlob: res starts as KSI_UNKNOWN_ERROR and is returned as it
\* is when the helper's own test skips the message.
Blob(c, lvl) ==
  IF lvl < c.level THEN [out |-> << >>, res |-> "UNKNOWN_ERROR"]
  ELSE [out |-> WriteLog(c, lvl), res |-> "OK"]

LogBlob(lvl) ==
  /\ out' = Blob(ctx, lvl).out
  /\ res' = Blob(ctx, lvl).res
  /\ last' = "logBlob"
  /\ UNCHANGED <<ctx, open, heap, next>>

\* KSI_LOG_logTlv: KSI_TLV_toString may fail, and then only the line that
\* reports the failure is written, at the same level.
LogTlv(lvl, isNull, strOk) ==
  /\ IF lvl < ctx.level
       THEN out' = << >> /\ res' = "OK"
     ELSE IF ~isNull /\ ~strOk
       THEN out' = WriteLog(ctx, lvl) /\ res' = "TOSTRING_ERROR"
     ELSE out' = WriteLog(ctx, lvl) /\ res' = "OK"
  /\ last' = "logTlv"
  /\ UNCHANGED <<ctx, open, heap, next>>

\* KSI_LOG_logDataHash: a NULL hash is logged as "null", any other through
\* logBlob, and a failure of logBlob is reported by one more line.
LogDataHash(lvl, isNull) ==
  /\ IF lvl < ctx.level
       THEN out' = << >> /\ res' = "OK"
     ELSE IF isNull
       THEN out' = WriteLog(ctx, lvl) /\ res' = "OK"
     ELSE LET b == Blob(ctx, lvl) IN
          /\ out' = b.out \o (IF b.res # "OK" THEN WriteLog(ctx, lvl) ELSE << >>)
          /\ res' = b.res
  /\ last' = "logDataHash"
  /\ UNCHANGED <<ctx, open, heap, next>>

-----------------------------------------------------------------------------
(***************************************************************************)
(* The log stream.                                                         *)
(***************************************************************************)
\* closeLogFile: fclose returns 0 on success (fcloseFails is its EOF), and
\* the stream is closed either way.  The test is !fclose(...).
CloseLogFile(c, fcloseFails) ==
  IF c.stream = NULL
    THEN [ctx |-> [level |-> NONE, stream |-> NULL, file |-> NULL],
          open |-> open, heap |-> heap, res |-> "OK"]
  ELSE IF ~fcloseFails
    THEN [ctx |-> c, open |-> open \ {c.stream}, heap |-> heap, res |-> "IO_ERROR"]
  ELSE [ctx |-> [level |-> NONE, stream |-> NULL, file |-> NULL],
        open |-> open \ {c.stream}, heap |-> heap \ {c.file}, res |-> "OK"]

\* Faulty variant: the opened file left open when the call fails.
OpenedOnFailureLeaked(cl, f) == cl.open \cup (IF f # NULL THEN {f} ELSE {})

\* The FILEs open when KSI_LOG_init leaves through cleanup with f still set:
\* cleanup closes it.
OpenedOnFailure(cl, f) == cl.open

\* KSI_LOG_init(ctx, name, lvl).  fopenOk and fcloseFails are the outcomes
\* of the calls to fopen and fclose.
LogInit(name, lvl, fopenOk, fcloseFails) ==
  /\ next + 2 <= MaxHandles + 1
  /\ last' = "init"
  /\ out' = << >>
  /\ IF ~ValidLevel(lvl)
       THEN /\ res' = "INVALID_ARGUMENT"
            /\ UNCHANGED <<ctx, open, heap, next>>
       ELSE
         LET cl    == CloseLogFile(ctx, fcloseFails)
             opens == name # NULL /\ name # "-"
             f     == IF opens THEN next ELSE NULL
         IN
         IF opens /\ ~fopenOk
           THEN /\ res' = "IO_ERROR"
                /\ ctx' = cl.ctx /\ open' = cl.open /\ heap' = cl.heap
                /\ UNCHANGED next
         ELSE IF cl.res # "OK"
           THEN /\ res' = ErrInitStatus
                /\ ctx' = cl.ctx /\ heap' = cl.heap
                /\ open' = OpenedOnFailure(cl, f)
                /\ next' = IF opens THEN next + 1 ELSE next
         ELSE
           /\ res' = "OK"
           /\ ctx' = [level |-> lvl, stream |-> f,
                      file |-> IF name # NULL THEN next + 1 ELSE NULL]
           /\ open' = cl.open \cup (IF opens THEN {f} ELSE {})
           /\ heap' = cl.heap \cup (IF name # NULL THEN {next + 1} ELSE {})
           /\ next' = next + 2

Next ==
  \/ \E n \in Names \cup {NULL}, l \in CallLevels, o, e \in BOOLEAN : LogInit(n, l, o, e)
  \/ \E l \in CallLevels : LogFn(l)
  \/ \E l \in CallLevels : LogBlob(l)
  \/ \E l \in CallLevels, n, s \in BOOLEAN : LogTlv(l, n, s)
  \/ \E l \in CallLevels, n \in BOOLEAN : LogDataHash(l, n)

Spec == Init /\ [][Next]_vars

-----------------------------------------------------------------------------
(***************************************************************************)
(* Properties.                                                             *)
(***************************************************************************)

\* Every FILE the logger opened and still holds open is the context's log
\* stream: KSI_LOG_init closes what it opened when it fails, and a stream
\* is closed before the context lets go of it.
NoLeakedStream == open \subseteq {ctx.stream}

\* Every heap copy of a log file name is the one the context points to:
\* closeLogFile frees the old name before KSI_LOG_init stores a new one.
NoLeakedName == heap \subseteq {ctx.file}

\* No line is ever written to a FILE that was closed: the context's log
\* stream stays open as long as writeLog may use it.
WritesToOpenStream ==
  \A i \in DOMAIN out : out[i].dest = STDOUT \/ out[i].dest \in open

\* The dump helpers (logBlob, logTlv, logDataHash) write something exactly
\* when the context's level admits the message, as writeLog does.
HelpersFiltered ==
  [][\A l \in CallLevels :
       (\/ LogBlob(l)
        \/ \E n, s \in BOOLEAN : LogTlv(l, n, s)
        \/ \E h \in BOOLEAN : LogDataHash(l, h))
         => (out' # << >> <=> l <= ctx.level)]_vars

=============================================================================
