------------------------------ MODULE LogProofs ------------------------------
(***************************************************************************)
(* Proofs about the logger of ksi_log.c, for every value of the constants. *)
(*                                                                         *)
(* NoLeakedStream is inductive once the type is known: every path of       *)
(* KSI_LOG_init leaves at most the new context stream open, because        *)
(* closeLogFile either closes the old stream or keeps it as the context's, *)
(* and the cleanup closes a freshly opened FILE whenever the call fails.   *)
(***************************************************************************)
EXTENDS Log, SequenceTheorems, TLAPS

\* The inductive invariant: the type, and the open FILEs held by the context.
IInv == TypeOK /\ NoLeakedStream

\* Every line writeLog produces goes to a handle or to stdout at a call level.
LEMMA WriteLogType ==
  ASSUME NEW c \in Ctx, NEW l \in CallLevels
  PROVE  WriteLog(c, l) \in Seq(Line)
<1>1. c.level \in Int
  BY LogAssumption DEF Ctx
<1>2. [dest |-> IF c.stream # NULL THEN c.stream ELSE STDOUT, level |-> l] \in Line
  BY DEF Ctx, Line, Handles
<1>3. QED
  BY <1>1, <1>2 DEF WriteLog

\* What logBlob returns: the lines writeLog writes, or none, and a status code.
LEMMA BlobType ==
  ASSUME NEW c \in Ctx, NEW l \in CallLevels
  PROVE  /\ Blob(c, l).out \in Seq(Line)
         /\ Blob(c, l).res \in {"OK", "UNKNOWN_ERROR"}
BY WriteLogType DEF Blob

\* closeLogFile returns a context, only handles already open, and either
\* clears the context's stream or reports IO_ERROR with the context kept.
LEMMA CloseLogFileType ==
  ASSUME NEW c \in Ctx, NEW e \in BOOLEAN, open \subseteq Handles, heap \subseteq Handles
  PROVE  LET cl == CloseLogFile(c, e) IN
         /\ cl.ctx \in Ctx
         /\ cl.open \subseteq open
         /\ cl.heap \subseteq heap
         /\ cl.res \in {"OK", "IO_ERROR"}
         /\ cl.res = "OK" => cl.ctx.stream = NULL
         /\ cl.open \subseteq open \ {c.stream}
            \/ (cl.res = "IO_ERROR" /\ cl.ctx = c)
<1> DEFINE cl == CloseLogFile(c, e)
<1>1. [level |-> NONE, stream |-> NULL, file |-> NULL] \in Ctx
  BY DEF Ctx
<1>2. CASE c.stream = NULL
  <2>1. NULL \notin open
    BY LogAssumption DEF Handles
  <2>2. QED
    BY <1>1, <1>2, <2>1 DEF CloseLogFile
<1>3. CASE c.stream # NULL /\ ~e
  BY <1>3 DEF CloseLogFile
<1>4. CASE c.stream # NULL /\ e
  BY <1>1, <1>4 DEF CloseLogFile
<1>5. QED
  BY <1>2, <1>3, <1>4

-----------------------------------------------------------------------------
\* The initial context satisfies the invariant.
LEMMA InitIInv == Init => IInv
BY LogAssumption DEF Init, IInv, TypeOK, NoLeakedStream, Ctx, Codes

\* The calls that only write lines keep ctx, open, heap and next.
LEMMA WritersKeep ==
  ASSUME IInv,
         \/ \E l \in CallLevels : LogFn(l)
         \/ \E l \in CallLevels : LogBlob(l)
         \/ \E l \in CallLevels, n, s \in BOOLEAN : LogTlv(l, n, s)
         \/ \E l \in CallLevels, n \in BOOLEAN : LogDataHash(l, n)
  PROVE  IInv'
<1> USE DEF IInv, TypeOK, NoLeakedStream
<1>1. CASE \E l \in CallLevels : LogFn(l)
  BY <1>1, WriteLogType DEF LogFn, Codes
<1>2. CASE \E l \in CallLevels : LogBlob(l)
  BY <1>2, BlobType DEF LogBlob, Codes
<1>3. CASE \E l \in CallLevels, n, s \in BOOLEAN : LogTlv(l, n, s)
  <2>1. PICK l \in CallLevels, n, s \in BOOLEAN : LogTlv(l, n, s)
    BY <1>3
  <2>2. ctx \in Ctx /\ << >> \in Seq(Line) /\ WriteLog(ctx, l) \in Seq(Line)
    BY WriteLogType, EmptySeq
  <2>3. out' \in Seq(Line) /\ res' \in Codes
    BY <2>1, <2>2 DEF LogTlv, Codes
  <2>4. QED
    BY <2>1, <2>3 DEF LogTlv
<1>4. CASE \E l \in CallLevels, n \in BOOLEAN : LogDataHash(l, n)
  <2>1. PICK l \in CallLevels, n \in BOOLEAN : LogDataHash(l, n)
    BY <1>4
  <2>2. out' \in Seq(Line)
    <3>1. ctx \in Ctx /\ WriteLog(ctx, l) \in Seq(Line) /\ Blob(ctx, l).out \in Seq(Line)
      BY WriteLogType, BlobType
    <3>2. << >> \in Seq(Line)
      BY EmptySeq
    <3>3. Blob(ctx, l).out \o (IF Blob(ctx, l).res # "OK" THEN WriteLog(ctx, l) ELSE << >>)
            \in Seq(Line)
      BY <3>1, <3>2, ConcatProperties
    <3>4. QED
      BY <2>1, <3>1, <3>2, <3>3 DEF LogDataHash
  <2>3. res' \in Codes
    BY <2>1, BlobType DEF LogDataHash, Codes
  <2>4. QED
    BY <2>1, <2>2, <2>3 DEF LogDataHash
<1>5. QED
  BY <1>1, <1>2, <1>3, <1>4

\* KSI_LOG_init keeps the invariant on each of its four paths.
LEMMA InitCallIInv ==
  ASSUME IInv,
         NEW name \in Names \cup {NULL}, NEW lvl \in CallLevels,
         NEW o \in BOOLEAN, NEW e \in BOOLEAN,
         LogInit(name, lvl, o, e)
  PROVE  IInv'
<1> DEFINE cl    == CloseLogFile(ctx, e)
           opens == name # NULL /\ name # "-"
           f     == IF opens THEN next ELSE NULL
<1>1. /\ cl.ctx \in Ctx
      /\ cl.open \subseteq open
      /\ cl.heap \subseteq heap
      /\ cl.res \in {"OK", "IO_ERROR"}
      /\ cl.res = "OK" => cl.ctx.stream = NULL
      /\ cl.open \subseteq open \ {ctx.stream}
         \/ (cl.res = "IO_ERROR" /\ cl.ctx = ctx)
  BY CloseLogFileType DEF IInv, TypeOK
<1>2. cl.res = "OK" => cl.open = {}
  BY <1>1 DEF IInv, NoLeakedStream
<1>3. next + 2 <= MaxHandles + 1 /\ next \in 1..(MaxHandles + 1)
  BY DEF LogInit, IInv, TypeOK
<1>4. CASE ~ValidLevel(lvl)
  BY <1>4 DEF LogInit, IInv, TypeOK, NoLeakedStream, Codes
<1>5. CASE ValidLevel(lvl) /\ opens /\ ~o
  <2>1. res' = "IO_ERROR" /\ ctx' = cl.ctx /\ open' = cl.open /\ heap' = cl.heap
        /\ UNCHANGED <<next>> /\ out' = << >> /\ last' = "init"
    BY <1>5 DEF LogInit
  <2>2. NoLeakedStream'
    BY <1>1, <1>2, <2>1 DEF IInv, NoLeakedStream
  <2>3. QED
    BY <1>1, <2>1, <2>2 DEF IInv, TypeOK, Codes
<1>6. CASE ValidLevel(lvl) /\ ~(opens /\ ~o) /\ cl.res # "OK"
  <2>1. res' = ErrInitStatus /\ ctx' = cl.ctx /\ open' = cl.open /\ heap' = cl.heap
        /\ next' = (IF opens THEN next + 1 ELSE next) /\ out' = << >> /\ last' = "init"
    BY <1>6 DEF LogInit, OpenedOnFailure
  <2>2. NoLeakedStream'
    BY <1>1, <2>1 DEF IInv, NoLeakedStream
  <2>3. QED
    <3>1. << >> \in Seq(Line)
      BY EmptySeq
    <3>2. next' \in 1..(MaxHandles + 1)
      BY <1>3, <2>1, LogAssumption
    <3>3. QED
      BY <1>1, <2>1, <2>2, <3>1, <3>2 DEF IInv, TypeOK, Codes
<1>7. CASE ValidLevel(lvl) /\ ~(opens /\ ~o) /\ cl.res = "OK"
  <2>1. /\ res' = "OK" /\ out' = << >> /\ last' = "init"
        /\ ctx' = [level |-> lvl, stream |-> f,
                   file |-> IF name # NULL THEN next + 1 ELSE NULL]
        /\ open' = cl.open \cup (IF opens THEN {f} ELSE {})
        /\ heap' = cl.heap \cup (IF name # NULL THEN {next + 1} ELSE {})
        /\ next' = next + 2
    BY <1>7 DEF LogInit
  <2>2. NoLeakedStream'
    BY <1>2, <1>7, <2>1 DEF NoLeakedStream
  <2>3. ctx' \in Ctx
    BY <1>3, <1>7, <2>1, LogAssumption DEF ValidLevel, Ctx, Handles
  <2>4. QED
    <3>1. << >> \in Seq(Line)
      BY EmptySeq
    <3>2. next' \in 1..(MaxHandles + 1) /\ next + 1 \in Handles
      BY <1>3, <2>1, LogAssumption DEF Handles
    <3>3. next \in Handles
      BY <1>3, LogAssumption DEF Handles
    <3>4. open' \subseteq Handles
      <4>1. cl.open \subseteq Handles
        BY <1>1 DEF IInv, TypeOK
      <4>2. QED
        BY <2>1, <3>3, <4>1
    <3>5. heap' \subseteq Handles
      <4>1. cl.heap \subseteq Handles
        BY <1>1 DEF IInv, TypeOK
      <4>2. QED
        BY <2>1, <3>2, <4>1
    <3>6. QED
      BY <1>1, <2>1, <2>2, <2>3, <3>1, <3>2, <3>4, <3>5 DEF IInv, TypeOK, Codes
<1>8. QED
  BY <1>4, <1>5, <1>6, <1>7

\* Every step of the logger, or a stutter, keeps the invariant.
LEMMA NextIInv == IInv /\ [Next]_vars => IInv'
<1> SUFFICES ASSUME IInv, [Next]_vars PROVE IInv'
  OBVIOUS
<1>1. CASE \E n \in Names \cup {NULL}, l \in CallLevels, o, e \in BOOLEAN : LogInit(n, l, o, e)
  BY <1>1, InitCallIInv
<1>2. CASE UNCHANGED vars
  BY <1>2 DEF vars, IInv, TypeOK, NoLeakedStream
<1>3. QED
  BY <1>1, <1>2, WritersKeep DEF Next

\* The logger never holds a FILE open that is not the context's log stream:
\* KSI_LOG_init closes the FILE it opened on every failing path, and
\* closeLogFile leaves the stream open only when the context keeps it.
THEOREM NoLeakedStreamHolds == Spec => []NoLeakedStream
<1>1. IInv => NoLeakedStream
  BY DEF IInv
<1>2. QED
  BY <1>1, InitIInv, NextIInv, PTL DEF Spec

\* The logger's context always holds a level between NONE and DEBUG and
\* handles the program opened, and every line goes to an open handle or
\* stdout: no path of KSI_LOG_init stores an unchecked level or a stale
\* handle number.
THEOREM TypeCorrect == Spec => []TypeOK
<1>1. IInv => TypeOK
  BY DEF IInv
<1>2. QED
  BY <1>1, InitIInv, NextIInv, PTL DEF Spec

=============================================================================
