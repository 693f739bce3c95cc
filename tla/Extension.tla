----------------------------- MODULE Extension -----------------------------
(***************************************************************************)
(* Extending a signature: the extender's response is decoded with the      *)
(* KSI_ExtendResp template (TlvTemplate), and the calendar chain it holds  *)
(* is handed to KSI_Signature_replaceCalendarChain (Signature).  The glue  *)
(* that sends the request and makes these two calls is not under src/; it *)
(* is modelled from spec.md 4.5 and scenario 4 of section 7.               *)
(***************************************************************************)
EXTENDS Signature

\* The response codec, over the imprints and times of the signature model.
Codec == INSTANCE TlvTemplate
           WITH Tmpl <- "ExtendResp", Ints <- Times, Imps <- Hashes, Strs <- {},
                MaxLinks <- 0, Reminder <- FALSE, Lenient <- FALSE,
                CallbackMultiple <- TRUE, NULL <- NULL,
                wire <- NULL, src <- NULL, out <- NULL, res <- NULL

\* A calendar chain as the KSI_CalendarHashChain object the templates read
\* and write (its getters), and back.
AsTemplateObject(c) ==
  [publicationTime |-> c.pubTime, aggregationTime |-> c.aggrTime,
   inputHash |-> c.input,
   hashChain |-> IF c.links = <<>> THEN NULL
                 ELSE [i \in DOMAIN c.links |-> [left |-> c.links[i].left,
                                                 imp |-> c.links[i].sib]]]

FromTemplateObject(o) ==
  [pubTime |-> o.publicationTime, aggrTime |-> o.aggregationTime,
   input |-> o.inputHash,
   links |-> IF o.hashChain = NULL THEN <<>>
             ELSE [i \in DOMAIN o.hashChain |-> [left |-> o.hashChain[i].left,
                                                 sib |-> o.hashChain[i].imp]]]

\* The extender's response carrying chain gc: an ExtendResp whose only
\* field is the calendar chain, encoded as the template describes.
Response(gc) ==
  Codec!Construct("ExtendResp",
    [header |-> NULL, requestId |-> NULL, status |-> NULL, errorMsg |-> NULL,
     lastTime |-> NULL, calendarHashChain |-> AsTemplateObject(gc)]).kids

\* The chains an honest extender returns for the held signature: chains
\* of the calendar from the signature's own calendar input.
HonestChains ==
  IF sig = NULL THEN {}
  ELSE {gc \in ExtChains : gc.input = sig.cal.input /\ gc.aggrTime \in {sig.cal.aggrTime, NULL}}

\* Extend the held signature with the extender's response: decode it with
\* KSI_TlvTemplate_extract, then replace the calendar chain.
ExtendSig(gc) ==
  LET x == Codec!Extract("ExtendResp", Response(gc), FALSE) IN
  IF ~x.ok \/ x.obj.calendarHashChain = NULL
    THEN /\ sig # NULL
         /\ res' = "INVALID_FORMAT"
         /\ UNCHANGED <<wire, edits, sig>>
    ELSE ReplaceCalendarChain(FromTemplateObject(x.obj.calendarHashChain))

ExtNext ==
  \/ Next
  \/ \E gc \in HonestChains : ExtendSig(gc)

ExtSpec == Init /\ [][ExtNext]_vars

\* After extending a signature with the chain an honest extender returned,
\* the signature's bytes (what KSI_Signature_serialize writes) parse and
\* validate again (spec 4.1 round trip after the extend mutation; spec 7,
\* scenario 4: extending to a publication ends OK).
ExtendedReparses ==
  [][\A gc \in HonestChains : ExtendSig(gc) /\ res' = "OK" => Extract(sig'.base).res = "OK"]_vars

=============================================================================
