# Formal models of libksi

This directory holds TLA+ models of the libksi sources under `src/`, the TLC
configurations that check them, and TLAPS proofs. `PROJECT.json` is the
machine-readable index:
- components;
- runs, and the mutants that each passing property must catch;
- the map from every definition to the source lines it translates;
- findings, hazards and theorems.

## The system

libksi is the client library for KSI keyless signatures. These are its parts
in the repository:

| Part | Source | Role |
|---|---|---|
| Signature object | `src/src/ksi_signature.c` | Parses the 0x800 TLV into aggregation chains, a calendar chain and authentication records; validates; clones; serializes; replaces the calendar chain after extension. |
| Hash-chain engine | not in `src/` (spec.md 4.2) | Aggregates a chain of links, aggregates the calendar chain, and recovers the aggregation time from the calendar chain's shape. |
| TLV template codec | `src/src/ksi_tlv_template.c` | Declarative templates (PDU header, aggregation and extension requests and responses, calendar chain) used to extract objects from TLVs and construct TLVs from objects. |
| Reader | `src/src/ksi/io.c` | `KSI_RDR` over a file or a memory buffer: read, read-pointer, end-of-input check. |
| Logging | `src/src/ksi_log.c` | Level filter, log stream open and close, hex dumps of blobs, TLVs and hashes. |
| Mock async client and driver | `src/test/test_mock_async.c`, `src/test/test_sign_async.c` | A file-backed asynchronous aggregation client: request queue, dispatch rounds, response queue; and the loop that drives it. |
| Extender integration tests | `src/test/ext_integration_tests.c` | Calls to a live extender over the network. |
| Declarations | `src/src/ksi/*.h` | The verification-rule and policy API, lists, URIs and hashes (prototypes only). |

How they interact:
- A signature blob is read (reader) and parsed into a signature object.
- Validation calls the hash-chain engine and the PKI trust store.
- Extension parses an extender response with a TLV template and hands the
  calendar chain to `KSI_Signature_replaceCalendarChain`, which builds a TLV
  with the calendar-chain template.

## Modules

### HashChain (spec-modelled)

The three engine functions `validateInternal` calls are pure operators:
- `Aggregate` is `KSI_HashChain_aggregate`.
- `AggregateCalendar` is `KSI_HashChain_aggregateCalendar`.
- `CalendarTime` is `KSI_HashChain_getCalendarAggregationTime`.

Hashing is ideal: `H(l, r, level)` is the tuple itself, so equal imprints
come from equal inputs. The aggregation level grows by the level correction
plus one at each link, and a level past `MaxLevel` (a byte in the code) is an
error. Calendar links use a fixed level byte `CalLevel`.

`CalendarTime` walks the links from the root down:
- a left link enters the complete left subtree;
- a right link adds the subtree size to the time;
- the walk must end on a single leaf.

A left link (wire tag 0x07) makes the running hash the left child. spec.md 4.2
writes the combination with the sibling first for left links. That
contradicts its own rule that right links emit 1-bits of the time, so the
model uses the orientation under which both rules describe the same tree.

Recursion is written as recursive functions, so the module can be used by
proofs.

### Signature

**State:**
- `wire`: the blob the application holds, as the sequence of decoded
  children of the 0x800 TLV, each `[tag, rec]`;
- `sig`: the `KSI_Signature` object held, or `NULL`;
- `res`: the status of the last call;
- `edits`: the edits an adversary has made.

**Data is abstracted:**
- Chain records keep the input hash and the links (direction, sibling, level
  correction).
- The calendar chain keeps its publication time, aggregation time, input hash
  and links.
- The calendar authentication record keeps the published pair
  (pubTime, pubHash) and `signs`, the pair the PKI signature value was made
  over. `CalAuthRec_validate` (`PkiValid`) accepts exactly when that pair is
  this record's own and was signed by the calendar (`Signed`).

**Actions:**
- `Parse` models `KSI_Signature_parse`. It calls `Extract`
  (extractSignature), which uses:
  - `AggrChains` (parseAggregationChainRec);
  - `AggrAuthOf` (parseAggrAuthRec, which never stores its record);
  - `CalAuthOf` (parseCalAuthRec, which refuses a second record).

  Unknown non-critical children are removed and unknown critical ones fail.
  `Extract` then runs `ValidateInternal`.
  The children a callback or the removal keeps are selected with
  `Filter`, the recursive function behind `SelectSeq` written out, one
  child per iteration of `KSI_TLV_PARSE_BEGIN`'s loop, so that the
  provers can unfold it. `Edits` (the adversary, not code) names each of
  its edit forms (`SetInput`, `RetimeCal`, `FlipLink`, ...) for the same
  reason.
- `FromFile(f)` is `KSI_Signature_fromFile` on a file holding the blob.
  `f` says what fopen and the one fread find:
  - `"missing"`: fopen fails, giving `KSI_IO_ERROR`;
  - `"empty"`: fread reads nothing, giving `KSI_IO_ERROR`;
  - `"long"`: the file has at least `raw_size` (0xfffff) bytes, so feof is
    not set, giving `KSI_INVALID_FORMAT`;
  - `"fits"`: the bytes go to `KSI_Signature_parse`.

  A file of exactly 0xfffff bytes is refused as too long, since fread fills
  the buffer without reaching end-of-file. No signature is that long: a TLV
  with a 16-bit length has at most 65539 bytes. So this off-by-one is not
  listed as a hazard.
- `AggrResponse(tag, status, msg)` is `KSI_parseAggregationResponse`. A
  PDU is its outer tag, its status and whether it has a 0x06 error message.
  The children of 0x202 that the parse does not know are forwarded into a
  new 0x800 TLV; here they are the stored blob. The request id and the
  header are parsed and dropped. The paths are:
  - another outer tag gives `KSI_INVALID_FORMAT`;
  - a nonzero status goes to `AggregatorFail`;
  - otherwise `extractSignature` runs, as in `Parse`. An absent status and
    a zero status take this path alike, and status 0 stands for both.

  `errorMessage` has no initialiser. An error response without a 0x06
  element passes the garbage pointer to `snprintf("%s")` and
  `KSI_FAIL_EXT`, which is undefined behaviour. `AggregatorFail` lets it
  end in either of the outcomes a build can produce: a return of
  `KSI_AGGREGATOR_ERROR`, or the end of the process. The process's end
  loses the held object; the stored blob survives.
- `Install` is what the three parsing calls do with the caller's pointer:
  on success the new object replaces the held one.
- `Validate` is `KSI_Signature_validate`.
- `Clone` re-extracts the base TLV.
- `Serialize` writes the base TLV back as the held blob.
- `ReplaceCalendarChain(c)`: the input-hash check is commented out in the
  code. The first 0x802 child of the base is replaced by the constructed
  TLV, and `sig->calendarChain` is not touched.
- `Free` is `KSI_Signature_free`.
- `Tamper` is the environment: one edit of the held blob. The edits are:
  - replace a chain's input hash;
  - drop a child;
  - change the calendar times;
  - flip a calendar link;
  - change the authentication record's time;
  - swap in the calendar chain or authentication record of another genuine
    signature;
  - append an unknown child, an aggregation authentication record, or a
    second calendar authentication record.

`ValidateInternal` keeps the order of the code's checks and early returns.
The loop over the chains (`AggrLoop`) carries the level from chain to chain.
It records a chain mismatch without leaving, as the code does: KSI_FAIL is
called without `goto cleanup`. `SuccessResetsStatus` states that the final
`KSI_SUCCESS` overwrites that status. The macro is not in `src/`; the model
runs with TRUE, which is how libksi's error module defines it.

### MCSignature

An honest aggregator and calendar over the seconds 0..2, with one document
per second:
- The round at second t has two chains: input `DocAt(t)`, then sibling
  `S1`, then sibling `S2`. The second chain ends exactly on `MaxLevel` = 3,
  a scaled stand-in for 255 that puts the level bound on its boundary.
- The calendar tree over the leaves 0..p has a complete left subtree of the
  largest power-of-two size (`Tree`), and `Path` gives the chain of a leaf.
- `Genuine` holds every (leaf, publication) pair with t ≤ p in 1..2, and the
  form without an aggregation time. `Signed` holds the calendar's roots.
- The adversary injects a foreign document `X` and `D0`.
- The atoms (documents `D0`..`D2`, `X`, siblings `S1`, `S2`) are pairs
  `<<"atom", name>>`, so that no atom is a 4-tuple `H(l, r, v)`:
  `HashAssumption` in `Signature` states this, and that the children of a
  node imprint in `Hashes` are in `Hashes`. TLC checks both.

One edit is enough for every attack found. Two edits multiply the states by
about 40 without reaching a new kind of state.

`MCSignature.cfg` gives TLC the view `SigView == <<wire, edits, sig>>`. No
action reads `res`, so two states that differ only in it have the same
successors. TLC checks the action properties, which read `res'`, on each
step as it generates it, so the view loses no behaviour.

### TlvTemplate

`KSI_TlvTemplate_construct` and `KSI_TlvTemplate_extract`, over the template
tables at lines 6-59, transcribed entry by entry (`Templates`). An object is
a record from field names to values or `NULL`. A child TLV is
`[tag, nc, kind, v]`: kind is what its bytes can be cast to, and `v` holds the
nested children of a composite.

- `Construct` emits the entries in template order and skips `NULL` fields.
  `EncodeLinks` is the calendar-chain link callback. `Encode` has the cases
  of the code's switch and no more: a UTF8_STRING entry, like a list, takes
  the default arm and fails with `KSI_UNKNOWN_ERROR` (lines 495-499).
- `Extract` handles each child through `ExtractChild`:
  - `EntryFor` finds the first entry with the child's tag;
  - `AlreadySet` is the duplicate check;
  - `DecodeInteger`, `DecodeImprint`, `DecodeUtf8`, `DecodeComposite` and
    `DecodeLink` are the cases of the type switch;
  - `Unknown` is the unknown-child path: to the reminder list, or a failure
    unless the TLV is lenient.

  A composite is extracted with reminder `NULL`, as at line 347.
- The harness is the environment:
  - `ConstructCall` encodes an object;
  - `PeerSend` delivers a valid encoding of an object construct can
    encode (`Encodable`; the encodings are derived from construct's
    output, so objects with a string set are left to `ConstructCall`):
    the children reordered
    (calendar links keep their order), or a non-critical unknown child
    added at the top or inside a nested TLV;
  - `PeerSendMalformed` duplicates a child or adds a critical unknown one;
  - `ExtractCall` decodes whatever was delivered.

### Extension (spec-modelled glue)

The code that sends an extension request and hands the result on is not in
`src/`. `Extension` composes the two parts that are, following spec.md 4.5:
- `Codec`, an instance of `TlvTemplate` with the `ExtendResp` template;
- `Signature`, through `ReplaceCalendarChain`.

`ExtendSig(gc)` builds the response for an honest calendar chain, decodes
it, and replaces the signature's chain with the result.

### Reader

`KSI_RDR` over a file or a memory buffer. The bytes are left out: a reader
is its type, offset, eof flag and input length. The C conversions keep
their widths at a scaled size: `size_t` has `SizeBits` = 4 bits, and `int`
and `unsigned int` have `IntBits` = 3 (`ToSize`, `ToUInt`, `ToInt` in two's
complement). A request of 4 to 15 bytes therefore plays the part of one
past INT_MAX, as 2^31 and up would on a 64-bit build.

The actions are:
- `FromStream`, `FromFile` (fopen may fail) and `FromMem`;
- `ReadEx`, through `ReadFromFile` or `ReadFromMem`;
- `ReadPtr`: a file reader is left alone, a memory reader goes through
  `ReadPtrMem`;
- `VerifyEnd`, a read_ptr of one byte;
- `Close`.

`last` records the call made, so every call is a step that action
properties can see.

### Log

`ctx` holds the three logging fields of `KSI_CTX`. FILE handles and heap
copies of the file name are numbered from one counter, so a closed or lost
one is never confused with the one that replaced it.

- `LogInit` is `KSI_LOG_init`. It calls `CloseLogFile`; the outcomes of
  fopen and fclose are inputs.
- `LogFn` is the `KSI_LOG_FN` family, through `WriteLog`.
- `LogBlob`, `LogTlv` and `LogDataHash` are the dump helpers with their own
  level test. `KSI_TLV_toString` may fail.

The numeric values of the levels are not in `src/`. `LogAssumption` needs
only their order (NONE < FATAL < ... < DEBUG, with higher meaning more
verbose), which is what `writeLog` and the check at line 119 rely on.
`ErrInitStatus` is what `KSI_ERR_apply` returns for an error object that
was neither failed nor succeeded; that code is not in `src/` either.

### MockAsync and AsyncQueue

The file-backed async client of `test_mock_async.c`. The request queue is
the linked list of the code: `front`, `back`, and a `nxt` field per handle.
`PushBack` and `PopFront` translate `reqQueue_pushBack` and
`reqQueue_popFront`.

`dispatch` runs in steps, with nothing else running while it does:
- `DispatchCall` enters it;
- `OutputStep` is one iteration of the output loop;
- `OutputDone` opens the next response file;
- `InputStep` is one `KSI_FTLV_fileRead`;
- `Cleanup` closes the file.

A response file is a sequence of items. Each item is the number of the
request it answers, or `Truncated`. A path may also be missing or name a
directory. The behaviour assumed of `KSI_FTLV_fileRead` (not in `src/`) is:
- it fails with no bytes at end of file and sets end-of-file;
- it fails with bytes read on a truncated TLV;
- on a directory, it fails with no bytes and never reaches end-of-file
  (fread gives EISDIR).

The async service (not in the repository) is the environment: it adds
requests, sets the endpoint, takes responses, and may fail a request that
waits for dispatch. It may also free the client (`CtxFree`,
`FileAsyncCtx_free`): the handles still queued are freed along `next`, the
response queue is dropped and the file closed. Nothing is called on the
client after that.

`released` counts the `KSI_AsyncHandle_free` calls the client makes on each
handle: one in `reqQueue_popFront(clientCtx, NULL)`, and one per handle in
the loops of `reqQueue_clearWithError` and `FileAsyncCtx_free`.
`addToSendQueue` takes no reference, so the client frees a reference it was
handed. `QueueOwnsUnreleased` states the bookkeeping that makes this sound:
a handle is freed once, on whichever path it leaves the queue, and never
while it is queued.

`AsyncQueue` is the abstract queue of spec.md section 9: an ordered
sequence with push-back and pop-front. `QueueRefinement` checks the linked
list against it under the mapping `queue <- Walk` (the list read from
`front` along `nxt`) and `pushed <- 1..added`. `WalkOf` reads the list the
way the loop of `FileAsyncCtx_free` does: `Follow` is one `handle = next`
step, taken at most `MaxReq + 1` times. It is written as a recursive
function, not a RECURSIVE operator, so the module can hold proofs.

## Runs

| Run | Checks | Shows |
|---|---|---|
| `signature_accepts` (pass) | `TypeOK`, `AcceptedAuthenticated`, `LastInputCommitted`, `GenuineAccepted` | Every genuine blob is accepted from memory, from a file that fits, and from an aggregation response without an error status. Every held object is authenticated, and its last chain's input is a subterm of the signed root, whatever edits, parses, responses, clones, serialisations and replacements came before. |
| `signature_document_forgery` (violation) | `DocumentCommitted` | A signature validates for a document the root does not commit to. |
| `signature_time_forgery` (violation) | `SigningTimeAuthentic` | The signing time can be moved to a second the calendar never registered. |
| `template_codec` (pass) | `TypeOK`, `ValuesPreserved`, `DuplicateRejected` | For the extension request template, over strict (non-lenient) TLVs with a reminder list: whenever extract accepts a valid encoding (any child order, unknown non-critical children), it gives back the encoded object, and a duplicated child is refused. |
| `template_tag_collision` (violation) | `ValidAccepted` | An aggregation request with a config cannot be decoded from construct's own output (tag 0x04 twice). TLC's shortest trace is an empty config, which no string field is needed to build. |
| `extension_reparse` (violation) | `ExtendedReparses` | An extended signature's own bytes no longer validate. |
| `reader_bounds` (pass) | `TypeOK`, `OffsetInBounds` | For inputs shorter than INT_MAX, no read of any size moves a file or memory reader past its end. |
| `reader_file_trailing` (violation) | `VerifyEndSound` | verifyEnd on a file reader ignores trailing bytes (`io.c:305`). |
| `log_lifecycle` (pass) | `TypeOK`, `NoLeakedStream` | No FILE the logger opened outlives its use, whatever fopen and fclose return. |
| `log_closed_stream` (violation) | `WritesToOpenStream` | After a second `KSI_LOG_init`, messages go to a closed FILE (`ksi_log.c:92`). |
| `log_helpers_filter` (violation) | `HelpersFiltered` | The dump helpers invert writeLog's level filter (`ksi_log.c:172`): they drop the messages the context admits and write the others. |
| `mock_async_queue` (pass) | `TypeOK`, `QueueOwnsUnreleased`, `QueueRefinement`, `DispatchReturns` | The linked queue refines the ordered queue. The client frees each handle exactly once, when it leaves the queue or when the client is freed. Every dispatch over regular files returns. |

The modules state more properties than the runs check. Each of the
following has a configuration of its own, and TLC finds the property
violated with it. They are recorded as hazards at the lines they concern.
One more, `MCReader_VerifyEnd.cfg`, passes: `OffsetInBounds` and
`VerifyEndSound` hold for a memory reader over buffers shorter than
INT_MAX.

| Configuration | Property | Shows |
|---|---|---|
| `MCSignature_AggrAuthRejected.cfg` | `AggrAuthRejected` | An aggregation authentication record is silently dropped (`ksi_signature.c:808`). |
| `MCSignature_ObjectReflectsBase.cfg` | `ObjectReflectsBase` | After the calendar chain is replaced, the object and its bytes disagree (`:1461`). |
| `MCSignature_ForwardKept.cfg` | `ForwardKept` | A forward-flagged unknown child is lost in a parse-serialize round trip (`:916`). |
| `MCSignature_ErrorResponseReported.cfg` | `ErrorResponseReported` | An error response without an error message reads the uninitialised `errorMessage`; the process may end instead of reporting `KSI_AGGREGATOR_ERROR` (`:1028`). |
| `MCTlvTemplate_ImprintLost.cfg` | `ValuesPreserved` | The calendar chain's input hash decodes to NULL (`ksi_tlv_template.c:302`). |
| `MCTlvTemplate_StringUnencoded.cfg` | `ConstructAccepted` | Construct fails with `KSI_UNKNOWN_ERROR` on a configuration whose `parentUri` is set: its switch has no UTF8_STRING case (`:496`). |
| `MCTlvTemplate_NestedUnknown.cfg` | `ValidAccepted` | An unknown non-critical child inside a nested TLV fails the decode when the TLV is not lenient (`ksi_tlv_template.c:344`, `:408`). This is why `template_codec` does not check `ValidAccepted`. |
| `MCTlvTemplate_CriticalAccepted.cfg` | `CriticalRejected` | With a reminder list, an unknown critical child is accepted. |
| `MCReader_FileWrap.cfg` | `OffsetInBounds` | A file read of more than INT_MAX bytes wraps the offset (`io.c:219`). |
| `MCReader_MemWrap.cfg` | `OffsetInBounds` | On a buffer longer than INT_MAX, a read_ptr of a length past INT_MAX stores the bytes left into the int count as a negative number, and the offset wraps past the end (`io.c:312`). |
| `MCReader_Rewind.cfg` | `ReadsForward` | A read_ptr past INT_MAX moves the offset back (`io.c:310`). |
| `MCLog_NoLeakedName.cfg` | `NoLeakedName` | Re-initialising a log on stdout leaks the name copy (`ksi_log.c:101`). |
| `MCMockAsync_ReadError.cfg` | `ReadErrorReachesRequests` | A truncated response reaches no waiting request (`test_mock_async.c:215`). |
| `MCMockAsync_Dir.cfg` | `DispatchReturns` | dispatch loops forever on a directory path (`:247`). |

Each passing property has a mutant in `PROJECT.json`: a faulty variant of a
mapped definition, written next to it, that TLC must catch. Examples are a
dropped duplicate check, an unclipped read_ptr, the `if (f != NULL)
fclose(f)` cleanup dropped, and `back` set before `back->next`.

### Bounds

- **Signature:** seconds 0..2, two chains per round, and one edit by the
  adversary. See MCSignature above.
- **TlvTemplate:**
  - one integer, two imprints and one string;
  - calendar chains of up to two links, so link order matters;
  - one unknown tag, critical or not.

  Every template field takes NULL and at least one value, so each skip
  and each case of the type switch happens.
- **Reader:** inputs of 0..3 bytes (below INT_MAX at the scaled width) in
  the passing runs, 0..7 bytes (up to UINT_MAX) in the wrap
  configurations, and requests of 0..15 bytes. So every
  conversion boundary (INT_MAX, UINT_MAX, size_t wrap) is crossed.
- **Log:** levels ERROR and DEBUG, plus TRACE, which init refuses. Names are
  "-" and one file. Six handles allow three successful inits.
- **MockAsync:** two requests and three response files. The second file
  answers both requests, answers the first again, and ends in a truncated
  TLV. The third file is missing.

### Fairness

Only `MockAsync` has a liveness property. Its `Spec` assumes weak fairness
of `DispatchStep`: a call of `dispatch` that is running goes on running,
because it is ordinary sequential code. Nothing is assumed of the service's
calls. `DispatchReturns` therefore fails only where dispatch itself
loops.

The mock's configurations set `CHECK_DEADLOCK FALSE`: after `CtxFree`
nothing may be called on the client, so that state is a real end.

### Findings in detail

These cover the violation runs and the configurations of the second table
above. Each item gives the line of the code where the defect is.


- **Masked chain mismatch** (`ksi_signature.c:1187`). The trace replaces the
  first chain's input by `X`. The second chain is aggregated from its own
  input, so everything after the first chain still matches and the blob
  validates. Spec GEN-01 is violated.
- **Unauthenticated publication time** (`:1161`). The calendar chain of
  second 1 under publication 1 is a single right link. Read with publication
  time 2 it is also a valid shape, for leaf 2. Nothing compares the chain's
  publication time with the authentication record's signed one. Spec INT-11
  and GEN-05 are violated.
- **Aggregation authentication record ignored** (`:808`). `parseAggrAuthRec`
  discards its result.
- **Stale calendar chain after replacement** (`:1461`).
- **Forward elements removed** (`:916`).
- **Imprints lost on decode** (`ksi_tlv_template.c:302`). `hashVal = NULL`
  comes before the setter. Composed with `replaceCalendarChain`, this makes
  an extended signature's bytes fail validation (`extension_reparse`).
- **Template tag 0x04 used twice** (`:24`), and **unknown children** treated
  against spec 4.1 (`:401`, `:408`).
- **Reader integer conversions** (`io.c:219`, `:310`, `:312`) and
  **verifyEnd blind on files** (`:305`).
- **Strings cannot be encoded** (`ksi_tlv_template.c:496`). Construct has no
  UTF8_STRING case, so an aggregation configuration with a parent URI, or
  an extend response with an error message, fails to encode.
- **Logger:**
  - the inverted `!fclose` (`ksi_log.c:92`), which leaves a closed stream in
    use and makes every re-init fail;
  - the leaked `"-"` name (`:101`);
  - the inverted helper filter (`:172`), which loses the ERROR-level hash
    dumps of `test_sign_async.c` under a DEBUG context.
- **Mock client:**
  - `clearWithError` runs on an already emptied queue
    (`test_mock_async.c:215`);
  - the input loop waits for an end-of-file that a failing stream never
    reaches (`:247`).

## Proofs

`SignatureProofs` proves `Spec => []AcceptedAuthenticated`
(`AcceptedAuthenticatedHolds`) for every value of the constants. This covers objects from `Parse`,
`FromFile` and `AggrResponse` alike: each installs only what `Extract`
accepted, and the process's end in `AggregatorFail` leaves no object. The
argument:
- The inductive invariant `IInv` has two parts:
  - `HeldShape`: a held object is a record with the fields of
    `KSI_Signature`;
  - `HeldValid`: a held object passes `ValidateInternal`.
- `ExtractOK`: parse and clone only store an object that validated.
- `ValidateIgnoresBase`: validation reads only the chains, the calendar
  chain and the records. `HeldShape` is needed for this step, because
  `ReplaceCalendarChain` changes the base field with EXCEPT, and only the
  record's domain shows that the other fields stay as they were.
- `ValidatedIsAuthenticated`: an object that validates is authenticated.

`SignatureProofs` also proves `Spec => []TypeOK` (`TypeCorrect`): the
stored blob stays a sequence of 0x800 children, the edit count within
`MaxEdits`, the held pointer `NULL` or a signature object, the result a
status code. It rests on `GenuineAssumption` (the issued blobs are
sequences of children) and `ConstantsAssumption`. `TypeOK` is inductive
on its own; the work is in the lemmas on the operators:
- `FilterType`: `Filter(b, T)` is a sequence over `S \cap T` when `b` is
  over `S`. The provers have no induction, so the argument is by least
  counterexample (the module `NatLeast`, shared with `MockAsyncProofs`:
  every nonempty set of naturals has a least element, from the library's
  well-foundedness of `<`). First the stages
  `0..n` of the recursive function exist for every `n` (`FilterExtend`
  adds one); then the function `CHOOSE` picks satisfies the recursion;
  then a least stage of the wrong type contradicts its predecessor.
- `MinNat`, `FirstTagged`: the first child with a tag is a child with
  that tag, which types the calendar chain and authentication record
  `Extract` reads.
- `ExtractType`: `extractSignature` reports a status code and, on
  success, an object with the fields of `KSI_Signature`.
- `EditsType`: each edit the adversary makes keeps the blob a blob.
- `ReplaceType`: `replaceCalendarChain` keeps the object a signature
  object.

`SignatureProofs` proves `Spec => []LastInputCommitted`
(`LastInputCommittedHolds`): the signed publication hash of every held
object commits to the input of its last aggregation chain. It rests on
`HashAssumption` (an atom is never a node imprint, and `Hashes` holds the
children of its nodes). The argument:
- `ValidatedCommitted`: an object that `validateInternal` accepts
  satisfies the property. The calendar fold ends on the signed hash, and
  the loop over the chains ends on the calendar's input.
- `SubTerm` is a recursive function, which needs no well-foundedness
  here. `ReachSolves`: the imprints reached by descending to children (the
  intersection of the down-closed sets) solve its equation, so the
  function `SubTerm` names satisfies it (`SubTermUnfold`). Then
  `SubTermNode`: a node imprint in `Hashes` commits to all its children
  commit to.
- `CalFold`, `AggFold`, `LoopFold`: the recursive functions of
  `AggregateCalendar`, `Aggregate` and `AggrLoop` exist and satisfy
  their recursion, by least counterexample as for `Filter`.
- `CalDescent`, `AggDescent`: descending from the fold's result, a
  least stage whose hash is in `Hashes` but does not commit to the input
  cannot be. Its predecessor is a child of it. An aggregation link past
  `MaxLevel` leaves the hash unchanged.
- `LoopLast`: a successful loop ends on the last chain's output.
- The invariant used is `TypeOK /\ IInv`: `TypeCorrect` types the object,
  and `IInv` says it validated.

What stays with TLC:
- Action properties about genuine blobs need the recursive calendar tree
  of the model.
- Liveness and ENABLED are out of the prover's reach, so
  `DispatchReturns` stays with TLC.
- `TlvTemplate` declares RECURSIVE operators for nested TLVs. A module
  that reaches them cannot hold proofs, so the codec's properties stay
  with TLC.

`LogProofs` proves `Spec => []NoLeakedStream` (`NoLeakedStreamHolds`)
for every value of the constants. It rests on two assumptions of
`LogAssumption`: the levels are ordered integers, and no FILE handle equals
NULL. The argument:
- `NoLeakedStream` alone is not inductive. The state with no stream and
  `open = {NULL}` satisfies it, and a successful init from there leaves
  two entries open. `TypeOK` excludes that state, since `open` holds only
  handles. So the inductive invariant is `IInv == TypeOK /\
  NoLeakedStream`, and both parts are checked by `log_lifecycle`.
- `CloseLogFileType`: `closeLogFile` either closes the context's stream and
  clears the context, or keeps both (the successful `fclose` misread as
  failure, `ksi_log.c:92`).
- `InitCallIInv` takes the four paths of `KSI_LOG_init`: an invalid level,
  a failed fopen, a failed close (the cleanup closes `f`), and success.
  Only on success does a FILE stay open, and it becomes the stream.
- `WritersKeep`: the writing calls change only `out`, `res` and `last`. The
  type of `out` needs `ConcatProperties` of SequenceTheorems for the two
  lines of `KSI_LOG_logDataHash`.

`TypeCorrect` gives `Spec => []TypeOK` from the same invariant.

The theorem does not cover `WritesToOpenStream`. That property is false:
after the misread `fclose`, the context keeps a closed stream.

`ReaderProofs` proves two theorems for every `SizeBits`, `IntBits`,
`Lengths` and `Requests`.

`TypeCorrect` gives `Spec => []TypeOK` with no hypothesis: whatever the
lengths, every offset stays a `size_t` value and every count an
`unsigned int`, because each store goes through `ToSize` or `ToUInt`, and
those land in their ranges even where an int count wrapped
(`ReadFromMemType`, `ReadFromFileType`, `ReadPtrOfType`, `TypeNext`).
`TypeOK` is inductive on its own.

`OffsetInBoundsHolds` gives `Spec => []OffsetInBounds` under the hypothesis
`InputsShort`: every input, file or buffer, is shorter than INT_MAX. The
reader_bounds run is one such instance. The hypothesis cannot be dropped.
With a longer input, the bytes left no longer fit in the int counts of
readFromFile (`io.c:219`, `MCReader_FileWrap.cfg`) and read_ptr (`io.c:312`,
`MCReader_MemWrap.cfg`), and the offset wraps past the end. The argument:
- The inductive invariant is `TypeOK /\ OffsetInBounds`. `ReaderShort`
  derives `len < INT_MAX + 1` for any reader from `TypeOK` and the
  hypothesis.
- `ConvFacts`: `ToSize` and `ToUInt` land in their ranges and leave values
  already there unchanged. `ToInt` leaves 0..INT_MAX unchanged.
- `ReadFromMemOK`: the unsigned `left` is exact, since a length is an
  unsigned int.
- `ReadFromFileOK`: fread's count fits in the int.
- `ReadPtrMemOK` covers read_ptr in two cases:
  - when the wrapped sum lands past the end, the bytes left fit in the int
    count, so the clip stops the reader exactly at the end;
  - otherwise the reader stands where the sum landed, which is within. The
    offset can move back here (`io.c:310`), but it stays in bounds.

`Reader` states `WidthFacts`: three facts of arithmetic about `2^w` (it is
a natural number, `2^w = 2 * 2^(w-1)`, and it is monotone). They hold for
every width `ReaderAssumption` admits. The provers treat `2^w` with a
symbolic `w` as opaque, and TLC evaluates the assumption on every Reader
run.

`MockAsyncProofs` proves three theorems about the mock client for every
value of the constants: `TypeCorrect` (`Spec => []TypeOK`),
`QueueOwnsUnreleasedHolds` (`Spec => []QueueOwnsUnreleased`) and
`QueueRefinementHolds` (`Spec => QueueRefinement`). They rest on
`MockAsyncAssumption`, whose one addition for the proofs is `NULL \notin
Nat`: a handle is never NULL. The argument:
- `QueueOwnsUnreleased` alone is not inductive. Whether a push keeps it
  depends on the list's shape, which it does not state. The inductive
  invariant `IInv` adds two conjuncts:
  - `QueueShape`: the queue is the run of handles `front..added`, each
    linked to the next. `back` is the last handle added, and handles not
    yet added have a NULL next.
  - `InputShape`: while dispatch reads a file, the file is open and a path
    is left to read.
  The mock_async_queue instance was checked with `IInv` as an invariant
  before the proof.
- `WalkOfInterval`: under `QueueShape`, `Walk` is the interval
  `front..back`. The provers cannot prove this by induction over the walk,
  so the proof gives the walk's stages explicitly (`Stage`) and shows they
  satisfy the definition. `LeastNat` then gives uniqueness: a first stage
  where two solutions differ would contradict the stage before it.
  `LeastNat` follows from `WFMin` and the well-foundedness of `<` on Nat.
- `IntervalCount`: a handle occurs in an interval at most once. Each free
  in `ReleasedAlong` therefore counts one per handle.
- There is one lemma per action. `OutputStepIInv` pops the front.
  `InputStepIInv` covers a truncated TLV, which clears the queue with
  `clearWithError`. `CtxFreeIInv` frees the whole walk.
- For the refinement, `IntervalAppend` and `IntervalTail` say that a push
  is `Append` and a pop is `Tail` on the interval. `NextRefines` maps
  `addToSendQueue` to `PushBack(added + 1)`, an output iteration to
  `PopFront`, and a truncated read and `FileAsyncCtx_free` to `Clear`.
  Every other step leaves `Walk` and `1..added` unchanged.

## Not modelled

- **Asynchronous signing driver** (`test_sign_async.c`). Its loop is driven
  by `KSI_AsyncService_run`. Neither that code nor its contract (what it
  returns, and what `pending` counts) is in the repository or in spec.md.
- **Extender integration tests.** They talk to a live service.
- **Verification-rule headers.** They declare functions whose bodies are
  not in the repository.
- **Allocation failures.** They are not modelled anywhere (`KSI_calloc`,
  `KSI_OctetString_new` and the like always succeed).
- **Request-id matching.** `KSI_parseAggregationResponse` parses the
  request id and drops it. Matching a response to its request is the async
  service's business, and that code is not in the repository
  (hazard at `ksi_signature.c:1002`).
- **Getters.** `KSI_Signature_getDataHash` (a TODO that sets nothing),
  `getCalendarHash`, `getSignerIdentity`, the mock's `getCredentials` and
  `reqQueue_getFront` change no state. `getSigningTime` is the operator
  `SigningTime`.
- **Bytes and formatting.** Blob contents and hex formatting are left out,
  and so are log messages, except for their destination and level.

## Plan

1. A model of the async service's contract, if its code or documentation
   is added to the repository, to check the driver's loop.
