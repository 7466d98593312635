# Verification of the XML context builder

This directory holds TLA+ models of the XML backend of the library
(`src/xml.c`, with the structures of `src/iio-private.h`).  The backend
turns an XML description of a context into the in-memory model: a context
with attributes and devices, devices with attribute registries and channels,
channels with attributes and a scan-element layout (index, data format,
scale).  A fourth model covers the channels mask of `src/iio-private.h`, the
bitset that selects a device's active channels.  The models are checked with TLC.  TLAPS proves, for every value of the
constants, the builder's type invariant, its no-dangling-pointer invariant,
its freedom from leaks when no allocation fails and the finality of its
errors, and the mask's type invariant, its
in-bounds invariant and its refinement of the spec's set of channels.

## The system and its parts

| Part (spec section 1) | Code | Module | Status |
|---|---|---|---|
| Model Builder | `create_device`, `create_channel`, `add_attr_to_device`, `add_attr_to_channel`, `setup_scan_element` (xml.c 22-330) | `XmlBuilder` | modelled |
| Context Assembly | `iio_create_xml_context_helper`, `iio_populate_xml_context_helper`, `parse_context_attr` (xml.c 349-472) | `XmlBuilder` | modelled |
| Channel Format Codec | format decode (xml.c 120-154), index and scale decode (111-119, 155-167) | `FormatCodec`, `XmlBuilder` | modelled (decode); encode from the spec |
| Attribute Registry | `add_iio_dev_attr`, `iio_context_add_attr` (not under src) | `XmlBuilder` (`AddDevAttr`, `AddCtxAttr`) | from the spec |
| Model Emitter | `iio_snprintf_*_xml` (not under src) | `FormatCodecMC` (`Encode`) | format text only, from the spec |
| Channels Mask | `struct iio_channels_mask`, `iio_channels_mask_*_bit`, `BIT` macros (iio-private.h 36-38, 158-185) | `ChannelsMask`, `MaskSet`, `ChannelsMaskMC`, `ChannelsMask_proofs` | modelled; create and copy (not under src) from the spec |
| Document sources | `xml_create_context`, `xml_create_context_mem`, `xml_clone` (xml.c 332-347, 474-516) | none | not modelled: libxml2 I/O |
| Cleanup hook | `cleanup_libxml2_stuff` and its constructor (xml.c 519-559) | none | not modelled: process lifecycle |

How they interact: `xml_create_context` parses a file or a buffer with libxml2
and calls `iio_create_xml_context_helper` on the tree.  That function checks
the root, reads the version attributes, allocates the context, and calls
`iio_populate_xml_context_helper`, which walks the children of `<context>`.
A `<context-attribute>` goes to the context registry.  A `<device>` goes to
`create_device`, which walks its children: attributes go to the device
registries and `<channel>` goes to `create_channel`.  `create_channel` walks
its own children: `<attribute>` goes to `add_attr_to_channel` and
`<scan-element>` goes to `setup_scan_element`.  Every error returns up the
same chain.  Each level frees what it built: `free_channel`, then
`free_device`, then `iio_context_destroy`.  Nothing runs concurrently.  The
hard cases are the error paths under allocation failure, the numeric
conversions, and the order of the document.

## Modules

* `XmlBuilder.tla` models the builder as a single-threaded state machine.
  * The document `doc` is chosen in `Init` and stays fixed.  Each element keeps
    the attributes the code reads.  Each attribute text is reduced to what the
    C conversion computes from it:
    * the digit run and its value for `strtol`/`strtoll`;
    * `ERANGE` for `strtof`;
    * the format text itself, decoded by the constant operator `DecodeFormat`.
  * `pc` names the loop or error label the code is in.  `ci`, `di`, `ki` and
    `si` are the cursors of the four loops.  `ctx`, `dev` and `chn` are the
    structures being built.  `err` is the error being returned.
  * One action models one loop iteration: the child's handler with every guard
    and early return, as a disjunct per outcome.  Each action is named after
    the C function it models.  The error labels `err_free_channel`,
    `err_free_device` and `iio_context_destroy` are actions of their own.
  * When the constant `MayFail` is TRUE, every allocation of the code may
    fail, and so may `iio_context_init` (its body is not under src).
  * A refused format keeps what the code stored before the conversion
    count is checked (`StoredFormat`): `repeat = 1` without an `X`, and
    the fields of the conversions `sscanf` made.  The channel is freed
    right after, so no returned context can hold them.
  * Memory is abstracted to handles.  A structure's handle stands for the
    struct itself.  A `...data` handle stands for the strings and arrays it
    owns.  `live` holds the allocated handles and `freed` the released ones.
    A bare `free(p)` releases only the struct handle.  `free_channel`,
    `free_device` and `iio_context_destroy` release everything reachable
    from the object.
* `FormatCodec.tla` models the format decode to the character.  It includes
  the C `sscanf` engine:
  * `%c` takes the next character;
  * `%u` skips blanks, takes a sign, converts with `strtoul` (saturating and
    negating modulo 2^ULongBits), and stores into an unsigned int.

  The engine is recursive, so this module is used by TLC only.
  `XmlBuilderMC` passes a precomputed table of its results to `XmlBuilder`.
* `XmlBuilderMC.tla` is the model-checking instance.  It holds the small
  document sets and the reference: what spec sections 3, 4.4 and 6 say the
  context built from a document is, and when the build must fail.
* `FormatCodecMC.tla` checks the decoder against the spec's encoder (section
  4.1) and against the spec's grammar.
* `ChannelsMask.tla` models `struct iio_channels_mask` at a symbolic word
  width `WordBits`.
  * `count[m]` is `nb_channels`, `words[m]` the word count, `mask[m]` the
    word array.  A `uint32_t` word is the set of its 1 bits, so `|`, `&`
    and `~` are union, intersection and complement.
  * `BIT`, `BIT_MASK` and `BIT_WORD` follow the macros.  `BIT(x)` is an
    `int`: `BIT(WordBits - 1)` is INT_MIN, and `U32Bits` gives the bits
    of an `int` converted to `uint32_t`.
  * One action per helper: `iio_create_channels_mask` and
    `iio_channels_mask_copy` (from the spec, their code is not under src),
    and `test_bit`, `set_bit` and `clear_bit`.  An index whose word is not
    allocated is an out-of-bounds access: the `oob` flag.
  * `MaskChannels(m)` reads the set of channels a mask holds, and `Abs`
    instantiates `MaskSet` with it: the refinement mapping.
* `MaskSet.tla` is the spec's mask (section 4.2): a set of channels per
  mask, with Create, TestBit, SetBit, ClearBit and CopyInto.
* `ChannelsMaskMC.tla` fixes the width at 4 and the callers' index sets.
* `XmlBuilder_proofs.tla` and `ChannelsMask_proofs.tla` hold the proofs.

## Runs

| Run | cfg | Expect | Shows |
|---|---|---|---|
| builder_reference | XmlBuilderMC.cfg | pass | On 541 documents, without allocation failure, the builder returns the context the spec describes.  It fails exactly on invalid documents, owns exactly what it can reach (NoLeak, NoDangling), and always returns (BuildTerminates).  Once a loop fails, every later step keeps the first error code and allocates nothing (ErrorIsFinal). |
| builder_oom | XmlBuilderMC_oom.cfg | pass | With every allocation allowed to fail, no path frees twice or returns freed memory (NoDangling), and the builder returns.  Every allocation failure is reported as ENOMEM, so EINVAL still means a malformed document, and a context that is returned is the one the document describes (BuildMatchesReference). |
| leak_channel_realloc | XmlBuilderMC_leak_chn.cfg | violation | `free(chn)` at xml.c:299 leaks the channel's strings. |
| leak_add_device | XmlBuilderMC_leak_dev.cfg | violation | `free(dev)` at xml.c:398 leaks the device's strings and channels. |
| index_cast_windows | XmlBuilderMC_index_win.cfg | violation | Where `long` is 32 bits, an accepted index above LONG_MAX is stored as a negative value, i.e. "no index" (xml.c:119). |
| version_without_git | XmlBuilderMC_version.cfg | violation | Versions are dropped when `version-git` is absent (xml.c:454). |
| format_roundtrip | FormatCodecMC.cfg | pass | The decoder inverts the spec's encoder on 1080 formats. |
| format_strict | FormatCodecMC_strict.cfg | violation | The decoder accepts texts outside the spec's grammar, e.g. "xe:s16/16>>0" (xml.c:134). |
| mask_refinement | ChannelsMaskMC.cfg | pass | Two masks of 3 or 5 channels, with callers that stay below the count.  No access leaves the words (NoOutOfBounds).  Every create, test, set, clear and copy maps to the spec's operation on a set of channels (MaskRefinesSet), the sign bit 3 included.  31,857 states. |
| mask_copy_padding | ChannelsMaskMC_copy.cfg | violation | Masks of 5 and 6 channels have the same word count, so a copy succeeds.  Channel 5 of the larger mask survives in the smaller one's padding and comes back on a copy back after being cleared (iio-private.h:165). |

Bounds:
* The documents have up to two children per level, and each level is
  exercised in its own set:
  * context attributes, with a repeated key and a missing name;
  * devices with and without id;
  * each registry kind, with a repeated name;
  * channels with and without id and type;
  * channel attributes with and without filename;
  * scan elements with each index, format and scale text alone and in pairs,
    two scan elements in a row included.

  Two children are enough to exercise every ordering question the code has:
  first-wins keys, idempotent registries, later-overrides for scan elements,
  and an error after a success.
* Integer widths are scaled down so that TLC can represent them:
  * unsigned int: 8 bits;
  * long long: 16 bits;
  * long: 16 bits (LP64 stand-in) or 8 bits (Windows stand-in).

  The index text 128 sits between the two `long` widths, and 65536 lies above
  LLONG_MAX.

* The mask's word is 4 bits wide instead of 32.  That keeps every case of
  the helpers:
  * a word's sign bit (bit 3, BIT(3) = INT_MIN);
  * an index in the second word;
  * padding above the count (3 channels in a 4-bit word);
  * copies between masks of equal and of different word counts.

  Two masks are enough for every copy direction.

Fairness for the builder: `WF_vars(Next)`.  The builder is one thread that runs until it
returns, with no blocking call, so any enabled step is eventually taken.
The mask has no fairness: its operations are calls its user may or may not
make.

## Findings

1. xml.c:299 and xml.c:398: the two bare `free` calls leak what the channel or
   device owns.  With both replaced by `free_channel`/`free_device`, NoLeak
   holds on the builder_oom run.
2. xml.c:119: the index narrowing on 32-bit `long`.
3. xml.c:454: versions are kept only with `version-git`, and `strtol`'s
   partial value is kept instead of defaulting to 0.
4. xml.c:134: the format decode is not strict.  It accepts any endianness or
   sign character, signed numbers and trailing characters.
5. iio-private.h:165: a copy is allowed between masks with equal word counts
   but different channel counts.  It carries bits above the destination's
   count, which a later copy can bring back.  The spec is silent on this.

## Proofs

`XmlBuilder_proofs.tla` proves four theorems with TLAPS, for every value of the
constants that satisfies the module's two assumptions.
* `ConstantsAssumption`:
  * the constant sets are sets of the declared types;
  * `DecodeFormat` returns a format record and the set of its unsigned
    fields that were stored;
  * the widths are positive, with long no wider than long long.
* `PowerAssumption`: the powers of two of the widths are positive integers.
  The provers do not evaluate `^`.

The four theorems:
* `TypeCorrect == Spec => []TypeOK`.  `TypeOK` alone is not inductive.  An
  action reads `doc.children[ci]` and the elements below it, and types them
  by the kind its guard tests.  That is sound only when the enclosing
  cursors stand on a `<device>` or `<channel>` inside its parent.  `Cursors`
  states this, and the inductive invariant is `IInv == TypeOK /\ Cursors`.
  There is one step lemma per action.  Lemmas on the element kinds let the
  provers pick the element's record type from its kind.
* `NoDanglingInvariant == Spec => []NoDangling`.  The strengthening `Own`
  relates handles to the cursors:
  * a device of the context comes from a child before `ci`;
  * its channels carry its position;
  * the device being built is at `ci`, and its channels are before `di`;
  * the channel being built is at `<<ci, di>>`;
  * nothing is freed outside an error label;
  * each error label has freed only handles at the cursors.

  An error path frees only what was built at the failing child.  Everything
  still reachable sits at an earlier position.  `OwnNoDangling` derives
  `NoDangling` from this.  `IInv /\ Own` is preserved, with one step lemma
  per action.  `Own` was checked with TLC on both passing builder runs first.
* `ErrorIsFinalHolds == Spec => ErrorIsFinal`, an action property.  The
  strengthening `ErrInv` says that an error code is held only at an error
  label or after the return.  Every loop action is guarded by its own
  label, and it either keeps `err = "none"` or jumps to an error label.
  The error-label actions keep the code and only release handles.  So a
  step from a state with an error keeps the code and does not grow `live`.
  `ErrInv` was checked with TLC on both passing builder runs first.
* `NoLeakWithoutFailures`: `Spec => []NoLeak` when `MayFail` is FALSE, i.e.
  when no allocation fails.  This covers every EINVAL path of a malformed
  document.  With failing allocations NoLeak is false (finding 1),
  so the hypothesis is the exact line between the proved and the refuted
  case.  The strengthening `LeakInv` adds that nothing is allocated
  before the context.  It is proved together with `IInv` and `ErrInv`.
  `ErrInv` is needed because `iio_context_init` returns the context only
  when no error is pending.  The argument has three parts:
  * each allocation adds handles of the structure that the next label
    keeps reachable (`NewDevicePos`, `NewChannelPos`);
  * the end of a loop appends that structure to its owner
    (`CtxHandlesAppend`, `DevHandlesAppend`);
  * each error label releases exactly the layer it leaves.

  The steps that leave a layer alone are framed once, by the lemmas
  `ChannelStepKeepsPos`, `DeviceAttrKeepsChannels` and
  `ContextAttrKeepsDevices`, which the `Own` proofs cite too.

  `LeakInv` was checked with TLC on builder_reference first.

`ChannelsMask_proofs.tla` proves three theorems for every width, every set
of masks and every set of channel counts.  The assumption `MaskAssumption`
asks only that the width is positive, that the channel counts and the
indices callers may pass are naturals, and that `NoMask` is not a mask.
* `MaskTypeCorrect == Spec => []TypeOK`.  The inductive invariant
  `MaskIInv` adds that `mask` is defined on every mask and that a created
  mask's count is one of `Sizes`.
* `NoOutOfBoundsInvariant`: `Spec => []NoOutOfBounds` under
  `CallerContract`.  `CallerContract` is the callers' side of spec section
  4.2: an index passed to a mask is below its channel count.  The inductive
  invariant `BoundInv` adds that every created mask has `Words(count)`
  words.  A copy keeps this, because it only copies between equal word
  counts.  Lemma `WordOfIndex` turns `b < n` into
  `b \div W < Words(n)`.
* `MaskRefinement`: `Spec => MaskRefinesSet` (the array implements
  `MaskSet`), under three hypotheses.
  * `CallerContract`.
  * `SameWordsSameCount`: masks with equal word counts have equal channel
    counts.  The masks one copy goes between belong to one device.  Without
    it the refinement is false (run mask_copy_padding).
  * `BitMaskBits`: `BIT(k)` converted to `uint32_t` is `{k}`, and `~BIT(k)`
    is every bit but `k`.  These are facts of binary arithmetic, but the
    provers know nothing of `^` with a symbolic exponent.  So
    `ChannelsMaskMC` states them as the assumption `BitMaskBitsHold`, which
    TLC evaluates at width 4 on every mask run.

  The proof maps every step through `BoundInv`.  One lemma per helper shows
  it is the matching MaskSet action:
  * `RefineCreate`: a fresh mask holds no channel;
  * `RefineTest`: test_bit answers membership;
  * `RefineSet` and `RefineClear`: writing one word adds or removes exactly
    the index, by `ChannelsAfterWrite` and `IndexOfPlace`;
  * `RefineCopy`: equal word counts mean equal counts.

  A stutter keeps every channel set.

What stays with TLC:
* `BuildTerminates`, a liveness property under fairness.
* `NoLeak` with failing allocations: it is false in the code (finding 1),
  and the two leak runs show it.
* `BuildMatchesReference`: its reference lives in `XmlBuilderMC`, which
  instantiates the recursive `FormatCodec`.
* Everything about `FormatCodec`.  It is recursive, and TLAPS cannot prove
  in a module that reaches a RECURSIVE operator.
* `BitMaskBits` for widths other than 4.  The provers cannot evaluate `^`,
  so it is the refinement theorem's hypothesis.  TLC checks it at the
  width of the runs.

## Not modelled

* libxml2's parsing and the tree it produces: the document is an input.
* `iio_channel_init_finalize`: it derives the modifier and type from the id
  and has no error path.
* Logging, the storage-key suffixes of the registries, and the sort order
  other code may impose.
* A mask index at or above the channel count.  Spec section 4.2 makes
  `index < count` the callers' contract and says the original does not
  check it, so the runs and the proofs assume it (`CallerContract`).
