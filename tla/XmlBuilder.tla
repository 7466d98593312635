----------------------------- MODULE XmlBuilder -----------------------------
(***************************************************************************)
(* The XML backend's context builder (src/xml.c).                          *)
(*                                                                         *)
(* iio_create_xml_context_helper checks the root element, reads its        *)
(* attributes and allocates the context; iio_populate_xml_context_helper   *)
(* walks the children of <context> in document order, create_device walks  *)
(* the children of each <device>, create_channel those of each <channel>,  *)
(* setup_scan_element the attributes of each <scan-element>.  Every loop   *)
(* iteration is one step of this specification; pc names the loop (or the  *)
(* error label) the single thread of the builder is in.                    *)
(*                                                                         *)
(* Every allocation of the code may fail when MayFail holds.  The heap is  *)
(* abstracted to handles: a device or channel structure, and the memory    *)
(* its pointer fields own (strings, attribute arrays, channel array).      *)
(* live holds the allocated handles, freed the released ones; the error    *)
(* paths release what free_channel, free_device, iio_context_destroy or a  *)
(* bare free() release.                                                    *)
(*                                                                         *)
(* The document is given in Init and never changes.  Texts of XML          *)
(* attributes are abstracted to what the C conversion applied to them      *)
(* computes from them: strtol/strtoll see a digit run, its value and       *)
(* whether characters follow; strtof the same and whether it is out of     *)
(* range; the format text is decoded by the constant operator DecodeFormat *)
(* (module FormatCodec).                                                   *)
(***************************************************************************)
EXTENDS Integers, Sequences, Functions

CONSTANTS
  NoStr,          \* an XML attribute that is absent
  Keys, Vals,     \* names and values of <context-attribute>
  DevIds, ChnIds, \* id attributes of <device> and <channel>
  Names,          \* name and label attributes of <device> and <channel>
  AttrNames,      \* name and filename attributes of <attribute> elements
  Descs, Tags,    \* description and version-git attributes of <context>
  VerTexts,       \* version-major / version-minor texts
  IndexTexts,     \* index texts of <scan-element>
  FormatTexts,    \* format texts of <scan-element>
  ScaleTexts,     \* scale texts of <scan-element>
  DecodeFormat(_),\* the decoding of a format text by setup_scan_element
  Docs,           \* the documents the builder runs on
  UIntBits,       \* width of unsigned int
  LongBits,       \* width of long (32 on Windows, 64 on LP64 systems)
  LLongBits,      \* width of long long
  MayFail         \* whether an allocation may fail

ENOENT == 2

\* The data format of a channel, struct iio_data_format without the scale.
Format == [isBe: BOOLEAN, isSigned: BOOLEAN, isFullyDefined: BOOLEAN,
           bits: Nat, length: Nat, repeat: Nat, shift: Nat]
\* Its unsigned int fields, the ones sscanf stores into.
FormatField == {"bits", "length", "repeat", "shift"}

(***************************************************************************)
(* Texts as the C conversions see them.  digits: the conversion consumed   *)
(* at least one digit (end != content); val: the mathematical value of the *)
(* sign and digits; rest: characters follow the number, end is not at NUL. *)
(* A scale text also says whether strtof reports ERANGE; its value is kept *)
(* as the text's identity, since nothing here computes with it.            *)
(***************************************************************************)
NumText == [digits: BOOLEAN, val: Int, rest: BOOLEAN]
ScaleText == [digits: BOOLEAN, erange: BOOLEAN, rest: BOOLEAN, val: Nat]

Opt(S) == S \cup {NoStr}

\* The elements of a document, by the attributes the builder reads.
ScanProp ==
       [key: {"index"}, text: IndexTexts]
  \cup [key: {"format"}, text: FormatTexts]
  \cup [key: {"scale"}, text: ScaleTexts]
  \cup [key: {"other"}, text: {NoStr}]
OtherElem == [kind: {"other"}]   \* a text node or an unknown element
ChnChild ==
       [kind: {"attribute"}, name: Opt(AttrNames), filename: Opt(AttrNames)]
  \cup [kind: {"scan-element"}, props: Seq(ScanProp)]
  \cup OtherElem
ChnElem == [kind: {"channel"}, id: Opt(ChnIds), name: Opt(Names),
            type: {NoStr, "input", "output", "other"}, children: Seq(ChnChild)]
DevAttrKinds == {"attribute", "debug-attribute", "buffer-attribute"}
DevChild == ChnElem \cup [kind: DevAttrKinds, name: Opt(AttrNames)] \cup OtherElem
DevElem == [kind: {"device"}, id: Opt(DevIds), name: Opt(Names),
            label: Opt(Names), children: Seq(DevChild)]
CtxAttrElem == [kind: {"context-attribute"}, name: Opt(Keys), value: Opt(Vals)]
CtxChild == CtxAttrElem \cup DevElem \cup OtherElem
Doc == [isContext: BOOLEAN, desc: Opt(Descs), major: Opt(VerTexts),
        minor: Opt(VerTexts), git: Opt(Tags), children: Seq(CtxChild)]

ASSUME ConstantsAssumption ==
  /\ NoStr \notin Keys \cup Vals \cup DevIds \cup ChnIds \cup Names
                  \cup AttrNames \cup Descs \cup Tags
  /\ VerTexts \subseteq NumText /\ IndexTexts \subseteq NumText
  /\ ScaleTexts \subseteq ScaleText
  /\ \A t \in FormatTexts :
       DecodeFormat(t) \in [ok: BOOLEAN, fmt: Format, written: SUBSET FormatField]
  /\ Docs \subseteq Doc
  /\ UIntBits \in Nat \ {0} /\ LongBits \in Nat \ {0} /\ LLongBits \in Nat \ {0}
  /\ LongBits <= LLongBits
  /\ MayFail \in BOOLEAN

\* The powers of two of the widths are positive integers (the provers do
\* not evaluate ^).
ASSUME PowerAssumption ==
  \A w \in {UIntBits, LongBits - 1, LongBits, LLongBits - 1} : 2^w \in Nat \ {0}

\* The conversions of the C code, at the widths of the build.
LongMax == 2^(LongBits - 1) - 1
LongMin == -(2^(LongBits - 1))
LLongMax == 2^(LLongBits - 1) - 1
\* strtol: the value, saturated at LONG_MIN/LONG_MAX on overflow.
Strtol(t) == IF t.val > LongMax THEN LongMax
             ELSE IF t.val < LongMin THEN LongMin ELSE t.val
\* Conversion of a long to unsigned int: the value modulo 2^UIntBits.
ToUInt(v) == v % 2^UIntBits
\* Conversion of a long long to long: two's complement wrap-around.
ToLong(v) == LET m == v % 2^LongBits
             IN IF m > LongMax THEN m - 2^LongBits ELSE m

\* The channel, device and context being built (struct iio_channel,
\* struct iio_device, struct iio_context, the fields this code sets).
\* pos is the place of the element in the document, the handle of the
\* memory allocated for it.
Channel == [pos: Nat \X Nat, id: Opt(ChnIds), name: Opt(Names),
            isOutput: BOOLEAN, isScanElement: BOOLEAN, index: Int,
            format: Format, withScale: BOOLEAN, scale: Nat,
            attrs: Seq(AttrNames \X AttrNames)]
Device == [pos: Nat, id: Opt(DevIds), name: Opt(Names), label: Opt(Names),
           attrs: Seq(AttrNames), debugAttrs: Seq(AttrNames),
           bufferAttrs: Seq(AttrNames), channels: Seq(Channel)]
Context == [desc: Opt(Descs), major: Nat, minor: Nat, gitTag: Opt(Tags),
            attrs: Seq(Keys \X Vals), devices: Seq(Device)]

\* Heap handles: the context, a device or channel structure ("dev",
\* "chn") and the memory its pointer fields own ("devdata", "chndata").
Handle == {"ctx", "dev", "devdata", "chn", "chndata"} \X Nat \X Nat
CtxHandle == <<"ctx", 0, 0>>
ChnHandles(c) == {<<"chn", c.pos[1], c.pos[2]>>, <<"chndata", c.pos[1], c.pos[2]>>}
DevHandles(d) == {<<"dev", d.pos, 0>>, <<"devdata", d.pos, 0>>}
                 \cup UNION {ChnHandles(d.channels[j]) : j \in DOMAIN d.channels}
CtxHandles(c) == {CtxHandle} \cup UNION {DevHandles(c.devices[i]) : i \in DOMAIN c.devices}

Errors == {"none", "EINVAL", "ENOMEM"}
Labels == {"start", "context", "device", "channel", "scan",
           "failChannel", "failDevice", "failContext", "done"}

VARIABLES
  doc,      \* the XML document
  pc,       \* the loop or error label the builder is at
  ci,       \* the current child of <context>
  di,       \* the current child of <device>
  ki,       \* the current child of <channel>
  si,       \* the current attribute of <scan-element>
  ctx,      \* the context being built
  dev,      \* the device create_device is building
  chn,      \* the channel create_channel is building
  err,      \* the error code being returned, "none" when there is none
  live,     \* the allocated handles
  freed     \* the released handles

vars == <<doc, pc, ci, di, ki, si, ctx, dev, chn, err, live, freed>>
heap == <<live, freed>>

\* The element each loop is at.
CtxNode == doc.children[ci]
DevNode == CtxNode.children[di]
ChnNode == DevNode.children[ki]
ScanNode == ChnNode.props[si]

\* Release of the handles S by free(): what is live in S becomes freed.
Release(S) == /\ live' = live \ S
              /\ freed' = freed \cup (S \cap live)

\* Leave the current loop for an error label with an error code.
Fail(label, code) == pc' = label /\ err' = code

NoContext == [desc |-> NoStr, major |-> 0, minor |-> 0, gitTag |-> NoStr,
              attrs |-> <<>>, devices |-> <<>>]
ZeroFormat == [isBe |-> FALSE, isSigned |-> FALSE, isFullyDefined |-> FALSE,
               bits |-> 0, length |-> 0, repeat |-> 0, shift |-> 0]
NoDevice == [pos |-> 0, id |-> NoStr, name |-> NoStr, label |-> NoStr,
             attrs |-> <<>>, debugAttrs |-> <<>>, bufferAttrs |-> <<>>,
             channels |-> <<>>]
NoChannel == [pos |-> <<0, 0>>, id |-> NoStr, name |-> NoStr,
              isOutput |-> FALSE, isScanElement |-> FALSE, index |-> 0,
              format |-> ZeroFormat, withScale |-> FALSE, scale |-> 0,
              attrs |-> <<>>]

Init ==
  /\ doc \in Docs
  /\ pc = "start"
  /\ ci = 0 /\ di = 0 /\ ki = 0 /\ si = 0
  /\ ctx = NoContext /\ dev = NoDevice /\ chn = NoChannel
  /\ err = "none"
  /\ live = {} /\ freed = {}
-----------------------------------------------------------------------------
(***************************************************************************)
(* iio_create_xml_context_helper (lines 406-472): a root other than       *)
(* <context> is refused before anything is allocated; the context is      *)
(* allocated with the description; the version numbers and the duplicated  *)
(* git tag are stored only when version-git is present.                    *)
(***************************************************************************)
VersionOf(t) == IF t = NoStr THEN 0 ELSE ToUInt(Strtol(t))
NewContext ==
  [NoContext EXCEPT !.desc   = doc.desc,
                    !.major  = IF doc.git = NoStr THEN 0 ELSE VersionOf(doc.major),
                    !.minor  = IF doc.git = NoStr THEN 0 ELSE VersionOf(doc.minor),
                    !.gitTag = doc.git]

iio_create_xml_context_helper ==
  /\ pc = "start"
  /\ \/ /\ ~doc.isContext
        /\ Fail("done", "EINVAL")
        /\ UNCHANGED <<ctx, heap>>
     \/ /\ doc.isContext /\ MayFail           \* the context is not allocated
        /\ Fail("done", "ENOMEM")
        /\ UNCHANGED <<ctx, heap>>
     \/ /\ doc.isContext
        /\ ctx' = NewContext
        /\ \/ /\ doc.git # NoStr /\ MayFail   \* iio_strdup(git_tag) fails
              /\ Fail("done", "ENOMEM")
              /\ freed' = freed \cup {CtxHandle}
              /\ UNCHANGED live
           \/ /\ pc' = "context"
              /\ live' = live \cup {CtxHandle}
              /\ UNCHANGED <<err, freed>>
  /\ ci' = 1
  /\ UNCHANGED <<doc, di, ki, si, dev, chn>>

(***************************************************************************)
(* iio_populate_xml_context_helper, one iteration per child of <context>   *)
(* (lines 368-404).                                                        *)
(***************************************************************************)
HasKey(attrs, k) == \E i \in DOMAIN attrs : attrs[i][1] = k
\* iio_context_add_attr: a key already present keeps its first value.
AddCtxAttr(attrs, k, v) == IF HasKey(attrs, k) THEN attrs ELSE Append(attrs, <<k, v>>)

\* <context-attribute>: parse_context_attr (lines 349-366, 376-381).
parse_context_attr ==
  /\ pc = "context" /\ ci <= Len(doc.children)
  /\ CtxNode.kind = "context-attribute"
  /\ \/ /\ NoStr \in {CtxNode.name, CtxNode.value}
        /\ Fail("failContext", "EINVAL")
        /\ UNCHANGED <<ctx, ci>>
     \/ /\ NoStr \notin {CtxNode.name, CtxNode.value}
        /\ ~HasKey(ctx.attrs, CtxNode.name) /\ MayFail
        /\ Fail("failContext", "ENOMEM")
        /\ UNCHANGED <<ctx, ci>>
     \/ /\ NoStr \notin {CtxNode.name, CtxNode.value}
        /\ ctx' = [ctx EXCEPT !.attrs = AddCtxAttr(@, CtxNode.name, CtxNode.value)]
        /\ ci' = ci + 1
        /\ UNCHANGED <<pc, err>>
  /\ UNCHANGED <<doc, di, ki, si, dev, chn, heap>>

\* A text node or an unknown element under <context> (lines 382-387).
context_skip ==
  /\ pc = "context" /\ ci <= Len(doc.children)
  /\ CtxNode.kind = "other"
  /\ ci' = ci + 1
  /\ UNCHANGED <<doc, pc, di, ki, si, ctx, dev, chn, err, heap>>

\* Whether an element has a string attribute the builder duplicates.
HasStrings(n, fields) == \E f \in fields : n[f] # NoStr

\* <device>: create_device up to its children loop (lines 246-282,
\* 389-394).  A failed zalloc returns before anything is allocated.
create_device ==
  /\ pc = "context" /\ ci <= Len(doc.children)
  /\ CtxNode.kind = "device"
  /\ \/ /\ MayFail
        /\ Fail("failContext", "ENOMEM")
        /\ UNCHANGED <<dev, di, heap>>
     \/ /\ dev' = [NoDevice EXCEPT !.pos = ci, !.id = CtxNode.id,
                                   !.name = CtxNode.name, !.label = CtxNode.label]
        /\ live' = live \cup {<<"dev", ci, 0>>}
                   \cup (IF HasStrings(CtxNode, {"id", "name", "label"})
                         THEN {<<"devdata", ci, 0>>} ELSE {})
        /\ UNCHANGED freed
        /\ \/ /\ HasStrings(CtxNode, {"id", "name", "label"}) /\ MayFail
              /\ Fail("failDevice", "ENOMEM")
              /\ UNCHANGED di
           \/ /\ CtxNode.id = NoStr
              /\ Fail("failDevice", "EINVAL")
              /\ UNCHANGED di
           \/ /\ CtxNode.id # NoStr
              /\ pc' = "device" /\ di' = 1
              /\ UNCHANGED err
  /\ UNCHANGED <<doc, ci, ki, si, ctx, chn>>

\* The end of create_device's children loop, then iio_context_add_device
\* (lines 324, 396-400); when that fails the device is released by a
\* bare free(dev).
create_device_end ==
  /\ pc = "device" /\ di > Len(CtxNode.children)
  /\ \/ /\ MayFail
        /\ Release({<<"dev", dev.pos, 0>>})
        /\ Fail("failContext", "ENOMEM")
        /\ UNCHANGED <<ctx, ci>>
     \/ /\ ctx' = [ctx EXCEPT !.devices = Append(@, dev)]
        /\ pc' = "context" /\ ci' = ci + 1
        /\ UNCHANGED <<err, heap>>
  /\ UNCHANGED <<doc, di, ki, si, dev, chn>>

\* The end of the children of <context>: iio_context_init (line 403), which
\* allocates the channel mask of every device.
iio_context_init ==
  /\ pc = "context" /\ ci > Len(doc.children)
  /\ \/ /\ MayFail
        /\ Fail("failContext", "ENOMEM")
     \/ /\ pc' = "done"
        /\ UNCHANGED err
  /\ UNCHANGED <<doc, ci, di, ki, si, ctx, dev, chn, heap>>
-----------------------------------------------------------------------------
(***************************************************************************)
(* create_device, one iteration per child of <device> (lines 284-322).     *)
(***************************************************************************)
\* The registry of struct iio_device an attribute element goes to.
RegistryOf(kind) == CASE kind = "attribute"        -> "attrs"
                      [] kind = "debug-attribute"  -> "debugAttrs"
                      [] kind = "buffer-attribute" -> "bufferAttrs"
\* add_iio_dev_attr: a name already in the registry is not added again.
AddDevAttr(names, a) == IF a \in Range(names) THEN names ELSE Append(names, a)

\* <attribute>, <debug-attribute>, <buffer-attribute>: add_attr_to_device
\* (lines 72-101, 305-316).
add_attr_to_device ==
  /\ pc = "device" /\ di <= Len(CtxNode.children)
  /\ DevNode.kind \in DevAttrKinds
  /\ LET reg == RegistryOf(DevNode.kind) IN
     \/ /\ DevNode.name = NoStr
        /\ Fail("failDevice", "EINVAL")
        /\ UNCHANGED <<dev, di>>
     \/ /\ DevNode.name # NoStr /\ DevNode.name \notin Range(dev[reg]) /\ MayFail
        /\ Fail("failDevice", "ENOMEM")
        /\ UNCHANGED <<dev, di>>
     \/ /\ DevNode.name # NoStr
        /\ dev' = [dev EXCEPT ![reg] = AddDevAttr(@, DevNode.name)]
        /\ di' = di + 1
        /\ UNCHANGED <<pc, err>>
  /\ UNCHANGED <<doc, ci, ki, si, ctx, chn, heap>>

\* A text node or an unknown element under <device> (lines 317-321).
device_skip ==
  /\ pc = "device" /\ di <= Len(CtxNode.children)
  /\ DevNode.kind = "other"
  /\ di' = di + 1
  /\ UNCHANGED <<doc, pc, ci, ki, si, ctx, dev, chn, err, heap>>

\* <channel>: create_channel up to its children loop (lines 177-218,
\* 285-292).  A failed zalloc returns before anything is allocated; the
\* index starts at -ENOENT, "no index".
create_channel ==
  /\ pc = "device" /\ di <= Len(CtxNode.children)
  /\ DevNode.kind = "channel"
  /\ \/ /\ MayFail
        /\ Fail("failDevice", "ENOMEM")
        /\ UNCHANGED <<chn, ki, heap>>
     \/ /\ chn' = [NoChannel EXCEPT !.pos = <<ci, di>>, !.id = DevNode.id,
                                    !.name = DevNode.name,
                                    !.isOutput = (DevNode.type = "output"),
                                    !.index = -ENOENT]
        /\ live' = live \cup {<<"chn", ci, di>>}
                   \cup (IF HasStrings(DevNode, {"id", "name"})
                         THEN {<<"chndata", ci, di>>} ELSE {})
        /\ UNCHANGED freed
        /\ \/ /\ HasStrings(DevNode, {"id", "name"}) /\ MayFail
              /\ Fail("failChannel", "ENOMEM")
              /\ UNCHANGED ki
           \/ /\ DevNode.id = NoStr
              /\ Fail("failChannel", "EINVAL")
              /\ UNCHANGED ki
           \/ /\ DevNode.id # NoStr
              /\ pc' = "channel" /\ ki' = 1
              /\ UNCHANGED err
  /\ UNCHANGED <<doc, ci, di, si, ctx, dev>>

\* The end of create_channel's children loop (lines 237-239), then the
\* channel array of the device grows (lines 294-304); when that realloc
\* fails the channel is released by a bare free(chn).
create_channel_end ==
  /\ pc = "channel" /\ ki > Len(DevNode.children)
  /\ \/ /\ MayFail
        /\ Release({<<"chn", chn.pos[1], chn.pos[2]>>})
        /\ Fail("failDevice", "ENOMEM")
        /\ UNCHANGED <<dev, di>>
     \/ /\ dev' = [dev EXCEPT !.channels = Append(@, chn)]
        /\ pc' = "device" /\ di' = di + 1
        /\ UNCHANGED <<err, heap>>
  /\ UNCHANGED <<doc, ci, ki, si, ctx, chn>>

(***************************************************************************)
(* create_channel, one iteration per child of <channel> (lines 220-235).   *)
(***************************************************************************)
\* Mutant: the filename is not defaulted to the name.
add_attr_to_channel_nodefault ==
  /\ pc = "channel" /\ ki <= Len(DevNode.children)
  /\ ChnNode.kind = "attribute"
  /\ \/ /\ ChnNode.name = NoStr
        /\ Fail("failChannel", "EINVAL")
        /\ UNCHANGED <<chn, ki>>
     \/ /\ HasStrings(ChnNode, {"name", "filename"}) /\ MayFail
        /\ Fail("failChannel", "ENOMEM")
        /\ UNCHANGED <<chn, ki>>
     \/ /\ ChnNode.name # NoStr
        /\ chn' = [chn EXCEPT !.attrs = Append(@, <<ChnNode.name, ChnNode.filename>>)]
        /\ ki' = ki + 1
        /\ UNCHANGED <<pc, err>>
  /\ UNCHANGED <<doc, ci, di, si, ctx, dev, heap>>

\* Mutant: an allocation failure reports -EINVAL (err initialised to it).
add_attr_to_channel_einval ==
  /\ pc = "channel" /\ ki <= Len(DevNode.children)
  /\ ChnNode.kind = "attribute"
  /\ \/ /\ ChnNode.name = NoStr
        /\ Fail("failChannel", "EINVAL")
        /\ UNCHANGED <<chn, ki>>
     \/ /\ HasStrings(ChnNode, {"name", "filename"}) /\ MayFail
        /\ Fail("failChannel", "EINVAL")
        /\ UNCHANGED <<chn, ki>>
     \/ /\ ChnNode.name # NoStr
        /\ chn' = [chn EXCEPT !.attrs = Append(@, <<ChnNode.name,
                     IF ChnNode.filename = NoStr THEN ChnNode.name
                                                 ELSE ChnNode.filename>>)]
        /\ ki' = ki + 1
        /\ UNCHANGED <<pc, err>>
  /\ UNCHANGED <<doc, ci, di, si, ctx, dev, heap>>

\* <attribute>: add_attr_to_channel (lines 22-70, 221-224); the filename
\* defaults to the name.  A strdup of the name or the filename, or the
\* realloc of the array, may fail; its own strings are freed on its error
\* paths.
add_attr_to_channel ==
  /\ pc = "channel" /\ ki <= Len(DevNode.children)
  /\ ChnNode.kind = "attribute"
  /\ \/ /\ ChnNode.name = NoStr
        /\ Fail("failChannel", "EINVAL")
        /\ UNCHANGED <<chn, ki>>
     \/ /\ HasStrings(ChnNode, {"name", "filename"}) /\ MayFail
        /\ Fail("failChannel", "ENOMEM")
        /\ UNCHANGED <<chn, ki>>
     \/ /\ ChnNode.name # NoStr
        /\ chn' = [chn EXCEPT !.attrs = Append(@, <<ChnNode.name,
                     IF ChnNode.filename = NoStr THEN ChnNode.name
                                                 ELSE ChnNode.filename>>)]
        /\ ki' = ki + 1
        /\ UNCHANGED <<pc, err>>
  /\ UNCHANGED <<doc, ci, di, si, ctx, dev, heap>>

\* <scan-element>: the channel becomes a scan element and
\* setup_scan_element starts on its attributes (lines 103-108, 225-227).
setup_scan_element ==
  /\ pc = "channel" /\ ki <= Len(DevNode.children)
  /\ ChnNode.kind = "scan-element"
  /\ chn' = [chn EXCEPT !.isScanElement = TRUE]
  /\ pc' = "scan" /\ si' = 1
  /\ UNCHANGED <<doc, ci, di, ki, ctx, dev, err, heap>>

\* Mutant: the skip does not move to the next child.
channel_skip_stuck ==
  /\ pc = "channel" /\ ki <= Len(DevNode.children)
  /\ ChnNode.kind = "other"
  /\ UNCHANGED vars

\* A text node or an unknown element under <channel> (lines 230-234).
channel_skip ==
  /\ pc = "channel" /\ ki <= Len(DevNode.children)
  /\ ChnNode.kind = "other"
  /\ ki' = ki + 1
  /\ UNCHANGED <<doc, pc, ci, di, si, ctx, dev, chn, err, heap>>

(***************************************************************************)
(* setup_scan_element, one iteration per attribute (lines 108-175).        *)
(***************************************************************************)
\* strtoll(content, &end, 0) is accepted when it read digits, did not
\* overflow long long (ERANGE) and is not negative (line 117).
IndexAccepted(t) == t.digits /\ 0 <= t.val /\ t.val <= LLongMax

\* Mutant: a negative index is accepted.
scan_index_signed ==
  /\ pc = "scan" /\ si <= Len(ChnNode.props)
  /\ ScanNode.key = "index"
  /\ \/ /\ ~(ScanNode.text.digits /\ ScanNode.text.val <= LLongMax)
        /\ Fail("failChannel", "EINVAL")
        /\ UNCHANGED <<chn, si>>
     \/ /\ ScanNode.text.digits /\ ScanNode.text.val <= LLongMax
        /\ chn' = [chn EXCEPT !.index = ToLong(ScanNode.text.val)]
        /\ si' = si + 1
        /\ UNCHANGED <<pc, err>>
  /\ UNCHANGED <<doc, ci, di, ki, ctx, dev, heap>>

\* Mutant: a refused index frees the channel before returning, which
\* create_channel frees again.
scan_index_frees ==
  /\ pc = "scan" /\ si <= Len(ChnNode.props)
  /\ ScanNode.key = "index"
  /\ \/ /\ ~IndexAccepted(ScanNode.text)
        /\ Release(ChnHandles(chn))
        /\ Fail("failChannel", "EINVAL")
        /\ UNCHANGED <<chn, si>>
     \/ /\ IndexAccepted(ScanNode.text)
        /\ chn' = [chn EXCEPT !.index = ToLong(ScanNode.text.val)]
        /\ si' = si + 1
        /\ UNCHANGED <<pc, err, heap>>
  /\ UNCHANGED <<doc, ci, di, ki, ctx, dev>>

\* index=: the long long is stored into the long chn->index (lines 111-119).
scan_index ==
  /\ pc = "scan" /\ si <= Len(ChnNode.props)
  /\ ScanNode.key = "index"
  /\ \/ /\ ~IndexAccepted(ScanNode.text)
        /\ Fail("failChannel", "EINVAL")
        /\ UNCHANGED <<chn, si>>
     \/ /\ IndexAccepted(ScanNode.text)
        /\ chn' = [chn EXCEPT !.index = ToLong(ScanNode.text.val)]
        /\ si' = si + 1
        /\ UNCHANGED <<pc, err>>
  /\ UNCHANGED <<doc, ci, di, ki, ctx, dev, heap>>

\* The format after a refused text: the fields sscanf (or the repeat = 1
\* before it) stored keep their new value.
StoredFormat(old, r) ==
  [old EXCEPT !.bits   = IF "bits" \in r.written THEN r.fmt.bits ELSE @,
              !.length = IF "length" \in r.written THEN r.fmt.length ELSE @,
              !.repeat = IF "repeat" \in r.written THEN r.fmt.repeat ELSE @,
              !.shift  = IF "shift" \in r.written THEN r.fmt.shift ELSE @]

\* format=: iio_sscanf on one of the two patterns (lines 120-154).
scan_format ==
  /\ pc = "scan" /\ si <= Len(ChnNode.props)
  /\ ScanNode.key = "format"
  /\ LET r == DecodeFormat(ScanNode.text) IN
     \/ /\ ~r.ok
        /\ chn' = [chn EXCEPT !.format = StoredFormat(@, r)]
        /\ Fail("failChannel", "EINVAL")
        /\ UNCHANGED si
     \/ /\ r.ok
        /\ chn' = [chn EXCEPT !.format = r.fmt]
        /\ si' = si + 1
        /\ UNCHANGED <<pc, err>>
  /\ UNCHANGED <<doc, ci, di, ki, ctx, dev, heap>>

\* strtof(content, &end) is accepted when it read a number and did not
\* report ERANGE (line 161).
ScaleAccepted(t) == t.digits /\ ~t.erange

\* scale=: a refused text clears with_scale before -EINVAL (lines 155-167).
scan_scale ==
  /\ pc = "scan" /\ si <= Len(ChnNode.props)
  /\ ScanNode.key = "scale"
  /\ \/ /\ ~ScaleAccepted(ScanNode.text)
        /\ chn' = [chn EXCEPT !.withScale = FALSE]
        /\ Fail("failChannel", "EINVAL")
        /\ UNCHANGED si
     \/ /\ ScaleAccepted(ScanNode.text)
        /\ chn' = [chn EXCEPT !.withScale = TRUE, !.scale = ScanNode.text.val]
        /\ si' = si + 1
        /\ UNCHANGED <<pc, err>>
  /\ UNCHANGED <<doc, ci, di, ki, ctx, dev, heap>>

\* An unknown attribute of <scan-element> (lines 168-171).
scan_skip ==
  /\ pc = "scan" /\ si <= Len(ChnNode.props)
  /\ ScanNode.key = "other"
  /\ si' = si + 1
  /\ UNCHANGED <<doc, pc, ci, di, ki, ctx, dev, chn, err, heap>>

\* setup_scan_element returns 0 (lines 174, 228-229).
setup_scan_element_end ==
  /\ pc = "scan" /\ si > Len(ChnNode.props)
  /\ pc' = "channel" /\ ki' = ki + 1
  /\ UNCHANGED <<doc, ci, di, si, ctx, dev, chn, err, heap>>

(***************************************************************************)
(* The error paths, from the innermost function outwards.                  *)
(***************************************************************************)
\* Mutant: the error path frees the channel structure only.
err_free_channel_struct ==
  /\ pc = "failChannel"
  /\ Release({<<"chn", chn.pos[1], chn.pos[2]>>})
  /\ pc' = "failDevice"
  /\ UNCHANGED <<doc, ci, di, ki, si, ctx, dev, chn, err>>

\* err_free_channel: free_channel(chn), then create_device jumps to its
\* own error label (lines 241-243, 288-292).
err_free_channel ==
  /\ pc = "failChannel"
  /\ Release(ChnHandles(chn))
  /\ pc' = "failDevice"
  /\ UNCHANGED <<doc, ci, di, ki, si, ctx, dev, chn, err>>

\* Mutant: the device error path resumes the loop over the children of
\* <context> instead of returning the error.
err_free_device_resume ==
  /\ pc = "failDevice"
  /\ Release(DevHandles(dev))
  /\ pc' = "context"
  /\ UNCHANGED <<doc, ci, di, ki, si, ctx, dev, chn, err>>

\* err_free_device: free_device(dev), then iio_populate_xml_context_helper
\* returns the error (lines 326-329, 390-394).
err_free_device ==
  /\ pc = "failDevice"
  /\ Release(DevHandles(dev))
  /\ pc' = "failContext"
  /\ UNCHANGED <<doc, ci, di, ki, si, ctx, dev, chn, err>>

\* iio_create_xml_context_helper destroys the context on an error of
\* iio_populate_xml_context_helper (lines 465-469).
iio_context_destroy ==
  /\ pc = "failContext"
  /\ Release(CtxHandles(ctx))
  /\ pc' = "done"
  /\ UNCHANGED <<doc, ci, di, ki, si, ctx, dev, chn, err>>

\* The builder has returned: a context, or an error and no context.
Terminated == pc = "done" /\ UNCHANGED vars

Next ==
  \/ iio_create_xml_context_helper
  \/ parse_context_attr \/ context_skip \/ create_device \/ create_device_end
  \/ iio_context_init
  \/ add_attr_to_device \/ device_skip \/ create_channel \/ create_channel_end
  \/ add_attr_to_channel \/ setup_scan_element \/ channel_skip
  \/ scan_index \/ scan_format \/ scan_scale \/ scan_skip
  \/ setup_scan_element_end
  \/ err_free_channel \/ err_free_device \/ iio_context_destroy
  \/ Terminated

\* The builder is a single thread that runs until it returns.
Spec == Init /\ [][Next]_vars /\ WF_vars(Next)

-----------------------------------------------------------------------------
(***************************************************************************)
(* Properties.                                                             *)
(***************************************************************************)
TypeOK ==
  /\ doc \in Doc
  /\ pc \in Labels
  /\ ci \in Nat /\ di \in Nat /\ ki \in Nat /\ si \in Nat
  /\ ctx \in Context /\ dev \in Device /\ chn \in Channel
  /\ err \in Errors
  /\ live \subseteq Handle /\ freed \subseteq Handle

\* The memory the builder can still reach: the context until it is
\* destroyed (and after a successful return, when the caller owns it), the
\* device create_device is building, the channel create_channel is building.
Reachable ==
  (IF pc \notin {"start", "done"} \/ (pc = "done" /\ err = "none")
   THEN CtxHandles(ctx) ELSE {})
  \cup (IF pc \in {"device", "channel", "scan", "failChannel", "failDevice"}
        THEN DevHandles(dev) ELSE {})
  \cup (IF pc \in {"channel", "scan", "failChannel"} THEN ChnHandles(chn) ELSE {})

\* No leak: every allocated handle is reachable from the context, the
\* device or the channel under construction; in particular a failed build
\* (the error paths of create_channel, create_device and
\* iio_create_xml_context_helper) leaves nothing allocated.
NoLeak == live \subseteq Reachable

\* No dangling pointer: nothing the builder can still reach (and will free
\* or hand to the caller) has been freed, so the error paths never free an
\* object twice and a returned context holds no freed channel or device.
NoDangling == Reachable \cap freed = {}


\* An error is final: once a loop has failed with an error code, every
\* later step returns that code and allocates nothing; the gotos of
\* create_channel, create_device, iio_populate_xml_context_helper and
\* iio_create_xml_context_helper only unwind, none resumes a loop, and no
\* later failure overwrites the first code.
ErrorIsFinal ==
  [][err # "none" => err' = err /\ live' \subseteq live]_vars

\* The builder returns: every walk of the document ends in a context or an
\* error.
BuildTerminates == <>(pc = "done")
=============================================================================
