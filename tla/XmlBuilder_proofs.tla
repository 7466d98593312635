------------------------- MODULE XmlBuilder_proofs -------------------------
(***************************************************************************)
(* Proofs about the XML context builder of module XmlBuilder, for every    *)
(* value of its constants: type correctness, the ownership invariant      *)
(* NoDangling (nothing the builder can still reach has been freed), the   *)
(* action property ErrorIsFinal (the error paths only unwind), and NoLeak *)
(* when no allocation fails.                                               *)
(***************************************************************************)
EXTENDS XmlBuilder, SequenceTheorems, TLAPS

(***************************************************************************)
(* What an element of a document is, by its kind.                          *)
(***************************************************************************)
AttrElem == [kind: {"attribute"}, name: Opt(AttrNames), filename: Opt(AttrNames)]
ScanElem == [kind: {"scan-element"}, props: Seq(ScanProp)]
DevAttrElem == [kind: DevAttrKinds, name: Opt(AttrNames)]

LEMMA CtxChildKind ==
  ASSUME NEW n \in CtxChild
  PROVE  /\ n.kind = "context-attribute" => n \in CtxAttrElem
         /\ n.kind = "device" => n \in DevElem
BY DEF CtxChild, CtxAttrElem, DevElem, OtherElem

LEMMA DevChildKind ==
  ASSUME NEW n \in DevChild
  PROVE  /\ n.kind \in DevAttrKinds => n \in DevAttrElem
         /\ n.kind = "channel" => n \in ChnElem
BY DEF DevChild, DevAttrElem, DevAttrKinds, ChnElem, OtherElem

LEMMA ChnChildKind ==
  ASSUME NEW n \in ChnChild
  PROVE  /\ n.kind = "attribute" => n \in AttrElem
         /\ n.kind = "scan-element" => n \in ScanElem
BY DEF ChnChild, AttrElem, ScanElem, OtherElem

LEMMA ScanPropKey ==
  ASSUME NEW p \in ScanProp
  PROVE  /\ p.key = "index" => p.text \in IndexTexts
         /\ p.key = "format" => p.text \in FormatTexts
         /\ p.key = "scale" => p.text \in ScaleTexts
BY DEF ScanProp

(***************************************************************************)
(* The conversions yield numbers of the types the structures hold.         *)
(***************************************************************************)
LEMMA ConversionTypes ==
  /\ \A t \in NumText : Strtol(t) \in Int
  /\ \A v \in Int : ToUInt(v) \in Nat
  /\ \A v \in Int : ToLong(v) \in Int
  /\ \A t \in Opt(VerTexts) : VersionOf(t) \in Nat
<1>1. /\ 2^UIntBits \in Nat \ {0} /\ 2^(LongBits - 1) \in Nat \ {0}
      /\ 2^LongBits \in Nat \ {0}
  BY PowerAssumption
<1>2. \A t \in NumText : Strtol(t) \in Int
  BY <1>1 DEF Strtol, NumText, LongMax, LongMin
<1>3. \A v \in Int : ToUInt(v) \in Nat
  BY <1>1 DEF ToUInt
<1>4. \A v \in Int : ToLong(v) \in Int
  BY <1>1 DEF ToLong, LongMax
<1>5. \A t \in Opt(VerTexts) : VersionOf(t) \in Nat
  BY <1>2, <1>3, ConstantsAssumption DEF VersionOf, Opt
<1>. QED  BY <1>2, <1>3, <1>4, <1>5

(***************************************************************************)
(* The inductive invariant: the type invariant and where the cursors of    *)
(* the four loops stand.  When the builder is inside a <device>, a        *)
(* <channel> or a <scan-element>, the cursor of the enclosing loop is on   *)
(* an element of that kind; without this the type of the element an       *)
(* action reads is unknown.                                                *)
(***************************************************************************)
Cursors ==
  /\ pc # "start" => ci >= 1
  /\ pc \in {"device", "channel", "scan"} =>
       /\ ci \in 1..Len(doc.children) /\ CtxNode.kind = "device" /\ di >= 1
  /\ pc \in {"channel", "scan"} =>
       /\ di \in 1..Len(CtxNode.children) /\ DevNode.kind = "channel" /\ ki >= 1
  /\ pc = "scan" =>
       /\ ki \in 1..Len(DevNode.children) /\ ChnNode.kind = "scan-element"
       /\ si >= 1

IInv == TypeOK /\ Cursors

LEMMA InitIInv == Init => IInv
<1> SUFFICES ASSUME Init PROVE IInv  OBVIOUS
<1>1. NoContext \in Context /\ NoDevice \in Device /\ NoChannel \in Channel
  BY DEF NoContext, Context, NoDevice, Device, NoChannel, Channel, ZeroFormat,
         Format, Opt, ENOENT
<1>2. doc \in Doc
  BY ConstantsAssumption DEF Init
<1>. QED  BY <1>1, <1>2 DEF Init, IInv, TypeOK, Cursors, Labels, Errors

(***************************************************************************)
(* Each action preserves IInv.                                             *)
(***************************************************************************)
LEMMA StepCreateContext == IInv /\ iio_create_xml_context_helper => IInv'
<1> SUFFICES ASSUME IInv, iio_create_xml_context_helper PROVE IInv'  OBVIOUS
<1>1. NewContext \in Context
  <2>1. /\ doc.desc \in Opt(Descs) /\ doc.git \in Opt(Tags)
        /\ doc.major \in Opt(VerTexts) /\ doc.minor \in Opt(VerTexts)
    BY DEF IInv, TypeOK, Doc
  <2>2. /\ (IF doc.git = NoStr THEN 0 ELSE VersionOf(doc.major)) \in Nat
        /\ (IF doc.git = NoStr THEN 0 ELSE VersionOf(doc.minor)) \in Nat
    BY <2>1, ConversionTypes
  <2>3. NoContext \in Context
    BY DEF NoContext, Context, Opt
  <2>. QED  BY <2>1, <2>2, <2>3, Zenon DEF NewContext, Context
<1>2. CtxHandle \in Handle  BY DEF CtxHandle, Handle
<1>. QED
  BY <1>1, <1>2
  DEF iio_create_xml_context_helper, Fail, IInv, TypeOK, Cursors, Labels, Errors, heap

\* The element the context loop is at, when it is in range.
LEMMA CtxNodeType ==
  ASSUME TypeOK, NEW i \in 1..Len(doc.children)
  PROVE  doc.children[i] \in CtxChild
BY DEF TypeOK, Doc

LEMMA StepParseContextAttr == IInv /\ parse_context_attr => IInv'
<1> SUFFICES ASSUME IInv, parse_context_attr PROVE IInv'  OBVIOUS
<1>1. CtxNode \in CtxAttrElem
  BY CtxNodeType, CtxChildKind DEF IInv, TypeOK, Cursors, parse_context_attr, CtxNode
<1>2. ctx' \in Context
  <2>1. CASE NoStr \notin {CtxNode.name, CtxNode.value}
    <3>1. <<CtxNode.name, CtxNode.value>> \in Keys \X Vals
      BY <1>1, <2>1 DEF CtxAttrElem, Opt
    <3>2. AddCtxAttr(ctx.attrs, CtxNode.name, CtxNode.value) \in Seq(Keys \X Vals)
      BY <3>1 DEF AddCtxAttr, IInv, TypeOK, Context
    <3>. QED  BY <3>2 DEF parse_context_attr, IInv, TypeOK, Context
  <2>2. CASE NoStr \in {CtxNode.name, CtxNode.value}
    BY <2>2 DEF parse_context_attr, IInv, TypeOK
  <2>. QED  BY <2>1, <2>2
<1>. QED
  BY <1>2 DEF parse_context_attr, Fail, IInv, TypeOK, Cursors, Labels, Errors, heap

LEMMA StepContextSkip == IInv /\ context_skip => IInv'
BY DEF context_skip, IInv, TypeOK, Cursors, heap, CtxNode, DevNode, ChnNode

LEMMA StepCreateDevice == IInv /\ create_device => IInv'
<1> SUFFICES ASSUME IInv, create_device PROVE IInv'  OBVIOUS
<1>1. CtxNode \in DevElem
  BY CtxNodeType, CtxChildKind DEF IInv, TypeOK, Cursors, create_device, CtxNode
<1>2. ci \in Nat /\ ci >= 1 /\ ci <= Len(doc.children)
  BY DEF IInv, TypeOK, Cursors, create_device
<1>3. dev' \in Device
  <2>1. NoDevice \in Device
    BY DEF NoDevice, Device, Opt
  <2>2. /\ CtxNode.id \in Opt(DevIds) /\ CtxNode.name \in Opt(Names)
        /\ CtxNode.label \in Opt(Names)
    BY <1>1 DEF DevElem
  <2>3. [NoDevice EXCEPT !.pos = ci, !.id = CtxNode.id, !.name = CtxNode.name,
                         !.label = CtxNode.label] \in Device
    BY <1>2, <2>1, <2>2, Zenon DEF Device
  <2>. QED  BY <2>3 DEF create_device, IInv, TypeOK
<1>4. live' \subseteq Handle
  BY <1>2 DEF create_device, IInv, TypeOK, Handle, heap
<1>5. Cursors'
  BY <1>1, <1>2 DEF create_device, Fail, Cursors, CtxNode, IInv, TypeOK
<1>. QED
  BY <1>3, <1>4, <1>5 DEF create_device, Fail, IInv, TypeOK, Labels, Errors, heap

LEMMA StepCreateDeviceEnd == IInv /\ create_device_end => IInv'
<1> SUFFICES ASSUME IInv, create_device_end PROVE IInv'  OBVIOUS
<1>1. ctx' \in Context
  <2>1. Append(ctx.devices, dev) \in Seq(Device)
    BY AppendProperties DEF IInv, TypeOK, Context
  <2>2. [ctx EXCEPT !.devices = Append(ctx.devices, dev)] \in Context
    BY <2>1, Zenon DEF IInv, TypeOK, Context
  <2>. QED  BY <2>2 DEF create_device_end, IInv, TypeOK
<1>2. live' \subseteq Handle /\ freed' \subseteq Handle
  BY DEF create_device_end, Release, IInv, TypeOK, Handle, heap
<1>. QED
  BY <1>1, <1>2 DEF create_device_end, Fail, IInv, TypeOK, Cursors, Labels, Errors, heap

LEMMA StepContextInit == IInv /\ iio_context_init => IInv'
BY DEF iio_context_init, Fail, IInv, TypeOK, Cursors, Labels, Errors, heap

\* The elements the inner loops are at, when they are in range.
LEMMA DevNodeType ==
  ASSUME IInv, pc \in {"device", "channel", "scan"},
         NEW j \in 1..Len(CtxNode.children)
  PROVE  CtxNode \in DevElem /\ CtxNode.children[j] \in DevChild
<1>1. CtxNode \in DevElem
  BY CtxNodeType, CtxChildKind DEF IInv, TypeOK, Cursors, CtxNode
<1>. QED  BY <1>1 DEF DevElem

LEMMA ChnNodeType ==
  ASSUME IInv, pc \in {"channel", "scan"}, NEW k \in 1..Len(DevNode.children)
  PROVE  DevNode \in ChnElem /\ DevNode.children[k] \in ChnChild
<1>1. DevNode \in ChnElem
  BY DevNodeType, DevChildKind DEF IInv, Cursors, DevNode
<1>. QED  BY <1>1 DEF ChnElem

LEMMA ScanNodeType ==
  ASSUME IInv, pc = "scan", NEW i \in 1..Len(ChnNode.props)
  PROVE  ChnNode \in ScanElem /\ ChnNode.props[i] \in ScanProp
<1>1. ChnNode \in ScanElem
  BY ChnNodeType, ChnChildKind DEF IInv, Cursors, ChnNode
<1>. QED  BY <1>1 DEF ScanElem

\* The device registries hold attribute names.
LEMMA AddDevAttrType ==
  ASSUME NEW names \in Seq(AttrNames), NEW a \in AttrNames
  PROVE  AddDevAttr(names, a) \in Seq(AttrNames)
BY AppendProperties DEF AddDevAttr

LEMMA StepAddAttrToDevice == IInv /\ add_attr_to_device => IInv'
<1> SUFFICES ASSUME IInv, add_attr_to_device PROVE IInv'  OBVIOUS
<1>1. DevNode \in DevAttrElem
  BY DevNodeType, DevChildKind DEF IInv, TypeOK, Cursors, add_attr_to_device, DevNode
<1>2. dev' \in Device
  <2>1. CASE DevNode.name # NoStr /\ di' = di + 1
    <3>1. DevNode.name \in AttrNames
      BY <1>1, <2>1 DEF DevAttrElem, Opt
    <3>2. /\ dev \in Device
          /\ dev' = [dev EXCEPT ![RegistryOf(DevNode.kind)] =
                                  AddDevAttr(@, DevNode.name)]
      BY <2>1 DEF add_attr_to_device, Fail, IInv, TypeOK
    <3>3. CASE DevNode.kind = "attribute"
      BY <3>1, <3>2, <3>3, AddDevAttrType, Zenon DEF RegistryOf, Device
    <3>4. CASE DevNode.kind = "debug-attribute"
      BY <3>1, <3>2, <3>4, AddDevAttrType, Zenon DEF RegistryOf, Device
    <3>5. CASE DevNode.kind = "buffer-attribute"
      BY <3>1, <3>2, <3>5, AddDevAttrType, Zenon DEF RegistryOf, Device
    <3>. QED  BY <1>1, <3>3, <3>4, <3>5 DEF DevAttrElem, DevAttrKinds
  <2>2. CASE ~(DevNode.name # NoStr /\ di' = di + 1)
    BY <2>2 DEF add_attr_to_device, Fail, IInv, TypeOK
  <2>. QED  BY <2>1, <2>2
<1>3. Cursors'
  BY DEF add_attr_to_device, Fail, Cursors, IInv, TypeOK, CtxNode
<1>. QED
  BY <1>2, <1>3 DEF add_attr_to_device, Fail, IInv, TypeOK, Labels, Errors, heap

LEMMA StepDeviceSkip == IInv /\ device_skip => IInv'
BY DEF device_skip, IInv, TypeOK, Cursors, heap, CtxNode, DevNode, ChnNode

LEMMA StepCreateChannel == IInv /\ create_channel => IInv'
<1> SUFFICES ASSUME IInv, create_channel PROVE IInv'  OBVIOUS
<1>1. DevNode \in ChnElem
  BY DevNodeType, DevChildKind DEF IInv, TypeOK, Cursors, create_channel, DevNode
<1>2. /\ ci \in Nat /\ ci >= 1 /\ ci <= Len(doc.children)
      /\ di \in Nat /\ di >= 1 /\ di <= Len(CtxNode.children)
  BY DEF IInv, TypeOK, Cursors, create_channel
<1>3. chn' \in Channel
  <2>1. NoChannel \in Channel
    BY DEF NoChannel, Channel, ZeroFormat, Format, Opt
  <2>2. /\ DevNode.id \in Opt(ChnIds) /\ DevNode.name \in Opt(Names)
        /\ -ENOENT \in Int /\ <<ci, di>> \in Nat \X Nat
    BY <1>1, <1>2 DEF ChnElem, ENOENT
  <2>3. [NoChannel EXCEPT !.pos = <<ci, di>>, !.id = DevNode.id,
                          !.name = DevNode.name,
                          !.isOutput = (DevNode.type = "output"),
                          !.index = -ENOENT] \in Channel
    BY <2>1, <2>2, Zenon DEF Channel
  <2>. QED  BY <2>3 DEF create_channel, IInv, TypeOK
<1>4. live' \subseteq Handle
  BY <1>2 DEF create_channel, IInv, TypeOK, Handle, heap
<1>5. Cursors'
  BY <1>1, <1>2 DEF create_channel, Fail, Cursors, CtxNode, DevNode, IInv, TypeOK
<1>. QED
  BY <1>3, <1>4, <1>5 DEF create_channel, Fail, IInv, TypeOK, Labels, Errors, heap

LEMMA StepCreateChannelEnd == IInv /\ create_channel_end => IInv'
<1> SUFFICES ASSUME IInv, create_channel_end PROVE IInv'  OBVIOUS
<1>1. dev' \in Device
  <2>1. Append(dev.channels, chn) \in Seq(Channel)
    BY AppendProperties DEF IInv, TypeOK, Device
  <2>2. [dev EXCEPT !.channels = Append(dev.channels, chn)] \in Device
    BY <2>1, Zenon DEF IInv, TypeOK, Device
  <2>. QED  BY <2>2 DEF create_channel_end, IInv, TypeOK
<1>2. live' \subseteq Handle /\ freed' \subseteq Handle
  BY DEF create_channel_end, Release, IInv, TypeOK, Handle, heap
<1>3. Cursors'
  BY DEF create_channel_end, Fail, Cursors, CtxNode, IInv, TypeOK
<1>. QED
  BY <1>1, <1>2, <1>3 DEF create_channel_end, Fail, IInv, TypeOK, Labels, Errors, heap

LEMMA StepAddAttrToChannel == IInv /\ add_attr_to_channel => IInv'
<1> SUFFICES ASSUME IInv, add_attr_to_channel PROVE IInv'  OBVIOUS
<1>1. ChnNode \in AttrElem
  BY ChnNodeType, ChnChildKind DEF IInv, TypeOK, Cursors, add_attr_to_channel, ChnNode
<1>2. chn' \in Channel
  <2>1. CASE ChnNode.name # NoStr /\ ki' = ki + 1
    <3>1. <<ChnNode.name, IF ChnNode.filename = NoStr THEN ChnNode.name
                                                  ELSE ChnNode.filename>>
            \in AttrNames \X AttrNames
      BY <1>1, <2>1 DEF AttrElem, Opt
    <3>2. Append(chn.attrs, <<ChnNode.name, IF ChnNode.filename = NoStr
                                           THEN ChnNode.name
                                           ELSE ChnNode.filename>>)
            \in Seq(AttrNames \X AttrNames)
      BY <3>1, AppendProperties DEF IInv, TypeOK, Channel
    <3>. QED  BY <2>1, <3>2, Zenon DEF add_attr_to_channel, Fail, IInv, TypeOK, Channel
  <2>2. CASE ~(ChnNode.name # NoStr /\ ki' = ki + 1)
    BY <2>2 DEF add_attr_to_channel, Fail, IInv, TypeOK
  <2>. QED  BY <2>1, <2>2
<1>3. Cursors'
  BY DEF add_attr_to_channel, Fail, Cursors, IInv, TypeOK, CtxNode, DevNode
<1>. QED
  BY <1>2, <1>3 DEF add_attr_to_channel, Fail, IInv, TypeOK, Labels, Errors, heap

LEMMA StepSetupScanElement == IInv /\ setup_scan_element => IInv'
<1> SUFFICES ASSUME IInv, setup_scan_element PROVE IInv'  OBVIOUS
<1>1. chn' \in Channel
  BY Zenon DEF setup_scan_element, IInv, TypeOK, Channel
<1>2. Cursors'
  BY DEF setup_scan_element, Cursors, IInv, TypeOK, CtxNode, DevNode, ChnNode
<1>. QED
  BY <1>1, <1>2 DEF setup_scan_element, IInv, TypeOK, Labels, heap

LEMMA StepChannelSkip == IInv /\ channel_skip => IInv'
BY DEF channel_skip, IInv, TypeOK, Cursors, heap, CtxNode, DevNode, ChnNode

\* The attribute setup_scan_element is at, when the builder is in a
\* <scan-element> and the attribute is in range.
LEMMA ScanNodeIn ==
  ASSUME IInv, pc = "scan", si <= Len(ChnNode.props)
  PROVE  ScanNode \in ScanProp
BY ScanNodeType DEF IInv, TypeOK, Cursors, ScanNode

LEMMA StepScanIndex == IInv /\ scan_index => IInv'
<1> SUFFICES ASSUME IInv, scan_index PROVE IInv'  OBVIOUS
<1>1. ScanNode.text \in NumText
  BY ScanNodeIn, ScanPropKey, ConstantsAssumption DEF scan_index
<1>2. chn' \in Channel
  <2>1. ToLong(ScanNode.text.val) \in Int
    BY <1>1, ConversionTypes DEF NumText
  <2>. QED  BY <2>1, Zenon DEF scan_index, Fail, IInv, TypeOK, Channel
<1>3. Cursors'
  BY DEF scan_index, Fail, Cursors, IInv, TypeOK, CtxNode, DevNode, ChnNode
<1>. QED
  BY <1>2, <1>3 DEF scan_index, Fail, IInv, TypeOK, Labels, Errors, heap

LEMMA StepScanFormat == IInv /\ scan_format => IInv'
<1> SUFFICES ASSUME IInv, scan_format PROVE IInv'  OBVIOUS
<1>1. DecodeFormat(ScanNode.text)
        \in [ok: BOOLEAN, fmt: Format, written: SUBSET FormatField]
  BY ScanNodeIn, ScanPropKey, ConstantsAssumption DEF scan_format
<1>2. chn.format \in Format
  BY DEF IInv, TypeOK, Channel
<1>3. StoredFormat(chn.format, DecodeFormat(ScanNode.text)) \in Format
  BY <1>1, <1>2 DEF StoredFormat, Format
<1>4. chn' \in Channel
  BY <1>1, <1>3, Zenon DEF scan_format, Fail, IInv, TypeOK, Channel
<1>5. Cursors'
  BY DEF scan_format, Fail, Cursors, IInv, TypeOK, CtxNode, DevNode, ChnNode
<1>. QED
  BY <1>4, <1>5 DEF scan_format, Fail, IInv, TypeOK, Labels, Errors, heap

LEMMA StepScanScale == IInv /\ scan_scale => IInv'
<1> SUFFICES ASSUME IInv, scan_scale PROVE IInv'  OBVIOUS
<1>1. ScanNode.text \in ScaleText
  BY ScanNodeIn, ScanPropKey, ConstantsAssumption DEF scan_scale
<1>2. chn' \in Channel
  <2>1. chn \in Channel /\ ScanNode.text.val \in Nat
    BY <1>1 DEF IInv, TypeOK, ScaleText
  <2>2. CASE ~ScaleAccepted(ScanNode.text)
    <3>1. chn' = [chn EXCEPT !.withScale = FALSE]
      BY <2>2 DEF scan_scale
    <3>. QED  BY <2>1, <3>1, Zenon DEF Channel
  <2>3. CASE ScaleAccepted(ScanNode.text)
    <3>1. chn' = [chn EXCEPT !.withScale = TRUE, !.scale = ScanNode.text.val]
      BY <2>3 DEF scan_scale
    <3>. QED  BY <2>1, <3>1, Zenon DEF Channel
  <2>. QED  BY <2>2, <2>3
<1>3. UNCHANGED <<doc, ci, di, ki>> /\ si' \in {si, si + 1}
      /\ pc' \in {"scan", "failChannel"} /\ pc = "scan"
  BY DEF scan_scale, Fail
<1>4. Cursors'
  BY <1>3 DEF Cursors, IInv, TypeOK, CtxNode, DevNode, ChnNode
<1>. QED
  BY <1>2, <1>4 DEF scan_scale, Fail, IInv, TypeOK, Labels, Errors, heap

LEMMA StepScanSkip == IInv /\ scan_skip => IInv'
BY DEF scan_skip, IInv, TypeOK, Cursors, heap, CtxNode, DevNode, ChnNode

LEMMA StepScanEnd == IInv /\ setup_scan_element_end => IInv'
BY DEF setup_scan_element_end, IInv, TypeOK, Cursors, Labels, heap,
       CtxNode, DevNode, ChnNode

LEMMA StepErrorPaths ==
  IInv /\ (err_free_channel \/ err_free_device \/ iio_context_destroy) => IInv'
BY DEF err_free_channel, err_free_device, iio_context_destroy, Release,
       IInv, TypeOK, Cursors, Labels

LEMMA StepTerminated == IInv /\ Terminated => IInv'
BY DEF Terminated, vars, IInv, TypeOK, Cursors, CtxNode, DevNode, ChnNode

LEMMA StepStutter == IInv /\ UNCHANGED vars => IInv'
BY DEF vars, IInv, TypeOK, Cursors, CtxNode, DevNode, ChnNode

LEMMA NextIInv == IInv /\ [Next]_vars => IInv'
BY StepCreateContext, StepParseContextAttr, StepContextSkip, StepCreateDevice,
   StepCreateDeviceEnd, StepContextInit, StepAddAttrToDevice, StepDeviceSkip,
   StepCreateChannel, StepCreateChannelEnd, StepAddAttrToChannel,
   StepSetupScanElement, StepChannelSkip, StepScanIndex, StepScanFormat,
   StepScanScale, StepScanSkip, StepScanEnd, StepErrorPaths, StepTerminated,
   StepStutter
DEF Next

\* Type correctness: in every state of every run of the builder, on any
\* document and at any widths, the variables hold values of the types of
\* the C structures (TypeOK), the element each loop reads included.
THEOREM TypeCorrect == Spec => []TypeOK
<1>1. Init => IInv  BY InitIInv
<1>2. IInv /\ [Next]_vars => IInv'  BY NextIInv
<1>3. IInv => TypeOK  BY DEF IInv
<1>. QED  BY <1>1, <1>2, <1>3, PTL DEF Spec

-----------------------------------------------------------------------------
(***************************************************************************)
(* Ownership.  A handle carries the place of its element in the document:  *)
(* a device the index of its <device> among the children of <context>, a  *)
(* channel that index and the index of its <channel> in the <device>.      *)
(* The devices of the context come from children before the cursor ci,     *)
(* the channels of the device being built from children before di, and    *)
(* the error paths free only handles of the element at the cursors.  With  *)
(* the fact that nothing is freed before an error label, this is what      *)
(* makes NoDangling inductive.                                             *)
(***************************************************************************)
Own ==
  /\ \A i \in DOMAIN ctx.devices :
       /\ ctx.devices[i].pos < ci
       /\ \A j \in DOMAIN ctx.devices[i].channels :
            ctx.devices[i].channels[j].pos[1] = ctx.devices[i].pos
  /\ pc = "start" => ctx.devices = <<>>
  /\ pc \in {"device", "channel", "scan", "failChannel", "failDevice"} =>
       /\ dev.pos = ci
       /\ \A j \in DOMAIN dev.channels :
            dev.channels[j].pos[1] = ci /\ dev.channels[j].pos[2] < di
  /\ pc \in {"channel", "scan", "failChannel"} => chn.pos = <<ci, di>>
  /\ pc \in {"start", "context", "device", "channel", "scan", "failChannel"} =>
       freed = {}
  /\ pc = "failDevice" => freed \subseteq {"chn", "chndata"} \X {ci} \X {di}
  /\ pc = "failContext" => \A h \in freed : h[1] # "ctx" /\ h[2] = ci
  /\ pc = "done" /\ err = "none" => freed = {}
  /\ pc \in {"failChannel", "failDevice", "failContext"} => err # "none"

\* The handles of the context are the context's own and handles of
\* devices before the cursor.
LEMMA CtxHandlesBefore ==
  ASSUME TypeOK, Own, NEW h \in CtxHandles(ctx)
  PROVE  h = CtxHandle \/ (h[1] # "ctx" /\ h[2] < ci)
<1>1. CASE h # CtxHandle
  <2>1. PICK i \in DOMAIN ctx.devices : h \in DevHandles(ctx.devices[i])
    BY <1>1 DEF CtxHandles
  <2>2. ctx.devices[i] \in Device
    BY DEF TypeOK, Context
  <2>3. CASE h \in {<<"dev", ctx.devices[i].pos, 0>>, <<"devdata", ctx.devices[i].pos, 0>>}
    BY <2>3 DEF Own
  <2>4. CASE \E j \in DOMAIN ctx.devices[i].channels :
               h \in ChnHandles(ctx.devices[i].channels[j])
    <3>1. PICK j \in DOMAIN ctx.devices[i].channels :
                 h \in ChnHandles(ctx.devices[i].channels[j])
      BY <2>4
    <3>2. ctx.devices[i].channels[j].pos[1] = ctx.devices[i].pos
      BY DEF Own
    <3>3. h[1] \in {"chn", "chndata"} /\ h[2] = ctx.devices[i].channels[j].pos[1]
      BY <3>1 DEF ChnHandles
    <3>4. ctx.devices[i].pos < ci
      BY DEF Own
    <3>. QED  BY <3>2, <3>3, <3>4
  <2>. QED  BY <2>1, <2>3, <2>4 DEF DevHandles
<1>. QED  BY <1>1

\* The handles of the device being built are at the cursor ci; its
\* channels' handles are before the cursor di.
LEMMA DevHandlesAt ==
  ASSUME TypeOK, Own,
         pc \in {"device", "channel", "scan", "failChannel", "failDevice"},
         NEW h \in DevHandles(dev)
  PROVE  /\ h[1] # "ctx" /\ h[2] = ci
         /\ h[1] \in {"chn", "chndata"} => h[3] < di
<1>1. CASE h \in {<<"dev", dev.pos, 0>>, <<"devdata", dev.pos, 0>>}
  BY <1>1 DEF Own
<1>2. CASE \E j \in DOMAIN dev.channels : h \in ChnHandles(dev.channels[j])
  BY <1>2 DEF Own, ChnHandles
<1>. QED  BY <1>1, <1>2 DEF DevHandles

LEMMA OwnNoDangling == TypeOK /\ Own => NoDangling
<1> SUFFICES ASSUME TypeOK, Own, NEW h \in Reachable, h \in freed PROVE FALSE
  BY DEF NoDangling
<1>1. CASE pc \in {"start", "context", "device", "channel", "scan", "failChannel"}
  BY <1>1 DEF Own
<1>2. CASE pc = "failDevice"
  <2>1. h \in {"chn", "chndata"} \X {ci} \X {di}
    BY <1>2 DEF Own
  <2>2. h \in CtxHandles(ctx) \/ h \in DevHandles(dev)
    BY <1>2 DEF Reachable
  <2>3. h[1] \in {"chn", "chndata"} /\ h[2] = ci /\ h[3] = di
    BY <2>1
  <2>4. CASE h \in CtxHandles(ctx)
    <3>1. h = CtxHandle \/ h[2] < ci
      BY <2>4, CtxHandlesBefore
    <3>. QED  BY <2>3, <3>1 DEF CtxHandle, TypeOK
  <2>5. CASE h \in DevHandles(dev)
    <3>1. h[3] < di
      BY <1>2, <2>3, <2>5, DevHandlesAt
    <3>. QED  BY <2>3, <3>1 DEF TypeOK
  <2>. QED  BY <2>2, <2>4, <2>5
<1>3. CASE pc = "failContext"
  <2>1. h[1] # "ctx" /\ h[2] = ci
    BY <1>3 DEF Own
  <2>2. h \in CtxHandles(ctx)
    BY <1>3 DEF Reachable
  <2>. QED  BY <2>1, <2>2, CtxHandlesBefore DEF CtxHandle, TypeOK
<1>4. CASE pc = "done"
  BY <1>4 DEF Own, Reachable
<1>. QED  BY <1>1, <1>2, <1>3, <1>4 DEF TypeOK, Labels

(***************************************************************************)
(* Each action preserves Own.  The steps inside a loop leave the           *)
(* positions alone and move a cursor forward; the steps that add a device *)
(* or a channel append a structure whose position is the cursor's; the    *)
(* error paths release handles at the cursors.                             *)
(***************************************************************************)
LEMMA InitOwn == Init => Own
BY DEF Init, Own, NoContext

\* The positions stored in a sequence of devices or channels are numbers.
LEMMA ChannelPos ==
  ASSUME NEW cs \in Seq(Channel), NEW j \in DOMAIN cs
  PROVE  cs[j].pos[1] \in Nat /\ cs[j].pos[2] \in Nat
<1>1. cs[j] \in Channel
  OBVIOUS
<1>2. cs[j].pos \in Nat \X Nat
  BY <1>1 DEF Channel
<1>. QED  BY <1>2

LEMMA DevicePos ==
  ASSUME NEW ds \in Seq(Device), NEW i \in DOMAIN ds
  PROVE  ds[i].pos \in Nat /\ ds[i].channels \in Seq(Channel)
<1>1. ds[i] \in Device
  OBVIOUS
<1>. QED  BY <1>1 DEF Device

\* The steps of a <channel> or a <scan-element> other than its end.
LEMMA OwnChannelLevel ==
  ASSUME TypeOK, Own, pc \in {"channel", "scan"},
         pc' \in {"channel", "scan", "failChannel"},
         pc' = "failChannel" => err' # "none",
         chn'.pos = chn.pos, UNCHANGED <<ctx, dev, ci, di, freed>>
  PROVE  Own'
BY DEF Own

(***************************************************************************)
(* What the steps of the loops keep of the structures being built: the    *)
(* places (and so the handles) of the channel, the device and the devices  *)
(* of the context, and the place a new structure takes.                   *)
(***************************************************************************)
\* The children of <channel> and <scan-element> fill in the channel.
LEMMA ChannelStepKeepsPos ==
  ASSUME IInv,
         \/ add_attr_to_channel \/ setup_scan_element
         \/ scan_index \/ scan_format \/ scan_scale
  PROVE  chn'.pos = chn.pos
<1>1. CASE add_attr_to_channel
  BY <1>1 DEF add_attr_to_channel, IInv, TypeOK, Channel
<1>2. CASE setup_scan_element
  BY <1>2 DEF setup_scan_element, IInv, TypeOK, Channel
<1>3. CASE scan_index
  BY <1>3 DEF scan_index, IInv, TypeOK, Channel
<1>4. CASE scan_format
  BY <1>4 DEF scan_format, IInv, TypeOK, Channel
<1>5. CASE scan_scale
  BY <1>5 DEF scan_scale, IInv, TypeOK, Channel
<1>. QED  BY <1>1, <1>2, <1>3, <1>4, <1>5

\* An attribute of a device goes to a registry, never to its channels.
LEMMA DeviceAttrKeepsChannels ==
  ASSUME IInv, add_attr_to_device
  PROVE  dev'.pos = dev.pos /\ dev'.channels = dev.channels
<1>1. CASE DevNode.name # NoStr /\ di' = di + 1
  <2>1. /\ dev \in Device
        /\ dev' = [dev EXCEPT ![RegistryOf(DevNode.kind)] =
                                AddDevAttr(@, DevNode.name)]
    BY <1>1 DEF add_attr_to_device, Fail, IInv, TypeOK
  <2>2. DevNode.kind \in DevAttrKinds
    BY DEF add_attr_to_device
  <2>3. RegistryOf(DevNode.kind) \in {"attrs", "debugAttrs", "bufferAttrs"}
    BY <2>2 DEF RegistryOf, DevAttrKinds
  <2>. QED  BY <2>1, <2>3, Zenon DEF Device
<1>2. CASE ~(DevNode.name # NoStr /\ di' = di + 1)
  BY <1>2 DEF add_attr_to_device, Fail, IInv, TypeOK
<1>. QED  BY <1>1, <1>2

\* A context attribute leaves the devices of the context alone.
LEMMA ContextAttrKeepsDevices ==
  ASSUME IInv, parse_context_attr
  PROVE  ctx'.devices = ctx.devices
<1>1. CASE pc' = "failContext"
  BY <1>1 DEF parse_context_attr, Fail
<1>2. CASE pc' # "failContext"
  <2>1. /\ ctx \in Context
        /\ ctx' = [ctx EXCEPT !.attrs = AddCtxAttr(@, CtxNode.name, CtxNode.value)]
    BY <1>2 DEF parse_context_attr, Fail, IInv, TypeOK
  <2>. QED  BY <2>1, Zenon DEF Context
<1>. QED  BY <1>1, <1>2

\* A device allocated by create_device is at the cursor, with no channels.
LEMMA NewDevicePos ==
  ASSUME create_device, pc' # "failContext"
  PROVE  dev'.pos = ci /\ dev'.channels = <<>>
<1>1. dev' = [NoDevice EXCEPT !.pos = ci, !.id = CtxNode.id,
                              !.name = CtxNode.name, !.label = CtxNode.label]
  BY DEF create_device, Fail
<1>. QED  BY <1>1, Zenon DEF NoDevice

\* A channel allocated by create_channel is at the cursors.
LEMMA NewChannelPos ==
  ASSUME create_channel, pc' # "failDevice"
  PROVE  chn'.pos = <<ci, di>>
<1>1. chn' = [NoChannel EXCEPT !.pos = <<ci, di>>, !.id = DevNode.id,
                               !.name = DevNode.name,
                               !.isOutput = (DevNode.type = "output"),
                               !.index = -ENOENT]
  BY DEF create_channel, Fail
<1>. QED  BY <1>1, Zenon DEF NoChannel

LEMMA OwnAddAttrToChannel == IInv /\ Own /\ add_attr_to_channel => Own'
<1> SUFFICES ASSUME IInv, Own, add_attr_to_channel PROVE Own'  OBVIOUS
<1>1. chn'.pos = chn.pos
  BY ChannelStepKeepsPos
<1>. QED
  BY <1>1, OwnChannelLevel DEF add_attr_to_channel, Fail, IInv, heap

LEMMA OwnSetupScanElement == IInv /\ Own /\ setup_scan_element => Own'
<1> SUFFICES ASSUME IInv, Own, setup_scan_element PROVE Own'  OBVIOUS
<1>1. chn'.pos = chn.pos
  BY ChannelStepKeepsPos
<1>. QED
  BY <1>1, OwnChannelLevel DEF setup_scan_element, IInv, heap

LEMMA OwnChannelSkip == IInv /\ Own /\ channel_skip => Own'
BY OwnChannelLevel DEF channel_skip, IInv, heap

LEMMA OwnScanIndex == IInv /\ Own /\ scan_index => Own'
<1> SUFFICES ASSUME IInv, Own, scan_index PROVE Own'  OBVIOUS
<1>1. chn'.pos = chn.pos
  BY ChannelStepKeepsPos
<1>. QED
  BY <1>1, OwnChannelLevel DEF scan_index, Fail, IInv, heap

LEMMA OwnScanFormat == IInv /\ Own /\ scan_format => Own'
<1> SUFFICES ASSUME IInv, Own, scan_format PROVE Own'  OBVIOUS
<1>1. chn'.pos = chn.pos
  BY ChannelStepKeepsPos
<1>. QED
  BY <1>1, OwnChannelLevel DEF scan_format, Fail, IInv, heap

LEMMA OwnScanScale == IInv /\ Own /\ scan_scale => Own'
<1> SUFFICES ASSUME IInv, Own, scan_scale PROVE Own'  OBVIOUS
<1>1. chn'.pos = chn.pos
  BY ChannelStepKeepsPos
<1>. QED
  BY <1>1, OwnChannelLevel DEF scan_scale, Fail, IInv, heap

LEMMA OwnScanSkip == IInv /\ Own /\ scan_skip => Own'
BY OwnChannelLevel DEF scan_skip, IInv, heap

LEMMA OwnScanEnd == IInv /\ Own /\ setup_scan_element_end => Own'
BY OwnChannelLevel DEF setup_scan_element_end, IInv, heap

\* The steps inside a <device> that do not touch its channels.
LEMMA OwnDeviceLevel ==
  ASSUME TypeOK, Own, pc = "device", pc' \in {"device", "failDevice"},
         pc' = "failDevice" => err' # "none",
         dev'.pos = dev.pos, dev'.channels = dev.channels,
         di' \in {di, di + 1}, UNCHANGED <<ctx, ci, freed>>
  PROVE  Own'
<1>1. \A j \in DOMAIN dev'.channels :
        dev'.channels[j].pos[1] = ci' /\ dev'.channels[j].pos[2] < di'
  <2>1. \A j \in DOMAIN dev.channels : dev.channels[j].pos[2] \in Nat
    BY ChannelPos DEF TypeOK, Device
  <2>. QED  BY <2>1 DEF Own, TypeOK
<1>2. freed = {}
  BY DEF Own
<1>. QED  BY <1>1, <1>2 DEF Own

LEMMA OwnAddAttrToDevice == IInv /\ Own /\ add_attr_to_device => Own'
<1> SUFFICES ASSUME IInv, Own, add_attr_to_device PROVE Own'  OBVIOUS
<1>1. dev'.pos = dev.pos /\ dev'.channels = dev.channels
  BY DeviceAttrKeepsChannels
<1>. QED
  BY <1>1, OwnDeviceLevel DEF add_attr_to_device, Fail, IInv, heap

LEMMA OwnDeviceSkip == IInv /\ Own /\ device_skip => Own'
BY OwnDeviceLevel DEF device_skip, IInv, heap

\* The steps of the loop over the children of <context>.
LEMMA OwnParseContextAttr == IInv /\ Own /\ parse_context_attr => Own'
<1> SUFFICES ASSUME IInv, Own, parse_context_attr PROVE Own'  OBVIOUS
<1>1. freed = {} /\ UNCHANGED freed
  BY DEF parse_context_attr, Own, heap
<1>2. CASE pc' = "failContext"
  BY <1>1, <1>2 DEF parse_context_attr, Fail, Own
<1>3. CASE pc' # "failContext"
  <2>1. /\ ctx \in Context
        /\ ctx' = [ctx EXCEPT !.attrs = AddCtxAttr(@, CtxNode.name, CtxNode.value)]
        /\ ci' = ci + 1 /\ pc' = "context" /\ UNCHANGED err
    BY <1>3 DEF parse_context_attr, Fail, IInv, TypeOK
  <2>2. ctx'.devices = ctx.devices
    BY ContextAttrKeepsDevices
  <2>3. \A i \in DOMAIN ctx.devices : ctx.devices[i].pos \in Nat
    BY DevicePos DEF IInv, TypeOK, Context
  <2>. QED  BY <1>1, <2>1, <2>2, <2>3 DEF Own, IInv, TypeOK
<1>. QED  BY <1>2, <1>3

LEMMA OwnContextSkip == IInv /\ Own /\ context_skip => Own'
<1> SUFFICES ASSUME IInv, Own, context_skip PROVE Own'  OBVIOUS
<1>1. \A i \in DOMAIN ctx.devices : ctx.devices[i].pos \in Nat
  BY DevicePos DEF IInv, TypeOK, Context
<1>. QED  BY <1>1 DEF context_skip, IInv, TypeOK, heap, Own

LEMMA OwnContextInit == IInv /\ Own /\ iio_context_init => Own'
BY DEF iio_context_init, Fail, heap, Own

LEMMA OwnCreateContext == IInv /\ Own /\ iio_create_xml_context_helper => Own'
<1> SUFFICES ASSUME IInv, Own, iio_create_xml_context_helper PROVE Own'  OBVIOUS
<1>1. freed = {} /\ ctx.devices = <<>>
  BY DEF iio_create_xml_context_helper, Own
<1>2. NewContext.devices = <<>>
  BY Zenon DEF NewContext, NoContext
<1>3. ctx'.devices = <<>>
  BY <1>1, <1>2 DEF iio_create_xml_context_helper, heap
<1>. QED
  BY <1>1, <1>3 DEF iio_create_xml_context_helper, Fail, Own, heap

\* create_device: the new device is at the cursor and has no channels.
LEMMA OwnCreateDevice == IInv /\ Own /\ create_device => Own'
<1> SUFFICES ASSUME IInv, Own, create_device PROVE Own'  OBVIOUS
<1>1. freed = {} /\ UNCHANGED <<ctx, ci, freed>>
  BY DEF create_device, Own, heap
<1>2. CASE pc' = "failContext"
  BY <1>1, <1>2 DEF create_device, Fail, Own
<1>3. CASE pc' # "failContext"
  <2>2. dev'.pos = ci /\ dev'.channels = <<>>
    BY <1>3, NewDevicePos
  <2>. QED  BY <1>1, <2>2 DEF create_device, Fail, Own
<1>. QED  BY <1>2, <1>3

\* create_device_end: the device joins the context, or a bare free(dev)
\* releases its structure, at the cursor ci.
LEMMA OwnCreateDeviceEnd == IInv /\ Own /\ create_device_end => Own'
<1> SUFFICES ASSUME IInv, Own, create_device_end PROVE Own'  OBVIOUS
<1>1. freed = {} /\ dev.pos = ci
  BY DEF create_device_end, Own
<1>2. CASE pc' = "failContext"
  <2>1. freed' \subseteq {<<"dev", ci, 0>>} /\ err' # "none"
    BY <1>1, <1>2 DEF create_device_end, Fail, Release
  <2>. QED  BY <1>2, <2>1 DEF create_device_end, Own
<1>3. CASE pc' # "failContext"
  <2>1. /\ ctx' = [ctx EXCEPT !.devices = Append(@, dev)]
        /\ pc' = "context" /\ ci' = ci + 1 /\ UNCHANGED freed
    BY <1>3 DEF create_device_end, Fail, heap
  <2>2. /\ ctx.devices \in Seq(Device) /\ dev \in Device
        /\ ctx'.devices = Append(ctx.devices, dev)
    BY <2>1, Zenon DEF IInv, TypeOK, Context
  <2>3. /\ DOMAIN ctx'.devices = 1..Len(ctx.devices) + 1
        /\ \A i \in 1..Len(ctx.devices) : ctx'.devices[i] = ctx.devices[i]
        /\ ctx'.devices[Len(ctx.devices) + 1] = dev
    BY <2>2, AppendProperties
  <2>4. \A i \in DOMAIN ctx.devices : ctx.devices[i].pos \in Nat
    BY DevicePos DEF IInv, TypeOK, Context
  <2>5. ASSUME NEW i \in DOMAIN ctx'.devices
        PROVE  /\ ctx'.devices[i].pos < ci'
               /\ \A j \in DOMAIN ctx'.devices[i].channels :
                    ctx'.devices[i].channels[j].pos[1] = ctx'.devices[i].pos
    <3>1. CASE i \in 1..Len(ctx.devices)
      <4>1. i \in DOMAIN ctx.devices /\ ctx'.devices[i] = ctx.devices[i]
        BY <2>2, <2>3, <3>1
      <4>2. ctx.devices[i].pos < ci /\ ctx.devices[i].pos \in Nat
        BY <2>4, <4>1 DEF Own
      <4>3. \A j \in DOMAIN ctx.devices[i].channels :
              ctx.devices[i].channels[j].pos[1] = ctx.devices[i].pos
        BY <4>1 DEF Own
      <4>. QED  BY <2>1, <4>1, <4>2, <4>3 DEF IInv, TypeOK
    <3>2. CASE i = Len(ctx.devices) + 1
      BY <1>1, <2>1, <2>3, <3>2 DEF create_device_end, Own, IInv, TypeOK
    <3>. QED  BY <2>3, <3>1, <3>2
  <2>. QED  BY <1>1, <2>1, <2>5 DEF create_device_end, Own
<1>. QED  BY <1>2, <1>3

\* create_channel: the new channel is at the cursors ci and di.
LEMMA OwnCreateChannel == IInv /\ Own /\ create_channel => Own'
<1> SUFFICES ASSUME IInv, Own, create_channel PROVE Own'  OBVIOUS
<1>1. freed = {} /\ UNCHANGED <<ctx, dev, ci, di, freed>>
  BY DEF create_channel, Own, heap
<1>2. CASE pc' = "failDevice"
  BY <1>1, <1>2 DEF create_channel, Fail, Own
<1>3. CASE pc' # "failDevice"
  <2>2. chn'.pos = <<ci, di>>
    BY <1>3, NewChannelPos
  <2>. QED  BY <1>1, <2>2 DEF create_channel, Fail, Own
<1>. QED  BY <1>2, <1>3

\* create_channel_end: the channel joins the device, or a bare free(chn)
\* releases its structure, at the cursors ci and di.
LEMMA OwnCreateChannelEnd == IInv /\ Own /\ create_channel_end => Own'
<1> SUFFICES ASSUME IInv, Own, create_channel_end PROVE Own'  OBVIOUS
<1>1. freed = {} /\ chn.pos = <<ci, di>> /\ dev.pos = ci
  BY DEF create_channel_end, Own
<1>2. CASE pc' = "failDevice"
  <2>1. freed' \subseteq {<<"chn", ci, di>>} /\ err' # "none"
    BY <1>1, <1>2 DEF create_channel_end, Fail, Release
  <2>. QED  BY <1>1, <1>2, <2>1 DEF create_channel_end, Own
<1>3. CASE pc' # "failDevice"
  <2>1. /\ dev' = [dev EXCEPT !.channels = Append(@, chn)]
        /\ pc' = "device" /\ di' = di + 1 /\ UNCHANGED <<ctx, ci, freed>>
    BY <1>3 DEF create_channel_end, Fail, heap
  <2>2. /\ dev.channels \in Seq(Channel) /\ chn \in Channel
        /\ dev'.channels = Append(dev.channels, chn) /\ dev'.pos = dev.pos
    BY <2>1, Zenon DEF IInv, TypeOK, Device
  <2>3. /\ DOMAIN dev'.channels = 1..Len(dev.channels) + 1
        /\ \A j \in 1..Len(dev.channels) : dev'.channels[j] = dev.channels[j]
        /\ dev'.channels[Len(dev.channels) + 1] = chn
    BY <2>2, AppendProperties
  <2>4. \A j \in DOMAIN dev.channels : dev.channels[j].pos[2] \in Nat
    BY <2>2, ChannelPos
  <2>5. ASSUME NEW j \in DOMAIN dev'.channels
        PROVE  dev'.channels[j].pos[1] = ci' /\ dev'.channels[j].pos[2] < di'
    <3>1. CASE j \in 1..Len(dev.channels)
      BY <2>1, <2>3, <2>4, <3>1 DEF create_channel_end, Own, IInv, TypeOK
    <3>2. CASE j = Len(dev.channels) + 1
      BY <1>1, <2>1, <2>3, <3>2 DEF IInv, TypeOK
    <3>. QED  BY <2>3, <3>1, <3>2
  <2>. QED  BY <1>1, <2>1, <2>2, <2>5 DEF create_channel_end, Own
<1>. QED  BY <1>2, <1>3

\* err_free_channel: free_channel(chn) releases the channel's handles, at
\* the cursors.
LEMMA OwnErrFreeChannel == IInv /\ Own /\ err_free_channel => Own'
<1> SUFFICES ASSUME IInv, Own, err_free_channel PROVE Own'  OBVIOUS
<1>1. freed = {} /\ chn.pos = <<ci, di>>
  BY DEF err_free_channel, Own
<1>2. freed' \subseteq {"chn", "chndata"} \X {ci} \X {di}
  BY <1>1 DEF err_free_channel, Release, ChnHandles
<1>. QED  BY <1>2 DEF err_free_channel, Own

\* err_free_device: free_device(dev) releases handles at the cursor ci.
LEMMA OwnErrFreeDevice == IInv /\ Own /\ err_free_device => Own'
<1> SUFFICES ASSUME IInv, Own, err_free_device PROVE Own'  OBVIOUS
<1>1. \A h \in freed : h[1] # "ctx" /\ h[2] = ci
  BY DEF err_free_device, Own
<1>2. \A h \in DevHandles(dev) : h[1] # "ctx" /\ h[2] = ci
  BY DevHandlesAt DEF err_free_device, IInv
<1>3. \A h \in freed' : h[1] # "ctx" /\ h[2] = ci
  BY <1>1, <1>2 DEF err_free_device, Release
<1>. QED  BY <1>3 DEF err_free_device, Own

\* iio_context_destroy returns with the error.
LEMMA OwnContextDestroy == IInv /\ Own /\ iio_context_destroy => Own'
BY DEF iio_context_destroy, Own

LEMMA OwnStutter == IInv /\ Own /\ (Terminated \/ UNCHANGED vars) => Own'
BY DEF Terminated, vars, Own

LEMMA NextOwn == IInv /\ Own /\ [Next]_vars => Own'
BY OwnCreateContext, OwnParseContextAttr, OwnContextSkip, OwnCreateDevice,
   OwnCreateDeviceEnd, OwnContextInit, OwnAddAttrToDevice, OwnDeviceSkip,
   OwnCreateChannel, OwnCreateChannelEnd, OwnAddAttrToChannel,
   OwnSetupScanElement, OwnChannelSkip, OwnScanIndex, OwnScanFormat,
   OwnScanScale, OwnScanSkip, OwnScanEnd, OwnErrFreeChannel, OwnErrFreeDevice,
   OwnContextDestroy, OwnStutter
DEF Next

\* No dangling pointer, for every document, width and allocator: nothing
\* the builder can still reach (the context, the device create_device is
\* building, the channel create_channel is building) has been freed, so
\* the error paths of xml.c never free twice, even where they leak, and
\* the context returned holds no freed device or channel (NoDangling).
THEOREM NoDanglingInvariant == Spec => []NoDangling
<1>1. Init => IInv /\ Own  BY InitIInv, InitOwn
<1>2. IInv /\ Own /\ [Next]_vars => IInv' /\ Own'  BY NextIInv, NextOwn
<1>3. IInv /\ Own => NoDangling  BY OwnNoDangling DEF IInv
<1>. QED  BY <1>1, <1>2, <1>3, PTL DEF Spec

(***************************************************************************)
(* An error is final.  The strengthening: while the builder holds an error *)
(* code it is at one of the error labels or has returned, so the only      *)
(* steps left are the gotos of the error paths, which keep the code and    *)
(* only free.  Every loop step is guarded by its own label and fails to an *)
(* error label or to the return.                                          *)
(***************************************************************************)
ErrorLabels == {"failChannel", "failDevice", "failContext", "done"}
ErrInv == err # "none" => pc \in ErrorLabels

LEMMA InitErrInv == Init => ErrInv
BY DEF Init, ErrInv

LEMMA NextErrInv ==
  ErrInv /\ [Next]_vars =>
    /\ ErrInv'
    /\ err # "none" => err' = err /\ live' \subseteq live
<1> SUFFICES ASSUME ErrInv, [Next]_vars
             PROVE  /\ ErrInv'
                    /\ err # "none" => err' = err /\ live' \subseteq live
  OBVIOUS
<1>1. CASE iio_create_xml_context_helper
  BY <1>1 DEF iio_create_xml_context_helper, Fail, Release, ErrInv, ErrorLabels
<1>2. CASE parse_context_attr
  BY <1>2 DEF parse_context_attr, Fail, Release, ErrInv, ErrorLabels
<1>3. CASE context_skip
  BY <1>3 DEF context_skip, Fail, Release, ErrInv, ErrorLabels
<1>4. CASE create_device
  BY <1>4 DEF create_device, Fail, Release, ErrInv, ErrorLabels
<1>5. CASE create_device_end
  BY <1>5 DEF create_device_end, Fail, Release, ErrInv, ErrorLabels
<1>6. CASE iio_context_init
  BY <1>6 DEF iio_context_init, Fail, Release, ErrInv, ErrorLabels
<1>7. CASE add_attr_to_device
  BY <1>7 DEF add_attr_to_device, Fail, Release, ErrInv, ErrorLabels
<1>8. CASE device_skip
  BY <1>8 DEF device_skip, Fail, Release, ErrInv, ErrorLabels
<1>9. CASE create_channel
  BY <1>9 DEF create_channel, Fail, Release, ErrInv, ErrorLabels
<1>10. CASE create_channel_end
  BY <1>10 DEF create_channel_end, Fail, Release, ErrInv, ErrorLabels
<1>11. CASE add_attr_to_channel
  BY <1>11 DEF add_attr_to_channel, Fail, Release, ErrInv, ErrorLabels
<1>12. CASE setup_scan_element
  BY <1>12 DEF setup_scan_element, Fail, Release, ErrInv, ErrorLabels
<1>13. CASE channel_skip
  BY <1>13 DEF channel_skip, Fail, Release, ErrInv, ErrorLabels
<1>14. CASE scan_index
  BY <1>14 DEF scan_index, Fail, Release, ErrInv, ErrorLabels
<1>15. CASE scan_format
  BY <1>15 DEF scan_format, Fail, Release, ErrInv, ErrorLabels
<1>16. CASE scan_scale
  BY <1>16 DEF scan_scale, Fail, Release, ErrInv, ErrorLabels
<1>17. CASE scan_skip
  BY <1>17 DEF scan_skip, Fail, Release, ErrInv, ErrorLabels
<1>18. CASE setup_scan_element_end
  BY <1>18 DEF setup_scan_element_end, Fail, Release, ErrInv, ErrorLabels
<1>19. CASE err_free_channel
  BY <1>19 DEF err_free_channel, Fail, Release, ErrInv, ErrorLabels
<1>20. CASE err_free_device
  BY <1>20 DEF err_free_device, Fail, Release, ErrInv, ErrorLabels
<1>21. CASE iio_context_destroy
  BY <1>21 DEF iio_context_destroy, Fail, Release, ErrInv, ErrorLabels
<1>22. CASE Terminated
  BY <1>22 DEF Terminated, vars, ErrInv, ErrorLabels
<1>23. CASE UNCHANGED vars
  BY <1>23 DEF vars, ErrInv
<1>. QED  BY <1>1, <1>2, <1>3, <1>4, <1>5, <1>6, <1>7, <1>8, <1>9, <1>10, <1>11,
             <1>12, <1>13, <1>14, <1>15, <1>16, <1>17, <1>18, <1>19, <1>20,
             <1>21, <1>22, <1>23
          DEF Next

\* An error is final, for every document, width and allocator: once
\* create_channel, create_device, iio_populate_xml_context_helper or
\* iio_create_xml_context_helper has failed, every later step keeps the
\* first error code and allocates nothing (ErrorIsFinal).
THEOREM ErrorIsFinalHolds == Spec => ErrorIsFinal
<1>1. Init => ErrInv  BY InitErrInv
<1>2. ErrInv /\ [Next]_vars =>
        /\ ErrInv'
        /\ err # "none" => err' = err /\ live' \subseteq live
  BY NextErrInv
<1>. QED  BY <1>1, <1>2, PTL DEF Spec, ErrorIsFinal

-----------------------------------------------------------------------------
(***************************************************************************)
(* No leak without allocation failures.  The handles of a structure are    *)
(* reachable from the structure that owns it once it is appended there:    *)
(* a channel from its device, a device from the context.                   *)
(***************************************************************************)
\* iio_context_add_device: the context then owns the device's handles.
LEMMA CtxHandlesAppend ==
  ASSUME NEW c \in Context, NEW d \in Device
  PROVE  CtxHandles([c EXCEPT !.devices = Append(@, d)]) = CtxHandles(c) \cup DevHandles(d)
<1> DEFINE t == Append(c.devices, d)
<1>1. c.devices \in Seq(Device)
  BY DEF Context
<1>2. /\ DOMAIN t = 1..Len(c.devices) + 1
      /\ \A i \in 1..Len(c.devices) : t[i] = c.devices[i]
      /\ t[Len(c.devices) + 1] = d
      /\ DOMAIN c.devices = 1..Len(c.devices)
  BY <1>1, AppendProperties
<1>3. [c EXCEPT !.devices = Append(@, d)].devices = t
  BY DEF Context
<1>. QED  BY <1>2, <1>3 DEF CtxHandles

\* The channel array of the device: the device then owns the channel's
\* handles.
LEMMA DevHandlesAppend ==
  ASSUME NEW d \in Device, NEW ch \in Channel
  PROVE  DevHandles([d EXCEPT !.channels = Append(@, ch)]) = DevHandles(d) \cup ChnHandles(ch)
<1> DEFINE t == Append(d.channels, ch)
<1>1. d.channels \in Seq(Channel)
  BY DEF Device
<1>2. /\ DOMAIN t = 1..Len(d.channels) + 1
      /\ \A j \in 1..Len(d.channels) : t[j] = d.channels[j]
      /\ t[Len(d.channels) + 1] = ch
      /\ DOMAIN d.channels = 1..Len(d.channels)
  BY <1>1, AppendProperties
<1>3. [d EXCEPT !.channels = Append(@, ch)] = [d EXCEPT !.channels = t]
  OBVIOUS
<1>4. [d EXCEPT !.channels = t].pos = d.pos /\ [d EXCEPT !.channels = t].channels = t
  BY DEF Device
<1>. QED  BY <1>2, <1>3, <1>4 DEF DevHandles

(***************************************************************************)
(* The strengthening of NoLeak: nothing is allocated before the context.  *)
(* With ErrInv (a loop label means no error yet, so iio_context_init       *)
(* returns the context), every allocation adds handles of the structure    *)
(* the next label keeps reachable, the end of a loop appends that         *)
(* structure to its owner, and each error label releases the layer it     *)
(* leaves.                                                                 *)
(***************************************************************************)
LeakInv ==
  /\ NoLeak
  /\ pc = "start" => live = {}

LEMMA InitLeakInv == Init => LeakInv
BY DEF Init, LeakInv, NoLeak

\* The steps inside one loop keep the layers the label makes reachable.
LEMMA LeakChannelLevel ==
  ASSUME LeakInv, pc \in {"channel", "scan"},
         pc' \in {"channel", "scan", "failChannel"},
         chn'.pos = chn.pos, UNCHANGED <<ctx, dev, live>>
  PROVE  LeakInv'
BY DEF LeakInv, NoLeak, Reachable, ChnHandles

LEMMA LeakDeviceLevel ==
  ASSUME LeakInv, pc = "device", pc' \in {"device", "failDevice"},
         dev'.pos = dev.pos, dev'.channels = dev.channels,
         UNCHANGED <<ctx, live>>
  PROVE  LeakInv'
BY DEF LeakInv, NoLeak, Reachable, DevHandles

LEMMA LeakContextLevel ==
  ASSUME LeakInv, pc = "context", pc' \in {"context", "failContext"},
         ctx'.devices = ctx.devices, UNCHANGED live
  PROVE  LeakInv'
BY DEF LeakInv, NoLeak, Reachable, CtxHandles

LEMMA NextLeakInv ==
  ASSUME ~MayFail
  PROVE  IInv /\ ErrInv /\ LeakInv /\ [Next]_vars => LeakInv'
<1> SUFFICES ASSUME IInv, ErrInv, LeakInv, [Next]_vars PROVE LeakInv'  OBVIOUS
<1>1. CASE iio_create_xml_context_helper
  <2>1. CASE ~doc.isContext
    BY <1>1, <2>1 DEF iio_create_xml_context_helper, Fail, heap, LeakInv, NoLeak
  <2>2. CASE doc.isContext
    <3>1. pc' = "context" /\ live' = {CtxHandle}
      BY <1>1, <2>2 DEF iio_create_xml_context_helper, Fail, heap, LeakInv
    <3>. QED  BY <3>1 DEF LeakInv, NoLeak, Reachable, CtxHandles
  <2>. QED  BY <2>1, <2>2
<1>2. CASE parse_context_attr
  BY <1>2, ContextAttrKeepsDevices, LeakContextLevel DEF parse_context_attr, Fail, heap
<1>3. CASE context_skip
  BY <1>3, LeakContextLevel DEF context_skip, heap
<1>4. CASE create_device
  <2>1. /\ pc' \in {"device", "failDevice"}
        /\ live' \subseteq live \cup {<<"dev", ci, 0>>, <<"devdata", ci, 0>>}
        /\ UNCHANGED ctx /\ pc = "context"
    BY <1>4 DEF create_device, Fail
  <2>2. dev'.pos = ci /\ dev'.channels = <<>>
    BY <1>4, <2>1, NewDevicePos
  <2>3. {<<"dev", ci, 0>>, <<"devdata", ci, 0>>} \subseteq DevHandles(dev')
    BY <2>2 DEF DevHandles
  <2>. QED  BY <2>1, <2>3 DEF LeakInv, NoLeak, Reachable
<1>5. CASE create_device_end
  <2>1. /\ ctx' = [ctx EXCEPT !.devices = Append(@, dev)]
        /\ pc = "device" /\ pc' = "context" /\ UNCHANGED live
    BY <1>5 DEF create_device_end, heap
  <2>2. CtxHandles(ctx') = CtxHandles(ctx) \cup DevHandles(dev)
    BY <2>1, CtxHandlesAppend DEF IInv, TypeOK
  <2>. QED  BY <2>1, <2>2 DEF LeakInv, NoLeak, Reachable
<1>6. CASE iio_context_init
  <2>1. pc = "context" /\ pc' = "done" /\ UNCHANGED <<err, ctx, live>>
    BY <1>6 DEF iio_context_init, heap
  <2>2. err = "none"
    BY <2>1 DEF ErrInv, ErrorLabels
  <2>. QED  BY <2>1, <2>2 DEF LeakInv, NoLeak, Reachable
<1>7. CASE add_attr_to_device
  BY <1>7, DeviceAttrKeepsChannels, LeakDeviceLevel DEF add_attr_to_device, Fail, heap
<1>8. CASE device_skip
  BY <1>8, LeakDeviceLevel DEF device_skip, heap
<1>9. CASE create_channel
  <2>1. /\ pc' \in {"channel", "failChannel"}
        /\ live' \subseteq live \cup {<<"chn", ci, di>>, <<"chndata", ci, di>>}
        /\ UNCHANGED <<ctx, dev>> /\ pc = "device"
    BY <1>9 DEF create_channel, Fail
  <2>2. chn'.pos = <<ci, di>>
    BY <1>9, <2>1, NewChannelPos
  <2>3. {<<"chn", ci, di>>, <<"chndata", ci, di>>} \subseteq ChnHandles(chn')
    BY <2>2 DEF ChnHandles
  <2>. QED  BY <2>1, <2>3 DEF LeakInv, NoLeak, Reachable
<1>10. CASE create_channel_end
  <2>1. /\ dev' = [dev EXCEPT !.channels = Append(@, chn)]
        /\ pc = "channel" /\ pc' = "device" /\ UNCHANGED <<ctx, live>>
    BY <1>10 DEF create_channel_end, heap
  <2>2. DevHandles(dev') = DevHandles(dev) \cup ChnHandles(chn)
    BY <2>1, DevHandlesAppend DEF IInv, TypeOK
  <2>. QED  BY <2>1, <2>2 DEF LeakInv, NoLeak, Reachable
<1>11. CASE add_attr_to_channel \/ setup_scan_element \/ scan_index \/ scan_format
            \/ scan_scale
  <2>1. chn'.pos = chn.pos
    BY <1>11, ChannelStepKeepsPos
  <2>2. /\ pc \in {"channel", "scan"} /\ pc' \in {"channel", "scan", "failChannel"}
        /\ UNCHANGED <<ctx, dev, live>>
    BY <1>11 DEF add_attr_to_channel, setup_scan_element, scan_index,
       scan_format, scan_scale, Fail, heap
  <2>. QED  BY <2>1, <2>2, LeakChannelLevel
<1>12. CASE channel_skip \/ scan_skip \/ setup_scan_element_end
  BY <1>12, LeakChannelLevel DEF channel_skip, scan_skip, setup_scan_element_end, heap
<1>13. CASE err_free_channel
  BY <1>13 DEF err_free_channel, Release, LeakInv, NoLeak, Reachable
<1>14. CASE err_free_device
  BY <1>14 DEF err_free_device, Release, LeakInv, NoLeak, Reachable
<1>15. CASE iio_context_destroy
  BY <1>15 DEF iio_context_destroy, Release, LeakInv, NoLeak, Reachable
<1>16. CASE Terminated \/ UNCHANGED vars
  BY <1>16 DEF Terminated, vars, LeakInv, NoLeak, Reachable
<1>. QED  BY <1>1, <1>2, <1>3, <1>4, <1>5, <1>6, <1>7, <1>8, <1>9, <1>10,
             <1>11, <1>12, <1>13, <1>14, <1>15, <1>16
          DEF Next

\* No leak when no allocation fails, for every document and width: every
\* path of the builder, the EINVAL error paths of malformed documents
\* included, keeps each allocated handle reachable from the context, the
\* device or the channel under construction, and a refused document leaves
\* nothing allocated (NoLeak).  With failing allocations NoLeak is false:
\* the bare free(chn) and free(dev) of create_device and
\* iio_populate_xml_context_helper leak (runs leak_channel_realloc and
\* leak_add_device).
THEOREM NoLeakWithoutFailures ==
  ASSUME ~MayFail
  PROVE  Spec => []NoLeak
<1>1. Init => IInv /\ ErrInv /\ LeakInv
  BY InitIInv, InitErrInv, InitLeakInv
<1>2. IInv /\ ErrInv /\ LeakInv /\ [Next]_vars => (IInv /\ ErrInv /\ LeakInv)'
  BY NextIInv, NextErrInv, NextLeakInv
<1>3. LeakInv => NoLeak
  BY DEF LeakInv
<1>. QED  BY <1>1, <1>2, <1>3, PTL DEF Spec

=============================================================================
