---------------------------- MODULE XmlBuilderMC ----------------------------
(***************************************************************************)
(* Model-checking instance of XmlBuilder: small documents, the format      *)
(* decoder of FormatCodec, and the machine widths scaled down so that TLC  *)
(* can represent them (unsigned int 8 bits; long 16 bits on the LP64       *)
(* build, 8 bits, the width of int, on the Windows build; long long 16).   *)
(* Also the reference: what the spec says the built context is.            *)
(***************************************************************************)
EXTENDS XmlBuilder, SequencesExt, TLC

CONSTANTS
  k1, k2, v1, v2,       \* context attribute names and values
  d1, d2, c1, c2,       \* device and channel ids
  a1, a2,               \* attribute names
  nm,                   \* a name or label
  desc, tag             \* description and version-git

MCUIntBits == 8
MCLLongBits == 16
MCLongBitsLP64 == 16
MCLongBitsWin == 8

Codec == INSTANCE FormatCodec WITH UIntBits <- UIntBits, ULongBits <- LongBits

\* Version texts: "1", "3x", "x".
V1 == [digits |-> TRUE, val |-> 1, rest |-> FALSE]
V3x == [digits |-> TRUE, val |-> 3, rest |-> TRUE]
Vx == [digits |-> FALSE, val |-> 0, rest |-> TRUE]
MCVerTexts == {V1, V3x, Vx}

\* Index texts: "0", "5", "-1", "abc", "128" (above LONG_MAX on the
\* Windows widths), "65536" (above LLONG_MAX).
I0 == [digits |-> TRUE, val |-> 0, rest |-> FALSE]
I5 == [digits |-> TRUE, val |-> 5, rest |-> FALSE]
INeg == [digits |-> TRUE, val |-> -1, rest |-> FALSE]
INone == [digits |-> FALSE, val |-> 0, rest |-> TRUE]
IWide == [digits |-> TRUE, val |-> 128, rest |-> FALSE]
IHuge == [digits |-> TRUE, val |-> 65536, rest |-> FALSE]
MCIndexTexts == {I0, I5, INeg, INone, IWide, IHuge}

\* Scale texts: "1.5", "abc", "1e99" (ERANGE).
S1 == [digits |-> TRUE, erange |-> FALSE, rest |-> FALSE, val |-> 1]
SNone == [digits |-> FALSE, erange |-> FALSE, rest |-> TRUE, val |-> 0]
SRange == [digits |-> TRUE, erange |-> TRUE, rest |-> FALSE, val |-> 2]
MCScaleTexts == {S1, SNone, SRange}

\* Format texts: "le:s16/16>>0", "be:u12/16X4>>2", "le:s16>>0".
F1 == <<"l", "e", ":", "s", "1", "6", "/", "1", "6", ">", ">", "0">>
F2 == <<"b", "e", ":", "u", "1", "2", "/", "1", "6", "X", "4", ">", ">", "2">>
FBad == <<"l", "e", ":", "s", "1", "6", ">", ">", "0">>
MCFormatTexts == {F1, F2, FBad}
\* The decoding of each format text, computed once.
DecodeTable == [t \in MCFormatTexts |-> Codec!DecodeFormat(t)]
MCDecodeFormat(t) == DecodeTable[t]

(***************************************************************************)
(* Document elements.                                                      *)
(***************************************************************************)
Other == [kind |-> "other"]
CAttr(n, f) == [kind |-> "attribute", name |-> n, filename |-> f]
Scan(ps) == [kind |-> "scan-element", props |-> ps]
Prop(k, t) == [key |-> k, text |-> t]
Chan(id, ty, cs) ==
  [kind |-> "channel", id |-> id, name |-> NoStr, type |-> ty, children |-> cs]
DAttr(k, n) == [kind |-> k, name |-> n]
Dev(id, cs) ==
  [kind |-> "device", id |-> id, name |-> NoStr, label |-> NoStr, children |-> cs]
XAttr(k, v) == [kind |-> "context-attribute", name |-> k, value |-> v]
MkDoc(cs) == [isContext |-> TRUE, desc |-> desc, major |-> NoStr,
              minor |-> NoStr, git |-> NoStr, children |-> cs]

\* Scan-element attribute lists: each attribute alone, and three pairs.
ScanProps ==
  {Prop("index", t) : t \in {I0, I5, INeg, INone}}
  \cup {Prop("format", t) : t \in MCFormatTexts}
  \cup {Prop("scale", t) : t \in MCScaleTexts} \cup {Prop("other", NoStr)}
PropLists ==
  {<<>>} \cup {<<p>> : p \in ScanProps}
  \cup {<<Prop("index", I5), Prop("format", F1)>>,
        <<Prop("format", F2), Prop("scale", S1)>>,
        <<Prop("scale", SRange), Prop("index", I0)>>}

\* Documents exercising <context>, <device> and <channel> in turn.
CtxLevelDocs ==
  {MkDoc(cs) : cs \in BoundedSeq({XAttr(k1, v1), XAttr(k1, v2), XAttr(k2, v2),
                                  XAttr(NoStr, v1), Dev(d1, <<>>), Dev(NoStr, <<>>),
                                  Other}, 2)}
DevLevelDocs ==
  {MkDoc(<<Dev(d1, cs)>>) :
     cs \in BoundedSeq({DAttr("attribute", a1), DAttr("attribute", a2),
                        DAttr("debug-attribute", a1), DAttr("buffer-attribute", a1),
                        DAttr("attribute", NoStr),
                        Chan(c1, NoStr, <<>>), Chan(NoStr, "input", <<>>),
                        Chan(c2, "output", <<CAttr(a1, NoStr)>>), Other}, 2)}
ChnLevelDocs ==
  {MkDoc(<<Dev(d1, <<Chan(c1, "output", cs)>>)>>) :
     cs \in BoundedSeq({CAttr(a1, NoStr), CAttr(a1, a2), CAttr(NoStr, a2), Other}
                       \cup {Scan(ps) : ps \in PropLists}, 2)}
RootDocs ==
  {[MkDoc(<<>>) EXCEPT !.isContext = b, !.major = mj, !.git = g] :
     b \in BOOLEAN, mj \in {NoStr, V1}, g \in {NoStr, tag}}
\* A channel with each index text, alone.
IndexDocs ==
  {MkDoc(<<Dev(d1, <<Chan(c1, NoStr, <<Scan(<<Prop("index", t)>>)>>)>>)>>) :
     t \in MCIndexTexts}
\* The version attributes, with and without version-git.
VersionDocs ==
  {[MkDoc(<<>>) EXCEPT !.major = mj, !.minor = mn, !.git = g] :
     mj \in Opt(MCVerTexts), mn \in {NoStr, V1}, g \in {NoStr, tag}}
ReferenceDocs ==
  CtxLevelDocs \cup DevLevelDocs \cup ChnLevelDocs \cup RootDocs \cup IndexDocs

-----------------------------------------------------------------------------
(***************************************************************************)
(* The reference: the context the spec (sections 3, 4.4 and 6) says a     *)
(* document describes, and when it says the build fails.                   *)
(***************************************************************************)
\* The children of an element of the kinds K, in document order.
OfKind(s, K) == SelectSeq(s, LAMBDA n : n.kind \in K)
\* The elements of s whose key F differs from that of every earlier one.
FirstOccurrences(s, F(_)) ==
  LET keep == SetToSortSeq({i \in DOMAIN s : \A j \in 1..(i - 1) : F(s[j]) # F(s[i])},
                           LAMBDA a, b : a < b)
  IN [k \in DOMAIN keep |-> s[keep[k]]]

\* All attributes of all <scan-element> children of a channel, in order.
ScanPropsOf(n) ==
  LET scans == OfKind(n.children, {"scan-element"})
  IN FlattenSeq([i \in DOMAIN scans |-> scans[i].props])
\* The last of them named key: a later scan-element overrides an earlier.
HasProp(n, key) == \E i \in DOMAIN ScanPropsOf(n) : ScanPropsOf(n)[i].key = key
LastProp(n, key) ==
  LET ps == ScanPropsOf(n)
  IN ps[CHOOSE i \in DOMAIN ps : ps[i].key = key /\
                                  \A j \in DOMAIN ps : ps[j].key = key => j <= i]

PropValid(p) ==
  CASE p.key = "index"  -> IndexAccepted(p.text)
    [] p.key = "format" -> DecodeFormat(p.text).ok
    [] p.key = "scale"  -> ScaleAccepted(p.text)
    [] p.key = "other"  -> TRUE

ChannelValid(n) ==
  /\ n.id # NoStr
  /\ \A i \in DOMAIN n.children :
       n.children[i].kind = "attribute" => n.children[i].name # NoStr
  /\ \A i \in DOMAIN ScanPropsOf(n) : PropValid(ScanPropsOf(n)[i])
DeviceValid(n) ==
  /\ n.id # NoStr
  /\ \A i \in DOMAIN n.children :
       /\ n.children[i].kind \in DevAttrKinds => n.children[i].name # NoStr
       /\ n.children[i].kind = "channel" => ChannelValid(n.children[i])
DocValid(d) ==
  /\ d.isContext
  /\ \A i \in DOMAIN d.children :
       /\ d.children[i].kind = "context-attribute" =>
            NoStr \notin {d.children[i].name, d.children[i].value}
       /\ d.children[i].kind = "device" => DeviceValid(d.children[i])

ChannelMatches(c, n) ==
  LET as == OfKind(n.children, {"attribute"}) IN
  /\ c.id = n.id /\ c.name = n.name
  /\ c.isOutput = (n.type = "output")
  /\ c.isScanElement = (OfKind(n.children, {"scan-element"}) # <<>>)
  /\ c.attrs = [i \in DOMAIN as |->
                  <<as[i].name, IF as[i].filename = NoStr THEN as[i].name
                                                          ELSE as[i].filename>>]
  /\ IF HasProp(n, "index") THEN c.index = LastProp(n, "index").text.val
                            ELSE c.index < 0
  /\ c.format = IF HasProp(n, "format")
                THEN DecodeFormat(LastProp(n, "format").text).fmt ELSE ZeroFormat
  /\ c.withScale = HasProp(n, "scale")
  /\ HasProp(n, "scale") => c.scale = LastProp(n, "scale").text.val

NamesOf(n, kind) ==
  LET es == FirstOccurrences(OfKind(n.children, {kind}), LAMBDA e : e.name)
  IN [i \in DOMAIN es |-> es[i].name]
DeviceMatches(d, n) ==
  LET cs == OfKind(n.children, {"channel"}) IN
  /\ d.id = n.id /\ d.name = n.name /\ d.label = n.label
  /\ d.attrs = NamesOf(n, "attribute")
  /\ d.debugAttrs = NamesOf(n, "debug-attribute")
  /\ d.bufferAttrs = NamesOf(n, "buffer-attribute")
  /\ Len(d.channels) = Len(cs)
  /\ \A j \in DOMAIN cs : ChannelMatches(d.channels[j], cs[j])

ContextMatches(c, d) ==
  LET xs == FirstOccurrences(OfKind(d.children, {"context-attribute"}),
                             LAMBDA e : e.name)
      ds == OfKind(d.children, {"device"})
  IN /\ c.desc = d.desc
     /\ c.attrs = [i \in DOMAIN xs |-> <<xs[i].name, xs[i].value>>]
     /\ Len(c.devices) = Len(ds)
     /\ \A i \in DOMAIN ds : DeviceMatches(c.devices[i], ds[i])

\* The built context is the one the document describes: when the builder
\* returns without an allocation failure, it succeeds exactly when every
\* required attribute is present and every scan-element attribute parses,
\* and the context then holds the context attributes (first occurrence of
\* a key wins), the devices and channels in document order, the device
\* attribute registries without repeats, and each channel's attributes,
\* filename defaulted, index, format and scale.
BuildMatchesReference ==
  pc = "done" /\ err # "ENOMEM" =>
    /\ (err = "none") = DocValid(doc)
    /\ err = "none" => ContextMatches(ctx, doc)

\* The version the spec (section 4.4, step 2) says a version attribute
\* gives: its integer value, 0 when it is absent or does not parse.
SpecVersion(t) == IF t = NoStr \/ ~t.digits \/ t.rest THEN 0 ELSE t.val

\* The context built by iio_create_xml_context_helper carries the
\* version-major and version-minor of the document, best-effort parsed
\* (0 when they do not parse), whether or not version-git is present.
VersionPerSpec ==
  pc = "done" /\ err = "none" =>
    ctx.major = SpecVersion(doc.major) /\ ctx.minor = SpecVersion(doc.minor)
=============================================================================
