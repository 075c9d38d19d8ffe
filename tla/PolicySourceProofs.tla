-------------------------- MODULE PolicySourceProofs --------------------------
(***************************************************************************)
(* For every set of command lines, every document and every change of the  *)
(* filesystem: nothing an invocation asks for is passed over, the rules of *)
(* path flags fit what is at the path, a directory's mode is the one that  *)
(* was written, and a policy survives its way through JSON to the child.   *)
(***************************************************************************)
EXTENDS PolicySource, FiniteSetTheorems, Induction

-----------------------------------------------------------------------------
(* What is parsed, and written again, is parsed to the same.                *)

ReadableNet(n)   == UnmarshalNet(MarshalNet(n)) = {n}
ReadableEntry(e) == UnmarshalEntry(MarshalEntry(e)) = {e}

LEMMA TheOnly ==
  ASSUME NEW x
  PROVE  The({x}) = x
  BY DEF The

LEMMA NetReadable ==
  ASSUME NEW j, NEW n \in UnmarshalNet(j)
  PROVE  ReadableNet(n)
<1>1. CASE n = [allow |-> TRUE, rules |-> {}]
  BY <1>1 DEF ReadableNet, MarshalNet, UnmarshalNet
<1>2. CASE n = [allow |-> FALSE, rules |-> {}]
  BY <1>2 DEF ReadableNet, MarshalNet, UnmarshalNet, JNull, JString
<1>3. ASSUME NEW s, n = [allow |-> FALSE, rules |-> {s}]
      PROVE  ReadableNet(n)
  <2>1. MarshalNet(n) = [json |-> "array", items |-> s]
    BY <1>3, TheOnly DEF MarshalNet, JArray
  <2>2. UnmarshalNet([json |-> "array", items |-> s]) = {[allow |-> FALSE, rules |-> {s}]}
    BY DEF UnmarshalNet, JString, JNull
  <2> QED
    BY <1>3, <2>1, <2>2 DEF ReadableNet
<1>4. \/ n = [allow |-> TRUE, rules |-> {}]
      \/ n = [allow |-> FALSE, rules |-> {}]
      \/ \E s : n = [allow |-> FALSE, rules |-> {s}]
  BY DEF UnmarshalNet
<1> QED
  BY <1>1, <1>2, <1>3, <1>4

(* The provers do not take it from a literal that it is a string.           *)
Text      == STRING \cup {"", ":"}
Separator == Text \ {""}

(* A list of strings: one of one element is written as a string.            *)
LEMMA BagReadable ==
  ASSUME NEW bag \in Seq(Text)
  PROVE  UnmarshalBag(MarshalBag(bag)) = {bag}
<1>1. CASE Len(bag) = 1
  <2>1. bag = <<bag[1]>>
    BY <1>1
  <2>2. MarshalBag(bag) = [json |-> "string", text |-> bag[1]]
    BY <1>1 DEF MarshalBag, JString
  <2>3. UnmarshalBag(MarshalBag(bag)) = {<<bag[1]>>}
    BY <2>2 DEF UnmarshalBag
  <2> QED
    BY <2>1, <2>3
<1>2. CASE Len(bag) # 1
  BY <1>2 DEF MarshalBag, JArray, UnmarshalBag
<1> QED
  BY <1>1, <1>2

LEMMA Wider ==
  ASSUME NEW S, NEW T, S \subseteq T
  PROVE  /\ \A s \in Seq(S) : s \in Seq(T)
         /\ \A x \in S : <<x>> \in Seq(S)
  OBVIOUS

LEMMA BagType ==
  ASSUME NEW j, IsJSON(j), NEW bag \in UnmarshalBag(j)
  PROVE  bag \in Seq(Text)
<1>1. CASE j.json = "array"
  <2>1. bag \in Seq(STRING)
    BY <1>1 DEF UnmarshalBag, IsJSON
  <2>2. STRING \subseteq Text
    BY DEF Text
  <2> QED
    BY <2>1, <2>2, Wider
<1>2. CASE j.json = "string"
  <2>1. j.text \in Text /\ bag = <<j.text>>
    BY <1>2 DEF UnmarshalBag, IsJSON, Text
  <2> QED
    BY <2>1
<1>3. CASE j.json = "null"
  <2>1. bag = <<"">>
    BY <1>3 DEF UnmarshalBag
  <2>2. "" \in Text
    BY DEF Text
  <2> QED
    BY <2>1, <2>2, Wider
<1> QED
  BY <1>1, <1>2, <1>3 DEF UnmarshalBag

(* An entry that edits a path.                                              *)
LEMMA SepType ==
  ASSUME NEW F, \A f \in DOMAIN F : IsJSON(F[f]), NEW s \in SepOf(F)
  PROVE  s \in Separator
<1>1. CASE s = ":"
  <2>1. ":" \in Text
    BY DEF Text
  <2>2. ":" # ""
    OBVIOUS
  <2> QED
    BY <1>1, <2>1, <2>2 DEF Separator
<1>2. CASE /\ "sep" \in DOMAIN F /\ F["sep"] # JString("")
           /\ F["sep"].json = "string" /\ s = F["sep"].text
  <2>1. F["sep"] \in [json : {"string"}, text : STRING]
    BY <1>2 DEF IsJSON
  <2>2. F["sep"] = [json |-> "string", text |-> s]
    BY <1>2, <2>1
  <2> QED
    BY <1>2, <2>1, <2>2 DEF JString, Text, Separator
<1> QED
  BY <1>1, <1>2 DEF SepOf

LEMMA ObjectEntry ==
  ASSUME NEW F, \A f \in DOMAIN F : IsJSON(F[f]), NEW e \in UnmarshalPathOp(F)
  PROVE  \E p, a, r \in Seq(Text), s \in Separator : e = PathOp(p, a, r, s)
<1>1. ASSUME NEW f, NEW b \in BagOf(F, f)
      PROVE  b \in Seq(Text)
  <2>1. CASE f \in DOMAIN F
    BY <2>1, BagType DEF BagOf
  <2>2. CASE b = <<>>
    BY <2>2
  <2> QED
    BY <2>1, <2>2 DEF BagOf
<1>2. PICK p \in BagOf(F, "prepend"), a \in BagOf(F, "append"), r \in BagOf(F, "remove"),
           s \in SepOf(F) : e = PathOp(p, a, r, s)
  BY DEF UnmarshalPathOp
<1> QED
  BY <1>1, <1>2, SepType

LEMMA OnePathOp ==
  ASSUME NEW G, NEW x, NEW y, NEW z, NEW t,
         BagOf(G, "prepend") = {x}, BagOf(G, "append") = {y}, BagOf(G, "remove") = {z},
         SepOf(G) = {t}
  PROVE  UnmarshalPathOp(G) = {PathOp(x, y, z, t)}
  BY DEF UnmarshalPathOp

LEMMA PathOpReadable ==
  ASSUME NEW p \in Seq(Text), NEW a \in Seq(Text), NEW r \in Seq(Text),
         NEW s \in Separator
  PROVE  ReadableEntry(PathOp(p, a, r, s))
<1> DEFINE e == PathOp(p, a, r, s)
           D == { b \in Bags : e[b] # <<>> } \cup (IF e.sep \in {"", ":"} THEN {} ELSE {"sep"})
           F == [f \in D |-> IF f = "sep" THEN JString(e.sep) ELSE MarshalBag(e[f])]
<1>1. /\ e.value = {} /\ e.unset = FALSE /\ e.sep = s
      /\ e["prepend"] = p /\ e["append"] = a /\ e["remove"] = r
  BY DEF PathOp
<1>2. MarshalEntry(e) = [json |-> "object", fields |-> F]
  BY <1>1 DEF MarshalEntry, JObject, Separator
<1>3. BagOf(F, "prepend") = {p} /\ BagOf(F, "append") = {a} /\ BagOf(F, "remove") = {r}
  BY <1>1, BagReadable DEF Bags, BagOf
<1>4. SepOf(F) = {s}
  BY <1>1 DEF JNull, JString, Bags, SepOf, Separator
<1> HIDE DEF F, D
<1> HIDE DEF e
<1>5. UnmarshalPathOp(F) = {PathOp(p, a, r, s)}
  BY <1>3, <1>4, OnePathOp
<1>6. UnmarshalEntry([json |-> "object", fields |-> F]) = UnmarshalPathOp(F)
  BY DEF UnmarshalEntry
<1> QED
  BY <1>2, <1>5, <1>6 DEF ReadableEntry, e

LEMMA NullEntry ==
  ReadableEntry([NoEntry EXCEPT !.unset = TRUE])
<1>1. MarshalEntry([NoEntry EXCEPT !.unset = TRUE]) = [json |-> "null"]
  BY DEF MarshalEntry, JNull, NoEntry, PathOp
<1>2. UnmarshalEntry([json |-> "null"]) = {[NoEntry EXCEPT !.unset = TRUE]}
  BY DEF UnmarshalEntry
<1> QED
  BY <1>1, <1>2 DEF ReadableEntry

LEMMA ValueEntry ==
  ASSUME NEW text
  PROVE  ReadableEntry([NoEntry EXCEPT !.value = {text}])
<1>1. MarshalEntry([NoEntry EXCEPT !.value = {text}]) = [json |-> "string", text |-> text]
  BY TheOnly DEF MarshalEntry, JString, NoEntry, PathOp
<1>2. UnmarshalEntry([json |-> "string", text |-> text]) = {[NoEntry EXCEPT !.value = {text}]}
  BY DEF UnmarshalEntry
<1> QED
  BY <1>1, <1>2 DEF ReadableEntry

(* Whatever is parsed of an entry.                                          *)
LEMMA EntryReadable ==
  ASSUME NEW j, j.json = "object" => \A f \in DOMAIN j.fields : IsJSON(j.fields[f]),
         NEW e \in UnmarshalEntry(j)
  PROVE  ReadableEntry(e)
<1>1. CASE j.json = "null"
  <2>1. e = [NoEntry EXCEPT !.unset = TRUE]
    BY <1>1 DEF UnmarshalEntry
  <2> QED
    BY <2>1, NullEntry
<1>2. CASE j.json = "string"
  <2>1. e = [NoEntry EXCEPT !.value = {j.text}]
    BY <1>2 DEF UnmarshalEntry
  <2> QED
    BY <2>1, ValueEntry
<1>3. CASE j.json = "object"
  <2>1. e \in UnmarshalPathOp(j.fields)
    BY <1>3 DEF UnmarshalEntry
  <2>2. PICK p, a, r \in Seq(Text), s \in Separator : e = PathOp(p, a, r, s)
    BY <1>3, <2>1, ObjectEntry
  <2> QED
    BY <2>2, PathOpReadable
<1> QED
  BY <1>1, <1>2, <1>3 DEF UnmarshalEntry
-----------------------------------------------------------------------------
(* Policies.                                                                *)

(* Rules of documents and of path flags.                                    *)
Rule == [path : STRING, access : SUBSET (STRING \cup Flag), refer : BOOLEAN,
         ioctlDev : BOOLEAN, ignoreMissing : BOOLEAN, createDir : Seq(Nat)]

Record(p) ==
  p = [name |-> p.name, unshare |-> p.unshare, fs |-> p.fs, ipc |-> p.ipc,
       net |-> p.net, env |-> p.env]

(* A policy that comes back from JSON as it was.                            *)
Portable(p) ==
  /\ Record(p)
  /\ p.fs \in Seq(Rule) /\ \A i \in DOMAIN p.fs : p.fs[i].path \in Utf8
  /\ ReadableNet(p.net)
  /\ p.env = [v \in DOMAIN p.env |-> p.env[v]]
  /\ \A v \in DOMAIN p.env : ReadableEntry(p.env[v])

LEMMA RulesWritten ==
  ASSUME NEW s \in Seq(Rule), \A i \in DOMAIN s : s[i].path \in Utf8
  PROVE  [i \in DOMAIN s |-> [s[i] EXCEPT !.path = Encode(@)]] = s
<1>1. ASSUME NEW i \in DOMAIN s
      PROVE  [s[i] EXCEPT !.path = Encode(@)] = s[i]
  <2>1. s[i] \in Rule /\ Encode(s[i].path) = s[i].path
    BY DEF Encode
  <2> QED
    BY <2>1 DEF Rule
<1> DEFINE t == [i \in DOMAIN s |-> [s[i] EXCEPT !.path = Encode(@)]]
<1>2. DOMAIN t = DOMAIN s /\ \A i \in DOMAIN t : t[i] = s[i]
  BY <1>1
<1>3. s = [i \in DOMAIN s |-> s[i]]
  OBVIOUS
<1> QED
  BY <1>2, <1>3

LEMMA RoundTrip ==
  ASSUME NEW p, Portable(p)
  PROVE  Unmarshal(Marshal(p)) = {p}
<1> DEFINE d == Marshal(p)
           env == [v \in DOMAIN p.env |-> MarshalEntry(p.env[v])]
<1>1. /\ d.name = p.name /\ d.unshare = p.unshare /\ d.ipc = p.ipc
      /\ d.net = MarshalNet(p.net) /\ d.env = env /\ d.fs = p.fs
  BY RulesWritten DEF Marshal, Portable
<1>2. \A v \in DOMAIN env : UnmarshalEntry(env[v]) = {p.env[v]}
  BY DEF Portable, ReadableEntry
<1>3. [v \in DOMAIN env |-> The(UnmarshalEntry(env[v]))] = p.env
  <2>1. \A v \in DOMAIN p.env : The(UnmarshalEntry(env[v])) = p.env[v]
    BY <1>2, TheOnly
  <2> QED
    BY <2>1 DEF Portable
<1>4. UnmarshalNet(d.net) = {p.net}
  BY <1>1 DEF Portable, ReadableNet
<1> HIDE DEF d, env
<1>5. Unmarshal(d) =
        { [name |-> p.name, unshare |-> p.unshare, fs |-> p.fs, ipc |-> p.ipc, net |-> n,
           env |-> p.env] : n \in {p.net} }
  BY <1>1, <1>2, <1>3, <1>4 DEF Unmarshal
<1> QED
  BY <1>5 DEF d, Portable, Record

LEMMA ParsedPortable ==
  ASSUME NEW doc \in Documents, NEW p \in Unmarshal(doc)
  PROVE  Portable(p) /\ p.fs = doc.fs
<1> DEFINE env == [v \in DOMAIN doc.env |-> The(UnmarshalEntry(doc.env[v]))]
<1>1. PICK n \in UnmarshalNet(doc.net) :
        p = [name |-> doc.name, unshare |-> doc.unshare, fs |-> doc.fs, ipc |-> doc.ipc,
             net |-> n, env |-> env]
  BY DEF Unmarshal
<1>2. /\ p.name = doc.name /\ p.unshare = doc.unshare /\ p.fs = doc.fs /\ p.ipc = doc.ipc
      /\ p.net = n /\ p.env = env
  BY <1>1
<1>3. ASSUME NEW v \in DOMAIN env
      PROVE  ReadableEntry(env[v])
  <2>1. UnmarshalEntry(doc.env[v]) # {}
    BY DEF Unmarshal
  <2>2. env[v] \in UnmarshalEntry(doc.env[v])
    BY <2>1 DEF The
  <2> QED
    BY <2>2, DocumentAssumption, EntryReadable
<1>4. p.fs \in Seq(Rule) /\ \A i \in DOMAIN p.fs : p.fs[i].path \in Utf8
  <2>1. doc.fs \in Seq(FSRule)
    BY DocumentAssumption
  <2>2. FSRule \subseteq Rule
    BY DEF FSRule, Rule
  <2>3. doc.fs \in Seq(Rule)
    BY <2>1, <2>2, Wider
  <2> QED
    BY <1>2, <2>3, DocumentAssumption
<1>5. ReadableNet(p.net)
  BY <1>2, NetReadable
<1>6. p.env = [v \in DOMAIN p.env |-> p.env[v]]
  BY <1>2
<1>7. Record(p)
  BY <1>1, <1>2 DEF Record
<1>8. \A v \in DOMAIN p.env : ReadableEntry(p.env[v])
  BY <1>2, <1>3
<1> HIDE DEF env
<1> QED
  BY <1>2, <1>4, <1>5, <1>6, <1>7, <1>8 DEF Portable

(* One rule more.                                                           *)
LEMMA WithRule ==
  ASSUME NEW p, Record(p), NEW rule
  PROVE  LET q == [p EXCEPT !.fs = Append(@, rule)]
         IN  /\ Record(q) /\ q.fs = Append(p.fs, rule)
             /\ q.name = p.name /\ q.unshare = p.unshare /\ q.ipc = p.ipc
             /\ q.net = p.net /\ q.env = p.env
<1> DEFINE q == [name |-> p.name, unshare |-> p.unshare, fs |-> Append(p.fs, rule),
                 ipc |-> p.ipc, net |-> p.net, env |-> p.env]
<1>1. [p EXCEPT !.fs = Append(@, rule)] = q
  <2>1. ASSUME NEW a, NEW b, NEW c, NEW d, NEW e, NEW f,
               p = [name |-> a, unshare |-> b, fs |-> c, ipc |-> d, net |-> e, env |-> f]
        PROVE  [p EXCEPT !.fs = Append(@, rule)]
                 = [name |-> a, unshare |-> b, fs |-> Append(c, rule), ipc |-> d,
                    net |-> e, env |-> f]
    BY <2>1, SMTT(30)
  <2> QED
    BY <2>1 DEF Record
<1> QED
  BY <1>1 DEF Record
-----------------------------------------------------------------------------
(* The invariant.                                                           *)

AllFlags == Len(args.ro) + Len(args.rw)

(* What ResolveSource has decided.                                          *)
Chosen ==
  /\ ~BadSources(args)
  /\ source = {} <=> NoPolicy(args)
  /\ rendered <=> args.policy = "template"

(* How far the invocation has come.                                         *)
Reached ==
  /\ args \in Requests /\ fs \in [Path -> Kind]
  /\ pc \in {"args", "source", "parse", "flags", "stopped"}
  /\ pc # "stopped" => end = "running" /\ handed = {} /\ received = {}
  /\ pc \in {"args", "source"} => source = {} /\ ~rendered
  /\ pc \in {"args", "source", "parse"} => policy = {} /\ appended = 0
  /\ pc = "parse" => source # {}
  /\ pc \in {"source", "parse", "flags"} \/ Accepted => ~BadCommandLine(args)
  /\ pc \in {"parse", "flags"} \/ Accepted => Chosen
  /\ source = {} \/ \E d \in Documents : source = {d}
  /\ appended \in 0 .. AllFlags
  /\ Accepted => /\ appended = AllFlags
                 /\ end = "launched" <=> ~args.dryRun /\ ~args.expand

Base == IF source = {} THEN <<>> ELSE The(source).fs

(* The rule of a flag: of a --rw path, what it was when it was examined,    *)
(* and still is if nobody has touched it.                                   *)
OfFlag(rule, i) ==
  IF i <= Len(args.ro) THEN rule = RORule(args.ro[i])
  ELSE LET path == args.rw[i - Len(args.ro)]
       IN  \E kind \in Kind \ {"denied"} :
             rule = RWRule(path, kind) /\ (path \in touched \/ kind = fs[path])

(* The rules are those of the document, then those of the flags so far.     *)
Layout ==
  \A p \in policy :
    /\ Record(p) /\ p.fs \in Seq(Rule)
    /\ Len(p.fs) = Len(Base) + appended
    /\ \A i \in 1 .. Len(Base) : p.fs[i] = Base[i]
    /\ \A i \in 1 .. appended : OfFlag(p.fs[Len(Base) + i], i)

SourceInv == Reached /\ Layout

LEMMA RequestType ==
  ASSUME args \in Requests
  PROVE  /\ args.ro \in Seq(Path) /\ args.rw \in Seq(Path)
         /\ Len(args.ro) \in Nat /\ Len(args.rw) \in Nat /\ AllFlags \in Nat
<1>1. args.ro \in Seq(Path) /\ args.rw \in Seq(Path)
  BY PolicySourceAssumption
<1>2. Len(args.ro) \in Nat /\ Len(args.rw) \in Nat
  BY <1>1
<1>3. \A m, n \in Nat : m + n \in Nat
  OBVIOUS
<1>4. AllFlags \in Nat
  BY <1>2, <1>3, Zenon DEF AllFlags
<1> QED
  BY <1>1, <1>2, <1>4

LEMMA AppendedType ==
  ASSUME Reached
  PROVE  appended \in Nat
<1>1. AllFlags \in Nat /\ appended \in 0 .. AllFlags
  BY RequestType DEF Reached
<1> QED
  BY <1>1

LEMMA BaseType ==
  ASSUME Reached
  PROVE  Base \in Seq(Rule) /\ Len(Base) \in Nat
<1>1. CASE source = {}
  <2>1. Base = <<>>
    BY <1>1 DEF Base
  <2> QED
    BY <2>1
<1>2. ASSUME NEW d \in Documents, source = {d}
      PROVE  Base \in Seq(Rule)
  <2>1. Base = d.fs /\ d.fs \in Seq(FSRule)
    BY <1>2, TheOnly, DocumentAssumption DEF Base
  <2>2. FSRule \subseteq Rule
    BY DEF FSRule, Rule
  <2> QED
    BY <2>1, <2>2, Wider
<1> QED
  BY <1>1, <1>2 DEF Reached

LEMMA FlagRules ==
  ASSUME NEW path \in Path, NEW kind
  PROVE  /\ RORule(path) \in Rule /\ RWRule(path, kind) \in Rule
         /\ RORule(path).path = path /\ RWRule(path, kind).path = path
<1>1. path \in STRING
  BY PolicySourceAssumption
<1>2. <<>> \in Seq(Nat)
  OBVIOUS
<1>3. ASSUME NEW access \in SUBSET Flag, NEW refer \in BOOLEAN, NEW ioctl \in BOOLEAN,
             NEW none \in Seq(Nat)
      PROVE  [path |-> path, access |-> access, refer |-> refer, ioctlDev |-> ioctl,
              ignoreMissing |-> TRUE, createDir |-> none] \in Rule
  BY <1>1 DEF Rule
<1>4. RORule(path) \in Rule
  BY <1>2, <1>3 DEF RORule, Flag
<1>5. RWRule(path, kind) \in Rule
  <2>1. {"r", "w", "x", "u"} \cup (IF kind = "file" THEN {} ELSE {"c", "d"}) \in SUBSET Flag
    BY DEF Flag
  <2>2. (kind # "file") \in BOOLEAN
    OBVIOUS
  <2> QED
    BY <1>2, <1>3, <2>1, <2>2 DEF RWRule
<1> QED
  BY <1>4, <1>5 DEF RORule, RWRule

LEMMA SourceInit == Init => SourceInv
<1> SUFFICES ASSUME Init PROVE SourceInv
  OBVIOUS
<1>1. args \in Requests /\ fs \in [Path -> Kind]
  BY PolicySourceAssumption DEF Init
<1>2. AllFlags \in Nat
  BY <1>1, RequestType
<1>3. Reached
  BY <1>1, <1>2 DEF Init, Reached, Accepted
<1> QED
  BY <1>3 DEF Init, SourceInv, Layout

(* A step that looks only at flags and source.                              *)
LEMMA SameLayout ==
  ASSUME SourceInv, UNCHANGED <<args, fs, touched, source, policy, appended>>
  PROVE  Layout'
  BY SMTT(30) DEF SourceInv, Layout, OfFlag, Base

LEMMA ParseArgsKeeps == SourceInv /\ ParseArgs => SourceInv'
<1> SUFFICES ASSUME SourceInv, ParseArgs PROVE SourceInv'
  OBVIOUS
<1>1. UNCHANGED <<args, fs, touched, source, rendered, policy, appended, handed, received>>
  BY DEF ParseArgs
<1>2. Layout'
  BY <1>1, SameLayout
<1>3. \/ pc' = "stopped" /\ end' \in {"usage", "features"}
      \/ pc' = "source" /\ end' = end /\ ~BadCommandLine(args)
  BY DEF ParseArgs, Stop, Goto
<1>4. pc = "args" /\ Reached
  BY DEF ParseArgs, SourceInv
<1>5. AllFlags' = AllFlags
  BY <1>1 DEF AllFlags
<1>6. Reached'
  BY <1>1, <1>3, <1>4, <1>5 DEF Reached, Accepted
<1> QED
  BY <1>2, <1>6 DEF SourceInv

LEMMA ResolveSourceKeeps == SourceInv /\ ResolveSource => SourceInv'
<1> SUFFICES ASSUME SourceInv, ResolveSource PROVE SourceInv'
  OBVIOUS
<1>1. UNCHANGED <<args, fs, touched, appended, handed, received>>
  BY DEF ResolveSource
<1>2. /\ Reached /\ pc = "source" /\ source = {} /\ ~rendered /\ policy = {} /\ appended = 0
      /\ end = "running"
  BY DEF ResolveSource, SourceInv, Reached
<1>3. AllFlags' = AllFlags
  BY <1>1 DEF AllFlags
<1>4. CASE pc' = "stopped" /\ end' \in {"usage", "error"} /\ UNCHANGED <<source, rendered, policy>>
  <2>1. Reached'
    BY <1>1, <1>2, <1>3, <1>4 DEF Reached, Accepted
  <2> QED
    BY <1>1, <1>4, <2>1, SameLayout DEF SourceInv
<1>5. CASE /\ ~BadSources(args) /\ ~NoPolicy(args)
           /\ \E d \in Documents : source' = {d}
           /\ rendered' = (args.policy = "template")
           /\ pc' = "parse" /\ UNCHANGED <<end, policy>>
  <2>1. Chosen'
    BY <1>1, <1>5 DEF Chosen
  <2>2. Reached'
    BY <1>1, <1>2, <1>3, <1>5, <2>1 DEF Reached, Accepted
  <2> QED
    BY <1>2, <1>5, <2>2 DEF SourceInv, Layout
<1>6. CASE /\ ~BadSources(args) /\ NoPolicy(args)
           /\ policy' = {CLIPolicy}
           /\ pc' = "flags" /\ UNCHANGED <<end, source, rendered>>
  <2>1. Chosen'
    BY <1>1, <1>2, <1>6 DEF Chosen, NoPolicy
  <2>2. Reached'
    BY <1>1, <1>2, <1>3, <1>6, <2>1 DEF Reached, Accepted
  <2>3. Record(CLIPolicy) /\ CLIPolicy.fs = <<>>
    BY DEF CLIPolicy, Record
  <2>4. <<>> \in Seq(Rule) /\ Len(<<>>) = 0
    OBVIOUS
  <2>5. Len(Base') = 0 /\ appended' = 0
    BY <1>1, <1>2, <1>6, <2>4 DEF Base
  <2>6. 1 .. Len(Base') = {} /\ 1 .. appended' = {}
    BY <2>5
  <2>7. CLIPolicy.fs \in Seq(Rule) /\ Len(CLIPolicy.fs) = Len(Base') + appended'
    BY <2>3, <2>4, <2>5
  <2>8. Layout'
    BY <1>6, <2>3, <2>6, <2>7 DEF Layout
  <2> QED
    BY <2>2, <2>8 DEF SourceInv
<1> QED
  BY <1>4, <1>5, <1>6 DEF ResolveSource, Stop, Goto

LEMMA ParseSourceKeeps == SourceInv /\ ParseSource => SourceInv'
<1> SUFFICES ASSUME SourceInv, ParseSource PROVE SourceInv'
  OBVIOUS
<1>1. UNCHANGED <<args, fs, touched, source, rendered, appended, handed, received>>
  BY DEF ParseSource
<1>2. /\ Reached /\ pc = "parse" /\ source # {} /\ policy = {} /\ appended = 0
      /\ end = "running" /\ Chosen /\ ~BadCommandLine(args)
  BY DEF ParseSource, SourceInv, Reached
<1>3. AllFlags' = AllFlags /\ Chosen'
  BY <1>1, <1>2 DEF AllFlags, Chosen
<1>4. \/ pc' = "stopped" /\ end' = "error"
      \/ pc' = "flags" /\ end' = end
  BY DEF ParseSource, Stop, Goto
<1>5. Reached'
  BY <1>1, <1>2, <1>3, <1>4 DEF Reached, Accepted
<1>6. PICK d \in Documents : source = {d}
  BY <1>2 DEF Reached
<1>7. Base' = d.fs /\ The(source) = d
  BY <1>1, <1>6, TheOnly DEF Base
<1>8. ASSUME NEW p \in policy'
      PROVE  Portable(p) /\ p.fs = Base'
  BY <1>6, <1>7, ParsedPortable DEF ParseSource, Parse
<1>9. Base' \in Seq(Rule) /\ Len(Base') \in Nat
  <2>1. d.fs \in Seq(FSRule)
    BY DocumentAssumption
  <2>2. FSRule \subseteq Rule
    BY DEF FSRule, Rule
  <2>3. Base' \in Seq(Rule)
    BY <1>7, <2>1, <2>2, Wider
  <2> QED
    BY <2>3
<1>10. 1 .. appended' = {} /\ Len(Base') = Len(Base') + appended'
  BY <1>1, <1>2, <1>9
<1>11. ASSUME NEW p \in policy'
       PROVE  /\ Record(p) /\ p.fs \in Seq(Rule)
              /\ Len(p.fs) = Len(Base') + appended'
              /\ \A i \in 1 .. Len(Base') : p.fs[i] = Base'[i]
  <2>1. Record(p) /\ p.fs = Base'
    BY <1>8 DEF Portable
  <2> QED
    BY <2>1, <1>9, <1>10
<1>12. Layout'
  BY <1>10, <1>11 DEF Layout
<1> QED
  BY <1>5, <1>12 DEF SourceInv

LEMMA AppendKeeps ==
  ASSUME SourceInv, pc = "flags", appended < AllFlags, NEW rule \in Rule, Append_(rule),
         OfFlag(rule, appended + 1),
         UNCHANGED <<args, fs, touched, pc, source, rendered, end, handed, received>>
  PROVE  SourceInv'
<1>1. Reached /\ Layout
  BY DEF SourceInv
<1>2. AllFlags' = AllFlags /\ AllFlags \in Nat /\ appended \in Nat /\ appended' = appended + 1
  <2>1. AllFlags' = AllFlags
    BY DEF AllFlags
  <2>2. AllFlags \in Nat /\ appended \in 0 .. AllFlags
    BY <1>1, RequestType DEF Reached
  <2> QED
    BY <2>1, <2>2 DEF Append_
<1>3. appended' \in 0 .. AllFlags'
  BY <1>2
<1>4. ~BadCommandLine(args) /\ Chosen /\ ~Accepted /\ end = "running"
  BY <1>1 DEF Reached, Accepted
<1>5. Chosen' /\ ~Accepted'
  BY <1>4 DEF Chosen, Accepted
<1>6. Reached'
  BY <1>1, <1>3, <1>4, <1>5 DEF Reached
<1>7. Base' = Base /\ Base \in Seq(Rule) /\ Len(Base) \in Nat
  BY <1>1, BaseType DEF Base
<1>8. ASSUME NEW q \in policy'
      PROVE  /\ Record(q) /\ q.fs \in Seq(Rule)
             /\ Len(q.fs) = Len(Base) + appended'
             /\ \A i \in 1 .. Len(Base) : q.fs[i] = Base[i]
             /\ \A i \in 1 .. appended : OfFlag(q.fs[Len(Base) + i], i)
             /\ q.fs[Len(Base) + appended + 1] = rule
  <2>1. PICK p \in policy : q = [p EXCEPT !.fs = Append(@, rule)]
    BY DEF Append_
  <2>2. /\ Record(p) /\ p.fs \in Seq(Rule)
        /\ Len(p.fs) = Len(Base) + appended
        /\ \A i \in 1 .. Len(Base) : p.fs[i] = Base[i]
        /\ \A i \in 1 .. appended : OfFlag(p.fs[Len(Base) + i], i)
    BY <1>1 DEF Layout
  <2>3. Record(q) /\ q.fs = Append(p.fs, rule)
    BY <2>1, <2>2, WithRule
  <2>4. /\ q.fs \in Seq(Rule) /\ Len(q.fs) = Len(p.fs) + 1
        /\ \A i \in 1 .. Len(p.fs) : q.fs[i] = p.fs[i]
        /\ q.fs[Len(p.fs) + 1] = rule
    BY <2>2, <2>3
  <2>5. \A i \in 1 .. Len(Base) : i \in 1 .. Len(p.fs)
    BY <1>2, <1>7, <2>2
  <2>6. \A i \in 1 .. appended : Len(Base) + i \in 1 .. Len(p.fs)
    BY <1>2, <1>7, <2>2
  <2>7. /\ Len(q.fs) = Len(Base) + appended'
        /\ q.fs[Len(Base) + appended + 1] = rule
    BY <1>2, <1>7, <2>2, <2>4
  <2>8. \A i \in 1 .. Len(Base) : q.fs[i] = Base[i]
    BY <2>2, <2>4, <2>5
  <2>9. ASSUME NEW i \in 1 .. appended
        PROVE  OfFlag(q.fs[Len(Base) + i], i)
    <3>1. q.fs[Len(Base) + i] = p.fs[Len(Base) + i]
      BY <2>4, <2>6
    <3> QED
      BY <2>2, <3>1
  <2> QED
    BY <2>3, <2>4, <2>7, <2>8, <2>9
<1>9. ASSUME NEW q \in policy', NEW i \in 1 .. appended'
      PROVE  OfFlag(q.fs[Len(Base) + i], i)
  <2>1. CASE i = appended + 1
    <3>1. Len(Base) + i = Len(Base) + appended + 1
      BY <1>2, <1>7, <2>1
    <3> QED
      BY <1>8, <2>1, <3>1
  <2>2. CASE i \in 1 .. appended
    BY <1>8, <2>2
  <2> QED
    BY <1>2, <2>1, <2>2
<1>10. Layout'
  <2>1. ASSUME NEW q \in policy', NEW i \in 1 .. appended'
        PROVE  OfFlag(q.fs[Len(Base) + i], i)'
    <3>1. OfFlag(q.fs[Len(Base) + i], i)
      BY <1>9
    <3> QED
      BY <1>7, <3>1 DEF OfFlag
  <2> QED
    BY <1>7, <1>8, <2>1 DEF Layout
<1> QED
  BY <1>6, <1>10 DEF SourceInv

(* The flag whose turn it is.                                               *)
LEMMA TurnRO ==
  ASSUME NEW ro \in Seq(Path), NEW rw \in Seq(Path), NEW n \in Nat, n < Len(ro)
  PROVE  ro[n + 1] \in Path /\ n < Len(ro) + Len(rw) /\ n + 1 <= Len(ro)
  OBVIOUS

LEMMA TurnRW ==
  ASSUME NEW ro \in Seq(Path), NEW rw \in Seq(Path), NEW n \in Nat,
         n \in Len(ro) .. Len(ro) + Len(rw) - 1
  PROVE  /\ rw[n - Len(ro) + 1] \in Path /\ n < Len(ro) + Len(rw)
         /\ ~(n + 1 <= Len(ro)) /\ (n + 1) - Len(ro) = n - Len(ro) + 1
<1>1. Len(ro) \in Nat /\ Len(rw) \in Nat
  OBVIOUS
<1>2. n - Len(ro) + 1 \in 1 .. Len(rw)
  BY <1>1
<1> QED
  BY <1>1, <1>2

LEMMA AppendROKeeps == SourceInv /\ AppendRO => SourceInv'
<1> SUFFICES ASSUME SourceInv, AppendRO PROVE SourceInv'
  OBVIOUS
<1>1. args \in Requests /\ appended \in Nat
  BY AppendedType DEF SourceInv, Reached
<1>2. pc = "flags" /\ appended < Len(args.ro)
  BY DEF AppendRO
<1>3. args.ro[appended + 1] \in Path /\ appended < AllFlags /\ appended + 1 <= Len(args.ro)
  BY <1>1, <1>2, RequestType, TurnRO DEF AllFlags
<1>4. RORule(args.ro[appended + 1]) \in Rule
  BY <1>3, FlagRules
<1>5. OfFlag(RORule(args.ro[appended + 1]), appended + 1)
  BY <1>3 DEF OfFlag
<1> QED
  BY <1>2, <1>3, <1>4, <1>5, AppendKeeps DEF AppendRO

LEMMA AppendRWKeeps == SourceInv /\ AppendRW => SourceInv'
<1> SUFFICES ASSUME SourceInv, AppendRW PROVE SourceInv'
  OBVIOUS
<1> DEFINE path == args.rw[appended - Len(args.ro) + 1]
<1>1. Reached /\ args \in Requests /\ appended \in Nat /\ fs \in [Path -> Kind]
  BY AppendedType DEF SourceInv, Reached
<1>2. pc = "flags" /\ appended \in Len(args.ro) .. Len(args.ro) + Len(args.rw) - 1
  BY DEF AppendRW
<1>3. /\ path \in Path /\ appended < AllFlags
      /\ ~(appended + 1 <= Len(args.ro)) /\ (appended + 1) - Len(args.ro) = appended - Len(args.ro) + 1
  BY <1>1, <1>2, RequestType, TurnRW DEF AllFlags
<1>4. CASE fs[path] = "denied"
  <2>1. /\ pc' = "stopped" /\ end' = "usage"
        /\ UNCHANGED <<args, fs, touched, source, rendered, policy, appended, handed, received>>
    BY <1>4 DEF AppendRW, Stop
  <2>2. Layout' /\ AllFlags' = AllFlags
    BY <2>1, SameLayout DEF AllFlags
  <2>3. Reached'
    BY <1>1, <2>1, <2>2 DEF Reached, Accepted
  <2> QED
    BY <2>2, <2>3 DEF SourceInv
<1>5. CASE fs[path] # "denied"
  <2>1. RWRule(path, fs[path]) \in Rule
    BY <1>3, FlagRules
  <2>2. fs[path] \in Kind \ {"denied"}
    BY <1>1, <1>3, <1>5
  <2>3. OfFlag(RWRule(path, fs[path]), appended + 1)
    BY <1>3, <2>2 DEF OfFlag
  <2>4. /\ Append_(RWRule(path, fs[path]))
        /\ UNCHANGED <<args, fs, touched, pc, source, rendered, end, handed, received>>
    BY <1>5 DEF AppendRW
  <2> QED
    BY <1>2, <1>3, <2>1, <2>3, <2>4, AppendKeeps
<1> QED
  BY <1>4, <1>5

LEMMA ConcludeKeeps == SourceInv /\ Conclude => SourceInv'
<1> SUFFICES ASSUME SourceInv, Conclude PROVE SourceInv'
  OBVIOUS
<1>1. UNCHANGED <<args, fs, touched, source, rendered, policy, appended, received>>
  BY DEF Conclude
<1>2. /\ Reached /\ pc = "flags" /\ appended = AllFlags /\ end = "running" /\ Chosen
      /\ ~BadCommandLine(args)
  BY DEF Conclude, SourceInv, Reached, AllFlags
<1>3. AllFlags' = AllFlags /\ Chosen' /\ Layout'
  BY <1>1, <1>2, SameLayout DEF AllFlags, Chosen
<1>4. /\ pc' = "stopped" /\ end' \in {"expanded", "dry run", "error", "launched"}
      /\ end' = "launched" => ~args.dryRun /\ ~args.expand
      /\ end' \in {"expanded", "dry run"} => args.dryRun \/ args.expand
  BY DEF Conclude, Stop
<1>5. Reached'
  BY <1>1, <1>2, <1>3, <1>4 DEF Reached, Accepted
<1> QED
  BY <1>3, <1>5 DEF SourceInv

LEMMA ChangeKeeps == SourceInv /\ Change => SourceInv'
<1> SUFFICES ASSUME SourceInv, Change PROVE SourceInv'
  OBVIOUS
<1>1. UNCHANGED <<args, pc, source, rendered, policy, appended, end, handed, received>>
  BY DEF Change
<1>2. Reached /\ Layout /\ fs \in [Path -> Kind]
  BY DEF SourceInv, Reached
<1>3. PICK path \in Path \ touched, kind \in Kind :
        fs' = [fs EXCEPT ![path] = kind] /\ touched' = touched \cup {path}
  BY DEF Change
<1>4. fs' \in [Path -> Kind] /\ \A x : x \notin touched' => x \notin touched /\ fs'[x] = fs[x]
  BY <1>2, <1>3
<1>5. Chosen' = Chosen /\ Accepted' = Accepted /\ AllFlags' = AllFlags /\ Base' = Base
  BY <1>1 DEF Chosen, Accepted, AllFlags, Base
<1>6. Reached'
  BY <1>1, <1>2, <1>4, <1>5 DEF Reached
<1>7. ASSUME NEW rule, NEW i, OfFlag(rule, i)
      PROVE  OfFlag(rule, i)'
  BY <1>1, <1>3, <1>4, <1>7 DEF OfFlag
<1>8. Layout'
  BY <1>1, <1>2, <1>5, <1>7 DEF Layout
<1> QED
  BY <1>6, <1>8 DEF SourceInv

LEMMA ReceiveKeeps == SourceInv /\ Receive => SourceInv'
<1> SUFFICES ASSUME SourceInv, Receive PROVE SourceInv'
  OBVIOUS
<1>1. UNCHANGED <<args, fs, touched, pc, source, rendered, policy, appended, end, handed>>
  BY DEF Receive
<1>2. Reached /\ pc = "stopped"
  BY DEF Receive, SourceInv
<1>3. Chosen' = Chosen /\ Accepted' = Accepted /\ AllFlags' = AllFlags /\ Layout'
  BY <1>1, SameLayout DEF Chosen, Accepted, AllFlags
<1>4. Reached'
  BY <1>1, <1>2, <1>3 DEF Reached
<1> QED
  BY <1>3, <1>4 DEF SourceInv

LEMMA SourceStep == SourceInv /\ [Next]_vars => SourceInv'
<1>1. SourceInv /\ UNCHANGED vars => SourceInv'
  <2> SUFFICES ASSUME SourceInv, UNCHANGED vars PROVE SourceInv'
    OBVIOUS
  <2>1. Chosen' = Chosen /\ Accepted' = Accepted /\ AllFlags' = AllFlags /\ Layout'
    BY SameLayout DEF vars, Chosen, Accepted, AllFlags
  <2> QED
    BY <2>1 DEF vars, SourceInv, Reached
<1> QED
  BY <1>1, ParseArgsKeeps, ResolveSourceKeeps, ParseSourceKeeps, AppendROKeeps, AppendRWKeeps,
     ConcludeKeeps, ChangeKeeps, ReceiveKeeps DEF Next

LEMMA SourceAlways == Spec => []SourceInv
  BY SourceInit, SourceStep, PTL DEF Spec

-----------------------------------------------------------------------------
(* The theorems.                                                            *)

LEMMA OneSource ==
  ASSUME args \in Requests, ~BadSources(args)
  PROVE  Cardinality({ f \in {"file", "env", "stdin"} :
                         \/ f = "file" /\ args.policy # "none"
                         \/ f = "env" /\ args.fromEnv
                         \/ f = "stdin" /\ args.fromStdin })
           = (IF NoPolicy(args) THEN 0 ELSE 1)
<1> DEFINE S == { f \in {"file", "env", "stdin"} :
                    \/ f = "file" /\ args.policy # "none"
                    \/ f = "env" /\ args.fromEnv
                    \/ f = "stdin" /\ args.fromStdin }
<1>1. CASE NoPolicy(args)
  <2>1. S = {}
    BY <1>1 DEF NoPolicy
  <2> QED
    BY <1>1, <2>1, FS_EmptySet
<1>2. CASE ~NoPolicy(args)
  <2>1. ~Ambiguous(args)
    BY DEF BadSources
  <2>2. S = {"file"} \/ S = {"env"} \/ S = {"stdin"}
    <3>1. CASE args.policy # "none"
      BY <2>1, <3>1 DEF Ambiguous
    <3>2. CASE args.policy = "none" /\ args.fromEnv
      BY <2>1, <3>2 DEF Ambiguous
    <3>3. CASE args.policy = "none" /\ ~args.fromEnv
      BY <1>2, <3>3 DEF NoPolicy
    <3> QED
      BY <3>1, <3>2, <3>3
  <2> QED
    BY <1>2, <2>2, FS_Singleton
<1> QED
  BY <1>1, <1>2

(* A sequence put together of three.                                        *)
LEMMA Twofold ==
  ASSUME NEW S, NEW x \in Seq(S), NEW y \in Seq(S)
  PROVE  /\ x \o y \in Seq(S) /\ Len(x \o y) = Len(x) + Len(y) /\ Len(x) \in Nat /\ Len(y) \in Nat
         /\ \A i \in 1 .. Len(x) + Len(y) :
              (x \o y)[i] = IF i <= Len(x) THEN x[i] ELSE y[i - Len(x)]
  OBVIOUS

LEMMA SameSequence ==
  ASSUME NEW S, NEW x \in Seq(S), NEW y \in Seq(S), Len(x) = Len(y),
         \A i \in 1 .. Len(x) : x[i] = y[i]
  PROVE  x = y
  OBVIOUS

LEMMA Threefold ==
  ASSUME NEW T, NEW one \in Seq(T), NEW two \in Seq(T), NEW three \in Seq(T), NEW all \in Seq(T),
         Len(all) = Len(one) + (Len(two) + Len(three)),
         \A i \in 1 .. Len(one) : all[i] = one[i],
         \A k \in 1 .. Len(two) : all[Len(one) + k] = two[k],
         \A k \in 1 .. Len(three) : all[Len(one) + (Len(two) + k)] = three[k]
  PROVE  all = one \o two \o three
<1>1. /\ one \o two \in Seq(T) /\ Len(one \o two) = Len(one) + Len(two)
      /\ \A i \in 1 .. Len(one) + Len(two) :
           (one \o two)[i] = IF i <= Len(one) THEN one[i] ELSE two[i - Len(one)]
  BY Twofold
<1>2. ASSUME NEW i \in 1 .. Len(one \o two)
      PROVE  all[i] = (one \o two)[i]
  <2>1. CASE i <= Len(one)
    BY <1>1, <2>1
  <2>2. CASE ~(i <= Len(one))
    <3>1. i - Len(one) \in 1 .. Len(two) /\ Len(one) + (i - Len(one)) = i
      BY <1>1, <2>2
    <3> QED
      BY <1>1, <2>2, <3>1
  <2> QED
    BY <2>1, <2>2
<1> DEFINE both == one \o two
<1>3. Len(both) = Len(one) + Len(two) /\ \A i \in 1 .. Len(both) : all[i] = both[i]
  BY <1>1, <1>2
<1>8. both \in Seq(T)
  BY <1>1
<1> HIDE DEF both
<1>4. /\ both \o three \in Seq(T) /\ Len(both \o three) = Len(both) + Len(three)
      /\ \A i \in 1 .. Len(both) + Len(three) :
           (both \o three)[i] = IF i <= Len(both) THEN both[i] ELSE three[i - Len(both)]
      /\ Len(both) \in Nat /\ Len(three) \in Nat
  BY <1>8, Twofold, Zenon
<1>5. ASSUME NEW i \in 1 .. Len(all)
      PROVE  all[i] = (both \o three)[i]
  <2>1. CASE i <= Len(both)
    BY <1>3, <1>4, <2>1
  <2>2. CASE ~(i <= Len(both))
    <3>1. i - Len(both) \in 1 .. Len(three) /\ Len(one) + (Len(two) + (i - Len(both))) = i
      BY <1>3, <2>2
    <3>2. all[Len(one) + (Len(two) + (i - Len(both)))] = three[i - Len(both)]
      BY <3>1
    <3>3. i \in 1 .. Len(both) + Len(three)
      BY <1>3, <1>4
    <3> QED
      BY <1>4, <2>2, <3>1, <3>2, <3>3
  <2> QED
    BY <2>1, <2>2
<1>6. Len(all) = Len(both \o three)
  BY <1>3, <1>4
<1>7. all = both \o three
  BY <1>4, <1>5, <1>6, SameSequence, Zenon
<1> QED
  BY <1>7 DEF both

LEMMA PathsOf ==
  ASSUME NEW s \in Seq(Rule)
  PROVE  LET t == [i \in DOMAIN s |-> s[i].path]
         IN  t \in Seq(STRING) /\ Len(t) = Len(s) /\ \A i \in 1 .. Len(s) : t[i] = s[i].path
<1>1. \A i \in 1 .. Len(s) : s[i] \in Rule
  OBVIOUS
<1>3. \A r \in Rule : r.path \in STRING
  BY DEF Rule
<1>2. DOMAIN s = 1 .. Len(s) /\ Len(s) \in Nat
  OBVIOUS
<1> QED
  BY <1>1, <1>2, <1>3

(* The rules' paths, when all flags have been taken.                        *)
LEMMA RulePaths ==
  ASSUME SourceInv, appended = AllFlags, NEW p \in policy
  PROVE  [i \in DOMAIN p.fs |-> p.fs[i].path] =
           [i \in DOMAIN Base |-> Base[i].path] \o args.ro \o args.rw
<1> DEFINE b == [i \in DOMAIN Base |-> Base[i].path]
           t == [i \in DOMAIN p.fs |-> p.fs[i].path]
           nr == Len(args.ro)
           nw == Len(args.rw)
<1>1. /\ Base \in Seq(Rule) /\ Len(Base) \in Nat /\ args.ro \in Seq(Path) /\ args.rw \in Seq(Path)
      /\ nr \in Nat /\ nw \in Nat
  BY BaseType, RequestType DEF SourceInv, Reached
<1>2. appended = nr + nw
  BY DEF AllFlags
<1>16. \A k : k <= nr <=> k <= Len(args.ro)
  OBVIOUS
<1>17. \A k : k - nr = k - Len(args.ro)
  OBVIOUS
<1>3. /\ p.fs \in Seq(Rule) /\ Len(p.fs) = Len(Base) + appended
      /\ \A i \in 1 .. Len(Base) : p.fs[i] = Base[i]
      /\ \A i \in 1 .. appended : OfFlag(p.fs[Len(Base) + i], i)
  BY DEF SourceInv, Layout
<1>4. b \in Seq(STRING) /\ Len(b) = Len(Base) /\ \A i \in 1 .. Len(Base) : b[i] = Base[i].path
  BY <1>1, PathsOf
<1>5. t \in Seq(STRING) /\ Len(t) = Len(p.fs) /\ \A i \in 1 .. Len(p.fs) : t[i] = p.fs[i].path
  BY <1>3, PathsOf
<1>6. args.ro \in Seq(STRING) /\ args.rw \in Seq(STRING)
  <2>1. Path \subseteq STRING
    BY PolicySourceAssumption
  <2> QED
    BY <1>1, <2>1, Wider
<1>7. /\ \A k \in 1 .. nr : args.ro[k] \in Path /\ OfFlag(RORule(args.ro[k]), k)
      /\ \A k \in 1 .. nw : args.rw[k] \in Path
  BY <1>1 DEF OfFlag
<1> HIDE DEF b, t, nr, nw
<1>8. ASSUME NEW k \in 1 .. nr
      PROVE  p.fs[Len(Base) + k] = RORule(args.ro[k])
  <2>1. k <= nr /\ k \in 1 .. nr + nw
    BY <1>1
  <2> QED
    BY <1>2, <1>3, <1>16, <2>1 DEF OfFlag
<1>9. ASSUME NEW k \in 1 .. nw
      PROVE  \E kind \in Kind : p.fs[Len(Base) + (nr + k)] = RWRule(args.rw[k], kind)
  <2>1. nr + k \in 1 .. nr + nw /\ ~(nr + k <= nr) /\ (nr + k) - nr = k
    BY <1>1
  <2>2. OfFlag(p.fs[Len(Base) + (nr + k)], nr + k)
    BY <1>2, <1>3, <2>1
  <2> QED
    BY <1>16, <1>17, <2>1, <2>2 DEF OfFlag
<1>10. \A i \in 1 .. Len(Base) : i \in 1 .. Len(p.fs)
  BY <1>1, <1>2, <1>3
<1>11. \A i \in 1 .. Len(b) : t[i] = b[i]
  BY <1>3, <1>4, <1>5, <1>10
<1>12. ASSUME NEW k \in 1 .. nr
       PROVE  t[Len(b) + k] = args.ro[k]
  <2>1. Len(Base) + k \in 1 .. Len(p.fs)
    BY <1>1, <1>2, <1>3
  <2> QED
    BY <1>4, <1>5, <1>7, <1>8, <2>1, FlagRules
<1>13. ASSUME NEW k \in 1 .. nw
       PROVE  t[Len(b) + (nr + k)] = args.rw[k]
  <2>1. Len(Base) + (nr + k) \in 1 .. Len(p.fs)
    BY <1>1, <1>2, <1>3
  <2>2. PICK kind \in Kind : p.fs[Len(Base) + (nr + k)] = RWRule(args.rw[k], kind)
    BY <1>9
  <2> QED
    BY <1>4, <1>5, <1>7, <2>1, <2>2, FlagRules
<1>14. Len(t) = Len(b) + (nr + nw)
  BY <1>2, <1>3, <1>4, <1>5
<1>15. t = b \o args.ro \o args.rw
  <2>1. b \in Seq(STRING) /\ t \in Seq(STRING)
    BY <1>4, <1>5
  <2>2. /\ Len(t) = Len(b) + (Len(args.ro) + Len(args.rw))
        /\ \A k \in 1 .. Len(args.ro) : t[Len(b) + k] = args.ro[k]
        /\ \A k \in 1 .. Len(args.rw) : t[Len(b) + (Len(args.ro) + k)] = args.rw[k]
    BY <1>12, <1>13, <1>14 DEF nr, nw
  <2> QED
    BY <1>6, <1>11, <2>1, <2>2, Threefold, Zenon
<1> QED
  BY <1>15 DEF b, t

LEMMA Honours == SourceInv => HonoursRequest
<1> SUFFICES ASSUME SourceInv, Accepted PROVE HonoursRequest
  BY DEF HonoursRequest
<1>1. /\ args \in Requests /\ ~BadCommandLine(args) /\ Chosen /\ appended = AllFlags
      /\ end = "launched" <=> ~args.dryRun /\ ~args.expand
  BY DEF SourceInv, Reached
<1>2. HasVars(args) => rendered
  BY <1>1 DEF Chosen, BadSources, MisplacedVars
<1>3. rendered <=> args.policy = "template"
  BY <1>1 DEF Chosen
<1>4. (source = {}) <=> NoPolicy(args)
  BY <1>1 DEF Chosen
<1>5. end = "launched" => args.cmd
  BY <1>1 DEF BadCommandLine
<1>6. ASSUME NEW p \in policy
      PROVE  [i \in DOMAIN p.fs |-> p.fs[i].path] =
               (IF source = {} THEN <<>>
                ELSE [i \in DOMAIN The(source).fs |-> The(source).fs[i].path])
               \o args.ro \o args.rw
  <2>1. [i \in DOMAIN p.fs |-> p.fs[i].path] =
          [i \in DOMAIN Base |-> Base[i].path] \o args.ro \o args.rw
    BY <1>1, RulePaths
  <2>2. CASE source = {}
    <3>1. Base = <<>>
      BY <2>2 DEF Base
    <3>2. [i \in DOMAIN Base |-> Base[i].path] = <<>>
      BY <3>1
    <3> QED
      BY <2>1, <2>2, <3>2
  <2>3. CASE source # {}
    BY <2>1, <2>3 DEF Base
  <2> QED
    BY <2>2, <2>3
<1>7. Cardinality({ f \in {"file", "env", "stdin"} :
                      \/ f = "file" /\ args.policy # "none"
                      \/ f = "env" /\ args.fromEnv
                      \/ f = "stdin" /\ args.fromStdin })
        = (IF NoPolicy(args) THEN 0 ELSE 1)
  BY <1>1, OneSource DEF Chosen
<1> QED
  BY <1>1, <1>2, <1>3, <1>4, <1>5, <1>6, <1>7 DEF HonoursRequest

(* main, buildPolicy: nothing that an accepted invocation asks for was      *)
(* passed over, for every command line and every document.                  *)
THEOREM NothingPassedOver == Spec => []HonoursRequest
  BY SourceAlways, Honours, PTL

LEMMA Fits == SourceInv => FlagsFit
<1> SUFFICES ASSUME SourceInv, NEW p \in policy, NEW i \in 1 .. appended
             PROVE  LET rule  == p.fs[Len(p.fs) - appended + i]
                        isDir == fs[rule.path] = "dir"
                    IN  rule.path \notin touched /\ fs[rule.path] \in {"dir", "file"} =>
                          ~fsRuleError(rule, isDir) /\ (rule.refer => isDir)
  BY DEF FlagsFit
<1> DEFINE rule == p.fs[Len(Base) + i]
<1>1. /\ Len(p.fs) = Len(Base) + appended /\ OfFlag(rule, i)
      /\ Len(Base) \in Nat /\ appended \in Nat
  BY BaseType, AppendedType DEF SourceInv, Layout
<1>2. Len(p.fs) - appended + i = Len(Base) + i
  BY <1>1
<1>3. args \in Requests /\ i \in 1 .. Len(args.ro) + Len(args.rw)
  <2>1. args \in Requests /\ appended \in 0 .. AllFlags /\ AllFlags \in Nat
    BY RequestType DEF SourceInv, Reached
  <2>2. i \in 1 .. AllFlags
    BY <2>1
  <2> QED
    BY <2>1, <2>2 DEF AllFlags
<1> HIDE DEF rule
<1>4. CASE i <= Len(args.ro)
  <2>1. rule = RORule(args.ro[i])
    BY <1>1, <1>4 DEF OfFlag
  <2>2. rule.access = {"r", "x"} /\ rule.refer = FALSE
    BY <2>1 DEF RORule
  <2>3. ASSUME NEW isDir PROVE ~fsRuleError(rule, isDir) /\ ~rule.refer
    BY <2>2 DEF fsRuleError
  <2> QED
    BY <1>2, <2>3 DEF rule
<1>5. CASE ~(i <= Len(args.ro))
  <2>1. PICK kind \in Kind : /\ rule = RWRule(args.rw[i - Len(args.ro)], kind)
                             /\ \/ args.rw[i - Len(args.ro)] \in touched
                                \/ kind = fs[args.rw[i - Len(args.ro)]]
    BY <1>1, <1>5 DEF OfFlag
  <2>2. /\ rule.path = args.rw[i - Len(args.ro)]
        /\ rule.access = {"r", "w", "x", "u"} \cup (IF kind = "file" THEN {} ELSE {"c", "d"})
        /\ rule.refer = (kind # "file")
    BY <2>1 DEF RWRule
  <2>3. rule.path \notin touched => kind = fs[rule.path]
    BY <2>1, <2>2
  <2>4. rule.path \notin touched /\ fs[rule.path] \in {"dir", "file"} =>
          ~fsRuleError(rule, fs[rule.path] = "dir") /\ (rule.refer => fs[rule.path] = "dir")
    BY <2>2, <2>3 DEF fsRuleError
  <2> QED
    BY <1>2, <2>4 DEF rule
<1> QED
  BY <1>4, <1>5

(* buildPolicy: the rule of a path flag is one that enforcement accepts for *)
(* what is at the path, unless another process has changed it since.        *)
THEOREM FlagsAccepted == Spec => []FlagsFit
  BY SourceAlways, Fits, PTL

-----------------------------------------------------------------------------
(* What the child receives.  The hypothesis is about the paths of the flags *)
(* and of the command, which nobody has decoded: JSON makes U+FFFD of what  *)
(* is not UTF-8, and the second validation refuses an empty one.            *)

Sendable == Path \subseteq Utf8 /\ "" \notin Path /\ Bin \in Utf8

Sent ==
  /\ policy = {} \/ \E p : policy = {p}
  /\ \A p \in policy : Portable(p) /\ Validate(p)
  /\ handed # {} => pc = "stopped" /\ policy # {} /\ handed = { Marshal(p) : p \in policy }
  /\ pc = "flags" => policy # {}

TransferInv == SourceInv /\ Sent /\ SamePolicyReceived

LEMMA TransferInit == Init => TransferInv
<1> SUFFICES ASSUME Init PROVE TransferInv
  OBVIOUS
<1>1. Sent /\ SamePolicyReceived
  BY DEF Init, Sent, SamePolicyReceived
<1> QED
  BY <1>1, SourceInit DEF TransferInv

LEMMA CLIPortable == Portable(CLIPolicy) /\ Validate(CLIPolicy)
<1>1. ReadableNet([allow |-> FALSE, rules |-> {}])
  BY DEF ReadableNet, MarshalNet, UnmarshalNet, JNull, JString
<1>2. <<>> \in Seq(Rule) /\ DOMAIN <<>> = {} /\ <<>> = [v \in {} |-> <<>>[v]]
  OBVIOUS
<1>3. Portable(CLIPolicy)
  BY <1>1, <1>2 DEF CLIPolicy, Portable, Record
<1>4. Validate(CLIPolicy)
  BY <1>2 DEF CLIPolicy, Validate
<1> QED
  BY <1>3, <1>4

LEMMA AtMostOne ==
  ASSUME NEW d
  PROVE  Parse(d) = {} \/ \E p : Parse(d) = {p}
<1>1. ASSUME NEW m \in UnmarshalNet(d.net), NEW n \in UnmarshalNet(d.net)
      PROVE  m = n
  <2>1. CASE d.net = JString("allow")
    <3>1. UnmarshalNet(d.net) = {[allow |-> TRUE, rules |-> {}]}
      BY <2>1 DEF UnmarshalNet, JString, JNull
    <3> QED
      BY <3>1
  <2>2. CASE d.net \in {JString("deny"), JNull}
    <3>1. UnmarshalNet(d.net) = {[allow |-> FALSE, rules |-> {}]}
      BY <2>2 DEF UnmarshalNet, JString, JNull
    <3> QED
      BY <3>1
  <2>3. CASE d.net \notin {JString("allow"), JString("deny"), JNull}
    BY <2>3 DEF UnmarshalNet
  <2> QED
    BY <2>1, <2>2, <2>3
<1>2. ASSUME NEW p \in Unmarshal(d), NEW q \in Unmarshal(d)
      PROVE  p = q
  <2> DEFINE env == [v \in DOMAIN d.env |-> The(UnmarshalEntry(d.env[v]))]
  <2>1. ASSUME NEW r \in Unmarshal(d)
        PROVE  \E n \in UnmarshalNet(d.net) :
                 r = [name |-> d.name, unshare |-> d.unshare, fs |-> d.fs, ipc |-> d.ipc,
                      net |-> n, env |-> env]
    BY <2>1 DEF Unmarshal
  <2> QED
    BY <1>1, <2>1
<1> QED
  BY <1>2 DEF Parse

(* The rule of a flag.                                                      *)
LEMMA FlagValid ==
  ASSUME Sendable, NEW path \in Path, NEW kind
  PROVE  /\ ValidFS(RORule(path)) /\ ValidFS(RWRule(path, kind)) /\ path \in Utf8
<1>1. path # "" /\ path \in Utf8
  BY DEF Sendable
<1>2. ValidFS(RORule(path))
  BY <1>1 DEF ValidFS, RORule
<1>3. ValidFS(RWRule(path, kind))
  BY <1>1 DEF ValidFS, RWRule
<1> QED
  BY <1>1, <1>2, <1>3

LEMMA AppendSent ==
  ASSUME SourceInv, Sent, pc = "flags", NEW rule \in Rule, Append_(rule), rule.path \in Utf8,
         ValidFS(rule), UNCHANGED <<pc, handed>>
  PROVE  Sent'
<1>1. PICK p : policy = {p}
  BY DEF Sent
<1>2. Portable(p) /\ Validate(p) /\ Record(p) /\ p.fs \in Seq(Rule)
  BY <1>1 DEF Sent, Portable
<1> DEFINE q == [p EXCEPT !.fs = Append(@, rule)]
<1>3. /\ Record(q) /\ q.fs = Append(p.fs, rule)
      /\ q.name = p.name /\ q.unshare = p.unshare /\ q.ipc = p.ipc
      /\ q.net = p.net /\ q.env = p.env
  BY <1>2, WithRule
<1>4. policy' = {q}
  BY <1>1 DEF Append_
<1> HIDE DEF q
<1>5. /\ q.fs \in Seq(Rule)
      /\ \A i \in DOMAIN q.fs : q.fs[i] = rule \/ \E k \in DOMAIN p.fs : q.fs[i] = p.fs[k]
  BY <1>2, <1>3
<1>6. Portable(q)
  BY <1>2, <1>3, <1>5 DEF Portable
<1>7. Validate(q)
  BY <1>2, <1>3, <1>5 DEF Validate
<1>8. handed = {}
  BY DEF SourceInv, Reached
<1> QED
  BY <1>4, <1>6, <1>7, <1>8 DEF Sent

(* What is sent is what is received.                                        *)
LEMMA ReceivedSame ==
  ASSUME Sendable, Sent, SamePolicyReceived, Receive
  PROVE  SamePolicyReceived'
<1>1. PICK p : policy = {p} /\ Portable(p) /\ Validate(p) /\ handed = {Marshal(p)}
  <2>1. policy # {} /\ handed = { Marshal(p) : p \in policy }
    BY DEF Receive, Sent
  <2>2. PICK p : policy = {p}
    BY <2>1 DEF Sent
  <2> QED
    BY <2>1, <2>2 DEF Sent
<1>2. The(handed) = Marshal(p)
  BY <1>1, TheOnly
<1>3. Parse(Marshal(p)) = {p}
  BY <1>1, RoundTrip DEF Parse
<1>4. Encode(Bin) = Bin
  BY DEF Sendable, Encode
<1>5. received' = {[policy |-> policy, bin |-> Bin]} /\ policy' = policy
  BY <1>1, <1>2, <1>3, <1>4 DEF Receive
<1> QED
  BY <1>5 DEF SamePolicyReceived

LEMMA TransferStep ==
  ASSUME Sendable
  PROVE  TransferInv /\ [Next]_vars => TransferInv'
<1> SUFFICES ASSUME TransferInv, [Next]_vars PROVE TransferInv'
  OBVIOUS
<1>1. SourceInv'
  BY SourceStep DEF TransferInv
<1>2. SourceInv /\ Sent /\ SamePolicyReceived /\ Reached /\ args \in Requests
  BY DEF TransferInv, SourceInv, Reached
<1>3. ASSUME UNCHANGED <<policy, handed, received>>, pc' # "flags" \/ (pc = "flags" /\ pc' = pc),
             pc = "stopped" => pc' = pc
      PROVE  Sent' /\ SamePolicyReceived'
  BY <1>2, <1>3 DEF Sent, SamePolicyReceived
<1>4. CASE ParseArgs
  <2>1. UNCHANGED <<policy, handed, received>> /\ pc = "args" /\ pc' \in {"stopped", "source"}
    BY <1>4 DEF ParseArgs, Stop, Goto
  <2>2. pc # "stopped" /\ pc' # "flags"
    BY <2>1
  <2> QED
    BY <1>1, <1>3, <2>1, <2>2 DEF TransferInv
<1>5. CASE ResolveSource
  <2>1. UNCHANGED <<handed, received>> /\ handed = {} /\ received = {} /\ pc = "source"
    BY <1>2, <1>5 DEF ResolveSource, Reached
  <2>2. CASE policy' = policy /\ pc' \in {"stopped", "parse"}
    <3>1. pc # "stopped" /\ pc' # "flags" /\ UNCHANGED <<policy, handed, received>>
      BY <2>1, <2>2
    <3> QED
      BY <1>1, <1>3, <3>1 DEF TransferInv
  <2>3. CASE policy' = {CLIPolicy}
    BY <1>1, <2>1, <2>3, CLIPortable DEF TransferInv, Sent, SamePolicyReceived
  <2> QED
    BY <1>5, <2>2, <2>3 DEF ResolveSource, Stop, Goto
<1>6. CASE ParseSource
  <2>1. /\ UNCHANGED <<handed, received>> /\ handed = {} /\ received = {}
        /\ source # {} /\ policy' = Parse(The(source))
        /\ policy' = {} => pc' = "stopped"
    BY <1>2, <1>6 DEF ParseSource, Reached, Stop
  <2>2. PICK d \in Documents : source = {d}
    BY <1>2, <2>1 DEF Reached
  <2>3. policy' = Parse(d)
    BY <2>1, <2>2, TheOnly
  <2>4. \A p \in policy' : Portable(p) /\ Validate(p)
    BY <2>3, ParsedPortable DEF Parse
  <2>5. policy' = {} \/ \E p : policy' = {p}
    BY <2>3, AtMostOne
  <2> QED
    BY <1>1, <2>1, <2>4, <2>5 DEF TransferInv, Sent, SamePolicyReceived
<1>7. CASE AppendRO
  <2>1. appended \in Nat /\ appended < Len(args.ro) /\ pc = "flags" /\ received = {}
    BY <1>2, <1>7, AppendedType DEF AppendRO, Reached
  <2>2. args.ro[appended + 1] \in Path
    BY <1>2, <2>1, RequestType, TurnRO
  <2>3. RORule(args.ro[appended + 1]) \in Rule /\ ValidFS(RORule(args.ro[appended + 1]))
        /\ RORule(args.ro[appended + 1]).path \in Utf8
    BY <2>2, FlagRules, FlagValid
  <2>4. Sent'
    BY <1>2, <1>7, <2>1, <2>3, AppendSent DEF AppendRO
  <2> QED
    BY <1>1, <1>7, <2>1, <2>4 DEF TransferInv, SamePolicyReceived, AppendRO
<1>8. CASE AppendRW
  <2> DEFINE path == args.rw[appended - Len(args.ro) + 1]
  <2>1. /\ appended \in Nat /\ appended \in Len(args.ro) .. Len(args.ro) + Len(args.rw) - 1
        /\ pc = "flags" /\ received = {}
    BY <1>2, <1>8, AppendedType DEF AppendRW, Reached
  <2>2. path \in Path
    BY <1>2, <2>1, RequestType, TurnRW
  <2>3. RWRule(path, fs[path]) \in Rule /\ ValidFS(RWRule(path, fs[path]))
        /\ RWRule(path, fs[path]).path \in Utf8
    BY <2>2, FlagRules, FlagValid
  <2>4. CASE fs[path] = "denied"
    <3>1. UNCHANGED <<policy, handed, received>> /\ pc' = "stopped"
      BY <1>8, <2>4 DEF AppendRW, Stop
    <3>2. pc # "stopped" /\ pc' # "flags"
      BY <2>1, <3>1
    <3> QED
      BY <1>1, <1>3, <3>1, <3>2 DEF TransferInv
  <2>5. CASE fs[path] # "denied"
    <3>1. Append_(RWRule(path, fs[path])) /\ UNCHANGED <<pc, handed, received>>
      BY <1>8, <2>5 DEF AppendRW
    <3>2. Sent'
      BY <1>2, <2>1, <2>3, <3>1, AppendSent
    <3> QED
      BY <1>1, <2>1, <3>1, <3>2 DEF TransferInv, SamePolicyReceived
  <2> QED
    BY <2>4, <2>5
<1>9. CASE Conclude
  <2>1. /\ UNCHANGED <<policy, received>> /\ received = {} /\ policy # {} /\ handed = {}
        /\ pc' = "stopped"
        /\ handed' = handed \/ handed' = { Marshal(p) : p \in policy }
    BY <1>2, <1>9 DEF Conclude, Stop, Sent, Reached
  <2> QED
    BY <1>1, <1>2, <2>1 DEF TransferInv, Sent, SamePolicyReceived
<1>10. CASE Receive
  <2>1. SamePolicyReceived'
    BY <1>2, <1>10, ReceivedSame
  <2>2. Sent'
    BY <1>2, <1>10 DEF Sent, Receive
  <2> QED
    BY <1>1, <2>1, <2>2 DEF TransferInv
<1>11. CASE Change
  <2>1. UNCHANGED <<policy, handed, received, pc>> /\ pc = "flags"
    BY <1>11 DEF Change
  <2> QED
    BY <1>1, <1>3, <2>1 DEF TransferInv
<1>12. CASE UNCHANGED vars
  BY <1>1, <1>2, <1>12 DEF TransferInv, Sent, SamePolicyReceived, vars
<1> QED
  BY <1>4, <1>5, <1>6, <1>7, <1>8, <1>9, <1>10, <1>11, <1>12 DEF Next

(* The marshallers, Parse and Validate: whatever document the policy is     *)
(* from and whatever flags were added to it, the child, and a landcage that *)
(* reads what --expand printed, parses and accepts exactly the policy that  *)
(* was resolved.                                                            *)
THEOREM PolicySurvives ==
  ASSUME Sendable
  PROVE  Spec => []SamePolicyReceived
<1>1. TransferInv => SamePolicyReceived
  BY DEF TransferInv
<1> QED
  BY <1>1, TransferInit, TransferStep, PTL DEF Spec

-----------------------------------------------------------------------------
(* What the loop of parseOctalMode computes, after each digit: the number   *)
(* written so far, as far as the integer holds it.                          *)

LEMMA ModeLoop ==
  ASSUME NEW s \in Seq(Nat)
  PROVE  \E mode \in [0 .. Len(s) -> Nat] :
           /\ ModeOf(s) = mode[Len(s)] /\ mode[0] = 0
           /\ \A k \in 1 .. Len(s) : mode[k] = (mode[k - 1] * 8 + s[k]) % IntSize
<1>0. PICK n \in Nat : n = Len(s)
  OBVIOUS
<1> DEFINE turn == [p \in Nat \X (1 .. n) |-> (p[1] * 8 + s[p[2]]) % IntSize]
           Is(mode) == mode = [k \in 0 .. n |-> IF k = 0 THEN 0
                                                ELSE (mode[k - 1] * 8 + s[k]) % IntSize]
<1>1. IntSize \in Nat \ {0} /\ \A k \in 1 .. n : s[k] \in Nat
  BY <1>0, PolicySourceAssumption
<1>2. \A x \in Nat, k \in 1 .. n : (x * 8 + s[k]) % IntSize \in Nat
  <2> TAKE x \in Nat, k \in 1 .. n
  <2>1. s[k] \in Nat
    BY <1>1
  <2>2. x * 8 + s[k] \in Nat
    BY <2>1
  <2> QED BY <1>1, <2>2
<1>3. turn \in [Nat \X (1 .. n) -> Nat]
  BY <1>2
<1>4. \A x \in Nat, k \in 1 .. n : turn[<<x, k>>] = (x * 8 + s[k]) % IntSize
  OBVIOUS
<1> HIDE DEF turn
<1>5. PICK f : IsLoop(f, n, Nat, 0, turn)
  BY <1>3, LoopExists DEF IsTurn
<1>6. ASSUME NEW k \in 1 .. n
      PROVE  f[k - 1] \in Nat /\ f[k] = (f[k - 1] * 8 + s[k]) % IntSize
  <2>1. k - 1 \in 0 .. n
    BY <1>1
  <2> QED BY <1>4, <1>5, <2>1 DEF IsLoop
<1>7. f[0] = 0 /\ f \in [0 .. n -> Nat]
  BY <1>5 DEF IsLoop
<1>8. Is(f)
  <2>1. ASSUME NEW k \in 0 .. n
        PROVE  f[k] = IF k = 0 THEN 0 ELSE (f[k - 1] * 8 + s[k]) % IntSize
    BY <1>6, <1>7
  <2>2. f = [k \in 0 .. n |-> f[k]]
    BY <1>7
  <2> QED BY <2>1, <2>2
<1> DEFINE mode == CHOOSE m : Is(m)
<1>9. Is(mode) /\ ModeOf(s) = mode[n]
  BY <1>0, <1>8 DEF ModeOf
<1> HIDE DEF mode
<1>10. \A k \in 0 .. n : mode[k] = IF k = 0 THEN 0 ELSE (mode[k - 1] * 8 + s[k]) % IntSize
  BY <1>9
<1>11. mode[0] = 0 /\ \A k \in 1 .. n : mode[k] = (mode[k - 1] * 8 + s[k]) % IntSize
  BY <1>1, <1>10
<1>12. mode = [k \in 0 .. n |-> mode[k]]
  BY <1>9
<1>13. mode \in [0 .. n -> Nat]
  <2>1. ASSUME NEW k \in 1 .. n, mode[k - 1] \in Nat PROVE mode[k] \in Nat
    BY <1>2, <1>11, <2>1
  <2>2. Keeps(mode, n, Nat)
    <3>1. mode[0] \in Nat
      BY <1>11
    <3> QED BY <1>12, <2>1, <3>1, Zenon DEF Keeps
  <2> QED BY <2>2, LoopTyped
<1> QED BY <1>0, <1>9, <1>11, <1>13

LEMMA WrittenLoop ==
  ASSUME NEW s \in Seq(Nat)
  PROVE  \E value \in [0 .. Len(s) -> Nat] :
           /\ Written(s) = value[Len(s)] /\ value[0] = 0
           /\ \A k \in 1 .. Len(s) : value[k] = value[k - 1] * 8 + s[k]
<1>0. PICK n \in Nat : n = Len(s)
  OBVIOUS
<1> DEFINE turn == [p \in Nat \X (1 .. n) |-> p[1] * 8 + s[p[2]]]
           Is(value) == value = [k \in 0 .. n |-> IF k = 0 THEN 0
                                                ELSE value[k - 1] * 8 + s[k]]
<1>1. \A k \in 1 .. n : s[k] \in Nat
  BY <1>0
<1>2. \A x \in Nat, k \in 1 .. n : x * 8 + s[k] \in Nat
  <2> TAKE x \in Nat, k \in 1 .. n
  <2>1. s[k] \in Nat
    BY <1>1
  <2> QED BY <2>1
<1>3. turn \in [Nat \X (1 .. n) -> Nat]
  BY <1>2
<1>4. \A x \in Nat, k \in 1 .. n : turn[<<x, k>>] = x * 8 + s[k]
  OBVIOUS
<1> HIDE DEF turn
<1>5. PICK f : IsLoop(f, n, Nat, 0, turn)
  BY <1>3, LoopExists DEF IsTurn
<1>6. ASSUME NEW k \in 1 .. n
      PROVE  f[k - 1] \in Nat /\ f[k] = f[k - 1] * 8 + s[k]
  <2>1. k - 1 \in 0 .. n
    BY <1>1
  <2> QED BY <1>4, <1>5, <2>1 DEF IsLoop
<1>7. f[0] = 0 /\ f \in [0 .. n -> Nat]
  BY <1>5 DEF IsLoop
<1>8. Is(f)
  <2>1. ASSUME NEW k \in 0 .. n
        PROVE  f[k] = IF k = 0 THEN 0 ELSE f[k - 1] * 8 + s[k]
    BY <1>6, <1>7
  <2>2. f = [k \in 0 .. n |-> f[k]]
    BY <1>7
  <2> QED BY <2>1, <2>2
<1> DEFINE value == CHOOSE m : Is(m)
<1>9. Is(value) /\ Written(s) = value[n]
  BY <1>0, <1>8 DEF Written
<1> HIDE DEF value
<1>10. \A k \in 0 .. n : value[k] = IF k = 0 THEN 0 ELSE value[k - 1] * 8 + s[k]
  BY <1>9
<1>11. value[0] = 0 /\ \A k \in 1 .. n : value[k] = value[k - 1] * 8 + s[k]
  BY <1>1, <1>10
<1>12. value = [k \in 0 .. n |-> value[k]]
  BY <1>9
<1>13. value \in [0 .. n -> Nat]
  <2>1. ASSUME NEW k \in 1 .. n, value[k - 1] \in Nat PROVE value[k] \in Nat
    BY <1>2, <1>11, <2>1
  <2>2. Keeps(value, n, Nat)
    <3>1. value[0] \in Nat
      BY <1>11
    <3> QED BY <1>12, <2>1, <3>1, Zenon DEF Keeps
  <2> QED BY <2>2, LoopTyped
<1> QED BY <1>0, <1>9, <1>11, <1>13

(* Arithmetic that wraps around, and the same done once in the end.         *)
LEMMA Remainder ==
  ASSUME NEW m \in Nat \ {0}, NEW a \in Nat, NEW q \in Nat, NEW r \in 0 .. m - 1, a = q * m + r
  PROVE  a % m = r
OBVIOUS

LEMMA WrapTwice ==
  ASSUME NEW m \in Nat \ {0}, NEW v \in Nat, NEW d \in Nat
  PROVE  ((v % m) * 8 + d) % m = (v * 8 + d) % m
<1>1. PICK q, r : q = v \div m /\ r = v % m
  OBVIOUS
<1>2. q \in Nat /\ r \in 0 .. m - 1 /\ v = q * m + r
  BY <1>1
<1>3. PICK w \in Nat : w = r * 8 + d
  BY <1>2
<1>4. PICK q2, r2 : q2 = w \div m /\ r2 = w % m
  OBVIOUS
<1>5. q2 \in Nat /\ r2 \in 0 .. m - 1 /\ w = q2 * m + r2
  BY <1>4
<1>6. PICK p \in Nat : p = q * 8 + q2
  BY <1>2, <1>5
<1>7. p * m = q * m * 8 + q2 * m
  BY <1>2, <1>5, <1>6
<1>8. v * 8 + d \in Nat /\ v * 8 + d = p * m + r2
  BY <1>2, <1>3, <1>5, <1>7
<1>9. (v * 8 + d) % m = r2
  BY <1>5, <1>8, Remainder
<1> QED BY <1>1, <1>3, <1>4, <1>9

LEMMA ModeIsWritten ==
  ASSUME NEW s \in Seq(Nat)
  PROVE  ModeOf(s) = Written(s) % IntSize
<1>0. PICK n \in Nat : n = Len(s)
  OBVIOUS
<1>1. IntSize \in Nat \ {0} /\ \A k \in 1 .. n : s[k] \in Nat
  BY <1>0, PolicySourceAssumption
<1>2. PICK mode \in [0 .. n -> Nat] :
        /\ ModeOf(s) = mode[n] /\ mode[0] = 0
        /\ \A k \in 1 .. n : mode[k] = (mode[k - 1] * 8 + s[k]) % IntSize
  BY <1>0, ModeLoop
<1>3. PICK value \in [0 .. n -> Nat] :
        /\ Written(s) = value[n] /\ value[0] = 0
        /\ \A k \in 1 .. n : value[k] = value[k - 1] * 8 + s[k]
  BY <1>0, WrittenLoop
<1> DEFINE S == { k \in 0 .. n : mode[k] = value[k] % IntSize }
<1>4. 0 \in S
  <2>1. 0 % IntSize = 0
    BY <1>1
  <2> QED BY <1>2, <1>3, <2>1
<1>5. ASSUME NEW k \in 1 .. n, k - 1 \in S PROVE k \in S
  <2>1. PICK v \in Nat : v = value[k - 1]
    <3>1. k - 1 \in 0 .. n
      OBVIOUS
    <3> QED BY <1>3, <3>1
  <2>2. PICK d \in Nat : d = s[k]
    BY <1>1
  <2>3. value[k] = v * 8 + d /\ mode[k] = ((v % IntSize) * 8 + d) % IntSize
    BY <1>2, <1>3, <1>5, <2>1, <2>2
  <2>4. ((v % IntSize) * 8 + d) % IntSize = (v * 8 + d) % IntSize
    BY <1>1, WrapTwice, Zenon
  <2> QED BY <2>3, <2>4
<1> HIDE DEF S
<1>6. \A k \in 0 .. n : k \in S
  BY <1>4, <1>5, EveryStep
<1>7. n \in S
  BY <1>6
<1> QED BY <1>2, <1>3, <1>7 DEF S

(* The rules that get as far as the policy have a mode, if they say so.     *)
ModesRead ==
  \A p \in policy : \A i \in DOMAIN p.fs :
    p.fs[i].createDir # <<>> => parseOctalMode(p.fs[i].createDir) # {}

ModeInv == SourceInv /\ ModesRead

LEMMA AppendModes ==
  ASSUME SourceInv, ModesRead, NEW rule, rule \in Rule, rule.createDir = <<>>, Append_(rule)
  PROVE  ModesRead'
<1> SUFFICES ASSUME NEW q \in policy', NEW i \in DOMAIN q.fs, q.fs[i].createDir # <<>>
             PROVE  parseOctalMode(q.fs[i].createDir) # {}
  BY DEF ModesRead
<1>1. PICK p \in policy : q = [p EXCEPT !.fs = Append(@, rule)]
  BY DEF Append_
<1>2. Record(p) /\ p.fs \in Seq(Rule)
  BY DEF SourceInv, Layout
<1>3. q.fs = Append(p.fs, rule)
  BY <1>1, <1>2, WithRule
<1>4. i \in DOMAIN p.fs /\ q.fs[i] = p.fs[i]
  BY <1>2, <1>3
<1> QED BY <1>4 DEF ModesRead

LEMMA ModesStep == ModeInv /\ [Next]_vars => ModeInv'
<1> SUFFICES ASSUME ModeInv, [Next]_vars PROVE ModesRead'
  BY SourceStep DEF ModeInv
<1>1. SourceInv /\ ModesRead /\ Reached
  BY DEF ModeInv, SourceInv
<1>2. CASE UNCHANGED policy
  BY <1>1, <1>2 DEF ModesRead
<1>3. CASE ResolveSource
  <2>1. UNCHANGED policy \/ policy' = {CLIPolicy}
    BY <1>3 DEF ResolveSource
  <2>2. CASE policy' = {CLIPolicy}
    BY <2>2 DEF ModesRead, CLIPolicy
  <2> QED BY <1>2, <2>1, <2>2
<1>4. CASE ParseSource
  <2>1. \A p \in policy' : Validate(p)
    BY <1>4 DEF ParseSource, Parse
  <2> QED BY <2>1 DEF ModesRead, Validate, ValidFS
<1>5. CASE AppendRO
  <2>1. appended \in Nat /\ appended < Len(args.ro) /\ args \in Requests
    BY <1>1, <1>5, AppendedType DEF AppendRO, Reached
  <2>2. args.ro[appended + 1] \in Path
    BY <2>1, RequestType, TurnRO
  <2>3. RORule(args.ro[appended + 1]) \in Rule /\ RORule(args.ro[appended + 1]).createDir = <<>>
    BY <2>2, FlagRules DEF RORule
  <2> QED BY <1>1, <1>5, <2>3, AppendModes DEF AppendRO
<1>6. CASE AppendRW
  <2> DEFINE path == args.rw[appended - Len(args.ro) + 1]
  <2>1. /\ appended \in Nat /\ args \in Requests
        /\ appended \in Len(args.ro) .. Len(args.ro) + Len(args.rw) - 1
    BY <1>1, <1>6, AppendedType DEF AppendRW, Reached
  <2>2. path \in Path
    BY <2>1, RequestType, TurnRW
  <2>3. RWRule(path, fs[path]) \in Rule /\ RWRule(path, fs[path]).createDir = <<>>
    BY <2>2, FlagRules DEF RWRule
  <2>4. UNCHANGED policy \/ Append_(RWRule(path, fs[path]))
    BY <1>6 DEF AppendRW
  <2> QED BY <1>1, <1>2, <2>3, <2>4, AppendModes
<1> QED BY <1>2, <1>3, <1>4, <1>5, <1>6
        DEF Next, ParseArgs, Conclude, Receive, Change, vars

(* parseOctalMode: however many digits a policy writes, all are octal, and  *)
(* the mode in use is the number they write if that fits into the integer.  *)
THEOREM ModesAsWritten == Spec => []FittingModes
<1>1. Init => ModeInv
  BY SourceInit DEF ModeInv, ModesRead, Init
<1>2. ModeInv => FittingModes
  <2> SUFFICES ASSUME ModeInv, NEW p \in policy, NEW i \in DOMAIN p.fs,
                      NEW s, s = p.fs[i].createDir, s # <<>>
               PROVE  /\ \A k \in DOMAIN s : s[k] < 8
                      /\ Written(s) < IntSize => parseOctalMode(s) = {Written(s)}
    BY DEF FittingModes, ModesOf, Range
  <2>1. s \in Seq(Nat)
    <3>1. p.fs[i] \in Rule
      BY DEF ModeInv, SourceInv, Layout
    <3> QED BY <3>1 DEF Rule
  <2>2. parseOctalMode(s) # {}
    BY DEF ModeInv, ModesRead
  <2>3. /\ ~ \E k \in DOMAIN s : s[k] > 7
        /\ parseOctalMode(s) = {ModeOf(s)}
    BY <2>2 DEF parseOctalMode
  <2>4. \A k \in DOMAIN s : s[k] < 8
    BY <2>1, <2>3
  <2>5. Written(s) < IntSize => Written(s) % IntSize = Written(s)
    <3>1. PICK n \in Nat : n = Len(s)
      BY <2>1
    <3>2. PICK value \in [0 .. n -> Nat] : Written(s) = value[n]
      BY <2>1, <3>1, WrittenLoop
    <3>3. PICK w \in Nat, m \in Nat \ {0} : w = Written(s) /\ m = IntSize
      BY <3>1, <3>2, PolicySourceAssumption
    <3>4. ASSUME w < m PROVE w % m = w
      <4>1. w = 0 * m + w /\ w \in 0 .. m - 1
        BY <3>4
      <4> QED BY <4>1, Remainder
    <3> QED BY <3>3, <3>4
  <2> QED BY <2>1, <2>3, <2>4, <2>5, ModeIsWritten
<1> QED BY <1>1, <1>2, ModesStep, PTL DEF Spec
=============================================================================
