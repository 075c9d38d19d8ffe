---------------------------- MODULE PolicySource ----------------------------
(* Where a policy comes from and what it goes through: the command line     *)
(* (main, buildPolicy), the JSON of a file, a template, the environment or  *)
(* stdin (Parse), the rules of --ro and --rw, and the JSON in which it is   *)
(* printed (--expand) or handed to the re-executed child, which parses and  *)
(* validates it again.                                                      *)
(*                                                                          *)
(* An optional value is a set of at most one; so is the result of what can  *)
(* fail.  A JSON value is a record that says in "json" what it is.          *)
EXTENDS Landlock, Integers, SequencesExt

CONSTANTS
  Requests,     \* command lines
  Documents,    \* policies as JSON
  Path,         \* paths of --ro and --rw
  Bin,          \* the command's path
  Utf8,         \* the strings that are valid UTF-8
  Filesystems,  \* functions from Path to Kind
  IntSize,      \* what parseOctalMode's integer wraps around at (2^32 in the code)
  MaxMode       \* the largest mode (0o7777 in the code)

Kind == {"dir", "file", "missing", "denied"}

ASSUME PolicySourceAssumption ==
  /\ \A r \in Requests :
       /\ r.ro \in Seq(Path) /\ r.rw \in Seq(Path)
       /\ r.policy \in {"none", "json", "template", "other"}
       /\ {r.fromEnv, r.fromStdin, r.dryRun, r.expand, r.cmd, r.stray} \subseteq BOOLEAN
  /\ Path \subseteq STRING
  /\ Filesystems \subseteq [Path -> Kind]
  /\ IntSize \in Nat \ {0} /\ MaxMode \in Nat /\ MaxMode < IntSize

VARIABLES
  args,      \* the command line
  fs,        \* what the paths are, and
  touched,   \*   the paths that another process has changed
  pc,
  source,    \* the JSON that was read
  rendered,  \* whether it comes out of a template
  policy,
  appended,  \* how many --ro and --rw flags have become rules
  end,       \* "running", "usage", "error", "features", "expanded", "dry run", "launched"
  handed,    \* the JSON printed, or written to the child
  received   \* what the child, or a landcage reading the print, makes of it

vars == <<args, fs, touched, pc, source, rendered, policy, appended, end, handed, received>>

The(s) == CHOOSE x \in s : TRUE

-----------------------------------------------------------------------------
(* JSON.                                                                    *)

JNull       == [json |-> "null"]
JString(s)  == [json |-> "string", text |-> s]
JArray(s)   == [json |-> "array", items |-> s]
JObject(f)  == [json |-> "object", fields |-> f]

FSRule == [path : STRING, access : SUBSET STRING, refer : BOOLEAN, ioctlDev : BOOLEAN,
           ignoreMissing : BOOLEAN, createDir : Seq(Nat)]

(* A document is JSON, and a decoder makes UTF-8 of every string.           *)
IsJSON(j) ==
  /\ j.json = "string" => j \in [json : {"string"}, text : STRING]
  /\ j.json = "array"  => j.items \in Seq(STRING)

ASSUME DocumentAssumption ==
  \A d \in Documents :
    /\ d.fs \in Seq(FSRule)
    /\ \A i \in DOMAIN d.fs : d.fs[i].path \in Utf8
    /\ \A v \in DOMAIN d.env :
         d.env[v].json = "object" =>
           \A f \in DOMAIN d.env[v].fields : IsJSON(d.env[v].fields[f])

(* encoding/json writes U+FFFD for what is not UTF-8.                       *)
Replaced  == "U+FFFD"
Encode(s) == IF s \in Utf8 THEN s ELSE Replaced

UnmarshalNet(j) ==
  CASE j = JString("allow")        -> {[allow |-> TRUE, rules |-> {}]}
    [] j \in {JString("deny"), JNull} -> {[allow |-> FALSE, rules |-> {}]}
    [] j.json = "array"            -> {[allow |-> FALSE, rules |-> {j.items}]}
    [] OTHER                       -> {}

MarshalNet(n) ==
  IF n.allow THEN JString("allow")
  ELSE IF n.rules = {} THEN JNull ELSE JArray(The(n.rules))

(* A null reaches UnmarshalJSON, which takes it for an empty string.        *)
UnmarshalBag(j) ==
  CASE j.json = "array"  -> {j.items}
    [] j.json = "string" -> {<<j.text>>}
    [] j.json = "null"   -> {<<"">>}
    [] OTHER             -> {}

MarshalBag(bag) == IF Len(bag) = 1 THEN JString(bag[1]) ELSE JArray(bag)

PathOp(p, a, r, s) ==
  [value |-> {}, unset |-> FALSE, prepend |-> p, append |-> a, remove |-> r, sep |-> s]
NoEntry == PathOp(<<>>, <<>>, <<>>, "")
Bags == {"prepend", "append", "remove"}

(* The object of a path edit, of whose fields each may be absent.           *)
BagOf(F, f) == IF f \in DOMAIN F THEN UnmarshalBag(F[f]) ELSE {<<>>}
SepOf(F) ==
  IF "sep" \notin DOMAIN F \/ F["sep"] \in {JNull, JString("")} THEN {":"}
  ELSE IF F["sep"].json = "string" THEN {F["sep"].text} ELSE {}

UnmarshalPathOp(F) ==
  { PathOp(p, a, r, s) : p \in BagOf(F, "prepend"), a \in BagOf(F, "append"),
                         r \in BagOf(F, "remove"), s \in SepOf(F) }

UnmarshalEntry(j) ==
  CASE j.json = "null"   -> {[NoEntry EXCEPT !.unset = TRUE]}
    [] j.json = "string" -> {[NoEntry EXCEPT !.value = {j.text}]}
    [] j.json = "object" -> UnmarshalPathOp(j.fields)
    [] OTHER             -> {}

MarshalEntryBug(e) ==
  IF e.unset THEN JNull
  ELSE IF e.value # {} THEN JString(The(e.value))
  ELSE JObject([f \in { b \in Bags : e[b] # <<>> } |-> MarshalBag(e[f])])
MarshalEntry(e) ==
  IF e.unset THEN JNull
  ELSE IF e.value # {} THEN JString(The(e.value))
  ELSE JObject([f \in { b \in Bags : e[b] # <<>> }
                       \cup (IF e.sep \in {"", ":"} THEN {} ELSE {"sep"}) |->
                  IF f = "sep" THEN JString(e.sep) ELSE MarshalBag(e[f])])

(* A document has optional fields unshare and ipc, and fs rules whose       *)
(* fields are omitted if empty.                                             *)
Unmarshal(d) ==
  IF \E n \in DOMAIN d.env : UnmarshalEntry(d.env[n]) = {} THEN {}
  ELSE { [name |-> d.name, unshare |-> d.unshare, fs |-> d.fs, ipc |-> d.ipc, net |-> n,
          env |-> [v \in DOMAIN d.env |-> The(UnmarshalEntry(d.env[v]))]] :
           n \in UnmarshalNet(d.net) }

Marshal(p) ==
  [name |-> p.name, unshare |-> p.unshare, ipc |-> p.ipc, net |-> MarshalNet(p.net),
   fs  |-> [i \in DOMAIN p.fs |-> [p.fs[i] EXCEPT !.path = Encode(@)]],
   env |-> [v \in DOMAIN p.env |-> MarshalEntry(p.env[v])]]

-----------------------------------------------------------------------------
(* Validation.                                                              *)

(* uint32 arithmetic: the size is looked at when all digits are in.         *)
ModeOf(s) ==
  LET mode[k \in 0 .. Len(s)] == IF k = 0 THEN 0 ELSE (mode[k - 1] * 8 + s[k]) % IntSize
  IN  mode[Len(s)]
parseOctalModeBug(s) == {ModeOf(s)} \cap (0 .. MaxMode)
parseOctalMode(s) ==
  IF \E i \in DOMAIN s : s[i] > 7 THEN {} ELSE {ModeOf(s)} \cap (0 .. MaxMode)

ValidFS(r) ==
  /\ r.path # ""
  /\ r.access # {} /\ r.access \subseteq {"r", "w", "x", "c", "d", "u"}
  /\ r.createDir # <<>> => ~r.ignoreMissing /\ parseOctalMode(r.createDir) # {}

ValidNet(r) ==
  r.access \in {"connect", "bind", "connect+bind"} /\ r.proto \in {"", "tcp", "udp", "any"}

Validate(p) ==
  /\ p.name # ""
  /\ \A u \in p.unshare : "mount_proc" \in u => "pid" \in u
  /\ \A i \in DOMAIN p.fs : ValidFS(p.fs[i])
  /\ \A rules \in p.net.rules : \A i \in DOMAIN rules : ValidNet(rules[i])
  /\ \A ipc \in p.ipc : \A f \in DOMAIN ipc : ipc[f] \in {"", "deny", "allow"}
  /\ "" \notin DOMAIN p.env

Parse(d) == { p \in Unmarshal(d) : Validate(p) }

-----------------------------------------------------------------------------
(* The command line.                                                        *)

HasVars(a) == a.vars # <<>> \/ a.optional # <<>>
NoPolicy(a) == a.policy = "none" /\ ~a.fromEnv /\ ~a.fromStdin
NoFlags(a)  == a.ro = <<>> /\ a.rw = <<>>

(* main up to buildPolicy.  stray: an argument before "--".                 *)
BadCommandLine(a) ==
  \/ a.stray
  \/ ~a.dryRun /\ ~a.expand /\ ~a.cmd
  \/ a.expand /\ (a.policy = "none" \/ a.dryRun)

FeaturesOnly(a) == a.dryRun /\ NoPolicy(a) /\ NoFlags(a)

(* parseKeyValueFlags: "" is what is not KEY=VALUE.                         *)
BadKeyValues(s) == "" \in ToSet(s) \/ \E i, k \in DOMAIN s : i # k /\ s[i] = s[k]

SharedKeys(a) == ToSet(a.vars) \cap ToSet(a.optional) # {}

MisplacedVarsBug(a) == HasVars(a) /\ a.policy # "template" /\ ~a.fromStdin
MisplacedVars(a) == HasVars(a) /\ a.policy # "template"

Ambiguous(a) ==
  \/ a.policy # "none" /\ (a.fromEnv \/ a.fromStdin)
  \/ a.fromEnv /\ a.fromStdin

BadSources(a) ==
  \/ Ambiguous(a)
  \/ BadKeyValues(a.vars) \/ BadKeyValues(a.optional) \/ SharedKeys(a)
  \/ a.policy = "other" \/ MisplacedVars(a)
  \/ NoPolicy(a) /\ NoFlags(a)

CLIPolicy == [name |-> "cli", unshare |-> {}, fs |-> <<>>, ipc |-> {}, env |-> <<>>,
              net |-> [allow |-> FALSE, rules |-> {}]]

RORule(path) ==
  [path |-> path, access |-> {"r", "x"}, refer |-> FALSE, ioctlDev |-> FALSE,
   ignoreMissing |-> TRUE, createDir |-> <<>>]

RWRuleBug(path, kind) ==
  [path |-> path, access |-> {"r", "w", "x", "u"} \cup (IF kind = "file" THEN {} ELSE {"c", "d"}),
   refer |-> TRUE, ioctlDev |-> TRUE, ignoreMissing |-> TRUE, createDir |-> <<>>]
RWRule(path, kind) ==
  [path |-> path, access |-> {"r", "w", "x", "u"} \cup (IF kind = "file" THEN {} ELSE {"c", "d"}),
   refer |-> kind # "file", ioctlDev |-> TRUE, ignoreMissing |-> TRUE, createDir |-> <<>>]

-----------------------------------------------------------------------------
Init ==
  /\ args \in Requests
  /\ fs \in Filesystems
  /\ touched = {}
  /\ pc = "args" /\ end = "running"
  /\ source = {} /\ rendered = FALSE
  /\ policy = {} /\ appended = 0
  /\ handed = {} /\ received = {}

Stop(how) == pc' = "stopped" /\ end' = how
Goto(step) == pc' = step /\ UNCHANGED end

ParseArgs ==
  /\ pc = "args"
  /\ IF BadCommandLine(args) \/ (FeaturesOnly(args) /\ (HasVars(args) \/ args.cmd))
     THEN Stop("usage")
     ELSE IF FeaturesOnly(args) THEN Stop("features") ELSE Goto("source")
  /\ UNCHANGED <<args, fs, touched, source, rendered, policy, appended, handed, received>>

(* buildPolicy up to policy.Parse: the file, environment or stdin cannot be *)
(* read, the template fails, or a document is there.                        *)
ResolveSource ==
  /\ pc = "source"
  /\ \/ BadSources(args) /\ Stop("usage") /\ UNCHANGED <<source, rendered, policy>>
     \/ /\ ~BadSources(args) /\ ~NoPolicy(args)
        /\ \/ Stop("error") /\ UNCHANGED <<source, rendered>>
           \/ /\ \E d \in Documents : source' = {d}
              /\ rendered' = (args.policy = "template")
              /\ Goto("parse")
        /\ UNCHANGED policy
     \/ /\ ~BadSources(args) /\ NoPolicy(args)
        /\ policy' = {CLIPolicy}
        /\ Goto("flags")
        /\ UNCHANGED <<source, rendered>>
  /\ UNCHANGED <<args, fs, touched, appended, handed, received>>

ParseSource ==
  /\ pc = "parse"
  /\ policy' = Parse(The(source))
  /\ IF policy' = {} THEN Stop("error") ELSE Goto("flags")
  /\ UNCHANGED <<args, fs, touched, source, rendered, appended, handed, received>>

Append_(rule) ==
  /\ policy' = { [p EXCEPT !.fs = Append(@, rule)] : p \in policy }
  /\ appended' = appended + 1

AppendRO ==
  /\ pc = "flags" /\ appended < Len(args.ro)
  /\ Append_(RORule(args.ro[appended + 1]))
  /\ UNCHANGED <<args, fs, touched, pc, source, rendered, end, handed, received>>

(* --rw examines its path, and gives up on any error but "not there".       *)
AppendRW ==
  /\ pc = "flags" /\ appended \in Len(args.ro) .. Len(args.ro) + Len(args.rw) - 1
  /\ LET path == args.rw[appended - Len(args.ro) + 1]
     IN  IF fs[path] = "denied"
         THEN Stop("usage") /\ UNCHANGED <<policy, appended>>
         ELSE Append_(RWRule(path, fs[path])) /\ UNCHANGED <<pc, end>>
  /\ UNCHANGED <<args, fs, touched, source, rendered, handed, received>>

(* main after buildPolicy: print, dry run, or look up the command and go.   *)
Conclude ==
  /\ pc = "flags" /\ appended = Len(args.ro) + Len(args.rw)
  /\ CASE args.expand -> Stop("expanded") /\ handed' = { Marshal(p) : p \in policy }
       [] args.dryRun -> \E how \in {"dry run", "error"} : Stop(how) /\ UNCHANGED handed
       [] OTHER       -> \/ Stop("error") /\ UNCHANGED handed
                         \/ Stop("launched") /\ handed' = { Marshal(p) : p \in policy }
  /\ UNCHANGED <<args, fs, touched, source, rendered, policy, appended, received>>

(* childMain, or another landcage with --policy-json-from-stdin.            *)
Receive ==
  /\ pc = "stopped" /\ handed # {} /\ received = {}
  /\ LET d == The(handed)
     IN  received' = {[policy |-> Parse(d), bin |-> Encode(Bin)]}
  /\ UNCHANGED <<args, fs, touched, pc, source, rendered, policy, appended, end, handed>>

(* Another process: each path changes once at most.                         *)
Change ==
  /\ pc = "flags"
  /\ \E path \in Path \ touched, kind \in Kind :
       fs' = [fs EXCEPT ![path] = kind] /\ touched' = touched \cup {path}
  /\ UNCHANGED <<args, pc, source, rendered, policy, appended, end, handed, received>>

Next ==
  \/ ParseArgs \/ ResolveSource \/ ParseSource \/ AppendRO \/ AppendRW
  \/ Conclude \/ Receive \/ Change

Spec == Init /\ [][Next]_vars

-----------------------------------------------------------------------------
(* Properties.                                                              *)

Accepted == end \in {"expanded", "dry run", "launched"}

(* main, buildPolicy: whichever way an invocation gets through, nothing it  *)
(* asks for was passed over: variables went to a template, one source at    *)
(* most was named, and it is the one used; every path flag became a rule    *)
(* behind those of the document; a command runs only without --dry-run and  *)
(* --expand.                                                                *)
HonoursRequest ==
  Accepted =>
    /\ HasVars(args) => rendered
    /\ rendered <=> args.policy = "template"
    /\ Cardinality({ f \in {"file", "env", "stdin"} :
                       \/ f = "file" /\ args.policy # "none"
                       \/ f = "env" /\ args.fromEnv
                       \/ f = "stdin" /\ args.fromStdin })
         = (IF NoPolicy(args) THEN 0 ELSE 1)
    /\ (source = {}) <=> NoPolicy(args)
    /\ \A p \in policy :
         [i \in DOMAIN p.fs |-> p.fs[i].path] =
           (IF source = {} THEN <<>>
            ELSE [i \in DOMAIN The(source).fs |-> The(source).fs[i].path])
           \o args.ro \o args.rw
    /\ end = "launched" <=> ~args.dryRun /\ ~args.expand
    /\ end = "launched" => args.cmd

(* buildPolicy against fsRuleError and the kernel: unless another process   *)
(* changes the path, the rule made of a --ro or --rw flag is one that       *)
(* enforcement accepts for what is at the path.                             *)
FlagsFit ==
  \A p \in policy, i \in 1 .. appended :
    LET rule  == p.fs[Len(p.fs) - appended + i]
        isDir == fs[rule.path] = "dir"
    IN  rule.path \notin touched /\ fs[rule.path] \in {"dir", "file"} =>
          ~fsRuleError(rule, isDir) /\ (rule.refer => isDir)

(* The number that octal digits write.                                      *)
Written(s) ==
  LET value[k \in 0 .. Len(s)] == IF k = 0 THEN 0 ELSE value[k - 1] * 8 + s[k]
  IN  value[Len(s)]

ModesOf(p) == { r.createDir : r \in Range(p.fs) } \ {<<>>}

(* parseOctalMode: the create_dir mode that CreatePolicyDirs and            *)
(* buildFSRules go on to use, without a second look at the error, is        *)
(* written in octal digits, and it is the one the policy wrote if that fits *)
(* into the integer that the digits are read into.  Of one that does not    *)
(* fit this says nothing: it wraps around before its size is looked at.     *)
FittingModes ==
  \A p \in policy : \A s \in ModesOf(p) :
    /\ \A k \in DOMAIN s : s[k] < 8
    /\ Written(s) < IntSize => parseOctalMode(s) = {Written(s)}

(* The marshallers and Parse: the child, and a landcage that reads what     *)
(* --expand printed, gets exactly the policy that was resolved, and the     *)
(* same command.                                                            *)
SamePolicyReceived ==
  \A r \in received : r.policy = policy /\ r.bin = Bin
=============================================================================
