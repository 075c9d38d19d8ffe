------------------------- MODULE EnforcementProofs -------------------------
(***************************************************************************)
(* Theorems about Landlock and Enforcement, for every set of paths, every  *)
(* policy, every kernel and every change of the filesystem; and, where     *)
(* nobody else changes it, that the dry run agrees with enforcement.       *)
(***************************************************************************)
EXTENDS Enforcement, TLAPS

-----------------------------------------------------------------------------
(* The tables of rights.                                                   *)

LEMMA Bits ==
  /\ FSBit[1] = "execute" /\ FSBit[2] = "write_file" /\ FSBit[3] = "read_file"
  /\ FSBit[4] = "read_dir" /\ FSBit[5] = "remove_dir" /\ FSBit[6] = "remove_file"
  /\ FSBit[7] = "make_char" /\ FSBit[8] = "make_dir" /\ FSBit[9] = "make_reg"
  /\ FSBit[10] = "make_sock" /\ FSBit[11] = "make_fifo" /\ FSBit[12] = "make_block"
  /\ FSBit[13] = "make_sym" /\ FSBit[14] = "refer" /\ FSBit[15] = "truncate"
  /\ FSBit[16] = "ioctl_dev" /\ FSBit[17] = "resolve_unix"
  BY DEF FSBit

(* The rights known from the first ABI on are the first thirteen bits.     *)
LEMMA FirstBits ==
  ASSUME NEW i \in 1..17
  PROVE  /\ i <= 13 <=> FSBit[i] \notin DOMAIN minABIForFSAccess
         /\ FSBit[i] = "refer" <=> i = 14
         /\ FSBit[i] = "truncate" <=> i = 15
         /\ FSBit[i] = "ioctl_dev" <=> i = 16
         /\ FSBit[i] = "resolve_unix" <=> i = 17
<1>1. \/ i = 1 \/ i = 2 \/ i = 3 \/ i = 4 \/ i = 5 \/ i = 6 \/ i = 7 \/ i = 8 \/ i = 9
      \/ i = 10 \/ i = 11 \/ i = 12 \/ i = 13 \/ i = 14 \/ i = 15 \/ i = 16 \/ i = 17
  OBVIOUS
<1> QED
  BY <1>1, Bits DEF minABIForFSAccess

LEMMA Table ==
  /\ DOMAIN minABIForFSAccess = {"refer", "truncate", "ioctl_dev", "resolve_unix"}
  /\ minABIForFSAccess["refer"] = 2 /\ minABIForFSAccess["truncate"] = 3
  /\ minABIForFSAccess["ioctl_dev"] = 5 /\ minABIForFSAccess["resolve_unix"] = 9
  BY DEF minABIForFSAccess

(* The two tables agree: MaxFSAccess is what the kernel knows.             *)
THEOREM HandlesAll ==
  ASSUME NEW a \in Nat, a >= 1
  PROVE  MaxFSAccess(a) = KernelFS(a)
<1>1. ASSUME NEW i \in 1..17
      PROVE  FSBit[i] \in MaxFSAccess(a) <=>
               i <= IF a >= 9 THEN 17 ELSE IF a >= 5 THEN 16
                    ELSE IF a >= 3 THEN 15 ELSE IF a >= 2 THEN 14 ELSE 13
  BY FirstBits, Bits DEF MaxFSAccess
<1>2. ASSUME NEW i \in 1..17
      PROVE  FSBit[i] \in KernelFS(a) <=>
               /\ i = 14 => a >= 2
               /\ i = 15 => a >= 3
               /\ i = 16 => a >= 5
               /\ i = 17 => a >= 9
  BY FirstBits, Table DEF KernelFS, FSRight
<1>3. MaxFSAccess(a) \subseteq FSRight /\ KernelFS(a) \subseteq FSRight
  BY DEF MaxFSAccess, KernelFS, FSRight
<1> QED
  BY <1>1, <1>2, <1>3 DEF FSRight

(* A flag gives rights this kernel knows and the documentation names.      *)
LEMMA FlagRightsKnown ==
  ASSUME NEW a \in Nat, NEW r \in FSRule, NEW f \in r.access, NEW isDir \in BOOLEAN
  PROVE  FlagRights(f, isDir, a) \subseteq KernelFS(a) \cap Documented(r)
<1>1. f \in Flag
  BY DEF FSRule
<1>2. FSRight = {"execute", "write_file", "read_file", "read_dir", "remove_dir",
                 "remove_file", "make_char", "make_dir", "make_reg", "make_sock",
                 "make_fifo", "make_block", "make_sym", "refer", "truncate",
                 "ioctl_dev", "resolve_unix"}
  <2>1. \A i \in 1..17 :
          \/ i = 1 \/ i = 2 \/ i = 3 \/ i = 4 \/ i = 5 \/ i = 6 \/ i = 7 \/ i = 8 \/ i = 9
          \/ i = 10 \/ i = 11 \/ i = 12 \/ i = 13 \/ i = 14 \/ i = 15 \/ i = 16 \/ i = 17
    OBVIOUS
  <2> QED
    BY <2>1, Bits DEF FSRight
<1>3. CASE f = "r"
  BY <1>2, <1>3, Table DEF FlagRights, KernelFS, Documented
<1>4. CASE f = "w"
  BY <1>2, <1>4, Table DEF FlagRights, KernelFS, Documented, SupportsTruncate
<1>5. CASE f = "x"
  BY <1>2, <1>5, Table DEF FlagRights, KernelFS, Documented
<1>6. CASE f = "c"
  BY <1>2, <1>6, Table DEF FlagRights, KernelFS, Documented, MakeRight
<1>7. CASE f = "d"
  BY <1>2, <1>7, Table DEF FlagRights, KernelFS, Documented
<1>8. CASE f = "u"
  BY <1>2, <1>8, Table DEF FlagRights, KernelFS, Documented, SupportsResolveUnix
<1> QED
  BY <1>1, <1>3, <1>4, <1>5, <1>6, <1>7, <1>8 DEF Flag

(* fsAccessSet never asks for a right the kernel lacks, nor for one that   *)
(* the documentation does not give the rule.                               *)
THEOREM RightsKnown ==
  ASSUME NEW a \in Nat, NEW r \in FSRule, NEW isDir \in BOOLEAN
  PROVE  fsAccessSet(r, isDir, a) \subseteq KernelFS(a) \cap Documented(r)
<1>1. "refer" \in FSRight /\ "ioctl_dev" \in FSRight
  BY Bits DEF FSRight
<1>2. r.refer /\ SupportsRefer(a) => "refer" \in KernelFS(a) \cap Documented(r)
  BY <1>1, Table DEF KernelFS, Documented, SupportsRefer
<1>3. r.ioctlDev /\ SupportsIoctlDev(a) => "ioctl_dev" \in KernelFS(a) \cap Documented(r)
  BY <1>1, Table DEF KernelFS, Documented, SupportsIoctlDev
<1> QED
  BY <1>2, <1>3, FlagRightsKnown DEF fsAccessSet

(* resolveIPC, which only the tests call, is in sync with resolveScopes,   *)
(* as the comment on it asks.                                              *)
THEOREM IPCInSync ==
  ASSUME NEW a \in Nat, NEW ipc \in IPC
  PROVE  /\ resolveIPC(ipc, a) = "unavailable" <=> ScopesRefused(ipc, a)
         /\ resolveIPC(ipc, a) = "include" <=> resolveScopes(ipc, a) # {}
         /\ ScopesRefused(ipc, a) <=> IPCRefused(ipc, a)
  BY DEF IPC, resolveIPC, resolveScopes, ScopesRefused, IPCRefused, hasHardDeny

-----------------------------------------------------------------------------
(* What a policy and its rules are.                                        *)

LEMMA PolicyType ==
  ASSUME Valid(policy)
  PROVE  /\ policy.fs \in Seq(FSRule)
         /\ policy.net \in [allow : BOOLEAN, rules : SUBSET NetRule]
         /\ policy.ipc \in IPC
         /\ policy.net.allow => policy.net.rules = {}
  BY DEF Valid

LEMMA RuleType ==
  ASSUME Valid(policy), index \in DOMAIN policy.fs
  PROVE  Rule \in FSRule /\ ValidRule(Rule) /\ index \in 1..Len(policy.fs)
  BY DEF Rule, Valid

(* os.MkdirAll makes directories where nothing was, and whatever becomes    *)
(* of other names was not there before and is no file now.                 *)
LEMMA MadeAll ==
  ASSUME NEW f \in [Path -> Kind], NEW r \in FSRule, r.path # Empty,
         NEW g \in Made(f, r)
  PROVE  /\ g \in [Path -> Kind]
         /\ \A p \in New(f, r.path) : f[p] = "missing" /\ g[p] = "dir"
         /\ \A p \in Path : \/ p \in New(f, r.path)
                           \/ g[p] = f[p]
                           \/ /\ p \in Disturbed(f, r) /\ f[p] \in Absent
                              /\ g[p] \notin {"file", "notdir"}
<1>1. PICK kind \in [Disturbed(f, r) -> Kind \ {"file", "notdir"}] :
        g = [p \in Path |-> IF p \in New(f, r.path) THEN "dir"
                            ELSE IF p \in Disturbed(f, r) THEN kind[p] ELSE f[p]]
  BY DEF Made
<1>2. \A p \in Disturbed(f, r) : f[p] \in Absent
  BY DEF Disturbed
<1>3. New(f, r.path) \subseteq Path /\ \A p \in New(f, r.path) : f[p] = "missing"
  BY NamesAssumption DEF New, FSRule
<1>4. "dir" \in Kind
  BY DEF Kind
<1> QED
  BY <1>1, <1>2, <1>3, <1>4

(* What a pattern is resolved to is named by its rule.                     *)
LEMMA ResolvedNames ==
  ASSUME NEW r \in FSRule, r.path # Empty, NEW f
  PROVE  /\ resolvePath(f, r.path) \subseteq Path
         /\ \A p \in resolvePath(f, r.path) : Names(r, p)
  BY NamesAssumption DEF resolvePath, Names, FSRule

-----------------------------------------------------------------------------
(* The invariant, step by step.  Everything but the filesystem and the     *)
(* warnings belongs to Enforce alone.                                      *)

LEMMA InitInd == Init => IndInv
<1> SUFFICES ASSUME Init PROVE IndInv
  OBVIOUS
<1> USE DEF Init
<1>1. TypeOK
  <2>1. policy.fs \in Seq(FSRule)
    BY PolicyType, PoliciesAssumption
  <2>2. 1 \in 1..(Len(policy.fs) + 1)
    BY <2>1
  <2> QED
    BY <2>2, KernelAssumption, PoliciesAssumption DEF TypeOK
<1>2. InHand
  BY DEF InHand
<1>3. Checked
  BY DEF Checked
<1>4. Compatible /\ Justified /\ OnlyWhatIsAsked
  BY DEF Compatible, Justified, OnlyWhatIsAsked
<1> QED
  BY <1>1, <1>2, <1>3, <1>4 DEF IndInv

LEMMA StillJustified ==
  ASSUME Justified, UNCHANGED <<policy, index, todo, batch, grants>>,
         pc' = "stat" => pc = "stat"
  PROVE  Justified'
  BY DEF Justified, Rule, Asked, Names, Documented

LEMMA FailInd ==
  ASSUME IndInv, Fail, UNCHANGED <<policy, abi, start, changes>>,
         fs' \in [Path -> Kind], warned' \subseteq DOMAIN policy.fs
  PROVE  IndInv'
<1> USE DEF IndInv, Fail
<1>1. TypeOK'
  BY DEF TypeOK
<1>2. InHand' /\ Checked' /\ OnlyWhatIsAsked'
  BY DEF InHand, Checked, OnlyWhatIsAsked
<1>3. Compatible'
  BY DEF Compatible
<1>4. Justified'
  BY StillJustified
<1> QED
  BY <1>1, <1>2, <1>3, <1>4

LEMMA NextRuleInd ==
  ASSUME IndInv, pc \in {"rule", "stat"},
         NEW new \in SUBSET Grant,
         \A g \in new : g.rights \subseteq MaxFSAccess(abi) /\ Asked(g, Rule),
         NextRule(new), UNCHANGED <<policy, abi, start, changes, warned>>,
         fs' \in [Path -> Kind]
  PROVE  IndInv'
<1>0. /\ index \in 1..Len(policy.fs) /\ Len(policy.fs) \in Nat
      /\ DOMAIN policy.fs = 1..Len(policy.fs)
  BY PolicyType DEF IndInv, TypeOK, InHand
<1> USE DEF IndInv, NextRule
<1>1. TypeOK'
  <2>1. index' \in 1..(Len(policy.fs) + 1)
    BY <1>0
  <2>2. grants' \subseteq Grant
    BY DEF TypeOK
  <2>3. pc' \in {"rule", "restrict"}
    OBVIOUS
  <2> QED
    BY <2>1, <2>2, <2>3 DEF TypeOK
<1>2. InHand'
  BY <1>0 DEF InHand
<1>3. Checked'
  <2>1. policy' = policy /\ abi' = abi
    OBVIOUS
  <2>2. abi >= 1 /\ ~NetRefused(policy.net, abi) /\ ~IPCRefused(policy.ipc, abi)
    BY DEF Checked
  <2> QED
    BY <2>1, <2>2 DEF Checked
<1>4. Compatible' /\ OnlyWhatIsAsked'
  BY DEF Compatible, OnlyWhatIsAsked
<1>5. Justified'
  <2>1. ASSUME NEW g \in grants'
        PROVE  \E i \in DOMAIN policy.fs : Asked(g, policy.fs[i])
    <3>1. CASE g \in grants
      BY <3>1 DEF Justified
    <3>2. CASE g \in new
      BY <1>0, <3>2 DEF Rule
    <3> QED
      BY <2>1, <3>1, <3>2
  <2>2. policy' = policy /\ pc' # "stat"
    OBVIOUS
  <2> QED
    BY <2>1, <2>2 DEF Justified, Asked, Names, Documented
<1> QED
  BY <1>1, <1>2, <1>3, <1>4, <1>5

LEMMA RuleErrorInd ==
  ASSUME IndInv, pc \in {"rule", "stat"}, NEW err, RuleError(err),
         UNCHANGED <<policy, abi, start, changes, warned>>, fs' \in [Path -> Kind]
  PROVE  IndInv'
<1>1. CASE NextRule({})
  BY <1>1, NextRuleInd
<1>2. CASE Fail
  BY <1>2, FailInd DEF IndInv, TypeOK
<1> QED
  BY <1>1, <1>2 DEF RuleError

LEMMA DetectInd == IndInv /\ Detect => IndInv'
<1> SUFFICES ASSUME IndInv, Detect PROVE IndInv'
  OBVIOUS
<1> USE DEF Detect
<1>1. CASE Fail
  BY <1>1, FailInd DEF IndInv, TypeOK
<1>2. CASE ~(abi < 1) /\ pc' = "validate" /\ UNCHANGED <<index, todo, batch, grants>>
  <2> USE <1>2 DEF IndInv
  <2>1. TypeOK'
    BY DEF TypeOK
  <2>2. InHand' /\ OnlyWhatIsAsked' /\ Compatible'
    BY DEF InHand, OnlyWhatIsAsked, Compatible
  <2>3. Checked'
    BY KernelAssumption DEF TypeOK, Checked
  <2>4. Justified'
    BY StillJustified
  <2> QED
    BY <2>1, <2>2, <2>3, <2>4
<1> QED
  BY <1>1, <1>2

(* Only a kernel with Landlock reaches Validate, and only one that can     *)
(* enforce the network rules and the hard denials leaves it.               *)
LEMMA ValidateInd == IndInv /\ Validate => IndInv'
<1> SUFFICES ASSUME IndInv, Validate PROVE IndInv'
  OBVIOUS
<1> USE DEF Validate
<1>1. CASE Fail
  BY <1>1, FailInd DEF IndInv, TypeOK
<1>2. CASE /\ ~NetRefused(policy.net, abi) /\ ~IPCRefused(policy.ipc, abi)
           /\ pc' = IF policy.fs = <<>> THEN "restrict" ELSE "rule"
           /\ UNCHANGED <<index, todo, batch, grants>>
  <2> USE <1>2 DEF IndInv
  <2>1. TypeOK'
    BY DEF TypeOK
  <2>2. InHand'
    <3>1. policy.fs \in Seq(FSRule) /\ index = 1
      BY PolicyType DEF TypeOK, InHand
    <3>2. policy.fs # <<>> => 1 \in DOMAIN policy.fs
      BY <3>1
    <3> QED
      BY <3>1, <3>2 DEF InHand
  <2>3. Checked' /\ OnlyWhatIsAsked' /\ Compatible'
    BY DEF Checked, OnlyWhatIsAsked, Compatible
  <2>4. Justified'
    BY StillJustified
  <2> QED
    BY <2>1, <2>2, <2>3, <2>4
<1> QED
  BY <1>1, <1>2

LEMMA BeginRuleInd == IndInv /\ BeginRule => IndInv'
<1> SUFFICES ASSUME IndInv, BeginRule PROVE IndInv'
  OBVIOUS
<1>1. /\ pc = "rule" /\ UNCHANGED <<policy, abi, start, changes, warned>>
      /\ warned' \subseteq DOMAIN policy.fs
  BY DEF BeginRule, IndInv, TypeOK
<1>2. Rule \in FSRule
  BY <1>1, RuleType DEF IndInv, TypeOK, InHand
<1>3. CASE Rule.path = Empty
  <2>1. fs' \in [Path -> Kind] /\ (NextRule({}) \/ Fail)
    BY <1>3 DEF BeginRule, IndInv, TypeOK
  <2> QED
    BY <1>1, <2>1, NextRuleInd, FailInd
<1>4. CASE Rule.path # Empty
  <2>1. fs' \in [Path -> Kind]
    <3>1. fs' = fs \/ fs' \in Made(fs, Rule)
      BY <1>4 DEF BeginRule
    <3> QED
      BY <1>2, <1>4, <3>1, MadeAll DEF IndInv, TypeOK
  <2>2. \/ Fail
        \/ \E err : RuleError(err)
        \/ NextRule({})
        \/ /\ pc' = "stat" /\ todo' = resolvePath(fs', Rule.path)
           /\ resolvePath(fs', Rule.path) # {}
           /\ UNCHANGED <<index, batch, grants>>
    BY <1>4 DEF BeginRule
  <2>3. CASE Fail
    BY <1>1, <2>1, <2>3, FailInd
  <2>4. CASE \E err : RuleError(err)
    BY <1>1, <2>1, <2>4, RuleErrorInd
  <2>5. CASE NextRule({})
    BY <1>1, <2>1, <2>5, NextRuleInd
  <2>6. CASE /\ pc' = "stat" /\ todo' = resolvePath(fs', Rule.path)
             /\ resolvePath(fs', Rule.path) # {}
             /\ UNCHANGED <<index, batch, grants>>
    <3> USE <1>1, <2>6 DEF IndInv
    <3>1. todo' \subseteq Path /\ \A p \in todo' : Names(Rule, p)
      BY <1>2, <1>4, ResolvedNames
    <3>2. TypeOK'
      BY <2>1, <3>1 DEF TypeOK
    <3>3. InHand' /\ Checked' /\ OnlyWhatIsAsked' /\ Compatible'
      BY DEF InHand, Checked, OnlyWhatIsAsked, Compatible
    <3>4. Justified'
      <4>1. policy' = policy /\ index' = index /\ grants' = grants /\ batch' = {}
        BY DEF InHand
      <4>2. \A g \in grants : \E i \in DOMAIN policy.fs : Asked(g, policy.fs[i])
        BY DEF Justified
      <4> QED
        BY <3>1, <4>1, <4>2 DEF Justified, Rule, Asked, Names, Documented
    <3> QED
      BY <3>2, <3>3, <3>4
  <2> QED
    BY <2>2, <2>3, <2>4, <2>5, <2>6
<1> QED
  BY <1>3, <1>4

LEMMA ChangeInd == IndInv /\ Change => IndInv'
<1> SUFFICES ASSUME IndInv, Change PROVE IndInv'
  OBVIOUS
<1> USE DEF IndInv, Change
<1>1. TypeOK'
  BY KernelAssumption DEF TypeOK
<1>2. InHand' /\ Checked' /\ OnlyWhatIsAsked' /\ Compatible'
  BY DEF InHand, Checked, OnlyWhatIsAsked, Compatible
<1>3. Justified'
  BY StillJustified
<1> QED
  BY <1>1, <1>2, <1>3

(* What one path of a rule adds is asked for by the rule and handled.      *)
LEMMA PathGrant ==
  ASSUME IndInv, pc = "stat", NEW path \in todo, Found(fs[path]),
         NEW g, g = [path |-> path, rights |-> fsAccessSet(Rule, fs[path] = "dir", abi)]
  PROVE  /\ g \in Grant /\ Asked(g, Rule)
         /\ g.rights \subseteq MaxFSAccess(abi)
<1>1. Rule \in FSRule /\ path \in Path /\ Names(Rule, path) /\ abi \in Nat /\ abi >= 1
  BY RuleType, KernelAssumption DEF IndInv, TypeOK, InHand, Checked, Justified
<1>2. g.rights \subseteq KernelFS(abi) \cap Documented(Rule)
  BY <1>1, RightsKnown
<1>3. g.rights \subseteq FSRight
  BY <1>2 DEF KernelFS
<1> QED
  BY <1>1, <1>2, <1>3, HandlesAll DEF Grant, Asked

LEMMA StatPathInd == IndInv /\ StatPath => IndInv'
<1> SUFFICES ASSUME IndInv, StatPath PROVE IndInv'
  OBVIOUS
<1> DEFINE more(path) ==
      IF Found(fs[path])
      THEN {[path |-> path, rights |-> fsAccessSet(Rule, fs[path] = "dir", abi)]}
      ELSE {}
<1>1. /\ pc = "stat" /\ UNCHANGED <<policy, abi, fs, start, changes, warned>>
      /\ warned' \subseteq DOMAIN policy.fs /\ fs' \in [Path -> Kind]
  BY DEF StatPath, IndInv, TypeOK
<1>2. PICK path \in todo :
        \/ IsLast(path) /\ NextRule(batch \cup more(path))
        \/ /\ ~IsLast(path) /\ todo' = todo \ {path} /\ batch' = batch \cup more(path)
           /\ UNCHANGED <<pc, index, grants>>
        \/ Fail
        \/ \E err : RuleError(err)
  BY DEF StatPath
<1>3. /\ batch \cup more(path) \subseteq Grant
      /\ \A g \in batch \cup more(path) : g.rights \subseteq MaxFSAccess(abi) /\ Asked(g, Rule)
  <2>1. \A g \in more(path) :
          g \in Grant /\ g.rights \subseteq MaxFSAccess(abi) /\ Asked(g, Rule)
    BY <1>1, PathGrant
  <2>2. \A g \in batch :
          g \in Grant /\ g.rights \subseteq MaxFSAccess(abi) /\ Asked(g, Rule)
    BY <1>1 DEF IndInv, TypeOK, Compatible, Justified
  <2> QED
    BY <2>1, <2>2
<1> HIDE DEF more
<1>4. CASE NextRule(batch \cup more(path))
  BY <1>1, <1>3, <1>4, NextRuleInd
<1>5. CASE Fail
  BY <1>1, <1>5, FailInd
<1>6. CASE \E err : RuleError(err)
  BY <1>1, <1>6, RuleErrorInd
<1>7. CASE /\ ~IsLast(path) /\ todo' = todo \ {path} /\ batch' = batch \cup more(path)
           /\ UNCHANGED <<pc, index, grants>>
  <2> USE <1>1, <1>7 DEF IndInv
  <2>1. todo' # {} /\ todo' \subseteq todo
    BY <1>2 DEF IsLast
  <2>2. TypeOK'
    BY <1>3, <2>1 DEF TypeOK
  <2>3. InHand' /\ OnlyWhatIsAsked'
    BY DEF InHand, OnlyWhatIsAsked
  <2>4. Checked'
    BY DEF Checked
  <2>5. Compatible'
    BY <1>3 DEF Compatible
  <2>6. Justified'
    BY <1>3, <2>1 DEF Justified, Rule, Asked, Names, Documented
  <2> QED
    BY <2>2, <2>3, <2>4, <2>5, <2>6
<1> QED
  BY <1>2, <1>4, <1>5, <1>6, <1>7

(* The kernel takes rights of directories for directories only, so what    *)
(* is restricted in the end holds no surprise.                             *)
LEMMA RestrictSelfInd == IndInv /\ RestrictSelf => IndInv'
<1> SUFFICES ASSUME IndInv, RestrictSelf PROVE IndInv'
  OBVIOUS
<1> USE DEF RestrictSelf
<1>1. CASE Fail
  BY <1>1, FailInd DEF IndInv, TypeOK
<1>2. CASE /\ \A g \in grants : Accepted(g)
           /\ pc' = "restricted" /\ UNCHANGED <<index, todo, batch, grants>>
  <2> USE <1>2 DEF IndInv
  <2>1. TypeOK'
    BY DEF TypeOK
  <2>2. InHand' /\ Compatible'
    BY DEF InHand, Compatible
  <2>3. Checked'
    BY DEF Checked
  <2>4. Justified'
    BY StillJustified
  <2>5. OnlyWhatIsAsked'
    BY <2>4 DEF OnlyWhatIsAsked, Justified, Accepted
  <2> QED
    BY <2>1, <2>2, <2>3, <2>4, <2>5
<1> QED
  BY <1>1, <1>2

-----------------------------------------------------------------------------
(* The theorems.                                                           *)

(* IndInv is an inductive invariant of Enforce beside other processes.     *)
THEOREM Inductive == Spec => []IndInv
<1>1. IndInv /\ [Next]_vars => IndInv'
  <2> SUFFICES ASSUME IndInv, [Next]_vars PROVE IndInv'
    OBVIOUS
  <2>1. CASE UNCHANGED vars
    BY <2>1 DEF vars, IndInv, TypeOK, InHand, Checked, Compatible, Justified,
                OnlyWhatIsAsked, Rule, Asked, Names, Documented
  <2>2. CASE Next
    BY <2>2, DetectInd, ValidateInd, BeginRuleInd, StatPathInd, RestrictSelfInd, ChangeInd
    DEF Next, Enforce
  <2> QED
    BY <2>1, <2>2
<1> QED
  BY <1>1, InitInd, PTL DEF Spec

(* The variables keep their types.                                         *)
THEOREM TypeCorrect == Spec => []TypeOK
<1>1. IndInv => TypeOK
  BY DEF IndInv
<1> QED
  BY <1>1, Inductive, PTL

(* No rule carries a right that the ruleset does not handle.               *)
THEOREM AlwaysCompatible == Spec => []Compatible
<1>1. IndInv => Compatible
  BY DEF IndInv
<1> QED
  BY <1>1, Inductive, PTL

(* However the filesystem changes under it, Enforce grants only what some  *)
(* rule of the policy asks for on that very path.                          *)
THEOREM GrantsOnlyWhatIsAsked == Spec => []OnlyWhatIsAsked
<1>1. IndInv => OnlyWhatIsAsked
  BY DEF IndInv
<1> QED
  BY <1>1, Inductive, PTL

(* No process is restricted on a kernel that cannot enforce its network    *)
(* rules and its IPC denials.                                              *)
THEOREM NeverDowngraded == Spec => []NotDowngraded
<1>1. IndInv => NotDowngraded
  <2> SUFFICES ASSUME IndInv, pc = "restricted"
               PROVE  /\ \A r \in policy.net.rules :
                           abi >= IF r.proto \in {"udp", "any"} THEN 10 ELSE 4
                      /\ policy.ipc.abstractUnix = "deny" =>
                           "abstract_unix_socket" \in KernelScope(abi)
                      /\ policy.ipc.signal = "deny" => "signal" \in KernelScope(abi)
    BY DEF NotDowngraded
  <2>1. /\ abi \in Nat /\ ~NetRefused(policy.net, abi) /\ ~IPCRefused(policy.ipc, abi)
        /\ policy.net.allow => policy.net.rules = {}
    BY PolicyType, KernelAssumption DEF IndInv, TypeOK, Checked
  <2>2. \A r \in policy.net.rules : abi >= IF r.proto \in {"udp", "any"} THEN 10 ELSE 4
    BY <2>1 DEF NetRefused, usesUDP, SupportsUDP, SupportsNet
  <2>3. hasHardDeny(policy.ipc) => abi >= 6
    BY <2>1 DEF IPCRefused, SupportsScoped
  <2> QED
    BY <2>2, <2>3 DEF hasHardDeny, KernelScope, Scope
<1> QED
  BY <1>1, Inductive, PTL

(* What the kernel can restrict is restricted, up to what is allowed.      *)
THEOREM DenyByDefault == Spec => []FullyHandled
<1>1. IndInv => FullyHandled
  <2> SUFFICES ASSUME IndInv, pc = "restricted" PROVE FullyHandled
    BY DEF FullyHandled
  <2>1. abi \in Nat /\ abi >= 1 /\ policy.ipc \in IPC
    BY PolicyType, KernelAssumption DEF IndInv, TypeOK, Checked
  <2>2. MaxFSAccess(abi) = KernelFS(abi)
    BY <2>1, HandlesAll
  <2>3. (IF SupportsNet(abi) THEN MaxNetAccess(abi) ELSE {}) = KernelNet(abi)
    BY <2>1 DEF SupportsNet, SupportsUDP, MaxNetAccess, KernelNet, NetRight,
                Operation, Protocol
  <2>4. handledNet(policy.net, abi) = IF policy.net.allow THEN {} ELSE KernelNet(abi)
    BY <2>3 DEF handledNet
  <2>5. resolveScopes(policy.ipc, abi) =
          KernelScope(abi) \ ((IF policy.ipc.abstractUnix = "allow" THEN {"abstract_unix_socket"} ELSE {})
                              \cup (IF policy.ipc.signal = "allow" THEN {"signal"} ELSE {}))
    BY <2>1 DEF resolveScopes, SupportsScoped, KernelScope, Scope
  <2> QED
    BY <2>2, <2>4, <2>5 DEF FullyHandled
<1> QED
  BY <1>1, Inductive, PTL

-----------------------------------------------------------------------------
(* Nothing is lost on a filesystem that nobody else changes.               *)

(* A rule that is not refused gives all that the documentation says and    *)
(* the kernel has, but for reading a directory that is none.               *)
LEMMA FullRights ==
  ASSUME NEW a \in Nat, NEW r \in FSRule, NEW isDir \in BOOLEAN, ~fsRuleError(r, isDir)
  PROVE  fsAccessSet(r, isDir, a) =
           KernelFS(a) \cap Documented(r)
             \cap (IF isDir THEN FSRight ELSE FSRight \ {"read_dir"})
<1> DEFINE Has == UNION { FlagRights(f, isDir, a) : f \in r.access }
<1>1. fsAccessSet(r, isDir, a) \subseteq KernelFS(a) \cap Documented(r)
  BY RightsKnown
<1>2. KernelFS(a) \subseteq FSRight
  BY DEF KernelFS
<1>3. ~isDir => "read_dir" \notin fsAccessSet(r, isDir, a)
  <2>1. ASSUME ~isDir, NEW f \in r.access
        PROVE  "read_dir" \notin FlagRights(f, isDir, a)
    <3>1. f \in Flag /\ f \notin {"c", "d"}
      BY <2>1 DEF FSRule, fsRuleError
    <3> QED
      BY <2>1, <3>1 DEF Flag, FlagRights
  <2> QED
    BY <2>1 DEF fsAccessSet
<1>4. ASSUME NEW right \in KernelFS(a) \cap Documented(r), isDir \/ right # "read_dir"
      PROVE  right \in fsAccessSet(r, isDir, a)
  <2>1. right \in DOMAIN minABIForFSAccess => a >= minABIForFSAccess[right]
    BY DEF KernelFS
  <2>2. ASSUME NEW f \in r.access, right \in FlagRights(f, isDir, a)
        PROVE  right \in fsAccessSet(r, isDir, a)
    BY <2>2 DEF fsAccessSet
  <2>3. CASE "r" \in r.access /\ right \in {"read_file", "read_dir"}
    BY <1>4, <2>2, <2>3 DEF FlagRights
  <2>4. CASE "w" \in r.access /\ right \in {"write_file", "truncate"}
    BY <2>1, <2>2, <2>4, Table DEF FlagRights, SupportsTruncate
  <2>5. CASE "x" \in r.access /\ right = "execute"
    BY <2>2, <2>5 DEF FlagRights
  <2>6. CASE "c" \in r.access /\ right \in {"make_reg", "make_dir", "make_sym",
                                           "make_fifo", "make_sock"}
    BY <2>2, <2>6 DEF FlagRights, MakeRight
  <2>7. CASE "d" \in r.access /\ right \in {"remove_file", "remove_dir"}
    BY <2>2, <2>7 DEF FlagRights
  <2>8. CASE "u" \in r.access /\ right = "resolve_unix"
    BY <2>1, <2>2, <2>8, Table DEF FlagRights, SupportsResolveUnix
  <2>9. CASE r.refer /\ right = "refer"
    BY <2>1, <2>9, Table DEF fsAccessSet, SupportsRefer
  <2>10. CASE r.ioctlDev /\ right = "ioctl_dev"
    BY <2>1, <2>10, Table DEF fsAccessSet, SupportsIoctlDev
  <2> QED
    BY <2>3, <2>4, <2>5, <2>6, <2>7, <2>8, <2>9, <2>10 DEF Documented
<1> QED
  BY <1>1, <1>2, <1>3, <1>4

(* create_dir turns only what was not there into something else, and makes *)
(* no files.                                                               *)
Grown ==
  \A p \in Path : \/ fs[p] = start[p]
                  \/ start[p] \in Absent /\ fs[p] \notin {"file", "notdir"}

(* What the rules before the one at hand name has been granted; what it    *)
(* names itself is granted or still to come.                               *)
KeptUp ==
  /\ Grown
  /\ pc # "failed" =>
       \A i \in DOMAIN policy.fs :
         i < index /\ ~CutShort(policy.fs[i], start) =>
           \A p \in Present(policy.fs[i], start) : Full(policy.fs[i], p) \in grants
  /\ pc = "stat" => \A p \in Present(Rule, start) : p \in todo \/ Full(Rule, p) \in batch

Kept ==
  /\ changes = 0 => KeptUp
  /\ pc = "stat" =>
       todo \subseteq IF Rule.path \in Glob THEN Matches[Rule.path] ELSE {Rule.path}
  /\ pc \in {"restrict", "restricted"} => index > Len(policy.fs)

LEMMA KeptInit == Init => Kept
<1> SUFFICES ASSUME Init PROVE Kept
  OBVIOUS
<1>1. Grown
  BY DEF Init, Grown
<1>2. \A i \in DOMAIN policy.fs : ~(i < 1)
  BY PolicyType, PoliciesAssumption DEF Init
<1> QED
  BY <1>1, <1>2 DEF Init, Kept, KeptUp

LEMMA MadeGrown ==
  ASSUME IndInv, Grown, Rule \in FSRule, Rule.path # Empty,
         fs' \in Made(fs, Rule) \/ fs' = fs, start' = start
  PROVE  Grown'
<1>1. CASE fs' = fs
  BY <1>1 DEF Grown
<1>2. CASE fs' \in Made(fs, Rule)
  <2>1. fs \in [Path -> Kind]
    BY DEF IndInv, TypeOK
  <2>2. ASSUME NEW p \in Path
        PROVE  fs'[p] = fs[p] \/ (fs[p] \in Absent /\ fs'[p] \notin {"file", "notdir"})
    BY <1>2, <2>1, <2>2, MadeAll DEF Absent, Nothing
  <2> QED
    BY <2>2 DEF Grown
<1> QED
  BY <1>1, <1>2

LEMMA KeptNextRule ==
  ASSUME IndInv, Kept, pc \in {"rule", "stat"}, NEW new, NextRule(new),
         UNCHANGED <<policy, abi, start, changes>>, Grown => Grown',
         changes = 0 /\ ~CutShort(Rule, start) =>
           \A p \in Present(Rule, start) : Full(Rule, p) \in new
  PROVE  Kept'
<1>1. /\ index \in 1..Len(policy.fs) /\ Len(policy.fs) \in Nat
      /\ DOMAIN policy.fs = 1..Len(policy.fs)
  BY PolicyType DEF IndInv, TypeOK, InHand
<1>2. /\ pc' \in {"rule", "restrict"} /\ index' = index + 1 /\ grants' = grants \cup new
      /\ pc' = "restrict" => index = Len(policy.fs)
  BY DEF NextRule
<1>3. ASSUME changes = 0
      PROVE  KeptUp'
  <2>1. Grown' /\ pc # "failed"
    BY <1>3 DEF Kept, KeptUp
  <2>2. ASSUME NEW i \in DOMAIN policy.fs, i < index + 1, ~CutShort(policy.fs[i], start),
               NEW p \in Present(policy.fs[i], start)
        PROVE  Full(policy.fs[i], p) \in grants'
    <3>1. CASE i < index
      BY <1>2, <1>3, <2>1, <2>2, <3>1 DEF Kept, KeptUp
    <3>2. CASE i = index
      BY <1>2, <1>3, <2>2, <3>2 DEF Rule
    <3> QED
      BY <1>1, <2>2, <3>1, <3>2
  <2>3. \A i \in DOMAIN policy.fs :
          i < index' /\ ~CutShort(policy.fs[i], start)' =>
            \A p \in Present(policy.fs[i], start)' : Full(policy.fs[i], p)' \in grants'
    BY <1>2, <2>2 DEF Present, Full, KernelFS, Documented, CutShort
  <2> QED
    BY <1>2, <2>1, <2>3 DEF KeptUp
<1> QED
  BY <1>1, <1>2, <1>3 DEF Kept

LEMMA KeptFail ==
  ASSUME Kept, Fail, UNCHANGED changes, Grown => Grown'
  PROVE  Kept'
  BY DEF Kept, KeptUp, Fail

LEMMA KeptBeginRule == IndInv /\ Kept /\ BeginRule => Kept'
<1> SUFFICES ASSUME IndInv, Kept, BeginRule PROVE Kept'
  OBVIOUS
<1>1. pc = "rule" /\ UNCHANGED <<policy, abi, start, changes, warned>>
  BY DEF BeginRule
<1>2. Rule \in FSRule /\ start \in [Path -> Kind] /\ fs \in [Path -> Kind]
  BY <1>1, RuleType, KernelAssumption DEF IndInv, TypeOK, InHand
<1>3. CASE Rule.path = Empty
  <2>1. Present(Rule, start) = {} /\ fs' = fs /\ (NextRule({}) \/ Fail)
    BY <1>3, NamesAssumption DEF BeginRule, Present
  <2>2. Grown => Grown'
    BY <1>1, <2>1 DEF Grown
  <2> QED
    BY <1>1, <2>1, <2>2, KeptNextRule, KeptFail
<1>4. CASE Rule.path # Empty
  <2>1. fs' = fs \/ fs' \in Made(fs, Rule)
    BY <1>4 DEF BeginRule
  <2>2. Grown => Grown'
    BY <1>1, <1>2, <1>4, <2>1, MadeGrown
  <2>3. ASSUME changes = 0, NEW p \in Path, Found(start[p])
        PROVE  fs'[p] = start[p] /\ fs'[p] \notin Nothing
    <3>1. Grown'
      BY <2>2, <2>3 DEF Kept, KeptUp
    <3> QED
      BY <1>1, <2>3, <3>1 DEF Grown, Found, Absent, Nothing
  <2>4. ASSUME changes = 0, NEW p \in Present(Rule, start)
        PROVE  p \in resolvePath(fs', Rule.path)
    BY <2>3, <2>4 DEF Present, resolvePath
  <2>5. ASSUME changes = 0, isPathError(resolveError(fs', Rule.path))
        PROVE  Present(Rule, start) = {}
    <3>1. Rule.path \in Glob /\ fs'[Dir[Rule.path]] # "dir" /\ Dir[Rule.path] \in Path
      BY <2>5, NamesAssumption DEF resolveError, isPathError
    <3>2. start[Dir[Rule.path]] # "dir"
      BY <2>3, <2>5, <3>1 DEF Found
    <3> QED
      BY <3>1, <3>2 DEF Present
  <2>6. \/ Fail
        \/ NextRule({}) /\ isPathError(resolveError(fs', Rule.path))
        \/ NextRule({}) /\ resolvePath(fs', Rule.path) = {}
        \/ /\ pc' = "stat" /\ todo' = resolvePath(fs', Rule.path)
           /\ UNCHANGED <<index, batch, grants>>
    BY <1>4 DEF BeginRule, RuleError
  <2>7. CASE Fail
    BY <1>1, <2>2, <2>7, KeptFail
  <2>8. CASE NextRule({}) /\ isPathError(resolveError(fs', Rule.path))
    BY <1>1, <2>2, <2>5, <2>8, KeptNextRule
  <2>9. CASE NextRule({}) /\ resolvePath(fs', Rule.path) = {}
    BY <1>1, <2>2, <2>4, <2>9, KeptNextRule
  <2>10. CASE /\ pc' = "stat" /\ todo' = resolvePath(fs', Rule.path)
              /\ UNCHANGED <<index, batch, grants>>
    <3>1. Rule' = Rule
      BY <1>1, <2>10 DEF Rule
    <3>2. ASSUME changes = 0
          PROVE  KeptUp'
      <4>1. Grown'
        BY <2>2, <3>2 DEF Kept, KeptUp
      <4>2. \A p \in Present(Rule, start)' : p \in todo'
        BY <1>1, <2>4, <2>10, <3>1, <3>2 DEF Present
      <4>3. \A i \in DOMAIN policy.fs : i < index /\ ~CutShort(policy.fs[i], start)' =>
              \A p \in Present(policy.fs[i], start)' : Full(policy.fs[i], p)' \in grants
        BY <1>1, <3>2 DEF Kept, KeptUp, Present, Full, KernelFS, Documented, CutShort
      <4> QED
        BY <1>1, <2>10, <3>1, <4>1, <4>2, <4>3 DEF KeptUp
    <3>3. todo' \subseteq IF Rule.path \in Glob THEN Matches[Rule.path] ELSE {Rule.path}
      BY <2>10 DEF resolvePath
    <3> QED
      BY <1>1, <2>10, <3>1, <3>2, <3>3 DEF Kept
  <2> QED
    BY <2>6, <2>7, <2>8, <2>9, <2>10
<1> QED
  BY <1>3, <1>4

LEMMA KeptStatPath == IndInv /\ Kept /\ StatPath => Kept'
<1> SUFFICES ASSUME IndInv, Kept, StatPath PROVE Kept'
  OBVIOUS
<1> DEFINE more(path) ==
      IF Found(fs[path])
      THEN {[path |-> path, rights |-> fsAccessSet(Rule, fs[path] = "dir", abi)]}
      ELSE {}
<1>1. pc = "stat" /\ UNCHANGED <<policy, abi, fs, start, changes, warned>>
  BY DEF StatPath
<1>2. /\ Rule \in FSRule /\ start \in [Path -> Kind] /\ fs \in [Path -> Kind] /\ abi \in Nat
      /\ start \in Filesystems /\ todo \subseteq Path
  BY <1>1, RuleType, KernelAssumption DEF IndInv, TypeOK, InHand
<1>3. Grown => Grown'
  BY <1>1 DEF Grown
<1>4. PICK path \in todo :
        \/ /\ Found(fs[path]) => ~fsRuleError(Rule, fs[path] = "dir")
           /\ \/ IsLast(path) /\ NextRule(batch \cup more(path))
              \/ /\ ~IsLast(path) /\ todo' = todo \ {path} /\ batch' = batch \cup more(path)
                 /\ UNCHANGED <<pc, index, grants>>
        \/ Fail
        \/ /\ ~Found(fs[path]) /\ NextRule({}) /\ Rule.ignoreMissing
           /\ StatError(fs[path]) # "ENOENT" /\ isPathError(StatError(fs[path]))
  BY DEF StatPath, RuleError
<1>5. ASSUME changes = 0, Found(fs[path]) => ~fsRuleError(Rule, fs[path] = "dir"),
             NEW p \in Present(Rule, start)
      PROVE  Full(Rule, p) \in batch \cup more(path) \/ (p \in todo /\ p # path)
  <2>1. p \in todo \/ Full(Rule, p) \in batch
    BY <1>1, <1>5 DEF Kept, KeptUp
  <2>2. CASE p = path
    <3>1. Found(start[path]) /\ path \in Path /\ fs[path] = start[path]
      BY <1>2, <1>5, <2>2 DEF Present, Kept, KeptUp, Grown, Found, Absent, Nothing
    <3>2. fsAccessSet(Rule, fs[path] = "dir", abi) =
            KernelFS(abi) \cap Documented(Rule)
              \cap (IF fs[path] = "dir" THEN FSRight ELSE FSRight \ {"read_dir"})
      <4>1. (fs[path] = "dir") \in BOOLEAN
        OBVIOUS
      <4>2. ~fsRuleError(Rule, fs[path] = "dir")
        BY <1>5, <3>1
      <4> QED
        BY <1>2, <4>1, <4>2, FullRights
    <3>3. Full(Rule, path) = [path |-> path, rights |-> fsAccessSet(Rule, fs[path] = "dir", abi)]
      BY <3>1, <3>2 DEF Full
    <3> QED
      BY <2>2, <3>1, <3>3
  <2> QED
    BY <2>1, <2>2
<1> HIDE DEF more
<1>6. CASE /\ Found(fs[path]) => ~fsRuleError(Rule, fs[path] = "dir")
           /\ IsLast(path) /\ NextRule(batch \cup more(path))
  <2>1. changes = 0 => \A p \in Present(Rule, start) : Full(Rule, p) \in batch \cup more(path)
    BY <1>5, <1>6 DEF IsLast
  <2> QED
    BY <1>1, <1>3, <1>6, <2>1, KeptNextRule
<1>7. CASE Fail
  BY <1>1, <1>3, <1>7, KeptFail
<1>8. CASE /\ ~Found(fs[path]) /\ NextRule({}) /\ Rule.ignoreMissing
           /\ StatError(fs[path]) # "ENOENT" /\ isPathError(StatError(fs[path]))
  <2>1. path \in Path /\ fs[path] = "notdir"
    BY <1>2, <1>8 DEF StatError, isPathError, Found, Kind, Absent, Nothing
  <2>2. ASSUME changes = 0, ~CutShort(Rule, start)
        PROVE  Present(Rule, start) = {}
    <3>1. start[path] = "notdir"
      BY <2>1, <2>2 DEF Kept, KeptUp, Grown
    <3>2. Rule.path \notin Glob /\ path = Rule.path
      BY <1>1, <1>8, <2>2, <3>1 DEF Kept, CutShort
    <3> QED
      BY <3>1, <3>2 DEF Present, Found
  <2> QED
    BY <1>1, <1>3, <1>8, <2>2, KeptNextRule
<1>9. CASE /\ Found(fs[path]) => ~fsRuleError(Rule, fs[path] = "dir")
           /\ ~IsLast(path) /\ todo' = todo \ {path} /\ batch' = batch \cup more(path)
           /\ UNCHANGED <<pc, index, grants>>
  <2>1. Rule' = Rule
    BY <1>1, <1>9 DEF Rule
  <2>2. ASSUME changes = 0
        PROVE  KeptUp'
    <3>1. \A p \in Present(Rule, start)' : p \in todo' \/ Full(Rule, p)' \in batch'
      BY <1>1, <1>5, <1>9, <2>1, <2>2 DEF Present, Full, KernelFS, Documented
    <3>2. \A i \in DOMAIN policy.fs : i < index /\ ~CutShort(policy.fs[i], start)' =>
            \A p \in Present(policy.fs[i], start)' : Full(policy.fs[i], p)' \in grants
      BY <1>1, <2>2 DEF Kept, KeptUp, Present, Full, KernelFS, Documented, CutShort
    <3> QED
      BY <1>1, <1>3, <1>9, <2>1, <2>2, <3>1, <3>2 DEF Kept, KeptUp
  <2> QED
    BY <1>1, <1>9, <2>1, <2>2 DEF Kept
<1> QED
  BY <1>4, <1>6, <1>7, <1>8, <1>9

LEMMA KeptOthers == IndInv /\ Kept /\ (Detect \/ Validate \/ RestrictSelf \/ Change) => Kept'
<1> SUFFICES ASSUME IndInv, Kept, Detect \/ Validate \/ RestrictSelf \/ Change PROVE Kept'
  OBVIOUS
<1> DEFINE Same == /\ UNCHANGED <<policy, abi, start, fs, changes>>
                   /\ UNCHANGED <<index, todo, batch, grants>>
<1>1. CASE Fail /\ UNCHANGED <<fs, start, changes>>
  <2>1. Grown => Grown'
    BY <1>1 DEF Grown
  <2> QED
    BY <1>1, <2>1, KeptFail
<1>2. CASE /\ Same /\ pc \notin {"stat", "failed"} /\ pc' \notin {"stat", "failed"}
           /\ pc' \in {"restrict", "restricted"} => index > Len(policy.fs)
  <2>1. ASSUME changes = 0
        PROVE  KeptUp'
    <3>1. Grown'
      BY <1>2, <2>1 DEF Kept, KeptUp, Grown
    <3>2. \A i \in DOMAIN policy.fs : i < index /\ ~CutShort(policy.fs[i], start)' =>
            \A p \in Present(policy.fs[i], start)' : Full(policy.fs[i], p)' \in grants
      BY <1>2, <2>1 DEF Kept, KeptUp, Present, Full, KernelFS, Documented, CutShort
    <3> QED
      BY <1>2, <3>1, <3>2 DEF KeptUp
  <2> QED
    BY <1>2, <2>1 DEF Kept
<1>3. CASE Detect
  BY <1>1, <1>2, <1>3 DEF Detect
<1>4. CASE Validate
  <2>1. policy.fs = <<>> => index > Len(policy.fs)
    BY <1>4 DEF Validate, IndInv, InHand
  <2> QED
    BY <1>1, <1>2, <1>4, <2>1 DEF Validate
<1>5. CASE RestrictSelf
  BY <1>1, <1>2, <1>5 DEF RestrictSelf, Kept
<1>6. CASE Change
  <2>1. changes \in Nat /\ changes' = changes + 1 /\ UNCHANGED <<policy, pc, index, todo>>
    BY <1>6, KernelAssumption DEF Change, IndInv, TypeOK
  <2>2. changes' # 0 /\ Rule' = Rule
    BY <2>1 DEF Rule
  <2> QED
    BY <2>1, <2>2 DEF Kept
<1> QED
  BY <1>3, <1>4, <1>5, <1>6

(* Enforce: where nobody else changes the filesystem, every path that       *)
(* exists and is named by a rule is granted in full when the process is     *)
(* restricted, but for a rule that a symlink through a file cuts short.     *)
THEOREM GrantsAll == Spec => []NothingLost
<1>1. IndInv /\ Kept /\ [Next]_vars => Kept'
  <2> SUFFICES ASSUME IndInv, Kept, [Next]_vars PROVE Kept'
    OBVIOUS
  <2>1. CASE UNCHANGED vars
    BY <2>1 DEF vars, Kept, KeptUp, Grown, Rule, Present, Full, KernelFS, Documented, CutShort
  <2> QED
    BY <2>1, KeptBeginRule, KeptStatPath, KeptOthers DEF Next, Enforce
<1>2. IndInv /\ Kept => NothingLost
  <2> SUFFICES ASSUME IndInv, Kept, pc = "restricted", changes = 0,
                      NEW i \in DOMAIN policy.fs, ~CutShort(policy.fs[i], start),
                      NEW p \in Present(policy.fs[i], start)
               PROVE  Full(policy.fs[i], p) \in grants
    BY DEF NothingLost
  <2>1. i < index
    <3>1. policy.fs \in Seq(FSRule) /\ index > Len(policy.fs) /\ index \in 1..(Len(policy.fs) + 1)
      BY PolicyType DEF Kept, IndInv, TypeOK
    <3> QED
      BY <3>1
  <2> QED
    BY <2>1 DEF Kept, KeptUp
<1> QED
  BY <1>1, <1>2, Inductive, KeptInit, PTL DEF Spec

-----------------------------------------------------------------------------
(* The dry run.  What a rule before has created does not change the        *)
(* verdict on a rule.                                                      *)

NoMatter(r, p) ==
  /\ r.path = p /\ p \notin Glob => r.createDir \/ r.ignoreMissing
  /\ r.path \in Glob => p \notin Matches[r.path] \cup {Dir[r.path]}

LEMMA SameResolution ==
  ASSUME NEW r \in FSRule, r.path # Empty,
         NEW f \in [Path -> Kind], NEW s \in [Path -> Kind],
         \A p \in Path : f[p] = s[p] \/ NoMatter(r, p)
  PROVE  /\ resolveError(f, r.path) = resolveError(s, r.path)
         /\ resolvePath(f, r.path) = resolvePath(s, r.path)
<1>1. CASE r.path \notin Glob
  BY <1>1 DEF resolveError, resolvePath
<1>2. CASE r.path \in Glob
  <2>1. Dir[r.path] \in Path /\ Matches[r.path] \subseteq Path
    BY <1>2, NamesAssumption
  <2>2. f[Dir[r.path]] = s[Dir[r.path]] /\ \A p \in Matches[r.path] : f[p] = s[p]
    BY <1>2, <2>1 DEF NoMatter
  <2> QED
    BY <1>2, <2>2 DEF resolveError, resolvePath
<1> QED
  BY <1>1, <1>2

LEMMA SameVerdict ==
  ASSUME NEW r \in FSRule, r.path # Empty, ValidRule(r),
         NEW f \in [Path -> Kind], NEW s \in [Path -> Kind], Judged(r, s),
         \A p \in Path : \/ f[p] = s[p]
                         \/ /\ NoMatter(r, p)
                            /\ p = r.path /\ p \notin Glob => s[p] = "missing" /\ f[p] = "dir"
  PROVE  DryRule(f, r) <=> DryRule(s, r)
<1> DEFINE err   == resolveError(s, r.path)
           paths == resolvePath(s, r.path)
<1>1. resolveError(f, r.path) = err /\ resolvePath(f, r.path) = paths
  BY SameResolution
<1>2. CASE err # "none"
  BY <1>1, <1>2 DEF DryRule
<1>3. CASE err = "none" /\ r.path \in Glob
  <2>1. ~r.createDir /\ \A p \in paths : p \in Matches[r.path] /\ p \in Path
    BY <1>3, NamesAssumption DEF Judged, resolvePath
  <2>2. \A p \in paths : f[p] = s[p]
    BY <1>3, <2>1 DEF NoMatter
  <2> HIDE DEF err, paths
  <2>3. /\ DryRule(f, r) <=> IF paths = {} THEN r.ignoreMissing
                             ELSE \A p \in paths : DryPath(r, f[p])
        /\ DryRule(s, r) <=> IF paths = {} THEN r.ignoreMissing
                             ELSE \A p \in paths : DryPath(r, s[p])
    BY <1>1, <1>3, <2>1 DEF DryRule, err, paths
  <2> QED
    BY <2>2, <2>3
<1>4. CASE err = "none" /\ r.path \notin Glob
  <2>1. paths = {r.path} /\ r.path \in Path
    BY <1>4 DEF resolvePath, FSRule
  <2>2. CASE f[r.path] = s[r.path]
    <3>1. /\ DryRule(f, r) <=> \/ r.createDir /\ f[r.path] \in Absent
                               \/ DryPath(r, f[r.path])
          /\ DryRule(s, r) <=> \/ r.createDir /\ s[r.path] \in Absent
                               \/ DryPath(r, s[r.path])
      BY <1>1, <1>4, <2>1 DEF DryRule
    <3> QED
      BY <2>2, <3>1
  <2>3. CASE s[r.path] = "missing" /\ f[r.path] = "dir" /\ NoMatter(r, r.path)
    <3>1. r.createDir \/ r.ignoreMissing
      BY <1>4, <2>3 DEF NoMatter
    <3>2. DryPath(r, "dir")
      BY DEF DryPath, Found, fsRuleError
    <3>3. DryRule(f, r)
      BY <1>1, <1>4, <2>1, <2>3, <3>2 DEF DryRule
    <3>4. r.ignoreMissing => DryPath(r, "missing")
      BY DEF DryPath, Found, StatError, Absent, Nothing
    <3>5. DryRule(s, r)
      BY <1>4, <2>1, <2>3, <3>1, <3>4 DEF DryRule, Absent, Nothing
    <3> QED
      BY <3>3, <3>5
  <2> QED
    BY <1>4, <2>1, <2>2, <2>3
<1> QED
  BY <1>2, <1>3, <1>4

-----------------------------------------------------------------------------
(* The invariant.                                                          *)

(* What has changed was made by a rule up to the one at hand, or came to    *)
(* life with what that rule has made.                                      *)
MadeBy(f, p, r) ==
  /\ r.createDir /\ r.path # Empty /\ start[p] \in Absent /\ f[p] \notin {"file", "notdir"}
  /\ \/ p \in New(start, r.path) /\ start[p] = "missing" /\ f[p] = "dir"
     \/ p \in Disturbed(start, r)
Created(f, i) ==
  \A p \in Path :
    \/ f[p] = start[p]
    \/ \E k \in DOMAIN policy.fs : k <= i /\ MadeBy(f, p, policy.fs[k])
CreatedSoFar == Created(fs, IF pc = "stat" THEN index ELSE index - 1)

(* The dry run accepts the rules before the one at hand,                   *)
Passed == \A i \in DOMAIN policy.fs : i < index => DryRule(start, policy.fs[i])

(* and the paths of this one that have been examined.                      *)
Examining ==
  pc = "stat" =>
    /\ Rule.path # Empty /\ resolveError(fs, Rule.path) = "none"
    /\ todo \subseteq resolvePath(fs, Rule.path)
    /\ \A p \in resolvePath(fs, Rule.path) \ todo : DryPath(Rule, fs[p])
    /\ Rule.createDir => Rule.path \notin Glob /\ fs[Rule.path] = "dir"

(* The kernel will take what has been gathered.                            *)
Openable(g) == Found(fs[g.path]) /\ (fs[g.path] = "dir" \/ g.rights \subseteq FileRight)

Going   == CreatedSoFar /\ Passed /\ Examining /\ \A g \in grants \cup batch : Openable(g)
Verdict == IF pc = "failed" THEN ~DryRun(start) ELSE Going

DryInv ==
  /\ changes = 0 /\ Comparable => Verdict
  /\ pc \in {"restrict", "restricted"} => index > Len(policy.fs)

LEMMA Positions ==
  ASSUME IndInv
  PROVE  /\ Len(policy.fs) \in Nat /\ DOMAIN policy.fs = 1..Len(policy.fs)
         /\ index \in 1..(Len(policy.fs) + 1)
         /\ pc \in {"rule", "stat"} => index \in 1..Len(policy.fs)
  BY PolicyType DEF IndInv, TypeOK, InHand

LEMMA Types ==
  ASSUME IndInv
  PROVE  /\ fs \in [Path -> Kind] /\ start \in [Path -> Kind] /\ abi \in Nat
         /\ pc \in {"rule", "stat"} => Rule \in FSRule /\ ValidRule(Rule)
  BY RuleType, KernelAssumption DEF IndInv, TypeOK, InHand

(* The rule at hand, in the filesystem as Enforce finds it.                *)
LEMMA AtHand ==
  ASSUME IndInv, Comparable, pc \in {"rule", "stat"}, Rule.path # Empty,
         NEW f \in [Path -> Kind], Created(f, index)
  PROVE  /\ Judged(Rule, start)
         /\ DryRule(f, Rule) <=> DryRule(start, Rule)
         /\ resolveError(f, Rule.path) = resolveError(start, Rule.path)
         /\ resolvePath(f, Rule.path) = resolvePath(start, Rule.path)
<1>1. Judged(Rule, start)
  BY Positions DEF Comparable, Rule
<1>2. ASSUME NEW p \in Path, f[p] # start[p]
      PROVE  /\ NoMatter(Rule, p)
             /\ p = Rule.path /\ p \notin Glob => start[p] = "missing" /\ f[p] = "dir"
  <2>1. PICK k \in DOMAIN policy.fs : k <= index /\ MadeBy(f, p, policy.fs[k])
    BY <1>2 DEF Created
  <2>2. CASE k = index
    <3>1. Rule.createDir /\ Rule.path \notin Glob /\ MadeBy(f, p, Rule)
      BY <1>1, <2>1, <2>2 DEF Judged, Rule, MadeBy
    <3>2. start[Rule.path] \notin {"dead", "barred"}
      BY <1>1, <3>1 DEF Judged
    <3>3. start[Rule.path] = "missing" => Rule.path \in New(start, Rule.path)
      BY DEF New
    <3>4. p = Rule.path => p \notin Disturbed(start, Rule)
      BY <3>2, <3>3 DEF Disturbed, Absent, Nothing
    <3> QED
      BY <3>1, <3>4 DEF NoMatter, MadeBy
  <2>3. CASE k < index
    <3>1. Apart(policy.fs[k], Rule, start)
      BY <2>1, <2>3, Positions DEF Comparable, Rule, MadeBy
    <3>2. /\ Rule.path \notin Glob => Rule.path \in Used(Rule)
          /\ Rule.path \in Glob => Used(Rule) = Matches[Rule.path] \cup {Dir[Rule.path]}
                                 /\ Rule.path \in Path
      BY NamesAssumption DEF Used
    <3>3. CASE p \in New(start, policy.fs[k].path) /\ start[p] = "missing" /\ f[p] = "dir"
      BY <2>1, <3>1, <3>2, <3>3 DEF Apart, NoMatter, MadeBy
    <3>4. CASE p \in Disturbed(start, policy.fs[k])
      BY <2>1, <3>1, <3>2, <3>4 DEF Apart, NoMatter, MadeBy
    <3> QED
      BY <2>1, <3>3, <3>4 DEF MadeBy
  <2> QED
    BY <2>1, <2>2, <2>3, Positions
<1>3. Rule \in FSRule /\ ValidRule(Rule) /\ start \in [Path -> Kind]
  BY Types
<1> QED
  BY <1>1, <1>2, <1>3, SameVerdict, SameResolution

-----------------------------------------------------------------------------
(* How a rule ends.                                                        *)

LEMMA Rejected ==
  ASSUME IndInv, pc \in {"rule", "stat"}, ~DryRule(start, Rule),
         Fail, UNCHANGED <<policy, abi, start>>
  PROVE  Verdict'
<1>1. ~DryRun(start)
  BY Positions DEF DryRun, Rule
<1> QED
  BY <1>1 DEF Verdict, Fail, DryRun

LEMMA Taken ==
  ASSUME IndInv, pc \in {"rule", "stat"}, Passed, DryRule(start, Rule), NEW new, NextRule(new),
         UNCHANGED <<policy, abi, start>>, Created(fs', index),
         \A g \in grants \cup new : Openable(g)'
  PROVE  Verdict'
<1>1. /\ pc' \in {"rule", "restrict"} /\ index' = index + 1 /\ index' - 1 = index
      /\ grants' \cup batch' = grants \cup new
  BY Positions DEF NextRule
<1>2. CreatedSoFar'
  BY <1>1 DEF CreatedSoFar, Created, MadeBy
<1>3. Passed'
  <2>1. ASSUME NEW i \in DOMAIN policy.fs, i < index'
        PROVE  DryRule(start, policy.fs[i])
    <3>1. i < index \/ i = index
      BY <1>1, <2>1, Positions
    <3> QED
      BY <3>1 DEF Passed, Rule
  <2> QED
    BY <2>1 DEF Passed
<1>4. Examining'
  BY <1>1 DEF Examining
<1> QED
  BY <1>1, <1>2, <1>3, <1>4 DEF Verdict, Going

(* A new directory takes nothing away.                                     *)
LEMMA StillOpenable ==
  ASSUME \A p \in Path : fs'[p] = fs[p] \/ fs[p] \in Absent, NEW g \in Grant, Openable(g)
  PROVE  Openable(g)'
  BY DEF Openable, Found, Grant, Absent, Nothing

-----------------------------------------------------------------------------
(* The steps.                                                              *)

(* What create_dir looks at is as it was, or was made by a rule before.     *)
LEMMA Untouched ==
  ASSUME IndInv, Comparable, pc = "rule", Rule.path # Empty, Rule.createDir, CreatedSoFar,
         NEW p \in Above[Rule.path] \cup {Rule.path}
  PROVE  fs[p] = start[p] \/ (start[p] = "missing" /\ fs[p] = "dir")
<1>1. Rule \in FSRule /\ Rule.path \in Path /\ p \in Path
  BY Types, NamesAssumption DEF FSRule
<1>2. Rule.path \notin Glob
  BY Positions DEF Comparable, Judged, Rule
<1>3. p \in Used(Rule)
  BY <1>2 DEF Used
<1>4. ASSUME NEW k \in DOMAIN policy.fs, k <= index - 1, MadeBy(fs, p, policy.fs[k])
      PROVE  start[p] = "missing" /\ fs[p] = "dir"
  <2>1. k < index
    BY <1>4, Positions
  <2>2. Apart(policy.fs[k], Rule, start)
    BY <1>4, <2>1, Positions DEF Comparable, Rule, MadeBy
  <2> QED
    BY <1>3, <1>4, <2>2 DEF Apart, MadeBy
<1> QED
  BY <1>1, <1>4 DEF CreatedSoFar, Created

(* No new directory but those it makes at the start, and nothing else that  *)
(* it disturbs.                                                            *)
LEMMA NoMore ==
  ASSUME IndInv, Comparable, pc = "rule", Rule.path # Empty, Rule.createDir, CreatedSoFar
  PROVE  /\ New(fs, Rule.path) \subseteq New(start, Rule.path)
         /\ Disturbed(fs, Rule) \subseteq Disturbed(start, Rule)
<1>1. Rule \in FSRule /\ Rule.path \in Path
  BY Types DEF FSRule
<1>2. New(fs, Rule.path) \subseteq New(start, Rule.path)
  BY <1>1, Untouched DEF New
<1>3. ASSUME NEW q \in Disturbed(fs, Rule)
      PROVE  q \in Disturbed(start, Rule)
  <2>1. q \in Path /\ q \notin New(fs, Rule.path) /\ fs[q] \in Absent
    BY DEF Disturbed
  <2>2. start[q] \in Absent
    BY <2>1 DEF CreatedSoFar, Created, MadeBy
  <2>3. q \notin New(start, Rule.path)
    <3> SUFFICES ASSUME q \in New(start, Rule.path) PROVE FALSE
      OBVIOUS
    <3>1. /\ q \in Above[Rule.path] \cup {Rule.path} /\ start[q] = "missing"
          /\ start[Rule.path] = "missing"
      BY DEF New
    <3>2. fs[q] = "missing"
      BY <2>1, <3>1, Untouched DEF Absent, Nothing
    <3>3. fs[Rule.path] # "missing"
      BY <2>1, <3>1, <3>2 DEF New
    <3> QED
      BY <3>3 DEF Disturbed, New
  <2> QED
    BY <1>2, <2>1, <2>2, <2>3 DEF Disturbed
<1> QED
  BY <1>2, <1>3

(* os.MkdirAll does what the dry run expects of it.                        *)
LEMMA Mkdir ==
  ASSUME IndInv, Comparable, pc = "rule", Rule.path # Empty, Rule.createDir, CreatedSoFar
  PROVE  /\ MkdirRefused(fs, Rule) => ~DryRule(start, Rule)
         /\ \A g \in Made(fs, Rule) :
              Created(g, index) /\ (~MkdirRefused(fs, Rule) => g[Rule.path] = "dir")
<1>1. Rule \in FSRule /\ ValidRule(Rule) /\ fs \in [Path -> Kind] /\ start \in [Path -> Kind]
  BY Types
<1>2. Rule.path \in Path /\ ~Rule.ignoreMissing
  BY <1>1 DEF FSRule, ValidRule
<1>3. /\ Rule.path \notin Glob /\ start[Rule.path] \notin {"dead", "barred"}
      /\ Rule.open \/ New(start, Rule.path) \subseteq {Rule.path}
  BY Positions DEF Comparable, Judged, Rule
<1>4. ASSUME MkdirRefused(fs, Rule)
      PROVE  ~DryRule(start, Rule)
  <2>1. start[Rule.path] \in {"file", "notdir", "denied"}
    <3>1. CASE fs[Rule.path] \notin {"missing", "dir"}
      BY <1>1, <1>2, <1>3, <3>1, Untouched DEF Kind
    <3>2. ASSUME fs[Rule.path] = "missing", NEW p \in Above[Rule.path], fs[p] \notin {"missing", "dir"}
          PROVE  FALSE
      <4>1. start[Rule.path] = "missing" /\ start[p] \notin {"missing", "dir"}
        BY <3>2, Untouched
      <4>2. p \in Path /\ start[Rule.path] \in Below(start[p]) /\ start[p] \in Kind
        BY <1>1, <1>2, NamesAssumption, KernelAssumption DEF IndInv, TypeOK
      <4> QED
        BY <4>1, <4>2 DEF Below, Kind, Nothing
    <3>3. CASE ~Rule.open /\ ~(New(fs, Rule.path) \subseteq {Rule.path})
      BY <1>3, <3>3, NoMore
    <3> QED
      BY <1>4, <3>1, <3>2, <3>3 DEF MkdirRefused
  <2>2. ~DryPath(Rule, start[Rule.path])
    BY <1>2, <2>1 DEF DryPath, Found, StatError, Absent, Nothing
  <2>3. resolvePath(start, Rule.path) = {Rule.path}
    BY <1>3 DEF resolvePath
  <2> QED
    BY <1>2, <2>1, <2>2, <2>3 DEF DryRule, Absent, Nothing
<1>5. ASSUME NEW g \in Made(fs, Rule)
      PROVE  Created(g, index)
  <2>1. index \in DOMAIN policy.fs /\ Rule = policy.fs[index] /\ index <= index
        /\ \A k \in DOMAIN policy.fs : k <= index - 1 => k <= index
    BY Positions DEF Rule
  <2>2. ASSUME NEW p \in Path, g[p] # start[p]
        PROVE  \E k \in DOMAIN policy.fs : k <= index /\ MadeBy(g, p, policy.fs[k])
    <3>1. CASE g[p] = fs[p]
      <4>1. PICK k \in DOMAIN policy.fs : k <= index - 1 /\ MadeBy(fs, p, policy.fs[k])
        BY <2>2, <3>1 DEF CreatedSoFar, Created
      <4> QED
        BY <2>1, <3>1, <4>1 DEF MadeBy
    <3>2. CASE p \in New(fs, Rule.path)
      <4>1. p \in New(start, Rule.path) /\ g[p] = "dir" /\ start[p] = "missing"
        BY <1>1, <3>2, NoMore, MadeAll DEF New
      <4>2. MadeBy(g, p, Rule)
        BY <4>1 DEF MadeBy, Absent, Nothing
      <4> QED
        BY <2>1, <4>2
    <3>3. CASE p \in Disturbed(fs, Rule) /\ g[p] \notin {"file", "notdir"}
      <4>1. p \in Disturbed(start, Rule) /\ start[p] \in Absent
        BY <3>3, NoMore DEF Disturbed
      <4>2. MadeBy(g, p, Rule)
        BY <3>3, <4>1 DEF MadeBy
      <4> QED
        BY <2>1, <4>2
    <3> QED
      BY <1>1, <3>1, <3>2, <3>3, MadeAll
  <2> QED
    BY <2>2 DEF Created
<1>6. ASSUME ~MkdirRefused(fs, Rule), NEW g \in Made(fs, Rule)
      PROVE  g[Rule.path] = "dir"
  <2>1. CASE fs[Rule.path] = "missing"
    BY <1>1, <1>2, <2>1, MadeAll DEF New
  <2>2. CASE fs[Rule.path] = "dir"
    <3>1. New(fs, Rule.path) = {} /\ fs[Rule.path] \notin Absent
      BY <2>2 DEF New, Absent, Nothing
    <3> QED
      BY <1>1, <1>2, <2>2, <3>1, MadeAll
  <2> QED
    BY <1>6, <2>1, <2>2 DEF MkdirRefused
<1> QED
  BY <1>4, <1>5, <1>6

(* buildFSRules up to the loop over the paths.                             *)
LEMMA VerdictBeginRule == IndInv /\ Comparable /\ Verdict /\ BeginRule => Verdict'
<1> SUFFICES ASSUME IndInv, Comparable, Verdict, BeginRule PROVE Verdict'
  OBVIOUS
<1>1. /\ pc = "rule" /\ UNCHANGED <<policy, abi, start, changes>> /\ batch = {}
      /\ CreatedSoFar /\ Passed /\ \A g \in grants : g \in Grant /\ Openable(g)
  BY DEF BeginRule, Verdict, Going, IndInv, InHand, TypeOK
<1>2. Created(fs, index)
  <2>1. \A k \in DOMAIN policy.fs : k <= index - 1 => k <= index
    BY Positions
  <2> QED
    BY <1>1, <2>1 DEF CreatedSoFar, Created
<1>3. CASE Rule.path = Empty
  <2>1. /\ fs' = fs
        /\ IF Rule.ignoreMissing THEN NextRule({}) ELSE Fail
    BY <1>3 DEF BeginRule
  <2>2. DryRule(start, Rule) <=> Rule.ignoreMissing
    BY <1>3 DEF DryRule
  <2>3. \A g \in grants : Openable(g)'
    BY <1>1, <2>1, StillOpenable
  <2>4. CASE Rule.ignoreMissing /\ NextRule({})
    BY <1>1, <1>2, <2>1, <2>2, <2>3, <2>4, Taken
  <2>5. CASE ~Rule.ignoreMissing /\ Fail
    BY <1>1, <2>2, <2>5, Rejected
  <2> QED
    BY <2>1, <2>4, <2>5
<1>4. CASE Rule.path # Empty
  <2> DEFINE err   == resolveError(fs', Rule.path)
             paths == resolvePath(fs', Rule.path)
  <2>1. CASE Rule.createDir /\ MkdirRefused(fs, Rule) /\ Fail
    BY <1>1, <1>4, <2>1, Mkdir, Rejected
  <2>2. CASE /\ Rule.createDir => ~MkdirRefused(fs, Rule)
             /\ fs' \in IF Rule.createDir THEN Made(fs, Rule) ELSE {fs}
             /\ \/ err # "none" /\ RuleError(err)
                \/ err = "none" /\ paths = {} /\ IF Rule.ignoreMissing THEN NextRule({}) ELSE Fail
                \/ /\ err = "none" /\ paths # {}
                   /\ pc' = "stat" /\ todo' = paths /\ UNCHANGED <<index, batch, grants>>
    <3>1. /\ Created(fs', index) /\ fs' \in [Path -> Kind]
          /\ Rule.createDir => fs'[Rule.path] = "dir"
      <4>1. CASE Rule.createDir
        BY <1>1, <1>4, <2>2, <4>1, Mkdir, Types, MadeAll
      <4>2. CASE ~Rule.createDir
        BY <1>2, <2>2, <4>2, Types
      <4> QED
        BY <4>1, <4>2
    <3>2. \A g \in grants : Openable(g)'
      <4>1. \A p \in Path : fs'[p] = fs[p] \/ fs[p] \in Absent
        BY <1>1, <1>4, <2>2, Types, MadeAll DEF Absent, Nothing
      <4> QED
        BY <1>1, <4>1, StillOpenable
    <3>3. /\ Judged(Rule, start)
          /\ DryRule(fs', Rule) <=> DryRule(start, Rule)
          /\ err = resolveError(start, Rule.path) /\ paths = resolvePath(start, Rule.path)
      BY <1>1, <1>4, <3>1, AtHand
    <3> HIDE DEF err, paths
    <3>4. CASE err # "none" /\ RuleError(err)
      <4>1. DryRule(fs', Rule) <=> Rule.ignoreMissing
        BY <1>4, <3>4 DEF DryRule, err
      <4>2. Rule.ignoreMissing => isPathError(err)
        <5>1. err \in {"none", "pattern", "ENOENT", "ENOTDIR", "EACCES"}
          <6>1. Rule.path \in Glob => fs'[Dir[Rule.path]] \in Kind
            BY <3>1, NamesAssumption
          <6> QED
            BY <6>1 DEF err, resolveError, StatError, Kind, Absent, Nothing
        <5> QED
          BY <3>3, <3>4, <5>1 DEF Judged, isPathError
      <4>3. CASE Rule.ignoreMissing
        BY <1>1, <3>1, <3>2, <3>3, <3>4, <4>1, <4>2, <4>3, Taken DEF RuleError
      <4>4. CASE ~Rule.ignoreMissing
        BY <1>1, <3>3, <3>4, <4>1, <4>4, Rejected DEF RuleError
      <4> QED
        BY <4>3, <4>4
    <3>5. CASE err = "none" /\ paths = {} /\ IF Rule.ignoreMissing THEN NextRule({}) ELSE Fail
      <4>1. DryRule(fs', Rule) <=> Rule.ignoreMissing
        BY <1>4, <3>5 DEF DryRule, err, paths
      <4>2. CASE Rule.ignoreMissing
        BY <1>1, <3>1, <3>2, <3>3, <3>5, <4>1, <4>2, Taken
      <4>3. CASE ~Rule.ignoreMissing
        BY <1>1, <3>3, <3>5, <4>1, <4>3, Rejected
      <4> QED
        BY <4>2, <4>3
    <3>6. CASE /\ err = "none" /\ pc' = "stat" /\ todo' = paths
               /\ UNCHANGED <<index, batch, grants>>
      <4>1. Rule' = Rule
        BY <1>1, <3>6 DEF Rule
      <4>2. CreatedSoFar' /\ Passed'
        BY <1>1, <3>1, <3>6 DEF CreatedSoFar, Created, MadeBy, Passed
      <4>3. Rule.createDir => Rule.path \notin Glob
        BY <3>3 DEF Judged
      <4>4. Examining'
        BY <1>4, <3>1, <3>6, <4>1, <4>3 DEF Examining, err, paths
      <4> QED
        BY <1>1, <3>2, <3>6, <4>2, <4>4 DEF Verdict, Going
    <3> QED
      BY <2>2, <3>4, <3>5, <3>6 DEF err, paths
  <2> QED
    BY <1>4, <2>1, <2>2 DEF BeginRule
<1> QED
  BY <1>3, <1>4

(* One turn of the loop.                                                   *)
LEMMA PathOpenable ==
  ASSUME NEW r \in FSRule, NEW kind \in {"file", "dir"}, NEW a \in Nat,
         ~fsRuleError(r, kind = "dir"), r.refer => kind # "file"
  PROVE  kind = "dir" \/ fsAccessSet(r, kind = "dir", a) \subseteq FileRight
<1> SUFFICES ASSUME kind = "file" PROVE fsAccessSet(r, FALSE, a) \subseteq FileRight
  OBVIOUS
<1>1. r.access \subseteq {"r", "w", "x", "u"} /\ ~r.refer
  BY DEF fsRuleError, FSRule, Flag
<1>2. ASSUME NEW f \in {"r", "w", "x", "u"}
      PROVE  FlagRights(f, FALSE, a) \subseteq FileRight
  BY DEF FlagRights, FileRight
<1> QED
  BY <1>1, <1>2 DEF fsAccessSet, FileRight

LEMMA VerdictStatPath == IndInv /\ Comparable /\ Verdict /\ StatPath => Verdict'
<1> SUFFICES ASSUME IndInv, Comparable, Verdict, StatPath PROVE Verdict'
  OBVIOUS
<1> DEFINE more(path) ==
      IF Found(fs[path])
      THEN {[path |-> path, rights |-> fsAccessSet(Rule, fs[path] = "dir", abi)]}
      ELSE {}
           paths == resolvePath(fs, Rule.path)
<1>1. /\ pc = "stat" /\ UNCHANGED <<policy, abi, fs, start, changes>> /\ todo \subseteq Path
      /\ Created(fs, index) /\ Passed /\ Examining /\ \A g \in grants \cup batch : Openable(g)
  BY DEF StatPath, Verdict, Going, CreatedSoFar, IndInv, TypeOK
<1>2. /\ Rule.path # Empty /\ resolveError(fs, Rule.path) = "none" /\ todo \subseteq paths
      /\ \A p \in paths \ todo : DryPath(Rule, fs[p])
      /\ Rule.createDir => Rule.path \notin Glob /\ fs[Rule.path] = "dir"
  BY <1>1 DEF Examining
<1>3. /\ Judged(Rule, start)
      /\ DryRule(fs, Rule) <=> DryRule(start, Rule)
      /\ resolveError(start, Rule.path) = "none" /\ resolvePath(start, Rule.path) = paths
  BY <1>1, <1>2, AtHand, Types
<1>4. PICK path \in todo :
        \/ /\ IF Found(fs[path]) THEN ~fsRuleError(Rule, fs[path] = "dir")
              ELSE Rule.ignoreMissing /\ StatError(fs[path]) = "ENOENT"
           /\ \/ IsLast(path) /\ NextRule(batch \cup more(path))
              \/ /\ ~IsLast(path) /\ todo' = todo \ {path} /\ batch' = batch \cup more(path)
                 /\ UNCHANGED <<pc, index, grants>>
        \/ Found(fs[path]) /\ fsRuleError(Rule, fs[path] = "dir") /\ Fail
        \/ /\ ~Found(fs[path]) /\ ~(Rule.ignoreMissing /\ StatError(fs[path]) = "ENOENT")
           /\ RuleError(StatError(fs[path]))
  BY DEF StatPath
<1>5. path \in Path /\ path \in paths /\ fs[path] \in Kind /\ Rule \in FSRule /\ abi \in Nat
  BY <1>1, <1>2, Types
<1>6. fs[path] \in {"file", "notdir"} => start[path] = fs[path]
  BY <1>1, <1>5 DEF Created, MadeBy
<1>7. path \in Examined(start, Rule.path)
  BY <1>3, <1>5 DEF Examined
<1>8. Rule.createDir => paths = {Rule.path} /\ path = Rule.path /\ fs[path] = "dir"
  BY <1>2, <1>5 DEF resolvePath
<1> HIDE DEF paths
(* The dry run accepts the rule if it accepts its paths, and only then.    *)
<1>9. ASSUME \A p \in paths : DryPath(Rule, fs[p])
      PROVE  DryRule(start, Rule)
  BY <1>2, <1>3, <1>5, <1>9 DEF DryRule, paths
<1>10. ASSUME ~DryPath(Rule, fs[path])
       PROVE  ~DryRule(start, Rule)
  <2>1. ~Rule.createDir
    BY <1>8, <1>10 DEF DryPath, Found, fsRuleError
  <2> QED
    BY <1>2, <1>3, <1>5, <1>10, <2>1 DEF DryRule, paths
<1>11. ASSUME IF Found(fs[path]) THEN ~fsRuleError(Rule, fs[path] = "dir")
              ELSE Rule.ignoreMissing /\ StatError(fs[path]) = "ENOENT"
       PROVE  /\ DryPath(Rule, fs[path])
              /\ \A g \in more(path) : Openable(g)
  <2>1. DryPath(Rule, fs[path])
    BY <1>8, <1>11 DEF DryPath
  <2>2. ASSUME Found(fs[path])
        PROVE  fs[path] = "dir" \/ fsAccessSet(Rule, fs[path] = "dir", abi) \subseteq FileRight
    <3>1. Rule.refer => fs[path] # "file"
      BY <1>3, <1>6, <1>7 DEF Judged
    <3>2. fs[path] \in {"file", "dir"} /\ ~fsRuleError(Rule, fs[path] = "dir")
      BY <1>11, <2>2 DEF Found
    <3> QED
      BY <1>5, <3>1, <3>2, PathOpenable
  <2>3. \A g \in more(path) : Openable(g)
    BY <2>2 DEF Openable
  <2> QED
    BY <2>1, <2>3
<1> HIDE DEF more
<1>12. CASE /\ IF Found(fs[path]) THEN ~fsRuleError(Rule, fs[path] = "dir")
               ELSE Rule.ignoreMissing /\ StatError(fs[path]) = "ENOENT"
            /\ IsLast(path) /\ NextRule(batch \cup more(path))
  <2>1. \A p \in paths : DryPath(Rule, fs[p])
    BY <1>2, <1>11, <1>12 DEF IsLast, paths
  <2>2. DryRule(start, Rule)
    BY <1>9, <2>1
  <2>3. \A g \in grants \cup (batch \cup more(path)) : Openable(g)'
    BY <1>1, <1>11, <1>12 DEF Openable
  <2>4. Created(fs', index)
    BY <1>1 DEF Created
  <2> QED
    BY <1>1, <1>12, <2>2, <2>3, <2>4, Taken
<1>13. CASE /\ IF Found(fs[path]) THEN ~fsRuleError(Rule, fs[path] = "dir")
               ELSE Rule.ignoreMissing /\ StatError(fs[path]) = "ENOENT"
            /\ ~IsLast(path) /\ todo' = todo \ {path} /\ batch' = batch \cup more(path)
            /\ UNCHANGED <<pc, index, grants>>
  <2>1. Rule' = Rule
    BY <1>1, <1>13 DEF Rule
  <2>2. CreatedSoFar' /\ Passed'
    BY <1>1, <1>13 DEF CreatedSoFar, Created, MadeBy, Passed
  <2>3. Examining'
    BY <1>1, <1>2, <1>11, <1>13, <2>1 DEF Examining, paths
  <2>4. \A g \in (grants \cup batch)' : Openable(g)'
    BY <1>1, <1>11, <1>13 DEF Openable
  <2> QED
    BY <1>1, <1>13, <2>2, <2>3, <2>4 DEF Verdict, Going
<1>14. CASE Found(fs[path]) /\ fsRuleError(Rule, fs[path] = "dir") /\ Fail
  <2>1. ~DryPath(Rule, fs[path])
    BY <1>14 DEF DryPath
  <2> QED
    BY <1>1, <1>10, <1>14, <2>1, Rejected
<1>15. CASE /\ ~Found(fs[path]) /\ ~(Rule.ignoreMissing /\ StatError(fs[path]) = "ENOENT")
            /\ RuleError(StatError(fs[path]))
  <2>1. ~(Rule.ignoreMissing /\ isPathError(StatError(fs[path])))
    <3>1. fs[path] = "notdir" => ~Rule.ignoreMissing
      BY <1>3, <1>6, <1>7 DEF Judged
    <3>2. StatError(fs[path]) = "ENOTDIR" => fs[path] = "notdir"
      BY <1>5, <1>15 DEF StatError, Found, Kind, Absent, Nothing
    <3> QED
      BY <1>15, <3>1, <3>2 DEF isPathError
  <2>2. Fail
    BY <1>15, <2>1 DEF RuleError
  <2>3. ~DryPath(Rule, fs[path])
    BY <1>15 DEF DryPath
  <2> QED
    BY <1>1, <1>10, <2>2, <2>3, Rejected
<1> QED
  BY <1>4, <1>12, <1>13, <1>14, <1>15

(* What Validate refuses the dry run refuses.                              *)
LEMMA VerdictBefore == IndInv /\ Comparable /\ Verdict /\ (Detect \/ Validate) => Verdict'
<1> SUFFICES ASSUME IndInv, Comparable, Verdict, Detect \/ Validate PROVE Verdict'
  OBVIOUS
<1>1. /\ UNCHANGED <<policy, abi, fs, start, changes>> /\ pc \in {"detect", "validate"}
      /\ CreatedSoFar /\ Passed /\ \A g \in grants \cup batch : Openable(g)
  BY DEF Detect, Validate, Verdict, Going
<1>2. CASE pc' \in {"validate", "restrict", "rule"} /\ UNCHANGED <<index, todo, batch, grants>>
  <2>1. CreatedSoFar' /\ Passed' /\ Examining'
    BY <1>1, <1>2 DEF CreatedSoFar, Created, MadeBy, Passed, Examining
  <2>2. \A g \in (grants \cup batch)' : Openable(g)'
    BY <1>1, <1>2 DEF Openable
  <2> QED
    BY <1>2, <2>1, <2>2 DEF Verdict, Going
<1>3. CASE Fail
  <2>1. abi >= 1 /\ abi \in Nat
    BY Types DEF Comparable
  <2>2. NetRefused(policy.net, abi) \/ IPCRefused(policy.ipc, abi)
    BY <1>3, <2>1 DEF Detect, Validate, Fail, ScopesRefused, IPCRefused, hasHardDeny
  <2> QED
    BY <1>1, <1>3, <2>2 DEF Verdict, Fail, DryRun
<1> QED
  BY <1>2, <1>3 DEF Detect, Validate

(* Once every rule has been taken the kernel refuses nothing.              *)
LEMMA NetHandled ==
  ASSUME IndInv, ~NetRefused(policy.net, abi), abi >= 1
  PROVE  /\ handledNet(policy.net, abi) \subseteq KernelNet(abi)
         /\ netGrants \subseteq handledNet(policy.net, abi)
<1>1. abi \in Nat /\ policy.net.allow => policy.net.rules = {}
  BY PolicyType, Types DEF IndInv, TypeOK
<1>2. handledNet(policy.net, abi) \subseteq KernelNet(abi)
  BY Types DEF handledNet, SupportsNet, SupportsUDP, MaxNetAccess, KernelNet, NetRight,
             Operation, Protocol
<1>3. ASSUME NEW r \in policy.net.rules
      PROVE  buildNetRules(r) \subseteq handledNet(policy.net, abi)
  <2>1. ~policy.net.allow /\ SupportsNet(abi) /\ (usesUDP(r) => SupportsUDP(abi))
    BY <1>1, <1>3, PolicyType DEF NetRefused, IndInv, TypeOK
  <2> QED
    BY <2>1 DEF buildNetRules, handledNet, MaxNetAccess, NetRight, Protocol
<1> QED
  BY <1>2, <1>3 DEF netGrants

LEMMA VerdictRestrictSelf ==
  ASSUME IndInv, Comparable, Verdict, RestrictSelf
  PROVE  Verdict'
<1>1. /\ pc = "restrict" /\ UNCHANGED <<policy, abi, fs, start, changes>>
      /\ CreatedSoFar /\ Passed /\ \A g \in grants \cup batch : Openable(g)
  BY DEF RestrictSelf, Verdict, Going
<1>2. abi \in Nat /\ abi >= 1 /\ ~NetRefused(policy.net, abi)
  BY <1>1, Types DEF IndInv, Checked
<1>3. MaxFSAccess(abi) \subseteq KernelFS(abi)
  BY <1>2, HandlesAll
<1>4. resolveScopes(policy.ipc, abi) \subseteq KernelScope(abi)
  BY <1>2 DEF resolveScopes, SupportsScoped, KernelScope, Scope
<1>5. \A g \in grants : Accepted(g)
  BY <1>1 DEF IndInv, Compatible, Accepted, Openable
<1>6. pc' = "restricted" /\ UNCHANGED <<index, todo, batch, grants>>
  BY <1>2, <1>3, <1>4, <1>5, NetHandled DEF RestrictSelf
<1>7. CreatedSoFar' /\ Passed' /\ Examining'
  BY <1>1, <1>6 DEF CreatedSoFar, Created, MadeBy, Passed, Examining
<1>8. \A g \in (grants \cup batch)' : Openable(g)'
  BY <1>1, <1>6 DEF Openable
<1> QED
  BY <1>6, <1>7, <1>8 DEF Verdict, Going

-----------------------------------------------------------------------------
LEMMA DryInit == Init => DryInv
<1> SUFFICES ASSUME Init PROVE DryInv
  OBVIOUS
<1>1. CreatedSoFar /\ Examining
  BY DEF Init, CreatedSoFar, Created, Examining
<1>2. Passed
  BY PolicyType, PoliciesAssumption DEF Init, Passed
<1> QED
  BY <1>1, <1>2 DEF Init, DryInv, Verdict, Going

LEMMA DryEnd ==
  ASSUME IndInv, DryInv, [Next]_vars
  PROVE  (pc \in {"restrict", "restricted"} => index > Len(policy.fs))'
<1>1. CASE UNCHANGED vars
  BY <1>1 DEF vars, DryInv
<1>2. CASE Change
  BY <1>2 DEF Change, DryInv
<1>3. CASE Validate
  BY <1>3 DEF Validate, Fail, IndInv, InHand
<1>4. CASE Detect \/ RestrictSelf
  BY <1>4 DEF Detect, RestrictSelf, Fail, DryInv
<1>5. CASE BeginRule \/ StatPath
  <2>1. policy' = policy /\ pc \in {"rule", "stat"}
    BY <1>5 DEF BeginRule, StatPath
  <2>2. \/ pc' \in {"stat", "failed"}
        \/ \E new : NextRule(new)
    <3>1. CASE BeginRule
      BY <3>1 DEF BeginRule, RuleError, Fail
    <3>2. CASE StatPath
      BY <2>1, <3>2 DEF StatPath, RuleError, Fail
    <3> QED
      BY <1>5, <3>1, <3>2
  <2>3. ASSUME NEW new, NextRule(new), pc' = "restrict"
        PROVE  index' > Len(policy.fs)
    BY <2>3, Positions DEF NextRule
  <2>4. (\E new : NextRule(new)) => pc' \in {"rule", "restrict"}
    BY DEF NextRule
  <2> QED
    BY <2>1, <2>2, <2>3, <2>4
<1> QED
  BY <1>1, <1>2, <1>3, <1>4, <1>5 DEF Next, Enforce

LEMMA DryStep == IndInv /\ DryInv /\ [Next]_vars => DryInv'
<1> SUFFICES ASSUME IndInv, DryInv, [Next]_vars PROVE DryInv'
  OBVIOUS
<1>1. ASSUME Enforce, (changes = 0)', Comparable'
      PROVE  Verdict'
  <2>1. changes = 0 /\ UNCHANGED <<policy, abi, start>>
    BY <1>1 DEF Enforce, Detect, Validate, BeginRule, StatPath, RestrictSelf
  <2>2. Comparable
    BY <1>1, <2>1 DEF Comparable
  <2> QED
    BY <1>1, <2>1, <2>2, VerdictBefore, VerdictBeginRule, VerdictStatPath, VerdictRestrictSelf
    DEF Enforce, DryInv
<1>2. ASSUME Change
      PROVE  (changes # 0)'
  BY <1>2, KernelAssumption DEF Change, IndInv, TypeOK
<1>3. ASSUME UNCHANGED vars, (changes = 0)', Comparable'
      PROVE  Verdict'
  BY <1>3 DEF vars, DryInv, Verdict, Going, CreatedSoFar, Created, MadeBy, Passed, Examining, Rule,
              Openable, Comparable, DryRun
<1> QED
  BY <1>1, <1>2, <1>3, DryEnd DEF Next, DryInv

(* DryRun and Enforce: with the exceptions of Comparable the dry run        *)
(* accepts exactly the policies that can be enforced on the filesystem as   *)
(* it is, if nobody changes it meanwhile.                                   *)
THEOREM DryRunAgreesAlways == Spec => []DryRunAgrees
<1>1. IndInv /\ DryInv => DryRunAgrees
  <2> SUFFICES ASSUME IndInv, changes = 0, pc \in {"restricted", "failed"}, Comparable,
                      Verdict, pc = "restricted" => index > Len(policy.fs)
               PROVE  pc = "restricted" <=> DryRun(start)
    BY DEF DryRunAgrees, DryInv
  <2>1. CASE pc = "failed"
    BY <2>1 DEF Verdict
  <2>2. CASE pc = "restricted"
    <3>1. \A i \in DOMAIN policy.fs : DryRule(start, policy.fs[i])
      BY <2>2, Positions DEF Verdict, Going, Passed
    <3>2. ~NetRefused(policy.net, abi) /\ ~IPCRefused(policy.ipc, abi)
      BY <2>2 DEF IndInv, Checked
    <3> QED
      BY <2>2, <3>1, <3>2 DEF DryRun
  <2> QED
    BY <2>1, <2>2
<1> QED
  BY <1>1, Inductive, DryInit, DryStep, PTL DEF Spec
=============================================================================
