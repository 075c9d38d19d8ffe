----------------------------- MODULE MCSeatbelt -----------------------------
(* Instances of Seatbelt for TLC.  A root with a directory, a file in it,   *)
(* and symlinks: to the directory, through another link, up through "..",   *)
(* to itself and to nothing.                                                *)
EXTENDS Seatbelt

Plain(kind)      == [kind |-> kind, abs |-> FALSE, target |-> <<>>]
To(abs, target)  == [kind |-> "link", abs |-> abs, target |-> target]

Base ==
  (<<>> :> Plain("dir")) @@ (<<"d">> :> Plain("dir")) @@ (<<"d", "f">> :> Plain("file"))
    @@ (<<"e">> :> Plain("dir")) @@ (<<"e", "g">> :> Plain("file"))

(* Two links in the root and one in the directory, wherever they lead.      *)
RootTargets == { To(TRUE, <<"d">>), To(FALSE, <<"l">>), To(FALSE, <<"d", "m">>), To(FALSE, <<"no">>) }
DirTargets  == { To(FALSE, <<"..", "e">>), To(FALSE, <<"..", "l", "f">>), To(TRUE, <<"k">>) }
MCTrees ==
  { Base @@ (<<"l">> :> l) @@ (<<"k">> :> k) @@ (<<"d", "m">> :> m) :
      l \in RootTargets, k \in RootTargets, m \in DirTargets }

MCCwd  == <<"d">>
MCPwd  == <<"l">>  \* the directory, in some of the trees
MCName == {"*", "d", "e", "f", "g", "k", "l", "m", "new", "no", "sub"}

-----------------------------------------------------------------------------
Path(abs, parts) == [abs |-> abs, parts |-> parts]
FS(path, access, ignoreMissing) ==
  [path |-> path, access |-> access, ioctlDev |-> FALSE, ignoreMissing |-> ignoreMissing,
   createDir |-> FALSE]

MCPaths ==
  { Path(TRUE, <<"l">>), Path(TRUE, <<"k", "f">>), Path(FALSE, <<"m">>),
    Path(FALSE, <<"..", "l", "m", "g">>), Path(TRUE, <<"d", "m", "..", "d">>),
    Path(TRUE, <<"l", "*">>), Path(FALSE, <<"*">>), Path(TRUE, <<"*", "f">>),
    Path(FALSE, <<>>) }
MCRules ==
  { FS(p, a, i) : p \in MCPaths, a \in {{"r", "u"}, {"x", "c", "d"}}, i \in BOOLEAN }

(* Directories to be made: under a link, next to a file, below a missing    *)
(* one.                                                                     *)
Created ==
  { [FS(p, {"w", "c"}, FALSE) EXCEPT !.createDir = TRUE] :
      p \in { Path(TRUE, <<"l", "new">>), Path(FALSE, <<"f", "new">>),
              Path(TRUE, <<"no", "..", "new", "sub">>), Path(TRUE, <<"k">>) } }

NoNet    == [allow |-> FALSE, rules |-> <<>>]
AllowNet == [allow |-> TRUE, rules |-> <<>>]
NetRules == [access : {"connect", "bind", "connect+bind"}, proto : {"", "udp", "any"}, port : {0, 80}]
Nets     == { AllowNet, NoNet } \cup [allow : {FALSE}, rules : { <<r>> : r \in NetRules }]
              \cup [allow : {FALSE}, rules : { <<r, q>> : r, q \in { x \in NetRules : x.proto # "any" } }]

MCPolicies ==
  [fs : { <<r, q>> : r \in MCRules \cup Created, q \in { r \in MCRules : r.ignoreMissing /\ "r" \in r.access } }, net : {NoNet}]
    \cup [fs : { <<FS(Path(TRUE, <<"d">>), {"r"}, FALSE)>> }, net : Nets]

(* What the theorems about Seatbelt assume.                                 *)
ASSUME InstanceClean == PatternsClean
=============================================================================
