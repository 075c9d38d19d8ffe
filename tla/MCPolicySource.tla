--------------------------- MODULE MCPolicySource ---------------------------
(* Instances of PolicySource for TLC.                                      *)
EXTENDS PolicySource

MCPath        == {"/p", "/q"}
MCFilesystems == [MCPath -> Kind]
MCBin         == "/bin/sh"
MCUtf8        == MCPath \cup {MCBin, ""}

-----------------------------------------------------------------------------
(* Command lines.                                                          *)
Plain == [policy |-> "none", fromEnv |-> FALSE, fromStdin |-> FALSE, vars |-> <<>>,
          optional |-> <<>>, ro |-> <<>>, rw |-> <<>>, dryRun |-> FALSE,
          expand |-> FALSE, cmd |-> TRUE, stray |-> FALSE]

(* Every choice of sources, with and without variables and path flags, in  *)
(* every mode.                                                             *)
Sources ==
  { [Plain EXCEPT !.policy = p, !.fromEnv = e, !.fromStdin = s, !.vars = v, !.optional = o] :
      p \in {"none", "json", "template", "other"}, e \in BOOLEAN, s \in BOOLEAN,
      v \in {<<>>, <<"a">>, <<"a", "a">>, <<"">>}, o \in {<<>>, <<"a">>, <<"b">>} }

Flagged ==
  { [Plain EXCEPT !.policy = p, !.ro = r, !.rw = w] :
      p \in {"none", "json"}, r \in {<<>>, <<"/p">>}, w \in {<<"/p">>, <<"/q", "/p">>} }

MCRequests ==
  { [r EXCEPT !.dryRun = d, !.expand = x, !.cmd = c] :
      r \in Sources \cup { [Plain EXCEPT !.policy = "json", !.ro = <<"/q">>] },
      d \in BOOLEAN, x \in BOOLEAN, c \in BOOLEAN }
  \cup Flagged \cup { [Plain EXCEPT !.stray = TRUE] }

-----------------------------------------------------------------------------
(* Documents: one that is plain, and one or two for everything that can be *)
(* written in one.                                                         *)
Rule == [path |-> "/p", access |-> {"r"}, refer |-> FALSE, ioctlDev |-> FALSE,
         ignoreMissing |-> FALSE, createDir |-> <<>>]
Doc  == [name |-> "n", unshare |-> {}, fs |-> <<Rule>>, ipc |-> {}, env |-> <<>>, net |-> JNull]

Port(access, proto) == [access |-> access, proto |-> proto]
Fields(D) == [D -> {JNull, JString("x"), JArray(<<>>), JArray(<<"x", "y">>)}]

Entries ==
  {JNull, JString(""), JString("v"), JArray(<<>>)} \cup
  { JObject(f) : f \in UNION { Fields(D) : D \in {{}, {"prepend"}, {"append", "remove"}} } } \cup
  { JObject("append" :> JString("x") @@ "sep" :> s) :
      s \in {JNull, JString(""), JString(":"), JString(";"), JArray(<<>>)} }

MCDocuments ==
  { Doc } \cup
  { [Doc EXCEPT !.name = ""] } \cup
  { [Doc EXCEPT !.unshare = {u}] :
      u \in {{}, {"pid"}, {"mount_proc"}, {"pid", "mount_proc", "user", "cgroup"}} } \cup
  { [Doc EXCEPT !.env = "V" :> e] : e \in Entries } \cup
  { [Doc EXCEPT !.env = "V" :> JString("v") @@ n :> JNull] : n \in {"", "W"} } \cup
  { [Doc EXCEPT !.fs = <<Rule, r>>] :
      r \in { [Rule EXCEPT !.path = ""], [Rule EXCEPT !.access = {}],
              [Rule EXCEPT !.access = {"r", "w", "c"}], [Rule EXCEPT !.access = {"r", "q"}] } \cup
            { [Rule EXCEPT !.createDir = s, !.ignoreMissing = b] :
                s \in UNION { [1 .. n -> {0, 1, 7, 8}] : n \in 1 .. 3 } \cup {<<1, 0, 0, 5>>},
                b \in {FALSE} } \cup
            { [Rule EXCEPT !.createDir = <<7>>, !.ignoreMissing = TRUE] } } \cup
  { [Doc EXCEPT !.net = n] :
      n \in {JString("allow"), JString("deny"), JString("none"), JArray(<<>>),
             JArray(<<Port("connect", ""), Port("connect+bind", "any")>>),
             JArray(<<Port("", "tcp")>>), JArray(<<Port("bind", "sctp")>>)} } \cup
  { [Doc EXCEPT !.ipc = {[abstract |-> a, signal |-> s]}] :
      a \in {"", "deny", "permit"}, s \in {"", "allow"} }
=============================================================================
