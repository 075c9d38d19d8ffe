--------------------------- MODULE MCInheritance ---------------------------
(* Instances of Inheritance for TLC.                                       *)
EXTENDS Inheritance

MCChar     == {"a", "b", ":", ";"}
MCName     == {"PATH", "V", "POLICY", "SETUP_FD", "DYLD"}
MCPlumbing == {"SETUP_FD"}
MCDyld     == {"DYLD"}

-----------------------------------------------------------------------------
(* Environments: each variable set, empty or not there.                    *)
A == <<"a">>
B == <<"b">>
Paths == {A, A \o <<":">> \o B, B \o <<";">> \o A, <<":">>}

Entry == [unset |-> FALSE, value |-> {}, prepend |-> <<>>, append |-> <<>>,
          remove |-> <<>>, sep |-> ":"]
Edits ==
  { [Entry EXCEPT !.prepend = p, !.append = a, !.remove = r, !.sep = s] :
      p \in {<<>>, <<A, B>>}, a \in {<<>>, <<B, A>>, <<A \o <<":">> \o B>>}, r \in {<<>>, <<A>>, <<B, <<>>>>},
      s \in {":", ";"} }
Others == { [Entry EXCEPT !.unset = TRUE], [Entry EXCEPT !.value = {B}] }

Unset == [n \in MCName |-> {}]

EnvCases ==
  { [env |-> [Unset EXCEPT !["PATH"] = v], entries |-> [n \in {"PATH"} |-> e]] :
      v \in { {p} : p \in Paths } \cup {{}, {<<>>}}, e \in Edits } \cup
  { [env |-> [n \in MCName |-> {A}], entries |-> f] :
      f \in UNION { [D -> Others \cup {[Entry EXCEPT !.append = <<B>>]}] :
                      D \in { S \in SUBSET MCName : Cardinality(S) <= 3 } } }

-----------------------------------------------------------------------------
(* Descriptors: 0 to 2 open, any of 3 to 6 closed, open or close-on-exec.  *)
Usual == <<"in", "out", "err", "d3", "d4", "d5", "d6">>
States == [3 .. 6 -> {"closed", "open", "cloexec"}]
Table(state, limit) ==
  [fd \in 0 .. limit - 1 |->
     IF fd > 6 \/ (fd > 2 /\ state[fd] = "closed") THEN Closed
     ELSE [file |-> Usual[fd + 1], cloexec |-> fd > 2 /\ state[fd] = "cloexec"]]

MCLaunches ==
  { [env |-> Unset, entries |-> <<>>, table |-> t, proc |-> p, forks |-> TRUE, darwin |-> FALSE] :
      t \in { Table(s, l) : s \in States, l \in {8, 11, 13, 16} }, p \in BOOLEAN } \cup
  { [env |-> c.env, entries |-> c.entries,
     table |-> Table([fd \in 3 .. 6 |-> "open"], 16),
     proc |-> TRUE, forks |-> how = "fork", darwin |-> how = "darwin"] :
      c \in EnvCases, how \in {"fork", "exec", "darwin"} }
=============================================================================
