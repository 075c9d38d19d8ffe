----------------------------- MODULE MCTemplate -----------------------------
(* Instances of Template for TLC.                                          *)
EXTENDS Template

T1 == <<1>>    \* a string of one token
A  == <<7>>    \* the variables a and b
B  == <<8>>

Name(n)       == [op |-> "name", name |-> n]
Lit(v)        == [op |-> "literal", val |-> v]
VarA          == [op |-> "attr", term |-> Name("var"), attr |-> A]
VarB          == [op |-> "item", term |-> Name("var"), key |-> Lit(Str(B))]
Bin(s, l, r)  == [op |-> "binary", sign |-> s, left |-> l, right |-> r]
Test(t, e)    == [op |-> "test", test |-> t, term |-> e, args |-> <<>>]
Not(e)        == [op |-> "not", term |-> e]
Items(es)     == [op |-> "list", items |-> es]
Filtered(e)   == [op |-> "filter", term |-> e]
Fn(f, args)   == [op |-> "call", func |-> f, args |-> args]
Upward        == Fn("find_upward", <<Name("pwd"), Lit(Str(<<3>>))>>)

Data          == [kind |-> "data", text |-> <<Str(T1)>>]
Output(e)     == [kind |-> "output", expr |-> e, condition |-> <<>>]
Set(n, e)     == [kind |-> "set", name |-> n, expr |-> e]
If(c, b, o)   == [kind |-> "if", conditions |-> <<c>>, wrappers |-> <<b>>, otherwise |-> o]
Elif(c, b, d, w, o) ==
  [kind |-> "if", conditions |-> <<c, d>>, wrappers |-> <<b, w>>, otherwise |-> o]
For(k, e, b, o) == [kind |-> "for", key |-> k, iter |-> e, body |-> b, otherwise |-> o]

One == Lit(Int_(1))
Two == Lit(Int_(2))

Conditions ==
  { Test("defined", VarA), Not(VarB), Bin("==", Name("x"), One),
    Bin("and", VarA, VarB), Test("defined", Upward) }
Lists == { Items(<<One, Name("x")>>), Items(<<>>), Name("nobody"), VarB }

Leaves ==
  { Data, Output(Name("x")), Output(Bin("or", VarA, Lit(Str(T1)))),
    Set("x", Two), Set("y", Name("x")), Set("x", VarB) }
Brief == { <<l>> : l \in Leaves }

(* Every if, elif and loop over one leaf each, and an if in a loop or a     *)
(* loop in a loop with what surrounds it.                                   *)
Ifs    == { If(c, b, <<>>)   : c \in Conditions, b \in Brief } \cup
          { If(c, <<Data>>, o) : c \in Conditions, o \in Brief } \cup
          { If(c, <<Output(Filtered(One))>>, <<>>) : c \in Conditions } \cup
          { Elif(c, <<Data>>, d, b, <<Output(Name("y"))>>) :
              c \in Conditions, d \in Conditions, b \in Brief }
Loops  == { For(k, e, b \o c, <<Set("x", VarA)>>) :
              k \in {"x", "y"}, e \in Lists, b \in Brief, c \in Brief }
Nested == { For("y", Items(<<One, Two>>), <<n>> \o b, <<>>) :
              b \in Brief,
              n \in { i \in Ifs : Len(i.conditions) = 1 } \cup
                    { For("x", Items(<<Name("y"), One>>), b, <<>>) : b \in Brief } }

Templates ==
  { <<Set("x", One), n, Output(Name("x"))>> : n \in Ifs \cup Loops \cup Nested }

(* One template for every kind of expression, alone.                        *)
Values == { Int_(1), Int_(0), Str(T1), Bool(TRUE), Nil }
Lone ==
  { <<Output(Bin(s, Lit(v), Lit(w)))>> :
      s \in {"==", "!=", "<", ">", "<=", ">=", "+", "-", "*", "/", "in", "%"},
      v \in Values, w \in Values } \cup
  { <<Output(e)>> :
      e \in { Bin("==", Items(<<One>>), Items(<<One>>)), Bin("in", One, Items(<<Two, One>>)),
              Bin("==", Bin("/", Two, Two), One), Bin("<=", Bin("/", One, Two), One),
              Bin("in", Items(<<One>>), Items(<<One, Items(<<One>>)>>)),
              [op |-> "item", term |-> Items(<<One, Two>>), key |-> One],
              [op |-> "minus", term |-> Bin("/", One, Two)], [op |-> "minus", term |-> One],
              [op |-> "test", test |-> "in", term |-> One, args |-> <<Items(<<One>>)>>],
              Test("true", Lit(Bool(TRUE))), Test("false", One), Test("odd", One),
              Fn("exists", <<Name("pwd")>>), Fn("is_dir", <<Lit(Str(<<0, 1>>))>>),
              Fn("is_file", <<One>>), Fn("is_file", <<>>), Fn("missing", <<>>),
              Fn("find_upward", <<Name("pwd")>>), Filtered(One), Upward } }

VarMaps == { v : v \in UNION { [D -> {Str(<<>>), Str(T1)}] : D \in SUBSET {A, B} } }

(* /, /1 and /1/2, with the marker 3 anywhere, and the working directory    *)
(* /1/2.                                                                    *)
Dirs == { <<0>>, <<0, 1>>, <<0, 1, 2>> }
Trees == { [p \in Dirs \cup { d \o <<3>> : d \in M } |->
              IF p \in Dirs THEN "dir" ELSE kind] :
             M \in SUBSET Dirs, kind \in {"file", "dangling"} }
Bare == CHOOSE t \in Trees : DOMAIN t = Dirs

Context == [home |-> Str(<<0, 1>>), pwd |-> Str(<<0, 1, 2>>), env |-> Map(<<>>),
            var |-> Map(<<>>)]

World(nodes, required, optional, files) ==
  [source |-> Source(nodes), required |-> required, optional |-> optional, files |-> files,
   ctx |-> Context]

(* Every sequence of a few tags, balanced or not.                           *)
Tags == { Data, Tag("if", <<One>>), Tag("elif", <<One>>), Tag("else", <<>>), Tag("endif", <<>>),
          Named(Tag("for", <<Items(<<>>)>>), "x"), Tag("endfor", <<>>), Tag("macro", <<>>),
          Tag("raw", <<>>), Tag("endraw", <<>>), Junk(Tag("if", <<One>>)), Junk(Tag("else", <<>>)),
          Junk(Tag("endif", <<>>)), Junk(Tag("raw", <<>>)), Junk(Tag("endraw", <<>>)) }
Balance == UNION { [1 .. n -> Tags] : n \in 1 .. 3 } \cup
  { <<Tag("if", <<One>>)>> \o s : s \in [1 .. 3 -> Tags \ {Tag("macro", <<>>)}] }
MCWorlds ==
  { [World(<<>>, <<>>, <<>>, Bare) EXCEPT !.source = s] : s \in Balance } \cup
  { World(t, r, o, Bare) : t \in Templates, r \in { v \in VarMaps : B \notin DOMAIN v },
                           o \in { v \in VarMaps : A \notin DOMAIN v } } \cup
  { World(t, <<>>, <<>>, Bare) : t \in Lone } \cup
  { World(<<[Output(One) EXCEPT !.condition = <<VarA>>]>>, r, <<>>, Bare) : r \in VarMaps } \cup
  { World(<<Set("d", Upward), If(Test("defined", Name("d")), <<Output(Name("d"))>>, <<Data>>)>>,
          <<>>, <<>>, f) : f \in Trees }
=============================================================================
