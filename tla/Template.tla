------------------------------ MODULE Template ------------------------------
(* Policy templates: internal/template parses the tags to a syntax tree,    *)
(* RenderTemplate checks the variables and the evaluator walks the tree.    *)
(* The recursion of renderNodes is a stack of frames, one for the template  *)
(* and one for each loop being run; an if runs in the frame around it.  A   *)
(* context is a Go map, shared by whoever holds it: a frame has the index   *)
(* of its context in scopes.  Recursion over expressions is RECURSIVE, so   *)
(* that this module has no theorems.                                        *)
(*                                                                          *)
(* A string is a sequence of tokens.  In a path the token 0 is the root and *)
(* every other one a name, so that joining paths is \o.  Numbers are small: *)
(* the model has no loss of precision beyond 2^53.                          *)
EXTENDS Integers, Sequences, SequencesExt, FiniteSetsExt, Functions

CONSTANTS
  Worlds    \* what a rendering starts from: [source, required, optional, files, ctx]

VARIABLES
  world,    \* the template, the variables given, the files, the built-in context
  phase,    \* "parse", "check", "render", or how it ended: "done", "error", "panic"
  tree,     \* the template's nodes
  stack,    \* frames: [todo, scope, items, loop]
  scopes,   \* contexts by index
  out       \* what has been written, value by value

vars == <<world, phase, tree, stack, scopes, out>>

-----------------------------------------------------------------------------
(* Values: nil, bool, int, float64, string, []any and map[string]any.       *)

Nil      == [nil |-> TRUE]
Bool(b)  == [bool |-> b]
Int_(n)  == [int |-> n]
Str(s)   == [str |-> s]
List(vs) == [list |-> vs]
Map(f)   == [map |-> f]
Failed   == [fail |-> "error"]
Panicked == [fail |-> "panic"]

Is(type, v) == type \in DOMAIN v
IsNumber(v) == Is("int", v) \/ Is("float", v)
toFloat(v)  == IF Is("int", v) THEN <<v.int, 1>> ELSE v.float

(* A float64 is a reduced fraction with a positive denominator.             *)
Abs(n) == IF n < 0 THEN -n ELSE n
Float(n, d) ==
  LET by == Max({ k \in 1 .. Abs(d) : n % k = 0 /\ d % k = 0 })
  IN  [float |-> IF d < 0 THEN <<(-n) \div by, (-d) \div by>>
                 ELSE <<n \div by, d \div by>>]

isTruthy(v) ==
  CASE Is("nil", v)   -> FALSE
    [] Is("bool", v)  -> v.bool
    [] Is("int", v)   -> v.int # 0
    [] Is("float", v) -> v.float[1] # 0
    [] Is("str", v)   -> v.str # <<>>
    [] Is("list", v)  -> v.list # <<>>
    [] Is("map", v)   -> DOMAIN v.map # {}

(* m[k] of a Go map: nil for what is not there.                             *)
At(f, k) == IF k \in DOMAIN f THEN f[k] ELSE Nil

(* == on interface values: types are compared first; two slices or two maps *)
(* panic.                                                                   *)
Uncomparable(l, r) == \E type \in {"list", "map"} : Is(type, l) /\ Is(type, r)
Equal(l, r)   == IF Uncomparable(l, r) THEN Panicked ELSE Bool(l = r)
Unequal(l, r) == IF Uncomparable(l, r) THEN Panicked ELSE Bool(l # r)

StrLess(s, t) ==
  \E i \in 1 .. Len(t) :
    /\ i <= Len(s) + 1
    /\ SubSeq(s, 1, i - 1) = SubSeq(t, 1, i - 1)
    /\ i = Len(s) + 1 \/ s[i] < t[i]

compareOrdered(l, r, sign) ==
  LET a == toFloat(l)
      b == toFloat(r)
      less  == IF IsNumber(l) THEN a[1] * b[2] < b[1] * a[2] ELSE StrLess(l.str, r.str)
      equal == IF IsNumber(l) THEN a = b ELSE l = r
  IN  IF ~(IsNumber(l) /\ IsNumber(r)) /\ ~(Is("str", l) /\ Is("str", r)) THEN Bool(FALSE)
      ELSE Bool(CASE sign = "<"  -> less
                  [] sign = "<=" -> less \/ equal
                  [] sign = ">"  -> ~less /\ ~equal
                  [] sign = ">=" -> ~less)

Arithmetic(l, r, sign) ==
  LET a == toFloat(l)
      b == toFloat(r)
      whole == Is("int", l) /\ Is("int", r)
      Num(n, d) == IF whole THEN Int_(n) ELSE Float(n, d)
  IN  IF sign = "+" /\ Is("str", l) /\ Is("str", r) THEN Str(l.str \o r.str)
      ELSE IF ~IsNumber(l) \/ ~IsNumber(r) \/ (sign = "/" /\ b[1] = 0) THEN Failed
      ELSE CASE sign = "+" -> Num(a[1] * b[2] + b[1] * a[2], a[2] * b[2])
             [] sign = "-" -> Num(a[1] * b[2] - b[1] * a[2], a[2] * b[2])
             [] sign = "*" -> Num(a[1] * b[1], a[2] * b[2])
             [] sign = "/" -> Float(a[1] * b[2], a[2] * b[1])

containsValue(container, item) ==
  CASE Is("list", container) ->
         IF \E i \in DOMAIN container.list : Uncomparable(container.list[i], item)
         THEN Panicked
         ELSE Bool(\E i \in DOMAIN container.list : container.list[i] = item)
    [] Is("str", container) /\ Is("str", item) ->
         Bool(\E i \in 0 .. Len(container.str) - Len(item.str) :
                SubSeq(container.str, i + 1, i + Len(item.str)) = item.str)
    [] Is("map", container) /\ Is("str", item) -> Bool(item.str \in DOMAIN container.map)
    [] OTHER -> Bool(FALSE)

-----------------------------------------------------------------------------
(* The functions of policy/template.go.  files says what each path is; exists *)
(* does not follow a symlink, is_dir and is_file do.                        *)

Exists(p) == p \in DOMAIN world.files
Parent(p) == IF Len(p) <= 1 THEN p ELSE Front(p)

RECURSIVE FindUpward(_, _)
FindUpwardBug(dir, markers) ==
  IF Parent(dir) = dir THEN Nil
  ELSE IF \E i \in DOMAIN markers : Exists(dir \o markers[i].str) THEN Str(dir)
  ELSE FindUpward(Parent(dir), markers)
FindUpward(dir, markers) ==
  IF \E i \in DOMAIN markers : Exists(dir \o markers[i].str) THEN Str(dir)
  ELSE IF Parent(dir) = dir THEN Nil
  ELSE FindUpward(Parent(dir), markers)

Call(f, args) ==
  LET path == args[1].str
      OnPath(kinds) ==
        IF Len(args) # 1 THEN Failed
        ELSE Bool(Is("str", args[1]) /\ Exists(path) /\ world.files[path] \in kinds)
  IN  CASE f = "exists"  -> OnPath({"dir", "linked dir", "file", "dangling"})
        [] f = "is_dir"  -> OnPath({"dir", "linked dir"})
        [] f = "is_file" -> OnPath({"file"})
        [] f = "find_upward" ->
             IF Len(args) < 2 THEN Failed
             ELSE IF ~Is("str", args[1]) THEN Nil
             ELSE IF \E i \in 2 .. Len(args) : ~Is("str", args[i]) THEN Failed
             ELSE FindUpward(path, Tail(args))
        [] OTHER -> Failed

-----------------------------------------------------------------------------
(* Expressions.  A dotted Variable of the parser is the chain of attributes *)
(* that it stands for.                                                      *)

RECURSIVE Eval(_, _)

EvalTest(e, v, ctx) ==
  CASE e.test = "defined"               -> Bool(v # Nil)
    [] e.test \in {"undefined", "none"} -> Bool(v = Nil)
    [] e.test = "true"                  -> Bool(v = Bool(TRUE))
    [] e.test = "false"                 -> Bool(v = Bool(FALSE))
    [] e.test = "in" ->
         IF e.args = <<>> THEN Bool(FALSE)
         ELSE LET c == Eval(e.args[1], ctx)
              IN  IF Is("fail", c) THEN c ELSE containsValue(c, v)
    [] OTHER -> Failed

ShortCuts(sign, left) ==
  (sign = "and" /\ ~isTruthy(left)) \/ (sign = "or" /\ isTruthy(left))

EvalBinary(e, ctx) ==
  LET l == Eval(e.left, ctx)
      r == Eval(e.right, ctx)
  IN  IF Is("fail", l) \/ ShortCuts(e.sign, l) THEN l
      ELSE IF e.sign \in {"and", "or"} \/ Is("fail", r) THEN r
      ELSE CASE e.sign = "=="                     -> Equal(l, r)
             [] e.sign = "!="                     -> Unequal(l, r)
             [] e.sign \in {"<", ">", "<=", ">="} -> compareOrdered(l, r, e.sign)
             [] e.sign \in {"+", "-", "*", "/"}   -> Arithmetic(l, r, e.sign)
             [] e.sign = "in"                     -> containsValue(r, l)
             [] OTHER                             -> Failed

(* The first failure among vs, or what is made of them all.                 *)
OrFailure(vs, Made(_)) ==
  LET failing == { i \in DOMAIN vs : Is("fail", vs[i]) }
  IN  IF failing = {} THEN Made(vs) ELSE vs[Min(failing)]

GetItem(vs) ==
  LET of == vs[1]
      key == vs[2]
  IN  CASE Is("map", of) -> At(of.map, IF Is("str", key) THEN key.str ELSE <<>>)
        [] Is("list", of) /\ Is("int", key) /\ key.int + 1 \in DOMAIN of.list ->
             of.list[key.int + 1]
        [] OTHER -> Nil

Eval(e, ctx) ==
  LET All(es)  == [i \in DOMAIN es |-> Eval(es[i], ctx)]
      On(F(_)) == OrFailure(<<Eval(e.term, ctx)>>, LAMBDA vs : F(vs[1]))
  IN  CASE e.op = "literal" -> e.val
        [] e.op = "name"    -> At(ctx, e.name)
        [] e.op = "attr"    ->
             On(LAMBDA v : IF Is("map", v) THEN At(v.map, e.attr) ELSE Nil)
        [] e.op = "item"    -> OrFailure(All(<<e.term, e.key>>), GetItem)
        [] e.op = "call"    -> OrFailure(All(e.args), LAMBDA vs : Call(e.func, vs))
        [] e.op = "not"     -> On(LAMBDA v : Bool(~isTruthy(v)))
        [] e.op = "minus"   ->
             On(LAMBDA v : CASE Is("int", v)   -> Int_(-v.int)
                             [] Is("float", v) -> Float(-v.float[1], v.float[2])
                             [] OTHER          -> v)
        [] e.op = "binary"  -> EvalBinary(e, ctx)
        [] e.op = "list"    -> OrFailure(All(e.items), List)
        [] e.op = "filter"  -> Failed
        [] e.op = "test"    -> On(LAMBDA v : EvalTest(e, v, ctx))

-----------------------------------------------------------------------------
(* The parser.  The source is data, outputs and tags; a tag has in expr the *)
(* expression that could be made of its arguments, if any, and in junk      *)
(* whether something follows.  What is parsed is a set of at most one       *)
(* [node, rest], and what WrapUntil makes of the source up to one of the    *)
(* tags in ends a set of at most one [nodes, end, rest].  An unknown tag is *)
(* an error, and so is any closing tag that nobody waits for.               *)

(* tagArgs.End() is false.                                                  *)
MisplacedArgsBug(tag) == FALSE
MisplacedArgs(tag)    == tag.junk

RECURSIVE Wrap(_, _), Branches(_, _)

Whole(tag) == tag.expr # <<>> /\ ~MisplacedArgs(tag)

WrapUntil(src, ends) == { w \in Wrap(src, ends) : ~MisplacedArgs(w.end) }

parseIf(src) ==
  IF Whole(Head(src))
  THEN Branches([kind |-> "if", conditions |-> Head(src).expr, wrappers |-> <<>>,
                 otherwise |-> <<>>], Tail(src))
  ELSE {}

(* The if goes on after one of its conditions.                              *)
Branches(n, src) ==
  UNION { LET m == [n EXCEPT !.wrappers = Append(@, w.nodes)]
          IN  CASE w.end.kind = "elif" ->
                     IF w.end.expr = <<>> THEN {}
                     ELSE Branches([m EXCEPT !.conditions = @ \o w.end.expr], w.rest)
                [] w.end.kind = "else" ->
                     { [node |-> [m EXCEPT !.otherwise = v.nodes], rest |-> v.rest] :
                         v \in WrapUntil(w.rest, {"endif"}) }
                [] w.end.kind = "endif" -> {[node |-> m, rest |-> w.rest]} :
            w \in WrapUntil(src, {"elif", "else", "endif"}) }

parseFor(src) ==
  LET tag == Head(src)
      For(body, otherwise) ==
        [kind |-> "for", key |-> tag.name, iter |-> tag.expr[1], body |-> body,
         otherwise |-> otherwise]
  IN  IF ~Whole(tag) THEN {}
      ELSE UNION { IF w.end.kind = "endfor" THEN {[node |-> For(w.nodes, <<>>), rest |-> w.rest]}
                   ELSE { [node |-> For(w.nodes, v.nodes), rest |-> v.rest] :
                            v \in WrapUntil(w.rest, {"endfor"}) } :
                     w \in WrapUntil(Tail(src), {"else", "endfor"}) }

parseRaw(src) ==
  IF MisplacedArgs(Head(src)) THEN {}
  ELSE { [node |-> [kind |-> "raw",
                    text |-> FlattenSeq([i \in DOMAIN w.nodes |-> w.nodes[i].text])],
          rest |-> w.rest] :
           w \in { w \in Wrap(Tail(src), {"endraw"}) :
                     \A i \in DOMAIN w.nodes : w.nodes[i].kind = "data" } }

parseSet(src) ==
  LET tag == Head(src)
  IN  IF Whole(tag)
      THEN {[node |-> [kind |-> "set", name |-> tag.name, expr |-> tag.expr[1]],
             rest |-> Tail(src)]}
      ELSE {}

Get(src) ==
  CASE Head(src).kind = "if"  -> parseIf(src)
    [] Head(src).kind = "for" -> parseFor(src)
    [] Head(src).kind = "set" -> parseSet(src)
    [] Head(src).kind = "raw" -> parseRaw(src)
    [] OTHER                  -> {}

Wrap(src, ends) ==
  IF Head(src).kind \in ends
  THEN {[nodes |-> <<>>, end |-> Head(src), rest |-> Tail(src)]}
  ELSE UNION { { [w EXCEPT !.nodes = <<p.node>> \o @] : w \in Wrap(p.rest, ends) } :
                 p \in IF Head(src).kind \in {"data", "output"}
                       THEN {[node |-> Head(src), rest |-> Tail(src)]}
                       ELSE Get(src) }

-----------------------------------------------------------------------------
(* The variables a template mentions, found without running it.             *)

Sub(e) ==
  CASE e.op \in {"literal", "name"}                -> <<>>
    [] e.op \in {"attr", "not", "minus", "filter"} -> <<e.term>>
    [] e.op = "item"                               -> <<e.term, e.key>>
    [] e.op = "call"                               -> e.args
    [] e.op = "binary"                             -> <<e.left, e.right>>
    [] e.op = "list"                               -> e.items
    [] e.op = "test"                               -> <<e.term>> \o e.args

IsVarRoot(e) == e.op = "name" /\ e.name = "var"

(* "x" if e is var.x or var["x"].                                           *)
VarKey(e) ==
  CASE e.op = "attr" /\ IsVarRoot(e.term) -> {e.attr}
    [] e.op = "item" /\ IsVarRoot(e.term) ->
         IF e.key.op = "literal" /\ Is("str", e.key.val) THEN {e.key.val.str} ELSE {}
    [] OTHER -> {}

TestsPresence(e) == e.op = "test" /\ e.test \in {"defined", "undefined"}

RECURSIVE VarRefs(_), VarExempt(_)
VarRefs(e) ==
  VarKey(e) \cup UNION { VarRefs(s) : s \in Range(IF TestsPresence(e) THEN e.args ELSE Sub(e)) }
VarExempt(e) ==
  IF TestsPresence(e) THEN VarKey(e.term) \cup UNION { VarExempt(s) : s \in Range(e.args) }
  ELSE UNION { VarExempt(s) : s \in Range(Sub(e)) }

(* The expressions and the bodies of a node.                                *)
Exprs(n) ==
  CASE n.kind = "output" -> <<n.expr>> \o n.condition
    [] n.kind = "set"    -> <<n.expr>>
    [] n.kind = "if"     -> n.conditions
    [] n.kind = "for"    -> <<n.iter>>
    [] OTHER             -> <<>>

BodiesBug(n) ==
  CASE n.kind = "if"  -> n.wrappers
    [] n.kind = "for" -> <<n.body, n.otherwise>>
    [] OTHER          -> <<>>
Bodies(n) ==
  CASE n.kind = "if"  -> Append(n.wrappers, n.otherwise)
    [] n.kind = "for" -> <<n.body, n.otherwise>>
    [] OTHER          -> <<>>

RECURSIVE AllExprs(_)
AllExprs(nodes) ==
  UNION { Range(Exprs(n)) \cup UNION { AllExprs(b) : b \in Range(Bodies(n)) } :
            n \in Range(nodes) }

Exempt(nodes) == UNION { VarExempt(e) : e \in AllExprs(nodes) }
ReferencedVarNames(nodes) == UNION { VarRefs(e) : e \in AllExprs(nodes) } \ Exempt(nodes)

-----------------------------------------------------------------------------
Provided == [k \in DOMAIN world.required \cup DOMAIN world.optional |->
               IF k \in DOMAIN world.required THEN world.required[k] ELSE world.optional[k]]

Init ==
  /\ world \in Worlds
  /\ phase = "parse" /\ tree = <<>>
  /\ stack = <<>> /\ scopes = <<>> /\ out = <<>>

(* Parse: all of the source is wrapped up to its end.                       *)
Parse ==
  /\ phase = "parse"
  /\ LET parsed == Wrap(Append(world.source, [kind |-> "end"]), {"end"})
     IN  IF parsed = {} THEN phase' = "error" /\ UNCHANGED tree
         ELSE phase' = "check" /\ tree' = (CHOOSE w \in parsed : TRUE).nodes
  /\ UNCHANGED <<world, stack, scopes, out>>

(* checkTemplateVarConstraints, and the context that Execute starts with.   *)
Check ==
  /\ phase = "check"
  /\ LET mentioned == ReferencedVarNames(tree)
         accepted  == /\ mentioned \subseteq DOMAIN Provided
                      /\ DOMAIN world.required \subseteq mentioned
         ctx       == [world.ctx EXCEPT !["var"] = Map(Provided)]
     IN  IF accepted
         THEN /\ phase' = "render"
              /\ scopes' = <<ctx>>
              /\ stack' = <<[todo |-> tree, scope |-> 1, items |-> <<>>, loop |-> {}]>>
         ELSE phase' = "error" /\ UNCHANGED <<scopes, stack>>
  /\ UNCHANGED <<world, tree, out>>

Top    == stack[Len(stack)]
Ctx    == scopes[Top.scope]
Node   == Head(Top.todo)
Facing(kind) == phase = "render" /\ Top.todo # <<>> /\ Node.kind = kind

(* The current frame goes on with body and what follows the current node.   *)
Proceed(body) ==
  stack' = [stack EXCEPT ![Len(stack)].todo = body \o Tail(Top.todo)]

(* The error of a failed evaluation leaves every renderNodes.               *)
Abort(v) ==
  /\ phase' = IF Is("fail", v) THEN v.fail ELSE "error"
  /\ UNCHANGED <<world, tree, stack, scopes, out>>

(* Data, a raw block, or a comment, which has no text.                      *)
RenderData ==
  /\ \E kind \in {"data", "raw"} : Facing(kind)
  /\ out' = out \o Node.text
  /\ Proceed(<<>>)
  /\ UNCHANGED <<world, phase, tree, scopes>>

Unprintable(v) == Is("fail", v) \/ v = Nil

(* The condition of {{ x if c }} is parsed and not looked at.               *)
RenderOutput ==
  /\ Facing("output")
  /\ LET v == Eval(Node.expr, Ctx)
     IN  IF Unprintable(v) THEN Abort(v)
         ELSE /\ out' = Append(out, v)
              /\ Proceed(<<>>)
              /\ UNCHANGED <<world, phase, tree, scopes>>

RenderSet ==
  /\ Facing("set")
  /\ LET v == Eval(Node.expr, Ctx)
     IN  IF Is("fail", v) THEN Abort(v)
         ELSE /\ scopes' = [scopes EXCEPT ![Top.scope] = (Node.name :> v) @@ Ctx]
              /\ Proceed(<<>>)
              /\ UNCHANGED <<world, phase, tree, out>>

(* Conditions are evaluated up to the first that fails or is true.          *)
Decisive(conditions, ctx) ==
  { i \in DOMAIN conditions :
      LET v == Eval(conditions[i], ctx) IN Is("fail", v) \/ isTruthy(v) }

RenderIf ==
  /\ Facing("if")
  /\ LET deciding == Decisive(Node.conditions, Ctx)
         v        == Eval(Node.conditions[Min(deciding)], Ctx)
     IN  IF deciding # {} /\ Is("fail", v) THEN Abort(v)
         ELSE /\ Proceed(IF deciding = {} THEN Node.otherwise
                         ELSE Node.wrappers[Min(deciding)])
              /\ UNCHANGED <<world, phase, tree, scopes, out>>

(* copyCtx: an iteration gets a context of its own, next to those of the    *)
(* frames below it.                                                         *)
copyCtxBug(depth) == stack[depth - 1].scope
copyCtx(depth) == depth

(* Begin an iteration of loop in a frame at depth.                          *)
Iterate(loop, items, depth) ==
  LET inner == copyCtx(depth)
      outer == scopes[stack[depth - 1].scope]
  IN  /\ stack' = Append(SubSeq(stack, 1, depth - 1),
                         [todo |-> loop.body, scope |-> inner, items |-> Tail(items),
                          loop |-> {loop}])
      /\ scopes' = [i \in {inner} \cup (DOMAIN scopes \cap (1 .. depth - 1)) |->
                      IF i = inner THEN (loop.key :> Head(items)) @@ outer ELSE scopes[i]]

RenderFor ==
  /\ Facing("for")
  /\ LET v == Eval(Node.iter, Ctx)
     IN  CASE ~Is("list", v) /\ v # Nil -> Abort(v)
           [] v = Nil \/ v = List(<<>>) ->
                /\ Proceed(Node.otherwise)
                /\ UNCHANGED <<world, phase, tree, scopes, out>>
           [] OTHER ->
                /\ Iterate(Node, v.list, Len(stack) + 1)
                /\ UNCHANGED <<world, phase, tree, out>>

(* The end of a loop's body: the next item, or on with what follows the loop. *)
NextItem ==
  /\ phase = "render" /\ Top.todo = <<>> /\ Top.items # <<>>
  /\ Iterate(CHOOSE l \in Top.loop : TRUE, Top.items, Len(stack))
  /\ UNCHANGED <<world, phase, tree, out>>

Leave ==
  /\ phase = "render" /\ Top.todo = <<>> /\ Top.items = <<>> /\ Len(stack) > 1
  /\ stack' = [Front(stack) EXCEPT ![Len(stack) - 1].todo = Tail(@)]
  /\ UNCHANGED <<world, phase, tree, scopes, out>>

Finish ==
  /\ phase = "render" /\ Top.todo = <<>> /\ Len(stack) = 1
  /\ phase' = "done"
  /\ UNCHANGED <<world, tree, stack, scopes, out>>

Next ==
  \/ Parse \/ Check \/ RenderData \/ RenderOutput \/ RenderSet \/ RenderIf \/ RenderFor
  \/ NextItem \/ Leave \/ Finish

Spec == Init /\ [][Next]_vars
-----------------------------------------------------------------------------
(* Properties.                                                              *)

Tag(kind, expr) == [kind |-> kind, expr |-> expr, junk |-> FALSE]
Junk(tag)       == [tag EXCEPT !.junk = TRUE]
Named(tag, name) == [kind |-> tag.kind, name |-> name, expr |-> tag.expr, junk |-> FALSE]

(* The source a tree is written as.                                         *)
RECURSIVE Source(_)
SourceOf(n) ==
  LET Else(nodes) == IF nodes = <<>> THEN <<>> ELSE <<Tag("else", <<>>)>> \o Source(nodes)
  IN  CASE n.kind = "set" -> <<Named(Tag("set", <<n.expr>>), n.name)>>
        [] n.kind = "raw" ->
             <<Tag("raw", <<>>), [kind |-> "data", text |-> n.text], Tag("endraw", <<>>)>>
        [] n.kind = "for" ->
             <<Named(Tag("for", <<n.iter>>), n.key)>> \o Source(n.body) \o Else(n.otherwise)
               \o <<Tag("endfor", <<>>)>>
        [] n.kind = "if"  ->
             FlattenSeq([i \in DOMAIN n.conditions |->
                           <<Tag(IF i = 1 THEN "if" ELSE "elif", <<n.conditions[i]>>)>>
                             \o Source(n.wrappers[i])])
               \o Else(n.otherwise) \o <<Tag("endif", <<>>)>>
        [] OTHER -> <<n>>
Source(nodes) == FlattenSeq([i \in DOMAIN nodes |-> SourceOf(nodes[i])])

(* A source without what makes no difference: text is taken piece by piece, *)
(* an else with nothing behind it is left out, and so is whatever follows   *)
(* the word in an endraw tag, which parseRaw throws away.                   *)
Essence(src) ==
  LET EmptyElse(i) ==
        src[i].kind = "else" /\ i < Len(src) /\ src[i + 1].kind \in {"endif", "endfor"}
  IN  FlattenSeq([i \in DOMAIN src |->
        CASE src[i].kind = "data" ->
               [k \in DOMAIN src[i].text |-> [kind |-> "data", text |-> <<src[i].text[k]>>]]
          [] EmptyElse(i)             -> IF src[i].junk THEN <<src[i]>> ELSE <<>>
          [] src[i].kind = "endraw"   -> <<Tag("endraw", <<>>)>>
          [] OTHER                    -> <<src[i]>>])

(* parseIf, parseFor, parseSet, parseRaw: a source that is accepted is what *)
(* its tree says: no tag is passed over, no text changes its block, no      *)
(* block is left open and none closed by another's tag, and no tag but      *)
(* endraw has anything in it that is not looked at.                         *)
ParsedAsWritten ==
  phase \in {"check", "render", "done"} => Essence(Source(tree)) = Essence(world.source)

(* What a list of nodes means, without stacks and shared contexts: a        *)
(* context goes from node to node, through an if, and into a loop.  Out of  *)
(* it only if sets outlive it, and then with the loop's variable as before. *)
AfterLoop(before, inside, key) ==
  [k \in DOMAIN inside \ ({key} \ DOMAIN before) |->
     IF k = key THEN before[k] ELSE inside[k]]

RECURSIVE Meaning(_, _)
MeaningOf(n, acc) ==
  LET v    == Eval(n.expr, acc.ctx)
      list == Eval(n.iter, acc.ctx)
      End(w) == [acc EXCEPT !.end = IF Is("fail", w) THEN w.fail ELSE "error"]
      Once(a, item) ==
        [Meaning(n.body, [a EXCEPT !.ctx = (n.key :> item) @@ @])
           EXCEPT !.ctx = IF acc.outlive THEN AfterLoop(acc.ctx, @, n.key) ELSE acc.ctx]
      taken == { i \in Decisive(n.conditions, acc.ctx) :
                   \A k \in 1 .. i - 1 : k \notin Decisive(n.conditions, acc.ctx) }
  IN  CASE n.kind \in {"data", "raw"} -> [acc EXCEPT !.out = @ \o n.text]
        [] n.kind = "output" -> IF Is("fail", v) \/ v = Nil THEN End(v)
                                ELSE [acc EXCEPT !.out = Append(@, v)]
        [] n.kind = "set"    -> IF Is("fail", v) THEN End(v)
                                ELSE [acc EXCEPT !.ctx = (n.name :> v) @@ @]
        [] n.kind = "if"     ->
             IF taken = {} THEN Meaning(n.otherwise, acc)
             ELSE LET i == CHOOSE i \in taken : TRUE
                      c == Eval(n.conditions[i], acc.ctx)
                  IN  IF Is("fail", c) THEN End(c) ELSE Meaning(n.wrappers[i], acc)
        [] n.kind = "for"    ->
             IF list = Nil \/ list = List(<<>>) THEN Meaning(n.otherwise, acc)
             ELSE IF ~Is("list", list) THEN End(list)
             ELSE FoldLeft(Once, acc, list.list)
Meaning(nodes, acc) ==
  IF nodes = <<>> \/ acc.end # "done" THEN acc
  ELSE Meaning(Tail(nodes), MeaningOf(Head(nodes), acc))

RendersWith(outlive) ==
  phase \in {"done", "error", "panic"} /\ stack # <<>> =>
    LET m == Meaning(tree, [ctx |-> [world.ctx EXCEPT !["var"] = Map(Provided)], out |-> <<>>,
                            end |-> "done", outlive |-> outlive])
    IN  out = m.out /\ phase = m.end

(* renderNodes, renderControlStructure, renderFor: what is rendered, and how *)
(* it ends, is what the nodes mean; a set goes on after an if, whatever     *)
(* shadows what, a loop's variable ends with it, and of a template that     *)
(* fails the text before the failure is all that was written.  Whether a    *)
(* set outlives its loop is left open, but not from loop to loop: its scope *)
(* is the template level in POLICY_TEMPLATES.md, and the iteration in       *)
(* TestSetInsideForDoesNotPropagateToOuterScope.                            *)
RendersAsMeant == \E outlive \in BOOLEAN : RendersWith(outlive)

(* The expressions that the evaluation of e comes to.                       *)
RECURSIVE Reached(_, _)
Reached(e, ctx) ==
  LET skips == /\ e.op = "binary"
               /\ LET l == Eval(e.left, ctx) IN Is("fail", l) \/ ShortCuts(e.sign, l)
  IN  {e} \cup UNION { Reached(s, ctx) : s \in Range(IF skips THEN <<e.left>> ELSE Sub(e)) }

(* ReferencedVarNames: a variable that rendering comes to look up was given, *)
(* or the template tests somewhere whether it was; the check that is made   *)
(* before anything is rendered misses no place a variable can be used in.   *)
NothingMissing ==
  phase = "render" /\ Top.todo # <<>> /\ At(Ctx, "var") = Map(Provided) =>
    \A e \in Range(Exprs(Node)) : \A used \in Reached(e, Ctx) :
      VarKey(used) \subseteq DOMAIN Provided \cup Exempt(tree)

(* find_upward: the directory it returns has a marker and no directory      *)
(* between it and the start has one; nil only if none up to the root has.   *)
NearestMarker ==
  \A start \in DOMAIN world.files, marker \in { <<Last(p)>> : p \in DOMAIN world.files } :
    LET with  == { n \in 1 .. Len(start) : Exists(SubSeq(start, 1, n) \o marker) }
    IN  FindUpward(start, <<Str(marker)>>) =
          IF with = {} THEN Nil ELSE Str(SubSeq(start, 1, Max(with)))
=============================================================================
