--------------------------- MODULE SeatbeltProofs ---------------------------
(* Theorems about Seatbelt, for every tree, every policy, every number of   *)
(* links that the kernel follows.                                           *)
EXTENDS Seatbelt, SequenceTheorems, Induction

-----------------------------------------------------------------------------
(* Sequences.                                                               *)

LEMMA HeadTail ==
  ASSUME NEW S, NEW s \in Seq(S), s # <<>>
  PROVE  /\ Head(s) \in S /\ Tail(s) \in Seq(S)
         /\ Len(s) \in Nat /\ Len(s) >= 1 /\ Len(Tail(s)) = Len(s) - 1
         /\ Head(s) = s[1]
  OBVIOUS

LEMMA Joined ==
  ASSUME NEW S, NEW s \in Seq(S), NEW u \in Seq(S)
  PROVE  s \o u \in Seq(S) /\ Len(s \o u) = Len(s) + Len(u)
  OBVIOUS

LEMMA JoinedHead ==
  ASSUME NEW S, NEW s \in Seq(S), NEW u \in Seq(S), s # <<>>
  PROVE  /\ s \o u # <<>>
         /\ Head(s \o u) = Head(s)
         /\ Tail(s \o u) = Tail(s) \o u
  OBVIOUS

LEMMA Appended ==
  ASSUME NEW S, NEW s \in Seq(S), NEW x \in S
  PROVE  /\ Append(s, x) \in Seq(S) /\ Len(Append(s, x)) = Len(s) + 1
         /\ Append(s, x) # <<>>
<1>1. Append(s, x) \in Seq(S) /\ Len(Append(s, x)) = Len(s) + 1
  OBVIOUS
<1>2. Len(s) + 1 # 0 /\ Len(<<>>) = 0
  OBVIOUS
<1> QED BY <1>1, <1>2

LEMMA FrontLast ==
  ASSUME NEW S, NEW s \in Seq(S), s # <<>>
  PROVE  /\ Front(s) \in Seq(S) /\ Last(s) \in S
         /\ Len(Front(s)) = Len(s) - 1
         /\ Front(s) = SubSeq(s, 1, Len(s) - 1)
         /\ Append(Front(s), Last(s)) = s
<1>1. PICK len \in Nat : len = Len(s)
  OBVIOUS
<1>2. len # 0 /\ len - 1 \in Nat
  BY <1>1
<1>3. PICK f \in Seq(S) : f = SubSeq(s, 1, len - 1)
  <2>1. SubSeq(s, 1, len - 1) \in Seq(S)
    BY <1>1, <1>2
  <2> QED BY <2>1, Zenon
<1>4. Front(s) = f /\ Last(s) = s[len] /\ s[len] \in S
  BY <1>1, <1>2, <1>3 DEF Front, Last
<1>5. Len(f) = len - 1 /\ \A k \in 1 .. len - 1 : f[k] = s[k]
  BY <1>1, <1>2, <1>3
<1>6. Append(f, s[len]) = s
  BY <1>1, <1>2, <1>4, <1>5
<1> QED BY <1>1, <1>3, <1>4, <1>5, <1>6

LEMMA AppendedEnds ==
  ASSUME NEW S, NEW s \in Seq(S), NEW x \in S
  PROVE  Front(Append(s, x)) = s /\ Last(Append(s, x)) = x
  BY DEF Front, Last

-----------------------------------------------------------------------------
(* A walk ends, where it ends is what exists, and walks compose.            *)

Errors  == {"none", "missing", "notdir", "loop"}
Walks(t) ==
  { w \in [at : DOMAIN t, rest : Seq(Part), links : Seq(DOMAIN t), error : Errors] :
      Len(w.links) <= MaxLinks }

LEMMA Regroup ==
  ASSUME NEW a \in Seq(Part), NEW b \in Seq(Part), NEW c \in Seq(Part)
  PROVE  (a \o b) \o c = a \o (b \o c)
  BY ConcatAssociative

LEMMA Numbers == MaxLinks \in Nat /\ MaxParts \in Nat /\ ".." \notin Name
  BY SeatbeltAssumption

(* One step, case by case.                                                  *)
LEMMA StepCases ==
  ASSUME NEW t, IsTree(t), NEW w \in Walks(t), ~Over(w)
  PROVE  LET p == Ahead(w)
         IN  \/ Step(t, w).error # "none" /\ Step(t, w) = [w EXCEPT !.error = Step(t, w).error]
                  /\ Step(t, w).error \in Errors
             \/ /\ Dir(t, w.at) /\ p \in DOMAIN t /\ ~Link(t, p)
                /\ Step(t, w) = [w EXCEPT !.at = p, !.rest = Tail(w.rest)]
             \/ /\ Dir(t, w.at) /\ p \in DOMAIN t /\ Link(t, p) /\ Len(w.links) < MaxLinks
                /\ Step(t, w) = [w EXCEPT !.at = IF t[p].abs THEN Root ELSE w.at,
                                          !.rest = t[p].target \o Tail(w.rest),
                                          !.links = Append(w.links, p)]
<1>1. w \in [at : DOMAIN t, rest : Seq(Part), links : Seq(DOMAIN t), error : Errors]
      /\ Len(w.links) <= MaxLinks
  BY DEF Walks
<1>2. Len(w.links) \in Nat
  BY <1>1
<1>3. w.error = "none" /\ w.rest # <<>>
  BY <1>1 DEF Over
<1> DEFINE p == Ahead(w)
<1>4. CASE ~Dir(t, w.at)
  BY <1>1, <1>3, <1>4 DEF Step, Errors
<1>5. CASE Dir(t, w.at) /\ p \notin DOMAIN t
  BY <1>1, <1>3, <1>5 DEF Step, Errors
<1>6. CASE Dir(t, w.at) /\ p \in DOMAIN t /\ ~Link(t, p)
  BY <1>1, <1>3, <1>6 DEF Step
<1>7. CASE Dir(t, w.at) /\ p \in DOMAIN t /\ Link(t, p) /\ Len(w.links) = MaxLinks
  BY <1>1, <1>3, <1>7 DEF Step, Errors
<1>8. CASE Dir(t, w.at) /\ p \in DOMAIN t /\ Link(t, p) /\ Len(w.links) # MaxLinks
  <2>1. Len(w.links) < MaxLinks
    BY <1>1, <1>2, <1>8, Numbers
  <2> QED BY <1>1, <1>3, <1>8, <2>1 DEF Step
<1> QED BY <1>4, <1>5, <1>6, <1>7, <1>8
LEMMA LinkNode ==
  ASSUME NEW t, IsTree(t), NEW p \in DOMAIN t, Link(t, p)
  PROVE  /\ t[p].abs \in BOOLEAN /\ t[p].target \in Seq(Part)
         /\ Len(t[p].target) \in Nat /\ Len(t[p].target) <= MaxParts
<1>1. t[p] \in Node /\ Len(t[p].target) <= MaxParts
  BY DEF IsTree
<1>2. PICK s \in Seq(Part) : s = t[p].target
  BY <1>1 DEF Node
<1>3. s \in Seq(Part)
  BY DEF Part
<1> QED BY <1>1, <1>2, <1>3 DEF Node

LEMMA OneLess ==
  ASSUME NEW a \in Int, NEW b \in Int
  PROVE  (a - 1) * b = a * b - b
  OBVIOUS

LEMMA StepsType ==
  ASSUME NEW t, NEW w \in Walks(t)
  PROVE  Steps(w) \in Nat /\ Len(w.rest) \in Nat /\ Len(w.rest) <= Steps(w)
<1>1. PICK a \in Nat : a = MaxLinks - Len(w.links)
  BY Numbers DEF Walks
<1>2. a * MaxParts \in Nat
  BY Numbers
<1>3. Len(w.rest) \in Nat
  BY DEF Walks
<1> QED BY <1>1, <1>2, <1>3 DEF Steps

LEMMA StepType ==
  ASSUME NEW t, IsTree(t), NEW w \in Walks(t)
  PROVE  /\ Step(t, w) \in Walks(t)
         /\ Steps(Step(t, w)) <= Steps(w)
         /\ Over(w) => Step(t, w) = w
         /\ Over(Step(t, w)) \/ Steps(Step(t, w)) < Steps(w)
<1>1. w \in [at : DOMAIN t, rest : Seq(Part), links : Seq(DOMAIN t), error : Errors]
      /\ Len(w.links) <= MaxLinks
  BY DEF Walks
<1>2. Steps(w) \in Nat
  BY StepsType
<1>3. CASE Over(w)
  <2>1. Step(t, w) = w
    BY <1>3 DEF Step
  <2> QED BY <1>2, <1>3, <2>1
<1>4. CASE ~Over(w)
  <2>1. w.rest # <<>>
    BY <1>4 DEF Over
  <2>2. Head(w.rest) \in Part /\ Tail(w.rest) \in Seq(Part)
        /\ Len(w.rest) \in Nat /\ Len(Tail(w.rest)) = Len(w.rest) - 1
    BY <1>1, <2>1, HeadTail
  <2> DEFINE p == Ahead(w)
  <2>3. CASE Step(t, w).error # "none" /\ Step(t, w).error \in Errors
             /\ Step(t, w) = [w EXCEPT !.error = Step(t, w).error]
    <3>1. PICK e \in Errors : e # "none" /\ Step(t, w) = [w EXCEPT !.error = e]
      BY <2>3
    <3>2. Step(t, w) \in Walks(t) /\ Steps(Step(t, w)) = Steps(w)
      BY <1>1, <3>1 DEF Walks, Steps
    <3>3. Over(Step(t, w))
      BY <2>3 DEF Over
    <3> QED BY <1>2, <1>4, <3>2, <3>3
  <2>4. CASE /\ p \in DOMAIN t
             /\ Step(t, w) = [w EXCEPT !.at = p, !.rest = Tail(w.rest)]
    <3>1. Step(t, w) \in Walks(t)
      BY <1>1, <2>2, <2>4 DEF Walks
    <3>2. PICK m \in Nat : m = (MaxLinks - Len(w.links)) * MaxParts
      BY <1>1, Numbers
    <3>3. Steps(w) = Len(w.rest) + m /\ Steps(Step(t, w)) = Len(w.rest) - 1 + m
      BY <1>1, <2>2, <2>4, <3>2 DEF Steps
    <3> QED BY <1>4, <2>2, <3>1, <3>3
  <2>5. CASE /\ p \in DOMAIN t /\ Link(t, p) /\ Len(w.links) < MaxLinks
             /\ Step(t, w) = [w EXCEPT !.at = IF t[p].abs THEN Root ELSE w.at,
                                       !.rest = t[p].target \o Tail(w.rest),
                                       !.links = Append(w.links, p)]
    <3>1. t[p].target \in Seq(Part) /\ Len(t[p].target) \in Nat /\ Len(t[p].target) <= MaxParts
      BY <2>5, LinkNode
    <3>2. PICK r \in Seq(Part) :
            r = t[p].target \o Tail(w.rest) /\ Len(r) = Len(t[p].target) + Len(w.rest) - 1
      <4>1. /\ t[p].target \o Tail(w.rest) \in Seq(Part)
            /\ Len(t[p].target \o Tail(w.rest)) = Len(t[p].target) + Len(Tail(w.rest))
        BY <2>2, <3>1, Joined
      <4>2. Len(t[p].target) + Len(Tail(w.rest)) = Len(t[p].target) + Len(w.rest) - 1
        BY <2>2, <3>1
      <4> QED BY <4>1, <4>2, Zenon
    <3>3. PICK l \in Seq(DOMAIN t) : l = Append(w.links, p) /\ Len(l) = Len(w.links) + 1
      BY <1>1, <2>5, Appended
    <3>4. PICK q \in DOMAIN t : q = IF t[p].abs THEN Root ELSE w.at
      BY <1>1 DEF IsTree, Dir
    <3>5. Step(t, w) = [w EXCEPT !.at = q, !.rest = r, !.links = l]
      BY <2>5, <3>2, <3>3, <3>4
    <3>6. PICK k \in Nat : k = Len(w.links)
      BY <1>1
    <3>7. k < MaxLinks /\ Len(l) = k + 1 /\ k + 1 <= MaxLinks
      BY <2>5, <3>3, <3>6, Numbers
    <3>8. Step(t, w) \in Walks(t)
      BY <1>1, <3>5, <3>7 DEF Walks
    <3>9. PICK a \in Nat : a = MaxLinks - Len(w.links)
      <4>1. MaxLinks - k \in Nat
        BY <3>7, Numbers
      <4> QED BY <3>6, <4>1
    <3>10. PICK m \in Nat : m = a * MaxParts
      BY Numbers
    <3>11. Steps(w) = Len(w.rest) + m
      BY <3>9, <3>10 DEF Steps
    <3>12. MaxLinks - Len(l) = a - 1 /\ (a - 1) * MaxParts = m - MaxParts
      BY <3>6, <3>7, <3>9, <3>10, OneLess, Numbers
    <3>13. Steps(Step(t, w)) = Len(r) + (m - MaxParts)
      BY <1>1, <3>5, <3>12 DEF Steps
    <3>14. Steps(Step(t, w)) < Steps(w)
      <4>1. PICK c \in Nat : c = Len(t[p].target) /\ c <= MaxParts
        BY <3>1
      <4>2. PICK d \in Nat : d = Len(w.rest)
        BY <2>2
      <4>3. Steps(w) = d + m /\ Steps(Step(t, w)) = c + d - 1 + (m - MaxParts)
        BY <3>2, <3>11, <3>13, <4>1, <4>2
      <4> QED BY <4>1, <4>3, Numbers
    <3> QED BY <1>2, <1>4, <3>8, <3>14, StepsType
  <2> QED BY <1>4, <2>3, <2>4, <2>5, StepCases
<1> QED BY <1>3, <1>4
(* A walk taken len steps further.                                          *)
IsRun(t, v, len, w) ==
  /\ v \in [0 .. len -> Walks(t)]
  /\ v[0] = w
  /\ \A k \in 1 .. len : v[k] = Step(t, v[k - 1])

LEMMA RunExists ==
  ASSUME NEW t, IsTree(t), NEW w \in Walks(t), NEW len \in Nat
  PROVE  \E v : IsRun(t, v, len, w)
<1> DEFINE turn == [x \in Walks(t) \X (1 .. len) |-> Step(t, x[1])]
<1>1. ASSUME NEW u \in Walks(t) PROVE Step(t, u) \in Walks(t)
  BY StepType
<1>2. turn \in [Walks(t) \X (1 .. len) -> Walks(t)]
  <2>1. ASSUME NEW x \in Walks(t) \X (1 .. len) PROVE Step(t, x[1]) \in Walks(t)
    BY <1>1
  <2> QED BY <2>1
<1>3. ASSUME NEW u \in Walks(t), NEW k \in 1 .. len PROVE turn[<<u, k>>] = Step(t, u)
  OBVIOUS
<1> HIDE DEF turn
<1>4. IsTurn(turn, len, Walks(t))
  BY <1>2 DEF IsTurn
<1>5. PICK v : IsLoop(v, len, Walks(t), w, turn)
  BY <1>4, LoopExists
<1>6. v \in [0 .. len -> Walks(t)] /\ v[0] = w
  BY <1>5 DEF IsLoop
<1>7. ASSUME NEW k \in 1 .. len PROVE v[k] = Step(t, v[k - 1])
  <2>1. k - 1 \in 0 .. len
    OBVIOUS
  <2>2. v[k - 1] \in Walks(t)
    BY <1>6, <2>1
  <2>3. v[k] = turn[<<v[k - 1], k>>]
    BY <1>5 DEF IsLoop
  <2> QED BY <1>3, <2>2, <2>3
<1> QED BY <1>6, <1>7 DEF IsRun

LEMMA FollowRuns ==
  ASSUME NEW t, IsTree(t), NEW w \in Walks(t)
  PROVE  \E v : IsRun(t, v, Steps(w), w) /\ Follow(t, w) = v[Steps(w)]
<1>1. PICK len \in Nat : len = Steps(w)
  BY StepsType
<1> DEFINE Is(g) == g = [k \in 0 .. len |-> IF k = 0 THEN w ELSE Step(t, g[k - 1])]
<1>2. PICK f : IsRun(t, f, len, w)
  BY RunExists
<1>3. Is(f)
  <2>1. ASSUME NEW k \in 0 .. len PROVE f[k] = IF k = 0 THEN w ELSE Step(t, f[k - 1])
    <3>1. k = 0 \/ k \in 1 .. len
      OBVIOUS
    <3>2. f[0] = w /\ \A i \in 1 .. len : f[i] = Step(t, f[i - 1])
      BY <1>2 DEF IsRun
    <3> QED BY <3>1, <3>2, Zenon
  <2>2. f = [k \in 0 .. len |-> f[k]]
    BY <1>2 DEF IsRun
  <2> QED BY <2>1, <2>2
<1> DEFINE v == CHOOSE g : Is(g)
<1>4. Is(v)
  BY <1>3
<1>5. Follow(t, w) = v[len]
  BY <1>1 DEF Follow
<1> HIDE DEF v
<1>6. \A k \in 0 .. len : v[k] = IF k = 0 THEN w ELSE Step(t, v[k - 1])
  BY <1>4
<1>7. v[0] = w /\ \A k \in 1 .. len : v[k] = Step(t, v[k - 1])
  BY <1>6
<1>8. v \in [0 .. len -> Walks(t)]
  <2>1. ASSUME NEW k \in 1 .. len, v[k - 1] \in Walks(t) PROVE v[k] \in Walks(t)
    BY <1>7, <2>1, StepType
  <2>2. Keeps(v, len, Walks(t))
    <3>1. v[0] \in Walks(t) /\ v = [k \in 0 .. len |-> v[k]]
      BY <1>4, <1>7
    <3> QED BY <2>1, <3>1, Zenon DEF Keeps
  <2> QED BY <2>2, LoopTyped
<1> QED BY <1>1, <1>5, <1>7, <1>8 DEF IsRun

(* At the latest when its Steps are gone a walk is over, and stays where it *)
(* is.                                                                      *)
LEMMA RunEnds ==
  ASSUME NEW t, IsTree(t), NEW w \in Walks(t), NEW len \in Nat, NEW v, IsRun(t, v, len, w),
         Steps(w) <= len
  PROVE  Over(v[Steps(w)]) /\ v[len] = v[Steps(w)]
<1>1. PICK m \in Nat : m = Steps(w)
  BY StepsType
<1>2. v \in [0 .. len -> Walks(t)] /\ v[0] = w /\ \A k \in 1 .. len : v[k] = Step(t, v[k - 1])
  BY DEF IsRun
<1> DEFINE S == { k \in 0 .. len : Over(v[k]) \/ Steps(v[k]) <= m - k }
<1>3. 0 \in S
  BY <1>1, <1>2
<1>4. ASSUME NEW k \in 1 .. len, k - 1 \in S PROVE k \in S
  <2>1. PICK u \in Walks(t) : u = v[k - 1] /\ v[k] = Step(t, u)
    BY <1>2
  <2>2. Over(u) \/ Steps(u) <= m - (k - 1)
    BY <1>4, <2>1
  <2>3. /\ Over(u) => Step(t, u) = u
        /\ Over(Step(t, u)) \/ Steps(Step(t, u)) < Steps(u)
        /\ Step(t, u) \in Walks(t)
    BY StepType
  <2>4. Steps(u) \in Nat /\ Steps(Step(t, u)) \in Nat
    BY <2>3, StepsType
  <2>5. Over(Step(t, u)) \/ Steps(Step(t, u)) <= m - k
    BY <2>2, <2>3, <2>4
  <2> QED BY <2>1, <2>5
<1> HIDE DEF S
<1>5. \A k \in 0 .. len : k \in S
  BY <1>3, <1>4, EveryStep
<1>6. Over(v[m])
  <2>1. m \in 0 .. len /\ v[m] \in Walks(t)
    BY <1>1, <1>2
  <2>2. Over(v[m]) \/ Steps(v[m]) <= 0
    BY <1>5, <2>1 DEF S
  <2>3. Steps(v[m]) <= 0 => v[m].rest = <<>>
    <3>1. Len(v[m].rest) <= Steps(v[m]) /\ Steps(v[m]) \in Nat /\ Len(v[m].rest) \in Nat
      BY <2>1, StepsType
    <3>2. v[m].rest \in Seq(Part)
      BY <2>1 DEF Walks
    <3> QED BY <3>1, <3>2
  <2> QED BY <2>2, <2>3 DEF Over
<1> DEFINE T == { k \in 0 .. len : k >= m => v[k] = v[m] }
<1>7. 0 \in T
  BY <1>1
<1>8. ASSUME NEW k \in 1 .. len, k - 1 \in T PROVE k \in T
  <2>1. CASE k - 1 >= m
    <3>1. v[k - 1] = v[m]
      BY <1>8, <2>1
    <3>2. v[k - 1] \in Walks(t) /\ v[k] = Step(t, v[k - 1])
      BY <1>2
    <3>3. v[k] = v[m]
      BY <1>6, <3>1, <3>2, StepType
    <3> QED BY <3>3
  <2>2. CASE ~(k - 1 >= m)
    <3>1. k >= m => k = m
      BY <2>2
    <3> QED BY <3>1
  <2> QED BY <2>1, <2>2
<1> HIDE DEF T
<1>9. len \in T
  BY <1>7, <1>8, AtTheTop
<1> QED BY <1>1, <1>6, <1>9 DEF T

LEMMA RunsAgree ==
  ASSUME NEW t, NEW w, NEW len \in Nat, NEW v, IsRun(t, v, len, w),
         NEW m \in Nat, NEW u, IsRun(t, u, m, w)
  PROVE  \A k \in 0 .. len : k <= m => v[k] = u[k]
<1> DEFINE S == { k \in 0 .. len : k <= m => v[k] = u[k] }
<1>1. 0 \in S
  BY DEF IsRun
<1>2. ASSUME NEW k \in 1 .. len, k - 1 \in S PROVE k \in S
  <2>1. CASE k <= m
    <3>1. k \in 1 .. m /\ v[k - 1] = u[k - 1]
      BY <1>2, <2>1
    <3>2. v[k] = Step(t, v[k - 1]) /\ u[k] = Step(t, u[k - 1])
      BY <3>1 DEF IsRun
    <3> QED BY <3>1, <3>2
  <2> QED BY <2>1
<1> HIDE DEF S
<1>3. \A k \in 0 .. len : k \in S
  BY <1>1, <1>2, EveryStep
<1> QED BY <1>3 DEF S

LEMMA FollowEnds ==
  ASSUME NEW t, IsTree(t), NEW w \in Walks(t), NEW len \in Nat, NEW v, IsRun(t, v, len, w),
         Steps(w) <= len
  PROVE  Follow(t, w) = v[len] /\ Follow(t, w) \in Walks(t) /\ Over(Follow(t, w))
<1>1. PICK m \in Nat : m = Steps(w)
  BY StepsType
<1>2. PICK u : IsRun(t, u, m, w) /\ Follow(t, w) = u[m]
  BY <1>1, FollowRuns
<1>3. Over(v[m]) /\ v[len] = v[m]
  BY <1>1, RunEnds
<1>4. v[m] = u[m]
  <2>1. m \in 0 .. len /\ m <= m
    BY <1>1
  <2> QED BY <1>2, <2>1, RunsAgree
<1>5. u[m] \in Walks(t)
  BY <1>2 DEF IsRun
<1> QED BY <1>2, <1>3, <1>4, <1>5

LEMMA FollowType ==
  ASSUME NEW t, IsTree(t), NEW w \in Walks(t)
  PROVE  Follow(t, w) \in Walks(t) /\ Over(Follow(t, w))
<1>1. PICK m \in Nat : m = Steps(w)
  BY StepsType
<1>2. PICK u : IsRun(t, u, m, w)
  BY RunExists
<1> QED BY <1>1, <1>2, FollowEnds

(* The recursion that Follow stands for.                                    *)
LEMMA FollowStep ==
  ASSUME NEW t, IsTree(t), NEW w \in Walks(t)
  PROVE  Follow(t, w) = IF Over(w) THEN w ELSE Follow(t, Step(t, w))
<1>1. PICK len \in Nat : len = Steps(w)
  BY StepsType
<1>2. PICK v : IsRun(t, v, len + 1, w)
  BY RunExists
<1>3. len + 1 \in Nat /\ Steps(w) <= len + 1
  BY <1>1
<1>4. Follow(t, w) = v[len + 1]
  BY <1>2, <1>3, FollowEnds
<1>5. v \in [0 .. len + 1 -> Walks(t)] /\ v[0] = w /\ \A k \in 1 .. len + 1 : v[k] = Step(t, v[k - 1])
  BY <1>2 DEF IsRun
<1> DEFINE u == [k \in 0 .. len |-> v[k + 1]]
<1>6. IsRun(t, u, len, Step(t, w))
  <2>1. u \in [0 .. len -> Walks(t)]
    BY <1>5
  <2>2. u[0] = Step(t, w)
    <3>1. u[0] = v[1] /\ 1 \in 1 .. len + 1 /\ v[1] = Step(t, v[0])
      BY <1>5
    <3> QED BY <1>5, <3>1
  <2>3. ASSUME NEW k \in 1 .. len PROVE u[k] = Step(t, u[k - 1])
    <3>1. k + 1 \in 1 .. len + 1 /\ (k + 1) - 1 = k /\ k - 1 \in 0 .. len /\ (k - 1) + 1 = k
      OBVIOUS
    <3>2. u[k] = v[k + 1] /\ u[k - 1] = v[k]
      BY <3>1
    <3> QED BY <1>5, <3>1, <3>2
  <2> HIDE DEF u
  <2> QED BY <2>1, <2>2, <2>3 DEF IsRun
<1>7. u[len] = v[len + 1]
  OBVIOUS
<1> HIDE DEF u
<1>8. Step(t, w) \in Walks(t) /\ Steps(Step(t, w)) <= len /\ (Over(w) => Step(t, w) = w)
  BY <1>1, StepType
<1>9. Follow(t, Step(t, w)) = u[len]
  BY <1>6, <1>8, FollowEnds
<1>10. CASE Over(w)
  <2>1. PICK r : IsRun(t, r, len, w) /\ Follow(t, w) = r[len]
    BY <1>1, FollowRuns
  <2>2. r[0] = w /\ r[len] = w
    <3> DEFINE S == { k \in 0 .. len : r[k] = w }
    <3>1. 0 \in S
      BY <2>1 DEF IsRun
    <3>2. ASSUME NEW k \in 1 .. len, k - 1 \in S PROVE k \in S
      <4>1. r[k] = Step(t, r[k - 1])
        BY <2>1 DEF IsRun
      <4> QED BY <1>8, <1>10, <3>2, <4>1
    <3> HIDE DEF S
    <3>3. len \in S
      BY <3>1, <3>2, AtTheTop
    <3> QED BY <3>1, <3>3 DEF S
  <2> QED BY <1>10, <2>1, <2>2
<1>11. CASE ~Over(w)
  BY <1>4, <1>7, <1>9, <1>11
<1> QED BY <1>10, <1>11
(* What holds where a walk is over, and before a step if it holds after it, *)
(* holds of all walks.                                                      *)
LEMMA WalkInduction ==
  ASSUME NEW t, IsTree(t), NEW S,
         \A w \in Walks(t) : Over(w) => w \in S,
         \A w \in Walks(t) : ~Over(w) /\ Step(t, w) \in S => w \in S
  PROVE  \A w \in Walks(t) : w \in S
<1> DEFINE T == { len \in Nat : \A w \in Walks(t) : Steps(w) <= len => w \in S }
<1>1. ASSUME NEW w \in Walks(t)
      PROVE  /\ Steps(w) \in Nat /\ Step(t, w) \in Walks(t) /\ Steps(Step(t, w)) \in Nat
             /\ w \in S \/ Steps(Step(t, w)) < Steps(w)
  <2>1. Step(t, w) \in Walks(t) /\ (Over(Step(t, w)) \/ Steps(Step(t, w)) < Steps(w))
    BY StepType
  <2>2. Steps(w) \in Nat /\ Steps(Step(t, w)) \in Nat
    BY <2>1, StepsType
  <2> QED BY <2>1, <2>2
<1>2. 0 \in T
  BY <1>1
<1>3. ASSUME NEW len \in Nat, len \in T PROVE len + 1 \in T
  <2>1. ASSUME NEW w \in Walks(t), Steps(w) <= len + 1 PROVE w \in S
    <3>1. w \in S \/ Steps(Step(t, w)) <= len
      BY <1>1, <2>1
    <3>2. Step(t, w) \in Walks(t)
      BY <1>1
    <3> QED BY <1>3, <3>1, <3>2
  <2> QED BY <2>1
<1> HIDE DEF T
<1>4. \A len \in Nat : len \in T
  BY <1>2, <1>3, EveryNat
<1>5. ASSUME NEW w \in Walks(t) PROVE w \in S
  <2>1. PICK len \in Nat : len = Steps(w)
    BY <1>1
  <2>2. len \in T
    BY <1>4
  <2> QED BY <2>1, <2>2 DEF T
<1> QED BY <1>5

(* The same walk with more to go, and with links followed before it.        *)
Longer(w, more) == [w EXCEPT !.rest = w.rest \o more]
After(l, w)     == [w EXCEPT !.links = l \o w.links]

LEMMA WalkFields ==
  ASSUME NEW t, NEW w \in Walks(t)
  PROVE  /\ w.at \in DOMAIN t /\ w.rest \in Seq(Part) /\ w.links \in Seq(DOMAIN t)
         /\ w.error \in Errors /\ Len(w.links) \in Nat /\ Len(w.links) <= MaxLinks
         /\ \A r : [w EXCEPT !.rest = r]
                    = [at |-> w.at, rest |-> r, links |-> w.links, error |-> w.error]
         /\ \A l : [w EXCEPT !.links = l]
                    = [at |-> w.at, rest |-> w.rest, links |-> l, error |-> w.error]
         /\ w = [at |-> w.at, rest |-> w.rest, links |-> w.links, error |-> w.error]
  BY DEF Walks

(* A step of a walk that is not over, field by field.                       *)
Moved(t, w, p) ==
  IF ~Dir(t, w.at) THEN [at |-> w.at, rest |-> w.rest, links |-> w.links, error |-> "notdir"]
  ELSE IF p \notin DOMAIN t THEN [at |-> w.at, rest |-> w.rest, links |-> w.links, error |-> "missing"]
  ELSE IF ~Link(t, p) THEN [at |-> p, rest |-> Tail(w.rest), links |-> w.links, error |-> "none"]
  ELSE IF Len(w.links) = MaxLinks THEN [at |-> w.at, rest |-> w.rest, links |-> w.links, error |-> "loop"]
  ELSE [at |-> IF t[p].abs THEN Root ELSE w.at, rest |-> t[p].target \o Tail(w.rest),
        links |-> Append(w.links, p), error |-> "none"]

LEMMA StepMoves ==
  ASSUME NEW t, IsTree(t), NEW w \in Walks(t), ~Over(w)
  PROVE  Step(t, w) = Moved(t, w, Ahead(w))
<1>1. PICK p : p = Ahead(w)
  OBVIOUS
<1>2. w \in [at : DOMAIN t, rest : Seq(Part), links : Seq(DOMAIN t), error : Errors]
  BY DEF Walks
<1>3. w.error = "none"
  BY DEF Over
<1>4. PICK u \in Walks(t) : u = Step(t, w)
  BY StepType
<1>5. u = [at |-> u.at, rest |-> u.rest, links |-> u.links, error |-> u.error]
  BY WalkFields
<1>6. CASE ~Dir(t, w.at)
  BY <1>1, <1>2, <1>4, <1>5, <1>6 DEF Step, Moved
<1>7. CASE Dir(t, w.at) /\ p \notin DOMAIN t
  BY <1>1, <1>2, <1>4, <1>5, <1>7 DEF Step, Moved
<1>8. CASE Dir(t, w.at) /\ p \in DOMAIN t /\ ~Link(t, p)
  <2>1. u.at = p /\ u.rest = Tail(w.rest) /\ u.links = w.links /\ u.error = "none"
    BY <1>1, <1>2, <1>3, <1>4, <1>8 DEF Step
  <2> QED BY <1>1, <1>4, <1>5, <1>8, <2>1 DEF Moved
<1>9. CASE Dir(t, w.at) /\ p \in DOMAIN t /\ Link(t, p) /\ Len(w.links) = MaxLinks
  BY <1>1, <1>2, <1>4, <1>5, <1>9 DEF Step, Moved
<1>10. CASE Dir(t, w.at) /\ p \in DOMAIN t /\ Link(t, p) /\ Len(w.links) # MaxLinks
  <2>1. /\ u.at = IF t[p].abs THEN Root ELSE w.at
        /\ u.rest = t[p].target \o Tail(w.rest)
        /\ u.links = Append(w.links, p) /\ u.error = "none"
    BY <1>1, <1>2, <1>3, <1>4, <1>10 DEF Step
  <2> QED BY <1>1, <1>4, <1>5, <1>10, <2>1 DEF Moved
<1> QED BY <1>1, <1>4, <1>6, <1>7, <1>8, <1>9, <1>10

LEMMA LongerType ==
  ASSUME NEW t, NEW w \in Walks(t), NEW more \in Seq(Part)
  PROVE  Longer(w, more) \in Walks(t)
<1>1. w.rest \o more \in Seq(Part)
  BY Joined DEF Walks
<1> QED BY <1>1 DEF Walks, Longer

LEMMA LongerFields ==
  ASSUME NEW t, NEW w \in Walks(t), NEW more
  PROVE  /\ Longer(w, more) = [at |-> w.at, rest |-> w.rest \o more, links |-> w.links, error |-> w.error]
         /\ Longer(w, more).error = w.error
<1>1. PICK r : r = w.rest \o more
  OBVIOUS
<1>2. Longer(w, more) = [w EXCEPT !.rest = r]
  BY <1>1 DEF Longer
<1>3. [w EXCEPT !.rest = r] = [at |-> w.at, rest |-> r, links |-> w.links, error |-> w.error]
  BY DEF Walks
<1> QED BY <1>1, <1>2, <1>3

LEMMA LongerStep ==
  ASSUME NEW t, IsTree(t), NEW w \in Walks(t), ~Over(w), NEW more \in Seq(Part)
  PROVE  ~Over(Longer(w, more)) /\ Step(t, Longer(w, more)) = Longer(Step(t, w), more)
<1>1. w.rest # <<>> /\ w.error = "none"
  BY DEF Over
<1>2. PICK r \in Seq(Part) :
        r = w.rest \o more /\ r # <<>> /\ Head(r) = Head(w.rest) /\ Tail(r) = Tail(w.rest) \o more
  <2>1. w.rest \o more \in Seq(Part)
    BY WalkFields, Joined
  <2>2. w.rest \in Seq(Part)
    BY WalkFields
  <2> QED BY <1>1, <2>1, <2>2, JoinedHead, Zenon
<1>3. PICK u \in Walks(t) : u = Longer(w, more)
  <2>1. Longer(w, more) \in Walks(t)
    BY LongerType
  <2> QED BY <2>1, Zenon
<1>4. u = [at |-> w.at, rest |-> r, links |-> w.links, error |-> "none"]
  BY <1>1, <1>2, <1>3, LongerFields
<1>5. ~Over(u)
  BY <1>2, <1>4 DEF Over
<1>6. PICK p : p = Ahead(w)
  OBVIOUS
<1>7. Ahead(u) = p
  BY <1>2, <1>4, <1>6 DEF Ahead
<1>8. PICK v \in Walks(t) : v = Step(t, w) /\ v = Moved(t, w, p)
  <2>1. Step(t, w) \in Walks(t) /\ Step(t, w) = Moved(t, w, p)
    BY <1>6, StepMoves, StepType
  <2> QED BY <2>1, Zenon
<1>9. Step(t, u) = Moved(t, u, p)
  BY <1>5, <1>7, StepMoves
<1>10. Longer(v, more)
         = [at |-> v.at, rest |-> v.rest \o more, links |-> v.links, error |-> v.error]
  BY LongerFields
<1>11. ASSUME p \in DOMAIN t, Link(t, p)
       PROVE  t[p].target \o Tail(r) = (t[p].target \o Tail(w.rest)) \o more
  <2>1. t[p].target \in Seq(Part)
    BY <1>11, LinkNode
  <2>2. Tail(w.rest) \in Seq(Part)
    BY <1>1, WalkFields, HeadTail
  <2>3. (t[p].target \o Tail(w.rest)) \o more = t[p].target \o (Tail(w.rest) \o more)
    <3>1. PICK a \in Seq(Part) : a = t[p].target
      BY <2>1
    <3>2. PICK b \in Seq(Part) : b = Tail(w.rest)
      BY <2>2
    <3>3. (a \o b) \o more = a \o (b \o more)
      BY Regroup, Zenon
    <3> QED BY <3>1, <3>2, <3>3
  <2> QED BY <1>2, <2>3
<1>12. Step(t, u) = Longer(v, more)
  <2>1. CASE ~Dir(t, w.at)
    BY <1>2, <1>4, <1>8, <1>9, <1>10, <2>1 DEF Moved
  <2>2. CASE Dir(t, w.at) /\ p \notin DOMAIN t
    BY <1>2, <1>4, <1>8, <1>9, <1>10, <2>2 DEF Moved
  <2>3. CASE Dir(t, w.at) /\ p \in DOMAIN t /\ ~Link(t, p)
    <3>1. v.at = p /\ v.rest = Tail(w.rest) /\ v.links = w.links /\ v.error = "none"
      BY <1>8, <2>3 DEF Moved
    <3>2. Step(t, u) = [at |-> p, rest |-> Tail(r), links |-> w.links, error |-> "none"]
      BY <1>4, <1>9, <2>3 DEF Moved
    <3> QED BY <1>2, <1>10, <3>1, <3>2
  <2>4. CASE Dir(t, w.at) /\ p \in DOMAIN t /\ Link(t, p) /\ Len(w.links) = MaxLinks
    BY <1>2, <1>4, <1>8, <1>9, <1>10, <2>4 DEF Moved
  <2>5. CASE Dir(t, w.at) /\ p \in DOMAIN t /\ Link(t, p) /\ Len(w.links) # MaxLinks
    <3>1. t[p].target \o Tail(r) = (t[p].target \o Tail(w.rest)) \o more
      BY <1>11, <2>5
    <3>2. v = [at |-> IF t[p].abs THEN Root ELSE w.at, rest |-> t[p].target \o Tail(w.rest),
               links |-> Append(w.links, p), error |-> "none"]
      BY <1>8, <2>5 DEF Moved
    <3>3. Step(t, u) = [at |-> IF t[p].abs THEN Root ELSE w.at, rest |-> t[p].target \o Tail(r),
                        links |-> Append(w.links, p), error |-> "none"]
      BY <1>4, <1>9, <2>5 DEF Moved
    <3> QED BY <1>10, <3>1, <3>2, <3>3
  <2> QED BY <2>1, <2>2, <2>3, <2>4, <2>5
<1> QED BY <1>3, <1>5, <1>8, <1>12
(* A walk with more to go comes first to where it would have ended, and     *)
(* goes on from there.                                                      *)
LEMMA Compose ==
  ASSUME NEW t, IsTree(t), NEW w \in Walks(t), NEW more \in Seq(Part)
  PROVE  LET v == Follow(t, w)
         IN  Follow(t, Longer(w, more))
               = IF v.error # "none" THEN Longer(v, more) ELSE Follow(t, Longer(v, more))
<1> DEFINE P(u) == LET v == Follow(t, u)
                   IN  Follow(t, Longer(u, more))
                         = IF v.error # "none" THEN Longer(v, more) ELSE Follow(t, Longer(v, more))
           S == { u \in Walks(t) : P(u) }
<1>1. ASSUME NEW u \in Walks(t), Over(u) PROVE u \in S
  <2>1. Follow(t, u) = u
    BY <1>1, FollowStep
  <2>2. CASE u.error # "none"
    <3>1. Longer(u, more) \in Walks(t) /\ Longer(u, more).error = u.error
      BY LongerType, LongerFields, Zenon
    <3>2. Follow(t, Longer(u, more)) = Longer(u, more)
      BY <2>2, <3>1, FollowStep DEF Over
    <3> QED BY <2>1, <2>2, <3>2
  <2>3. CASE u.error = "none"
    BY <2>1, <2>3
  <2> QED BY <2>2, <2>3
<1>2. ASSUME NEW u \in Walks(t), ~Over(u), Step(t, u) \in S PROVE u \in S
  <2>1. PICK v \in Walks(t) : v = Step(t, u)
    BY StepType
  <2>2. Follow(t, u) = Follow(t, v)
    BY <1>2, <2>1, FollowStep
  <2>3. ~Over(Longer(u, more)) /\ Step(t, Longer(u, more)) = Longer(v, more)
    BY <1>2, <2>1, LongerStep
  <2>4. Longer(u, more) \in Walks(t)
    BY LongerType
  <2>5. Follow(t, Longer(u, more)) = Follow(t, Longer(v, more))
    BY <2>3, <2>4, FollowStep
  <2>6. P(v)
    BY <1>2, <2>1
  <2> QED BY <2>2, <2>5, <2>6
<1> HIDE DEF S
<1>3. w \in S
  BY <1>1, <1>2, WalkInduction
<1> QED BY <1>3 DEF S

LEMMA AfterFields ==
  ASSUME NEW t, NEW w \in Walks(t), NEW l
  PROVE  /\ After(l, w) = [at |-> w.at, rest |-> w.rest, links |-> l \o w.links, error |-> w.error]
         /\ After(l, w).rest = w.rest /\ After(l, w).error = w.error
<1>1. PICK r : r = l \o w.links
  OBVIOUS
<1>2. After(l, w) = [w EXCEPT !.links = r]
  BY <1>1 DEF After
<1>3. [w EXCEPT !.links = r] = [at |-> w.at, rest |-> w.rest, links |-> r, error |-> w.error]
  BY DEF Walks
<1> QED BY <1>1, <1>2, <1>3

LEMMA JoinedMore ==
  ASSUME NEW t, NEW l \in Seq(DOMAIN t), NEW s \in Seq(DOMAIN t), NEW x \in DOMAIN t
  PROVE  Append(l \o s, x) = l \o Append(s, x)
  OBVIOUS

(* Links followed before make no difference but that there may be too many. *)
LEMMA AfterStep ==
  ASSUME NEW t, IsTree(t), NEW w \in Walks(t), ~Over(w), NEW l \in Seq(DOMAIN t),
         After(l, w) \in Walks(t), Step(t, After(l, w)).error = "none"
  PROVE  /\ ~Over(After(l, w))
         /\ Step(t, After(l, w)) = After(l, Step(t, w))
<1>1. PICK u \in Walks(t) : u = After(l, w)
  OBVIOUS
<1>2. u = [at |-> w.at, rest |-> w.rest, links |-> l \o w.links, error |-> w.error]
  BY <1>1, AfterFields
<1>3. ~Over(u)
  BY <1>2 DEF Over
<1>4. PICK p : p = Ahead(w) /\ p = Ahead(u)
  <2>1. Ahead(w) = Ahead(u)
    BY <1>2 DEF Ahead
  <2> QED BY <2>1, Zenon
<1>5. Step(t, u) = Moved(t, u, p)
  BY <1>3, <1>4, StepMoves
<1>6. PICK v \in Walks(t) : v = Step(t, w) /\ v = Moved(t, w, p)
  <2>1. Step(t, w) \in Walks(t) /\ Step(t, w) = Moved(t, w, p)
    BY <1>4, StepMoves, StepType
  <2> QED BY <2>1, Zenon
<1>7. After(l, v) = [at |-> v.at, rest |-> v.rest, links |-> l \o v.links, error |-> v.error]
  BY AfterFields
<1>8. Dir(t, w.at) /\ p \in DOMAIN t /\ ~(Link(t, p) /\ Len(u.links) = MaxLinks)
  BY <1>1, <1>2, <1>5 DEF Moved
<1>9. CASE ~Link(t, p)
  <2>1. v = [at |-> p, rest |-> Tail(w.rest), links |-> w.links, error |-> "none"]
    BY <1>6, <1>8, <1>9 DEF Moved
  <2>2. Step(t, u) = [at |-> p, rest |-> Tail(w.rest), links |-> l \o w.links, error |-> "none"]
    BY <1>2, <1>5, <1>8, <1>9 DEF Moved
  <2> QED BY <1>1, <1>3, <1>6, <1>7, <2>1, <2>2
<1>10. CASE Link(t, p)
  <2>1. w.links \in Seq(DOMAIN t) /\ u.links = l \o w.links
    BY <1>2, WalkFields
  <2>2. Len(w.links) # MaxLinks
    <3>1. Len(u.links) \in Nat /\ Len(u.links) <= MaxLinks /\ Len(w.links) \in Nat /\ Len(l) \in Nat
      BY WalkFields
    <3>2. Len(u.links) = Len(l) + Len(w.links)
      BY <2>1, Joined
    <3>3. Len(u.links) # MaxLinks
      BY <1>8, <1>10
    <3> QED BY <3>1, <3>2, <3>3, Numbers
  <2>3. v = [at |-> IF t[p].abs THEN Root ELSE w.at, rest |-> t[p].target \o Tail(w.rest),
             links |-> Append(w.links, p), error |-> "none"]
    BY <1>6, <1>8, <1>10, <2>2 DEF Moved
  <2>4. Step(t, u) = [at |-> IF t[p].abs THEN Root ELSE w.at, rest |-> t[p].target \o Tail(w.rest),
                      links |-> Append(l \o w.links, p), error |-> "none"]
    BY <1>2, <1>5, <1>8, <1>10, <2>1 DEF Moved
  <2>5. Append(l \o w.links, p) = l \o Append(w.links, p)
    <3>1. PICK s \in Seq(DOMAIN t) : s = w.links
      BY <2>1, Zenon
    <3>2. p \in DOMAIN t
      BY <1>8
    <3>3. Append(l \o s, p) = l \o Append(s, p)
      BY <3>2, JoinedMore
    <3> QED BY <3>1, <3>3
  <2> QED BY <1>1, <1>3, <1>6, <1>7, <2>3, <2>4, <2>5
<1> QED BY <1>9, <1>10

LEMMA FewerLinks ==
  ASSUME NEW t, IsTree(t), NEW w \in Walks(t), NEW l \in Seq(DOMAIN t),
         After(l, w) \in Walks(t), Follow(t, After(l, w)).error = "none"
  PROVE  /\ Follow(t, w).error = "none"
         /\ Follow(t, After(l, w)) = After(l, Follow(t, w))
<1> DEFINE P(u) == After(l, u) \in Walks(t) /\ Follow(t, After(l, u)).error = "none" =>
                     /\ Follow(t, u).error = "none"
                     /\ Follow(t, After(l, u)) = After(l, Follow(t, u))
           S == { u \in Walks(t) : P(u) }
<1>1. ASSUME NEW u \in Walks(t), Over(u) PROVE u \in S
  <2>1. Follow(t, u) = u
    BY <1>1, FollowStep
  <2>2. ASSUME After(l, u) \in Walks(t) PROVE Follow(t, After(l, u)) = After(l, u)
    <3>1. After(l, u).rest = u.rest /\ After(l, u).error = u.error
      BY AfterFields, Zenon
    <3>2. Over(After(l, u))
      BY <1>1, <3>1 DEF Over
    <3> QED BY <2>2, <3>2, FollowStep
  <2>3. After(l, u).error = u.error
    BY AfterFields, Zenon
  <2> QED BY <2>1, <2>2, <2>3
<1>2. ASSUME NEW u \in Walks(t), ~Over(u), Step(t, u) \in S PROVE u \in S
  <2>1. SUFFICES ASSUME After(l, u) \in Walks(t), Follow(t, After(l, u)).error = "none"
                 PROVE  /\ Follow(t, u).error = "none"
                        /\ Follow(t, After(l, u)) = After(l, Follow(t, u))
    OBVIOUS
  <2>2. PICK v \in Walks(t) : v = Step(t, u)
    BY StepType
  <2>3. Follow(t, u) = Follow(t, v)
    BY <1>2, <2>2, FollowStep
  <2>4. PICK x \in Walks(t) : x = After(l, u)
    BY <2>1
  <2>5. PICK y \in Walks(t) : y = Step(t, x)
    BY StepType
  <2>6. ~Over(x)
    <3>1. x.rest = u.rest /\ x.error = u.error
      BY <2>4, AfterFields, Zenon
    <3> QED BY <1>2, <3>1 DEF Over
  <2>7. Follow(t, x) = Follow(t, y)
    BY <2>5, <2>6, FollowStep
  <2>8. y.error = "none"
    <3>1. CASE Over(y)
      <4>1. Follow(t, y) = y
        BY <3>1, FollowStep
      <4> QED BY <2>1, <2>4, <2>7, <4>1
    <3>2. CASE ~Over(y)
      BY <3>2 DEF Over
    <3> QED BY <3>1, <3>2
  <2>9. y = After(l, v)
    BY <1>2, <2>1, <2>2, <2>4, <2>5, <2>8, AfterStep
  <2>10. P(v)
    BY <1>2, <2>2
  <2> QED BY <2>1, <2>3, <2>4, <2>7, <2>9, <2>10
<1> HIDE DEF S
<1>3. w \in S
  BY <1>1, <1>2, WalkInduction
<1> QED BY <1>3 DEF S

(* And there are not too many if the links of both are not.                 *)
LEMMA MoreLinks ==
  ASSUME NEW t, IsTree(t), NEW w \in Walks(t), NEW l \in Seq(DOMAIN t),
         Follow(t, w).error = "none", Len(l) + Len(Follow(t, w).links) <= MaxLinks
  PROVE  After(l, w) \in Walks(t) /\ Follow(t, After(l, w)) = After(l, Follow(t, w))
<1> DEFINE Fits(u) == Follow(t, u).error = "none" /\ Len(l) + Len(Follow(t, u).links) <= MaxLinks
           P(u) == Fits(u) =>
                     /\ Len(u.links) <= Len(Follow(t, u).links)
                     /\ Follow(t, After(l, u)) = After(l, Follow(t, u))
           S == { u \in Walks(t) : P(u) }
<1>1. ASSUME NEW u \in Walks(t), Len(l) + Len(u.links) <= MaxLinks PROVE After(l, u) \in Walks(t)
  <2>1. After(l, u) = [at |-> u.at, rest |-> u.rest, links |-> l \o u.links, error |-> u.error]
    BY AfterFields, Zenon
  <2>2. PICK s \in Seq(DOMAIN t) : s = u.links
    BY WalkFields
  <2>3. PICK name : name = l \o s
    OBVIOUS
  <2>4. name \in Seq(DOMAIN t) /\ Len(name) <= MaxLinks
    <3>1. l \o s \in Seq(DOMAIN t) /\ Len(l \o s) = Len(l) + Len(s)
      BY Joined
    <3> QED BY <1>1, <2>2, <2>3, <3>1
  <2>5. u.at \in DOMAIN t /\ u.rest \in Seq(Part) /\ u.error \in Errors
    BY WalkFields
  <2>6. After(l, u) = [at |-> u.at, rest |-> u.rest, links |-> name, error |-> u.error]
    BY <2>1, <2>2, <2>3
  <2>7. [at |-> u.at, rest |-> u.rest, links |-> name, error |-> u.error] \in Walks(t)
    BY <2>4, <2>5 DEF Walks
  <2> QED BY <2>6, <2>7
<1>2. ASSUME NEW u \in Walks(t), Over(u) PROVE u \in S
  <2>1. Follow(t, u) = u
    BY <1>2, FollowStep
  <2>2. ASSUME After(l, u) \in Walks(t) PROVE Follow(t, After(l, u)) = After(l, u)
    <3>1. After(l, u).rest = u.rest /\ After(l, u).error = u.error
      BY AfterFields, Zenon
    <3>2. Over(After(l, u))
      BY <1>2, <3>1 DEF Over
    <3> QED BY <2>2, <3>2, FollowStep
  <2>3. Len(u.links) \in Nat
    BY WalkFields
  <2> QED BY <1>1, <2>1, <2>2, <2>3
<1>3. ASSUME NEW u \in Walks(t), ~Over(u), Step(t, u) \in S PROVE u \in S
  <2>1. PICK v \in Walks(t) : v = Step(t, u)
    BY StepType
  <2>2. Follow(t, u) = Follow(t, v)
    BY <1>3, <2>1, FollowStep
  <2>3. SUFFICES ASSUME Fits(u)
                 PROVE  /\ Len(u.links) <= Len(Follow(t, u).links)
                        /\ Follow(t, After(l, u)) = After(l, Follow(t, u))
    OBVIOUS
  <2>4. Len(v.links) <= Len(Follow(t, v).links) /\ Follow(t, After(l, v)) = After(l, Follow(t, v))
    BY <1>3, <2>1, <2>2, <2>3
  <2>5. v.error = "none"
    <3>1. CASE Over(v)
      BY <2>2, <2>3, <3>1, FollowStep
    <3>2. CASE ~Over(v)
      BY <3>2 DEF Over
    <3> QED BY <3>1, <3>2
  <2>6. PICK p : p = Ahead(u)
    OBVIOUS
  <2>7. v = Moved(t, u, p)
    BY <1>3, <2>1, <2>6, StepMoves
  <2>8. /\ Dir(t, u.at) /\ p \in DOMAIN t
        /\ IF Link(t, p) THEN v.links = Append(u.links, p) ELSE v.links = u.links
    BY <2>5, <2>7 DEF Moved
  <2>9. PICK a, b, c, d \in Nat : /\ a = Len(l) /\ b = Len(u.links) /\ c = Len(v.links)
                                  /\ d = Len(Follow(t, v).links)
    <3>1. PICK e \in Walks(t) : e = Follow(t, v)
      BY FollowType
    <3>2. Len(u.links) \in Nat
      BY WalkFields
    <3>3. Len(v.links) \in Nat
      BY WalkFields
    <3>4. Len(e.links) \in Nat
      BY WalkFields
    <3>5. Len(l) \in Nat
      BY LenProperties
    <3> QED BY <3>1, <3>2, <3>3, <3>4, <3>5
  <2>10. b <= c /\ (Link(t, p) => b < c) /\ c <= d /\ a + d <= MaxLinks
    <3>1. PICK s \in Seq(DOMAIN t) : s = u.links
      BY WalkFields
    <3>2. Len(Append(s, p)) = Len(s) + 1
      BY <2>8, Appended
    <3>3. Link(t, p) => c = b + 1
      BY <2>8, <2>9, <3>1, <3>2
    <3>4. ~Link(t, p) => c = b
      BY <2>8, <2>9
    <3>5. c <= d /\ a + d <= MaxLinks
      BY <2>2, <2>3, <2>4, <2>9
    <3> QED BY <3>3, <3>4, <3>5
  <2>11. PICK x \in Walks(t) : x = After(l, u)
    <3>1. Len(l) + Len(u.links) <= MaxLinks
      BY <2>9, <2>10, Numbers
    <3> QED BY <1>1, <3>1
  <2>12. /\ x = [at |-> u.at, rest |-> u.rest, links |-> l \o u.links, error |-> u.error]
         /\ x.at = u.at /\ x.rest = u.rest /\ x.error = u.error /\ Len(x.links) = a + b
    <3>1. x = [at |-> u.at, rest |-> u.rest, links |-> l \o u.links, error |-> u.error]
      BY <2>11, AfterFields, Zenon
    <3>2. PICK s \in Seq(DOMAIN t) : s = u.links
      BY WalkFields
    <3>3. Len(l \o s) = Len(l) + Len(s)
      BY Joined
    <3> QED BY <2>9, <3>1, <3>2, <3>3
  <2>13. ~Over(x) /\ Ahead(x) = p
    BY <1>3, <2>6, <2>12 DEF Over, Ahead
  <2>14. Step(t, x).error = "none"
    <3>1. Step(t, x) = Moved(t, x, p)
      BY <2>13, StepMoves
    <3>2. Link(t, p) => a + b # MaxLinks
      BY <2>10, Numbers
    <3> QED BY <2>8, <2>12, <3>1, <3>2 DEF Moved
  <2>15. Step(t, x) = After(l, v)
    BY <1>3, <2>1, <2>11, <2>14, AfterStep
  <2>16. Follow(t, x) = Follow(t, After(l, v))
    BY <2>13, <2>15, FollowStep
  <2>17. b <= d
    BY <2>10
  <2> QED BY <2>2, <2>4, <2>9, <2>11, <2>16, <2>17
<1> HIDE DEF S
<1>4. w \in S
  BY <1>2, <1>3, WalkInduction
<1> HIDE DEF Fits
<1>5. Fits(w)
  BY DEF Fits
<1>6. P(w)
  BY <1>4 DEF S
<1>7. Len(l) + Len(w.links) <= MaxLinks
  <2>1. Follow(t, w) \in Walks(t)
    BY FollowType
  <2>2. PICK a, b, c \in Nat : a = Len(l) /\ b = Len(w.links) /\ c = Len(Follow(t, w).links)
    BY <2>1, WalkFields
  <2>3. b <= c /\ a + c <= MaxLinks
    BY <1>5, <1>6, <2>2
  <2> QED BY <2>2, <2>3, Numbers
<1> QED BY <1>1, <1>5, <1>6, <1>7

-----------------------------------------------------------------------------
(* Directories are made in a tree, and leave a tree.                        *)

LEMMA WalkType ==
  ASSUME NEW t, IsTree(t), NEW parts \in Seq(Part)
  PROVE  /\ Start(parts) \in Walks(t) /\ Walk(t, parts) \in Walks(t)
         /\ Over(Walk(t, parts)) /\ Walk(t, parts).at \in DOMAIN t
<1>1. Root \in DOMAIN t
  BY DEF IsTree, Dir
<1>2. <<>> \in Seq(DOMAIN t) /\ Len(<<>>) = 0 /\ 0 <= MaxLinks
  BY Numbers
<1>3. Start(parts) \in Walks(t)
  BY <1>1, <1>2 DEF Start, Walks, Errors
<1>4. Walk(t, parts) \in Walks(t) /\ Over(Walk(t, parts))
  BY <1>3, FollowType DEF Walk
<1> QED BY <1>3, <1>4, WalkFields

LEMMA NamedPart ==
  ASSUME NEW s \in Seq(Part), s # <<>>, Last(s) # ".."
  PROVE  Last(s) \in Name
<1>1. Last(s) \in Part
  BY FrontLast
<1> QED BY <1>1 DEF Part

LEMMA AppendedPrefix ==
  ASSUME NEW s \in Seq(Name), NEW x \in Name, NEW k \in 0 .. Len(s)
  PROVE  SubSeq(Append(s, x), 1, k) = SubSeq(s, 1, k)
  OBVIOUS

LEMMA WholePrefix ==
  ASSUME NEW s \in Seq(Name)
  PROVE  SubSeq(s, 1, Len(s)) = s
  OBVIOUS

LEMMA MkdirType ==
  ASSUME NEW t, IsTree(t), NEW parts \in Seq(Part), parts # <<>>, NEW new \in Mkdir(t, parts)
  PROVE  IsTree(new) /\ \A q : Dir(t, q) => Dir(new, q)
<1>1. PICK at : at = Walk(t, Front(parts)).at
  OBVIOUS
<1>2. PICK x : x = Last(parts)
  OBVIOUS
<1>3. PICK p : p = Append(at, x)
  OBVIOUS
<1> DEFINE dir == [kind |-> "dir", abs |-> FALSE, target |-> <<>>]
<1>4. /\ Dir(t, at) /\ x # ".." /\ p \notin DOMAIN t
      /\ new = [q \in DOMAIN t \cup {p} |-> IF q = p THEN dir ELSE t[q]]
  BY <1>1, <1>2, <1>3 DEF Mkdir
<1>5. at \in Seq(Name) /\ x \in Name
  BY <1>2, <1>4, NamedPart DEF IsTree, Dir
<1>6. p \in Seq(Name) /\ Len(p) = Len(at) + 1 /\ p # <<>>
  BY <1>3, <1>5, Appended
<1>7. dir \in Node
  BY DEF Node
<1>8. /\ DOMAIN new = DOMAIN t \cup {p} /\ new[p] = dir
      /\ \A q \in DOMAIN t : new[q] = t[q]
  BY <1>4
<1>9. \A q : Dir(t, q) => Dir(new, q)
  BY <1>8 DEF Dir
<1>10. new \in [DOMAIN new -> Node]
  <2>1. \A q \in DOMAIN t : t[q] \in Node
    BY DEF IsTree
  <2> QED BY <1>4, <1>7, <2>1
<1>11. DOMAIN new \subseteq Seq(Name) /\ Dir(new, Root)
  BY <1>6, <1>8, <1>9 DEF IsTree
<1>12. ASSUME NEW q \in DOMAIN new
       PROVE  /\ \A k \in 0 .. Len(q) - 1 : Dir(new, SubSeq(q, 1, k))
              /\ Link(new, q) => Len(new[q].target) <= MaxParts
  <2>1. CASE q \in DOMAIN t
    <3>1. \A k \in 0 .. Len(q) - 1 : Dir(t, SubSeq(q, 1, k))
      BY <2>1 DEF IsTree
    <3>2. Link(new, q) => Link(t, q) /\ new[q] = t[q]
      BY <1>8, <2>1 DEF Link
    <3>3. Link(t, q) => Len(t[q].target) <= MaxParts
      BY <2>1 DEF IsTree
    <3> QED BY <1>9, <3>1, <3>2, <3>3
  <2>2. CASE q = p
    <3>1. ASSUME NEW k \in 0 .. Len(q) - 1 PROVE Dir(t, SubSeq(q, 1, k))
      <4>1. k \in 0 .. Len(at)
        BY <1>5, <1>6, <2>2
      <4>2. SubSeq(q, 1, k) = SubSeq(at, 1, k)
        BY <1>3, <1>5, <2>2, <4>1, AppendedPrefix
      <4>3. CASE k = Len(at)
        BY <1>4, <1>5, <4>2, <4>3, WholePrefix
      <4>4. CASE k # Len(at)
        <5>1. k \in 0 .. Len(at) - 1
          BY <1>5, <4>1, <4>4
        <5>2. at \in DOMAIN t
          BY <1>4 DEF Dir
        <5>3. Dir(t, SubSeq(at, 1, k))
          BY <5>1, <5>2 DEF IsTree
        <5> QED BY <4>2, <5>3
      <4> QED BY <4>3, <4>4
    <3>2. ~Link(new, q)
      BY <1>8, <2>2 DEF Link
    <3> QED BY <1>9, <3>1, <3>2
  <2> QED BY <1>8, <2>1, <2>2
<1> QED BY <1>9, <1>10, <1>11, <1>12 DEF IsTree

(* The trees a launch can have before it.                                   *)
Forest == { t \in UNION { [D -> Node] : D \in SUBSET Seq(Name) } : IsTree(t) /\ Dir(t, Cwd) }
MadeSet == [tree : Forest, ok : BOOLEAN]

LEMMA InForest ==
  ASSUME NEW t
  PROVE  t \in Forest <=> IsTree(t) /\ Dir(t, Cwd)
<1>1. ASSUME IsTree(t) PROVE t \in UNION { [D -> Node] : D \in SUBSET Seq(Name) }
  <2>1. t \in [DOMAIN t -> Node] /\ DOMAIN t \in SUBSET Seq(Name)
    BY <1>1 DEF IsTree
  <2> QED BY <2>1
<1> QED BY <1>1 DEF Forest

LEMMA MakeDirType ==
  ASSUME NEW made \in MadeSet, NEW parts \in Seq(Part), parts # <<>>
  PROVE  MakeDir(made, parts) \in MadeSet
<1>1. PICK t \in Forest, ok \in BOOLEAN : made = [tree |-> t, ok |-> ok]
  BY DEF MadeSet
<1>2. CASE MakeDir(made, parts) = made
  BY <1>2
<1>3. CASE Mkdir(t, parts) = {} /\ MakeDir(made, parts) = [made EXCEPT !.ok = FALSE]
  BY <1>1, <1>3 DEF MadeSet
<1>4. CASE Mkdir(t, parts) # {}
           /\ MakeDir(made, parts) = [made EXCEPT !.tree = CHOOSE x \in Mkdir(t, parts) : TRUE]
  <2>1. PICK x \in Mkdir(t, parts) : x = CHOOSE y \in Mkdir(t, parts) : TRUE
    BY <1>4
  <2>2. x \in Forest
    BY InForest, MkdirType
  <2>3. MakeDir(made, parts) = [tree |-> x, ok |-> ok]
    BY <1>1, <1>4, <2>1
  <2> QED BY <2>2, <2>3 DEF MadeSet
<1> QED BY <1>1, <1>2, <1>3, <1>4 DEF MakeDir

LEMMA MkdirAllType ==
  ASSUME NEW t \in Forest, NEW parts \in Seq(Part)
  PROVE  MkdirAll(t, parts) \in MadeSet
<1>1. PICK len \in Nat : len = Len(parts)
  OBVIOUS
<1> DEFINE b == [tree |-> t, ok |-> TRUE]
           Is(g) == g = [k \in 0 .. len |-> IF k = 0 THEN b ELSE MakeDir(g[k - 1], SubSeq(parts, 1, k))]
           turn == [x \in MadeSet \X (1 .. len) |-> MakeDir(x[1], SubSeq(parts, 1, x[2]))]
<1>2. b \in MadeSet
  BY DEF MadeSet
<1>3. ASSUME NEW made \in MadeSet, NEW k \in 1 .. len
      PROVE  MakeDir(made, SubSeq(parts, 1, k)) \in MadeSet
  <2>1. SubSeq(parts, 1, k) \in Seq(Part) /\ Len(SubSeq(parts, 1, k)) = k
    BY <1>1
  <2>2. SubSeq(parts, 1, k) # <<>>
    <3>1. Len(<<>>) = 0 /\ k # 0
      OBVIOUS
    <3> QED BY <2>1, <3>1, Zenon
  <2> QED BY <2>1, <2>2, MakeDirType
<1>4. turn \in [MadeSet \X (1 .. len) -> MadeSet]
  <2>1. ASSUME NEW x \in MadeSet \X (1 .. len)
        PROVE  MakeDir(x[1], SubSeq(parts, 1, x[2])) \in MadeSet
    BY <1>3
  <2> QED BY <2>1
<1>5. ASSUME NEW made \in MadeSet, NEW k \in 1 .. len
      PROVE  turn[<<made, k>>] = MakeDir(made, SubSeq(parts, 1, k))
  OBVIOUS
<1> HIDE DEF turn, b
<1>6. PICK f : IsLoop(f, len, MadeSet, b, turn)
  <2>1. IsTurn(turn, len, MadeSet)
    BY <1>4 DEF IsTurn
  <2> QED BY <1>2, <2>1, LoopExists
<1>7. f \in [0 .. len -> MadeSet] /\ f[0] = b /\ \A k \in 1 .. len : f[k] = turn[<<f[k - 1], k>>]
  BY <1>6 DEF IsLoop
<1>8. Is(f)
  <2>1. ASSUME NEW k \in 0 .. len
        PROVE  f[k] = IF k = 0 THEN b ELSE MakeDir(f[k - 1], SubSeq(parts, 1, k))
    <3>1. CASE k = 0
      BY <1>7, <3>1
    <3>2. CASE k # 0
      <4>1. k \in 1 .. len /\ k - 1 \in 0 .. len
        BY <3>2
      <4>2. f[k - 1] \in MadeSet
        BY <1>7, <4>1
      <4>3. f[k] = turn[<<f[k - 1], k>>]
        BY <1>7, <4>1
      <4> QED BY <1>5, <3>2, <4>1, <4>2, <4>3
    <3> QED BY <3>1, <3>2
  <2>2. f = [k \in 0 .. len |-> f[k]]
    BY <1>7
  <2> QED BY <2>1, <2>2
<1> DEFINE v == CHOOSE g : Is(g)
<1>9. Is(v)
  BY <1>8
<1>10. MkdirAll(t, parts) = v[len]
  BY <1>1 DEF MkdirAll, b
<1> HIDE DEF v
<1>11. v[0] = b /\ \A k \in 1 .. len : v[k] = MakeDir(v[k - 1], SubSeq(parts, 1, k))
  <2>1. \A k \in 0 .. len : v[k] = IF k = 0 THEN b ELSE MakeDir(v[k - 1], SubSeq(parts, 1, k))
    BY <1>9
  <2> QED BY <2>1
<1>12. Keeps(v, len, MadeSet)
  <2>1. v = [k \in 0 .. len |-> v[k]]
    BY <1>9
  <2> QED BY <1>2, <1>3, <1>11, <2>1 DEF Keeps
<1>13. v \in [0 .. len -> MadeSet]
  BY <1>12, LoopTyped
<1> QED BY <1>10, <1>13

-----------------------------------------------------------------------------
(* A walk from a directory.                                                 *)

At(p, rest) == [at |-> p, rest |-> rest, links |-> <<>>, error |-> "none"]

LEMMA AtType ==
  ASSUME NEW t, NEW p \in DOMAIN t, NEW rest \in Seq(Part)
  PROVE  At(p, rest) \in Walks(t)
<1>1. <<>> \in Seq(DOMAIN t) /\ Len(<<>>) = 0 /\ 0 <= MaxLinks
  BY Numbers
<1> QED BY <1>1 DEF At, Walks, Errors

LEMMA Split ==
  ASSUME NEW p \in Seq(Name), NEW rest \in Seq(Part), NEW k \in 1 .. Len(p)
  PROVE  /\ SubSeq(p, k, Len(p)) \o rest \in Seq(Part) /\ SubSeq(p, k, Len(p)) \o rest # <<>>
         /\ Head(SubSeq(p, k, Len(p)) \o rest) = p[k] /\ p[k] \in Name
         /\ Tail(SubSeq(p, k, Len(p)) \o rest) = SubSeq(p, k + 1, Len(p)) \o rest
         /\ Append(SubSeq(p, 1, k - 1), p[k]) = SubSeq(p, 1, k)
<1>1. p \in Seq(Part)
  BY DEF Part
<1>2. PICK len \in Nat : len = Len(p)
  OBVIOUS
<1>3. PICK s \in Seq(Part) : s = SubSeq(p, k, len) /\ Len(s) = len - k + 1
                               /\ \A i \in 1 .. Len(s) : s[i] = p[k + i - 1]
  <2>1. /\ SubSeq(p, k, len) \in Seq(Part) /\ Len(SubSeq(p, k, len)) = len - k + 1
        /\ \A i \in 1 .. len - k + 1 : SubSeq(p, k, len)[i] = p[k + i - 1]
    BY <1>1, <1>2
  <2> QED BY <2>1
<1>4. s # <<>>
  <2>1. len - k + 1 # 0 /\ Len(<<>>) = 0
    BY <1>2
  <2> QED BY <1>3, <2>1
<1>5. Head(s) = p[k] /\ Tail(s) = SubSeq(p, k + 1, len)
  <2>1. Head(s) = s[1] /\ s[1] = p[k]
    BY <1>2, <1>3, <1>4
  <2>2. PICK u \in Seq(Part) : u = SubSeq(p, k + 1, len) /\ Len(u) = len - k
                                /\ \A i \in 1 .. len - k : u[i] = p[k + i]
    <3>1. /\ SubSeq(p, k + 1, len) \in Seq(Part) /\ Len(SubSeq(p, k + 1, len)) = len - k
          /\ \A i \in 1 .. len - k : SubSeq(p, k + 1, len)[i] = p[k + i]
      BY <1>1, <1>2
    <3> QED BY <3>1
  <2>3. PICK v \in Seq(Part) : v = Tail(s) /\ Len(v) = len - k /\ \A i \in 1 .. len - k : v[i] = s[i + 1]
    <3>1. /\ Tail(s) \in Seq(Part) /\ Len(Tail(s)) = len - k
          /\ \A i \in 1 .. len - k : Tail(s)[i] = s[i + 1]
      BY <1>2, <1>3, <1>4
    <3> QED BY <3>1
  <2>4. ASSUME NEW i \in 1 .. len - k PROVE v[i] = u[i]
    <3>1. i + 1 \in 1 .. Len(s) /\ k + (i + 1) - 1 = k + i
      BY <1>2, <1>3
    <3> QED BY <1>3, <2>2, <2>3, <3>1
  <2>5. v = u
    <3>1. Len(u) = Len(v) /\ \A i \in 1 .. Len(v) : v[i] = u[i]
      BY <2>2, <2>3, <2>4
    <3> QED BY <3>1, SeqEqual
  <2> QED BY <2>1, <2>2, <2>3, <2>5
<1>6. s \o rest \in Seq(Part) /\ s \o rest # <<>> /\ Head(s \o rest) = Head(s) /\ Tail(s \o rest) = Tail(s) \o rest
  BY <1>4, Joined, JoinedHead
<1>7. Append(SubSeq(p, 1, k - 1), p[k]) = SubSeq(p, 1, k)
  BY <1>2
<1>8. p[k] \in Name
  BY <1>2
<1> QED BY <1>2, <1>3, <1>5, <1>6, <1>7, <1>8

(* The canonical path of a file or directory leads to it and over no link.  *)
LEMMA Canonical ==
  ASSUME NEW t, IsTree(t), NEW p \in DOMAIN t, ~Link(t, p), NEW rest \in Seq(Part)
  PROVE  Walk(t, p \o rest) = Follow(t, At(p, rest))
<1>1. p \in Seq(Name) /\ p \in Seq(Part) /\ Root \in DOMAIN t
  BY DEF IsTree, Dir, Part
<1>2. PICK len \in Nat : len = Len(p)
  BY <1>1
<1> DEFINE W(k) == At(SubSeq(p, 1, k), SubSeq(p, k + 1, len) \o rest)
           S == { k \in 0 .. len : Walk(t, p \o rest) = Follow(t, W(k)) }
<1>3. 0 \in S
  <2>1. SubSeq(p, 1, 0) = Root /\ SubSeq(p, 0 + 1, len) = p
    BY <1>1, <1>2 DEF Root
  <2>2. W(0) = Start(p \o rest)
    BY <2>1 DEF At, Start
  <2> QED BY <2>2 DEF Walk
<1>4. ASSUME NEW k \in 1 .. len, k - 1 \in S PROVE k \in S
  <2>1. PICK more \in Seq(Part) :
          /\ more = SubSeq(p, k, len) \o rest /\ more # <<>> /\ Head(more) = p[k]
          /\ Tail(more) = SubSeq(p, k + 1, len) \o rest
    BY <1>1, <1>2, Split
  <2>2. p[k] \in Name /\ p[k] # ".." /\ Append(SubSeq(p, 1, k - 1), p[k]) = SubSeq(p, 1, k)
    BY <1>1, <1>2, Split, SeatbeltAssumption
  <2>3. PICK q : q = SubSeq(p, 1, k - 1) /\ Dir(t, q) /\ q \in DOMAIN t
    <3>1. k - 1 \in 0 .. Len(p) - 1
      BY <1>2
    <3> QED BY <3>1 DEF IsTree, Dir
  <2>4. PICK u : u = SubSeq(p, 1, k) /\ u \in DOMAIN t /\ ~Link(t, u)
    <3>1. CASE k = len
      BY <1>1, <1>2, <3>1, WholePrefix
    <3>2. CASE k # len
      <4>1. k \in 0 .. Len(p) - 1
        BY <1>2, <3>2
      <4>2. Dir(t, SubSeq(p, 1, k))
        BY <4>1 DEF IsTree
      <4> QED BY <4>2 DEF Dir, Link
    <3> QED BY <3>1, <3>2
  <2>5. PICK w \in Walks(t) : w = At(q, more)
    BY <2>1, <2>3, AtType
  <2>6. w.at = q /\ w.rest = more /\ w.links = <<>> /\ w.error = "none"
    BY <2>5 DEF At
  <2>7. ~Over(w) /\ Ahead(w) = u
    BY <2>1, <2>2, <2>3, <2>4, <2>6 DEF Over, Ahead
  <2>8. Step(t, w) = At(u, Tail(more))
    BY <2>3, <2>4, <2>6, <2>7, StepMoves DEF Moved, At
  <2>9. Follow(t, w) = Follow(t, At(u, Tail(more)))
    BY <2>7, <2>8, FollowStep
  <2>10. W(k - 1) = w /\ W(k) = At(u, Tail(more))
    <3>1. (k - 1) + 1 = k
      OBVIOUS
    <3> QED BY <2>1, <2>3, <2>4, <2>5, <3>1
  <2> QED BY <1>4, <2>9, <2>10
<1> HIDE DEF S
<1>5. len \in S
  BY <1>3, <1>4, AtTheTop
<1>6. SubSeq(p, 1, len) = p /\ SubSeq(p, len + 1, len) \o rest = rest
  <2>1. SubSeq(p, len + 1, len) = <<>>
    BY <1>1, <1>2
  <2> QED BY <1>1, <1>2, <2>1, WholePrefix
<1> QED BY <1>5, <1>6 DEF S

-----------------------------------------------------------------------------
(* How a path is spelt: cleaned, it names where it leads, unless the        *)
(* directory it starts in is spelt by its links.                            *)

Path == [abs : BOOLEAN, parts : Seq(Part)]

Full(s)    == Clean([abs |-> TRUE, parts |-> s]).parts
Goes(p, x) == IF x = ".." THEN Up(p) ELSE Append(p, x)

IsCleaning(v, s) ==
  /\ v \in [0 .. Len(s) -> Seq(Name)]
  /\ v[0] = <<>>
  /\ \A k \in 1 .. Len(s) : v[k] = Goes(v[k - 1], s[k])

LEMMA GoesType ==
  ASSUME NEW p \in Seq(Name), NEW x \in Part
  PROVE  Goes(p, x) \in Seq(Name)
<1>1. CASE x = ".."
  <2>1. CASE p = Root
    BY <1>1, <2>1 DEF Goes, Up
  <2>2. CASE p # Root
    BY <1>1, <2>2, FrontLast DEF Goes, Up, Root
  <2> QED BY <2>1, <2>2
<1>2. CASE x # ".."
  <2>1. x \in Name
    BY <1>2 DEF Part
  <2> QED BY <1>2, <2>1, Appended DEF Goes
<1> QED BY <1>1, <1>2

LEMMA CleanLoop ==
  ASSUME NEW s \in Seq(Part)
  PROVE  \E v : IsCleaning(v, s) /\ Full(s) = v[Len(s)]
<1>1. PICK len \in Nat : len = Len(s)
  OBVIOUS
<1>2. \A k \in 1 .. len : s[k] \in Part
  BY <1>1
<1> DEFINE Turn(p, k) ==
             IF s[k] # ".." THEN Append(p, s[k])
             ELSE IF p # <<>> /\ Last(p) # ".." THEN Front(p) ELSE p
           Is(f) == f = [k \in 0 .. len |-> IF k = 0 THEN <<>> ELSE Turn(f[k - 1], k)]
           turn == [x \in Seq(Name) \X (1 .. len) |-> Goes(x[1], s[x[2]])]
<1>3. ASSUME NEW p \in Seq(Name), NEW k \in 1 .. len PROVE Turn(p, k) = Goes(p, s[k])
  <2>1. p # <<>> => Last(p) # ".."
    BY FrontLast, SeatbeltAssumption
  <2> QED BY <2>1 DEF Goes, Up, Root
<1>4. turn \in [Seq(Name) \X (1 .. len) -> Seq(Name)]
  <2>1. ASSUME NEW x \in Seq(Name) \X (1 .. len) PROVE Goes(x[1], s[x[2]]) \in Seq(Name)
    BY <1>2, GoesType
  <2> QED BY <2>1
<1>5. ASSUME NEW p \in Seq(Name), NEW k \in 1 .. len PROVE turn[<<p, k>>] = Goes(p, s[k])
  OBVIOUS
<1> HIDE DEF Turn, turn
<1>6. PICK f : IsLoop(f, len, Seq(Name), <<>>, turn)
  <2>1. <<>> \in Seq(Name)
    OBVIOUS
  <2> QED BY <1>4, <2>1, LoopExists DEF IsTurn
<1>7. f \in [0 .. len -> Seq(Name)] /\ f[0] = <<>>
  BY <1>6 DEF IsLoop
<1>8. ASSUME NEW k \in 1 .. len PROVE f[k] = Turn(f[k - 1], k)
  <2>1. k - 1 \in 0 .. len
    OBVIOUS
  <2>2. f[k - 1] \in Seq(Name)
    BY <1>7, <2>1
  <2>3. f[k] = turn[<<f[k - 1], k>>]
    BY <1>6 DEF IsLoop
  <2> QED BY <1>3, <1>5, <2>2, <2>3
<1>9. Is(f)
  <2>1. ASSUME NEW k \in 0 .. len PROVE f[k] = IF k = 0 THEN <<>> ELSE Turn(f[k - 1], k)
    <3>1. k = 0 \/ k \in 1 .. len
      OBVIOUS
    <3> QED BY <1>7, <1>8, <3>1
  <2>2. f = [k \in 0 .. len |-> f[k]]
    BY <1>7
  <2> QED BY <2>1, <2>2
<1> DEFINE g == CHOOSE h : Is(h)
<1>10. Is(g)
  BY <1>9
<1>11. Full(s) = g[len]
  BY <1>1 DEF Full, Clean, Turn
<1> HIDE DEF g
<1>12. g[0] = <<>> /\ \A k \in 1 .. len : g[k] = Turn(g[k - 1], k)
  <2>1. \A k \in 0 .. len : g[k] = IF k = 0 THEN <<>> ELSE Turn(g[k - 1], k)
    BY <1>10
  <2> QED BY <2>1
<1>13. g \in [0 .. len -> Seq(Name)]
  <2>1. ASSUME NEW k \in 1 .. len, g[k - 1] \in Seq(Name) PROVE g[k] \in Seq(Name)
    <3>1. g[k] = Goes(g[k - 1], s[k])
      BY <1>3, <1>12, <2>1
    <3> QED BY <1>2, <2>1, <3>1, GoesType
  <2>2. Keeps(g, len, Seq(Name))
    <3>1. g[0] \in Seq(Name) /\ g = [k \in 0 .. len |-> g[k]]
      BY <1>10, <1>12
    <3> QED BY <2>1, <3>1, Zenon DEF Keeps
  <2> QED BY <2>2, LoopTyped
<1>14. ASSUME NEW k \in 1 .. len PROVE g[k] = Goes(g[k - 1], s[k])
  <2>1. k - 1 \in 0 .. len
    OBVIOUS
  <2>2. g[k - 1] \in Seq(Name)
    BY <1>13, <2>1
  <2> QED BY <1>3, <1>12, <2>2
<1> QED BY <1>1, <1>11, <1>12, <1>13, <1>14 DEF IsCleaning

LEMMA FullType ==
  ASSUME NEW s \in Seq(Part)
  PROVE  Full(s) \in Seq(Name)
<1>1. PICK v : IsCleaning(v, s) /\ Full(s) = v[Len(s)]
  BY CleanLoop
<1> QED BY <1>1 DEF IsCleaning

LEMMA FullOn ==
  ASSUME NEW s \in Seq(Part), NEW x \in Part
  PROVE  Full(Append(s, x)) = Goes(Full(s), x)
<1>1. PICK len \in Nat : len = Len(s)
  OBVIOUS
<1>2. PICK u \in Seq(Part) : u = Append(s, x) /\ Len(u) = len + 1 /\ u[len + 1] = x
                              /\ \A k \in 1 .. len : u[k] = s[k]
  <2>1. /\ Append(s, x) \in Seq(Part) /\ Len(Append(s, x)) = len + 1 /\ Append(s, x)[len + 1] = x
        /\ \A k \in 1 .. len : Append(s, x)[k] = s[k]
    BY <1>1
  <2> QED BY <2>1
<1>3. PICK f : IsCleaning(f, s) /\ Full(s) = f[len]
  BY <1>1, CleanLoop
<1>4. PICK g : IsCleaning(g, u) /\ Full(u) = g[len + 1]
  BY <1>2, CleanLoop
<1> DEFINE S == { k \in 0 .. len : f[k] = g[k] }
<1>5. 0 \in S
  BY <1>3, <1>4 DEF IsCleaning
<1>6. ASSUME NEW k \in 1 .. len, k - 1 \in S PROVE k \in S
  <2>1. k \in 1 .. Len(s) /\ k \in 1 .. Len(u) /\ f[k - 1] = g[k - 1] /\ u[k] = s[k]
    BY <1>1, <1>2, <1>6
  <2>2. f[k] = Goes(f[k - 1], s[k]) /\ g[k] = Goes(g[k - 1], u[k])
    BY <1>3, <1>4, <2>1 DEF IsCleaning
  <2> QED BY <2>1, <2>2
<1> HIDE DEF S
<1>7. len \in S
  BY <1>5, <1>6, AtTheTop
<1>8. g[len + 1] = Goes(g[len], x)
  <2>1. len + 1 \in 1 .. Len(u) /\ (len + 1) - 1 = len
    BY <1>2
  <2> QED BY <1>2, <1>4, <2>1 DEF IsCleaning
<1> QED BY <1>2, <1>3, <1>4, <1>7, <1>8 DEF S

LEMMA FullName ==
  ASSUME NEW p \in Seq(Name)
  PROVE  Full(p) = p
<1>1. p \in Seq(Part)
  BY DEF Part
<1>2. PICK v : IsCleaning(v, p) /\ Full(p) = v[Len(p)]
  BY <1>1, CleanLoop
<1>3. PICK len \in Nat : len = Len(p)
  OBVIOUS
<1> DEFINE S == { k \in 0 .. len : v[k] = SubSeq(p, 1, k) }
<1>4. 0 \in S
  <2>1. SubSeq(p, 1, 0) = <<>>
    OBVIOUS
  <2> QED BY <1>2, <2>1 DEF IsCleaning
<1>5. ASSUME NEW k \in 1 .. len, k - 1 \in S PROVE k \in S
  <2>1. p[k] \in Name /\ p[k] # ".." /\ Append(SubSeq(p, 1, k - 1), p[k]) = SubSeq(p, 1, k)
    BY <1>3, SeatbeltAssumption
  <2>2. v[k] = Goes(v[k - 1], p[k]) /\ v[k - 1] = SubSeq(p, 1, k - 1)
    BY <1>2, <1>3, <1>5 DEF IsCleaning
  <2> QED BY <2>1, <2>2 DEF Goes
<1> HIDE DEF S
<1>6. len \in S
  BY <1>4, <1>5, AtTheTop
<1> QED BY <1>2, <1>3, <1>6, WholePrefix DEF S

Spellings(t) == [walk : Walks(t), spelt : Seq(Part)]

LEMMA SpellType ==
  ASSUME NEW t, IsTree(t), NEW s \in Spellings(t)
  PROVE  /\ Spell(t, s) \in Spellings(t) /\ Spell(t, s).walk = Step(t, s.walk)
         /\ Full(s.spelt) = s.walk.at => Full(Spell(t, s).spelt) = Spell(t, s).walk.at
<1>1. PICK w \in Walks(t), spelt \in Seq(Part) : w = s.walk /\ spelt = s.spelt
  BY DEF Spellings
<1>2. PICK u \in Walks(t) : u = Step(t, w)
  BY StepType
<1>3. PICK next : next = IF Over(w) \/ u.error # "none" THEN spelt
                         ELSE IF ~Link(t, Ahead(w)) THEN Append(spelt, Head(w.rest))
                         ELSE IF t[Ahead(w)].abs THEN Root ELSE spelt
  OBVIOUS
<1>4. Spell(t, s) = [walk |-> u, spelt |-> next]
  BY <1>1, <1>2, <1>3 DEF Spell
<1>5. SUFFICES next \in Seq(Part) /\ (Full(spelt) = w.at => Full(next) = u.at)
  BY <1>1, <1>2, <1>4 DEF Spellings
<1>6. CASE Over(w)
  <2>1. u = w
    BY <1>2, <1>6, StepType
  <2> QED BY <1>3, <1>6, <2>1
<1>7. CASE ~Over(w)
  <2>1. PICK p : p = Ahead(w)
    OBVIOUS
  <2>2. w.rest \in Seq(Part) /\ w.rest # <<>>
    BY <1>7, WalkFields DEF Over
  <2>3. u = Moved(t, w, p)
    BY <1>2, <1>7, <2>1, StepMoves
  <2>4. CASE u.error # "none"
    <3>1. u.at = w.at
      BY <2>3, <2>4, WalkFields DEF Moved
    <3> QED BY <1>3, <2>4, <3>1
  <2>5. CASE u.error = "none" /\ ~Link(t, p)
    <3>1. Head(w.rest) \in Part
      BY <2>2, HeadTail
    <3>2. next = Append(spelt, Head(w.rest)) /\ next \in Seq(Part)
      BY <1>3, <1>7, <2>1, <2>5, <3>1, Appended
    <3>3. u.at = p
      BY <2>3, <2>5 DEF Moved
    <3>4. Full(next) = Goes(Full(spelt), Head(w.rest))
      BY <3>1, <3>2, FullOn
    <3> QED BY <2>1, <3>2, <3>3, <3>4 DEF Goes, Ahead
  <2>6. CASE u.error = "none" /\ Link(t, p)
    <3>1. u.at = IF t[p].abs THEN Root ELSE w.at
      BY <2>3, <2>6 DEF Moved
    <3>2. next = IF t[p].abs THEN Root ELSE spelt
      BY <1>3, <1>7, <2>1, <2>6
    <3>3. Root \in Seq(Part) /\ Full(Root) = Root
      <4>1. <<>> \in Seq(Part) /\ <<>> \in Seq(Name)
        OBVIOUS
      <4> QED BY <4>1, FullName DEF Root
    <3> QED BY <3>1, <3>2, <3>3
  <2> QED BY <2>4, <2>5, <2>6
<1> QED BY <1>6, <1>7

LEMMA GetwdType ==
  ASSUME NEW t, IsTree(t), Dir(t, Cwd)
  PROVE  Getwd(t) \in Seq(Part)
<1>1. Cwd \in Seq(Part) /\ Pwd \in Seq(Part)
  BY LaunchAssumption DEF IsTree, Dir, Part
<1> QED BY <1>1 DEF Getwd

(* Where a path is absolute, or its directory is spelt by no link, its name *)
(* in the profile is where the kernel finds it.                             *)
LEMMA CanonicalPath ==
  ASSUME NEW t, IsTree(t), Dir(t, Cwd), NEW path \in Path, path.abs \/ Getwd(t) = Cwd
  PROVE  canonicalSBPLPath(t, path) = Walk(t, Absolute(path)).at
<1>1. /\ Cwd \in DOMAIN t /\ Root \in DOMAIN t /\ ~Link(t, Cwd) /\ Cwd \in Seq(Name) /\ Cwd \in Seq(Part)
      /\ path.abs \in BOOLEAN /\ path.parts \in Seq(Part)
  BY DEF IsTree, Dir, Link, Part, Path
<1>2. PICK base \in DOMAIN t : base = IF path.abs THEN Root ELSE Cwd
  BY <1>1
<1>3. PICK w \in Walks(t) : w = At(base, path.parts)
  BY <1>1, AtType
<1>4. [Start(path.parts) EXCEPT !.at = IF path.abs THEN Root ELSE Cwd] = w
  BY <1>2, <1>3 DEF Start, At
<1>5. Walk(t, Absolute(path)) = Follow(t, w)
  <2>1. CASE path.abs
    BY <1>2, <1>3, <2>1 DEF Absolute, Walk, Start, At
  <2>2. CASE ~path.abs
    BY <1>1, <1>2, <1>3, <2>2, Canonical DEF Absolute
  <2> QED BY <2>1, <2>2
<1>6. PICK spelt \in Seq(Part) : spelt = IF path.abs THEN Root ELSE Getwd(t)
  <2>1. Root \in Seq(Part)
    BY DEF Root
  <2>2. Getwd(t) \in Seq(Part)
    BY GetwdType
  <2> QED BY <2>1, <2>2
<1>7. PICK s0 \in Spellings(t) : s0 = [walk |-> w, spelt |-> spelt]
  BY DEF Spellings
<1>8. Full(s0.spelt) = s0.walk.at
  <2>1. w.at = base
    BY <1>3 DEF At
  <2>2. spelt = base /\ base \in Seq(Name)
    BY <1>1, <1>2, <1>6 DEF Root
  <2>3. Full(base) = base
    BY <2>2, FullName
  <2> QED BY <1>7, <2>1, <2>2, <2>3
<1>9. PICK len \in Nat : len = Steps(w)
  BY StepsType
<1> DEFINE Is(g) == g = [k \in 0 .. len |-> IF k = 0 THEN s0 ELSE Spell(t, g[k - 1])]
           turn == [x \in Spellings(t) \X (1 .. len) |-> Spell(t, x[1])]
<1>10. turn \in [Spellings(t) \X (1 .. len) -> Spellings(t)]
  <2>1. ASSUME NEW x \in Spellings(t) \X (1 .. len) PROVE Spell(t, x[1]) \in Spellings(t)
    BY SpellType
  <2> QED BY <2>1
<1>11. ASSUME NEW s \in Spellings(t), NEW k \in 1 .. len PROVE turn[<<s, k>>] = Spell(t, s)
  OBVIOUS
<1> HIDE DEF turn
<1>12. PICK f : IsLoop(f, len, Spellings(t), s0, turn)
  BY <1>10, LoopExists DEF IsTurn
<1>13. Is(f)
  <2>1. f \in [0 .. len -> Spellings(t)] /\ f[0] = s0
    BY <1>12 DEF IsLoop
  <2>2. ASSUME NEW k \in 1 .. len PROVE f[k] = Spell(t, f[k - 1])
    <3>1. k - 1 \in 0 .. len
      OBVIOUS
    <3>2. f[k - 1] \in Spellings(t) /\ f[k] = turn[<<f[k - 1], k>>]
      BY <1>12, <2>1, <3>1 DEF IsLoop
    <3> QED BY <1>11, <3>2
  <2>3. ASSUME NEW k \in 0 .. len PROVE f[k] = IF k = 0 THEN s0 ELSE Spell(t, f[k - 1])
    <3>1. k = 0 \/ k \in 1 .. len
      OBVIOUS
    <3> QED BY <2>1, <2>2, <3>1
  <2>4. f = [k \in 0 .. len |-> f[k]]
    BY <2>1
  <2> QED BY <2>3, <2>4
<1> DEFINE v == CHOOSE g : Is(g)
<1>14. Is(v)
  BY <1>13
<1>15. canonicalSBPLPath(t, path) = Full(v[len].spelt)
  <2>1. s0 = [walk |-> w, spelt |-> IF path.abs THEN Root ELSE Getwd(t)]
    BY <1>6, <1>7
  <2> QED BY <1>4, <1>9, <2>1, Zenon DEF canonicalSBPLPath, Full
<1> HIDE DEF v
<1>16. v[0] = s0 /\ \A k \in 1 .. len : v[k] = Spell(t, v[k - 1])
  <2>1. \A k \in 0 .. len : v[k] = IF k = 0 THEN s0 ELSE Spell(t, v[k - 1])
    BY <1>14
  <2> QED BY <2>1
<1> DEFINE u == [k \in 0 .. len |-> v[k].walk]
           S == { k \in 0 .. len : v[k] \in Spellings(t) /\ Full(v[k].spelt) = v[k].walk.at }
<1>17. 0 \in S
  BY <1>8, <1>16
<1>18. ASSUME NEW k \in 1 .. len, k - 1 \in S PROVE k \in S
  <2>1. v[k - 1] \in Spellings(t) /\ Full(v[k - 1].spelt) = v[k - 1].walk.at
    BY <1>18
  <2> QED BY <1>16, <2>1, SpellType
<1>19. \A k \in 0 .. len : k \in S
  <2> HIDE DEF S
  <2> QED BY <1>17, <1>18, EveryStep
<1>20. IsRun(t, u, len, w)
  <2>1. \A k \in 0 .. len : v[k] \in Spellings(t)
    BY <1>19
  <2>2. u \in [0 .. len -> Walks(t)]
    BY <2>1 DEF Spellings
  <2>3. u[0] = w
    BY <1>7, <1>16
  <2>4. ASSUME NEW k \in 1 .. len PROVE u[k] = Step(t, u[k - 1])
    <3>1. k \in 0 .. len /\ k - 1 \in 0 .. len
      OBVIOUS
    <3>2. u[k] = v[k].walk /\ u[k - 1] = v[k - 1].walk
      BY <3>1
    <3>3. v[k] = Spell(t, v[k - 1]) /\ v[k - 1] \in Spellings(t)
      BY <1>16, <2>1, <3>1
    <3> QED BY <3>2, <3>3, SpellType
  <2> HIDE DEF u
  <2> QED BY <2>2, <2>3, <2>4 DEF IsRun
<1>21. Follow(t, w) = v[len].walk
  <2>1. u[len] = v[len].walk
    OBVIOUS
  <2>2. len <= len
    OBVIOUS
  <2> HIDE DEF u
  <2>3. Follow(t, w) = u[len]
    BY <1>9, <1>20, <2>2, FollowEnds
  <2> QED BY <2>1, <2>3
<1>22. Full(v[len].spelt) = v[len].walk.at
  BY <1>19
<1> QED BY <1>5, <1>15, <1>21, <1>22

-----------------------------------------------------------------------------
(* What the compiled paths leave in the profile.                            *)

NoPath(r)   == r.path.parts = <<>> /\ ~r.path.abs
Paths(t, r) == IF NoPath(r) THEN {} ELSE resolvePath(t, r).paths

Lines(t, r, path) ==
  LET stat  == Walk(t, Absolute(path))
      isDir == Dir(t, stat.at)
      at    == canonicalSBPLPath(t, path)
  IN  IF stat.error # "none" THEN {}
      ELSE Allow(fsOps(r, isDir), IF isDir THEN "subpath" ELSE "literal", at)
             \cup allowUnix(r, isDir, at)
Sound(t, r, path) ==
  LET stat == Walk(t, Absolute(path))
  IN  stat.error = "none" => ~fsRuleError(r, Dir(t, stat.at))

AtRule == pc \in {"paths", "aliases"}
Compiled(i) ==
  IF i < n THEN Paths(tree, policy.fs[i])
  ELSE IF i = n /\ AtRule THEN Paths(tree, policy.fs[i]) \ todo ELSE {}

TypeInv ==
  /\ IsTree(tree) /\ Dir(tree, Cwd) /\ policy \in Policies /\ n \in Nat \ {0}
  /\ pc \in {"dirs", "fs", "paths", "aliases", "apply", "exec", "running", "failed"}
  /\ AtRule => n \in DOMAIN policy.fs /\ todo \subseteq Paths(tree, rule)
  /\ Complete => n > Len(policy.fs)

(* The patterns that have been read are for the last part of a path.        *)
PatternInv ==
  \A i \in DOMAIN policy.fs :
    pc \notin {"dirs", "failed"} /\ (i < n \/ (i = n /\ AtRule)) =>
      resolvePath(tree, policy.fs[i]).error # "pattern" \/ NoPath(policy.fs[i])

Unpromised == {"file-read-data", "file-read-metadata"}
ProfileInv ==
  pc \notin {"dirs", "failed"} =>
    /\ \A l \in profile :
         \/ l.op \in Unpromised
         \/ \E i \in DOMAIN policy.fs : \E path \in Compiled(i) : l \in Lines(tree, policy.fs[i], path)
         \/ Complete /\ l \in compileNet(policy.net)
    /\ \A i \in DOMAIN policy.fs : \A path \in Compiled(i) :
         Lines(tree, policy.fs[i], path) \subseteq profile /\ Sound(tree, policy.fs[i], path)
    /\ Complete => compileNet(policy.net) \subseteq profile

LEMMA PolicyTyped ==
  ASSUME NEW p \in Policies
  PROVE  /\ p.fs \in Seq(Rule) /\ Len(p.fs) \in Nat /\ DOMAIN p.fs = 1 .. Len(p.fs)
         /\ \A i \in DOMAIN p.fs : p.fs[i] \in Rule /\ p.fs[i].path \in Path
<1>1. PICK s \in Seq(Rule) : s = p.fs
  BY LaunchAssumption
<1>2. Len(s) \in Nat /\ DOMAIN s = 1 .. Len(s) /\ \A i \in DOMAIN s : s[i] \in Rule
  OBVIOUS
<1>3. \A r \in Rule : r.path \in Path
  BY DEF Rule, Path
<1> QED BY <1>1, <1>2, <1>3

LEMMA AbsoluteType ==
  ASSUME NEW t, IsTree(t), Dir(t, Cwd), NEW path \in Path
  PROVE  Absolute(path) \in Seq(Part)
<1>1. Cwd \in Seq(Name)
  BY DEF IsTree, Dir
<1>2. Cwd \in Seq(Part)
  BY <1>1 DEF Part
<1>3. path.parts \in Seq(Part)
  BY DEF Path
<1>4. Cwd \o path.parts \in Seq(Part)
  BY <1>2, <1>3, Joined
<1> QED BY <1>3, <1>4 DEF Absolute

LEMMA SpeltType ==
  ASSUME NEW t, IsTree(t), Dir(t, Cwd), NEW path \in Path
  PROVE  Getwd(t) \in Seq(Part) /\ Spelt(t, path) \in Seq(Part)
<1>1. PICK dir \in Seq(Part) : dir = Getwd(t)
  BY GetwdType
<1>2. path.parts \in Seq(Part)
  BY DEF Path
<1>3. dir \o path.parts \in Seq(Part)
  BY <1>2, Joined
<1> QED BY <1>1, <1>2, <1>3 DEF Spelt

LEMMA TypeInit == Init => TypeInv
<1> SUFFICES ASSUME Init PROVE TypeInv
  OBVIOUS
<1>1. IsTree(tree) /\ Dir(tree, Cwd)
  BY LaunchAssumption DEF Init
<1> QED BY <1>1 DEF Init, TypeInv, AtRule, Complete

LEMMA TypeNext == TypeInv /\ [Next]_vars => TypeInv'
<1> SUFFICES ASSUME TypeInv, [Next]_vars PROVE TypeInv'
  OBVIOUS
<1>1. /\ IsTree(tree) /\ Dir(tree, Cwd) /\ policy \in Policies /\ n \in Nat \ {0}
      /\ AtRule => n \in DOMAIN policy.fs /\ todo \subseteq Paths(tree, rule)
      /\ Complete => n > Len(policy.fs)
  BY DEF TypeInv
<1>2. /\ Len(policy.fs) \in Nat /\ DOMAIN policy.fs = 1 .. Len(policy.fs)
      /\ \A i \in DOMAIN policy.fs : policy.fs[i] \in Rule /\ policy.fs[i].path \in Path
  BY <1>1, PolicyTyped
<1>3. CASE CreatePolicyDir
  <2>1. n + 1 \in Nat /\ policy' = policy /\ n' = n + 1 /\ pc' \in {"dirs", "failed"}
    BY <1>1, <1>3 DEF CreatePolicyDir
  <2>2. CASE tree' = tree
    BY <1>1, <2>1, <2>2 DEF TypeInv, AtRule, Complete
  <2>3. CASE tree' = MkdirAll(tree, Absolute(rule.path)).tree /\ n \in DOMAIN policy.fs
    <3>1. rule.path \in Path
      BY <1>2, <2>3 DEF rule
    <3>2. MkdirAll(tree, Absolute(rule.path)) \in MadeSet
      BY <1>1, <3>1, AbsoluteType, InForest, MkdirAllType
    <3>3. tree' \in Forest
      BY <2>3, <3>2 DEF MadeSet
    <3>4. IsTree(tree') /\ Dir(tree', Cwd)
      BY <3>3, InForest
    <3> QED BY <1>1, <2>1, <3>4 DEF TypeInv, AtRule, Complete
  <2>4. tree' = tree \/ (tree' = MkdirAll(tree, Absolute(rule.path)).tree /\ n \in DOMAIN policy.fs)
    BY <1>1, <1>2, <1>3 DEF CreatePolicyDir
  <2> QED BY <2>2, <2>3, <2>4
<1>4. CASE CompileSBPL
  BY <1>1, <1>4 DEF CompileSBPL, TypeInv, AtRule, Complete
<1>5. CASE compileFS
  <2>1. /\ tree' = tree /\ policy' = policy /\ n' = n /\ rule' = rule
        /\ pc' \in {"paths", "failed"} /\ n <= Len(policy.fs)
        /\ todo' = Paths(tree, rule)
    BY <1>5 DEF compileFS, rule, Empty, NoPath, Paths
  <2> QED BY <1>1, <1>2, <2>1 DEF TypeInv, AtRule, Complete
<1>6. CASE NextRule
  BY <1>1, <1>6 DEF NextRule, TypeInv, AtRule, Complete
<1>7. CASE compilePath
  <2>1. /\ tree' = tree /\ policy' = policy /\ n' = n /\ rule' = rule
        /\ pc' \in {"paths", "failed", "aliases"} /\ pc = "paths" /\ todo' \subseteq todo
    BY <1>7 DEF compilePath, rule
  <2> QED BY <1>1, <2>1 DEF TypeInv, AtRule, Complete
<1>8. CASE allowPathAliases
  <2>1. /\ tree' = tree /\ policy' = policy /\ n' = n /\ rule' = rule /\ todo' = todo
        /\ pc = "aliases" /\ pc' \in {"aliases", "failed"}
    BY <1>8 DEF allowPathAliases, rule
  <2> QED BY <1>1, <2>1 DEF TypeInv, AtRule, Complete
<1>9. CASE AliasesDone
  <2>1. /\ tree' = tree /\ policy' = policy /\ n' = n /\ rule' = rule /\ todo' = todo
        /\ pc = "aliases" /\ pc' \in {"paths", "aliases"}
    BY <1>9 DEF AliasesDone, rule
  <2> QED BY <1>1, <2>1 DEF TypeInv, AtRule, Complete
<1>10. CASE CompileNet
  BY <1>1, <1>2, <1>10 DEF CompileNet, TypeInv, AtRule, Complete
<1>11. CASE Apply
  BY <1>1, <1>11 DEF Apply, TypeInv, AtRule, Complete
<1>12. CASE Exec
  BY <1>1, <1>12 DEF Exec, TypeInv, AtRule, Complete
<1>13. CASE UNCHANGED vars
  BY <1>13 DEF vars, TypeInv, AtRule, Complete, rule
<1> QED BY <1>3, <1>4, <1>5, <1>6, <1>7, <1>8, <1>9, <1>10, <1>11, <1>12, <1>13 DEF Next

(* The directories that are made first leave a tree, and the compilation is *)
(* always at a rule of the policy and its matches.                          *)
THEOREM TypeCorrect == Spec => []TypeInv
  BY TypeInit, TypeNext, PTL DEF Spec

LEMMA PatternNext == TypeInv /\ PatternInv /\ [Next]_vars => PatternInv'
<1> SUFFICES ASSUME TypeInv, PatternInv, [Next]_vars, pc' \notin {"dirs", "failed"},
                    NEW i \in DOMAIN policy'.fs, i < n' \/ (i = n' /\ AtRule')
             PROVE  resolvePath(tree', policy'.fs[i]).error # "pattern"
                      \/ NoPath(policy'.fs[i])
  BY DEF PatternInv
<1>1. /\ Len(policy.fs) \in Nat /\ DOMAIN policy.fs = 1 .. Len(policy.fs) /\ n \in Nat \ {0}
  BY PolicyTyped DEF TypeInv
<1>2. pc' # "dirs" /\ pc' # "failed"
  OBVIOUS
<1>3. CASE CompileSBPL
  BY <1>1, <1>3 DEF CompileSBPL, AtRule
<1>4. CASE compileFS
  <2>1. tree' = tree /\ policy' = policy /\ n' = n /\ pc = "fs"
    BY <1>4 DEF compileFS
  <2>2. CASE i < n
    <3>1. i \in DOMAIN policy.fs
      BY <2>1
    <3>2. pc \notin {"dirs", "failed"}
      BY <2>1
    <3>3. resolvePath(tree, policy.fs[i]).error # "pattern" \/ NoPath(policy.fs[i])
      BY <2>2, <3>1, <3>2, Zenon DEF PatternInv
    <3> QED BY <2>1, <3>3
  <2>3. CASE i = n /\ Empty
    BY <2>1, <2>3 DEF NoPath, Empty, rule
  <2>4. CASE i = n /\ ~Empty
    <3>1. resolvePath(tree, rule).paths # {} \/ resolvePath(tree, rule).error # "pattern"
      BY <1>2, <1>4, <2>4 DEF compileFS, isPathError
    <3>2. resolvePath(tree, rule).error = "pattern" => resolvePath(tree, rule).paths = {}
      BY DEF resolvePath
    <3> QED BY <2>1, <2>4, <3>1, <3>2 DEF rule
  <2> QED BY <1>1, <2>1, <2>2, <2>3, <2>4
<1>5. CASE NextRule
  <2>1. tree' = tree /\ policy' = policy /\ n' = n + 1 /\ pc = "paths" /\ pc' = "fs"
    BY <1>5 DEF NextRule
  <2>2. i \in DOMAIN policy.fs /\ (i < n \/ i = n) /\ AtRule
    BY <1>1, <2>1 DEF AtRule
  <2>3. resolvePath(tree, policy.fs[i]).error # "pattern" \/ NoPath(policy.fs[i])
    BY <2>1, <2>2, Zenon DEF PatternInv
  <2> QED BY <2>1, <2>3
<1>6. CASE compilePath
  BY <1>1, <1>2, <1>6 DEF compilePath, PatternInv, AtRule
<1>7. CASE allowPathAliases
  BY <1>1, <1>2, <1>7 DEF allowPathAliases, PatternInv, AtRule
<1>8. CASE AliasesDone
  BY <1>1, <1>2, <1>8 DEF AliasesDone, PatternInv, AtRule
<1>9. CASE CompileNet
  BY <1>1, <1>2, <1>9 DEF CompileNet, PatternInv, AtRule
<1>10. CASE Apply
  BY <1>1, <1>2, <1>10 DEF Apply, PatternInv, AtRule
<1>11. CASE Exec
  BY <1>1, <1>2, <1>11 DEF Exec, PatternInv, AtRule
<1>12. CASE UNCHANGED vars
  BY <1>1, <1>2, <1>12 DEF vars, PatternInv, AtRule
<1>13. CASE CreatePolicyDir
  BY <1>2, <1>13 DEF CreatePolicyDir
<1> QED BY <1>3, <1>4, <1>5, <1>6, <1>7, <1>8, <1>9, <1>10, <1>11, <1>12, <1>13 DEF Next

(* A step that only adds to the profile: lines that the policy asks for, or *)
(* that a property is not about.                                            *)
Adds ==
  /\ pc \notin {"dirs", "failed"} /\ tree' = tree /\ policy' = policy /\ profile \subseteq profile'
  /\ \A l \in profile' \ profile :
       \/ l.op \in Unpromised
       \/ \E i \in DOMAIN policy.fs : \E path \in Compiled(i)' : l \in Lines(tree, policy.fs[i], path)
       \/ Complete' /\ l \in compileNet(policy.net)
  /\ \A i \in DOMAIN policy.fs :
       /\ Compiled(i) \subseteq Compiled(i)'
       /\ \A path \in Compiled(i)' \ Compiled(i) :
            Lines(tree, policy.fs[i], path) \subseteq profile' /\ Sound(tree, policy.fs[i], path)
  /\ Complete => Complete'
  /\ Complete' /\ ~Complete => compileNet(policy.net) \subseteq profile'

LEMMA AddsStep == ProfileInv /\ Adds => ProfileInv'
<1> SUFFICES ASSUME ProfileInv, Adds PROVE ProfileInv'
  OBVIOUS
<1>1. tree' = tree /\ policy' = policy /\ pc \notin {"dirs", "failed"}
  BY DEF Adds
<1>2. ASSUME NEW l \in profile'
      PROVE  \/ l.op \in Unpromised
             \/ \E i \in DOMAIN policy.fs : \E path \in Compiled(i)' : l \in Lines(tree, policy.fs[i], path)
             \/ Complete' /\ l \in compileNet(policy.net)
  <2>1. CASE l \in profile
    <3>1. \/ l.op \in Unpromised
          \/ \E i \in DOMAIN policy.fs : \E path \in Compiled(i) : l \in Lines(tree, policy.fs[i], path)
          \/ Complete /\ l \in compileNet(policy.net)
      BY <1>1, <2>1 DEF ProfileInv
    <3>2. Complete => Complete'
      BY DEF Adds
    <3>3. \A i \in DOMAIN policy.fs : Compiled(i) \subseteq Compiled(i)'
      BY DEF Adds
    <3> QED BY <3>1, <3>2, <3>3
  <2>2. CASE l \notin profile
    BY <2>2 DEF Adds
  <2> QED BY <2>1, <2>2
<1>3. ASSUME NEW i \in DOMAIN policy.fs, NEW path \in Compiled(i)'
      PROVE  Lines(tree, policy.fs[i], path) \subseteq profile' /\ Sound(tree, policy.fs[i], path)
  <2>1. CASE path \in Compiled(i)
    <3>1. Lines(tree, policy.fs[i], path) \subseteq profile /\ Sound(tree, policy.fs[i], path)
      BY <1>1, <2>1 DEF ProfileInv
    <3>2. profile \subseteq profile'
      BY DEF Adds
    <3> QED BY <3>1, <3>2
  <2>2. CASE path \notin Compiled(i)
    BY <2>2 DEF Adds
  <2> QED BY <2>1, <2>2
<1>4. ASSUME Complete' PROVE compileNet(policy.net) \subseteq profile'
  BY <1>1, <1>4 DEF Adds, ProfileInv
<1> QED BY <1>1, <1>2, <1>3, <1>4, Zenon DEF ProfileInv

LEMMA LineOps ==
  ASSUME NEW t, NEW r, NEW path, NEW l \in Lines(t, r, path)
  PROVE  LET stat  == Walk(t, Absolute(path))
             isDir == Dir(t, stat.at)
             at    == canonicalSBPLPath(t, path)
         IN  /\ stat.error = "none" /\ DOMAIN l = {"op", "filter", "at"} /\ l.at = at
             /\ \/ l.op \in fsOps(r, isDir) /\ l.filter = IF isDir THEN "subpath" ELSE "literal"
                \/ /\ l.filter = IF isDir THEN "unix-subpath" ELSE "unix-literal"
                   /\ \/ l.op = "network-outbound" /\ "u" \in r.access
                      \/ l.op \in {"network-bind", "network-inbound"} /\ isDir /\ "c" \in r.access
<1>1. PICK stat : stat = Walk(t, Absolute(path))
  OBVIOUS
<1>2. PICK isDir, at : isDir = Dir(t, stat.at) /\ at = canonicalSBPLPath(t, path)
  OBVIOUS
<1>3. stat.error = "none"
      /\ l \in Allow(fsOps(r, isDir), IF isDir THEN "subpath" ELSE "literal", at)
                 \cup allowUnix(r, isDir, at)
  BY <1>1, <1>2 DEF Lines
<1>4. ASSUME NEW ops, NEW filter, NEW p, l \in Allow(ops, filter, p)
      PROVE  DOMAIN l = {"op", "filter", "at"} /\ l.op \in ops /\ l.filter = filter /\ l.at = p
  BY <1>4 DEF Allow
<1>5. CASE l \in Allow(fsOps(r, isDir), IF isDir THEN "subpath" ELSE "literal", at)
  <2> DEFINE filter == IF isDir THEN "subpath" ELSE "literal"
  <2>1. /\ DOMAIN l = {"op", "filter", "at"} /\ l.op \in fsOps(r, isDir)
        /\ l.filter = filter /\ l.at = at
    BY <1>4, <1>5, Zenon
  <2> QED BY <1>1, <1>2, <1>3, <2>1
<1>6. CASE l \in allowUnix(r, isDir, at)
  <2> DEFINE filter == IF isDir THEN "unix-subpath" ELSE "unix-literal"
             out == IF "u" \in r.access THEN {"network-outbound"} ELSE {}
             in  == IF isDir /\ "c" \in r.access THEN {"network-bind", "network-inbound"} ELSE {}
  <2>1. l \in Allow(out, filter, at) \/ l \in Allow(in, filter, at)
    BY <1>6 DEF allowUnix
  <2>2. DOMAIN l = {"op", "filter", "at"} /\ l.filter = filter /\ l.at = at
        /\ (l.op \in out \/ l.op \in in)
    BY <1>4, <2>1, Zenon
  <2> QED BY <1>1, <1>2, <1>3, <2>2
<1> QED BY <1>3, <1>5, <1>6

(* What has been compiled changes with compilePath alone.                   *)
LEMMA CompiledKept ==
  ASSUME TypeInv, Next, pc # "dirs", pc' # "failed", ~compilePath, NEW i \in DOMAIN policy.fs
  PROVE  Compiled(i)' = Compiled(i)
<1>1. /\ Len(policy.fs) \in Nat /\ DOMAIN policy.fs = 1 .. Len(policy.fs) /\ n \in Nat \ {0}
      /\ (AtRule => n \in DOMAIN policy.fs /\ todo \subseteq Paths(tree, rule))
  BY PolicyTyped DEF TypeInv
<1>2. CASE compileFS
  <2>1. /\ tree' = tree /\ policy' = policy /\ n' = n
        /\ pc = "fs" /\ pc' = "paths" /\ todo' = Paths(tree, rule)
    BY <1>2 DEF compileFS, rule, Empty, NoPath, Paths
  <2>2. CASE i = n
    BY <1>1, <2>1, <2>2 DEF Compiled, AtRule, rule
  <2>3. CASE i # n
    BY <2>1, <2>3 DEF Compiled
  <2> QED BY <2>2, <2>3
<1>3. CASE NextRule
  <2>1. /\ tree' = tree /\ policy' = policy /\ n' = n + 1
        /\ pc = "paths" /\ pc' = "fs" /\ todo = {}
    BY <1>3 DEF NextRule
  <2>2. CASE i = n
    BY <1>1, <2>1, <2>2 DEF Compiled, AtRule
  <2>3. CASE i < n
    BY <1>1, <2>1, <2>3 DEF Compiled
  <2>4. CASE i > n
    BY <1>1, <2>1, <2>4 DEF Compiled, AtRule
  <2> QED BY <1>1, <2>2, <2>3, <2>4
<1>4. CASE allowPathAliases \/ AliasesDone
  <2>1. /\ tree' = tree /\ policy' = policy /\ n' = n /\ pc = "aliases" /\ pc' \in {"paths", "aliases"}
        /\ todo' = todo
    BY <1>4 DEF allowPathAliases, AliasesDone
  <2> QED BY <2>1 DEF Compiled, AtRule
<1>5. CASE CompileNet \/ Apply \/ Exec
  <2>1. /\ tree' = tree /\ policy' = policy /\ n' = n /\ pc \in {"fs", "apply", "exec"}
        /\ pc' \in {"apply", "exec", "running"}
    BY <1>5 DEF CompileNet, Apply, Exec
  <2> QED BY <2>1 DEF Compiled, AtRule
<1> QED BY <1>2, <1>3, <1>4, <1>5 DEF Next, CreatePolicyDir, CompileSBPL

LEMMA Compiling ==
  ASSUME TypeInv, Next, pc # "dirs", pc' # "failed"
  PROVE  Adds
<1>1. /\ Len(policy.fs) \in Nat /\ DOMAIN policy.fs = 1 .. Len(policy.fs) /\ n \in Nat \ {0}
      /\ (AtRule => n \in DOMAIN policy.fs /\ todo \subseteq Paths(tree, rule))
  BY PolicyTyped DEF TypeInv
<1>2. CASE compileFS
  <2>1. /\ tree' = tree /\ policy' = policy /\ n' = n /\ profile' = profile
        /\ pc = "fs" /\ pc' = "paths" /\ todo' = Paths(tree, rule)
    BY <1>2 DEF compileFS, rule, Empty, NoPath, Paths
  <2>2. ASSUME NEW i \in DOMAIN policy.fs PROVE Compiled(i)' = Compiled(i)
    <3>1. ~compilePath
      BY <2>1 DEF compilePath
    <3> QED BY <3>1, CompiledKept
  <2>3. ~Complete /\ ~Complete'
    BY <2>1 DEF Complete
  <2> QED BY <2>1, <2>2, <2>3 DEF Adds
<1>3. CASE NextRule
  <2>1. /\ tree' = tree /\ policy' = policy /\ n' = n + 1 /\ profile' = profile
        /\ pc = "paths" /\ pc' = "fs" /\ todo = {}
    BY <1>3 DEF NextRule
  <2>2. ASSUME NEW i \in DOMAIN policy.fs PROVE Compiled(i)' = Compiled(i)
    <3>1. ~compilePath
      BY <2>1 DEF compilePath
    <3> QED BY <3>1, CompiledKept
  <2>3. ~Complete /\ ~Complete'
    BY <2>1 DEF Complete
  <2> QED BY <2>1, <2>2, <2>3 DEF Adds
<1>4. CASE compilePath
  <2>1. PICK path \in todo :
          LET stat  == Walk(tree, Absolute(path))
              isDir == Dir(tree, stat.at)
          IN  /\ todo' = todo \ {path}
              /\ IF stat.error # "none" THEN profile' = profile
                 ELSE ~fsRuleError(rule, isDir) /\ profile' = profile \cup Lines(tree, rule, path)
    BY <1>4 DEF compilePath, Lines
  <2>2. /\ tree' = tree /\ policy' = policy /\ n' = n /\ pc = "paths" /\ pc' \in {"paths", "aliases"}
        /\ n \in DOMAIN policy.fs /\ todo \subseteq Paths(tree, rule)
    BY <1>1, <1>4 DEF compilePath, AtRule
  <2>3. profile' = profile \cup Lines(tree, rule, path) /\ Sound(tree, rule, path)
        /\ todo' = todo \ {path}
    BY <2>1 DEF Lines, Sound
  <2> PICK m : m = n
    OBVIOUS
  <2>4. Compiled(m) = Paths(tree, rule) \ todo /\ Compiled(m)' = Compiled(m) \cup {path}
    BY <1>1, <2>1, <2>2, <2>3 DEF Compiled, AtRule, rule
  <2>5. ASSUME NEW i \in DOMAIN policy.fs, i # m PROVE Compiled(i)' = Compiled(i)
    BY <2>2, <2>5 DEF Compiled
  <2>6. ~Complete /\ ~Complete' /\ rule = policy.fs[m]
    BY <2>2 DEF Complete, rule
  <2>7. \A l \in profile' \ profile :
          \E i \in DOMAIN policy.fs : \E p \in Compiled(i)' : l \in Lines(tree, policy.fs[i], p)
    BY <2>2, <2>3, <2>4, <2>6
  <2>8. ASSUME NEW i \in DOMAIN policy.fs
        PROVE  /\ Compiled(i) \subseteq Compiled(i)'
               /\ \A p \in Compiled(i)' \ Compiled(i) :
                    Lines(tree, policy.fs[i], p) \subseteq profile' /\ Sound(tree, policy.fs[i], p)
    <3>1. CASE i = m
      BY <2>3, <2>4, <2>6, <3>1
    <3>2. CASE i # m
      BY <2>5, <3>2
    <3> QED BY <3>1, <3>2
  <2>9. pc \notin {"dirs", "failed"} /\ profile \subseteq profile'
    BY <2>2, <2>3
  <2> QED BY <2>2, <2>6, <2>7, <2>8, <2>9, Zenon DEF Adds
<1>5. CASE allowPathAliases
  <2>1. /\ tree' = tree /\ policy' = policy /\ n' = n /\ pc = "aliases" /\ todo' = todo
        /\ pc' = "aliases" /\ profile \subseteq profile'
        /\ \A l \in profile' \ profile : l.op = "file-read-metadata"
    BY <1>5 DEF allowPathAliases, Allow
  <2>2. ASSUME NEW i \in DOMAIN policy.fs PROVE Compiled(i)' = Compiled(i)
    <3>1. ~compilePath
      BY <2>1 DEF compilePath
    <3> QED BY <3>1, CompiledKept
  <2>3. ~Complete /\ ~Complete'
    BY <2>1 DEF Complete
  <2> QED BY <2>1, <2>2, <2>3 DEF Adds, Unpromised
<1>6. CASE AliasesDone
  <2>1. /\ tree' = tree /\ policy' = policy /\ n' = n /\ pc = "aliases" /\ pc' \in {"paths", "aliases"}
        /\ todo' = todo /\ profile' = profile
    BY <1>6 DEF AliasesDone
  <2>2. ASSUME NEW i \in DOMAIN policy.fs PROVE Compiled(i)' = Compiled(i)
    <3>1. ~compilePath
      BY <2>1 DEF compilePath
    <3> QED BY <3>1, CompiledKept
  <2>3. ~Complete /\ ~Complete'
    BY <2>1 DEF Complete
  <2> QED BY <2>1, <2>2, <2>3 DEF Adds
<1>7. CASE CompileNet
  <2>1. /\ tree' = tree /\ policy' = policy /\ n' = n /\ pc = "fs" /\ pc' = "apply"
        /\ profile' = profile \cup compileNet(policy.net)
    BY <1>7 DEF CompileNet
  <2>2. ASSUME NEW i \in DOMAIN policy.fs PROVE Compiled(i)' = Compiled(i)
    <3>1. ~compilePath
      BY <2>1 DEF compilePath
    <3> QED BY <3>1, CompiledKept
  <2>3. ~Complete /\ Complete'
    BY <2>1 DEF Complete
  <2> QED BY <2>1, <2>2, <2>3 DEF Adds
<1>8. CASE Apply \/ Exec
  <2>1. /\ tree' = tree /\ policy' = policy /\ profile' = profile /\ Complete /\ Complete'
        /\ pc \in {"apply", "exec"} /\ pc' \in {"exec", "running"}
    BY <1>8 DEF Apply, Exec, Complete
  <2>2. ASSUME NEW i \in DOMAIN policy.fs PROVE Compiled(i)' = Compiled(i)
    <3>1. ~compilePath
      BY <2>1 DEF compilePath
    <3> QED BY <3>1, CompiledKept
  <2> QED BY <2>1, <2>2 DEF Adds
<1> QED BY <1>2, <1>3, <1>4, <1>5, <1>6, <1>7, <1>8 DEF Next, CreatePolicyDir, CompileSBPL

LEMMA ProfileNext == TypeInv /\ ProfileInv /\ [Next]_vars => ProfileInv'
<1> SUFFICES ASSUME TypeInv, ProfileInv, [Next]_vars PROVE ProfileInv'
  OBVIOUS
<1>1. CASE UNCHANGED vars
  BY <1>1 DEF vars, ProfileInv, Compiled, AtRule, Complete
<1>2. CASE pc' \in {"dirs", "failed"}
  BY <1>2 DEF ProfileInv
<1>3. CASE CompileSBPL /\ pc' = "fs"
  <2>1. n' = 1 /\ profile' = Preamble /\ pc' = "fs" /\ policy' = policy
    BY <1>3 DEF CompileSBPL
  <2>2. \A i \in DOMAIN policy.fs : Compiled(i)' = {}
    BY <2>1, PolicyTyped DEF Compiled, AtRule, TypeInv
  <2>3. \A l \in profile' : l.op \in Unpromised
    BY <2>1 DEF Preamble, Allow, Unpromised
  <2>4. ~Complete'
    BY <2>1 DEF Complete
  <2> QED BY <2>1, <2>2, <2>3, <2>4 DEF ProfileInv
<1>4. CASE Next /\ pc # "dirs" /\ pc' # "failed"
  BY <1>4, Compiling, AddsStep
<1>5. CASE pc = "dirs" /\ Next
  BY <1>2, <1>3, <1>5 DEF Next, CreatePolicyDir, CompileSBPL, compileFS, NextRule, compilePath,
    allowPathAliases, AliasesDone, CompileNet, Apply, Exec
<1> QED BY <1>1, <1>2, <1>4, <1>5

-----------------------------------------------------------------------------
(* The paths that are compiled are the paths that the rules mean.           *)

LEMMA WalkFails ==
  ASSUME NEW t, IsTree(t), NEW parts \in Seq(Part), NEW x \in Part, Walk(t, parts).error # "none"
  PROVE  Walk(t, Append(parts, x)).error # "none"
<1>1. <<x>> \in Seq(Part) /\ Append(parts, x) = parts \o <<x>> /\ Append(parts, x) \in Seq(Part)
  OBVIOUS
<1>2. Start(parts) \in Walks(t) /\ Walk(t, parts) \in Walks(t)
  BY WalkType
<1>3. Longer(Start(parts), <<x>>) = Start(Append(parts, x))
  <2>1. PICK w \in Walks(t) : w = Start(parts)
    BY <1>2
  <2>2. w.at = Root /\ w.rest = parts /\ w.links = <<>> /\ w.error = "none"
    BY <2>1 DEF Start
  <2>3. Longer(w, <<x>>) = [at |-> w.at, rest |-> w.rest \o <<x>>, links |-> w.links, error |-> w.error]
    BY LongerFields, Zenon
  <2> QED BY <1>1, <2>1, <2>2, <2>3 DEF Start
<1>4. Walk(t, Append(parts, x)) = Longer(Walk(t, parts), <<x>>)
  <2>1. PICK v : v = Walk(t, parts) /\ v = Follow(t, Start(parts)) /\ v.error # "none"
    BY DEF Walk
  <2>2. Follow(t, Longer(Start(parts), <<x>>)) = Longer(v, <<x>>)
    <3>1. PICK w \in Walks(t) : w = Start(parts)
      BY <1>2
    <3>2. PICK more \in Seq(Part) : more = <<x>>
      BY <1>1
    <3>3. Follow(t, Longer(w, more))
            = IF Follow(t, w).error # "none" THEN Longer(Follow(t, w), more)
              ELSE Follow(t, Longer(Follow(t, w), more))
      BY Compose, Zenon
    <3> QED BY <2>1, <3>1, <3>2, <3>3
  <2> QED BY <1>3, <2>1, <2>2 DEF Walk
<1>5. Longer(Walk(t, parts), <<x>>).error = Walk(t, parts).error
  BY <1>2, LongerFields, Zenon
<1> QED BY <1>4, <1>5

LEMMA AbsoluteAbove ==
  ASSUME NEW t, IsTree(t), Dir(t, Cwd), NEW path \in Path, path.parts # <<>>, NEW x \in Part
  PROVE  /\ Above(path) \in Path /\ Within(path, x) \in Path
         /\ Absolute(Above(path)) \in Seq(Part)
         /\ Front(Absolute(path)) = Absolute(Above(path))
         /\ Absolute(Within(path, x)) = Append(Absolute(Above(path)), x)
         /\ Append(Absolute(Above(path)), x) \in Seq(Part)
<1>1. PICK s \in Seq(Part) : s = path.parts /\ s # <<>>
  BY DEF Path
<1>2. PICK front \in Seq(Part), last \in Part :
        front = Front(s) /\ s = Append(front, last)
  BY <1>1, FrontLast
<1>3. PICK more \in Seq(Part) : more = Append(front, x)
  <2>1. Append(front, x) \in Seq(Part)
    BY Appended
  <2> QED BY <2>1, Zenon
<1>4. /\ Above(path) = [abs |-> path.abs, parts |-> front]
      /\ Within(path, x) = [abs |-> path.abs, parts |-> more]
  <2>1. path = [abs |-> path.abs, parts |-> path.parts]
    BY DEF Path
  <2>2. Above(path) = [path EXCEPT !.parts = front] /\ Within(path, x) = [path EXCEPT !.parts = more]
    BY <1>1, <1>2, <1>3 DEF Above, Within
  <2>3. \A s1 : [path EXCEPT !.parts = s1] = [abs |-> path.abs, parts |-> s1]
    BY <2>1
  <2> QED BY <2>2, <2>3
<1>5. Above(path) \in Path /\ Within(path, x) \in Path
  BY <1>4 DEF Path
<1>6. Cwd \in Seq(Part)
  BY DEF IsTree, Dir, Part
<1>7. CASE path.abs
  <2>1. Absolute(path) = s /\ Absolute(Above(path)) = front /\ Absolute(Within(path, x)) = more
    BY <1>1, <1>4, <1>7 DEF Absolute
  <2> QED BY <1>2, <1>3, <1>5, <2>1
<1>8. CASE ~path.abs
  <2>1. PICK c \in Seq(Part) : c = Cwd
    BY <1>6
  <2>2. PICK d \in Seq(Part) : d = c \o front
    BY Joined
  <2>3. c \o s = Append(d, last) /\ c \o more = Append(d, x)
    BY <1>2, <1>3, <2>2
  <2>4. Absolute(path) = c \o s /\ Absolute(Above(path)) = d /\ Absolute(Within(path, x)) = c \o more
    BY <1>1, <1>4, <1>8, <2>1, <2>2 DEF Absolute
  <2>5. Front(Append(d, last)) = d
    BY AppendedEnds
  <2>6. Append(d, x) \in Seq(Part)
    BY Appended
  <2> QED BY <1>5, <2>3, <2>4, <2>5, <2>6
<1> QED BY <1>7, <1>8

LEMMA EntriesType ==
  ASSUME NEW t, IsTree(t), NEW at, NEW x \in Entries(t, at)
  PROVE  x \in Name /\ x \in Part /\ Dir(t, at)
<1>1. PICK q \in DOMAIN t : q \in Seq(Name) /\ q # <<>> /\ Front(q) = at /\ x = Last(q)
  BY DEF Entries, IsTree, Root
<1>2. x \in Name /\ at = SubSeq(q, 1, Len(q) - 1)
  BY <1>1, FrontLast
<1>3. Len(q) - 1 \in 0 .. Len(q) - 1
  <2>1. Len(q) \in Nat /\ Len(q) # 0
    BY <1>1
  <2> QED BY <2>1
<1>4. Dir(t, at)
  BY <1>1, <1>2, <1>3 DEF IsTree
<1> QED BY <1>2, <1>4 DEF Part

(* A pattern's matches, when there is no error.                             *)
LEMMA Matches ==
  ASSUME NEW t, NEW r, "*" \in ToSet(r.path.parts), "*" \notin ToSet(Front(r.path.parts)),
         NEW at, at = Walk(t, Absolute(Above(r.path))).at,
         \A x \in Entries(t, at) : Clean(Within(r.path, x)) = Within(r.path, x)
  PROVE  resolvePath(t, r).paths =
           IF Walk(t, Absolute(Above(r.path))).error = "none" /\ Dir(t, at)
           THEN { Within(r.path, x) : x \in Entries(t, at) } ELSE {}
<1>1. PICK found : found = Walk(t, Absolute(Above(r.path))) /\ found.at = at
  OBVIOUS
<1>2. CASE found.error # "none"
  BY <1>1, <1>2 DEF resolvePath
<1>3. CASE found.error = "none" /\ ~Dir(t, at)
  BY <1>1, <1>3 DEF resolvePath
<1>4. CASE found.error = "none" /\ Dir(t, at)
  <2>1. resolvePath(t, r).paths = { Clean(Within(r.path, x)) : x \in Entries(t, at) }
    BY <1>1, <1>4 DEF resolvePath
  <2>2. { Clean(Within(r.path, x)) : x \in Entries(t, at) } = { Within(r.path, x) : x \in Entries(t, at) }
    OBVIOUS
  <2> QED BY <1>1, <1>4, <2>1, <2>2
<1> QED BY <1>1, <1>2, <1>3, <1>4

(* A pattern's matches are absolute if it is.                               *)
LEMMA SameStart ==
  ASSUME NEW t, NEW r, r.path \in Path, NEW path \in Paths(t, r)
  PROVE  path.abs = r.path.abs
<1>1. \A q \in Path : \A x : [q EXCEPT !.parts = x] = [abs |-> q.abs, parts |-> x]
  BY DEF Path
<1>2. \A q, x : [[abs |-> q, parts |-> x] EXCEPT !.parts = x] = [abs |-> q, parts |-> x]
  OBVIOUS
<1>3. CASE path = r.path
  BY <1>3
<1>4. CASE \E x : path = Clean(Within(r.path, x))
  <2>1. PICK x : path = Clean(Within(r.path, x))
    BY <1>4
  <2>2. PICK u : u = Append(Front(r.path.parts), x)
    OBVIOUS
  <2>3. Within(r.path, x) = [abs |-> r.path.abs, parts |-> u]
    BY <1>1, <2>2 DEF Within
  <2>4. \E y : path = [[abs |-> r.path.abs, parts |-> u] EXCEPT !.parts = y]
    BY <2>1, <2>3 DEF Clean
  <2> QED BY <2>4
<1>5. path \in resolvePath(t, r).paths
  BY DEF Paths
<1>6. path = r.path \/ \E x : path = Clean(Within(r.path, x))
  BY <1>5 DEF resolvePath
<1> QED BY <1>3, <1>4, <1>6

LEMMA MeantPaths ==
  ASSUME PatternsClean, TypeInv, NEW i \in DOMAIN policy.fs, NEW r, r = policy.fs[i],
         ~NoPath(r), resolvePath(tree, r).error # "pattern"
  PROVE  /\ \A path \in Paths(tree, r) : path \in Path /\ Absolute(path) \in Meant(r)
         /\ \A parts \in Meant(r) :
              /\ parts \in Seq(Part)
              /\ Walk(tree, parts).error = "none" => \E path \in Paths(tree, r) : parts = Absolute(path)
<1>1. IsTree(tree) /\ Dir(tree, Cwd) /\ policy \in Policies /\ r.path \in Path /\ r \in Rule
  BY PolicyTyped DEF TypeInv
<1>2. Paths(tree, r) = resolvePath(tree, r).paths
  BY DEF Paths
<1>3. ASSUME NEW path \in Path PROVE Absolute(path) \in Seq(Part)
  BY <1>1, AbsoluteType
<1>4. CASE "*" \notin ToSet(r.path.parts)
  <2>1. resolvePath(tree, r).paths = {r.path}
    BY <1>4 DEF resolvePath
  <2>2. Meant(r) = {Absolute(r.path)}
    BY <2>1 DEF Meant
  <2> QED BY <1>1, <1>2, <1>3, <2>1, <2>2
<1>5. CASE "*" \in ToSet(r.path.parts)
  <2> DEFINE dir == Absolute(Above(r.path))
  <2>1. r.path.parts # <<>>
    <3>1. ToSet(<<>>) = {}
      BY DEF ToSet
    <3> QED BY <1>5, <3>1
  <2>2. "*" \notin ToSet(Front(r.path.parts))
    BY <1>5 DEF resolvePath
  <2>3. PICK at : at = Walk(tree, dir).at
    OBVIOUS
  <2>4. ASSUME NEW x \in Part
        PROVE  /\ Within(r.path, x) \in Path /\ dir \in Seq(Part)
               /\ Absolute(Within(r.path, x)) = Append(dir, x) /\ Append(dir, x) \in Seq(Part)
    BY <1>1, <2>1, AbsoluteAbove
  <2>5. Front(Absolute(r.path)) = dir
    <3>1. "*" \in Part
      BY SeatbeltAssumption DEF Part
    <3> QED BY <1>1, <2>1, <3>1, AbsoluteAbove
  <2>6. ASSUME NEW x \in Entries(tree, at) PROVE x \in Name /\ x \in Part /\ Dir(tree, at)
    BY <1>1, EntriesType
  <2>7. \A x \in Entries(tree, at) : Clean(Within(r.path, x)) = Within(r.path, x)
    BY <1>1, <1>5, <2>6 DEF PatternsClean
  <2>8. resolvePath(tree, r).paths =
          IF Walk(tree, dir).error = "none" /\ Dir(tree, at)
          THEN { Within(r.path, x) : x \in Entries(tree, at) } ELSE {}
    BY <1>5, <2>2, <2>3, <2>7, Matches
  <2>9. Meant(r) = IF resolvePath(tree, r).paths = {r.path} THEN {Absolute(r.path)}
                    ELSE { Append(dir, x) : x \in Entries(tree, at) }
    BY <2>3, <2>5 DEF Meant
  <2> HIDE DEF dir
  <2>10. CASE resolvePath(tree, r).paths = {r.path}
    BY <1>1, <1>2, <1>3, <2>9, <2>10
  <2>11. CASE resolvePath(tree, r).paths # {r.path} /\ Walk(tree, dir).error = "none"
    <3>1. resolvePath(tree, r).paths = { Within(r.path, x) : x \in Entries(tree, at) }
      <4>1. CASE Dir(tree, at)
        BY <2>8, <2>11, <4>1
      <4>2. CASE ~Dir(tree, at)
        BY <2>6, <2>8, <4>2
      <4> QED BY <4>1, <4>2
    <3>2. Meant(r) = { Append(dir, x) : x \in Entries(tree, at) }
      BY <2>9, <2>11
    <3>3. ASSUME NEW path \in Paths(tree, r) PROVE path \in Path /\ Absolute(path) \in Meant(r)
      BY <1>2, <2>4, <2>6, <3>1, <3>2
    <3>4. ASSUME NEW parts \in Meant(r)
          PROVE  parts \in Seq(Part) /\ \E path \in Paths(tree, r) : parts = Absolute(path)
      <4>1. PICK x \in Entries(tree, at) : parts = Append(dir, x)
        BY <3>2
      <4> QED BY <1>2, <2>4, <2>6, <3>1, <4>1
    <3> QED BY <3>3, <3>4
  <2>12. CASE resolvePath(tree, r).paths # {r.path} /\ Walk(tree, dir).error # "none"
    <3>1. Paths(tree, r) = {}
      BY <1>2, <2>8, <2>12
    <3>2. ASSUME NEW parts \in Meant(r)
          PROVE  parts \in Seq(Part) /\ Walk(tree, parts).error # "none"
      <4>1. PICK x \in Entries(tree, at) : parts = Append(dir, x)
        BY <2>9, <2>12
      <4> QED BY <1>1, <2>4, <2>6, <2>12, <4>1, WalkFails
    <3> QED BY <3>1, <3>2
  <2> QED BY <2>10, <2>11, <2>12
<1> QED BY <1>4, <1>5

-----------------------------------------------------------------------------
(* The profile permits what the rules promise.                              *)

LEMMA FileAbove ==
  ASSUME NEW t, IsTree(t), NEW p \in DOMAIN t, NEW at \in DOMAIN t, ~Dir(t, at), IsPrefix(at, p)
  PROVE  p = at
<1>1. p \in Seq(Name) /\ at \in Seq(Name) /\ Len(p) \in Nat /\ Len(at) \in Nat
  BY DEF IsTree
<1>2. Len(at) <= Len(p) /\ SubSeq(at, 1, Len(at)) = SubSeq(p, 1, Len(at))
  BY DEF IsPrefix
<1>3. CASE Len(at) = Len(p)
  BY <1>1, <1>2, <1>3, WholePrefix
<1>4. CASE Len(at) # Len(p)
  <2>1. Len(at) \in 0 .. Len(p) - 1
    BY <1>1, <1>2, <1>4
  <2>2. Dir(t, SubSeq(p, 1, Len(at)))
    BY <2>1 DEF IsTree
  <2> QED BY <1>1, <1>2, <2>2, WholePrefix
<1> QED BY <1>3, <1>4

LEMMA OwnPrefix ==
  ASSUME NEW t, IsTree(t), NEW p \in DOMAIN t
  PROVE  IsPrefix(p, p)
<1>1. p \in Seq(Name)
  BY DEF IsTree
<1> QED BY <1>1 DEF IsPrefix

Unix == {"unix-subpath", "unix-literal"}

LEMMA Promises ==
  ASSUME NEW flag, NEW what, NEW op
  PROVE  <<flag, what, op>> \in Promised <=>
           \/ what = "file" /\ flag = "r" /\ op = "file-read*"
           \/ what = "file" /\ flag = "w" /\ op = "file-write-data"
           \/ what = "file" /\ flag = "x" /\ op \in {"process-exec", "file-map-executable"}
           \/ what = "file" /\ flag = "c" /\ op = "file-write-create"
           \/ what = "file" /\ flag = "d" /\ op = "file-write-unlink"
           \/ what = "socket" /\ flag = "u" /\ op = "network-outbound"
           \/ what = "socket" /\ flag = "c" /\ op \in {"network-bind", "network-inbound"}
  BY DEF Promised

LEMMA PromisedOps ==
  ASSUME NEW r \in Rule, NEW isDir \in BOOLEAN, ~fsRuleError(r, isDir), NEW flag \in r.access, NEW op
  PROVE  /\ <<flag, "file", op>> \in Promised => op \in fsOps(r, isDir)
         /\ <<flag, "socket", op>> \in Promised =>
              \/ op = "network-outbound" /\ "u" \in r.access
              \/ op \in {"network-bind", "network-inbound"} /\ isDir /\ "c" \in r.access
<1>1. flag \in {"c", "d"} => isDir
  BY DEF fsRuleError
<1>2. ASSUME <<flag, "file", op>> \in Promised PROVE op \in FlagOps(flag, isDir)
  BY <1>1, <1>2, Promises DEF FlagOps
<1>3. op \in FlagOps(flag, isDir) => op \in fsOps(r, isDir)
  BY DEF fsOps
<1>4. ASSUME <<flag, "socket", op>> \in Promised
      PROVE  \/ op = "network-outbound" /\ "u" \in r.access
             \/ op \in {"network-bind", "network-inbound"} /\ isDir /\ "c" \in r.access
  BY <1>1, <1>4, Promises
<1> QED BY <1>2, <1>3, <1>4

LEMMA OpsPromised ==
  ASSUME NEW r \in Rule, NEW isDir \in BOOLEAN, NEW op, op \in fsOps(r, isDir), op # "file-ioctl"
  PROVE  \E flag \in r.access : <<flag, "file", op>> \in Promised
<1>1. PICK flag \in r.access : op \in FlagOps(flag, isDir)
  BY DEF fsOps
<1>2. flag \in Flag
  BY DEF Rule
<1>3. <<flag, "file", op>> \in Promised
  BY <1>1, <1>2, Promises DEF FlagOps, Flag
<1> QED BY <1>3

(* What a line of a compiled path permits.                                  *)
Covers(l, what, op, p) ==
  /\ l.op = op /\ "at" \in DOMAIN l
  /\ IF l.filter \in {"subpath", "unix-subpath"} THEN IsPrefix(l.at, p) ELSE l.at = p
  /\ what = "socket" <=> l.filter \in Unix

LinesCover(t, r, path, what, op, p) == \E l \in Lines(t, r, path) : Covers(l, what, op, p)
Reaches(t, r, path, what, op, p) ==
  LET stat == Walk(t, Absolute(path))
  IN  /\ stat.error = "none" /\ IsPrefix(stat.at, p)
      /\ \E flag \in r.access : <<flag, what, op>> \in Promised

LEMMA LineCovers ==
  ASSUME NEW t, IsTree(t), NEW r \in Rule, NEW path, Sound(t, r, path), NEW p \in DOMAIN t,
         NEW what \in {"file", "socket"}, NEW op, op # "file-ioctl",
         Walk(t, Absolute(path)).at \in DOMAIN t,
         canonicalSBPLPath(t, path) = Walk(t, Absolute(path)).at
  PROVE  LinesCover(t, r, path, what, op, p) <=> Reaches(t, r, path, what, op, p)
<1>1. PICK stat : stat = Walk(t, Absolute(path))
  OBVIOUS
<1>2. PICK isDir \in BOOLEAN : isDir = Dir(t, stat.at)
  BY DEF Dir
<1>3. stat.error = "none" => ~fsRuleError(r, isDir)
  BY <1>1, <1>2 DEF Sound
<1>4. IsPrefix(p, p) /\ (~isDir /\ IsPrefix(stat.at, p) => p = stat.at)
  BY <1>1, <1>2, FileAbove, OwnPrefix
<1>5. ASSUME NEW l \in Lines(t, r, path), Covers(l, what, op, p)
      PROVE  /\ stat.error = "none" /\ IsPrefix(stat.at, p)
             /\ \E flag \in r.access : <<flag, what, op>> \in Promised
  <2>1. /\ stat.error = "none" /\ DOMAIN l = {"op", "filter", "at"} /\ l.at = stat.at
        /\ \/ l.op \in fsOps(r, isDir) /\ l.filter = IF isDir THEN "subpath" ELSE "literal"
           \/ /\ l.filter = IF isDir THEN "unix-subpath" ELSE "unix-literal"
              /\ \/ l.op = "network-outbound" /\ "u" \in r.access
                 \/ l.op \in {"network-bind", "network-inbound"} /\ isDir /\ "c" \in r.access
    BY <1>1, <1>2, LineOps
  <2>2. l.op = op /\ IsPrefix(stat.at, p) /\ (what = "socket" <=> l.filter \in Unix)
    BY <1>4, <1>5, <2>1 DEF Covers
  <2>3. CASE what = "file"
    <3>1. op \in fsOps(r, isDir)
      BY <2>1, <2>2, <2>3 DEF Unix
    <3> QED BY <2>1, <2>2, <2>3, <3>1, OpsPromised
  <2>4. CASE what = "socket"
    <3>1. \/ op = "network-outbound" /\ "u" \in r.access
          \/ op \in {"network-bind", "network-inbound"} /\ "c" \in r.access
      BY <2>1, <2>2, <2>4 DEF Unix
    <3>2. \E flag \in r.access : <<flag, what, op>> \in Promised
      BY <2>4, <3>1, Promises
    <3> QED BY <2>1, <2>2, <3>2
  <2> QED BY <2>3, <2>4
<1>6. ASSUME stat.error = "none", IsPrefix(stat.at, p),
             NEW flag \in r.access, <<flag, what, op>> \in Promised
      PROVE  \E l \in Lines(t, r, path) : Covers(l, what, op, p)
  <2> DEFINE filter == IF isDir THEN "subpath" ELSE "literal"
             unix == IF isDir THEN "unix-subpath" ELSE "unix-literal"
  <2>1. Lines(t, r, path) = Allow(fsOps(r, isDir), filter, stat.at) \cup allowUnix(r, isDir, stat.at)
    BY <1>1, <1>2, <1>6 DEF Lines
  <2>2. ~fsRuleError(r, isDir)
    BY <1>3, <1>6
  <2>3. ~isDir => p = stat.at
    BY <1>4, <1>6
  <2>4. CASE what = "file"
    <3> DEFINE l == [op |-> op, filter |-> filter, at |-> stat.at]
    <3>1. op \in fsOps(r, isDir)
      BY <1>6, <2>2, <2>4, PromisedOps
    <3>2. l \in Allow(fsOps(r, isDir), filter, stat.at)
      BY <3>1 DEF Allow
    <3>3. Covers(l, what, op, p)
      BY <1>6, <2>3, <2>4 DEF Covers, Unix
    <3> QED BY <2>1, <3>2, <3>3
  <2>5. CASE what = "socket"
    <3> DEFINE l == [op |-> op, filter |-> unix, at |-> stat.at]
    <3>1. \/ op = "network-outbound" /\ "u" \in r.access
          \/ op \in {"network-bind", "network-inbound"} /\ isDir /\ "c" \in r.access
      BY <1>6, <2>2, <2>5, PromisedOps
    <3>2. l \in allowUnix(r, isDir, stat.at)
      BY <3>1 DEF allowUnix, Allow
    <3>3. Covers(l, what, op, p)
      BY <1>6, <2>3, <2>5 DEF Covers, Unix
    <3> QED BY <2>1, <3>2, <3>3
  <2> QED BY <2>4, <2>5
<1> QED BY <1>1, <1>5, <1>6 DEF LinesCover, Reaches

LEMMA UnpromisedOps ==
  ASSUME NEW f \in Promised
  PROVE  f[3] \notin Unpromised /\ f[3] # "file-ioctl" /\ f[2] \in {"file", "socket"}
         /\ f = <<f[1], f[2], f[3]>>
  BY DEF Promised, Unpromised

LEMMA PortLines ==
  ASSUME NEW net, NEW l \in compileNet(net)
  PROVE  "at" \notin DOMAIN l
<1>1. ASSUME NEW ops, NEW proto, NEW port, l \in allowPort(ops, proto, port)
      PROVE  DOMAIN l = {"op", "proto", "port"}
  BY <1>1 DEF allowPort
<1>2. \E ops, proto, port : l \in allowPort(ops, proto, port)
  <2>1. CASE net.allow
    BY <2>1 DEF compileNet
  <2>2. CASE ~net.allow
    <3>1. PICK i \in DOMAIN net.rules : l \in compileNetRule(net.rules[i])
      BY <2>2 DEF compileNet
    <3>2. l \in allowConnect(net.rules[i]) \/ l \in allowBind(net.rules[i])
      BY <3>1 DEF compileNetRule
    <3>3. ASSUME l \in allowConnect(net.rules[i]) PROVE \E ops, proto, port : l \in allowPort(ops, proto, port)
      BY <3>3 DEF allowConnect
    <3>4. ASSUME l \in allowBind(net.rules[i]) PROVE \E ops, proto, port : l \in allowPort(ops, proto, port)
      BY <3>4 DEF allowBind
    <3> QED BY <3>2, <3>3, <3>4
  <2> QED BY <2>1, <2>2
<1> QED BY <1>1, <1>2

LEMMA GrantedCases ==
  ASSUME NEW g
  PROVE  g \in Resolved <=>
           \E i \in DOMAIN policy.fs :
             /\ ~NoPath(policy.fs[i])
             /\ \E parts \in Meant(policy.fs[i]) :
                  g = [rule |-> policy.fs[i], walk |-> Walk(tree, parts)] /\ g.walk.error = "none"
<1>1. g \in Granted <=>
        \E r \in ToSet(policy.fs) : (r.path.abs \/ r.path.parts # <<>>)
          /\ \E parts \in Meant(r) : g = [rule |-> r, walk |-> Walk(tree, parts)]
  BY DEF Granted
<1>2. \A r : r.path.abs \/ r.path.parts # <<>> <=> ~NoPath(r)
  BY DEF NoPath
<1>3. ToSet(policy.fs) = { policy.fs[i] : i \in DOMAIN policy.fs }
  BY DEF ToSet
<1>4. g \in Resolved <=> g \in Granted /\ g.walk.error = "none"
  BY DEF Resolved
<1> QED BY <1>1, <1>2, <1>3, <1>4

LEMMA FileGrants ==
  ASSUME PatternsClean, TypeInv, PatternInv, ProfileInv, Complete, WellSpelt,
         NEW p \in DOMAIN tree, NEW f \in Promised
  PROVE  Permits(f[2], f[3], p) <=>
           \E g \in Resolved : IsPrefix(g.walk.at, p)
             /\ \E flag \in g.rule.access : <<flag, f[2], f[3]>> \in Promised
<1>1. /\ IsTree(tree) /\ pc \notin {"dirs", "failed"} /\ n > Len(policy.fs) /\ n \in Nat
      /\ Len(policy.fs) \in Nat /\ DOMAIN policy.fs = 1 .. Len(policy.fs)
  BY PolicyTyped DEF TypeInv, Complete
<1>2. PICK what, op : what \in {"file", "socket"} /\ what = f[2] /\ op = f[3] /\ op # "file-ioctl" /\ op \notin Unpromised
  BY UnpromisedOps
<1>3. Permits(f[2], f[3], p) <=> \E l \in profile : Covers(l, what, op, p)
  BY <1>2 DEF Permits, Covers, Unix
<1>4. ASSUME NEW i \in DOMAIN policy.fs
      PROVE  Compiled(i) = Paths(tree, policy.fs[i])
             /\ (~NoPath(policy.fs[i]) => resolvePath(tree, policy.fs[i]).error # "pattern")
  <2>1. i < n
    BY <1>1
  <2>2. Compiled(i) = Paths(tree, policy.fs[i])
    BY <2>1 DEF Compiled
  <2> QED BY <1>1, <2>1, <2>2 DEF PatternInv
<1>5. ASSUME NEW i \in DOMAIN policy.fs, NEW path \in Compiled(i)
      PROVE  /\ ~NoPath(policy.fs[i]) /\ path \in Path /\ Absolute(path) \in Meant(policy.fs[i])
             /\ Walk(tree, Absolute(path)).at \in DOMAIN tree
             /\ canonicalSBPLPath(tree, path) = Walk(tree, Absolute(path)).at
             /\ policy.fs[i] \in Rule /\ Sound(tree, policy.fs[i], path)
             /\ Lines(tree, policy.fs[i], path) \subseteq profile
  <2>1. ~NoPath(policy.fs[i])
    BY <1>4 DEF Paths
  <2>2. path \in Path /\ Absolute(path) \in Meant(policy.fs[i]) /\ Absolute(path) \in Seq(Part)
    BY <1>4, <2>1, MeantPaths
  <2>3. Walk(tree, Absolute(path)).at \in DOMAIN tree
    BY <1>1, <2>2, WalkType
  <2>4. policy.fs[i] \in Rule
    BY PolicyTyped DEF TypeInv
  <2>5. Sound(tree, policy.fs[i], path) /\ Lines(tree, policy.fs[i], path) \subseteq profile
    BY <1>1 DEF ProfileInv
  <2>6. path.abs \/ Getwd(tree) = Cwd
    <3>1. path.abs = policy.fs[i].path.abs
      BY <1>4, PolicyTyped, SameStart DEF TypeInv
    <3>2. policy.fs[i] \in ToSet(policy.fs)
      BY DEF ToSet
    <3> QED BY <3>1, <3>2 DEF WellSpelt
  <2>7. canonicalSBPLPath(tree, path) = Walk(tree, Absolute(path)).at
    BY <1>1, <2>2, <2>6, CanonicalPath DEF TypeInv
  <2> QED BY <2>1, <2>2, <2>3, <2>4, <2>5, <2>7
<1>6. ASSUME NEW i \in DOMAIN policy.fs, NEW path \in Compiled(i)
      PROVE  (\E l \in Lines(tree, policy.fs[i], path) : Covers(l, what, op, p)) <=>
               /\ Walk(tree, Absolute(path)).error = "none"
               /\ IsPrefix(Walk(tree, Absolute(path)).at, p)
               /\ \E flag \in policy.fs[i].access : <<flag, what, op>> \in Promised
  <2>1. PICK r \in Rule : r = policy.fs[i]
    BY <1>5
  <2>2. /\ Sound(tree, r, path) /\ Walk(tree, Absolute(path)).at \in DOMAIN tree
        /\ canonicalSBPLPath(tree, path) = Walk(tree, Absolute(path)).at
    BY <1>5, <2>1
  <2>3. LinesCover(tree, r, path, what, op, p) <=> Reaches(tree, r, path, what, op, p)
    BY <1>1, <1>2, <2>2, LineCovers
  <2> QED BY <2>1, <2>3 DEF LinesCover, Reaches
<1>7. ASSUME NEW l \in profile, Covers(l, what, op, p)
      PROVE  \E g \in Resolved : IsPrefix(g.walk.at, p)
               /\ \E flag \in g.rule.access : <<flag, what, op>> \in Promised
  <2>1. l.op \notin Unpromised
    BY <1>2, <1>7 DEF Covers
  <2>2. l \notin compileNet(policy.net)
    BY <1>7, PortLines DEF Covers
  <2> PICK i \in DOMAIN policy.fs : \E path \in Compiled(i) : l \in Lines(tree, policy.fs[i], path)
    BY <1>1, <2>1, <2>2 DEF ProfileInv
  <2>3. PICK path \in Compiled(i) : l \in Lines(tree, policy.fs[i], path)
    OBVIOUS
  <2>4. PICK r, stat : r \in Rule /\ r = policy.fs[i] /\ stat = Walk(tree, Absolute(path))
    BY <1>5
  <2>5. stat.error = "none" /\ IsPrefix(stat.at, p) /\ \E flag \in r.access : <<flag, what, op>> \in Promised
    BY <1>6, <1>7, <2>3, <2>4
  <2>6. PICK g : g = [rule |-> r, walk |-> stat]
    OBVIOUS
  <2>7. g.walk = stat /\ g.rule = r
    BY <2>6
  <2>8. g \in Resolved
    BY <1>5, <2>4, <2>5, <2>6, <2>7, GrantedCases
  <2> QED BY <2>5, <2>7, <2>8
<1>8. ASSUME NEW g \in Resolved, IsPrefix(g.walk.at, p),
             \E flag \in g.rule.access : <<flag, what, op>> \in Promised
      PROVE  \E l \in profile : Covers(l, what, op, p)
  <2> PICK i \in DOMAIN policy.fs : ~NoPath(policy.fs[i])
         /\ \E parts \in Meant(policy.fs[i]) :
              g = [rule |-> policy.fs[i], walk |-> Walk(tree, parts)] /\ g.walk.error = "none"
    BY GrantedCases
  <2>1. PICK parts \in Meant(policy.fs[i]) :
          g = [rule |-> policy.fs[i], walk |-> Walk(tree, parts)] /\ g.walk.error = "none"
    OBVIOUS
  <2>2. g.rule = policy.fs[i] /\ g.walk = Walk(tree, parts)
    BY <2>1
  <2>3. PICK path \in Paths(tree, policy.fs[i]) : parts = Absolute(path)
    BY <1>4, <2>1, <2>2, MeantPaths
  <2>4. path \in Compiled(i)
    BY <1>4, <2>3
  <2>5. \E l \in Lines(tree, policy.fs[i], path) : Covers(l, what, op, p)
    BY <1>6, <1>8, <2>1, <2>2, <2>3, <2>4
  <2> QED BY <1>5, <2>4, <2>5
<1> QED BY <1>2, <1>3, <1>7, <1>8

(* Ports.                                                                   *)
BindOps == {"network-bind", "network-inbound"}

(* The lines of one rule, and of a whole policy.                            *)
LEMMA RulePorts ==
  ASSUME NEW r, NEW op \in {"network-outbound"} \cup BindOps, NEW proto \in Protocol, NEW port \in Port,
         r.port \in Port
  PROVE  (\E l \in compileNetRule(r) : l.op = op /\ l.proto = proto /\ l.port \in {port, AnyPort}) <=>
           /\ proto \in Protocols(r)
           /\ \/ op = "network-outbound" /\ r.access \in {"connect", "connect+bind"} /\ r.port = port
              \/ op \in BindOps /\ r.access \in {"bind", "connect+bind"} /\ r.port \in {port, 0}
<1>1. PICK protos : protos = Protocols(r)
  OBVIOUS
<1>2. /\ port # AnyPort /\ r.port # AnyPort
      /\ (IF r.port = 0 THEN AnyPort ELSE r.port) \in {port, AnyPort} <=> r.port \in {port, 0}
  <2>1. PICK q \in Port : q = r.port
    OBVIOUS
  <2> QED BY <2>1, SeatbeltAssumption DEF Port, AnyPort
<1> DEFINE bound == IF r.port = 0 THEN AnyPort ELSE r.port
<1>3. \A l : l \in allowConnect(r) <=>
               \E q \in protos : l = [op |-> "network-outbound", proto |-> q, port |-> r.port]
  BY <1>1 DEF allowConnect, allowPort
<1>4. \A l : l \in allowBind(r) <=>
               \E q \in protos : \E o \in BindOps : l = [op |-> o, proto |-> q, port |-> bound]
  BY <1>1 DEF allowBind, allowPort, BindOps
<1>5. "network-outbound" \notin BindOps
  BY DEF BindOps
<1> HIDE DEF bound
<1>6. (\E l \in allowConnect(r) : l.op = op /\ l.proto = proto /\ l.port \in {port, AnyPort})
        <=> op = "network-outbound" /\ proto \in protos /\ r.port = port
  <2>1. ASSUME NEW l \in allowConnect(r), l.op = op, l.proto = proto, l.port \in {port, AnyPort}
        PROVE  op = "network-outbound" /\ proto \in protos /\ r.port = port
    BY <1>2, <1>3, <2>1
  <2>2. ASSUME op = "network-outbound", proto \in protos, r.port = port
        PROVE  \E l \in allowConnect(r) : l.op = op /\ l.proto = proto /\ l.port \in {port, AnyPort}
    <3> DEFINE l == [op |-> op, proto |-> proto, port |-> r.port]
    <3>1. l \in allowConnect(r) /\ l.op = op /\ l.proto = proto /\ l.port \in {port, AnyPort}
      BY <1>3, <2>2
    <3> QED BY <3>1
  <2> QED BY <2>1, <2>2
<1>7. (\E l \in allowBind(r) : l.op = op /\ l.proto = proto /\ l.port \in {port, AnyPort})
        <=> op \in BindOps /\ proto \in protos /\ bound \in {port, AnyPort}
  <2>1. ASSUME NEW l \in allowBind(r), l.op = op, l.proto = proto, l.port \in {port, AnyPort}
        PROVE  op \in BindOps /\ proto \in protos /\ bound \in {port, AnyPort}
    BY <1>4, <2>1
  <2>2. ASSUME op \in BindOps, proto \in protos, bound \in {port, AnyPort}
        PROVE  \E l \in allowBind(r) : l.op = op /\ l.proto = proto /\ l.port \in {port, AnyPort}
    <3> DEFINE l == [op |-> op, proto |-> proto, port |-> bound]
    <3>1. l \in allowBind(r) /\ l.op = op /\ l.proto = proto /\ l.port \in {port, AnyPort}
      BY <1>4, <2>2
    <3> QED BY <3>1
  <2> QED BY <2>1, <2>2
<1>8. bound \in {port, AnyPort} <=> r.port \in {port, 0}
  BY <1>2 DEF bound
<1> HIDE DEF BindOps
<1>9. \A l : l \in compileNetRule(r) <=>
               \/ r.access \in {"connect", "connect+bind"} /\ l \in allowConnect(r)
               \/ r.access \in {"bind", "connect+bind"} /\ l \in allowBind(r)
  BY DEF compileNetRule
<1> QED BY <1>1, <1>6, <1>7, <1>8, <1>9

LEMMA PortOf ==
  ASSUME NEW l, (\E net : l \in compileNet(net))
  PROVE  "port" \in DOMAIN l
<1>1. ASSUME NEW ops, NEW proto, NEW port, l \in allowPort(ops, proto, port) PROVE "port" \in DOMAIN l
  BY <1>1 DEF allowPort
<1> QED BY <1>1 DEF compileNet, compileNetRule, allowConnect, allowBind

LEMMA NetPorts ==
  ASSUME NEW net, NEW op \in {"network-outbound"} \cup BindOps, NEW proto \in Protocol, NEW port \in Port,
         \A i \in DOMAIN net.rules : net.rules[i].port \in Port
  PROVE  (\E l \in compileNet(net) : l.op = op /\ l.proto = proto /\ l.port \in {port, AnyPort}) <=>
           \/ net.allow
           \/ \E i \in DOMAIN net.rules : LET r == net.rules[i] IN
                /\ proto \in Protocols(r)
                /\ \/ op = "network-outbound" /\ r.access \in {"connect", "connect+bind"} /\ r.port = port
                   \/ op \in BindOps /\ r.access \in {"bind", "connect+bind"} /\ r.port \in {port, 0}
<1>1. CASE net.allow
  <2> DEFINE l == [op |-> op, proto |-> proto, port |-> AnyPort]
  <2>1. l \in compileNet(net)
    BY <1>1 DEF compileNet, allowPort, BindOps
  <2>2. l.op = op /\ l.proto = proto /\ l.port \in {port, AnyPort}
    OBVIOUS
  <2> QED BY <1>1, <2>1, <2>2
<1>2. CASE ~net.allow
  <2>1. \A l : l \in compileNet(net) <=> \E i \in DOMAIN net.rules : l \in compileNetRule(net.rules[i])
    BY <1>2 DEF compileNet
  <2> QED BY <1>2, <2>1, RulePorts
<1> QED BY <1>1, <1>2

LEMMA PortGrants ==
  ASSUME TypeInv, ProfileInv, Complete, NEW op \in {"network-outbound"} \cup BindOps,
         NEW proto \in Protocol, NEW port \in Port
  PROVE  PermitsPort(op, proto, port) <=>
           \/ policy.net.allow
           \/ \E r \in ToSet(policy.net.rules) :
                /\ proto \in Protocols(r)
                /\ \/ op = "network-outbound" /\ r.access \in {"connect", "connect+bind"} /\ r.port = port
                   \/ op \in BindOps /\ r.access \in {"bind", "connect+bind"} /\ r.port \in {port, 0}
<1>1. pc \notin {"dirs", "failed"} /\ policy \in Policies
  BY DEF TypeInv, Complete
<1>2. op \notin Unpromised
  BY DEF Unpromised, BindOps
<1>3. \A i \in DOMAIN policy.net.rules : policy.net.rules[i].port \in Port
  <2>1. PICK s \in Seq(PortRule) : s = policy.net.rules
    BY <1>1, LaunchAssumption
  <2>2. \A i \in DOMAIN s : s[i] \in PortRule
    OBVIOUS
  <2>3. \A r \in PortRule : r.port \in Port
    BY Zenon DEF PortRule
  <2> QED BY <2>1, <2>2, <2>3
<1>4. PermitsPort(op, proto, port) <=>
        \E l \in compileNet(policy.net) : l.op = op /\ l.proto = proto /\ l.port \in {port, AnyPort}
  <2>1. ASSUME NEW l \in profile, l.op = op, "port" \in DOMAIN l PROVE l \in compileNet(policy.net)
    <3>1. ASSUME NEW i \in DOMAIN policy.fs, NEW path \in Compiled(i), l \in Lines(tree, policy.fs[i], path)
          PROVE  FALSE
      <4>1. DOMAIN l = {"op", "filter", "at"}
        BY <3>1, LineOps
      <4> QED BY <2>1, <4>1
    <3> QED BY <1>1, <1>2, <2>1, <3>1 DEF ProfileInv
  <2>2. compileNet(policy.net) \subseteq profile
    BY <1>1 DEF ProfileInv
  <2>3. \A l \in compileNet(policy.net) : "port" \in DOMAIN l
    BY PortOf
  <2> QED BY <2>1, <2>2, <2>3 DEF PermitsPort
<1> DEFINE Opens(r) ==
             /\ proto \in Protocols(r)
             /\ \/ op = "network-outbound" /\ r.access \in {"connect", "connect+bind"} /\ r.port = port
                \/ op \in BindOps /\ r.access \in {"bind", "connect+bind"} /\ r.port \in {port, 0}
<1>5. PermitsPort(op, proto, port) <=>
        policy.net.allow \/ \E i \in DOMAIN policy.net.rules : Opens(policy.net.rules[i])
  BY <1>3, <1>4, NetPorts
<1> HIDE DEF Opens
<1>6. ToSet(policy.net.rules) = { policy.net.rules[i] : i \in DOMAIN policy.net.rules }
  BY DEF ToSet
<1>7. PermitsPort(op, proto, port) <=> policy.net.allow \/ \E r \in ToSet(policy.net.rules) : Opens(r)
  BY <1>5, <1>6
<1> QED BY <1>7 DEF Opens

LEMMA RightOf ==
  ASSUME NEW r, NEW proto \in Protocol
  PROVE  /\ <<"connect", proto>> \in buildNetRules(r) <=>
              proto \in Protocols(r) /\ r.access \in {"connect", "connect+bind"}
         /\ <<"bind", proto>> \in buildNetRules(r) <=>
              proto \in Protocols(r) /\ r.access \in {"bind", "connect+bind"}
<1>1. proto \in {"tcp", "udp"}
  BY DEF Protocol
<1>2. proto \in Protocols(r) <=> (proto = "tcp" => usesTCP(r)) /\ (proto = "udp" => usesUDP(r))
  BY <1>1 DEF Protocols
<1>3. ASSUME NEW o \in {"connect", "bind"}
      PROVE  <<o, proto>> \in buildNetRules(r) <=>
               /\ o = r.access \/ r.access = "connect+bind"
               /\ proto = "tcp" => usesTCP(r)
               /\ proto = "udp" => usesUDP(r)
  BY <1>1 DEF buildNetRules, NetRight, Operation, Protocol
<1> QED BY <1>2, <1>3

LEMMA Granting == PatternsClean /\ TypeInv /\ PatternInv /\ ProfileInv => GrantsFollowRules
<1> SUFFICES ASSUME PatternsClean, TypeInv, PatternInv, ProfileInv, Complete
             PROVE  (WellSpelt => FilesFollowRules) /\ PortsFollowRules
  BY DEF GrantsFollowRules
<1>1. ASSUME WellSpelt, NEW p \in DOMAIN tree, NEW f \in Promised
      PROVE  Permits(f[2], f[3], p) <=>
               \E g \in Resolved : IsPrefix(g.walk.at, p)
                 /\ \E flag \in g.rule.access : <<flag, f[2], f[3]>> \in Promised
  BY <1>1, FileGrants
<1> DEFINE landlock(op, proto, ports) ==
             \/ policy.net.allow
             \/ \E r \in ToSet(policy.net.rules) : r.port \in ports /\ <<op, proto>> \in buildNetRules(r)
<1>2. ASSUME NEW proto \in Protocol, NEW port \in Port
      PROVE  /\ PermitsPort("network-outbound", proto, port) <=> landlock("connect", proto, {port})
             /\ \A op \in {"network-bind", "network-inbound"} :
                  PermitsPort(op, proto, port) <=> landlock("bind", proto, {port, 0})
  <2>1. PermitsPort("network-outbound", proto, port) <=>
          \/ policy.net.allow
          \/ \E r \in ToSet(policy.net.rules) :
               proto \in Protocols(r) /\ r.access \in {"connect", "connect+bind"} /\ r.port = port
    BY PortGrants DEF BindOps
  <2>2. ASSUME NEW op \in BindOps
        PROVE  PermitsPort(op, proto, port) <=>
                 \/ policy.net.allow
                 \/ \E r \in ToSet(policy.net.rules) :
                      proto \in Protocols(r) /\ r.access \in {"bind", "connect+bind"} /\ r.port \in {port, 0}
    BY PortGrants DEF BindOps
  <2>3. PermitsPort("network-outbound", proto, port) <=> landlock("connect", proto, {port})
    BY <2>1, RightOf
  <2>4. ASSUME NEW op \in {"network-bind", "network-inbound"}
        PROVE  PermitsPort(op, proto, port) <=> landlock("bind", proto, {port, 0})
    BY <2>2, RightOf DEF BindOps
  <2> QED BY <2>3, <2>4
<1>3. ASSUME NEW port \in {0, 1} \cup { r.port : r \in ToSet(policy.net.rules) } PROVE port \in Port
  <2>1. PICK s \in Seq(PortRule) : s = policy.net.rules
    BY LaunchAssumption DEF TypeInv
  <2>2. \A r \in ToSet(s) : r \in PortRule
    BY DEF ToSet
  <2>3. \A r \in PortRule : r.port \in Port
    BY Zenon DEF PortRule
  <2>4. 0 \in Port /\ 1 \in Port
    BY SeatbeltAssumption DEF Port
  <2> QED BY <2>1, <2>2, <2>3, <2>4
<1>4. PortsFollowRules
  BY <1>2, <1>3, Zenon DEF PortsFollowRules
<1> QED BY <1>1, <1>4, Zenon DEF FilesFollowRules

(* A finished profile permits on every file, directory and port what the    *)
(* rules that lead there promise, and nothing else, whatever symlinks the   *)
(* tree has and whatever directories are made first; on files, where all    *)
(* rules are absolute or the working directory goes by its own name.        *)
THEOREM GrantsCorrect ==
  ASSUME PatternsClean
  PROVE  Spec => []GrantsFollowRules
<1>1. Init => TypeInv /\ PatternInv /\ ProfileInv
  BY TypeInit DEF Init, PatternInv, ProfileInv
<1>2. TypeInv /\ PatternInv /\ ProfileInv /\ [Next]_vars => (TypeInv /\ PatternInv /\ ProfileInv)'
  BY TypeNext, PatternNext, ProfileNext
<1>3. TypeInv /\ PatternInv /\ ProfileInv => GrantsFollowRules
  BY Granting
<1> QED BY <1>1, <1>2, <1>3, PTL DEF Spec

-----------------------------------------------------------------------------
(* The links of a path: those up to a part of it, and if that is a link it  *)
(* and those of its target.                                                 *)

LEMMA LinksGrow ==
  ASSUME NEW t, IsTree(t), NEW p \in DOMAIN t, NEW rest \in Seq(Part), NEW l \in Seq(DOMAIN t),
         NEW w \in Walks(t), w = [at |-> p, rest |-> rest, links |-> l, error |-> "none"],
         Follow(t, w).error = "none"
  PROVE  LET v == Follow(t, At(p, rest))
         IN  /\ v.error = "none" /\ v.links \in Seq(DOMAIN t)
             /\ Follow(t, w).links = l \o v.links /\ Follow(t, w).at = v.at
<1>1. At(p, rest) \in Walks(t)
  BY AtType
<1>2. After(l, At(p, rest)) = w
  <2>1. PICK u \in Walks(t) : u = At(p, rest)
    BY <1>1
  <2>2. After(l, u) = [at |-> u.at, rest |-> u.rest, links |-> l \o u.links, error |-> u.error]
    BY AfterFields, Zenon
  <2>3. u.at = p /\ u.rest = rest /\ u.links = <<>> /\ u.error = "none"
    BY <2>1 DEF At
  <2>4. l \o <<>> = l
    OBVIOUS
  <2> QED BY <2>1, <2>2, <2>3, <2>4
<1>3. PICK v \in Walks(t) : v = Follow(t, At(p, rest))
  BY <1>1, FollowType
<1>4. v.error = "none" /\ Follow(t, w) = After(l, v)
  BY <1>1, <1>2, <1>3, FewerLinks
<1>5. After(l, v) = [at |-> v.at, rest |-> v.rest, links |-> l \o v.links, error |-> v.error]
  BY AfterFields, Zenon
<1>6. v.links \in Seq(DOMAIN t)
  BY WalkFields
<1> QED BY <1>3, <1>4, <1>5, <1>6

LEMMA EndedWalk ==
  ASSUME NEW t, IsTree(t), NEW parts \in Seq(Part), Walk(t, parts).error = "none"
  PROVE  LET v == Walk(t, parts)
         IN  /\ v \in Walks(t) /\ v.at \in DOMAIN t /\ v.links \in Seq(DOMAIN t)
             /\ v = [at |-> v.at, rest |-> <<>>, links |-> v.links, error |-> "none"]
<1>1. PICK v \in Walks(t) : v = Walk(t, parts) /\ Over(v)
  BY WalkType
<1>2. v.rest = <<>>
  BY <1>1 DEF Over
<1> QED BY <1>1, <1>2, WalkFields

LEMMA WalkOn ==
  ASSUME NEW t, IsTree(t), NEW a \in Seq(Part), NEW b \in Seq(Part), Walk(t, a \o b).error = "none"
  PROVE  LET v == Walk(t, a)
             w == [at |-> v.at, rest |-> b, links |-> v.links, error |-> "none"]
         IN  /\ v.error = "none" /\ w \in Walks(t) /\ Walk(t, a \o b) = Follow(t, w)
<1>1. PICK w \in Walks(t) : w = Start(a)
  BY WalkType
<1>2. Longer(w, b) = Start(a \o b)
  <2>1. Longer(w, b) = [at |-> w.at, rest |-> w.rest \o b, links |-> w.links, error |-> w.error]
    BY LongerFields, Zenon
  <2> QED BY <1>1, <2>1 DEF Start
<1>3. PICK v \in Walks(t) : v = Walk(t, a) /\ v = Follow(t, w)
  BY <1>1, WalkType DEF Walk
<1>4. Walk(t, a \o b) = IF v.error # "none" THEN Longer(v, b) ELSE Follow(t, Longer(v, b))
  <2>1. Follow(t, Longer(w, b)) = IF v.error # "none" THEN Longer(v, b) ELSE Follow(t, Longer(v, b))
    BY <1>3, Compose
  <2> QED BY <1>2, <2>1 DEF Walk
<1>5. Longer(v, b).error = v.error /\ Longer(v, b) \in Walks(t)
  BY LongerFields, LongerType, Zenon
<1>6. v.error = "none" /\ Walk(t, a \o b) = Follow(t, Longer(v, b))
  BY <1>4, <1>5
<1>7. v = [at |-> v.at, rest |-> <<>>, links |-> v.links, error |-> "none"]
  BY <1>3, <1>6, EndedWalk
<1>8. Longer(v, b) = [at |-> v.at, rest |-> v.rest \o b, links |-> v.links, error |-> v.error]
  BY LongerFields, Zenon
<1>9. v.rest \o b = b
  <2>1. v.rest = <<>>
    BY <1>7
  <2>2. <<>> \o b = b
    OBVIOUS
  <2> QED BY <2>1, <2>2
<1>10. Longer(v, b) = [at |-> v.at, rest |-> b, links |-> v.links, error |-> "none"]
  BY <1>6, <1>8, <1>9
<1> QED BY <1>3, <1>5, <1>6, <1>10

LEMMA PartAhead ==
  ASSUME NEW t, IsTree(t), NEW at \in DOMAIN t, NEW x \in Part, NEW w, w.at = at, Head(w.rest) = x
  PROVE  /\ Link(t, Append(at, x)) => Ahead(w) = Append(at, x) /\ Front(Append(at, x)) = at
         /\ ~Link(t, Append(at, x)) => ~Link(t, Ahead(w))
<1>1. at \in Seq(Name) /\ at \in Seq(Part)
  BY DEF IsTree, Part
<1>2. Front(Append(at, x)) = at /\ Last(Append(at, x)) = x /\ Append(at, x) # <<>>
  BY <1>1, AppendedEnds, Appended
<1>3. ASSUME Link(t, Append(at, x)) PROVE x # ".."
  <2>1. Append(at, x) \in Seq(Name)
    BY <1>3 DEF Link, IsTree
  <2>2. x \in Name
    BY <1>2, <2>1, FrontLast
  <2> QED BY <2>2, SeatbeltAssumption
<1>4. ASSUME x = ".." PROVE ~Link(t, Ahead(w))
  <2>1. Dir(t, Up(at))
    <3>1. CASE at = Root
      BY <3>1 DEF Up, IsTree
    <3>2. CASE at # Root
      <4>1. Front(at) = SubSeq(at, 1, Len(at) - 1) /\ Len(at) \in Nat /\ Len(at) # 0
        BY <1>1, <3>2, FrontLast DEF Root
      <4>2. Len(at) - 1 \in 0 .. Len(at) - 1
        BY <4>1
      <4> QED BY <3>2, <4>1, <4>2 DEF Up, IsTree
    <3> QED BY <3>1, <3>2
  <2> QED BY <1>4, <2>1 DEF Ahead, Dir, Link
<1>5. x # ".." => Ahead(w) = Append(at, x)
  BY DEF Ahead
<1> QED BY <1>2, <1>3, <1>4, <1>5

LinksOf(t, parts) == ToSet(Walk(t, parts).links)
Count(t, parts)   == Len(Walk(t, parts).links)

LEMMA TargetWalk ==
  ASSUME NEW t, IsTree(t), NEW at, Dir(t, at), NEW a \in DOMAIN t, Link(t, a)
  PROVE  /\ Target(at, t[a]) \in Seq(Part)
         /\ Walk(t, Target(at, t[a])) = Follow(t, At(IF t[a].abs THEN Root ELSE at, t[a].target))
<1>1. PICK s \in Seq(Part) : s = t[a].target
  BY LinkNode
<1>2. at \in Seq(Part) /\ at \in DOMAIN t /\ ~Link(t, at)
  BY DEF IsTree, Dir, Link, Part
<1>3. CASE t[a].abs
  <2>1. Target(at, t[a]) = s
    BY <1>1, <1>3 DEF Target
  <2>2. Start(s) = At(Root, s)
    BY DEF Start, At
  <2> QED BY <1>1, <1>3, <2>1, <2>2 DEF Walk
<1>4. CASE ~t[a].abs
  <2>1. Target(at, t[a]) = at \o s
    BY <1>1, <1>4 DEF Target
  <2>2. Walk(t, at \o s) = Follow(t, At(at, s))
    BY <1>2, Canonical
  <2>3. at \o s \in Seq(Part)
    BY <1>2, Joined
  <2> QED BY <1>1, <1>4, <2>1, <2>2, <2>3
<1> QED BY <1>3, <1>4

LEMMA PartLinks ==
  ASSUME NEW t, IsTree(t), NEW prefix \in Seq(Part), NEW x \in Part,
         Walk(t, Append(prefix, x)).error = "none"
  PROVE  LET at == Walk(t, prefix).at
             a  == Append(at, x)
         IN  /\ Walk(t, prefix).error = "none" /\ Walk(t, prefix).links \in Seq(DOMAIN t)
             /\ ~Link(t, a) => Walk(t, Append(prefix, x)).links = Walk(t, prefix).links
             /\ Link(t, a) =>
                  LET target == Target(at, t[a])
                  IN  /\ Front(a) = at /\ target \in Seq(Part) /\ Walk(t, target).error = "none"
                      /\ Walk(t, target).links \in Seq(DOMAIN t) /\ a \in DOMAIN t
                      /\ Walk(t, Append(prefix, x)).links
                           = Append(Walk(t, prefix).links, a) \o Walk(t, target).links
<1>1. <<x>> \in Seq(Part) /\ Append(prefix, x) = prefix \o <<x>> /\ Tail(<<x>>) = <<>>
      /\ <<x>> # <<>> /\ Head(<<x>>) = x
  OBVIOUS
<1>2. PICK v : v = Walk(t, prefix)
  OBVIOUS
<1>3. PICK w \in Walks(t) :
        /\ w = [at |-> v.at, rest |-> <<x>>, links |-> v.links, error |-> "none"]
        /\ v.error = "none" /\ Walk(t, Append(prefix, x)) = Follow(t, w)
  <2>1. PICK b \in Seq(Part) : b = <<x>>
    BY <1>1
  <2>2. Walk(t, prefix \o b).error = "none"
    BY <1>1, <2>1
  <2>3. LET w == [at |-> v.at, rest |-> b, links |-> v.links, error |-> "none"]
        IN  v.error = "none" /\ w \in Walks(t) /\ Walk(t, prefix \o b) = Follow(t, w)
    BY <1>2, <2>2, WalkOn
  <2> QED BY <1>1, <2>1, <2>3
<1>4. v.at \in DOMAIN t /\ v.links \in Seq(DOMAIN t) /\ Len(v.links) \in Nat
  BY <1>2, <1>3, EndedWalk
<1>5. w.at = v.at /\ w.rest = <<x>> /\ w.links = v.links /\ w.error = "none" /\ ~Over(w)
  BY <1>1, <1>3 DEF Over
<1>6. PICK a : a = Append(v.at, x)
  OBVIOUS
<1>7. PICK p : p = Ahead(w)
  OBVIOUS
<1>8. (Link(t, a) => p = a /\ Front(a) = v.at) /\ (~Link(t, a) => ~Link(t, p))
  BY <1>1, <1>4, <1>5, <1>6, <1>7, PartAhead
<1>9. PICK u \in Walks(t) : u = Step(t, w) /\ u = Moved(t, w, p) /\ Follow(t, w) = Follow(t, u)
  <2>1. Step(t, w) \in Walks(t) /\ Step(t, w) = Moved(t, w, p) /\ Follow(t, w) = Follow(t, Step(t, w))
    BY <1>5, <1>7, StepMoves, StepType, FollowStep
  <2> QED BY <2>1
<1>10. u.error = "none"
  <2>1. u.error # "none" => Follow(t, u) = u
    BY FollowStep DEF Over
  <2> QED BY <1>3, <1>9, <2>1
<1>11. Dir(t, v.at) /\ p \in DOMAIN t /\ ~(Link(t, p) /\ Len(w.links) = MaxLinks)
  BY <1>5, <1>9, <1>10 DEF Moved
<1>12. CASE ~Link(t, a)
  <2>1. u = [at |-> p, rest |-> <<>>, links |-> v.links, error |-> "none"]
    BY <1>1, <1>5, <1>8, <1>9, <1>11, <1>12 DEF Moved
  <2>2. Follow(t, u) = u
    BY <2>1, FollowStep DEF Over
  <2>3. Walk(t, Append(prefix, x)).links = v.links
    <3>1. Walk(t, Append(prefix, x)) = u
      BY <1>3, <1>9, <2>2
    <3>2. u.links = v.links
      BY <2>1
    <3> QED BY <3>1, <3>2
  <2> QED BY <1>2, <1>3, <1>4, <1>6, <1>12, <2>3
<1>13. CASE Link(t, a)
  <2>1. p = a /\ a \in DOMAIN t
    BY <1>8, <1>11, <1>13
  <2>2. PICK s \in Seq(Part) : s = t[a].target /\ s \o <<>> = s
    <3>1. t[a].target \in Seq(Part)
      BY <1>13, <2>1, LinkNode
    <3> QED BY <3>1
  <2>3. PICK base \in DOMAIN t : base = IF t[a].abs THEN Root ELSE v.at
    BY <1>4 DEF IsTree, Dir
  <2>4. PICK l \in Seq(DOMAIN t) : l = Append(v.links, a)
    <3>1. Append(v.links, a) \in Seq(DOMAIN t)
      BY <1>4, <2>1, Appended
    <3> QED BY <3>1
  <2>5. u = [at |-> base, rest |-> s, links |-> l, error |-> "none"]
    BY <1>1, <1>5, <1>9, <1>11, <1>13, <2>1, <2>2, <2>3, <2>4 DEF Moved
  <2>6. PICK e : e = Follow(t, At(base, s))
    OBVIOUS
  <2>7. e.error = "none" /\ e.links \in Seq(DOMAIN t) /\ Follow(t, u).links = l \o e.links
    <3>1. Follow(t, u).error = "none"
      BY <1>3, <1>9
    <3>2. LET q == Follow(t, At(base, s))
          IN  q.error = "none" /\ q.links \in Seq(DOMAIN t) /\ Follow(t, u).links = l \o q.links
      BY <2>5, <3>1, LinksGrow
    <3> QED BY <2>6, <3>2
  <2>8. Target(v.at, t[a]) \in Seq(Part) /\ Walk(t, Target(v.at, t[a])) = e
    BY <1>11, <1>13, <2>1, <2>2, <2>3, <2>6, TargetWalk
  <2> QED BY <1>2, <1>3, <1>4, <1>6, <1>8, <1>9, <1>13, <2>1, <2>4, <2>7, <2>8
<1> QED BY <1>12, <1>13

LEMMA JoinedSets ==
  ASSUME NEW S, NEW a \in Seq(S), NEW b \in Seq(S)
  PROVE  ToSet(a \o b) = ToSet(a) \cup ToSet(b)
<1>1. PICK s \in Seq(S) : s = a \o b
  BY Joined
<1>2. /\ Len(a) \in Nat /\ Len(b) \in Nat /\ Len(s) = Len(a) + Len(b)
      /\ \A i \in 1 .. Len(a) : s[i] = a[i]
      /\ \A i \in 1 .. Len(b) : s[i + Len(a)] = b[i]
  BY <1>1
<1>3. DOMAIN a = 1 .. Len(a) /\ DOMAIN b = 1 .. Len(b) /\ DOMAIN s = 1 .. Len(s)
  OBVIOUS
<1>4. ASSUME NEW y \in ToSet(s) PROVE y \in ToSet(a) \cup ToSet(b)
  <2>1. PICK i \in 1 .. Len(s) : y = s[i]
    BY <1>3 DEF ToSet
  <2>2. CASE i <= Len(a)
    <3>1. i \in 1 .. Len(a) /\ y = a[i]
      BY <1>2, <2>1, <2>2
    <3> QED BY <1>3, <3>1 DEF ToSet
  <2>3. CASE ~(i <= Len(a))
    <3>1. i - Len(a) \in 1 .. Len(b) /\ (i - Len(a)) + Len(a) = i
      BY <1>2, <2>3
    <3>2. y = b[i - Len(a)]
      BY <1>2, <2>1, <3>1
    <3> QED BY <1>3, <3>1, <3>2 DEF ToSet
  <2> QED BY <2>2, <2>3
<1>5. ASSUME NEW y \in ToSet(a) PROVE y \in ToSet(s)
  <2>1. PICK i \in 1 .. Len(a) : y = a[i]
    BY <1>3 DEF ToSet
  <2>2. i \in 1 .. Len(s) /\ y = s[i]
    BY <1>2, <2>1
  <2> QED BY <1>3, <2>2 DEF ToSet
<1>6. ASSUME NEW y \in ToSet(b) PROVE y \in ToSet(s)
  <2>1. PICK i \in 1 .. Len(b) : y = b[i]
    BY <1>3 DEF ToSet
  <2>2. i + Len(a) \in 1 .. Len(s) /\ y = s[i + Len(a)]
    BY <1>2, <2>1
  <2> QED BY <1>3, <2>2 DEF ToSet
<1> QED BY <1>1, <1>4, <1>5, <1>6

LEMMA AppendedSet ==
  ASSUME NEW S, NEW s \in Seq(S), NEW x \in S
  PROVE  ToSet(Append(s, x)) = ToSet(s) \cup {x}
<1>1. PICK u \in Seq(S) : Append(s, x) = s \o u /\ ToSet(u) = {x}
  <2>1. <<x>> \in Seq(S) /\ Append(s, x) = s \o <<x>>
    OBVIOUS
  <2>2. ToSet(<<x>>) = {x}
    BY DEF ToSet
  <2> QED BY <2>1, <2>2
<1>2. ToSet(s \o u) = ToSet(s) \cup ToSet(u)
  BY JoinedSets
<1> QED BY <1>1, <1>2

LEMMA NoLinks ==
  ASSUME NEW t, IsTree(t)
  PROVE  LinksOf(t, Root) = {} /\ Walk(t, Root).error = "none"
<1>1. <<>> \in Seq(Part)
  OBVIOUS
<1>2. Start(<<>>) \in Walks(t) /\ Over(Start(<<>>))
  BY <1>1, WalkType DEF Start, Over
<1>3. Walk(t, Root) = Start(<<>>)
  BY <1>2, FollowStep DEF Walk, Root
<1>4. ToSet(<<>>) = {}
  BY DEF ToSet
<1> QED BY <1>3, <1>4 DEF LinksOf, Start

LEMMA LinksOn ==
  ASSUME NEW t, IsTree(t), NEW a \in Seq(Part), NEW b \in Seq(Part), Walk(t, a \o b).error = "none"
  PROVE  /\ Walk(t, a).error = "none" /\ LinksOf(t, a) \subseteq LinksOf(t, a \o b)
         /\ Count(t, a) \in Nat /\ Count(t, a \o b) \in Nat /\ Count(t, a) <= Count(t, a \o b)
<1>1. PICK v : v = Walk(t, a)
  OBVIOUS
<1>2. PICK w \in Walks(t) :
        /\ w = [at |-> v.at, rest |-> b, links |-> v.links, error |-> "none"]
        /\ v.error = "none" /\ Walk(t, a \o b) = Follow(t, w)
  BY <1>1, WalkOn
<1>3. v.at \in DOMAIN t /\ v.links \in Seq(DOMAIN t)
  BY <1>1, <1>2, EndedWalk
<1>4. PICK m \in Seq(DOMAIN t) : Walk(t, a \o b).links = v.links \o m
  <2>1. Follow(t, w).error = "none"
    BY <1>2
  <2>2. LET q == Follow(t, At(v.at, b))
        IN  q.links \in Seq(DOMAIN t) /\ Follow(t, w).links = v.links \o q.links
    BY <1>2, <1>3, <2>1, LinksGrow
  <2> QED BY <1>2, <2>2
<1>5. ToSet(v.links) \subseteq ToSet(v.links \o m)
  BY <1>3, JoinedSets
<1>6. Len(v.links \o m) = Len(v.links) + Len(m) /\ Len(v.links) \in Nat /\ Len(m) \in Nat
  BY <1>3, Joined
<1>7. /\ LinksOf(t, a) = ToSet(v.links) /\ LinksOf(t, a \o b) = ToSet(v.links \o m)
      /\ Count(t, a) = Len(v.links) /\ Count(t, a \o b) = Len(v.links \o m)
  BY <1>1, <1>4, Zenon DEF LinksOf, Count
<1>8. Walk(t, a).error = "none"
  BY <1>1, <1>2
<1>9. PICK c, d, e : c = Len(v.links) /\ d = Len(m) /\ e = Len(v.links \o m)
  OBVIOUS
<1>10. c \in Nat /\ e \in Nat /\ c <= e
  BY <1>6, <1>9
<1> QED BY <1>5, <1>7, <1>8, <1>9, <1>10

(* A relative path as it is spelt: over the links of the directory, then    *)
(* over its own, if the kernel follows so many.                             *)
Way(t, path) == IF path.abs THEN {} ELSE LinksOf(t, Getwd(t))

LEMMA GetwdWalk ==
  ASSUME NEW t, IsTree(t), Dir(t, Cwd)
  PROVE  Walk(t, Getwd(t)).error = "none" /\ Walk(t, Getwd(t)).at = Cwd
<1>1. CASE Getwd(t) = Pwd /\ Pwd # Cwd
  BY <1>1 DEF Getwd
<1>2. CASE Getwd(t) = Cwd
  <2>1. Cwd \in DOMAIN t /\ ~Link(t, Cwd) /\ Cwd \in Seq(Name) /\ <<>> \in Seq(Part)
    BY DEF IsTree, Dir, Link
  <2>2. PICK w \in Walks(t) : w = At(Cwd, <<>>)
    BY <2>1, AtType
  <2>3. w.at = Cwd /\ w.rest = <<>> /\ w.error = "none"
    BY <2>2 DEF At
  <2>4. Follow(t, w) = w
    BY <2>3, FollowStep DEF Over
  <2>5. PICK b \in Seq(Part) : b = <<>>
    BY <2>1
  <2>6. Walk(t, Cwd \o b) = Follow(t, At(Cwd, b))
    BY <2>1, Canonical
  <2>7. Cwd \o b = Cwd
    BY <2>1, <2>5
  <2> QED BY <1>2, <2>2, <2>3, <2>4, <2>5, <2>6, <2>7
<1>3. Getwd(t) = Pwd \/ Getwd(t) = Cwd
  BY DEF Getwd
<1> QED BY <1>1, <1>2, <1>3

LEMMA SpeltWalk ==
  ASSUME NEW t, IsTree(t), Dir(t, Cwd), NEW path \in Path, Walk(t, Absolute(path)).error = "none",
         path.abs \/ Count(t, Getwd(t)) + Count(t, Absolute(path)) <= MaxLinks
  PROVE  /\ Walk(t, Spelt(t, path)).error = "none"
         /\ LinksOf(t, Spelt(t, path)) = LinksOf(t, Absolute(path)) \cup Way(t, path)
<1>1. CASE path.abs
  BY <1>1 DEF Spelt, Absolute, Way
<1>2. CASE ~path.abs
  <2>1. PICK dir \in Seq(Part) : dir = Getwd(t)
    BY GetwdType
  <2>2. PICK parts \in Seq(Part) : parts = path.parts
    BY DEF Path
  <2>3. Spelt(t, path) = dir \o parts /\ Absolute(path) = Cwd \o parts
    BY <1>2, <2>1, <2>2 DEF Spelt, Absolute
  <2>4. PICK v \in Walks(t) : /\ v = Walk(t, dir) /\ v.error = "none" /\ v.at = Cwd
                              /\ v = [at |-> Cwd, rest |-> <<>>, links |-> v.links, error |-> "none"]
    BY <2>1, GetwdWalk, EndedWalk
  <2>5. PICK l \in Seq(DOMAIN t) : l = v.links
    BY WalkFields
  <2>6. PICK w \in Walks(t) : w = At(Cwd, parts)
    BY AtType DEF Dir
  <2>7. PICK e \in Walks(t) : /\ e = Follow(t, w) /\ e = Walk(t, Absolute(path)) /\ e.error = "none"
    <3>1. Follow(t, w) \in Walks(t)
      BY FollowType
    <3>2. Walk(t, Cwd \o parts) = Follow(t, w)
      BY <2>6, Canonical DEF Dir, Link
    <3> QED BY <2>3, <3>1, <3>2
  <2>8. Len(l) + Len(e.links) <= MaxLinks
    BY <1>2, <2>1, <2>4, <2>5, <2>7 DEF Count
  <2>9. After(l, w) \in Walks(t) /\ Follow(t, After(l, w)) = After(l, e)
    BY <2>7, <2>8, MoreLinks
  <2>10. Walk(t, dir \o parts) = Follow(t, After(l, w))
    <3>1. PICK s0 \in Walks(t) : s0 = Start(dir)
      BY WalkType
    <3>2. Longer(s0, parts) = Start(dir \o parts)
      <4>1. Longer(s0, parts)
              = [at |-> s0.at, rest |-> s0.rest \o parts, links |-> s0.links, error |-> s0.error]
        BY LongerFields, Zenon
      <4> QED BY <3>1, <4>1 DEF Start
    <3>3. Follow(t, s0) = v
      BY <2>4, <3>1 DEF Walk
    <3>4. Follow(t, Longer(s0, parts)) = Follow(t, Longer(v, parts))
      BY <2>4, <3>3, Compose
    <3>5. Longer(v, parts) = After(l, w)
      <4>1. Longer(v, parts)
              = [at |-> v.at, rest |-> v.rest \o parts, links |-> v.links, error |-> v.error]
        BY LongerFields, Zenon
      <4>2. v.rest \o parts = parts
        <5>1. v.rest = <<>>
          BY <2>4
        <5>2. <<>> \o parts = parts
          OBVIOUS
        <5> QED BY <5>1, <5>2
      <4>3. After(l, w) = [at |-> w.at, rest |-> w.rest, links |-> l \o w.links, error |-> w.error]
        BY AfterFields, Zenon
      <4>4. w.at = Cwd /\ w.rest = parts /\ w.links = <<>> /\ w.error = "none" /\ l \o <<>> = l
        BY <2>6 DEF At
      <4> QED BY <2>4, <2>5, <4>1, <4>2, <4>3, <4>4
    <3> QED BY <3>2, <3>4, <3>5 DEF Walk
  <2>11. After(l, e) = [at |-> e.at, rest |-> e.rest, links |-> l \o e.links, error |-> e.error]
    BY AfterFields, Zenon
  <2>12. ToSet(l \o e.links) = ToSet(l) \cup ToSet(e.links)
    <3>1. e.links \in Seq(DOMAIN t)
      BY WalkFields
    <3> QED BY <3>1, JoinedSets
  <2>13. LinksOf(t, Spelt(t, path)) = ToSet(l \o e.links) /\ Walk(t, Spelt(t, path)).error = "none"
    BY <2>3, <2>7, <2>9, <2>10, <2>11 DEF LinksOf
  <2>14. LinksOf(t, Absolute(path)) = ToSet(e.links) /\ Way(t, path) = ToSet(l)
    BY <1>2, <2>1, <2>4, <2>5, <2>7 DEF LinksOf, Way
  <2> QED BY <2>12, <2>13, <2>14
<1> QED BY <1>1, <1>2

(* What one more part adds to the links of a path.                          *)
Adding(t, prefix, x, whole) ==
  LET at == Walk(t, prefix).at
      a  == Append(at, x)
      on == Append(prefix, x)
      target == Target(at, t[a])
  IN  /\ ~Link(t, a) => LinksOf(t, on) = LinksOf(t, prefix)
      /\ Link(t, a) =>
           /\ Front(a) = at /\ target \in Seq(Part) /\ Walk(t, target).error = "none"
           /\ LinksOf(t, on) = LinksOf(t, prefix) \cup {a} \cup LinksOf(t, target)
           /\ a \in LinksOf(t, whole) /\ LinksOf(t, target) \subseteq LinksOf(t, whole)
           /\ Count(t, target) < Count(t, whole)

LEMMA PartAdds ==
  ASSUME NEW t, IsTree(t), NEW prefix \in Seq(Part), NEW x \in Part, NEW rest \in Seq(Part),
         NEW whole, whole = Append(prefix, x) \o rest, Walk(t, whole).error = "none"
  PROVE  Adding(t, prefix, x, whole)
<1>1. PICK on \in Seq(Part) : on = Append(prefix, x)
  BY Appended
<1>2. /\ Walk(t, on).error = "none" /\ LinksOf(t, on) \subseteq LinksOf(t, whole)
      /\ Count(t, on) \in Nat /\ Count(t, whole) \in Nat /\ Count(t, on) <= Count(t, whole)
  BY <1>1, LinksOn
<1>3. PICK at : at = Walk(t, prefix).at
  OBVIOUS
<1>4. PICK a : a = Append(at, x)
  OBVIOUS
<1>5. /\ Walk(t, prefix).error = "none" /\ Walk(t, prefix).links \in Seq(DOMAIN t)
      /\ ~Link(t, a) => Walk(t, on).links = Walk(t, prefix).links
  BY <1>1, <1>2, <1>3, <1>4, PartLinks
<1>6. CASE ~Link(t, a)
  BY <1>1, <1>2, <1>3, <1>4, <1>5, <1>6 DEF LinksOf, Adding
<1>7. CASE Link(t, a)
  <2>1. PICK target : target = Target(at, t[a])
    OBVIOUS
  <2>2. /\ Front(a) = at /\ target \in Seq(Part) /\ Walk(t, target).error = "none"
        /\ Walk(t, target).links \in Seq(DOMAIN t) /\ a \in DOMAIN t
        /\ Walk(t, on).links = Append(Walk(t, prefix).links, a) \o Walk(t, target).links
    BY <1>1, <1>2, <1>3, <1>4, <1>7, <2>1, PartLinks
  <2>3. PICK l \in Seq(DOMAIN t), m \in Seq(DOMAIN t) :
          l = Append(Walk(t, prefix).links, a) /\ m = Walk(t, target).links
    <3>1. Append(Walk(t, prefix).links, a) \in Seq(DOMAIN t)
      BY <1>5, <2>2, Appended
    <3> QED BY <2>2, <3>1
  <2>4. ToSet(l \o m) = ToSet(l) \cup ToSet(m) /\ ToSet(l) = ToSet(Walk(t, prefix).links) \cup {a}
    <3>1. ToSet(l \o m) = ToSet(l) \cup ToSet(m)
      BY JoinedSets
    <3>2. ToSet(Append(Walk(t, prefix).links, a)) = ToSet(Walk(t, prefix).links) \cup {a}
      BY <1>5, <2>2, AppendedSet
    <3> QED BY <2>3, <3>1, <3>2
  <2>5. Len(l \o m) = Len(l) + Len(m) /\ Len(l) = Len(Walk(t, prefix).links) + 1
        /\ Len(Walk(t, prefix).links) \in Nat /\ Len(m) \in Nat
    BY <1>5, <2>2, <2>3, Joined, Appended
  <2>6. LinksOf(t, on) = LinksOf(t, prefix) \cup {a} \cup LinksOf(t, target)
    BY <2>2, <2>3, <2>4 DEF LinksOf
  <2>7. Count(t, target) \in Nat /\ Count(t, target) < Count(t, on)
    <3>1. Count(t, target) = Len(m) /\ Count(t, on) = Len(l \o m)
      BY <2>2, <2>3, Zenon DEF Count
    <3>2. PICK c, d, e : c = Len(m) /\ d = Len(l \o m) /\ e = Len(Walk(t, prefix).links)
      OBVIOUS
    <3>3. c \in Nat /\ c < d
      BY <2>5, <3>2
    <3> QED BY <3>1, <3>2, <3>3
  <2>8. Count(t, target) < Count(t, whole)
    BY <1>2, <2>7
  <2> QED BY <1>1, <1>2, <1>3, <1>4, <1>7, <2>1, <2>2, <2>6, <2>7, <2>8 DEF Adding
<1> QED BY <1>6, <1>7

-----------------------------------------------------------------------------
(* The paths in progress, and the symlinks they have been found to lead     *)
(* over: a path's links are granted up to where it stands, apart from those *)
(* of the target that is walked on its behalf.  A link that has been seen   *)
(* is not walked again: its target is done, or is one of the paths in       *)
(* progress, and then has more links than the innermost and is no part of   *)
(* it.                                                                      *)
Frames == [prefix : Seq(Part), rest : Seq(Part)]

Whole(frame)   == frame.prefix \o frame.rest
TargetOf(t, a) == Target(Front(a), t[a])

Going(t, frame, needed) ==
  Walk(t, Whole(frame)).error = "none" /\ LinksOf(t, Whole(frame)) \subseteq needed
Behind(t, s, j) == IF j = 1 THEN {} ELSE LinksOf(t, Whole(s[j - 1]))
Left(t, s)      == IF s = <<>> THEN {} ELSE LinksOf(t, Whole(s[Len(s)]))
Followed(t, s, seen, a) ==
  LinksOf(t, TargetOf(t, a)) \subseteq seen \/ \E j \in 1 .. Len(s) : Whole(s[j]) = TargetOf(t, a)

Fit(t, s, seen, needed) ==
  /\ \A j \in 1 .. Len(s) :
       /\ Going(t, s[j], needed)
       /\ LinksOf(t, s[j].prefix) \subseteq seen \cup Behind(t, s, j)
  /\ \A i, j \in 1 .. Len(s) : i < j => Count(t, Whole(s[i])) < Count(t, Whole(s[j]))
  /\ \A a \in seen : Followed(t, s, seen, a)
  /\ seen \subseteq needed /\ needed \subseteq seen \cup Left(t, s)

Led(i) == { path \in Compiled(i) : Walk(tree, Absolute(path)).error = "none" }
Needed ==
  UNION { UNION { LinksOf(tree, Spelt(tree, path)) : path \in Led(i) } : i \in DOMAIN policy.fs }
Metadata == { line.at : line \in { l \in profile : l.op = "file-read-metadata" } }

(* The links of PWD and of a relative path behind it are no more than the   *)
(* kernel follows.                                                          *)
PwdShort == \A g \in Resolved : Len(Along(g)) + Len(g.walk.links) <= MaxLinks

StackInv ==
  pc # "failed" =>
    /\ stack \in Seq(Frames) /\ (stack = <<>> <=> pc # "aliases")
    /\ pc = "dirs" => aliases = {}
AliasInv ==
  pc \notin {"dirs", "failed"} /\ PwdShort =>
    Metadata = {Root} \cup aliases /\ Fit(tree, stack, aliases, Needed)

LEMMA Stacks ==
  ASSUME NEW s \in Seq(Frames), s # <<>>, NEW frame \in Frames, NEW on \in Frames, NEW len, len = Len(s)
  PROVE  /\ len \in Nat \ {0} /\ Head(s) = s[1] /\ \A j \in 1 .. len : s[j] \in Frames
         /\ LET u == <<on>> \o Tail(s)
            IN  u \in Seq(Frames) /\ Len(u) = len /\ u[1] = on /\ \A j \in 2 .. len : u[j] = s[j]
         /\ LET u == <<frame, on>> \o Tail(s)
            IN  /\ u \in Seq(Frames) /\ Len(u) = len + 1 /\ u[1] = frame /\ u[2] = on
                /\ \A j \in 2 .. len : u[j + 1] = s[j]
         /\ LET u == Tail(s)
            IN  u \in Seq(Frames) /\ Len(u) = len - 1 /\ \A j \in 1 .. len - 1 : u[j] = s[j + 1]
<1>1. len \in Nat \ {0} /\ Head(s) = s[1] /\ \A j \in 1 .. len : s[j] \in Frames
  OBVIOUS
<1>2. PICK u \in Seq(Frames) :
        u = Tail(s) /\ Len(u) = len - 1 /\ \A j \in 1 .. len - 1 : u[j] = s[j + 1]
  <2>1. Tail(s) \in Seq(Frames) /\ Len(Tail(s)) = len - 1 /\ \A j \in 1 .. len - 1 : Tail(s)[j] = s[j + 1]
    BY <1>1
  <2> QED BY <2>1
<1>3. /\ <<on>> \o u \in Seq(Frames) /\ Len(<<on>> \o u) = len /\ (<<on>> \o u)[1] = on
      /\ \A j \in 2 .. len : (<<on>> \o u)[j] = s[j]
  <2>1. /\ <<on>> \o u \in Seq(Frames) /\ Len(<<on>> \o u) = len /\ (<<on>> \o u)[1] = on
        /\ \A j \in 2 .. len : (<<on>> \o u)[j] = u[j - 1]
    BY <1>1, <1>2
  <2>2. \A j \in 2 .. len : u[j - 1] = s[j]
    <3>1. ASSUME NEW j \in 2 .. len PROVE j - 1 \in 1 .. len - 1 /\ (j - 1) + 1 = j
      BY <1>1
    <3> QED BY <1>2, <3>1
  <2> QED BY <2>1, <2>2
<1>4. /\ <<frame, on>> \o u \in Seq(Frames) /\ Len(<<frame, on>> \o u) = len + 1
      /\ (<<frame, on>> \o u)[1] = frame /\ (<<frame, on>> \o u)[2] = on
      /\ \A j \in 2 .. len : (<<frame, on>> \o u)[j + 1] = s[j]
  <2>1. /\ <<frame, on>> \o u \in Seq(Frames) /\ Len(<<frame, on>> \o u) = len + 1
        /\ (<<frame, on>> \o u)[1] = frame /\ (<<frame, on>> \o u)[2] = on
        /\ \A j \in 2 .. len : (<<frame, on>> \o u)[j + 1] = u[j - 1]
    BY <1>1, <1>2
  <2>2. \A j \in 2 .. len : u[j - 1] = s[j]
    <3>1. ASSUME NEW j \in 2 .. len PROVE j - 1 \in 1 .. len - 1 /\ (j - 1) + 1 = j
      BY <1>1
    <3> QED BY <1>2, <3>1
  <2> QED BY <2>1, <2>2
<1> QED BY <1>1, <1>2, <1>3, <1>4

LEMMA FitStart ==
  ASSUME NEW t, IsTree(t), NEW seen, NEW needed, Fit(t, <<>>, seen, needed),
         NEW frame \in Frames, frame.prefix = Root, Walk(t, Whole(frame)).error = "none",
         NEW s \in Seq(Frames), s = <<frame>>
  PROVE  Fit(t, s, seen, needed \cup LinksOf(t, Whole(frame)))
<1>1. Len(s) = 1 /\ s[1] = frame /\ s # <<>> /\ Len(<<>>) = 0
  OBVIOUS
<1>2. \A j \in 1 .. Len(s) : j = 1
  BY <1>1
<1>3. LinksOf(t, frame.prefix) = {}
  BY NoLinks
<1>4. /\ seen \subseteq needed /\ needed \subseteq seen
      /\ \A a \in seen : LinksOf(t, TargetOf(t, a)) \subseteq seen
  <2>1. ~ \E j \in 1 .. Len(<<>>) : TRUE
    BY <1>1
  <2> QED BY <2>1 DEF Fit, Left, Followed
<1>5. Left(t, s) = LinksOf(t, Whole(frame))
  BY <1>1 DEF Left
<1>6. \A j \in 1 .. Len(s) :
        /\ Going(t, s[j], needed \cup LinksOf(t, Whole(frame)))
        /\ LinksOf(t, s[j].prefix) \subseteq seen \cup Behind(t, s, j)
  BY <1>1, <1>2, <1>3 DEF Going
<1>7. \A i, j \in 1 .. Len(s) : ~(i < j)
  BY <1>1
<1>8. \A a \in seen : Followed(t, s, seen, a)
  BY <1>4 DEF Followed
<1> QED BY <1>4, <1>5, <1>6, <1>7, <1>8 DEF Fit

LEMMA FitOn ==
  ASSUME NEW t, NEW seen, NEW needed, NEW s \in Seq(Frames), s # <<>>, Fit(t, s, seen, needed),
         NEW on \in Frames, Whole(on) = Whole(Head(s)), LinksOf(t, on.prefix) \subseteq seen,
         NEW u, u = <<on>> \o Tail(s)
  PROVE  Fit(t, u, seen, needed)
<1>1. PICK len \in Nat \ {0} : len = Len(s)
  BY Stacks
<1>2. /\ Head(s) = s[1] /\ Len(u) = len /\ u[1] = on /\ u \in Seq(Frames)
      /\ \A j \in 2 .. len : u[j] = s[j]
  BY <1>1, Stacks
<1>3. \A j \in 1 .. len : Whole(u[j]) = Whole(s[j])
  <2>1. \A j \in 1 .. len : j = 1 \/ j \in 2 .. len
    BY <1>1
  <2> QED BY <1>2, <2>1
<1>4. \A j \in 1 .. len : Behind(t, u, j) = Behind(t, s, j)
  <2>1. \A j \in 1 .. len : j = 1 \/ j - 1 \in 1 .. len
    BY <1>1
  <2> QED BY <1>3, <2>1 DEF Behind
<1>5. /\ \A j \in 1 .. len :
           /\ Walk(t, Whole(s[j])).error = "none" /\ LinksOf(t, Whole(s[j])) \subseteq needed
           /\ LinksOf(t, s[j].prefix) \subseteq seen \cup Behind(t, s, j)
      /\ \A i, j \in 1 .. len : i < j => Count(t, Whole(s[i])) < Count(t, Whole(s[j]))
      /\ \A a \in seen : Followed(t, s, seen, a)
      /\ seen \subseteq needed /\ needed \subseteq seen \cup Left(t, s)
  BY <1>1 DEF Fit, Going
<1>6. Left(t, u) = Left(t, s)
  <2>1. len \in 1 .. len /\ u # <<>>
    <3>1. Len(<<>>) = 0
      OBVIOUS
    <3> QED BY <1>1, <1>2, <3>1
  <2> QED BY <1>1, <1>2, <1>3, <2>1 DEF Left
<1>7. ASSUME NEW j \in 1 .. len
      PROVE  Going(t, u[j], needed) /\ LinksOf(t, u[j].prefix) \subseteq seen \cup Behind(t, u, j)
  <2>1. Going(t, u[j], needed)
    BY <1>3, <1>5 DEF Going
  <2>2. CASE j = 1
    BY <1>2, <2>1, <2>2
  <2>3. CASE j # 1
    <3>1. j \in 2 .. len
      BY <1>1, <2>3
    <3> QED BY <1>2, <1>4, <1>5, <2>1, <3>1
  <2> QED BY <2>2, <2>3
<1>8. \A i, j \in 1 .. len : i < j => Count(t, Whole(u[i])) < Count(t, Whole(u[j]))
  BY <1>3, <1>5
<1>9. \A a \in seen : Followed(t, u, seen, a)
  <2>1. \A a : Followed(t, s, seen, a) => Followed(t, u, seen, a)
    BY <1>1, <1>2, <1>3 DEF Followed
  <2> QED BY <1>5, <2>1
<1> QED BY <1>2, <1>5, <1>6, <1>7, <1>8, <1>9 DEF Fit

LEMMA FitPop ==
  ASSUME NEW t, NEW seen, NEW needed, NEW s \in Seq(Frames), s # <<>>, Fit(t, s, seen, needed),
         Head(s).rest = <<>>
  PROVE  Fit(t, Tail(s), seen, needed)
<1>1. PICK len \in Nat \ {0} : len = Len(s)
  BY Stacks
<1>2. PICK u \in Seq(Frames) :
        u = Tail(s) /\ Len(u) = len - 1 /\ \A j \in 1 .. len - 1 : u[j] = s[j + 1]
  <2>1. PICK frame \in Frames : frame = s[1]
    <3>1. 1 \in 1 .. Len(s)
      BY <1>1
    <3> QED BY <3>1
  <2>2. /\ Tail(s) \in Seq(Frames) /\ Len(Tail(s)) = len - 1
        /\ \A j \in 1 .. len - 1 : Tail(s)[j] = s[j + 1]
    BY <1>1, <2>1, Stacks
  <2> QED BY <2>2
<1>3. Head(s) = s[1] /\ s[1] \in Frames /\ 1 \in 1 .. len
  BY <1>1, Stacks
<1>4. Whole(s[1]) = s[1].prefix
  <2>1. s[1].prefix \in Seq(Part) /\ s[1].rest = <<>>
    BY <1>3 DEF Frames
  <2>2. s[1].prefix \o <<>> = s[1].prefix
    BY <2>1
  <2> QED BY <2>1, <2>2 DEF Whole
<1>5. /\ \A j \in 1 .. len :
           /\ Going(t, s[j], needed)
           /\ LinksOf(t, s[j].prefix) \subseteq seen \cup Behind(t, s, j)
      /\ \A i, j \in 1 .. len : i < j => Count(t, Whole(s[i])) < Count(t, Whole(s[j]))
      /\ \A a \in seen : Followed(t, s, seen, a)
      /\ seen \subseteq needed /\ needed \subseteq seen \cup Left(t, s)
  BY <1>1 DEF Fit
<1>6. LinksOf(t, Whole(s[1])) \subseteq seen
  BY <1>3, <1>4, <1>5 DEF Behind
<1>7. \A j \in 1 .. len - 1 : j + 1 \in 1 .. len /\ (j + 1) - 1 = j /\ j + 1 # 1
  BY <1>1
<1>8. ASSUME NEW j \in 1 .. len - 1
      PROVE  Going(t, u[j], needed) /\ LinksOf(t, u[j].prefix) \subseteq seen \cup Behind(t, u, j)
  <2>1. Going(t, u[j], needed)
    BY <1>2, <1>5, <1>7
  <2>2. LinksOf(t, u[j].prefix) \subseteq seen \cup LinksOf(t, Whole(s[j]))
    BY <1>2, <1>5, <1>7 DEF Behind
  <2>3. CASE j = 1
    BY <1>6, <2>1, <2>2, <2>3
  <2>4. CASE j # 1
    <3>1. j - 1 \in 1 .. len - 1 /\ (j - 1) + 1 = j
      BY <1>1, <2>4
    <3> QED BY <1>2, <2>1, <2>2, <2>4, <3>1 DEF Behind
  <2> QED BY <2>3, <2>4
<1>9. \A i, j \in 1 .. len - 1 : i < j => Count(t, Whole(u[i])) < Count(t, Whole(u[j]))
  BY <1>1, <1>2, <1>5, <1>7
<1>10. ASSUME NEW a \in seen PROVE Followed(t, u, seen, a)
  <2>1. CASE LinksOf(t, TargetOf(t, a)) \subseteq seen
    BY <2>1 DEF Followed
  <2>2. CASE \E j \in 1 .. len : Whole(s[j]) = TargetOf(t, a)
    <3>1. PICK j \in 1 .. len : Whole(s[j]) = TargetOf(t, a)
      BY <2>2
    <3>2. CASE j = 1
      BY <1>6, <3>1, <3>2 DEF Followed
    <3>3. CASE j # 1
      <4>1. j - 1 \in 1 .. len - 1 /\ (j - 1) + 1 = j
        BY <1>1, <3>3
      <4> QED BY <1>2, <3>1, <4>1 DEF Followed
    <3> QED BY <3>2, <3>3
  <2> QED BY <1>1, <1>5, <2>1, <2>2 DEF Followed
<1>11. needed \subseteq seen \cup Left(t, u)
  <2>1. CASE len = 1
    BY <1>1, <1>5, <1>6, <2>1 DEF Left
  <2>2. CASE len # 1
    <3>1. len - 1 \in 1 .. len - 1 /\ (len - 1) + 1 = len
      BY <1>1, <2>2
    <3>2. u # <<>>
      <4>1. Len(<<>>) = 0 /\ len - 1 # 0
        BY <1>1, <2>2
      <4> QED BY <1>2, <4>1
    <3>3. Whole(u[Len(u)]) = Whole(s[len])
      BY <1>2, <3>1
    <3> QED BY <1>1, <1>5, <3>2, <3>3 DEF Left
  <2> QED BY <2>1, <2>2
<1> QED BY <1>2, <1>5, <1>8, <1>9, <1>10, <1>11 DEF Fit

LEMMA WholeType ==
  ASSUME NEW frame \in Frames
  PROVE  Whole(frame) \in Seq(Part)
BY Joined DEF Frames, Whole

LEMMA CountType ==
  ASSUME NEW t, IsTree(t), NEW parts \in Seq(Part), Walk(t, parts).error = "none"
  PROVE  Count(t, parts) \in Nat
<1>1. Walk(t, parts).links \in Seq(DOMAIN t)
  BY EndedWalk
<1> QED BY <1>1 DEF Count

LEMMA FitPush ==
  ASSUME NEW t, IsTree(t), NEW seen, NEW needed, NEW s \in Seq(Frames), s # <<>>,
         Fit(t, s, seen, needed),
         NEW on \in Frames, Whole(on) = Whole(Head(s)),
         NEW a, a \in LinksOf(t, Whole(on)),
         NEW frame \in Frames, frame.prefix = Root, Whole(frame) = TargetOf(t, a),
         Walk(t, Whole(frame)).error = "none",
         LinksOf(t, Whole(frame)) \subseteq LinksOf(t, Whole(on)),
         LinksOf(t, on.prefix) \subseteq seen \cup {a} \cup LinksOf(t, Whole(frame)),
         Count(t, Whole(frame)) < Count(t, Whole(on)),
         NEW u, u = <<frame, on>> \o Tail(s)
  PROVE  Fit(t, u, seen \cup {a}, needed)
<1>1. PICK len \in Nat \ {0} : len = Len(s)
  BY Stacks
<1>2. /\ Head(s) = s[1] /\ Len(u) = len + 1 /\ u[1] = frame /\ u[2] = on /\ u \in Seq(Frames)
      /\ \A j \in 2 .. len : u[j + 1] = s[j]
      /\ \A j \in 1 .. len : s[j] \in Frames
  BY <1>1, Stacks
<1>3. /\ \A j \in 1 .. len :
           /\ Walk(t, Whole(s[j])).error = "none" /\ LinksOf(t, Whole(s[j])) \subseteq needed
           /\ LinksOf(t, s[j].prefix) \subseteq seen \cup Behind(t, s, j)
      /\ \A i, j \in 1 .. len : i < j => Count(t, Whole(s[i])) < Count(t, Whole(s[j]))
      /\ \A b \in seen : Followed(t, s, seen, b)
      /\ seen \subseteq needed /\ needed \subseteq seen \cup Left(t, s)
  BY <1>1 DEF Fit, Going
<1>4. \A j \in 1 .. len : Whole(u[j + 1]) = Whole(s[j])
  <2>1. \A j \in 1 .. len : j = 1 \/ j \in 2 .. len
    BY <1>1
  <2>2. 1 + 1 = 2
    OBVIOUS
  <2> QED BY <1>2, <2>1, <2>2
<1>5. 1 \in 1 .. len /\ len \in 1 .. len
  BY <1>1
<1>6. \A j \in 1 .. len + 1 : j = 1 \/ (j # 1 /\ j - 1 \in 1 .. len /\ (j - 1) + 1 = j)
  BY <1>1
<1>7. ASSUME NEW j \in 1 .. len + 1
      PROVE  /\ Going(t, u[j], needed)
             /\ LinksOf(t, u[j].prefix) \subseteq seen \cup {a} \cup Behind(t, u, j)
  <2>1. CASE j = 1
    <3>1. LinksOf(t, Root) = {}
      BY NoLinks
    <3>2. LinksOf(t, Whole(on)) \subseteq needed
      BY <1>2, <1>3, <1>5
    <3> QED BY <1>2, <2>1, <3>1, <3>2 DEF Going
  <2>2. CASE j = 2
    <3>1. Going(t, u[j], needed)
      BY <1>2, <1>3, <1>5, <2>2 DEF Going
    <3>2. 2 - 1 = 1
      OBVIOUS
    <3>3. Behind(t, u, j) = LinksOf(t, Whole(frame))
      BY <1>2, <2>2, <3>2 DEF Behind
    <3> QED BY <1>2, <2>2, <3>1, <3>3
  <2>3. CASE j # 1 /\ j # 2
    <3>1. PICK i \in 2 .. len : i = j - 1 /\ i + 1 = j /\ i - 1 \in 1 .. len /\ (i - 1) + 1 = j - 1
      BY <1>1, <2>3
    <3>2. i \in 1 .. len /\ i # 1
      BY <3>1
    <3>3. u[j] = s[i]
      BY <1>2, <3>1
    <3>4. Behind(t, u, j) = LinksOf(t, Whole(u[j - 1])) /\ Behind(t, s, i) = LinksOf(t, Whole(s[i - 1]))
      BY <2>3, <3>2 DEF Behind
    <3>5. Whole(u[j - 1]) = Whole(s[i - 1])
      BY <1>4, <3>1
    <3> QED BY <1>3, <3>2, <3>3, <3>4, <3>5 DEF Going
  <2> QED BY <2>1, <2>2, <2>3
<1>8. \A j \in 1 .. len : Count(t, Whole(s[j])) \in Nat
  BY <1>2, <1>3, WholeType, CountType
<1>9. Count(t, Whole(frame)) \in Nat
  BY WholeType, CountType
<1>10. ASSUME NEW i \in 1 .. len + 1, NEW j \in 1 .. len + 1, i < j
       PROVE  Count(t, Whole(u[i])) < Count(t, Whole(u[j]))
  <2>1. PICK k \in 1 .. len : k + 1 = j /\ k = j - 1
    BY <1>1, <1>10
  <2>2. Whole(u[j]) = Whole(s[k])
    BY <1>4, <2>1
  <2>3. CASE i = 1
    <3>1. Count(t, Whole(frame)) < Count(t, Whole(s[1]))
      BY <1>2
    <3>2. k = 1 \/ 1 < k
      BY <2>1
    <3>3. k = 1 \/ Count(t, Whole(s[1])) < Count(t, Whole(s[k]))
      BY <1>3, <1>5, <3>2
    <3>4. PICK c, d, e : c = Count(t, Whole(frame)) /\ d = Count(t, Whole(s[1])) /\ e = Count(t, Whole(s[k]))
      OBVIOUS
    <3>5. c \in Nat /\ d \in Nat /\ e \in Nat /\ c < d /\ (d = e \/ d < e)
      BY <1>5, <1>8, <1>9, <3>1, <3>3, <3>4
    <3>6. c < e
      BY <3>5
    <3> QED BY <1>2, <2>2, <2>3, <3>4, <3>6
  <2>4. CASE i # 1
    <3>1. i - 1 \in 1 .. len /\ (i - 1) + 1 = i /\ i - 1 < k
      BY <1>1, <1>10, <2>1, <2>4
    <3> QED BY <1>3, <1>4, <2>1, <2>2, <3>1
  <2> QED BY <2>3, <2>4
<1>11. ASSUME NEW b \in seen \cup {a} PROVE Followed(t, u, seen \cup {a}, b)
  <2>1. CASE b = a
    <3>1. 1 \in 1 .. Len(u)
      BY <1>1, <1>2
    <3> QED BY <1>2, <2>1, <3>1 DEF Followed
  <2>2. CASE b \in seen
    <3>1. Followed(t, s, seen, b)
      BY <1>3, <2>2
    <3>2. CASE LinksOf(t, TargetOf(t, b)) \subseteq seen
      BY <3>2 DEF Followed
    <3>3. CASE \E j \in 1 .. len : Whole(s[j]) = TargetOf(t, b)
      <4>1. PICK j \in 1 .. len : Whole(s[j]) = TargetOf(t, b)
        BY <3>3
      <4>2. j + 1 \in 1 .. Len(u)
        BY <1>1, <1>2
      <4> QED BY <1>4, <4>1, <4>2 DEF Followed
    <3> QED BY <1>1, <3>1, <3>2, <3>3 DEF Followed
  <2> QED BY <2>1, <2>2
<1>12. seen \cup {a} \subseteq needed /\ Left(t, u) = Left(t, s)
  <2>1. a \in needed
    BY <1>2, <1>3, <1>5
  <2>2. u # <<>>
    <3>1. Len(<<>>) = 0 /\ len + 1 # 0
      BY <1>1
    <3> QED BY <1>2, <3>1
  <2>3. Whole(u[Len(u)]) = Whole(s[len])
    BY <1>2, <1>4, <1>5
  <2> QED BY <1>1, <1>3, <2>1, <2>2, <2>3 DEF Left
<1>13. Fit(t, u, seen \cup {a}, needed)
  BY <1>2, <1>3, <1>7, <1>10, <1>11, <1>12 DEF Fit
<1> QED BY <1>13

(* A link seen before has a target whose links are seen, if it is met on a  *)
(* path that leads somewhere.                                               *)
LEMMA Revisited ==
  ASSUME NEW t, IsTree(t), NEW seen, NEW needed, NEW s \in Seq(Frames), s # <<>>,
         Fit(t, s, seen, needed),
         NEW a \in seen, Count(t, TargetOf(t, a)) < Count(t, Whole(Head(s)))
  PROVE  LinksOf(t, TargetOf(t, a)) \subseteq seen
<1>1. PICK len \in Nat \ {0} : len = Len(s)
  BY Stacks
<1>2. Head(s) = s[1] /\ 1 \in 1 .. len /\ \A j \in 1 .. len : s[j] \in Frames
  BY <1>1, Stacks
<1>3. /\ Followed(t, s, seen, a)
      /\ \A j \in 1 .. len : Walk(t, Whole(s[j])).error = "none"
      /\ \A i, j \in 1 .. len : i < j => Count(t, Whole(s[i])) < Count(t, Whole(s[j]))
  BY <1>1 DEF Fit, Going
<1>4. \A j \in 1 .. len : Count(t, Whole(s[j])) \in Nat
  BY <1>2, <1>3, WholeType, CountType
<1>5. ASSUME NEW j \in 1 .. len, Whole(s[j]) = TargetOf(t, a) PROVE FALSE
  <2>1. PICK c, d : c = Count(t, Whole(s[1])) /\ d = Count(t, Whole(s[j]))
    OBVIOUS
  <2>2. c \in Nat /\ d \in Nat /\ d < c
    BY <1>2, <1>4, <1>5, <2>1
  <2>3. j = 1 \/ 1 < j
    BY <1>1
  <2>4. c = d \/ c < d
    BY <1>2, <1>3, <2>1, <2>3
  <2> QED BY <2>2, <2>4
<1> QED BY <1>1, <1>3, <1>5 DEF Followed

-----------------------------------------------------------------------------
(* What the steps do to the links that are granted.                         *)

LEMMA Untouched ==
  ASSUME NEW more, profile' = profile \cup more, \A l \in more : l.op # "file-read-metadata"
  PROVE  Metadata' = Metadata
<1>1. { l \in profile' : l.op = "file-read-metadata" } = { l \in profile : l.op = "file-read-metadata" }
  OBVIOUS
<1> QED BY <1>1 DEF Metadata

LEMMA Readable ==
  ASSUME NEW a, profile' = profile \cup Allow({"file-read-metadata"}, "literal", a)
  PROVE  Metadata' = Metadata \cup {a}
<1>1. PICK line : line = [op |-> "file-read-metadata", filter |-> "literal", at |-> a]
  OBVIOUS
<1>2. Allow({"file-read-metadata"}, "literal", a) = {line}
  <2>1. line \in Allow({"file-read-metadata"}, "literal", a)
    BY <1>1 DEF Allow
  <2>2. ASSUME NEW l \in Allow({"file-read-metadata"}, "literal", a) PROVE l = line
    <3>1. l.op = "file-read-metadata" /\ l.filter = "literal" /\ l.at = a
          /\ l = [op |-> l.op, filter |-> l.filter, at |-> l.at]
      BY <2>2 DEF Allow
    <3> QED BY <1>1, <3>1
  <2> QED BY <2>1, <2>2
<1>3. line.op = "file-read-metadata" /\ line.at = a
  BY <1>1
<1>4. { l \in profile' : l.op = "file-read-metadata" }
        = { l \in profile : l.op = "file-read-metadata" } \cup {line}
  BY <1>2, <1>3
<1> QED BY <1>3, <1>4 DEF Metadata

LEMMA LinesUnread ==
  ASSUME NEW t, NEW r \in Rule, NEW path, NEW l \in Lines(t, r, path)
  PROVE  l.op # "file-read-metadata"
<1>1. PICK isDir : isDir = Dir(t, Walk(t, Absolute(path)).at)
  OBVIOUS
<1>2. l.op \in fsOps(r, isDir) \cup {"network-outbound", "network-bind", "network-inbound"}
  BY <1>1, LineOps
<1>3. ASSUME l.op \in fsOps(r, isDir) PROVE l.op # "file-read-metadata"
  <2>1. l.op = "file-ioctl" \/ \E f \in r.access : l.op \in FlagOps(f, isDir)
    BY <1>3 DEF fsOps
  <2>2. \A f \in Flag : \A op \in FlagOps(f, isDir) : op # "file-read-metadata"
    BY DEF FlagOps, Flag
  <2>3. r.access \subseteq Flag
    BY DEF Rule
  <2> QED BY <2>1, <2>2, <2>3
<1> QED BY <1>2, <1>3

LEMMA NetUnread ==
  ASSUME NEW net, NEW l \in compileNet(net)
  PROVE  l.op # "file-read-metadata"
<1> DEFINE ops == {"network-outbound", "network-bind", "network-inbound"}
<1>1. ASSUME NEW some \in SUBSET ops, NEW proto, NEW port, l \in allowPort(some, proto, port)
      PROVE  l.op \in ops
  BY <1>1 DEF allowPort
<1>2. \E some \in SUBSET ops : \E proto, port : l \in allowPort(some, proto, port)
  <2>1. CASE net.allow
    BY <2>1 DEF compileNet
  <2>2. CASE ~net.allow
    <3>1. PICK i \in DOMAIN net.rules : l \in compileNetRule(net.rules[i])
      BY <2>2 DEF compileNet
    <3>2. l \in allowConnect(net.rules[i]) \/ l \in allowBind(net.rules[i])
      BY <3>1 DEF compileNetRule
    <3>3. {"network-outbound"} \in SUBSET ops /\ {"network-bind", "network-inbound"} \in SUBSET ops
      OBVIOUS
    <3>4. CASE l \in allowConnect(net.rules[i])
      BY <3>3, <3>4 DEF allowConnect
    <3>5. CASE l \in allowBind(net.rules[i])
      BY <3>3, <3>5 DEF allowBind
    <3> QED BY <3>2, <3>4, <3>5
  <2> QED BY <2>1, <2>2
<1> QED BY <1>1, <1>2

LEMMA NeededKept ==
  ASSUME tree' = tree, policy' = policy, \A i \in DOMAIN policy.fs : Compiled(i)' = Compiled(i)
  PROVE  Needed' = Needed
<1>1. \A i \in DOMAIN policy.fs : Led(i)' = Led(i)
  BY DEF Led
<1> QED BY <1>1 DEF Needed

LEMMA ShortKept ==
  ASSUME tree' = tree, policy' = policy
  PROVE  PwdShort' = PwdShort
BY DEF PwdShort, Resolved, Granted, Meant, Along

LEMMA HeadOn ==
  ASSUME NEW p \in Seq(Part), NEW s \in Seq(Part), s # <<>>
  PROVE  Append(p, Head(s)) \o Tail(s) = p \o s
<1>1. Head(s) \in Part /\ Tail(s) \in Seq(Part)
  BY HeadTail
<1>2. PICK u \in Seq(Part) : u = <<Head(s)>> /\ Append(p, Head(s)) = p \o u
  <2>1. <<Head(s)>> \in Seq(Part) /\ Append(p, Head(s)) = p \o <<Head(s)>>
    BY <1>1
  <2> QED BY <2>1
<1>3. PICK v \in Seq(Part) : v = Tail(s)
  BY <1>1
<1>4. u \o v = s
  BY <1>2, <1>3
<1>5. (p \o u) \o v = p \o (u \o v)
  BY Regroup
<1> QED BY <1>2, <1>3, <1>4, <1>5

LEMMA TodoPaths ==
  ASSUME PatternsClean, TypeInv, PatternInv, pc = "paths", NEW path \in todo
  PROVE  path \in Path
<1>1. n \in DOMAIN policy.fs /\ todo \subseteq Paths(tree, rule) /\ rule = policy.fs[n]
  BY DEF TypeInv, AtRule, rule
<1>2. PICK m \in DOMAIN policy.fs : m = n
  BY <1>1
<1>3. path \in Paths(tree, policy.fs[m]) /\ ~NoPath(policy.fs[m])
  BY <1>1, <1>2 DEF Paths
<1>4. resolvePath(tree, policy.fs[m]).error # "pattern"
  BY <1>2, <1>3 DEF PatternInv, AtRule
<1> QED BY <1>3, <1>4, MeantPaths

LEMMA StackNext ==
  PatternsClean /\ TypeInv /\ PatternInv /\ StackInv /\ [Next]_vars => StackInv'
<1> SUFFICES ASSUME PatternsClean, TypeInv, PatternInv, StackInv, [Next]_vars, pc' # "failed"
             PROVE  StackInv'
  BY DEF StackInv
<1>1. CASE UNCHANGED vars
  BY <1>1 DEF vars, StackInv
<1>2. CASE CreatePolicyDir
  BY <1>2 DEF CreatePolicyDir, StackInv
<1>3. CASE CompileSBPL
  BY <1>3 DEF CompileSBPL, StackInv
<1>4. CASE compilePath
  <2>1. IsTree(tree) /\ Dir(tree, Cwd) /\ pc = "paths" /\ stack = <<>> /\ stack \in Seq(Frames)
    BY <1>4 DEF TypeInv, StackInv, compilePath
  <2>2. PICK path \in todo : \/ pc' = pc /\ stack' = stack
                             \/ pc' = "aliases" /\ stack' = <<Frame(Spelt(tree, path))>>
    BY <1>4 DEF compilePath
  <2>3. Spelt(tree, path) \in Seq(Part)
    <3>1. path \in Path
      BY <2>1, TodoPaths
    <3> QED BY <2>1, <3>1, SpeltType
  <2>4. PICK frame \in Frames : frame = Frame(Spelt(tree, path))
    <3>1. Frame(Spelt(tree, path)) \in Frames
      BY <2>3 DEF Frame, Frames, Root
    <3> QED BY <3>1
  <2>5. <<frame>> \in Seq(Frames) /\ <<frame>> # <<>>
    OBVIOUS
  <2> QED BY <2>1, <2>2, <2>4, <2>5 DEF StackInv
<1>5. CASE allowPathAliases
  <2>1. IsTree(tree) /\ stack \in Seq(Frames) /\ stack # <<>> /\ pc = "aliases" /\ pc' = "aliases"
    BY <1>5 DEF TypeInv, StackInv, allowPathAliases
  <2>2. PICK frame \in Frames : frame = Head(stack) /\ frame.rest # <<>>
    BY <1>5, <2>1, HeadTail DEF allowPathAliases
  <2>3. PICK prefix \in Seq(Part), part \in Part, rest \in Seq(Part) :
          prefix = frame.prefix /\ part = Head(frame.rest) /\ rest = Tail(frame.rest)
    <3>1. frame.prefix \in Seq(Part) /\ frame.rest \in Seq(Part)
      BY DEF Frames
    <3> QED BY <2>2, <3>1, HeadTail
  <2>4. PICK on \in Frames : on = [prefix |-> Append(prefix, part), rest |-> rest]
    <3>1. Append(prefix, part) \in Seq(Part)
      BY Appended
    <3> QED BY <3>1 DEF Frames
  <2>5. PICK at \in DOMAIN tree : at = Walk(tree, prefix).at
    BY <2>1, WalkType
  <2>6. PICK a : a = Append(at, part)
    OBVIOUS
  <2>7. \/ Link(tree, a) /\ stack' = <<Frame(Target(at, tree[a])), on>> \o Tail(stack)
        \/ stack' = <<on>> \o Tail(stack)
    BY <1>5, <2>1, <2>2, <2>3, <2>4, <2>5, <2>6 DEF allowPathAliases
  <2>8. PICK len : len = Len(stack)
    OBVIOUS
  <2>9. CASE stack' = <<on>> \o Tail(stack)
    <3>1. LET u == <<on>> \o Tail(stack)
          IN  u \in Seq(Frames) /\ Len(u) = len /\ len \in Nat \ {0}
      BY <2>1, <2>8, Stacks
    <3>2. stack' \in Seq(Frames) /\ Len(stack') # 0 /\ Len(<<>>) = 0
      BY <2>9, <3>1
    <3>3. stack' # <<>>
      BY <3>2
    <3> QED BY <2>1, <3>2, <3>3 DEF StackInv
  <2>10. CASE Link(tree, a) /\ stack' = <<Frame(Target(at, tree[a])), on>> \o Tail(stack)
    <3>1. PICK s \in Seq(Part) : s = tree[a].target
      BY <2>1, <2>10, LinkNode DEF Link
    <3>2. at \in Seq(Part)
      BY <2>1 DEF IsTree, Part
    <3>3. Target(at, tree[a]) \in Seq(Part)
      <4>1. at \o s \in Seq(Part)
        BY <3>2, Joined
      <4> QED BY <3>1, <4>1 DEF Target
    <3>4. PICK new \in Frames : new = Frame(Target(at, tree[a]))
      <4>1. Frame(Target(at, tree[a])) \in Frames
        BY <3>3 DEF Frame, Frames, Root
      <4> QED BY <4>1
    <3>5. LET u == <<new, on>> \o Tail(stack)
          IN  u \in Seq(Frames) /\ Len(u) = len + 1 /\ len \in Nat
      BY <2>1, <2>8, Stacks
    <3>6. stack' \in Seq(Frames) /\ Len(stack') # 0 /\ Len(<<>>) = 0
      BY <2>10, <3>4, <3>5
    <3>7. stack' # <<>>
      BY <3>6
    <3> QED BY <2>1, <3>6, <3>7 DEF StackInv
  <2> QED BY <2>7, <2>9, <2>10
<1>6. CASE AliasesDone
  <2>1. /\ stack \in Seq(Frames) /\ stack # <<>> /\ stack' = Tail(stack)
        /\ pc = "aliases" /\ pc' = IF Len(stack) = 1 THEN "paths" ELSE "aliases"
    BY <1>6 DEF StackInv, AliasesDone
  <2>2. stack' \in Seq(Frames) /\ (stack' = <<>> <=> Len(stack) = 1)
    <3>1. Tail(stack) \in Seq(Frames) /\ Len(stack) \in Nat /\ Len(Tail(stack)) = Len(stack) - 1
      BY <2>1, HeadTail
    <3>2. PICK u \in Seq(Frames) : u = Tail(stack) /\ Len(u) = Len(stack) - 1
      BY <3>1
    <3>3. u = <<>> <=> Len(u) = 0
      OBVIOUS
    <3> QED BY <2>1, <3>1, <3>2, <3>3
  <2> QED BY <2>1, <2>2 DEF StackInv
<1>7. CASE compileFS \/ NextRule \/ CompileNet \/ Apply \/ Exec
  <2>1. /\ stack' = stack /\ pc \notin {"aliases", "failed"} /\ pc' \notin {"aliases", "dirs"}
    BY <1>7 DEF compileFS, NextRule, CompileNet, Apply, Exec
  <2> QED BY <2>1 DEF StackInv
<1> QED BY <1>1, <1>2, <1>3, <1>4, <1>5, <1>6, <1>7 DEF Next

LEMMA AliasStep ==
  ASSUME TypeInv, StackInv, AliasInv, PwdShort, allowPathAliases, pc' # "failed"
  PROVE  AliasInv'
<1>1. /\ IsTree(tree) /\ stack \in Seq(Frames) /\ stack # <<>>
      /\ Metadata = {Root} \cup aliases /\ Fit(tree, stack, aliases, Needed)
  BY DEF TypeInv, StackInv, AliasInv, allowPathAliases
<1>2. /\ tree' = tree /\ policy' = policy /\ pc = "aliases" /\ pc' = pc /\ n' = n /\ todo' = todo
  BY DEF allowPathAliases
<1>3. Needed' = Needed
  BY <1>2, NeededKept DEF Compiled, AtRule
<1>4. PICK frame \in Frames : frame = Head(stack) /\ frame = stack[1] /\ 1 \in 1 .. Len(stack)
  <2>1. Head(stack) \in Frames /\ Head(stack) = stack[1] /\ 1 \in 1 .. Len(stack)
    BY <1>1, HeadTail
  <2> QED BY <2>1
<1>5. PICK prefix \in Seq(Part), part \in Part, rest \in Seq(Part) :
        /\ prefix = frame.prefix /\ part = Head(frame.rest) /\ rest = Tail(frame.rest)
        /\ Append(prefix, part) \o rest = prefix \o frame.rest
  <2>1. frame.prefix \in Seq(Part) /\ frame.rest \in Seq(Part) /\ frame.rest # <<>>
    BY <1>4 DEF Frames, allowPathAliases
  <2>2. Head(frame.rest) \in Part /\ Tail(frame.rest) \in Seq(Part)
    BY <2>1, HeadTail
  <2>3. Append(frame.prefix, Head(frame.rest)) \o Tail(frame.rest) = frame.prefix \o frame.rest
    BY <2>1, HeadOn
  <2> QED BY <2>1, <2>2, <2>3
<1>6. PICK whole \in Seq(Part) :
        /\ whole = Append(prefix, part) \o rest /\ whole = Whole(frame)
        /\ Walk(tree, whole).error = "none"
  <2>1. Whole(frame) \in Seq(Part) /\ Whole(frame) = Append(prefix, part) \o rest
    BY <1>5, WholeType DEF Whole
  <2>2. Going(tree, stack[1], Needed)
    BY <1>1, <1>4 DEF Fit
  <2> QED BY <1>4, <2>1, <2>2 DEF Going
<1>7. LinksOf(tree, prefix) \subseteq aliases
  BY <1>1, <1>4, <1>5 DEF Fit, Behind
<1>8. PICK parent : parent = Walk(tree, prefix).at
  OBVIOUS
<1>9. PICK a : a = Append(parent, part)
  OBVIOUS
<1>10. PICK target : target = Target(parent, tree[a])
  OBVIOUS
<1>11. PICK on \in Frames :
         /\ on = [prefix |-> Append(prefix, part), rest |-> rest] /\ Whole(on) = whole
         /\ on.prefix = Append(prefix, part)
  <2>1. Append(prefix, part) \in Seq(Part)
    BY Appended
  <2>2. [prefix |-> Append(prefix, part), rest |-> rest] \in Frames
    BY <2>1 DEF Frames
  <2> QED BY <1>6, <2>2 DEF Whole
<1>12. /\ ~Link(tree, a) => LinksOf(tree, on.prefix) = LinksOf(tree, prefix)
       /\ Link(tree, a) =>
            /\ Front(a) = parent /\ target \in Seq(Part) /\ Walk(tree, target).error = "none"
            /\ LinksOf(tree, on.prefix) = LinksOf(tree, prefix) \cup {a} \cup LinksOf(tree, target)
            /\ a \in LinksOf(tree, whole) /\ LinksOf(tree, target) \subseteq LinksOf(tree, whole)
            /\ Count(tree, target) < Count(tree, whole)
  <2>1. Adding(tree, prefix, part, whole)
    BY <1>1, <1>6, PartAdds
  <2> QED BY <1>8, <1>9, <1>10, <1>11, <2>1 DEF Adding
<1>13. IF Link(tree, a) /\ a \notin aliases
       THEN /\ aliases' = aliases \cup {a}
            /\ profile' = profile \cup Allow({"file-read-metadata"}, "literal", a)
            /\ stack' = <<Frame(target), on>> \o Tail(stack)
       ELSE stack' = <<on>> \o Tail(stack) /\ aliases' = aliases /\ profile' = profile
  BY <1>4, <1>5, <1>8, <1>9, <1>10, <1>11 DEF allowPathAliases
<1>14. Link(tree, a) => TargetOf(tree, a) = target
  BY <1>10, <1>12 DEF TargetOf
<1>15. CASE Link(tree, a) /\ a \notin aliases
  <2>1. PICK new \in Frames : new = Frame(target) /\ new.prefix = Root /\ Whole(new) = target
    <3>1. Frame(target) \in Frames
      BY <1>12, <1>15 DEF Frame, Frames, Root
    <3>2. Root \o target = target
      BY <1>12, <1>15 DEF Root
    <3> QED BY <3>1, <3>2 DEF Frame, Whole
  <2>2. Fit(tree, stack', aliases \cup {a}, Needed)
    BY <1>1, <1>4, <1>6, <1>7, <1>11, <1>12, <1>13, <1>14, <1>15, <2>1, FitPush
  <2>3. Metadata' = Metadata \cup {a}
    BY <1>13, <1>15, Readable
  <2> QED BY <1>1, <1>2, <1>3, <1>13, <1>15, <2>2, <2>3 DEF AliasInv
<1>16. CASE ~(Link(tree, a) /\ a \notin aliases)
  <2>1. LinksOf(tree, on.prefix) \subseteq aliases
    <3>1. CASE ~Link(tree, a)
      BY <1>7, <1>12, <3>1
    <3>2. CASE Link(tree, a) /\ a \in aliases
      <4>1. LinksOf(tree, target) \subseteq aliases
        <5>1. Count(tree, TargetOf(tree, a)) < Count(tree, Whole(Head(stack)))
          BY <1>4, <1>6, <1>12, <1>14, <3>2
        <5> QED BY <1>1, <1>14, <3>2, <5>1, Revisited
      <4> QED BY <1>7, <1>12, <3>2, <4>1
    <3> QED BY <1>16, <3>1, <3>2
  <2>2. Fit(tree, stack', aliases, Needed)
    BY <1>1, <1>4, <1>6, <1>11, <1>13, <1>16, <2>1, FitOn
  <2>3. Metadata' = Metadata
    BY <1>13, <1>16 DEF Metadata
  <2> QED BY <1>1, <1>2, <1>3, <1>13, <1>16, <2>2, <2>3 DEF AliasInv
<1> QED BY <1>15, <1>16

LEMMA ShortWay ==
  ASSUME TypeInv, PwdShort, NEW i \in DOMAIN policy.fs, NEW r, r = policy.fs[i], ~NoPath(r),
         NEW path \in Path, path.abs = r.path.abs, Absolute(path) \in Meant(r),
         Walk(tree, Absolute(path)).error = "none"
  PROVE  path.abs \/ Count(tree, Getwd(tree)) + Count(tree, Absolute(path)) <= MaxLinks
<1>1. PICK g : g = [rule |-> r, walk |-> Walk(tree, Absolute(path))]
  OBVIOUS
<1>2. g.rule = r /\ g.walk = Walk(tree, Absolute(path))
  BY <1>1
<1>3. g \in Resolved
  BY <1>1, <1>2, GrantedCases
<1>4. Len(Along(g)) + Len(g.walk.links) <= MaxLinks
  BY <1>3 DEF PwdShort
<1> QED BY <1>2, <1>4 DEF Along, Count

LEMMA PathStart ==
  ASSUME PatternsClean, TypeInv, PatternInv, StackInv, AliasInv, PwdShort, compilePath, pc' # "failed"
  PROVE  AliasInv'
<1>1. /\ tree' = tree /\ policy' = policy /\ n' = n /\ aliases' = aliases /\ pc = "paths"
      /\ IsTree(tree) /\ Dir(tree, Cwd) /\ policy \in Policies
      /\ n \in DOMAIN policy.fs /\ todo \subseteq Paths(tree, rule) /\ rule = policy.fs[n]
  BY DEF TypeInv, AtRule, compilePath, rule
<1>2. stack = <<>> /\ Metadata = {Root} \cup aliases /\ Fit(tree, <<>>, aliases, Needed)
  BY <1>1 DEF StackInv, AliasInv
<1>3. PICK path \in todo :
        /\ todo' = todo \ {path}
        /\ IF Walk(tree, Absolute(path)).error # "none"
           THEN pc' = pc /\ stack' = stack /\ profile' = profile
           ELSE /\ pc' = "aliases" /\ stack' = <<Frame(Spelt(tree, path))>>
                /\ profile' = profile \cup Lines(tree, rule, path)
  BY DEF compilePath, Lines
<1>4. PICK m \in DOMAIN policy.fs : m = n
  BY <1>1
<1>5. PICK r \in Rule : r = rule /\ r = policy.fs[m]
  BY <1>1, <1>4, PolicyTyped
<1>6. /\ path \in Path /\ Spelt(tree, path) \in Seq(Part) /\ ~NoPath(r) /\ path.abs = r.path.abs
      /\ Absolute(path) \in Meant(r)
  <2>1. path \in Paths(tree, r)
    BY <1>1, <1>5
  <2>2. ~NoPath(r)
    BY <2>1 DEF Paths
  <2>3. resolvePath(tree, r).error # "pattern"
    BY <1>1, <1>4, <1>5, <2>2 DEF PatternInv, AtRule
  <2>4. path \in Path /\ Absolute(path) \in Meant(r)
    BY <1>5, <2>1, <2>2, <2>3, MeantPaths
  <2>5. path.abs = r.path.abs
    BY <2>1, SameStart DEF Rule, Path
  <2> QED BY <1>1, <2>2, <2>4, <2>5, SpeltType
<1>7. Compiled(m)' = Compiled(m) \cup {path}
  <2>1. Compiled(m) = Paths(tree, rule) \ todo
    BY <1>1, <1>4 DEF Compiled, AtRule, rule, TypeInv
  <2>2. Compiled(m)' = Paths(tree, rule) \ todo'
    <3>1. pc' \in {"paths", "aliases"}
      BY <1>1, <1>3
    <3> QED BY <1>1, <1>4, <3>1 DEF Compiled, AtRule, rule, TypeInv
  <2> QED BY <1>1, <1>3, <2>1, <2>2
<1>8. \A i \in DOMAIN policy.fs : i # m => Compiled(i)' = Compiled(i)
  BY <1>1, <1>4 DEF Compiled
<1>9. \A i \in DOMAIN policy.fs : i # m => Led(i)' = Led(i)
  BY <1>1, <1>8 DEF Led
<1>10. CASE Walk(tree, Absolute(path)).error # "none"
  <2>1. Led(m)' = Led(m)
    BY <1>1, <1>7, <1>10 DEF Led
  <2>2. Needed' = Needed
    <3>1. \A i \in DOMAIN policy.fs : Led(i)' = Led(i)
      BY <1>9, <2>1
    <3> QED BY <1>1, <3>1 DEF Needed
  <2>3. Metadata' = Metadata /\ pc' = pc /\ stack' = stack
    BY <1>3, <1>10 DEF Metadata
  <2> QED BY <1>1, <1>2, <2>2, <2>3 DEF AliasInv
<1>11. CASE Walk(tree, Absolute(path)).error = "none"
  <2>1. Led(m)' = Led(m) \cup {path}
    BY <1>1, <1>7, <1>11 DEF Led
  <2>2. Needed' = Needed \cup LinksOf(tree, Spelt(tree, path))
    BY <1>1, <1>9, <2>1 DEF Needed
  <2>3. PICK frame \in Frames :
          frame = Frame(Spelt(tree, path)) /\ frame.prefix = Root /\ Whole(frame) = Spelt(tree, path)
    <3>1. Frame(Spelt(tree, path)) \in Frames
      BY <1>6 DEF Frame, Frames, Root
    <3>2. Root \o Spelt(tree, path) = Spelt(tree, path)
      BY <1>6 DEF Root
    <3> QED BY <3>1, <3>2 DEF Frame, Whole
  <2>4. stack' \in Seq(Frames) /\ stack' # <<>> /\ stack' = <<frame>>
    <3>1. <<frame>> \in Seq(Frames) /\ <<frame>> # <<>>
      OBVIOUS
    <3> QED BY <1>3, <1>11, <2>3, <3>1
  <2>5. Fit(tree, stack', aliases, Needed')
    <3>1. Walk(tree, Spelt(tree, path)).error = "none"
      BY <1>1, <1>4, <1>5, <1>6, <1>11, ShortWay, SpeltWalk
    <3> QED BY <1>1, <1>2, <2>2, <2>3, <2>4, <3>1, FitStart
  <2>6. Metadata' = Metadata
    <3>1. \A l \in Lines(tree, r, path) : l.op # "file-read-metadata"
      BY LinesUnread
    <3> QED BY <1>3, <1>5, <1>11, <3>1, Untouched
  <2>7. pc' = "aliases"
    BY <1>3, <1>11
  <2> QED BY <1>1, <1>2, <2>4, <2>5, <2>6, <2>7 DEF AliasInv
<1> QED BY <1>10, <1>11

LEMMA AliasNext ==
  PatternsClean /\ TypeInv /\ PatternInv /\ StackInv /\ AliasInv /\ [Next]_vars => AliasInv'
<1> SUFFICES ASSUME PatternsClean, TypeInv, PatternInv, StackInv, AliasInv, [Next]_vars,
                    pc' \notin {"dirs", "failed"}, PwdShort'
             PROVE  AliasInv'
  BY DEF AliasInv
<1>1. CASE UNCHANGED vars
  <2>1. Needed' = Needed /\ PwdShort
    BY <1>1, NeededKept, ShortKept DEF vars, Compiled, AtRule
  <2> QED BY <1>1, <2>1 DEF vars, AliasInv, Metadata
<1>2. CASE CompileSBPL
  <2>1. /\ tree' = tree /\ policy' = policy /\ n' = 1 /\ pc = "dirs" /\ pc' = "fs"
        /\ stack' = stack /\ aliases' = aliases /\ profile' = Preamble
    BY <1>2 DEF CompileSBPL
  <2>2. stack = <<>> /\ aliases = {} /\ stack \in Seq(Frames)
    BY <2>1 DEF StackInv
  <2>3. Metadata' = {Root}
    <3>1. PICK line : line = [op |-> "file-read-metadata", filter |-> "literal", at |-> Root]
      OBVIOUS
    <3>2. line \in Preamble /\ line.op = "file-read-metadata" /\ line.at = Root
      BY <3>1 DEF Preamble, Allow
    <3>3. \A l \in Preamble : l.at = Root
      BY DEF Preamble, Allow
    <3> QED BY <2>1, <3>2, <3>3 DEF Metadata
  <2>4. Needed' = {}
    <3>1. \A i \in DOMAIN policy.fs : Compiled(i)' = {}
      BY <2>1, PolicyTyped DEF Compiled, AtRule, TypeInv
    <3> QED BY <2>1, <3>1 DEF Needed, Led
  <2>5. Fit(tree, <<>>, {}, {})
    <3>1. Len(<<>>) = 0
      OBVIOUS
    <3> QED BY <3>1 DEF Fit
  <2> QED BY <2>1, <2>2, <2>3, <2>4, <2>5 DEF AliasInv
<1>3. CASE Next /\ pc # "dirs"
  <2>1. tree' = tree /\ policy' = policy /\ pc # "failed"
    BY <1>3 DEF Next, CreatePolicyDir, CompileSBPL, compileFS, NextRule, compilePath, allowPathAliases,
      AliasesDone, CompileNet, Apply, Exec
  <2>2. PwdShort
    BY <2>1, ShortKept
  <2>3. CASE compilePath
    BY <2>2, <2>3, PathStart
  <2>4. CASE allowPathAliases
    BY <2>2, <2>4, AliasStep
  <2>5. CASE ~compilePath /\ ~allowPathAliases
    <3>1. aliases' = aliases
      BY <1>3, <2>5 DEF Next, CreatePolicyDir, CompileSBPL, compileFS, NextRule, AliasesDone, CompileNet,
        Apply, Exec
    <3>2. Needed' = Needed
      <4>1. \A i \in DOMAIN policy.fs : Compiled(i)' = Compiled(i)
        BY <1>3, <2>5, CompiledKept
      <4> QED BY <2>1, <4>1, NeededKept
    <3>3. Metadata' = Metadata
      <4>1. CASE CompileNet
        <5>1. profile' = profile \cup compileNet(policy.net)
          BY <4>1 DEF CompileNet
        <5> QED BY <5>1, NetUnread, Untouched
      <4>2. CASE ~CompileNet
        <5>1. profile' = profile
          BY <1>3, <2>5, <4>2 DEF Next, CreatePolicyDir, CompileSBPL, compileFS, NextRule, AliasesDone,
            Apply, Exec
        <5> QED BY <5>1 DEF Metadata
      <4> QED BY <4>1, <4>2
    <3>4. Metadata = {Root} \cup aliases /\ Fit(tree, stack, aliases, Needed)
      BY <1>3, <2>1, <2>2 DEF AliasInv
    <3>5. Fit(tree, stack', aliases, Needed)
      <4>1. CASE AliasesDone
        <5>1. stack \in Seq(Frames) /\ stack # <<>> /\ stack' = Tail(stack) /\ Head(stack).rest = <<>>
          BY <4>1 DEF StackInv, AliasesDone
        <5> QED BY <3>4, <5>1, FitPop
      <4>2. CASE ~AliasesDone
        <5>1. stack' = stack
          BY <1>3, <2>5, <4>2 DEF Next, CreatePolicyDir, CompileSBPL, compileFS, NextRule, CompileNet,
            Apply, Exec
        <5> QED BY <3>4, <5>1
      <4> QED BY <4>1, <4>2
    <3> QED BY <2>1, <3>1, <3>2, <3>3, <3>4, <3>5 DEF AliasInv
  <2> QED BY <2>3, <2>4, <2>5
<1>4. CASE Next /\ pc = "dirs" /\ ~CompileSBPL
  BY <1>4 DEF Next, CreatePolicyDir, compileFS, NextRule, compilePath, allowPathAliases, AliasesDone,
    CompileNet, Apply, Exec
<1> QED BY <1>1, <1>2, <1>3, <1>4

LEMMA AliasInit == Init => StackInv /\ AliasInv
<1> SUFFICES ASSUME Init PROVE StackInv /\ AliasInv
  OBVIOUS
<1>1. <<>> \in Seq(Frames)
  OBVIOUS
<1> QED BY <1>1 DEF Init, StackInv, AliasInv

(* All the rules' paths are compiled in the end, and their links granted.   *)
LEMMA AliasesEnd ==
  PatternsClean /\ TypeInv /\ PatternInv /\ StackInv /\ AliasInv => (PwdShort => AliasesReadable)
<1> SUFFICES ASSUME PatternsClean, TypeInv, PatternInv, StackInv, AliasInv, PwdShort, Complete
             PROVE  Metadata = {Root} \cup UNION { ToSet(g.walk.links) \cup ToSet(Along(g)) : g \in Resolved }
  BY DEF AliasesReadable, Metadata
<1>1. /\ pc \notin {"dirs", "failed", "aliases"} /\ n \in Nat /\ n > Len(policy.fs)
      /\ Len(policy.fs) \in Nat /\ DOMAIN policy.fs = 1 .. Len(policy.fs)
  BY PolicyTyped DEF Complete, TypeInv
<1>2. Metadata = {Root} \cup aliases /\ aliases = Needed
  <2>1. stack = <<>>
    BY <1>1 DEF StackInv
  <2> QED BY <1>1, <2>1 DEF AliasInv, Fit, Left
<1>3. ASSUME NEW i \in DOMAIN policy.fs
      PROVE  /\ Compiled(i) = Paths(tree, policy.fs[i])
             /\ ~NoPath(policy.fs[i]) => resolvePath(tree, policy.fs[i]).error # "pattern"
  <2>1. i < n
    BY <1>1
  <2> QED BY <1>1, <2>1 DEF Compiled, PatternInv
<1>4. ASSUME NEW i \in DOMAIN policy.fs, NEW path \in Led(i)
      PROVE  /\ ~NoPath(policy.fs[i]) /\ path \in Paths(tree, policy.fs[i])
             /\ Absolute(path) \in Meant(policy.fs[i]) /\ Walk(tree, Absolute(path)).error = "none"
             /\ LinksOf(tree, Spelt(tree, path)) = LinksOf(tree, Absolute(path)) \cup Way(tree, path)
             /\ path.abs = policy.fs[i].path.abs
  <2>1. path \in Paths(tree, policy.fs[i]) /\ Walk(tree, Absolute(path)).error = "none"
    BY <1>3 DEF Led
  <2>2. ~NoPath(policy.fs[i])
    BY <2>1 DEF Paths
  <2>3. path \in Path /\ Absolute(path) \in Meant(policy.fs[i])
    BY <1>3, <2>1, <2>2, MeantPaths
  <2>4. path.abs = policy.fs[i].path.abs
    BY <2>1, PolicyTyped, SameStart DEF TypeInv
  <2>5. path.abs \/ Count(tree, Getwd(tree)) + Count(tree, Absolute(path)) <= MaxLinks
    BY <2>1, <2>2, <2>3, <2>4, ShortWay
  <2>6. LinksOf(tree, Spelt(tree, path)) = LinksOf(tree, Absolute(path)) \cup Way(tree, path)
    BY <2>1, <2>3, <2>5, SpeltWalk DEF TypeInv
  <2> QED BY <2>1, <2>2, <2>3, <2>4, <2>6
<1>5. ASSUME NEW i \in DOMAIN policy.fs, NEW path \in Led(i), NEW g, g.rule = policy.fs[i],
             g.walk = Walk(tree, Absolute(path))
      PROVE  ToSet(g.walk.links) \cup ToSet(Along(g)) = LinksOf(tree, Spelt(tree, path))
  <2>1. path.abs = g.rule.path.abs
    BY <1>4, <1>5
  <2>2. ToSet(Along(g)) = Way(tree, path)
    <3>1. ToSet(<<>>) = {}
      BY DEF ToSet
    <3> QED BY <2>1, <3>1 DEF Along, Way, LinksOf
  <2>3. ToSet(g.walk.links) = LinksOf(tree, Absolute(path))
    BY <1>5 DEF LinksOf
  <2> QED BY <1>4, <2>2, <2>3
<1>6. ASSUME NEW g \in Resolved PROVE ToSet(g.walk.links) \cup ToSet(Along(g)) \subseteq Needed
  <2>1. PICK i \in DOMAIN policy.fs : ~NoPath(policy.fs[i]) /\ \E parts \in Meant(policy.fs[i]) :
          g = [rule |-> policy.fs[i], walk |-> Walk(tree, parts)] /\ g.walk.error = "none"
    BY GrantedCases
  <2>2. PICK parts \in Meant(policy.fs[i]) :
          g = [rule |-> policy.fs[i], walk |-> Walk(tree, parts)] /\ g.walk.error = "none"
    BY <2>1
  <2>3. g.rule = policy.fs[i] /\ g.walk = Walk(tree, parts) /\ Walk(tree, parts).error = "none"
    BY <2>2
  <2>4. PICK path \in Paths(tree, policy.fs[i]) : parts = Absolute(path)
    BY <1>3, <2>1, <2>3, MeantPaths
  <2>5. path \in Led(i)
    BY <1>3, <2>3, <2>4 DEF Led
  <2>6. LinksOf(tree, Spelt(tree, path)) \subseteq Needed
    BY <2>5 DEF Needed
  <2> QED BY <1>5, <2>3, <2>4, <2>5, <2>6
<1>7. ASSUME NEW a \in Needed PROVE \E g \in Resolved : a \in ToSet(g.walk.links) \cup ToSet(Along(g))
  <2>1. PICK i \in DOMAIN policy.fs : \E path \in Led(i) : a \in LinksOf(tree, Spelt(tree, path))
    BY <1>7 DEF Needed
  <2>2. PICK path \in Led(i) : a \in LinksOf(tree, Spelt(tree, path))
    BY <2>1
  <2>3. PICK g : g = [rule |-> policy.fs[i], walk |-> Walk(tree, Absolute(path))]
    OBVIOUS
  <2>4. g.rule = policy.fs[i] /\ g.walk = Walk(tree, Absolute(path))
    BY <2>3
  <2>5. g \in Resolved
    BY <1>4, <2>3, <2>4, GrantedCases
  <2> QED BY <1>5, <2>2, <2>4, <2>5
<1> QED BY <1>2, <1>6, <1>7

(* A finished profile lets the metadata be read of every symlink that a     *)
(* rule's path leads over, and of no other file, whatever order the links   *)
(* are met in and however they lead through each other; and whatever PWD    *)
(* is, while its links and those of a relative path behind it are together  *)
(* no more than the kernel follows.                                         *)
THEOREM AliasesCorrect ==
  ASSUME PatternsClean
  PROVE  Spec => [](PwdShort => AliasesReadable)
<1> DEFINE Inv == TypeInv /\ PatternInv /\ StackInv /\ AliasInv
<1>1. Init => Inv
  BY TypeInit, AliasInit DEF Init, PatternInv
<1>2. Inv /\ [Next]_vars => Inv'
  BY TypeNext, PatternNext, StackNext, AliasNext
<1>3. Inv => (PwdShort => AliasesReadable)
  BY AliasesEnd
<1> HIDE DEF Inv
<1> QED BY <1>1, <1>2, <1>3, PTL DEF Spec

-----------------------------------------------------------------------------
(* What the theorems assume of the patterns: it is enough that no pattern   *)
(* has a "..".                                                              *)

LEMMA CleanPlain ==
  ASSUME NEW path \in Path, path.parts \in Seq(Name)
  PROVE  Clean(path) = path
<1>1. PICK parts \in Seq(Name) : parts = path.parts
  OBVIOUS
<1>2. PICK len \in Nat : len = Len(parts)
  OBVIOUS
<1> DEFINE Turn(s, k) ==
             IF parts[k] # ".." THEN Append(s, parts[k])
             ELSE IF s # <<>> /\ Last(s) # ".." THEN Front(s)
             ELSE IF path.abs THEN s ELSE Append(s, "..")
           Is(f) == f = [k \in 0 .. len |-> IF k = 0 THEN <<>> ELSE Turn(f[k - 1], k)]
           f0 == [k \in 0 .. len |-> SubSeq(parts, 1, k)]
<1>3. ASSUME NEW k \in 1 .. len PROVE Turn(SubSeq(parts, 1, k - 1), k) = SubSeq(parts, 1, k)
  <2>1. parts[k] \in Name /\ parts[k] # ".."
    BY <1>2, SeatbeltAssumption
  <2>2. Append(SubSeq(parts, 1, k - 1), parts[k]) = SubSeq(parts, 1, k)
    BY <1>2
  <2> QED BY <2>1, <2>2
<1> HIDE DEF Turn
<1>4. SubSeq(parts, 1, 0) = <<>>
  OBVIOUS
<1>5. Is(f0)
  <2>1. ASSUME NEW k \in 0 .. len
        PROVE  f0[k] = IF k = 0 THEN <<>> ELSE Turn(f0[k - 1], k)
    <3>1. CASE k = 0
      BY <1>4, <3>1
    <3>2. CASE k # 0
      <4>1. k \in 1 .. len /\ k - 1 \in 0 .. len
        BY <3>2
      <4>2. f0[k] = SubSeq(parts, 1, k) /\ f0[k - 1] = SubSeq(parts, 1, k - 1)
        BY <4>1
      <4> QED BY <1>3, <3>2, <4>1, <4>2
    <3> QED BY <3>1, <3>2
  <2>2. f0 = [k \in 0 .. len |-> f0[k]]
    OBVIOUS
  <2> HIDE DEF f0
  <2> QED BY <2>1, <2>2
<1> HIDE DEF f0
<1> DEFINE g == CHOOSE f : Is(f)
<1>6. Is(g)
  BY <1>5
<1>7. Clean(path) = [path EXCEPT !.parts = g[len]]
  BY <1>1, <1>2 DEF Clean, Turn
<1> HIDE DEF g
<1>8. \A k \in 0 .. len : g[k] = IF k = 0 THEN <<>> ELSE Turn(g[k - 1], k)
  BY <1>6
<1> DEFINE S == { k \in 0 .. len : g[k] = SubSeq(parts, 1, k) }
<1>9. 0 \in S
  <2>1. 0 \in 0 .. len
    OBVIOUS
  <2>2. g[0] = <<>>
    BY <1>8, <2>1
  <2> QED BY <1>4, <2>1, <2>2
<1>10. ASSUME NEW k \in 1 .. len, k - 1 \in S PROVE k \in S
  <2>1. k \in 0 .. len /\ k # 0 /\ g[k - 1] = SubSeq(parts, 1, k - 1)
    BY <1>10
  <2>2. g[k] = Turn(g[k - 1], k)
    BY <1>8, <2>1
  <2> QED BY <1>3, <2>1, <2>2
<1> HIDE DEF S
<1>11. len \in S
  BY <1>9, <1>10, AtTheTop
<1>12. g[len] = path.parts
  BY <1>1, <1>2, <1>11, WholePrefix DEF S
<1>13. path = [abs |-> path.abs, parts |-> path.parts]
  BY DEF Path
<1> QED BY <1>7, <1>12, <1>13

LEMMA PatternsPlain ==
  ASSUME \A p \in Policies : \A i \in DOMAIN p.fs :
           "*" \in ToSet(p.fs[i].path.parts) => p.fs[i].path.parts \in Seq(Name)
  PROVE  PatternsClean
<1> SUFFICES ASSUME NEW p \in Policies, NEW i \in DOMAIN p.fs,
                    NEW path, path = p.fs[i].path, "*" \in ToSet(path.parts), NEW x \in Name
             PROVE  Clean(Within(path, x)) = Within(path, x)
  BY DEF PatternsClean
<1>1. path \in Path
  BY PolicyTyped
<1>2. PICK s \in Seq(Name) : s = path.parts
  OBVIOUS
<1>3. s # <<>>
  <2>1. ToSet(<<>>) = {}
    BY DEF ToSet
  <2> QED BY <1>2, <2>1
<1>4. Append(Front(s), x) \in Seq(Name)
  BY <1>3, FrontLast, Appended
<1>5. PICK u \in Seq(Name) : u = Append(Front(s), x)
  BY <1>4
<1>6. path = [abs |-> path.abs, parts |-> path.parts] /\ path.abs \in BOOLEAN
  BY <1>1 DEF Path
<1>7. Within(path, x) = [abs |-> path.abs, parts |-> u]
  <2>1. Within(path, x) = [path EXCEPT !.parts = u]
    BY <1>2, <1>5 DEF Within
  <2>2. \A s1 : [path EXCEPT !.parts = s1] = [abs |-> path.abs, parts |-> s1]
    BY <1>6
  <2> QED BY <2>1, <2>2
<1>8. u \in Seq(Part)
  BY DEF Part
<1>9. Within(path, x) \in Path /\ Within(path, x).parts \in Seq(Name)
  BY <1>6, <1>7, <1>8 DEF Path
<1> QED BY <1>9, CleanPlain
=============================================================================
