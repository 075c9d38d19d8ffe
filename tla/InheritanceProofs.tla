------------------------- MODULE InheritanceProofs -------------------------
(***************************************************************************)
(* Whatever variables, entries and descriptors there are, and however      *)
(* large the launcher's table is: the command's environment is the         *)
(* launcher's with every entry of the policy applied once, an edited path  *)
(* has the elements it was meant to have, the child finds its two pipe     *)
(* ends, and the command has the launcher's descriptors at their numbers   *)
(* and no other.                                                           *)
(***************************************************************************)
EXTENDS Inheritance, FiniteSetTheorems, SequenceTheorems, Induction

-----------------------------------------------------------------------------
(* The environment.  What an entry makes of a value stays unexpanded: it is *)
(* enough that resolveEnvEntry looks at one variable only.                  *)

ChildStep == {"boot", "readStartup", "report", "fork"}
Step == {"apply", "pipes", "dup", "start", "exec", "failed", "running"} \cup ChildStep

Edited(n) ==
  IF n \in DOMAIN launch.entries THEN resolveEnvEntry(launch.entries[n], baseEnv(launch)[n])
  ELSE baseEnv(launch)[n]
Blank == [n \in Name |-> {}]
Clean == Unsetenv(Plumbed(env))

(* How far the loop of ApplyEnv has come.                                   *)
Loop ==
  /\ launch \in Launches /\ pc \in Step
  /\ todo \subseteq DOMAIN launch.entries
  /\ pc # "apply" => todo = {}
  /\ env = [n \in Name |-> IF n \in todo THEN baseEnv(launch)[n] ELSE Edited(n)]

(* Where the environment has gone since.                                    *)
Handed ==
  /\ pc \in {"pipes", "dup", "start"} \cup ChildStep => launch.forks
  /\ pc \in {"apply", "pipes", "dup", "start"} => childEnv = Blank
  /\ pc = "boot" => childEnv = Plumbed(env)
  /\ pc \in ChildStep \ {"boot"} => childEnv = Clean
  /\ childEnv \in {Blank, Plumbed(env), Clean}
  /\ payload # {} => pc = "running"
  /\ \A p \in payload :
       \/ p.from = "child" /\ launch.forks /\ p.env = Clean
       \/ p.from = "launcher" /\ p.env = IF launch.darwin THEN scrubDYLD(env) ELSE env

EnvInv == Loop /\ Handed

-----------------------------------------------------------------------------
(* The environment before the entries is one of the names.                  *)
LEMMA BaseEnv ==
  ASSUME NEW l \in Launches
  PROVE  /\ DOMAIN baseEnv(l) = Name
         /\ baseEnv(l) = [n \in Name |-> IF n = Public THEN {} ELSE l.env[n]]
BY InheritanceAssumption DEF baseEnv

(* Entries may be applied in any order: each sees what the launcher had.    *)
LEMMA ApplyEntryKeepsLoop == Loop /\ ApplyEntry => Loop'
<1> SUFFICES ASSUME Loop, ApplyEntry PROVE Loop'
  OBVIOUS
<1>1. PICK name \in todo :
        /\ env' = [env EXCEPT ![name] = resolveEnvEntry(launch.entries[name], env[name])]
        /\ todo' = todo \ {name}
  BY DEF ApplyEntry
<1>2. UNCHANGED <<launch, pc>> /\ pc = "apply"
  BY DEF ApplyEntry
<1>3. name \in Name /\ name \in DOMAIN launch.entries
  BY InheritanceAssumption DEF Loop
<1>4. env[name] = baseEnv(launch)[name]
  BY <1>3 DEF Loop
<1>5. resolveEnvEntry(launch.entries[name], env[name]) = Edited(name)
  BY <1>3, <1>4 DEF Edited
<1>6. \A n : Edited(n)' = Edited(n)
  BY <1>2 DEF Edited
<1>7. env' = [n \in Name |-> IF n \in todo \ {name} THEN baseEnv(launch)[n] ELSE Edited(n)]
  BY <1>1, <1>3, <1>5 DEF Loop
<1> QED BY <1>1, <1>2, <1>6, <1>7 DEF Loop

(* No other step touches the loop.                                          *)
LEMMA OthersKeepLoop ==
  ASSUME Loop, UNCHANGED <<launch, env, todo>>, pc' \in Step, pc' # "apply" => todo = {}
  PROVE  Loop'
<1>1. \A n : Edited(n)' = Edited(n)
  BY DEF Edited
<1> QED BY <1>1 DEF Loop

(* A step that starts nothing and leaves the child's environment alone.     *)
LEMMA QuietKeepsHanded ==
  ASSUME Handed, UNCHANGED <<launch, env, childEnv, payload>>, payload = {},
         \/ pc' \in {"exec", "failed"}
         \/ pc = "apply" /\ pc' = "pipes" /\ launch.forks
         \/ pc \in {"pipes", "dup"} /\ pc' \in {"dup", "start", "failed"}
         \/ pc \in ChildStep \ {"boot"} /\ pc' \in ChildStep \ {"boot"}
  PROVE  Handed'
BY DEF Handed, Clean, Blank, Plumbed, Unsetenv, ChildStep

THEOREM EnvInvInductive == Spec => []EnvInv
<1>1. Init => EnvInv
  <2> SUFFICES ASSUME Init PROVE EnvInv
    OBVIOUS
  <2>1. env = [n \in Name |-> IF n \in todo THEN baseEnv(launch)[n] ELSE Edited(n)]
    BY BaseEnv DEF Init, Edited
  <2> QED BY <2>1 DEF Init, EnvInv, Loop, Handed, Step, ChildStep, Blank
<1>2. EnvInv /\ [Next]_vars => EnvInv'
  <2> SUFFICES ASSUME EnvInv, [Next]_vars PROVE EnvInv'
    OBVIOUS
  <2>1. CASE ApplyEntry
    <3>1. Handed'
      BY <2>1 DEF EnvInv, Handed, ApplyEntry, Blank, ChildStep
    <3> QED BY <2>1, <3>1, ApplyEntryKeepsLoop DEF EnvInv
  <2>2. CASE Applied
    BY <2>2, OthersKeepLoop, QuietKeepsHanded DEF EnvInv, Handed, Applied, Step, ChildStep, envVars
  <2>3. CASE OpenPipes
    <3>1. pc' \in {"failed", "dup", "start"} /\ pc = "pipes"
      BY <2>3 DEF OpenPipes
    <3> QED BY <2>3, <3>1, OthersKeepLoop, QuietKeepsHanded
            DEF EnvInv, Loop, Handed, OpenPipes, Step, ChildStep, envVars
  <2>4. CASE DupNext
    <3>1. UNCHANGED <<launch, pc, envVars, payload>> /\ pc = "dup"
      BY <2>4 DEF DupNext
    <3>2. Loop'
      BY <3>1, OthersKeepLoop DEF EnvInv, Loop, Step, envVars
    <3> QED BY <3>1, <3>2 DEF EnvInv, Handed, Clean, Blank, Plumbed, Unsetenv, ChildStep, envVars
  <2>5. CASE DupDone
    BY <2>5, OthersKeepLoop, QuietKeepsHanded
    DEF EnvInv, Loop, Handed, DupDone, Step, ChildStep, envVars
  <2>6. CASE StartChild
    <3>1. /\ UNCHANGED <<launch, env, todo, payload>> /\ pc = "start" /\ pc' = "boot"
          /\ childEnv' = Plumbed(env)
      BY <2>6 DEF StartChild
    <3>2. Loop'
      BY <3>1, OthersKeepLoop DEF EnvInv, Loop, Step, ChildStep
    <3>3. Plumbed(env)' = Plumbed(env)
      BY <3>1 DEF Plumbed
    <3>4. payload = {} /\ launch.forks
      BY <3>1 DEF EnvInv, Handed
    <3> QED BY <3>1, <3>2, <3>3, <3>4 DEF EnvInv, Handed, ChildStep
  <2>7. CASE StartFails
    <3>1. /\ UNCHANGED <<launch, env, todo, childEnv, payload>>
          /\ pc' \in {"exec", "failed"} /\ pc = "start"
      BY <2>7 DEF StartFails, envVars
    <3>2. Loop'
      BY <3>1, OthersKeepLoop DEF EnvInv, Loop, Step
    <3>3. payload = {}
      BY <3>1 DEF EnvInv, Handed
    <3>4. Handed'
      BY <3>1, <3>3 DEF EnvInv, Handed, Clean, Blank, Plumbed, Unsetenv, ChildStep
    <3> QED BY <3>2, <3>4 DEF EnvInv
  <2>8. CASE ChildFails
    <3>1. /\ UNCHANGED <<launch, env, todo, childEnv, payload>>
          /\ pc' \in {"exec", "failed"} /\ pc \in ChildStep
      BY <2>8 DEF ChildFails, ChildStep, envVars
    <3>2. Loop'
      BY <3>1, OthersKeepLoop DEF EnvInv, Loop, Step, ChildStep
    <3>3. payload = {}
      BY <3>1 DEF EnvInv, Handed, ChildStep
    <3>4. Handed'
      BY <3>1, <3>3 DEF EnvInv, Handed, Clean, Blank, Plumbed, Unsetenv, ChildStep
    <3> QED BY <3>2, <3>4 DEF EnvInv
  <2>9. CASE Boot
    <3>1. /\ UNCHANGED <<launch, env, todo, payload>> /\ pc = "boot" /\ pc' = "readStartup"
          /\ childEnv' = Clean
      BY <2>9 DEF Boot, EnvInv, Handed, Clean
    <3>2. Loop'
      BY <3>1, OthersKeepLoop DEF EnvInv, Loop, Step, ChildStep
    <3>3. Clean' = Clean
      BY <3>1 DEF Clean, Plumbed, Unsetenv
    <3>4. payload = {} /\ launch.forks
      BY <3>1 DEF EnvInv, Handed, ChildStep
    <3> QED BY <3>1, <3>2, <3>3, <3>4 DEF EnvInv, Handed, ChildStep
  <2>10. CASE ReadStartup
    BY <2>10, OthersKeepLoop, QuietKeepsHanded
    DEF EnvInv, Loop, Handed, ReadStartup, Step, ChildStep, envVars
  <2>11. CASE Report
    BY <2>11, OthersKeepLoop, QuietKeepsHanded
    DEF EnvInv, Loop, Handed, Report, Step, ChildStep, envVars
  <2>12. CASE ForkCommand
    <3>1. /\ UNCHANGED <<launch, env, todo, childEnv>> /\ pc = "fork" /\ pc' = "running"
          /\ \E t : payload' = {[env |-> childEnv, table |-> t, from |-> "child"]}
      BY <2>12 DEF ForkCommand, Start, envVars
    <3>2. Loop'
      BY <3>1, OthersKeepLoop DEF EnvInv, Loop, Step
    <3>3. Clean' = Clean /\ Plumbed(env)' = Plumbed(env)
      BY <3>1 DEF Clean, Plumbed, Unsetenv
    <3>4. childEnv = Clean /\ launch.forks
      BY <3>1 DEF EnvInv, Handed, ChildStep
    <3>5. \A p \in payload' : p.from = "child" /\ p.env = Clean
      BY <3>1, <3>4
    <3> QED BY <3>1, <3>2, <3>3, <3>4, <3>5 DEF EnvInv, Handed, ChildStep
  <2>13. CASE ExecCommand
    <3>1. /\ UNCHANGED <<launch, env, todo, childEnv>> /\ pc = "exec" /\ pc' = "running"
          /\ \E t : payload' = {[env   |-> IF launch.darwin THEN scrubDYLD(env) ELSE env,
                                 table |-> t, from |-> "launcher"]}
      BY <2>13 DEF ExecCommand, Start, envVars
    <3>2. Loop'
      BY <3>1, OthersKeepLoop DEF EnvInv, Loop, Step
    <3>3. Clean' = Clean /\ Plumbed(env)' = Plumbed(env) /\ scrubDYLD(env)' = scrubDYLD(env)
      BY <3>1 DEF Clean, Plumbed, Unsetenv, scrubDYLD
    <3>5. \A p \in payload' :
            p.from = "launcher" /\ p.env = IF launch.darwin THEN scrubDYLD(env) ELSE env
      BY <3>1
    <3> QED BY <3>1, <3>2, <3>3, <3>5 DEF EnvInv, Handed, ChildStep
  <2>14. CASE UNCHANGED vars
    <3>1. Loop'
      BY <2>14, OthersKeepLoop DEF EnvInv, Loop, vars
    <3>2. Clean' = Clean /\ Plumbed(env)' = Plumbed(env) /\ scrubDYLD(env)' = scrubDYLD(env)
      BY <2>14 DEF Clean, Plumbed, Unsetenv, scrubDYLD, vars
    <3> QED BY <2>14, <3>1, <3>2 DEF EnvInv, Handed, vars
  <2> QED BY <2>1, <2>2, <2>3, <2>4, <2>5, <2>6, <2>7, <2>8, <2>9, <2>10, <2>11, <2>12,
             <2>13, <2>14 DEF Next
<1> QED BY <1>1, <1>2, PTL DEF Spec

(* EnvironmentOnce holds of every launch: any variables and entries, any    *)
(* order, any failure on the way.                                           *)
THEOREM EnvironmentOnceHolds == Spec => []EnvironmentOnce
<1>1. EnvInv => EnvironmentOnce
  <2> SUFFICES ASSUME EnvInv PROVE EnvironmentOnce
    OBVIOUS
  <2>1. \A n \in Name : todo = {} => env[n] = Edited(n)
    BY DEF EnvInv, Loop
  <2>2. \A p \in payload : todo = {}
    BY DEF EnvInv, Loop, Handed
  <2>3. launch.darwin => ~launch.forks
    BY InheritanceAssumption DEF EnvInv, Loop
  <2>4. ASSUME NEW p \in payload, NEW n \in Name
        PROVE  p.env[n] = IF p.from = "child" /\ n \in Plumbing THEN {} ELSE Asked(n)
    <3>1. CASE p.from = "child" /\ launch.forks /\ p.env = Clean
      BY <3>1, <2>1, <2>2, <2>3 DEF Clean, Plumbed, Unsetenv, Asked, Edited
    <3>2. CASE p.from = "launcher" /\ p.env = IF launch.darwin THEN scrubDYLD(env) ELSE env
      BY <3>2, <2>1, <2>2 DEF scrubDYLD, Asked, Edited
    <3> QED BY <3>1, <3>2 DEF EnvInv, Handed
  <2>5. Public \notin DOMAIN launch.entries => childEnv[Public] = {}
    <3> SUFFICES ASSUME Public \notin DOMAIN launch.entries PROVE childEnv[Public] = {}
      OBVIOUS
    <3>1. Public \in Name \ Plumbing /\ baseEnv(launch)[Public] = {}
      BY InheritanceAssumption, BaseEnv DEF EnvInv, Loop
    <3>2. env[Public] = {}
      BY <3>1 DEF EnvInv, Loop, Edited
    <3> QED BY <3>1, <3>2 DEF EnvInv, Handed, Blank, Clean, Plumbed, Unsetenv
  <2> QED BY <2>4, <2>5 DEF EnvironmentOnce
<1> QED BY <1>1, EnvInvInductive, PTL

-----------------------------------------------------------------------------
(* Values taken apart and put together.                                     *)

(* Lists of elements; a list that was split has one at least.               *)
Elements == Seq(Seq(Char))
Lists    == Elements \ {<<>>}

LEMMA OneMore ==
  ASSUME NEW S, NEW s \in Seq(S), NEW x \in S
  PROVE  /\ Append(s, x) \in Seq(S) /\ Len(Append(s, x)) = Len(s) + 1
         /\ Append(s, x) # <<>>
         /\ \A i \in 1 .. Len(s) : Append(s, x)[i] = s[i]
         /\ Append(s, x)[Len(s) + 1] = x
         /\ Last(Append(s, x)) = x /\ Front(Append(s, x)) = s
<1>1. /\ Append(s, x) \in Seq(S) /\ Len(Append(s, x)) = Len(s) + 1
      /\ \A i \in 1 .. Len(s) : Append(s, x)[i] = s[i]
      /\ Append(s, x)[Len(s) + 1] = x
  OBVIOUS
<1>2. Last(Append(s, x)) = x
  BY <1>1 DEF Last
<1>3. Front(Append(s, x)) = s
  BY <1>1 DEF Front
<1> QED BY <1>1, <1>2, <1>3

LEMMA Shorter ==
  ASSUME NEW S, NEW s \in Seq(S), s # <<>>
  PROVE  /\ Front(s) \in Seq(S) /\ Last(s) \in S /\ s = Append(Front(s), Last(s))
         /\ Len(Front(s)) = Len(s) - 1
<1>1. Len(s) \in Nat /\ Len(s) # 0
  OBVIOUS
<1>2. Front(s) \in Seq(S) /\ Len(Front(s)) = Len(s) - 1
  <2>1. PICK m \in Nat : m = Len(s) - 1
    BY <1>1
  <2>2. SubSeq(s, 1, m) \in Seq(S) /\ Len(SubSeq(s, 1, m)) = m
    BY <1>1, <2>1
  <2> QED BY <2>1, <2>2 DEF Front
<1>3. Last(s) \in S
  BY <1>1 DEF Last
<1>4. s = Append(Front(s), Last(s))
  BY <1>1 DEF Front, Last
<1> QED BY <1>2, <1>3, <1>4

(* One character more of a list that is split.                              *)
Cut(parts, c, sep) ==
  IF c = sep THEN Append(parts, <<>>)
  ELSE Append(Front(parts), Append(Last(parts), c))

LEMMA CutType ==
  ASSUME NEW parts \in Lists, NEW c \in Char, NEW sep
  PROVE  Cut(parts, c, sep) \in Lists
<1>1. CASE c = sep
  <2>1. parts \in Elements /\ <<>> \in Seq(Char)
    BY DEF Lists
  <2>2. Append(parts, <<>>) \in Elements /\ Append(parts, <<>>) # <<>>
    BY <2>1, OneMore DEF Elements
  <2> QED BY <1>1, <2>2 DEF Cut, Lists
<1>2. CASE c # sep
  <2>1. Front(parts) \in Elements /\ Last(parts) \in Seq(Char)
    BY Shorter DEF Lists, Elements
  <2>2. Append(Last(parts), c) \in Seq(Char)
    BY <2>1
  <2>3. PICK w \in Seq(Char) : w = Append(Last(parts), c)
    BY <2>2
  <2>4. Append(Front(parts), w) \in Elements /\ Append(Front(parts), w) # <<>>
    BY <2>1, OneMore DEF Elements
  <2> QED BY <1>2, <2>3, <2>4 DEF Cut, Lists
<1> QED BY <1>1, <1>2

LEMMA SplitLoop ==
  ASSUME NEW s \in Seq(Char), NEW sep, NEW n \in Nat, n = Len(s)
  PROVE  \E parts \in [0 .. n -> Lists] :
           /\ Split(s, sep) = parts[n] /\ parts[0] = << <<>> >>
           /\ \A k \in 1 .. n : parts[k] = Cut(parts[k - 1], s[k], sep)
<1> DEFINE turn == [p \in Lists \X (1 .. n) |-> Cut(p[1], s[p[2]], sep)]
           Is(f) == f = [k \in 0 .. n |-> IF k = 0 THEN << <<>> >> ELSE Cut(f[k - 1], s[k], sep)]
<1>1. \A k \in 1 .. n : s[k] \in Char
  OBVIOUS
<1>2. \A x \in Lists, k \in 1 .. n : Cut(x, s[k], sep) \in Lists
  BY <1>1, CutType
<1>3. IsTurn(turn, n, Lists)
  BY <1>2 DEF IsTurn
<1>4. \A x \in Lists, k \in 1 .. n : turn[<<x, k>>] = Cut(x, s[k], sep)
  OBVIOUS
<1> HIDE DEF turn
<1>5. << <<>> >> \in Lists
  BY DEF Lists, Elements
<1>6. PICK f : IsLoop(f, n, Lists, << <<>> >>, turn)
  BY <1>3, <1>5, LoopExists
<1>7. f[0] = << <<>> >> /\ f \in [0 .. n -> Lists]
  BY <1>6 DEF IsLoop
<1>8. ASSUME NEW k \in 1 .. n PROVE f[k] = Cut(f[k - 1], s[k], sep)
  <2>1. k - 1 \in 0 .. n
    OBVIOUS
  <2> QED BY <1>4, <1>6, <2>1 DEF IsLoop
<1>9. Is(f)
  <2>1. ASSUME NEW k \in 0 .. n
        PROVE  f[k] = IF k = 0 THEN << <<>> >> ELSE Cut(f[k - 1], s[k], sep)
    <3>1. k = 0 \/ k \in 1 .. n
      OBVIOUS
    <3> QED BY <1>7, <1>8, <3>1, Zenon
  <2>2. f = [k \in 0 .. n |-> f[k]]
    BY <1>7
  <2> QED BY <2>1, <2>2
<1> DEFINE parts == CHOOSE g : Is(g)
<1>10. Is(parts) /\ Split(s, sep) = parts[n]
  BY <1>9 DEF Split, Cut
<1> HIDE DEF parts
<1>11. \A k \in 0 .. n : parts[k] = IF k = 0 THEN << <<>> >> ELSE Cut(parts[k - 1], s[k], sep)
  BY <1>10
<1>12. parts[0] = << <<>> >> /\ \A k \in 1 .. n : parts[k] = Cut(parts[k - 1], s[k], sep)
  BY <1>11
<1>13. parts = [k \in 0 .. n |-> parts[k]]
  BY <1>10
<1>14. parts \in [0 .. n -> Lists]
  <2>1. ASSUME NEW k \in 1 .. n, parts[k - 1] \in Lists PROVE parts[k] \in Lists
    BY <1>2, <1>12, <2>1
  <2>2. Keeps(parts, n, Lists)
    <3>1. parts[0] \in Lists
      BY <1>5, <1>12
    <3> QED BY <1>13, <2>1, <3>1, Zenon DEF Keeps
  <2> QED BY <2>2, LoopTyped
<1> QED BY <1>10, <1>12, <1>14

LEMMA SplitFirst ==
  ASSUME NEW sep
  PROVE  Split(<<>>, sep) = << <<>> >>
<1>1. <<>> \in Seq(Char) /\ Len(<<>>) = 0
  OBVIOUS
<1>2. PICK e \in Seq(Char), n \in Nat : e = <<>> /\ n = 0 /\ n = Len(e)
  BY <1>1
<1>3. Split(e, sep) = << <<>> >>
  <2>1. PICK f \in [0 .. n -> Lists] : Split(e, sep) = f[n] /\ f[0] = << <<>> >>
    BY <1>2, SplitLoop
  <2> QED BY <1>2, <2>1
<1> QED BY <1>2, <1>3

LEMMA SplitMore ==
  ASSUME NEW s \in Seq(Char), NEW c \in Char, NEW sep
  PROVE  /\ Split(s, sep) \in Lists
         /\ Split(Append(s, c), sep) = Cut(Split(s, sep), c, sep)
<1>1. PICK n \in Nat : n = Len(s)
  OBVIOUS
<1>2. PICK t \in Seq(Char) : t = Append(s, c)
  <2>1. Append(s, c) \in Seq(Char)
    OBVIOUS
  <2> QED BY <2>1, Zenon
<1>3. n + 1 \in Nat /\ n + 1 = Len(t) /\ t[n + 1] = c /\ \A k \in 1 .. n : t[k] = s[k]
  BY <1>1, <1>2
<1>4. PICK f \in [0 .. n -> Lists] :
        /\ Split(s, sep) = f[n] /\ f[0] = << <<>> >>
        /\ \A k \in 1 .. n : f[k] = Cut(f[k - 1], s[k], sep)
  BY <1>1, SplitLoop, ZenonT(30)
<1>5. PICK g \in [0 .. n + 1 -> Lists] :
        /\ Split(t, sep) = g[n + 1] /\ g[0] = << <<>> >>
        /\ \A k \in 1 .. n + 1 : g[k] = Cut(g[k - 1], t[k], sep)
  BY <1>3, SplitLoop
<1> DEFINE S == { k \in 0 .. n : f[k] = g[k] }
<1>6. 0 \in S
  BY <1>4, <1>5, SMTT(20)
<1>7. ASSUME NEW k \in 1 .. n, k - 1 \in S PROVE k \in S
  <2>1. k \in 1 .. n + 1
    OBVIOUS
  <2> QED BY <1>3, <1>4, <1>5, <1>7, <2>1
<1> HIDE DEF S
<1>8. n \in S
  BY <1>6, <1>7, AtTheTop
<1>9. f[n] = g[n]
  BY <1>8 DEF S
<1>10. g[n + 1] = Cut(g[n], c, sep)
  <2>1. n + 1 \in 1 .. n + 1 /\ (n + 1) - 1 = n
    OBVIOUS
  <2> QED BY <1>3, <1>5, <2>1
<1>11. f[n] \in Lists
  BY <1>4
<1> QED BY <1>2, <1>4, <1>5, <1>9, <1>10, <1>11

LEMMA SplitType ==
  ASSUME NEW s \in Seq(Char), NEW sep
  PROVE  Split(s, sep) \in Lists
<1>1. PICK n \in Nat : n = Len(s)
  OBVIOUS
<1>2. PICK f \in [0 .. n -> Lists] : Split(s, sep) = f[n]
  BY <1>1, SplitLoop
<1> QED BY <1>2

(* An element without the separator, at the end and alone.                  *)
Begin(p, k) == SubSeq(p, 1, k)

LEMMA StartMore ==
  ASSUME NEW S, NEW p \in Seq(S), NEW k \in 1 .. Len(p)
  PROVE  /\ Begin(p, k - 1) \in Seq(S) /\ p[k] \in S
         /\ Begin(p, k) = Append(Begin(p, k - 1), p[k])
<1>1. PICK m \in Nat : m = k - 1
  OBVIOUS
<1>2. m < Len(p) /\ k = m + 1
  BY <1>1
<1>3. SubSeq(p, 1, m) \in Seq(S) /\ Len(SubSeq(p, 1, m)) = m
      /\ \A i \in 1 .. m : SubSeq(p, 1, m)[i] = p[i]
  BY <1>2
<1>4. SubSeq(p, 1, k) = Append(SubSeq(p, 1, m), p[k])
  BY <1>2, <1>3
<1>5. p[k] \in S
  OBVIOUS
<1>6. Begin(p, k) = SubSeq(p, 1, k) /\ Begin(p, k - 1) = SubSeq(p, 1, m)
  BY <1>1 DEF Begin
<1> QED BY <1>3, <1>4, <1>5, <1>6

LEMMA StartEnds ==
  ASSUME NEW S, NEW p \in Seq(S)
  PROVE  Begin(p, 0) = <<>> /\ Begin(p, Len(p)) = p
BY DEF Begin

LEMMA SplitElement ==
  ASSUME NEW s \in Seq(Char), NEW sep \in Char, NEW p \in Seq(Char), sep \notin ToSet(p)
  PROVE  Split(s \o <<sep>> \o p, sep) = Append(Split(s, sep), p)
<1>1. PICK n \in Nat : n = Len(p)
  OBVIOUS
<1>2. PICK h \in Seq(Char) : h = s \o <<sep>>
  <2>1. s \o <<sep>> \in Seq(Char)
    OBVIOUS
  <2> QED BY <2>1, Zenon
<1>3. PICK list \in Lists : list = Split(s, sep)
  BY SplitType
<1> DEFINE S == { k \in 0 .. n : Split(h \o Begin(p, k), sep) = Append(list, Begin(p, k)) }
<1>4. 0 \in S
  <2>1. h \o <<>> = h /\ h = Append(s, sep)
    BY <1>2
  <2>2. Split(h, sep) = Cut(list, sep, sep)
    BY <1>3, <2>1, SplitMore
  <2>3. Split(h \o Begin(p, 0), sep) = Append(list, Begin(p, 0))
    BY <2>1, <2>2, StartEnds DEF Cut
  <2> QED BY <2>3
<1>5. ASSUME NEW k \in 1 .. n, k - 1 \in S PROVE k \in S
  <2>1. PICK q \in Seq(Char), c \in Char :
          q = Begin(p, k - 1) /\ c = p[k] /\ Begin(p, k) = Append(q, c)
    BY <1>1, StartMore
  <2> HIDE DEF S
  <2>2. c # sep
    <3>1. k \in DOMAIN p
      BY <1>1
    <3>2. c \in ToSet(p)
      BY <2>1, <3>1 DEF ToSet
    <3> QED BY <3>2
  <2>3. PICK t \in Seq(Char) : t = h \o q
    <3>1. h \o q \in Seq(Char)
      OBVIOUS
    <3> QED BY <3>1, Zenon
  <2>4. h \o Append(q, c) = Append(t, c)
    BY <2>3
  <2>5. Split(t, sep) = Append(list, q)
    BY <1>5, <2>1, <2>3 DEF S
  <2>6. Split(Append(t, c), sep) = Cut(Append(list, q), c, sep)
    BY <2>5, SplitMore, ZenonT(30)
  <2>7. Front(Append(list, q)) = list /\ Last(Append(list, q)) = q
    BY OneMore DEF Lists, Elements
  <2>8. Cut(Append(list, q), c, sep) = Append(list, Append(q, c))
    BY <2>2, <2>7 DEF Cut
  <2>9. Split(h \o Begin(p, k), sep) = Append(list, Begin(p, k))
    BY <2>1, <2>4, <2>6, <2>8
  <2> QED BY <2>9 DEF S
<1> HIDE DEF S
<1>6. n \in S
  BY <1>4, <1>5, AtTheTop
<1>7. Split(h \o p, sep) = Append(list, p)
  BY <1>1, <1>6, StartEnds DEF S
<1> QED BY <1>2, <1>3, <1>7

LEMMA SplitOne ==
  ASSUME NEW sep \in Char, NEW p \in Seq(Char), sep \notin ToSet(p)
  PROVE  Split(p, sep) = <<p>>
<1>1. PICK n \in Nat : n = Len(p)
  OBVIOUS
<1> DEFINE S == { k \in 0 .. n : Split(Begin(p, k), sep) = <<Begin(p, k)>> }
<1>2. 0 \in S
  BY SplitFirst, StartEnds
<1>3. ASSUME NEW k \in 1 .. n, k - 1 \in S PROVE k \in S
  <2>1. PICK q \in Seq(Char), c \in Char :
          q = Begin(p, k - 1) /\ c = p[k] /\ Begin(p, k) = Append(q, c)
    BY <1>1, StartMore
  <2>2. c # sep
    BY <1>1, <2>1 DEF ToSet
  <2>3. Split(q, sep) = <<q>>
    BY <1>3, <2>1
  <2>4. Split(Append(q, c), sep) = Cut(<<q>>, c, sep)
    BY <2>3, SplitMore
  <2>5. Front(<<q>>) = <<>> /\ Last(<<q>>) = q
    BY DEF Front, Last
  <2>6. PICK r \in Seq(Char) : r = Append(q, c)
    <3>1. Append(q, c) \in Seq(Char)
      OBVIOUS
    <3> QED BY <3>1, Zenon
  <2>7. Append(<<>>, r) = <<r>>
    OBVIOUS
  <2>8. Cut(<<q>>, c, sep) = <<r>>
    BY <2>2, <2>5, <2>6, <2>7 DEF Cut
  <2>9. Split(Begin(p, k), sep) = <<Begin(p, k)>>
    BY <2>1, <2>4, <2>6, <2>8
  <2> QED BY <2>9
<1> HIDE DEF S
<1>4. n \in S
  BY <1>2, <1>3, AtTheTop
<1> QED BY <1>1, <1>4, StartEnds DEF S

LEMMA JoinLoop ==
  ASSUME NEW parts \in Elements, NEW sep \in Char, NEW n \in Nat, n = Len(parts)
  PROVE  \E joined \in [0 .. n -> Seq(Char)] :
           /\ Join(parts, sep) = joined[n]
           /\ \A k \in 1 .. n :
                joined[k] = IF k = 1 THEN parts[1] ELSE joined[k - 1] \o <<sep>> \o parts[k]
<1> DEFINE With(x, k) == IF k = 1 THEN parts[1] ELSE x \o <<sep>> \o parts[k]
           turn == [p \in Seq(Char) \X (1 .. n) |-> With(p[1], p[2])]
           Is(f) == f = [k \in 0 .. n |-> IF k = 0 THEN <<>> ELSE With(f[k - 1], k)]
<1>1. \A k \in 1 .. n : parts[k] \in Seq(Char)
  BY DEF Elements
<1>2. ASSUME NEW x \in Seq(Char), NEW k \in 1 .. n PROVE With(x, k) \in Seq(Char)
  <2>1. PICK p \in Seq(Char) : p = parts[k]
    BY <1>1
  <2>2. x \o <<sep>> \o p \in Seq(Char)
    OBVIOUS
  <2> QED BY <1>1, <2>1, <2>2
<1> HIDE DEF With
<1>3. IsTurn(turn, n, Seq(Char))
  BY <1>2 DEF IsTurn
<1>4. \A x \in Seq(Char), k \in 1 .. n : turn[<<x, k>>] = With(x, k)
  OBVIOUS
<1> HIDE DEF turn
<1>5. <<>> \in Seq(Char)
  OBVIOUS
<1>6. PICK f : IsLoop(f, n, Seq(Char), <<>>, turn)
  BY <1>3, <1>5, LoopExists
<1>7. f[0] = <<>> /\ f \in [0 .. n -> Seq(Char)]
  BY <1>6 DEF IsLoop
<1>8. ASSUME NEW k \in 1 .. n PROVE f[k] = With(f[k - 1], k)
  <2>1. k - 1 \in 0 .. n
    OBVIOUS
  <2> QED BY <1>4, <1>6, <2>1 DEF IsLoop
<1>9. Is(f)
  <2>1. ASSUME NEW k \in 0 .. n
        PROVE  f[k] = IF k = 0 THEN <<>> ELSE With(f[k - 1], k)
    <3>1. k = 0 \/ k \in 1 .. n
      OBVIOUS
    <3> QED BY <1>7, <1>8, <3>1, Zenon
  <2>2. f = [k \in 0 .. n |-> f[k]]
    BY <1>7
  <2> QED BY <2>1, <2>2
<1> DEFINE joined == CHOOSE g : Is(g)
<1>10. Is(joined) /\ Join(parts, sep) = joined[n]
  <2>1. Is(joined)
    BY <1>9
  <2>2. Join(parts, sep) = joined[n]
    BY DEF Join, With
  <2> QED BY <2>1, <2>2
<1> HIDE DEF joined
<1>11. \A k \in 0 .. n : joined[k] = IF k = 0 THEN <<>> ELSE With(joined[k - 1], k)
  BY <1>10
<1>12. joined[0] = <<>> /\ \A k \in 1 .. n : joined[k] = With(joined[k - 1], k)
  BY <1>11
<1>13. joined = [k \in 0 .. n |-> joined[k]]
  BY <1>10
<1>14. joined \in [0 .. n -> Seq(Char)]
  <2>1. ASSUME NEW k \in 1 .. n, joined[k - 1] \in Seq(Char) PROVE joined[k] \in Seq(Char)
    BY <1>2, <1>12, <2>1
  <2>2. Keeps(joined, n, Seq(Char))
    <3>1. joined[0] \in Seq(Char)
      BY <1>5, <1>12
    <3> QED BY <1>13, <2>1, <3>1, Zenon DEF Keeps
  <2> QED BY <2>2, LoopTyped
<1> QED BY <1>10, <1>12, <1>14 DEF With

(* What was joined is split into the same elements, none of which has the   *)
(* separator.                                                               *)
LEMMA SplitJoin ==
  ASSUME NEW parts \in Lists, NEW sep \in Char,
         \A i \in 1 .. Len(parts) : sep \notin ToSet(parts[i])
  PROVE  /\ Join(parts, sep) \in Seq(Char)
         /\ Split(Join(parts, sep), sep) = parts
<1>1. PICK n \in Nat : n = Len(parts) /\ n >= 1
  BY DEF Lists, Elements
<1>2. PICK joined \in [0 .. n -> Seq(Char)] :
        /\ Join(parts, sep) = joined[n]
        /\ \A k \in 1 .. n :
             joined[k] = IF k = 1 THEN parts[1] ELSE joined[k - 1] \o <<sep>> \o parts[k]
  <2>1. parts \in Elements
    BY DEF Lists
  <2> QED BY <1>1, <2>1, JoinLoop, ZenonT(30)
<1>3. \A k \in 1 .. n : parts[k] \in Seq(Char) /\ sep \notin ToSet(parts[k])
  BY <1>1 DEF Lists, Elements
<1> DEFINE S == { k \in 0 .. n : k # 0 => Split(joined[k], sep) = Begin(parts, k) }
<1>4. 0 \in S
  OBVIOUS
<1>5. ASSUME NEW k \in 1 .. n, k - 1 \in S PROVE k \in S
  <2>1. PICK p \in Seq(Char) : p = parts[k] /\ sep \notin ToSet(p)
    BY <1>3
  <2>2. Begin(parts, k) = Append(Begin(parts, k - 1), p)
    BY <1>1, <2>1, StartMore DEF Lists, Elements
  <2>3. CASE k = 1
    <3>1. joined[k] = p /\ Split(p, sep) = <<p>>
      BY <1>2, <2>1, <2>3, SplitOne
    <3>2. Begin(parts, k) = <<p>>
      <4>1. Begin(parts, 0) = <<>>
        BY StartEnds DEF Lists, Elements
      <4>2. k - 1 = 0 /\ Append(<<>>, p) = <<p>>
        BY <2>3
      <4> QED BY <2>2, <4>1, <4>2
    <3>3. Split(joined[k], sep) = Begin(parts, k)
      BY <3>1, <3>2
    <3> QED BY <3>3
  <2>4. CASE k # 1
    <3>1. PICK j \in Seq(Char) : j = joined[k - 1]
      <4>1. k - 1 \in 0 .. n
        OBVIOUS
      <4> QED BY <1>2, <4>1
    <3>2. joined[k] = j \o <<sep>> \o p
      BY <1>2, <2>1, <2>4, <3>1
    <3>3. Split(j, sep) = Begin(parts, k - 1)
      BY <1>5, <2>4, <3>1
    <3>4. Split(joined[k], sep) = Append(Split(j, sep), p)
      <4>1. Split(j \o <<sep>> \o p, sep) = Append(Split(j, sep), p)
        BY <2>1, SplitElement
      <4> QED BY <3>2, <4>1
    <3>5. Split(joined[k], sep) = Begin(parts, k)
      BY <2>2, <3>3, <3>4
    <3> QED BY <3>5
  <2> QED BY <2>3, <2>4
<1> HIDE DEF S
<1>6. n \in S
  BY <1>4, <1>5, AtTheTop
<1>7. Split(joined[n], sep) = parts
  BY <1>1, <1>6, StartEnds DEF S, Lists, Elements
<1>8. joined[n] \in Seq(Char)
  BY <1>2
<1> QED BY <1>2, <1>7, <1>8

(* The elements that are not removed.                                       *)
LEMMA WithoutType ==
  ASSUME NEW W, NEW parts \in Seq(W), NEW removed
  PROVE  /\ Without(parts, removed) \in Seq(W)
         /\ parts = <<>> => Without(parts, removed) = <<>>
<1>1. PICK n \in Nat : n = Len(parts)
  OBVIOUS
<1> DEFINE With(x, k) == IF parts[k] \in removed THEN x ELSE Append(x, parts[k])
           turn == [p \in Seq(W) \X (1 .. n) |-> With(p[1], p[2])]
           Is(f) == f = [k \in 0 .. n |-> IF k = 0 THEN <<>> ELSE With(f[k - 1], k)]
<1>2. ASSUME NEW x \in Seq(W), NEW k \in 1 .. n PROVE With(x, k) \in Seq(W)
  <2>1. parts[k] \in W
    BY <1>1
  <2> QED BY <2>1
<1>3. IsTurn(turn, n, Seq(W))
  <2> HIDE DEF With
  <2> QED BY <1>2 DEF IsTurn
<1>4. \A x \in Seq(W), k \in 1 .. n : turn[<<x, k>>] = With(x, k)
  <2> HIDE DEF With
  <2> QED OBVIOUS
<1> HIDE DEF turn, With
<1>5. <<>> \in Seq(W)
  OBVIOUS
<1>6. PICK f : IsLoop(f, n, Seq(W), <<>>, turn)
  BY <1>3, <1>5, LoopExists
<1>7. f[0] = <<>> /\ f \in [0 .. n -> Seq(W)]
  BY <1>6 DEF IsLoop
<1>8. ASSUME NEW k \in 1 .. n PROVE f[k] = With(f[k - 1], k)
  <2>1. k - 1 \in 0 .. n
    OBVIOUS
  <2> QED BY <1>4, <1>6, <2>1 DEF IsLoop
<1>9. Is(f)
  <2>1. ASSUME NEW k \in 0 .. n
        PROVE  f[k] = IF k = 0 THEN <<>> ELSE With(f[k - 1], k)
    <3>1. k = 0 \/ k \in 1 .. n
      OBVIOUS
    <3> QED BY <1>7, <1>8, <3>1, Zenon
  <2>2. f = [k \in 0 .. n |-> f[k]]
    BY <1>7
  <2> QED BY <2>1, <2>2
<1> DEFINE left == CHOOSE g : Is(g)
<1>10. Is(left)
  BY <1>9
<1>11. Without(parts, removed) = left[n]
  BY <1>1 DEF Without, With
<1> HIDE DEF left
<1>12. \A k \in 0 .. n : left[k] = IF k = 0 THEN <<>> ELSE With(left[k - 1], k)
  BY <1>10
<1>13. left[0] = <<>> /\ \A k \in 1 .. n : left[k] = With(left[k - 1], k)
  BY <1>12
<1>14. left \in [0 .. n -> Seq(W)]
  <2>1. ASSUME NEW k \in 1 .. n, left[k - 1] \in Seq(W) PROVE left[k] \in Seq(W)
    BY <1>2, <1>13, <2>1
  <2>2. Keeps(left, n, Seq(W))
    <3>1. left[0] \in Seq(W) /\ left = [k \in 0 .. n |-> left[k]]
      BY <1>5, <1>10, <1>13
    <3> QED BY <2>1, <3>1, Zenon DEF Keeps
  <2> QED BY <2>2, LoopTyped
<1> QED BY <1>1, <1>11, <1>13, <1>14

LEMMA OneMoreOf ==
  ASSUME NEW S, NEW l \in Seq(S), NEW x \in S
  PROVE  Append(l, x) \in Seq(S) /\ Append(l, x) # <<>>
<1>1. Append(l, x) \in Seq(S) /\ Len(Append(l, x)) = Len(l) + 1
  OBVIOUS
<1>2. Len(l) + 1 # 0 /\ Len(<<>>) = 0
  OBVIOUS
<1> QED BY <1>1, <1>2

LEMMA Within ==
  ASSUME NEW S, NEW l \in Seq(S), NEW i \in Nat, i >= 1, NEW j \in Nat, j <= Len(l)
  PROVE  SubSeq(l, i, j) \in Seq(S)
  OBVIOUS

LEMMA ThreeLists ==
  ASSUME NEW a \in Elements, NEW b \in Elements, NEW c \in Elements
  PROVE  a \o (b \o c) = (a \o b) \o c
<1>1. PICK S : S = Seq(Char)
  OBVIOUS
<1>2. a \in Seq(S) /\ b \in Seq(S) /\ c \in Seq(S)
  BY <1>1 DEF Elements
<1> QED BY <1>2, ConcatAssociative, SMTT(30)

LEMMA Narrower ==
  ASSUME NEW A, NEW B, NEW l \in Seq(A), \A x \in ToSet(l) : x \in B
  PROVE  l \in Seq(B)
<1>1. \A i \in 1 .. Len(l) : l[i] \in B
  BY DEF ToSet
<1>2. l \in [1 .. Len(l) -> B] /\ Len(l) \in Nat
  BY <1>1
<1> QED BY <1>2

(* The loop over e.prepend, from its last element to its first.             *)
LEMMA PrependedIs ==
  ASSUME NEW e, e.prepend \in Elements, NEW parts \in Elements
  PROVE  Prepended(e, parts) = e.prepend \o parts
<1>1. PICK x \in Elements, n \in Nat : x = e.prepend /\ n = Len(x)
  BY DEF Elements
<1> DEFINE With(y, k) == <<x[n + 1 - k]>> \o y
           turn == [p \in Elements \X (1 .. n) |-> With(p[1], p[2])]
           Is(f) == f = [k \in 0 .. n |-> IF k = 0 THEN parts ELSE With(f[k - 1], k)]
<1>2. ASSUME NEW y \in Elements, NEW k \in 1 .. n PROVE With(y, k) \in Elements
  <2>1. n + 1 - k \in 1 .. n
    OBVIOUS
  <2>2. PICK v \in Seq(Char) : v = x[n + 1 - k]
    BY <1>1, <2>1 DEF Elements
  <2>3. <<v>> \o y \in Elements
    BY DEF Elements
  <2> QED BY <2>2, <2>3
<1>3. IsTurn(turn, n, Elements)
  <2> HIDE DEF With
  <2> QED BY <1>2 DEF IsTurn
<1>4. \A y \in Elements, k \in 1 .. n : turn[<<y, k>>] = With(y, k)
  <2> HIDE DEF With
  <2> QED OBVIOUS
<1> HIDE DEF turn, With
<1>5. PICK f : IsLoop(f, n, Elements, parts, turn)
  BY <1>3, LoopExists
<1>6. f[0] = parts /\ f \in [0 .. n -> Elements]
  BY <1>5 DEF IsLoop
<1>7. ASSUME NEW k \in 1 .. n PROVE f[k] = With(f[k - 1], k)
  <2>1. k - 1 \in 0 .. n
    OBVIOUS
  <2> QED BY <1>4, <1>5, <2>1 DEF IsLoop
<1>8. Is(f)
  <2>1. ASSUME NEW k \in 0 .. n
        PROVE  f[k] = IF k = 0 THEN parts ELSE With(f[k - 1], k)
    <3>1. k = 0 \/ k \in 1 .. n
      OBVIOUS
    <3> QED BY <1>6, <1>7, <3>1, Zenon
  <2>2. f = [k \in 0 .. n |-> f[k]]
    BY <1>6
  <2> QED BY <2>1, <2>2
<1> DEFINE ps == CHOOSE g : Is(g)
<1>9. Is(ps)
  BY <1>8
<1>10. Prepended(e, parts) = ps[n]
  BY <1>1 DEF Prepended, With
<1> HIDE DEF ps
<1>11. \A k \in 0 .. n : ps[k] = IF k = 0 THEN parts ELSE With(ps[k - 1], k)
  BY <1>9
<1>12. ps[0] = parts /\ \A k \in 1 .. n : ps[k] = With(ps[k - 1], k)
  BY <1>11
<1> DEFINE Tail_(i) == SubSeq(x, i, n)
           S == { k \in 0 .. n : ps[k] = Tail_(n + 1 - k) \o parts }
<1>13. 0 \in S
  <2>1. Tail_(n + 1) = <<>> /\ <<>> \o parts = parts
    BY <1>1, ConcatEmptySeq DEF Elements
  <2>2. n + 1 - 0 = n + 1
    OBVIOUS
  <2> HIDE DEF Tail_
  <2>3. ps[0] = Tail_(n + 1 - 0) \o parts
    BY <1>12, <2>1, <2>2
  <2> QED BY <2>3
<1>14. ASSUME NEW k \in 1 .. n, k - 1 \in S PROVE k \in S
  <2>1. PICK i \in 1 .. n : i = n + 1 - k /\ n + 1 - (k - 1) = i + 1
    OBVIOUS
  <2>2. PICK v \in Seq(Char) : v = x[i]
    BY <1>1 DEF Elements
  <2> HIDE DEF S
  <2>3. Tail_(i + 1) \in Elements /\ Tail_(i) \in Elements
    <3>1. PICK W : W = Seq(Char) /\ x \in Seq(W)
      BY <1>1 DEF Elements
    <3>2. i \in Nat /\ i >= 1 /\ i + 1 \in Nat /\ i + 1 >= 1 /\ n <= Len(x)
      BY <1>1
    <3> QED BY <3>1, <3>2, Within DEF Elements
  <2>4. <<v>> \o Tail_(i + 1) = Tail_(i)
    <3>1. PICK W : W = Seq(Char) /\ x \in Seq(W)
      BY <1>1 DEF Elements
    <3>2. i \in 1 .. Len(x) /\ n \in i .. Len(x)
      BY <1>1
    <3>3. SubSeq(x, i, n) = <<x[i]>> \o SubSeq(x, i + 1, n)
      BY <3>1, <3>2, SubSeqRecursiveFirst
    <3> QED BY <2>2, <3>3
  <2> USE DEF S
  <2>5. ps[k - 1] = Tail_(i + 1) \o parts
    BY <1>14, <2>1
  <2> HIDE DEF Tail_
  <2>6. ps[k] = <<v>> \o (Tail_(i + 1) \o parts)
    BY <1>12, <2>1, <2>2, <2>5 DEF With
  <2>7. <<v>> \o (Tail_(i + 1) \o parts) = (<<v>> \o Tail_(i + 1)) \o parts
    <3>1. <<v>> \in Elements
      BY DEF Elements
    <3> QED BY <2>3, <3>1, ThreeLists, SMTT(30)
  <2>8. ps[k] = Tail_(i) \o parts
    BY <2>4, <2>6, <2>7
  <2> QED BY <2>1, <2>8
<1> HIDE DEF S
<1>15. n \in S
  BY <1>13, <1>14, AtTheTop
<1>16. Tail_(1) = x
  BY <1>1 DEF Elements
<1>17. n + 1 - n = 1
  OBVIOUS
<1> QED BY <1>1, <1>10, <1>15, <1>16, <1>17 DEF S

(* No element of a list that was split has the separator.                   *)
LEMMA SplitClear ==
  ASSUME NEW s \in Seq(Char), NEW sep
  PROVE  LET clear == { w \in Seq(Char) : sep \notin ToSet(w) }
         IN  Split(s, sep) \in Seq(clear)
<1> DEFINE clear == { w \in Seq(Char) : sep \notin ToSet(w) }
           X == { l \in Seq(clear) : l # <<>> }
<1>1. PICK n \in Nat : n = Len(s)
  OBVIOUS
<1>2. PICK parts \in [0 .. n -> Lists] :
        /\ Split(s, sep) = parts[n] /\ parts[0] = << <<>> >>
        /\ \A k \in 1 .. n : parts[k] = Cut(parts[k - 1], s[k], sep)
  BY <1>1, SplitLoop
<1>3. <<>> \in clear
  BY DEF ToSet
<1>4. \A w \in clear : w \in Seq(Char) /\ sep \notin ToSet(w)
  OBVIOUS
<1>5. ASSUME NEW w \in Seq(Char), sep \notin ToSet(w) PROVE w \in clear
  BY <1>5
<1> HIDE DEF clear
<1>6. parts[0] \in X
  BY <1>2, <1>3
<1>7. ASSUME NEW k \in 1 .. n, parts[k - 1] \in X PROVE parts[k] \in X
  <2>1. PICK l \in Seq(clear) : l = parts[k - 1] /\ l # <<>>
    BY <1>7
  <2>2. PICK c \in Char : c = s[k]
    BY <1>1
  <2>3. CASE c = sep
    <3>1. Append(l, <<>>) \in X
      BY <1>3, <2>1
    <3> QED BY <1>2, <2>1, <2>2, <2>3, <3>1 DEF Cut
  <2>4. CASE c # sep
    <3>1. PICK w \in clear : w = Last(l)
      BY <2>1, Shorter
    <3>2. Append(w, c) \in Seq(Char) /\ sep \notin ToSet(Append(w, c))
      BY <1>4, <2>4 DEF ToSet
    <3>3. PICK v \in clear : v = Append(w, c)
      <4>1. Append(w, c) \in clear
        BY <1>5, <3>2
      <4> QED BY <4>1, Zenon
    <3>4. PICK r \in Seq(clear) : r = Front(l)
      BY <2>1, Shorter
    <3>5. Append(r, v) \in X
      <4>1. Append(r, v) \in Seq(clear) /\ Append(r, v) # <<>>
        BY OneMoreOf, Zenon
      <4> QED BY <4>1
    <3> QED BY <1>2, <2>1, <2>2, <2>4, <3>1, <3>3, <3>4, <3>5 DEF Cut
  <2> QED BY <2>3, <2>4
<1> HIDE DEF X
<1>8. Keeps(parts, n, X)
  <2>1. parts = [k \in 0 .. n |-> parts[k]]
    BY <1>2
  <2> QED BY <1>6, <1>7, <2>1, Zenon DEF Keeps
<1>9. parts[n] \in X
  <2>1. parts \in [0 .. n -> X]
    BY <1>8, LoopTyped
  <2> QED BY <2>1
<1> QED BY <1>2, <1>9 DEF X, clear

(* What an entry makes of a value, taken apart again.                       *)
PathEdit(e, old, had, whole) ==
  /\ e.prepend \in Elements /\ e.append \in Elements /\ e.sep \in Char
  /\ \A v \in old : v \in Seq(Char) /\ old = {v}
  /\ \A part \in ToSet(e.prepend) \cup ToSet(e.append) : e.sep \notin ToSet(part)
  /\ ~e.unset /\ e.value = {} /\ whole # <<>>
  /\ had = IF old \in {{}, {<<>>}} THEN <<>> ELSE Split(CHOOSE v \in old : TRUE, e.sep)
  /\ whole = e.prepend \o Without(had, ToSet(e.remove)) \o e.append

LEMMA EditedPath ==
  ASSUME NEW e, NEW old, NEW had, NEW whole, PathEdit(e, old, had, whole)
  PROVE  Split(CHOOSE v \in resolveEnvEntry(e, old) : TRUE, e.sep) = whole
<1> USE DEF PathEdit
<1> DEFINE clear == { w \in Seq(Char) : e.sep \notin ToSet(w) }
           left  == Without(had, ToSet(e.remove))
<1>1. had \in Seq(clear)
  <2>1. CASE old \in {{}, {<<>>}}
    <3>1. <<>> \in Seq(clear)
      OBVIOUS
    <3> QED BY <2>1, <3>1
  <2>2. CASE old \notin {{}, {<<>>}}
    <3>1. PICK v \in Seq(Char) : v = CHOOSE w \in old : TRUE
      BY <2>2
    <3>2. Split(v, e.sep) \in Seq(clear)
      BY SplitClear
    <3> QED BY <2>2, <3>1, <3>2
  <2> QED BY <2>1, <2>2
<1>2. left \in Seq(clear)
  BY <1>1, WithoutType
<1>3. ASSUME NEW l \in Elements, \A part \in ToSet(l) : e.sep \notin ToSet(part)
      PROVE  l \in Seq(clear)
  <2>1. \A part \in ToSet(l) : part \in Seq(Char)
    BY DEF ToSet, Elements
  <2>2. \A part \in ToSet(l) : part \in clear
    BY <1>3, <2>1
  <2> QED BY <2>2, Narrower DEF Elements
<1>4. Kept(old, e) = left
  <2>1. CASE old \in {{}, {<<>>}}
    <3>1. had = <<>>
      BY <2>1
    <3>2. left = <<>>
      BY <1>1, <3>1, WithoutType
    <3> QED BY <2>1, <3>2 DEF Kept
  <2>2. CASE old \notin {{}, {<<>>}}
    BY <2>2 DEF Kept
  <2> QED BY <2>1, <2>2
<1>5. \A l \in Seq(clear) : l \in Elements /\ \A i \in 1 .. Len(l) : e.sep \notin ToSet(l[i])
  BY DEF Elements
<1> HIDE DEF clear, left
<1>6. Prepended(e, left) = e.prepend \o left
  BY <1>2, <1>5, PrependedIs
<1>7. whole \in Seq(clear)
  <2>1. e.prepend \in Seq(clear) /\ e.append \in Seq(clear)
    BY <1>3
  <2> QED BY <1>2, <2>1 DEF left
<1>8. Split(Join(whole, e.sep), e.sep) = whole
  <2>1. whole \in Lists
    BY <1>5, <1>7 DEF Lists
  <2> QED BY <1>5, <1>7, <2>1, SplitJoin
<1>9. resolveEnvEntry(e, old) = {Join(whole, e.sep)}
  BY <1>4, <1>6 DEF resolveEnvEntry, left
<1> QED BY <1>8, <1>9

(* resolveEnvEntry: of any value and any entry, in any order among the      *)
(* others, come the elements that PathEdits says.                           *)
THEOREM PathsAsEdited == Spec => []PathEdits
<1>1. EnvInv /\ EnvironmentOnce => PathEdits
  <2> SUFFICES ASSUME EnvInv, EnvironmentOnce PROVE PathEdits
    OBVIOUS
  <2> SUFFICES ASSUME NEW p \in payload, NEW n \in DOMAIN launch.entries \ Plumbing
               PROVE  LET e     == launch.entries[n]
                          old   == baseEnv(launch)[n]
                          had   == IF old \in {{}, {<<>>}} THEN <<>>
                                   ELSE Split(CHOOSE v \in old : TRUE, e.sep)
                          whole == e.prepend \o Without(had, ToSet(e.remove)) \o e.append
                      IN  /\ ~e.unset /\ e.value = {} /\ whole # <<>>
                          /\ \A part \in ToSet(e.prepend) \cup ToSet(e.append) :
                               e.sep \notin ToSet(part)
                          => Split(CHOOSE v \in p.env[n] : TRUE, e.sep) = whole
    BY Zenon DEF PathEdits
  <2> DEFINE e     == launch.entries[n]
             old   == baseEnv(launch)[n]
             had   == IF old \in {{}, {<<>>}} THEN <<>> ELSE Split(CHOOSE v \in old : TRUE, e.sep)
             whole == e.prepend \o Without(had, ToSet(e.remove)) \o e.append
  <2> SUFFICES ASSUME ~e.unset, e.value = {}, whole # <<>>,
                      \A part \in ToSet(e.prepend) \cup ToSet(e.append) : e.sep \notin ToSet(part)
               PROVE  Split(CHOOSE v \in p.env[n] : TRUE, e.sep) = whole
    BY Zenon
  <2>1. launch \in Launches /\ n \in Name
    BY InheritanceAssumption DEF EnvInv, Loop
  <2>2. e.prepend \in Elements /\ e.append \in Elements /\ e.sep \in Char
    BY <2>1, InheritanceAssumption DEF Elements
  <2>3. \A v \in old : v \in Seq(Char) /\ old = {v}
    <3>1. old = IF n = Public THEN {} ELSE launch.env[n]
      BY <2>1, BaseEnv
    <3> QED BY <2>1, <3>1, InheritanceAssumption
  <2>4. p.env[n] = resolveEnvEntry(e, old)
    BY <2>1 DEF EnvironmentOnce, Asked
  <2>5. Split(CHOOSE v \in resolveEnvEntry(e, old) : TRUE, e.sep) = whole
    <3>1. PathEdit(e, old, had, whole)
      BY <2>2, <2>3, Zenon DEF PathEdit
    <3> HIDE DEF e, old, had, whole
    <3> QED BY <3>1, EditedPath
  <2> QED BY <2>4, <2>5
<1> QED BY <1>1, EnvInvInductive, EnvironmentOnceHolds, PTL

-----------------------------------------------------------------------------
(* Numbers.                                                                 *)

LEMMA Smallest ==
  ASSUME NEW S \in SUBSET Nat, S # {}
  PROVE  Min(S) \in S /\ \A x \in S : Min(S) <= x
BY SmallestOf DEF Min

LEMMA Largest ==
  ASSUME NEW n \in Nat, NEW S \in SUBSET (0 .. n), S # {}
  PROVE  Max(S) \in S /\ \A x \in S : x <= Max(S)
<1> DEFINE T == { n - x : x \in S }
<1>1. T \in SUBSET Nat /\ T # {}
  <2>1. \A x \in S : n - x \in Nat
    OBVIOUS
  <2> QED BY <2>1
<1>2. PICK m \in S : n - m = Min(T)
  BY <1>1, Smallest
<1>3. \A y \in S : y <= m
  <2>1. \A y \in S : n - m <= n - y
    BY <1>1, <1>2, Smallest
  <2> QED BY <2>1
<1> QED BY <1>3 DEF Max

-----------------------------------------------------------------------------
(* Tables.                                                                  *)

Fds == DOMAIN launch.table
Own == Open(launch.table)
Due(fd) == AfterExec(launch.table)[fd]

IsDescriptor(d) ==
  /\ d = [file |-> d.file, cloexec |-> d.cloexec]
  /\ d.cloexec \in BOOLEAN
  /\ d.file = "closed" => d = Closed
IsTable(t) ==
  /\ DOMAIN t = Fds
  /\ \A fd \in Fds : IsDescriptor(t[fd])

(* What the launcher starts from.                                           *)
LEMMA LaunchTable ==
  ASSUME launch \in Launches
  PROVE  /\ \E n \in Nat : n > 1 /\ Fds = 0 .. n
         /\ IsTable(launch.table)
         /\ \A fd \in Fds : launch.table[fd].file \notin PipeEnd
         /\ \A fd \in 0 .. 2 : fd \in Own /\ ~launch.table[fd].cloexec
         /\ Wanted \in SUBSET Fds /\ 0 \in Wanted
<1> USE TableAssumption DEF Fds, Own, Open, Wanted, Inheritable
<1>1. \E n \in Nat : n > 1 /\ Fds = 0 .. n
  <2>1. Cardinality(Fds) \in Nat /\ Fds = 0 .. Cardinality(Fds) - 1 /\ 2 \in Fds
    OBVIOUS
  <2>2. Cardinality(Fds) - 1 \in Nat /\ Cardinality(Fds) - 1 > 1
    BY <2>1
  <2> QED BY <2>1, <2>2
<1>2. IsTable(launch.table) /\ \A fd \in Fds : launch.table[fd].file \notin PipeEnd
  BY DEF IsTable, IsDescriptor
<1>3. \A fd \in 0 .. 2 : fd \in Own /\ ~launch.table[fd].cloexec
  OBVIOUS
<1> QED BY <1>1, <1>2, <1>3

(* A table without its close-on-exec descriptors.                           *)
LEMMA Surviving ==
  ASSUME NEW t, DOMAIN t = Fds, NEW fd \in Fds
  PROVE  AfterExec(t)[fd] = IF t[fd].cloexec THEN Closed ELSE t[fd]
BY DEF AfterExec

LEMMA FlagsCleared ==
  ASSUME NEW d, IsDescriptor(d)
  PROVE  /\ [d EXCEPT !.cloexec = FALSE] = [file |-> d.file, cloexec |-> FALSE]
         /\ ~d.cloexec => [d EXCEPT !.cloexec = FALSE] = d
<1> DEFINE D == [file : {d.file}, cloexec : BOOLEAN]
           u == [d EXCEPT !.cloexec = FALSE]
           v == [file |-> d.file, cloexec |-> FALSE]
<1>1. d \in D
  BY DEF IsDescriptor
<1>2. u \in D /\ u.cloexec = FALSE
  BY <1>1
<1>3. v \in D /\ v.cloexec = FALSE
  OBVIOUS
<1>4. \A x, y \in D : x.cloexec = y.cloexec => x = y
  OBVIOUS
<1> HIDE DEF u, v, D
<1>5. u = v /\ (~d.cloexec => u = d)
  BY <1>1, <1>2, <1>3, <1>4 DEF IsDescriptor
<1> QED BY <1>5 DEF u, v

(* A new descriptor goes to a free number and touches no other.             *)
LEMMA Installed ==
  ASSUME launch \in Launches, NEW t, IsTable(t), Free(t) # {},
         NEW file, file # "closed"
  PROVE  LET e == [file |-> file, cloexec |-> TRUE]
             m == Min(Free(t))
             u == Install(t, e)
         IN  /\ m \in Fds /\ t[m] = Closed
             /\ IsTable(u)
             /\ u[m] = e
             /\ \A fd \in Fds \ {m} : u[fd] = t[fd]
             /\ Free(u) = Free(t) \ {m}
<1> DEFINE e == [file |-> file, cloexec |-> TRUE]
           m == Min(Free(t))
           u == [t EXCEPT ![m] = e]
<1>1. Free(t) \in SUBSET Nat
  BY LaunchTable DEF Free, IsTable
<1>2. m \in Free(t)
  BY <1>1, Smallest
<1>3. m \in Fds /\ t[m] = Closed
  BY <1>2 DEF Free, Open, IsTable
<1>4. DOMAIN u = Fds /\ u[m] = e /\ \A fd \in Fds \ {m} : u[fd] = t[fd]
  BY <1>3 DEF IsTable
<1>5. IsDescriptor(e) /\ e # Closed
  BY DEF IsDescriptor, Closed
<1>6. IsTable(u)
  BY <1>4, <1>5 DEF IsTable
<1>7. Free(u) = Free(t) \ {m}
  BY <1>3, <1>4, <1>5 DEF Free, Open, IsTable
<1> QED BY <1>3, <1>4, <1>6, <1>7 DEF Install

LEMMA FreeNumbers ==
  ASSUME launch \in Launches, NEW t, IsTable(t)
  PROVE  IsFiniteSet(Free(t)) /\ Cardinality(Free(t)) \in Nat
<1>1. Free(t) \subseteq Fds
  BY DEF Free, IsTable
<1>2. PICK n \in Nat : Fds = 0 .. n
  BY LaunchTable
<1>3. IsFiniteSet(Fds)
  BY <1>2, FS_Interval
<1> QED BY <1>1, <1>3, FS_Subset, FS_CardinalityType

(* A pipe takes two free numbers.                                           *)
LEMMA PipeInstalled ==
  ASSUME launch \in Launches, NEW t, IsTable(t), Cardinality(Free(t)) >= 2,
         NEW r, r # "closed", NEW w, w # "closed"
  PROVE  LET u == InstallPipe(t, r, w)
         IN  /\ IsTable(u)
             /\ Cardinality(Free(u)) = Cardinality(Free(t)) - 2
             /\ \E m, n \in Free(t) :
                  /\ m # n /\ Free(u) = Free(t) \ {m, n}
                  /\ u[m] = [file |-> r, cloexec |-> TRUE]
                  /\ u[n] = [file |-> w, cloexec |-> TRUE]
                  /\ \A fd \in Fds \ {m, n} : u[fd] = t[fd]
<1> DEFINE a == Install(t, [file |-> r, cloexec |-> TRUE])
           u == Install(a, [file |-> w, cloexec |-> TRUE])
           m == Min(Free(t))
           n == Min(Free(a))
<1>1. IsFiniteSet(Free(t)) /\ Cardinality(Free(t)) \in Nat /\ Free(t) # {}
  BY FreeNumbers, FS_EmptySet
<1>2. /\ m \in Fds /\ t[m] = Closed /\ IsTable(a) /\ a[m] = [file |-> r, cloexec |-> TRUE]
      /\ \A fd \in Fds \ {m} : a[fd] = t[fd]
      /\ Free(a) = Free(t) \ {m}
  BY <1>1, Installed
<1> HIDE DEF m, a
<1>3. m \in Free(t)
  BY <1>2 DEF Free, Open, IsTable
<1>4. Cardinality(Free(a)) = Cardinality(Free(t)) - 1 /\ IsFiniteSet(Free(a))
  BY <1>1, <1>2, <1>3, FS_RemoveElement
<1>5. Cardinality(Free(a)) > 0 /\ Free(a) # {}
  <2>1. Cardinality(Free(a)) > 0
    BY <1>1, <1>4
  <2>2. Cardinality({}) = 0
    BY FS_EmptySet
  <2> QED BY <2>1, <2>2
<1>6. /\ n \in Fds /\ a[n] = Closed /\ IsTable(u) /\ u[n] = [file |-> w, cloexec |-> TRUE]
      /\ \A fd \in Fds \ {n} : u[fd] = a[fd]
      /\ Free(u) = Free(a) \ {n}
  BY <1>2, <1>5, Installed
<1> HIDE DEF n, u
<1>7. n \in Free(a)
  BY <1>2, <1>6 DEF Free, Open, IsTable
<1>8. Cardinality(Free(u)) = Cardinality(Free(t)) - 2
  <2>1. Cardinality(Free(u)) = Cardinality(Free(a)) - 1
    BY <1>4, <1>6, <1>7, FS_RemoveElement
  <2> QED BY <2>1, <1>1, <1>4
<1>9. n \in Free(t) /\ m # n /\ Free(u) = Free(t) \ {m, n}
  BY <1>2, <1>6, <1>7
<1>10. \A fd \in Fds \ {m, n} : u[fd] = t[fd]
  BY <1>2, <1>6
<1>11. u[m] = [file |-> r, cloexec |-> TRUE]
  BY <1>2, <1>6, <1>9
<1>12. u = InstallPipe(t, r, w)
  BY DEF InstallPipe, a, u
<1> QED BY <1>3, <1>6, <1>8, <1>9, <1>10, <1>11, <1>12

-----------------------------------------------------------------------------
(* What holds of the descriptors throughout.                                *)

Child == {"boot", "readStartup", "report", "fork"}

(* The launcher's own stay as they were, and what it adds dies at an exec.  *)
LauncherTable ==
  /\ IsTable(table)
  /\ \A fd \in Own : table[fd] = launch.table[fd]
  /\ \A fd \in Fds \ Own : table[fd] = Closed \/ table[fd].cloexec
  /\ pc \in {"apply", "pipes"} => table = launch.table /\ extra = <<>>

(* Each pipe end has one number, and it is not one of the launcher's own.   *)
PipesOpen ==
  pc \in {"dup", "start"} =>
    \A p \in PipeEnd : \E n \in Fds \ Own :
      table[n].file = p /\ \A fd \in Fds : table[fd].file = p => fd = n

(* The duplicates: of each wanted descriptor so far, unless the table is    *)
(* full, and then there will be no child.                                   *)
Duplicates ==
  /\ extra \in Seq(Int)
  /\ ~launch.proc => extra = <<>>
  /\ pc = "dup" => launch.proc
  /\ pc \in {"dup", "start"} =>
       \A i \in 1 .. Len(extra) :
         /\ extra[i] # None => /\ extra[i] \in Fds \ Own /\ i + 2 \in Wanted
                               /\ table[extra[i]] = [file    |-> launch.table[i + 2].file,
                                                     cloexec |-> TRUE]
         /\ extra[i] = None /\ Free(table) # {} => i + 2 \notin Wanted
  /\ pc = "start" /\ launch.proc /\ Free(table) # {} => \A fd \in Wanted : fd < Len(extra) + 3

(* The child has its pipe ends, where it is told, and else what is due.     *)
PipeIn(p) == [file |-> p, cloexec |-> FALSE]
ChildHas(fd) ==
  CASE fd = setupFD   -> IF pc = "fork" THEN Closed ELSE PipeIn("setupW")
    [] fd = startupFD -> IF pc \in {"boot", "readStartup"} THEN PipeIn("startupR") ELSE Closed
    [] OTHER          -> Due(fd)
ChildsTable ==
  pc \in Child =>
    /\ setupFD \in Fds /\ startupFD \in Fds
    /\ launch.proc => setupFD \notin Wanted /\ startupFD \notin Wanted
    /\ ~launch.proc => setupFD = 3
    /\ DOMAIN childTable = Fds
    /\ \A fd \in Fds : childTable[fd] = ChildHas(fd)

FdInv ==
  launch \in Launches /\ LauncherTable /\ PipesOpen /\ Duplicates /\ ChildsTable /\ DescriptorsKept

LEMMA FdInit == Init => FdInv
<1> SUFFICES ASSUME Init PROVE FdInv
  OBVIOUS
<1>1. /\ launch \in Launches /\ table = launch.table /\ extra = <<>>
      /\ payload = {} /\ pc = "apply"
  BY DEF Init
<1>2. LauncherTable
  <2>1. \A fd \in Fds \ Own : table[fd] = Closed
    BY <1>1 DEF Fds, Own, Open
  <2> QED BY <1>1, <2>1, LaunchTable DEF LauncherTable
<1>3. PipesOpen /\ Duplicates /\ ChildsTable /\ DescriptorsKept
  BY <1>1 DEF PipesOpen, Duplicates, ChildsTable, DescriptorsKept, Child
<1> QED BY <1>1, <1>2, <1>3 DEF FdInv

(* What is said of the launcher's start stays said.                         *)
LEMMA SameLaunch ==
  ASSUME launch' = launch
  PROVE  /\ Fds' = Fds /\ Own' = Own /\ Wanted' = Wanted
         /\ payload' = payload /\ DescriptorsKept => DescriptorsKept'
<1>1. Fds' = Fds /\ Own' = Own /\ Wanted' = Wanted
  BY DEF Fds, Own, Wanted, Open, Inheritable
<1>2. payload' = payload /\ DescriptorsKept => DescriptorsKept'
  BY DEF DescriptorsKept
<1> QED BY <1>1, <1>2

(* A step that touches no descriptor.                                       *)
LEMMA SameDescriptors ==
  ASSUME FdInv, UNCHANGED <<launch, table, extra, childTable, payload>>,
         pc' \in {"apply", "pipes"} => pc \in {"apply", "pipes"},
         pc' \in {"dup", "start"} => pc \in {"dup", "start"},
         pc' = "dup" => pc = "dup",
         pc' = "start" /\ pc # "start" => \A fd \in Wanted : fd < Len(extra) + 3,
         pc' \in Child => /\ pc \in Child
                          /\ pc' = "fork" <=> pc = "fork"
                          /\ pc' \in {"boot", "readStartup"} <=> pc \in {"boot", "readStartup"}
  PROVE  FdInv'
<1> USE DEF FdInv
<1>1. /\ Fds' = Fds /\ Own' = Own /\ Wanted' = Wanted /\ Free(table)' = Free(table)
      /\ setupFD' = setupFD /\ startupFD' = startupFD
      /\ launch' \in Launches /\ DescriptorsKept'
  BY SameLaunch DEF Free, Open, setupFD, startupFD
<1>2. LauncherTable'
  BY <1>1 DEF LauncherTable, IsTable
<1>3. PipesOpen'
  BY <1>1 DEF PipesOpen
<1>4. Duplicates'
  BY <1>1 DEF Duplicates
<1>5. ChildsTable'
  <2> SUFFICES ASSUME pc' \in Child PROVE ChildsTable'
    BY DEF ChildsTable, Child
  <2>1. \A fd \in Fds : ChildHas(fd)' = ChildHas(fd)
    BY <1>1 DEF ChildHas, Due
  <2> QED BY <1>1, <2>1 DEF ChildsTable
<1> QED BY <1>1, <1>2, <1>3, <1>4, <1>5

LEMMA FourEnds == Cardinality(PipeEnd) = 4
<1>1. PipeEnd = ((({} \cup {"setupR"}) \cup {"setupW"}) \cup {"startupR"}) \cup {"startupW"}
  BY DEF PipeEnd
<1>2. IsFiniteSet({}) /\ Cardinality({}) = 0
  BY FS_EmptySet
<1>3. IsFiniteSet({} \cup {"setupR"}) /\ Cardinality({} \cup {"setupR"}) = 1
  BY <1>2, FS_AddElement
<1>4. /\ IsFiniteSet(({} \cup {"setupR"}) \cup {"setupW"})
      /\ Cardinality(({} \cup {"setupR"}) \cup {"setupW"}) = 2
  BY <1>3, FS_AddElement
<1>5. /\ IsFiniteSet((({} \cup {"setupR"}) \cup {"setupW"}) \cup {"startupR"})
      /\ Cardinality((({} \cup {"setupR"}) \cup {"setupW"}) \cup {"startupR"}) = 3
  BY <1>4, FS_AddElement
<1>6. Cardinality(((({} \cup {"setupR"}) \cup {"setupW"}) \cup {"startupR"}) \cup {"startupW"}) = 4
  BY <1>5, FS_AddElement
<1> QED BY <1>1, <1>6

LEMMA OpenPipesKeeps == FdInv /\ OpenPipes => FdInv'
<1> SUFFICES ASSUME FdInv, OpenPipes PROVE FdInv'
  OBVIOUS
<1>1. /\ launch \in Launches /\ launch' = launch /\ pc = "pipes" /\ table = launch.table
      /\ extra = <<>> /\ UNCHANGED <<extra, childTable, payload>> /\ IsTable(table)
  BY DEF FdInv, OpenPipes, LauncherTable
<1>2. CASE pc' = "failed" /\ UNCHANGED table
  BY <1>1, <1>2, SameDescriptors DEF Child
<1>3. CASE /\ Cardinality(Free(table)) >= 4
           /\ table' = InstallPipe(InstallPipe(table, "setupR", "setupW"), "startupR", "startupW")
           /\ pc' = IF ProcReadable(table') THEN "dup" ELSE "start"
  <2> DEFINE a == InstallPipe(table, "setupR", "setupW")
             u == InstallPipe(a, "startupR", "startupW")
             e(p) == [file |-> p, cloexec |-> TRUE]
  <2>1. /\ launch \in Launches /\ IsTable(table)
        /\ Cardinality(Free(table)) \in Nat /\ Cardinality(Free(table)) >= 2
    BY <1>1, <1>3, FreeNumbers
  <2>2. PICK m1, n1 \in Free(table) :
          /\ m1 # n1 /\ Free(a) = Free(table) \ {m1, n1}
          /\ a[m1] = e("setupR") /\ a[n1] = e("setupW")
          /\ \A fd \in Fds \ {m1, n1} : a[fd] = table[fd]
    BY <2>1, PipeInstalled
  <2>3. IsTable(a) /\ Cardinality(Free(a)) = Cardinality(Free(table)) - 2
    BY <2>1, PipeInstalled
  <2>4. Cardinality(Free(a)) >= 2
    BY <1>3, <2>1, <2>3
  <2> HIDE DEF a
  <2>5. PICK m2, n2 \in Free(a) :
          /\ m2 # n2
          /\ u[m2] = e("startupR") /\ u[n2] = e("startupW")
          /\ \A fd \in Fds \ {m2, n2} : u[fd] = a[fd]
    BY <1>1, <2>3, <2>4, PipeInstalled
  <2>6. IsTable(u)
    BY <1>1, <2>3, <2>4, PipeInstalled
  <2> HIDE DEF u
  <2>7. /\ {m1, n1, m2, n2} \subseteq Fds \ Own
        /\ m2 \notin {m1, n1} /\ n2 \notin {m1, n1}
    BY <1>1, <2>2, <2>5 DEF Free, IsTable, Own, Fds
  <2>8. /\ u[m1] = e("setupR") /\ u[n1] = e("setupW")
        /\ u[m2] = e("startupR") /\ u[n2] = e("startupW")
        /\ \A fd \in Fds \ {m1, n1, m2, n2} : u[fd] = table[fd]
    BY <2>2, <2>5, <2>7
  <2>9. table' = u /\ pc' \in {"dup", "start"} /\ (pc' = "dup" => launch.proc)
        /\ (pc' = "start" => ~launch.proc \/ Free(u) = {})
    BY <1>3 DEF u, a, ProcReadable
  <2>10. /\ Fds' = Fds /\ Own' = Own /\ Wanted' = Wanted /\ Free(table)' = Free(u)
         /\ launch' \in Launches /\ DescriptorsKept'
    BY <1>1, <2>9, SameLaunch DEF Free, Open, FdInv
  <2>11. LauncherTable'
    <3>1. \A fd \in Own : u[fd] = launch.table[fd]
      BY <1>1, <2>7, <2>8 DEF Own, Open, Fds
    <3>2. \A fd \in Fds \ Own : u[fd] = Closed \/ u[fd].cloexec
      BY <1>1, <2>7, <2>8 DEF Own, Open, Fds
    <3> QED BY <1>1, <2>6, <2>9, <2>10, <3>1, <3>2 DEF LauncherTable, IsTable
  <2>12. PipesOpen'
    <3>1. \A fd \in Fds \ {m1, n1, m2, n2} : u[fd].file \notin PipeEnd
      BY <1>1, <2>8, LaunchTable
    <3>2. ASSUME NEW p \in PipeEnd
          PROVE  \E n \in Fds \ Own : u[n].file = p /\ \A fd \in Fds : u[fd].file = p => fd = n
      BY <2>7, <2>8, <3>1 DEF PipeEnd
    <3> QED BY <2>9, <2>10, <3>2 DEF PipesOpen
  <2>13. Duplicates'
    BY <1>1, <2>9, <2>10 DEF Duplicates
  <2>14. ChildsTable'
    BY <2>9 DEF ChildsTable, Child
  <2> QED BY <2>10, <2>11, <2>12, <2>13, <2>14 DEF FdInv
<1>4. Cardinality(Free(table)) \in Nat
  BY <1>1, FreeNumbers
<1> QED BY <1>2, <1>3, <1>4, FourEnds DEF OpenPipes

LEMMA DupNextKeeps == FdInv /\ DupNext => FdInv'
<1> SUFFICES ASSUME FdInv, DupNext PROVE FdInv'
  OBVIOUS
<1> DEFINE k == Len(extra) + 3
           m == Min(Free(table))
           e == [file |-> launch.table[k].file, cloexec |-> TRUE]
<1>1. /\ launch \in Launches /\ launch' = launch /\ pc = "dup" /\ pc' = "dup"
      /\ UNCHANGED <<childTable, payload>>
      /\ IsTable(table) /\ launch.proc /\ extra \in Seq(Int)
  BY DEF FdInv, DupNext, LauncherTable, Duplicates
<1>2. /\ Fds' = Fds /\ Own' = Own /\ Wanted' = Wanted /\ launch' \in Launches /\ DescriptorsKept'
      /\ ChildsTable'
  BY <1>1, SameLaunch DEF FdInv, ChildsTable, Child
<1>3. \A i \in 1 .. Len(extra) :
        /\ extra[i] # None => /\ extra[i] \in Fds \ Own /\ i + 2 \in Wanted
                              /\ table[extra[i]] = [file    |-> launch.table[i + 2].file,
                                                    cloexec |-> TRUE]
        /\ extra[i] = None /\ Free(table) # {} => i + 2 \notin Wanted
  BY <1>1 DEF FdInv, Duplicates
<1>4. CASE k \in Wanted /\ Free(table) # {}
  <2>1. extra' = Append(extra, m) /\ table' = Install(table, [file |-> table[k].file, cloexec |-> TRUE])
    BY <1>4 DEF DupNext, DupFlag
  <2>2. k \in Own /\ table[k] = launch.table[k] /\ k \in Fds
    BY <1>4 DEF Wanted, Inheritable, Own, Open, Fds, FdInv, LauncherTable
  <2>3. launch.table[k].file \notin PipeEnd \cup {"closed"}
    BY <1>1, <2>2, LaunchTable DEF Own, Open, IsTable, IsDescriptor
  <2>4. /\ m \in Fds /\ table[m] = Closed /\ IsTable(table') /\ table'[m] = e
        /\ \A fd \in Fds \ {m} : table'[fd] = table[fd]
        /\ Free(table') = Free(table) \ {m}
    BY <1>1, <1>4, <2>1, <2>2, <2>3, Installed
  <2> HIDE DEF m, k
  <2>5. m \in Fds \ Own /\ m # None
    BY <1>1, <2>4, LaunchTable DEF FdInv, LauncherTable, Own, Open, None, Fds
  <2>6. Free(table)' = Free(table')
    BY <1>1 DEF Free, Open
  <2>7. LauncherTable'
    <3>1. \A fd \in Own : table'[fd] = launch.table[fd]
      BY <2>4, <2>5 DEF FdInv, LauncherTable, Own, Open, Fds
    <3>2. \A fd \in Fds \ Own : table'[fd] = Closed \/ table'[fd].cloexec
      BY <2>4 DEF FdInv, LauncherTable
    <3> QED BY <1>1, <1>2, <2>4, <3>1, <3>2 DEF LauncherTable, IsTable
  <2>8. PipesOpen'
    <3> SUFFICES ASSUME NEW p \in PipeEnd
                 PROVE  \E n \in Fds \ Own :
                          table'[n].file = p /\ \A fd \in Fds : table'[fd].file = p => fd = n
      BY <1>2 DEF PipesOpen
    <3>1. PICK n \in Fds \ Own : table[n].file = p /\ \A fd \in Fds : table[fd].file = p => fd = n
      BY <1>1 DEF FdInv, PipesOpen
    <3>2. n # m
      BY <2>4, <3>1 DEF Closed, PipeEnd
    <3>3. table'[m].file # p
      BY <2>3, <2>4
    <3> QED BY <2>4, <3>1, <3>2, <3>3
  <2>9. Duplicates'
    <3>1. extra' \in Seq(Int) /\ Len(extra') = Len(extra) + 1
      BY <1>1, <2>1, <2>4, LaunchTable DEF Fds
    <3>2. ASSUME NEW i \in 1 .. Len(extra)
          PROVE  /\ extra'[i] = extra[i]
                 /\ extra'[i] # None => /\ extra'[i] \in Fds \ Own /\ i + 2 \in Wanted
                                        /\ table'[extra'[i]] = [file    |-> launch.table[i + 2].file,
                                                                cloexec |-> TRUE]
                 /\ extra'[i] = None /\ Free(table') # {} => i + 2 \notin Wanted
      <4>1. extra'[i] = extra[i]
        BY <1>1, <2>1
      <4>2. extra[i] # None => extra[i] # m
        <5>1. extra[i] # None =>
                table[extra[i]] = [file |-> launch.table[i + 2].file, cloexec |-> TRUE]
          BY <1>3
        <5> QED BY <5>1, <2>4 DEF Closed
      <4> QED BY <1>3, <2>4, <4>1, <4>2
    <3>3. /\ extra'[Len(extra) + 1] = m
          /\ Len(extra) + 1 + 2 = k
      BY <1>1, <2>1 DEF k
    <3>4. \A i \in 1 .. Len(extra) + 1 : i \in 1 .. Len(extra) \/ i = Len(extra) + 1
      BY <1>1
    <3>5. \A i \in 1 .. Len(extra') :
            /\ extra'[i] # None => /\ extra'[i] \in Fds \ Own /\ i + 2 \in Wanted
                                   /\ table'[extra'[i]] = [file    |-> launch.table[i + 2].file,
                                                           cloexec |-> TRUE]
            /\ extra'[i] = None /\ Free(table') # {} => i + 2 \notin Wanted
      BY <1>4, <2>4, <2>5, <3>1, <3>2, <3>3, <3>4
    <3> QED BY <1>1, <1>2, <2>6, <3>1, <3>5 DEF Duplicates
  <2> QED BY <1>2, <2>7, <2>8, <2>9 DEF FdInv
<1>5. CASE ~(k \in Wanted /\ Free(table) # {})
  <2>1. extra' = Append(extra, None) /\ table' = table
    BY <1>5 DEF DupNext
  <2>2. LauncherTable' /\ PipesOpen'
    BY <1>1, <1>2, <2>1 DEF FdInv, LauncherTable, IsTable, PipesOpen
  <2>3. Free(table)' = Free(table)
    BY <2>1 DEF Free, Open
  <2>4. /\ extra' \in Seq(Int) /\ Len(extra') = Len(extra) + 1
        /\ \A i \in 1 .. Len(extra) : extra'[i] = extra[i]
        /\ extra'[Len(extra) + 1] = None
        /\ \A i \in 1 .. Len(extra) + 1 : i \in 1 .. Len(extra) \/ i = Len(extra) + 1
        /\ Len(extra) + 1 + 2 = k
    BY <1>1, <2>1 DEF None
  <2> HIDE DEF k
  <2>5. Duplicates'
    BY <1>1, <1>2, <1>3, <1>5, <2>1, <2>3, <2>4 DEF Duplicates
  <2> QED BY <1>2, <2>2, <2>5 DEF FdInv
<1> QED BY <1>4, <1>5

LEMMA DupDoneKeeps == FdInv /\ DupDone => FdInv'
<1> SUFFICES ASSUME FdInv, DupDone PROVE FdInv'
  OBVIOUS
<1>1. /\ pc = "dup" /\ pc' = "start" /\ UNCHANGED <<launch, table, extra, childTable, payload>>
      /\ Len(extra) + 3 > Max(Wanted) /\ extra \in Seq(Int) /\ launch \in Launches
  BY DEF DupDone, fdVars, FdInv, Duplicates
<1>2. PICK n \in Nat : Fds = 0 .. n
  BY <1>1, LaunchTable
<1>3. Max(Wanted) \in Wanted /\ \A fd \in Wanted : fd <= Max(Wanted)
  BY <1>1, <1>2, LaunchTable, Largest
<1>4. \A fd \in Wanted : fd < Len(extra) + 3
  BY <1>1, <1>2, <1>3, LaunchTable
<1> QED BY <1>1, <1>4, SameDescriptors DEF Child

(* Whatever becomes of the child, the launcher is left with its own.        *)
LEMMA Disposed ==
  ASSUME FdInv, pc = "start"
  PROVE  LET u == CloseAll(table, Disposable)
         IN  /\ IsTable(u)
             /\ \A fd \in Own : u[fd] = launch.table[fd]
             /\ \A fd \in Fds \ Own : u[fd] = Closed \/ u[fd].cloexec
<1> USE DEF FdInv
<1> DEFINE u == CloseAll(table, Disposable)
<1>1. IsTable(table) /\ DOMAIN table = Fds /\ \A fd \in Own : fd \in Fds /\ table[fd] = launch.table[fd]
  BY DEF LauncherTable, IsTable, Own, Open, Fds
<1>2. DOMAIN u = Fds /\ \A fd \in Fds : u[fd] = IF fd \in Disposable THEN Closed ELSE table[fd]
  BY <1>1 DEF CloseAll
<1>3. ASSUME NEW fd \in Own PROVE fd \notin Disposable
  <2>1. table[fd].file \notin PipeEnd
    BY <1>1, LaunchTable
  <2>2. \A i \in 1 .. Len(extra) : extra[i] # None => extra[i] # fd
    BY DEF Duplicates
  <2>3. extra \in Seq(Int)
    BY DEF Duplicates
  <2>4. fd \notin ToSet(extra) \ {None}
    BY <2>2, <2>3 DEF ToSet
  <2> QED BY <2>1, <2>4 DEF Disposable
<1>4. IsTable(u)
  <2>1. IsDescriptor(Closed)
    BY DEF IsDescriptor, Closed
  <2> QED BY <1>1, <1>2, <2>1 DEF IsTable
<1>5. \A fd \in Own : u[fd] = launch.table[fd]
  BY <1>1, <1>2, <1>3
<1>6. \A fd \in Fds \ Own : u[fd] = Closed \/ u[fd].cloexec
  BY <1>2 DEF LauncherTable
<1> QED BY <1>4, <1>5, <1>6

LEMMA StartFailsKeeps == FdInv /\ StartFails => FdInv'
<1> SUFFICES ASSUME FdInv, StartFails PROVE FdInv'
  OBVIOUS
<1>1. /\ launch \in Launches /\ launch' = launch /\ pc = "start" /\ pc' \in {"failed", "exec"}
      /\ UNCHANGED <<extra, payload>> /\ table' = CloseAll(table, Disposable)
  BY DEF FdInv, StartFails
<1>2. /\ Fds' = Fds /\ Own' = Own /\ launch' \in Launches /\ DescriptorsKept'
  BY <1>1, SameLaunch DEF FdInv
<1>3. LauncherTable'
  BY <1>1, <1>2, Disposed DEF LauncherTable, IsTable
<1>4. PipesOpen' /\ Duplicates' /\ ChildsTable'
  BY <1>1 DEF FdInv, PipesOpen, Duplicates, ChildsTable, Child
<1> QED BY <1>2, <1>3, <1>4 DEF FdInv

(* The child's end of a pipe is open at one number, which the child gets.   *)
LEMMA PipeEndFound ==
  ASSUME FdInv, pc = "start", NEW p \in PipeEnd
  PROVE  LET n == FdOf(table, p)
         IN  n \in Fds /\ [table[n] EXCEPT !.cloexec = FALSE] = PipeIn(p)
<1> DEFINE n == FdOf(table, p)
<1>1. \E x \in DOMAIN table : table[x].file = p
  BY DEF FdInv, PipesOpen, LauncherTable, IsTable
<1>2. n \in Fds /\ table[n].file = p
  BY <1>1 DEF FdOf, FdInv, LauncherTable, IsTable
<1>3. IsDescriptor(table[n])
  BY <1>2 DEF FdInv, LauncherTable, IsTable
<1> QED BY <1>2, <1>3, FlagsCleared DEF PipeIn

LEMMA Files ==
  ASSUME NEW x \in Seq(Int), NEW r \in Int, NEW w \in Int
  PROVE  LET f == <<0, 1, 2>> \o x \o <<w, r>>
         IN  /\ Len(f) = Len(x) + 5
             /\ \A fd \in 0 .. 2 : f[fd + 1] = fd
             /\ \A i \in 1 .. Len(x) : f[i + 3] = x[i]
             /\ f[Len(x) + 4] = w /\ f[Len(x) + 5] = r
<1> DEFINE g == <<0, 1, 2>> \o x
           f == g \o <<w, r>>
<1>1. /\ g \in Seq(Int) /\ Len(g) = Len(x) + 3
      /\ g[1] = 0 /\ g[2] = 1 /\ g[3] = 2
      /\ \A i \in 1 .. Len(x) : g[i + 3] = x[i]
  OBVIOUS
<1> HIDE DEF g
<1>2. /\ Len(f) = Len(x) + 5
      /\ \A i \in 1 .. Len(x) + 3 : f[i] = g[i]
      /\ f[Len(x) + 4] = w /\ f[Len(x) + 5] = r
  BY <1>1
<1> HIDE DEF f
<1>3. ASSUME NEW i \in 1 .. Len(x) PROVE f[i + 3] = x[i]
  <2>1. i + 3 \in 1 .. Len(x) + 3
    OBVIOUS
  <2> QED BY <1>1, <1>2, <2>1
<1>4. \A fd \in 0 .. 2 : f[fd + 1] = fd
  BY <1>1, <1>2
<1> QED BY <1>2, <1>3, <1>4 DEF f, g

LEMMA StartChildKeeps == FdInv /\ StartChild => FdInv'
<1> SUFFICES ASSUME FdInv, StartChild PROVE FdInv'
  OBVIOUS
<1> USE DEF FdInv
<1> DEFINE w == FdOf(table, "setupW")
           r == FdOf(table, "startupR")
           files == <<0, 1, 2>> \o extra \o <<w, r>>
<1>1. /\ launch \in Launches /\ launch' = launch /\ pc = "start" /\ pc' = "boot"
      /\ UNCHANGED <<extra, payload>> /\ RoomToStart
      /\ table' = CloseAll(table, Disposable) /\ childTable' = ForkExec(table, files)
      /\ extra \in Seq(Int) /\ IsTable(table)
  BY DEF StartChild, Duplicates, LauncherTable
<1>2. /\ Fds' = Fds /\ Own' = Own /\ Wanted' = Wanted /\ launch' \in Launches /\ DescriptorsKept'
      /\ setupFD' = setupFD /\ startupFD' = startupFD
  BY <1>1, SameLaunch DEF setupFD, startupFD
<1>3. LauncherTable'
  BY <1>1, <1>2, Disposed DEF LauncherTable, IsTable
<1>4. PipesOpen' /\ Duplicates'
  BY <1>1 DEF PipesOpen, Duplicates
<1>5. PICK n \in Nat : n > 1 /\ Fds = 0 .. n
  BY <1>1, LaunchTable
<1>6. startupFD \in Fds /\ setupFD \in Fds /\ setupFD = Len(extra) + 3 /\ startupFD = Len(extra) + 4
  BY <1>1, <1>5 DEF RoomToStart, setupFD, startupFD, IsTable
<1>7. Free(table) # {}
  <2>1. Cardinality(Free(table)) \in Nat /\ Cardinality(Free(table)) >= 2
    BY <1>1, FreeNumbers DEF RoomToStart
  <2> QED BY <2>1, FS_EmptySet
<1>8. launch.proc => \A fd \in Wanted : fd < Len(extra) + 3
  BY <1>1, <1>7 DEF Duplicates
<1>9. /\ launch.proc => setupFD \notin Wanted /\ startupFD \notin Wanted
      /\ ~launch.proc => setupFD = 3
  BY <1>1, <1>6, <1>8 DEF Duplicates
<1>10. /\ w \in Fds /\ [table[w] EXCEPT !.cloexec = FALSE] = PipeIn("setupW")
       /\ r \in Fds /\ [table[r] EXCEPT !.cloexec = FALSE] = PipeIn("startupR")
  BY <1>1, PipeEndFound DEF PipeEnd
<1> HIDE DEF w, r
<1>11. /\ Len(files) = Len(extra) + 5
       /\ \A fd \in 0 .. 2 : files[fd + 1] = fd
       /\ \A i \in 1 .. Len(extra) : files[i + 3] = extra[i]
       /\ files[Len(extra) + 4] = w /\ files[Len(extra) + 5] = r
  <2>1. w \in Int /\ r \in Int
    BY <1>5, <1>10
  <2> QED BY <1>1, <2>1, Files
<1> HIDE DEF files
<1>12. DOMAIN childTable' = Fds
  BY <1>1 DEF ForkExec, IsTable
<1>13. \A fd \in Fds : childTable'[fd] = IF fd >= Len(files) THEN AfterExec(table)[fd]
                                         ELSE IF files[fd + 1] = None THEN Closed
                                         ELSE [table[files[fd + 1]] EXCEPT !.cloexec = FALSE]
  BY <1>1 DEF ForkExec, IsTable
<1>14. \A fd \in Fds : Due(fd) = IF launch.table[fd].cloexec THEN Closed ELSE launch.table[fd]
  BY Surviving DEF Due, Fds
<1>15. \A fd \in Own : table[fd] = launch.table[fd] /\ fd \in Fds
  BY DEF LauncherTable, Own, Open, Fds
<1>16. ASSUME NEW fd \in Fds PROVE childTable'[fd] = ChildHas(fd)'
  <2>1. CASE fd \in 0 .. 2
    <3>1. files[fd + 1] = fd /\ fd # None /\ ~(fd >= Len(files))
      BY <1>1, <1>11, <2>1 DEF None
    <3>2. table[fd] = launch.table[fd] /\ ~table[fd].cloexec /\ IsDescriptor(table[fd])
      BY <1>1, <1>15, <2>1, LaunchTable DEF IsTable
    <3>3. childTable'[fd] = launch.table[fd]
      <4>1. [table[fd] EXCEPT !.cloexec = FALSE] = table[fd]
        BY <3>2, FlagsCleared
      <4>2. childTable'[fd] = [table[fd] EXCEPT !.cloexec = FALSE]
        BY <1>13, <3>1
      <4> QED BY <3>2, <4>1, <4>2
    <3>4. ChildHas(fd)' = Due(fd)
      BY <1>1, <1>2, <1>6, <2>1 DEF ChildHas, Due
    <3> QED BY <1>14, <3>2, <3>3, <3>4
  <2>2. CASE fd \in 3 .. Len(extra) + 2
    <3>1. PICK i \in 1 .. Len(extra) : fd = i + 2
      <4>1. fd - 2 \in 1 .. Len(extra) /\ fd = (fd - 2) + 2
        BY <1>1, <2>2
      <4> QED BY <4>1
    <3>5. fd + 1 = i + 3 /\ ~(fd >= Len(files))
      BY <1>1, <1>11, <2>2, <3>1
    <3>6. files[fd + 1] = extra[i]
      BY <1>11, <3>5
    <3>2. ChildHas(fd)' = Due(fd)
      BY <1>1, <1>2, <1>6, <2>2 DEF ChildHas, Due
    <3>3. CASE extra[i] = None
      <4>1. fd \notin Wanted
        BY <1>1, <1>7, <3>1, <3>3 DEF Duplicates
      <4>2. Due(fd) = Closed
        BY <1>14, <4>1 DEF Wanted, Inheritable, Open, Fds
      <4> QED BY <1>13, <3>2, <3>3, <3>5, <3>6, <4>2
    <3>4. CASE extra[i] # None
      <4>1. /\ extra[i] \in Fds /\ fd \in Wanted
            /\ table[extra[i]] = [file |-> launch.table[fd].file, cloexec |-> TRUE]
        BY <1>1, <3>1, <3>4 DEF Duplicates
      <4>2. ~launch.table[fd].cloexec /\ IsDescriptor(launch.table[fd])
        BY <1>1, <4>1, LaunchTable DEF Wanted, Inheritable, IsTable
      <4>3. [table[extra[i]] EXCEPT !.cloexec = FALSE] = [file |-> launch.table[fd].file, cloexec |-> FALSE]
        BY <1>1, <4>1, FlagsCleared DEF IsTable
      <4>4. launch.table[fd] = [file |-> launch.table[fd].file, cloexec |-> FALSE]
        BY <4>2 DEF IsDescriptor
      <4>5. childTable'[fd] = [table[extra[i]] EXCEPT !.cloexec = FALSE]
        BY <1>13, <3>4, <3>5, <3>6
      <4>6. Due(fd) = launch.table[fd]
        BY <1>14, <4>2
      <4> QED BY <3>2, <4>3, <4>4, <4>5, <4>6
    <3> QED BY <3>3, <3>4
  <2>3. CASE fd = setupFD
    <3>1. files[fd + 1] = w /\ ~(fd >= Len(files)) /\ w # None
      BY <1>1, <1>5, <1>6, <1>10, <1>11, <2>3 DEF None
    <3>2. childTable'[fd] = [table[w] EXCEPT !.cloexec = FALSE]
      BY <1>13, <3>1
    <3>3. fd # startupFD
      BY <1>1, <1>6, <2>3
    <3>4. ChildHas(fd)' = PipeIn("setupW")
      BY <1>1, <1>2, <2>3, <3>3 DEF ChildHas, PipeIn
    <3> QED BY <1>10, <3>2, <3>4
  <2>4. CASE fd = startupFD
    <3>1. files[fd + 1] = r /\ ~(fd >= Len(files)) /\ r # None
      BY <1>1, <1>5, <1>6, <1>10, <1>11, <2>4 DEF None
    <3>2. fd # setupFD
      BY <1>1, <1>6, <2>4
    <3>3. childTable'[fd] = [table[r] EXCEPT !.cloexec = FALSE]
      BY <1>13, <3>1
    <3>4. ChildHas(fd)' = PipeIn("startupR")
      BY <1>1, <1>2, <2>4, <3>2 DEF ChildHas, PipeIn
    <3> QED BY <1>10, <3>3, <3>4
  <2>5. CASE fd >= Len(extra) + 5
    <3>1. childTable'[fd] = IF table[fd].cloexec THEN Closed ELSE table[fd]
      BY <1>1, <1>11, <1>13, <2>5, Surviving DEF IsTable
    <3>2. ChildHas(fd)' = Due(fd)
      BY <1>1, <1>2, <1>5, <1>6, <2>5 DEF ChildHas, Due
    <3>3. CASE fd \in Own
      BY <1>14, <1>15, <3>1, <3>2, <3>3
    <3>4. CASE fd \notin Own
      <4>1. launch.table[fd] = Closed
        BY <3>4 DEF Own, Open, Fds
      <4>2. table[fd] = Closed \/ table[fd].cloexec
        BY <3>4 DEF LauncherTable
      <4> QED BY <1>14, <3>1, <3>2, <4>1, <4>2
    <3> QED BY <3>3, <3>4
  <2> QED BY <1>1, <1>5, <1>6, <2>1, <2>2, <2>3, <2>4, <2>5
<1>17. ChildsTable'
  BY <1>2, <1>1, <1>6, <1>9, <1>12, <1>16 DEF ChildsTable
<1> QED BY <1>2, <1>3, <1>4, <1>17

(* Closing a pipe end, the child has the rest as it had it.                 *)
LEMMA ReadStartupKeeps == FdInv /\ ReadStartup => FdInv'
<1> SUFFICES ASSUME FdInv, ReadStartup PROVE FdInv'
  OBVIOUS
<1> USE DEF FdInv
<1>1. /\ launch' = launch /\ pc = "readStartup" /\ pc' = "report"
      /\ UNCHANGED <<table, extra, payload>> /\ childTable' = CloseAll(childTable, {startupFD})
      /\ extra \in Seq(Int) /\ ChildsTable
  BY DEF ReadStartup, Duplicates
<1>2. /\ Fds' = Fds /\ Own' = Own /\ Wanted' = Wanted /\ launch' \in Launches /\ DescriptorsKept'
      /\ setupFD' = setupFD /\ startupFD' = startupFD /\ setupFD # startupFD
  BY <1>1, SameLaunch DEF setupFD, startupFD
<1>3. LauncherTable' /\ PipesOpen' /\ Duplicates'
  BY <1>1, <1>2 DEF LauncherTable, IsTable, PipesOpen, Duplicates
<1>4. ChildsTable'
  <2>1. /\ DOMAIN childTable' = Fds
        /\ \A fd \in Fds : childTable'[fd] = IF fd = startupFD THEN Closed ELSE childTable[fd]
    BY <1>1 DEF ChildsTable, Child, CloseAll
  <2>2. \A fd \in Fds : ChildHas(fd)' = IF fd = startupFD THEN Closed ELSE ChildHas(fd)
    BY <1>1, <1>2 DEF ChildHas, Due
  <2> QED BY <1>1, <1>2, <2>1, <2>2 DEF ChildsTable, Child
<1> QED BY <1>2, <1>3, <1>4

LEMMA ReportKeeps == FdInv /\ Report => FdInv'
<1> SUFFICES ASSUME FdInv, Report PROVE FdInv'
  OBVIOUS
<1> USE DEF FdInv
<1>1. /\ launch' = launch /\ pc = "report" /\ pc' = "fork"
      /\ UNCHANGED <<table, extra, payload>> /\ childTable' = CloseAll(childTable, {setupFD})
      /\ extra \in Seq(Int) /\ ChildsTable
  BY DEF Report, Duplicates
<1>2. /\ Fds' = Fds /\ Own' = Own /\ Wanted' = Wanted /\ launch' \in Launches /\ DescriptorsKept'
      /\ setupFD' = setupFD /\ startupFD' = startupFD /\ setupFD # startupFD
  BY <1>1, SameLaunch DEF setupFD, startupFD
<1>3. LauncherTable' /\ PipesOpen' /\ Duplicates'
  BY <1>1, <1>2 DEF LauncherTable, IsTable, PipesOpen, Duplicates
<1>4. ChildsTable'
  <2>1. /\ DOMAIN childTable' = Fds
        /\ \A fd \in Fds : childTable'[fd] = IF fd = setupFD THEN Closed ELSE childTable[fd]
    BY <1>1 DEF ChildsTable, Child, CloseAll
  <2>2. \A fd \in Fds : ChildHas(fd)' = IF fd = setupFD THEN Closed ELSE ChildHas(fd)
    BY <1>1, <1>2 DEF ChildHas, Due
  <2> QED BY <1>1, <1>2, <2>1, <2>2 DEF ChildsTable, Child
<1> QED BY <1>2, <1>3, <1>4

(* With neither pipe the child has what is due, 3 and 4 aside if it could   *)
(* not see what to keep.                                                    *)
Given(fd) == IF ~launch.proc /\ fd \in {3, 4} THEN Closed ELSE Due(fd)

LEMMA ChildsOwn ==
  ASSUME FdInv, pc = "fork"
  PROVE  /\ DOMAIN childTable = Fds
         /\ \A fd \in Fds : childTable[fd] = Given(fd) /\ ~Given(fd).cloexec /\ IsDescriptor(Given(fd))
<1> USE DEF FdInv
<1>1. /\ DOMAIN childTable = Fds /\ setupFD \in Fds /\ startupFD \in Fds
      /\ launch.proc => setupFD \notin Wanted /\ startupFD \notin Wanted
      /\ ~launch.proc => setupFD = 3 /\ startupFD = 4
      /\ \A fd \in Fds : childTable[fd] = IF fd \in {setupFD, startupFD} THEN Closed ELSE Due(fd)
  BY DEF ChildsTable, Child, ChildHas, startupFD
<1>2. \A fd \in Fds : Due(fd) = IF launch.table[fd].cloexec THEN Closed ELSE launch.table[fd]
  BY Surviving DEF Due, Fds
<1>3. \A fd \in Fds \ Wanted : Due(fd) = Closed
  BY <1>2 DEF Wanted, Inheritable, Open, Fds
<1>4. ASSUME NEW fd \in Fds PROVE childTable[fd] = Given(fd)
  BY <1>1, <1>3 DEF Given
<1>5. ASSUME NEW fd \in Fds PROVE ~Given(fd).cloexec /\ IsDescriptor(Given(fd))
  <2>1. ~Closed.cloexec /\ IsDescriptor(Closed)
    BY DEF Closed, IsDescriptor
  <2>2. IsDescriptor(launch.table[fd])
    BY LaunchTable DEF IsTable
  <2> QED BY <1>2, <2>1, <2>2 DEF Given
<1> QED BY <1>1, <1>4, <1>5

(* Whether or not the child can read /proc, the command gets all it has.    *)
LEMMA Inherited ==
  ASSUME FdInv, pc = "fork", NEW files \in inheritFDs(childTable)
  PROVE  \A fd \in Fds : ForkExec(childTable, files)[fd] = Given(fd)
<1> DEFINE kept == Inheritable(childTable)
<1>1. /\ DOMAIN childTable = Fds
      /\ \A fd \in Fds : childTable[fd] = Given(fd) /\ ~Given(fd).cloexec /\ IsDescriptor(Given(fd))
  BY ChildsOwn
<1>2. PICK n \in Nat : n > 1 /\ Fds = 0 .. n
  BY LaunchTable DEF FdInv
<1>3. kept = { fd \in Fds : Given(fd) # Closed }
  BY <1>1 DEF Inheritable, Open
<1>4. 0 \in kept /\ kept \in SUBSET (0 .. n)
  <2>1. 0 \in Own /\ ~launch.table[0].cloexec /\ 0 \in Fds
    BY <1>2, LaunchTable DEF FdInv
  <2>2. Due(0) # Closed
    BY <2>1, Surviving DEF Due, Own, Open, Fds
  <2> QED BY <1>2, <1>3, <2>1, <2>2 DEF Given
<1> HIDE DEF kept
<1>5. Max(kept) \in Nat
  <2>1. Max(kept) \in kept
    BY <1>2, <1>4, Largest
  <2>2. \A x \in kept : x \in Nat
    BY <1>2, <1>4
  <2> QED BY <2>1, <2>2
<1>6. ASSUME NEW fd \in Fds PROVE [Given(fd) EXCEPT !.cloexec = FALSE] = Given(fd)
  BY <1>1, FlagsCleared
<1>7. ASSUME NEW fd \in Fds PROVE AfterExec(childTable)[fd] = Given(fd)
  BY <1>1, Surviving
<1>8. ASSUME NEW fd \in Fds, fd < Len(files), files[fd + 1] = fd
      PROVE  ForkExec(childTable, files)[fd] = Given(fd)
  <2>1. fd # None /\ ~(fd >= Len(files))
    BY <1>2, <1>8, <1>5 DEF None, inheritFDs, kept
  <2> QED BY <1>1, <1>6, <1>8, <2>1 DEF ForkExec
<1>9. ASSUME NEW fd \in Fds, fd >= Len(files)
      PROVE  ForkExec(childTable, files)[fd] = Given(fd)
  BY <1>1, <1>7, <1>9 DEF ForkExec
<1>10. CASE files = <<0, 1, 2>>
  <2>1. Len(files) = 3 /\ \A fd \in 0 .. 2 : files[fd + 1] = fd
    BY <1>10
  <2>2. \A fd \in Fds : fd \in 0 .. 2 \/ fd >= 3
    BY <1>2
  <2> QED BY <1>2, <1>8, <1>9, <2>1, <2>2
<1>11. CASE files = [i \in 1 .. Max(kept) + 1 |-> IF i - 1 \in kept THEN i - 1 ELSE None]
  <2>1. Len(files) = Max(kept) + 1
    BY <1>5, <1>11
  <2>2. ASSUME NEW fd \in Fds, fd <= Max(kept)
        PROVE  files[fd + 1] = IF fd \in kept THEN fd ELSE None
    <3>1. fd + 1 \in 1 .. Max(kept) + 1 /\ (fd + 1) - 1 = fd
      BY <1>2, <1>5, <2>2
    <3> QED BY <1>11, <3>1
  <2>3. ASSUME NEW fd \in Fds, fd <= Max(kept), fd \notin kept
        PROVE  ForkExec(childTable, files)[fd] = Given(fd)
    <3>1. ~(fd >= Len(files))
      BY <1>2, <1>5, <2>1, <2>3
    <3>2. files[fd + 1] = None
      BY <2>2, <2>3
    <3>3. ForkExec(childTable, files)[fd] = Closed
      BY <1>1, <3>1, <3>2 DEF ForkExec
    <3> QED BY <1>3, <2>3, <3>3
  <2>4. \A fd \in Fds : (fd <= Max(kept) /\ fd < Len(files)) \/ fd >= Len(files)
    BY <1>2, <1>5, <2>1
  <2> QED BY <1>8, <1>9, <2>2, <2>3, <2>4
<1> QED BY <1>10, <1>11 DEF inheritFDs, kept

LEMMA ForkCommandKeeps == FdInv /\ ForkCommand => FdInv'
<1> SUFFICES ASSUME FdInv, ForkCommand PROVE FdInv'
  OBVIOUS
<1> USE DEF FdInv
<1>1. PICK files \in inheritFDs(childTable) :
        payload' = {[env |-> childEnv, table |-> ForkExec(childTable, files), from |-> "child"]}
  BY DEF ForkCommand, Start
<1>2. launch' = launch /\ pc = "fork" /\ pc' = "running" /\ UNCHANGED <<table, extra, childTable>>
  BY DEF ForkCommand, fdVars
<1>3. Fds' = Fds /\ Own' = Own /\ Wanted' = Wanted /\ launch' \in Launches
  BY <1>2, SameLaunch
<1>4. LauncherTable' /\ PipesOpen' /\ Duplicates' /\ ChildsTable'
  BY <1>2, <1>3 DEF LauncherTable, IsTable, PipesOpen, Duplicates, ChildsTable, Child
<1>5. DescriptorsKept'
  <2> DEFINE t == ForkExec(childTable, files)
  <2>1. \A fd \in Fds : t[fd] = Given(fd)
    BY <1>1, <1>2, Inherited
  <2> HIDE DEF t
  <2>2. \A p \in payload' : p.table = t /\ p.from = "child"
    BY <1>1 DEF t
  <2> QED BY <1>2, <2>1, <2>2 DEF DescriptorsKept, Given, Due, Fds
<1> QED BY <1>3, <1>4, <1>5

LEMMA ExecCommandKeeps == FdInv /\ ExecCommand => FdInv'
<1> SUFFICES ASSUME FdInv, ExecCommand PROVE FdInv'
  OBVIOUS
<1> USE DEF FdInv
<1>1. /\ launch' = launch /\ pc' = "running" /\ UNCHANGED <<table, extra, childTable>>
      /\ \A p \in payload' : p.table = AfterExec(table) /\ p.from = "launcher"
  BY DEF ExecCommand, Start, fdVars
<1>2. Fds' = Fds /\ Own' = Own /\ Wanted' = Wanted /\ launch' \in Launches
  BY <1>1, SameLaunch
<1>3. LauncherTable' /\ PipesOpen' /\ Duplicates' /\ ChildsTable'
  BY <1>1, <1>2 DEF LauncherTable, IsTable, PipesOpen, Duplicates, ChildsTable, Child
<1>4. ASSUME NEW fd \in Fds PROVE AfterExec(table)[fd] = Due(fd)
  <2>1. /\ AfterExec(table)[fd] = IF table[fd].cloexec THEN Closed ELSE table[fd]
        /\ Due(fd) = IF launch.table[fd].cloexec THEN Closed ELSE launch.table[fd]
    BY Surviving DEF LauncherTable, IsTable, Due, Fds
  <2>2. CASE fd \in Own
    BY <2>1, <2>2 DEF LauncherTable
  <2>3. CASE fd \notin Own
    <3>1. launch.table[fd] = Closed
      BY <2>3 DEF Own, Open, Fds
    <3>2. table[fd] = Closed \/ table[fd].cloexec
      BY <2>3 DEF LauncherTable
    <3> QED BY <2>1, <3>1, <3>2
  <2> QED BY <2>2, <2>3
<1>5. DescriptorsKept'
  BY <1>1, <1>4 DEF DescriptorsKept, Due, Fds
<1> QED BY <1>2, <1>3, <1>4, <1>5

LEMMA FdStep == FdInv /\ [Next]_vars => FdInv'
<1> SUFFICES ASSUME FdInv, [Next]_vars PROVE FdInv'
  OBVIOUS
<1> USE DEF fdVars, envVars, Child
<1>1. CASE UNCHANGED vars
  BY <1>1, SameDescriptors DEF vars
<1>2. CASE ApplyEntry
  BY <1>2, SameDescriptors DEF ApplyEntry
<1>3. CASE Applied
  BY <1>3, SameDescriptors DEF Applied
<1>4. CASE ChildFails
  BY <1>4, SameDescriptors DEF ChildFails
<1>5. CASE Boot
  BY <1>5, SameDescriptors DEF Boot
<1> QED BY <1>1, <1>2, <1>3, <1>4, <1>5, OpenPipesKeeps, DupNextKeeps, DupDoneKeeps,
           StartChildKeeps, StartFailsKeeps, ReadStartupKeeps, ReportKeeps,
           ForkCommandKeeps, ExecCommandKeeps DEF Next

LEMMA FdAlways == Spec => []FdInv
BY FdInit, FdStep, PTL DEF Spec

-----------------------------------------------------------------------------
(* The command has the launcher's descriptors, each at its own number, and  *)
(* no other; only a child that could not read /proc loses 3 and 4.          *)
THEOREM CommandKeepsDescriptors == Spec => []DescriptorsKept
<1>1. FdInv => DescriptorsKept
  BY DEF FdInv
<1> QED BY <1>1, FdAlways, PTL

(* The child holds the two pipe ends it is told of, at their numbers, until *)
(* it closes them, and no other.                                            *)
THEOREM ChildFindsPipes == Spec => []PipesFound
<1>1. FdInv => PipesFound
  <2> SUFFICES ASSUME FdInv, pc \in Child PROVE PipesFound
    BY DEF PipesFound, Child
  <2> USE DEF FdInv, Child
  <2>1. /\ DOMAIN childTable = Fds /\ setupFD \in Fds /\ startupFD \in Fds
        /\ \A fd \in Fds : childTable[fd] = ChildHas(fd)
    BY DEF ChildsTable
  <2>2. setupFD # startupFD
    BY DEF Duplicates, setupFD, startupFD
  <2>3. ASSUME NEW fd \in Fds PROVE Due(fd).file \notin PipeEnd
    BY Surviving, LaunchTable DEF Due, Fds, Closed, PipeEnd
  <2>4. ASSUME NEW fd \in Fds
        PROVE  childTable[fd].file =
                 IF fd = setupFD THEN IF pc = "fork" THEN "closed" ELSE "setupW"
                 ELSE IF fd = startupFD
                      THEN IF pc \in {"boot", "readStartup"} THEN "startupR" ELSE "closed"
                 ELSE Due(fd).file
    BY <2>1, <2>2 DEF ChildHas, PipeIn, Closed
  <2>5. { d \in DOMAIN childTable : childTable[d].file \in PipeEnd } =
          (IF pc = "fork" THEN {} ELSE {setupFD})
            \cup (IF pc \in {"boot", "readStartup"} THEN {startupFD} ELSE {})
    BY <2>1, <2>2, <2>3, <2>4 DEF PipeEnd
  <2> QED BY <2>1, <2>2, <2>4, <2>5 DEF PipesFound
<1> QED BY <1>1, FdAlways, PTL
=============================================================================
