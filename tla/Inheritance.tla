---------------------------- MODULE Inheritance ----------------------------
(* What the command inherits: its environment, with the policy's entries    *)
(* applied once, and the launcher's descriptors, at their numbers, whether  *)
(* the launcher execs the command itself or a child with a pipe on either   *)
(* side hands everything on.  When the child runs, fails or dies is the     *)
(* business of Launch; here it may fail at any step.                        *)
(*                                                                          *)
(* A value is a sequence of characters, an optional one a set of at most    *)
(* one; a separator is one character.  No variable name has a "=" in it, so *)
(* that an environment and its KEY=VALUE strings are the same thing.        *)
EXTENDS Integers, SequencesExt

CONSTANTS
  Char,        \* characters of values
  Name,        \* names of environment variables
  Plumbing,    \* _LANDCAGE_CHILD, _LANDCAGE_SETUP_FD, _LANDCAGE_STARTUP_FD
  Public,      \* LANDCAGE_POLICY_JSON
  Dyld,        \* dyldVars
  Launches     \* what a launch starts from: [env, entries, table, proc, forks, darwin]

ASSUME InheritanceAssumption ==
  /\ Plumbing \subseteq Name /\ Dyld \subseteq Name /\ Public \in Name \ Plumbing
  /\ \A l \in Launches :
       /\ DOMAIN l.env = Name
       /\ \A n \in Name : \A v \in l.env[n] : v \in Seq(Char) /\ l.env[n] = {v}
       /\ DOMAIN l.entries \subseteq Name
       /\ \A n \in DOMAIN l.entries :
            LET e == l.entries[n]
            IN  e.prepend \in Seq(Seq(Char)) /\ e.append \in Seq(Seq(Char)) /\ e.sep \in Char
       /\ l.darwin => ~l.forks

VARIABLES
  launch,     \* the launcher's environment, the policy's entries, the descriptors,
              \*   whether /proc can be read, a child is wanted, this is Darwin
  pc,         \* the launcher's next step, or the child's once it has one
  env,        \* the environment that payloadEnv computes
  todo,       \* the names whose entries it has not applied yet
  table,      \* the launcher's descriptors
  extra,      \* child.ExtraFiles: descriptors, or None
  childEnv,   \* the child's environment
  childTable, \* the child's descriptors
  payload     \* what the command inherited: [env, table, from], if it runs

vars == <<launch, pc, env, todo, table, extra, childEnv, childTable, payload>>
envVars == <<env, todo, childEnv>>
fdVars  == <<table, extra, childTable>>

-----------------------------------------------------------------------------
(* The environment.                                                         *)

Split(s, sep) ==
  LET parts[k \in 0 .. Len(s)] ==
        IF k = 0 THEN << <<>> >>
        ELSE IF s[k] = sep THEN Append(parts[k - 1], <<>>)
        ELSE Append(Front(parts[k - 1]), Append(Last(parts[k - 1]), s[k]))
  IN  parts[Len(s)]
Join(parts, sep) ==
  LET joined[k \in 0 .. Len(parts)] ==
        IF k = 0 THEN <<>> ELSE IF k = 1 THEN parts[1] ELSE joined[k - 1] \o <<sep>> \o parts[k]
  IN  joined[Len(parts)]

Without(parts, removed) ==
  LET left[k \in 0 .. Len(parts)] ==
        IF k = 0 THEN <<>>
        ELSE IF parts[k] \in removed THEN left[k - 1] ELSE Append(left[k - 1], parts[k])
  IN  left[Len(parts)]
Kept(value, e) ==
  IF value \in {{}, {<<>>}} THEN <<>>
  ELSE Without(Split(CHOOSE v \in value : TRUE, e.sep), ToSet(e.remove))

(* From the last of e.prepend to the first.                                 *)
PrependedBug(e, parts) ==
  LET ps[k \in 0 .. Len(e.prepend)] == IF k = 0 THEN parts ELSE <<e.prepend[k]>> \o ps[k - 1]
  IN  ps[Len(e.prepend)]
Prepended(e, parts) ==
  LET ps[k \in 0 .. Len(e.prepend)] ==
        IF k = 0 THEN parts ELSE <<e.prepend[Len(e.prepend) + 1 - k]>> \o ps[k - 1]
  IN  ps[Len(e.prepend)]

(* The variable's value before is all that an entry sees of the environment. *)
resolveEnvEntry(e, value) ==
  IF e.unset THEN {}
  ELSE IF e.value # {} THEN e.value
  ELSE {Join(Prepended(e, Kept(value, e)) \o e.append, e.sep)}

(* payloadEnv takes the public policy variable away before the entries.     *)
baseEnv(l) == [l.env EXCEPT ![Public] = {}]

scrubDYLD(e) ==
  [n \in Name |-> IF n \in Dyld \ DOMAIN launch.entries THEN {} ELSE e[n]]

(* The child's: of two settings of a variable exec.Cmd takes the last.      *)
Plumbed(e) == [n \in Name |-> IF n \in Plumbing THEN {<<"plumbing">>} ELSE e[n]]

-----------------------------------------------------------------------------
(* Descriptors: a table is a function on 0 .. limit - 1.                    *)

None    == -1
Closed  == [file |-> "closed", cloexec |-> FALSE]
PipeEnd == {"setupR", "setupW", "startupR", "startupW"}

(* 0 to 2 are always open (the Go runtime sees to that), nothing is open to *)
(* a pipe yet, and a closed descriptor has no flags.                        *)
ASSUME TableAssumption ==
  \A l \in Launches :
    /\ Cardinality(DOMAIN l.table) \in Nat
    /\ DOMAIN l.table = 0 .. Cardinality(DOMAIN l.table) - 1
    /\ \A fd \in 0 .. 2 : fd \in DOMAIN l.table /\ l.table[fd] # Closed /\ ~l.table[fd].cloexec
    /\ \A fd \in DOMAIN l.table :
         LET d == l.table[fd]
         IN  /\ d = [file |-> d.file, cloexec |-> d.cloexec] /\ d.cloexec \in BOOLEAN
             /\ d.file \notin PipeEnd
             /\ d.file = "closed" => d = Closed

Open(t)  == { fd \in DOMAIN t : t[fd] # Closed }
Free(t)  == DOMAIN t \ Open(t)
Inheritable(t) == { fd \in Open(t) : ~t[fd].cloexec }
FdOf(t, file)  == CHOOSE fd \in DOMAIN t : t[fd].file = file

(* A new descriptor takes the lowest free number.                           *)
Install(t, entry) == [t EXCEPT ![Min(Free(t))] = entry]
InstallPipe(t, r, w) ==
  Install(Install(t, [file |-> r, cloexec |-> TRUE]), [file |-> w, cloexec |-> TRUE])
CloseAll(t, fds)  == [fd \in DOMAIN t |-> IF fd \in fds THEN Closed ELSE t[fd]]

AfterExec(t) == [fd \in DOMAIN t |-> IF t[fd].cloexec THEN Closed ELSE t[fd]]

(* syscall.ForkExec puts files[i] at i and leaves what lies above them.     *)
ForkExec(t, files) ==
  [fd \in DOMAIN t |->
     IF fd >= Len(files) THEN AfterExec(t)[fd]
     ELSE IF files[fd + 1] = None THEN Closed
     ELSE [t[files[fd + 1]] EXCEPT !.cloexec = FALSE]]

(* A directory is opened to be read.                                        *)
ProcReadable(t) == launch.proc /\ Free(t) # {}

(* The child's: the policy may have made /proc unreadable by then.          *)
inheritFDs(t) ==
  { <<0, 1, 2>>,
    [i \in 1 .. Max(Inheritable(t)) + 1 |-> IF i - 1 \in Inheritable(t) THEN i - 1 ELSE None] }

DupFlagBug == FALSE
DupFlag    == TRUE

(* The numbers that the child is told.                                      *)
setupFDBug == Cardinality({ i \in DOMAIN extra : extra[i] # None }) + 3
setupFD    == Len(extra) + 3
startupFD  == setupFD + 1

-----------------------------------------------------------------------------
Init ==
  /\ launch \in Launches
  /\ pc = "apply"
  /\ env = baseEnv(launch)
  /\ todo = DOMAIN launch.entries
  /\ table = launch.table /\ extra = <<>>
  /\ childEnv = [n \in Name |-> {}]
  /\ childTable = CloseAll(launch.table, DOMAIN launch.table)
  /\ payload = {}

Start(e, t, from) == payload' = {[env |-> e, table |-> t, from |-> from]}

(* ApplyEnv, in the map's order.                                            *)
ApplyEntry ==
  /\ pc = "apply"
  /\ \E name \in todo :
       /\ env' = [env EXCEPT ![name] = resolveEnvEntry(launch.entries[name], env[name])]
       /\ todo' = todo \ {name}
  /\ UNCHANGED <<launch, pc, childEnv, fdVars, payload>>

Applied ==
  /\ pc = "apply" /\ todo = {}
  /\ pc' = IF launch.forks THEN "pipes" ELSE "exec"
  /\ UNCHANGED <<launch, envVars, fdVars, payload>>

(* forkChild: two pipes, and the directory of descriptors.                  *)
OpenPipes ==
  /\ pc = "pipes"
  /\ IF Cardinality(Free(table)) < Cardinality(PipeEnd)
     THEN pc' = "failed" /\ UNCHANGED table
     ELSE /\ table' = InstallPipe(InstallPipe(table, "setupR", "setupW"), "startupR", "startupW")
          /\ pc' = IF ProcReadable(table') THEN "dup" ELSE "start"
  /\ UNCHANGED <<launch, envVars, extra, childTable, payload>>

(* extraFilesForInherit: the next descriptor above 2 and up to the highest  *)
(* that is to be inherited.                                                 *)
Wanted == Inheritable(launch.table)

DupNext ==
  /\ pc = "dup" /\ Len(extra) + 3 <= Max(Wanted)
  /\ LET fd == Len(extra) + 3
     IN  IF fd \in Wanted /\ Free(table) # {}
         THEN /\ extra' = Append(extra, Min(Free(table)))
              /\ table' = Install(table, [file |-> table[fd].file, cloexec |-> DupFlag])
         ELSE extra' = Append(extra, None) /\ UNCHANGED table
  /\ UNCHANGED <<launch, pc, envVars, childTable, payload>>

DupDone ==
  /\ pc = "dup" /\ Len(extra) + 3 > Max(Wanted)
  /\ pc' = "start"
  /\ UNCHANGED <<launch, envVars, fdVars, payload>>

(* What the launcher closes in the end, whichever way it goes on.           *)
Disposable == { fd \in DOMAIN table : table[fd].file \in PipeEnd } \cup (ToSet(extra) \ {None})

(* syscall.ForkExec reports through a pipe of its own, and puts the last of *)
(* the files at startupFD.                                                  *)
RoomToStart    == startupFD \in DOMAIN table /\ Cardinality(Free(table)) >= 2

(* The clone and exec of the child; the launcher closes its copies.         *)
StartChild ==
  /\ pc = "start" /\ RoomToStart
  /\ childTable' = ForkExec(table, <<0, 1, 2>> \o extra
                                     \o <<FdOf(table, "setupW"), FdOf(table, "startupR")>>)
  /\ childEnv' = Plumbed(env)
  /\ table' = CloseAll(table, Disposable)
  /\ pc' = "boot"
  /\ UNCHANGED <<launch, env, todo, extra, payload>>

(* Only some errors are about namespaces.                                   *)
StartFails ==
  /\ pc = "start"
  /\ pc' \in {"failed"} \cup (IF RoomToStart THEN {"exec"} ELSE {})
  /\ table' = CloseAll(table, Disposable)
  /\ UNCHANGED <<launch, envVars, extra, childTable, payload>>

(* Before it reports ready, the child may fail at any step: the launcher    *)
(* goes on without it, or not.                                              *)
ChildFails ==
  /\ pc \in {"boot", "readStartup", "report"}
  /\ pc' \in {"exec", "failed"}
  /\ UNCHANGED <<launch, envVars, fdVars, payload>>

UnsetenvBug(e) == e
Unsetenv(e)    == [n \in Name |-> IF n \in Plumbing THEN {} ELSE e[n]]

Boot ==
  /\ pc = "boot"
  /\ childEnv' = Unsetenv(childEnv)
  /\ pc' = "readStartup"
  /\ UNCHANGED <<launch, env, todo, fdVars, payload>>

ReadStartup ==
  /\ pc = "readStartup"
  /\ childTable' = CloseAll(childTable, {startupFD})
  /\ pc' = "report"
  /\ UNCHANGED <<launch, envVars, table, extra, payload>>

Report ==
  /\ pc = "report"
  /\ childTable' = CloseAll(childTable, {setupFD})
  /\ pc' = "fork"
  /\ UNCHANGED <<launch, envVars, table, extra, payload>>

(* reaperExec.                                                              *)
ForkCommand ==
  /\ pc = "fork"
  /\ pc' = "running"
  /\ \E files \in inheritFDs(childTable) :
       Start(childEnv, ForkExec(childTable, files), "child")
  /\ UNCHANGED <<launch, envVars, fdVars>>

(* runSandboxed without a child.                                            *)
ExecCommand ==
  /\ pc = "exec"
  /\ pc' = "running"
  /\ Start(IF launch.darwin THEN scrubDYLD(env) ELSE env, AfterExec(table), "launcher")
  /\ UNCHANGED <<launch, envVars, fdVars>>

Next ==
  \/ ApplyEntry \/ Applied \/ OpenPipes \/ DupNext \/ DupDone \/ StartChild \/ StartFails
  \/ ChildFails \/ Boot \/ ReadStartup \/ Report \/ ForkCommand \/ ExecCommand

Spec == Init /\ [][Next]_vars

-----------------------------------------------------------------------------
(* Properties.                                                              *)

(* The environment the policy asks for, variable by variable.               *)
Asked(n) ==
  IF n \in DOMAIN launch.entries THEN resolveEnvEntry(launch.entries[n], baseEnv(launch)[n])
  ELSE IF launch.darwin /\ n \in Dyld THEN {}
  ELSE baseEnv(launch)[n]

(* ApplyEnv, forkChild, childMain: whichever way the command starts and in  *)
(* whichever order the entries were applied, its environment has each of    *)
(* them applied once; a command that a child started sees no plumbing; and  *)
(* the policy's text is in no environment, the child's included, unless an  *)
(* entry puts it there.                                                     *)
EnvironmentOnce ==
  /\ \A p \in payload : \A n \in Name :
       p.env[n] = IF p.from = "child" /\ n \in Plumbing THEN {} ELSE Asked(n)
  /\ Public \notin DOMAIN launch.entries => childEnv[Public] = {}

(* resolveEnvEntry: unless an entry adds an element with the separator in   *)
(* it, the elements of an edited path are the prepended ones as written,    *)
(* those it had without the removed ones, and the appended ones.            *)
PathEdits ==
  \A p \in payload : \A n \in DOMAIN launch.entries \ Plumbing :
    LET e     == launch.entries[n]
        old   == baseEnv(launch)[n]
        had   == IF old \in {{}, {<<>>}} THEN <<>> ELSE Split(CHOOSE v \in old : TRUE, e.sep)
        whole == e.prepend \o Without(had, ToSet(e.remove)) \o e.append
    IN  /\ ~e.unset /\ e.value = {} /\ whole # <<>>
        /\ \A part \in ToSet(e.prepend) \cup ToSet(e.append) : e.sep \notin ToSet(part)
        => Split(CHOOSE v \in p.env[n] : TRUE, e.sep) = whole

(* extraFilesForInherit, inheritFDs: the command has the descriptors it     *)
(* would have had without landcage, and nothing else: no pipe end, no copy, *)
(* none at another's number.  A full table loses none: 3 and 4 are lost on  *)
(* the way through a child if /proc cannot be read, and no others are.      *)
DescriptorsKept ==
  \A p \in payload : \A fd \in DOMAIN launch.table :
    LET due == AfterExec(launch.table)[fd]
    IN  p.table[fd] = IF p.from = "child" /\ ~launch.proc /\ fd \in {3, 4} THEN Closed ELSE due

(* forkChild, childFD: the child finds its two pipe ends at the numbers it  *)
(* is told, and holds no other: a copy would keep the launcher waiting.     *)
PipesFound ==
  pc \in {"boot", "readStartup", "report", "fork"} =>
    { <<fd, childTable[fd].file>> : fd \in { d \in DOMAIN childTable : childTable[d].file \in PipeEnd } }
      = (IF pc = "fork" THEN {} ELSE {<<setupFD, "setupW">>})
          \cup (IF pc \in {"boot", "readStartup"} THEN {<<startupFD, "startupR">>} ELSE {})
=============================================================================
