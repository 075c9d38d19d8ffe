# landcage in TLA+

landcage runs a command in a sandbox: Landlock and namespaces on Linux, Seatbelt
on macOS. These modules specify the parts of it that are hard to test, check
them with TLC on small instances and prove the central results with TLAPS for
all instances.

Run from this directory: `tlc -config MCLaunchFaults.cfg MCLaunch` (and the
other `.cfg` files, each with the module of its name's prefix) and
`tlapm` on each of `LaunchProofs.tla`, `LaunchRefinement.tla`, `EnforcementProofs.tla`,
`PolicySourceProofs.tla`, `InheritanceProofs.tla`, `SeatbeltProofs.tla`, `RelayProofs.tla` and
`Induction.tla`.

## The system and its parts

| Part | Source | State it keeps | Operations | Status |
|---|---|---|---|---|
| Launch and handshake | `main.go`, `unshare.go`, `unshare_linux.go`, `sandbox_linux.go`, `network*.go` | two processes, two pipes, namespaces, capabilities, the Landlock domain | `main`, `setupNamespaces`, `forkChild`, `childMain`, `runSandboxed`, `reaperExec` | `Launch`, `Sandbox` |
| Signal relay and reaping | `unshare_linux.go` | two signal channels, pending signals, zombies | `signal.Notify`/`Stop`, the forwarding goroutine, the reaper loop | `Relay` |
| Command line, policy sources | `main.go` | the flags, the policy built so far | `main`, `buildPolicy` | `PolicySource`; outcomes in `Launch` |
| All-thread system calls | `internal/allthreads` | per-thread credentials | `AllThreadsSyscall3/6` | in `Launch` |
| Policy format | `policy/policy.go` | none | `Parse`, `Validate`, marshallers, `parseOctalMode` | `PolicySource` |
| Templates | `policy/template.go`, `internal/template` | syntax tree, contexts, open blocks | `RenderTemplate`, the block parser, `ReferencedVarNames`, the evaluator | `Template` |
| Payload environment | `policy/env.go`, `policy/options.go`, `dyld.go` | an `Environ` per process | `payloadEnv`, `ApplyEnv`, `scrubDYLD` | `Inheritance` |
| Descriptor inheritance | `unshare_linux.go`, `unshare.go` | the descriptor tables | `extraFilesForInherit`, `inheritFDs`, `childFD` | `Inheritance` |
| Landlock rights | `policy/features*.go`, `policy/enforce.go` | none | `fsAccessSet`, `MaxFSAccess`, `Validate*`, `resolveScopes` | `Landlock` |
| Landlock enforcement | `policy/enforce_linux.go`, `policy/glob.go` | the rules gathered so far; the filesystem | `Enforce`, `buildFSRules`, `resolvePath` | `Enforcement`; one action in `Launch` |
| Dry run | `policy/dryrun.go` | none | `DryRun` | its verdict, in `Enforcement` |
| Seatbelt profiles | `policy/sbpl.go`, `sandbox_darwin.go` | the profile, the aliases seen | `CreatePolicyDirs`, `CompileSBPL`, `runSandboxed` | `Seatbelt` |
| Seatbelt binding, other platforms | `policy/seatbelt_*.go`, `*_other.go` | none | one FFI call; stubs | not modelled |

How they interact. `main` builds a policy from flags, a file, the environment or
a template, works out the payload's environment and looks up the command. If no
namespace is asked for it enforces the policy on itself and execs the command.
Otherwise it re-executes itself with clone flags: the *child* takes the policy
and the command's path over a *startup pipe*, sets up `/proc` and loopback,
drops its capabilities, writes "ok" on a *setup pipe*, enforces the policy, forks
the command and reaps it. The parent ("launcher") waits for "ok" or end of
file; with end of file it waits for the child and, unless a private network was
asked for, falls back to running the command itself. With "ok" it forwards
signals and exits as the child does.

What is hard: two processes that can fail or be killed at every step and block
on each other through two pipes; the moment after which only one of them may
run the command; credentials that belong to threads while goroutines move
between threads; exit statuses that cross two processes; signals that arrive
before, during and after the handshake through channels that drop; a policy
that is validated, extended, serialised and validated again; a filesystem that
changes between examining a path and opening it; rights tables that must agree
at every kernel version; an environment and a table of descriptors that pass
through up to three processes; symlinks that lead through each other; a
template language with its own scopes. PROJECT.json lists each hazard at its line.

## Modules

`Invocation` has the words the next two share: what is asked (`Request`), how a
process ends (`Ended`, `ShellCode`), and what a command finds around it (`Box`).

`Sandbox` is the abstract specification: the command starts at most once, only
in a box its request permits (`Permitted`), and the launcher's exit code is the
command's, or says that it did not run (`Refuse`: any code but 0), or is 255 if
the launcher lost the process that watched the command (`Abandon`). `Permitted`
allows all of the requested namespaces, or none of them with the host network.

`Launch` is the code on Linux. `pc` holds the step each process takes next, a
step being a stretch of code with one visible effect: `PrepareChild` is
`forkChild` up to `Start`, `CloseChildEnds`, `WriteStartup`, `CloseStartup` and
`ReadSetup` its handshake, `ReapFailedChild` and `WaitChild` its two ends;
`Boot` to `ReportReady` are `childMain`, `Enforce` and `ExecCommand` are
`runSandboxed`, and `ForkCommand` and `ReapCommand` are `reaperExec`. Each action
has the disjuncts that its error returns make; `Faults` allows them. The
pipes are modelled by who holds which end (`holders`) and by the blocks in
the startup pipe, because that is what end of file, EPIPE and blocking depend
on. Credentials are sets of threads (`capable`, `domain`), and the command
starts from any thread. `KillParent`, `KillChild` and `ParentDeathSignal` are
SIGKILL and PDEATHSIG.

`Relay` has the signals. Launch's steps are reduced to phases (`launcher`,
`child`); in exchange there are pending sets that coalesce, channels of
`QueueSize` that drop, default actions outside the time `signal.Notify` is in
force, the forwarding goroutine, and a reaper that takes one wait4 at a time
while orphans end around it.

`Landlock` has the rights as sets: what a rule becomes on a kernel of a given ABI
(`fsAccessSet`, `buildNetRules`, `resolveScopes`), what the ruleset handles (`MaxFSAccess`,
`handledNet`) and what is refused (`NetRefused`, `IPCRefused`, `fsRuleError`).

`Enforcement` is `policy.Enforce` as a loop with a filesystem beside it: `Detect`,
`Validate` and `RestrictSelf` come once, `BeginRule` (`create_dir` and the glob) once
a rule and `StatPath` once a path. `Change` is another process that removes,
creates or replaces what a name stands for, between any two of them. A
filesystem says for each name what `stat` finds there (`Kind`): the ways
of not finding anything are told apart because the code treats them
differently. How names are related is given by `Above` (what a name lies below)
and `Leading` (what else may lead to it, through a symlink): `Made` is the
filesystem that `os.MkdirAll` leaves, which makes every missing directory above
the one asked for, too, each with the mode asked for, and stops half way if that
mode keeps the caller out (`open`). What it makes may show under other names
(`Disturbed`). `KernelFS` and its siblings and `Accepted` are the kernel and go-landlock.
`DryRun` is the verdict of the dry run on one filesystem, `Comparable` says where it
cannot be right, and `Documented` is what LANDLOCK_SANDBOX_POLICY.md says a rule grants.

`PolicySource` is everything before that: the command line, the source of the
policy, its JSON, the rules that `--ro` and `--rw` add (`AppendRO`, `AppendRW`, for
which the path is examined while other processes `Change` it), and what
`--expand` prints or the child receives (`Receive` parses it again). JSON values are
records, so that each marshaller and its counterpart are operators.

`Template` is the language of policy templates. `Parse` turns a sequence of tags
into a tree, as the parsers of `control.go` do, and `Check` compares the variables
used with those given; the other actions render, one node at a time, on a stack
of frames over shared contexts (`scopes`), as `renderNodes` and `copyCtx` do. `Eval`
has every kind of expression. A rendering ends with "done", "error" or "panic".
`Essence` is what of a source makes a difference; whatever follows the word in an
`endraw` tag does not, because `parseRaw` throws it away (`internal/template/control.go:169`).

`Inheritance` follows an environment and a table of descriptors from the
launcher to the command. `ApplyEntry` is one turn of the loop over a Go map, so
entries come in any order; `OpenPipes`, `DupNext`, `StartChild`, `Boot`, `ReadStartup`,
`Report` and `ForkCommand` are the way through a child, which may fail at each of
them, and `ExecCommand` the way without. A table is a function on the numbers
below the limit; new descriptors take the lowest free number.

`Seatbelt` is a launch on macOS. `Walk` is the kernel's resolution of a path: `Step`
takes it one part further, or into the target of a symlink, and `Steps` bounds how often.
`compileFS` and `compilePath` take the rules path by path, and `allowPathAliases`
takes a path part by part, with the recursion into symlink targets as a stack.
Where a path resolves to and how `canonicalSBPLPath` spells it are two things:
`filepath.EvalSymlinks` leaves a relative path relative (`Spell`), and `filepath.Abs` puts
`os.Getwd` in front of it, which is `PWD` as it stands if that leads to the working
directory (`Getwd`). The profile is the set of its lines.

How the modules fit together: `Launch` implements `Sandbox` (`Promise` is the
instance, `Implements` the property); `Enforcement`, `PolicySource` and `Seatbelt` share the
rights and rules of `Landlock`. What `Launch` treats as one step that succeeds or fails is
taken apart elsewhere: `Resolve` in `PolicySource` and `Template`, `Enforce` in `Enforcement`,
the inherited world of the command (`box.plumbing`) in `Inheritance`, signals in `Relay`.

The `MC` modules give the constants their values for TLC. The theorems are in
modules beside those they are about: `LaunchProofs` and `LaunchRefinement`,
`EnforcementProofs`, `PolicySourceProofs`, `InheritanceProofs`, `SeatbeltProofs` and `RelayProofs`;
`Induction` has the lemmas on recursive definitions that several of them need.

A definition named `...Bug` is no part of a specification. It is a slip that
the code could have, kept next to the definition it would replace; PROJECT.json
says which property notices it ("mutants").

## Runs

| Run | Configuration | Shows |
|---|---|---|
| `launch_faults` | `MCLaunchFaults.cfg` | the inductive invariant, which the type invariant is part of, confinement, at most one start, a clean fallback, no child left, no false success, that `Launch` implements `Sandbox`, that namespaces the kernel grants are used where nothing fails, and: the handshake never hangs, the end is reported, no orphan in a pid namespace |
| `launch_empty_path` | `MCLaunchEmptyPath.cfg` | violation: an empty `--ro`/`--rw` path costs the command its namespaces |
| `relay_fits` | `MCRelayFits.cfg` | type invariant; nothing multiplied, no kill of a reaped pid, no sleeping over a zombie, the end is reported and signals arrive |
| `relay_overflow` | `MCRelayOverflow.cfg` | violation: a full channel hides SIGCHLD |
| `relay_fallback` | `MCRelayFallback.cfg` | violation: the fallback discards a SIGTERM |
| `enforce` | `MCEnforcement.cfg` | type invariant and the inductive invariant; on an unchanging filesystem, what exists is granted in full and the dry run agrees with enforcement, except where `NothingLost` and `Comparable` say why not; whatever the filesystem does, nothing is granted that no rule asks for; at each ABI, the tables agree, everything the kernel knows is handled, network rules and denials are never dropped |
| `enforce_dead_link` | `MCEnforcementDeadLink.cfg` | violation: a dead symlink among the matches takes the grants of the others along |
| `policy_source` | `MCPolicySource.cfg` | nothing asked for is passed over; path flags become rules that fit; an accepted mode that fits into the integer is the one written; the child receives the same policy |
| `template` | `MCTemplate.cfg` | the tree is what was written, the arguments of `endraw` apart; rendering is what the tree means, failures included; the check before rendering misses no variable; `find_upward` finds the nearest marker |
| `inheritance` | `MCInheritance.cfg` | entries applied exactly once, in any order, by any route; path edits in the order written; the same descriptors as without landcage; the child finds its pipes and holds no copy |
| `seatbelt` | `MCSeatbelt.cfg` | every symlink on the way of a rule, and no other, shows its metadata; the profile permits what the rules promise, on files where no relative rule meets a `PWD` with a symlink in it, and on ports what Landlock would |
| `seatbelt_pwd` | `MCSeatbeltPwd.cfg` | violation: behind such a `PWD` a relative rule permits nothing |

Bounds. Launch has two threads (one that a credential change reaches and one it
might miss), a payload of two blocks and a pipe of one, so that the write blocks
in between and can be cut short; three wait statuses (success, failure, signal);
and every combination of unshare object, `--net`, an empty path and a capable
caller, with one invalid policy and the printing modes. A request also says
whether anything may go wrong around its launch (`faults`); launches in which
nothing does are there for `NamespacesIfGranted`. Relay has one signal
that ends a Go program by default and one that it ignores, channels of four,
three signals from outside and one orphan: one signal fewer than fits is exactly
the limit up to which `EndIsReported` holds, and `relay_overflow` shows it fail
with one more. (`SignalsReachCommand` needs room for the orphan's SIGCHLD, too:
a second orphan can crowd out a signal.) The code's channels hold 16; the
argument does not depend on the number. Enforcement has a directory with two
names, a pattern that matches both (and itself, once `create_dir` makes a
directory of that name), a pattern in the wrong place, and up to two rules:
enough for an error at the first, the last or the only path of the first or the
last rule. `enforce` has three kinds of launches (`Considered`). Rules on anything that
`stat` can find under a name, parents missing, dead, barred or unsearchable
included, with nobody else there: this is what `NothingLost` and `DryRunAgrees` are
about. Rules that another process contests (`Contested`) with one change
(`MaxChanges`) between any two steps, for `OnlyWhatIsAsked`. And a rule for each kind of
right, and all network and IPC settings, at the ABIs at which something changes,
with their neighbours. "d/b" may be a symlink to "d/a", so that what `create_dir` makes
shows under both. `DryRunAgrees` excepts what `Comparable` names. PolicySource has all combinations of sources, variables
and modes, two paths that are a directory, a file, missing or unreadable and
change once, and a document or two for everything that can be written in one.
Octal modes are scaled: an integer of three digits (`IntSize`; 32 bits
in the code) and modes of up to two (`MaxMode`), with documents of up to four digits, so
that modes too large for the check and for the integer both occur; of the latter
`FittingModes` says only that their digits are octal. All strings are valid UTF-8 and
no path is empty. Template has every `if`, `elif` and `for` over one or two leaves,
loops around both, every sequence of up to three tags (and of an `if` and three
more) balanced or not, every operator on values of every type, and markers in
any directory of a tree three deep; numbers are small, so that a float loses
nothing. Inheritance has descriptors 3 to 6 closed, open or close-on-exec under limits from
8 (where not even the pipes fit) to 16 (where everything does), and entries on
up to three of five variables. Seatbelt has three symlinks that take every combination of
targets, by absolute and relative paths, and two rules, which is enough for
one rule to come upon a link that another has granted before. `PWD` names the
working directory through one of them, which in some trees leads there and in
others does not. Four links (`MaxLinks`) are enough for every path here that is no
circle, `PWD`'s own counted in, and three parts (`MaxParts`) are the longest target; ports go up to the code's 65535 (`MaxPort`). The
instance is one that the theorems are about (`InstanceClean`). Deadlock is
not checked because every launch, enforcement and rendering ends.

Fairness. Launch: weak fairness of each process (the scheduler runs it) and of
PDEATHSIG (the kernel sends it). Relay: weak fairness of both processes and of
the delivery of a pending signal. Nothing is assumed of the command, which may
run for ever, of who sends signals, or of failures.

## Findings

1. `launch_empty_path`: `--ro ""` and `--rw ""` pass in the parent, because CLI rules
   are appended after validation, and are rejected by the child's second
   validation. The command then runs without its namespaces (or, with a private
   network, not at all), where the documentation has an empty path ignored.
2. `relay_overflow`: a SIGCHLD that does not fit into the reaper's channel is lost and
   the launch hangs, although the subscription precedes the fork "to avoid
   missing a fast SIGCHLD".
3. `relay_fallback`: a SIGTERM collected before the fallback is discarded, although
   the subscription precedes the start "to avoid losing a fast SIGTERM".
4. `enforce_dead_link`: a symlink that leads through a file is ENOTDIR to `Stat`, which
   `os.IsNotExist` does not cover; in a glob rule with `ignore_missing` the whole rule is
   skipped for it, where LANDLOCK_SANDBOX_POLICY.md:282 has a dead symlink treated as missing.
5. `seatbelt_pwd`: `canonicalSBPLPath` resolves symlinks before it makes a path absolute, so
   that the symlinks in `PWD` stay in the profile; Seatbelt never sees that name, and a
   relative rule grants nothing, where docs/osx-sbpl.md:146-148 has every path resolved, `/tmp`
   included.

Known deviations without a run of their own. The properties name the cases
they leave out, or the inputs do:

- The downgrade warning of LANDLOCK_SANDBOX_POLICY.md:293-296 is never printed: the check
  looks at rights from which the unsupported ones are already gone (`policy/enforce.go:17`).
- The dry run is not enforcement where `Comparable` is false: `refer` on a file passes it
  (`policy/dryrun.go:94`), and the kernel refuses it; `ignore_missing` covers a pattern in
  the wrong place and an unreadable directory (`policy/dryrun.go:47`), where `Enforce`
  forgives a missing path only, but not a match below a file, which `Enforce` forgives
  with all the others; a dead symlink passes as a directory to be created, which
  `MkdirAll` refuses, and so does any place that cannot be written to, or where the mode
  keeps the caller from making the next directory down; with a pattern `create_dir`
  makes a directory of the pattern's own name; and a rule that needs a directory
  that `create_dir` of an earlier one makes, the parents included, is refused.
- `filepath.Join` cleans the matches of a pattern (`policy/glob.go:43`): those of `link/../*`
  are read in one directory and looked up in another.
- A mode of eleven octal digits or more can wrap around in 32 bits and pass the check of
  its size, which comes afterwards (`policy/policy.go:341-345`): "40000000005" makes a directory
  of mode 0005. `FittingModes` is about modes that fit.
- A string that is not UTF-8 has U+FFFD in it by the time the child reads it; `"prepend": null`
  becomes one empty element.
- A `set` in a loop ends with the iteration (`internal/template/template.go:342`, and
  `internal/template/template_test.go:210` says so, where POLICY_TEMPLATES.md:43-44 has its scope at
  the template level). `RendersAsMeant` takes no side: it asks for one of the two,
  throughout a template.
- Template filters are refused when they are evaluated and not before
  (`internal/template/template.go:406`, against POLICY_TEMPLATES.md:40-41): one in a branch that is not
  taken passes, in the run as well. The condition of `{{ x if c }}` is parsed and ignored;
  `{% endraw junk %}` is accepted; comparing two lists or two maps panics.

## Proofs

Each theorem holds for every value of the constants that the named assumptions
of its module allow; a hypothesis beyond these stands in the theorem.

`LaunchProofs` proves, for every set of threads, every size of payload and pipe
and every set of requests: `TypeCorrect`, `StartsAtMostOnce`, `RunsConfined`,
`FallsBackCleanly`, `LeavesNoChild`, `SucceedsTruthfully` and `GetsNamespaces`, all from
`Inductive`. None of them is inductive alone. That the command starts once, for
example, needs to know that the parent reads end of file only when no child can
still report: `IndInv` therefore says who can hold which pipe end at each step
(`Holding`), what "ok" and its absence allow the other side (`Handshake`: without it
the child gets past its report only if the parent is dead), which parts of the
box are in place at each step (`Boxing`), what an exit code of 0 means (`Verdict`),
what the child's status tells of the command (`Tells`), and that a launch in which
nothing may fail never leaves the straight way through the handshake
(`Undisturbed`). `GetsNamespaces` has a hypothesis: a request where nothing may fail
has no empty path. `launch_empty_path` shows the property false without it. The
proof takes the actions one by one.

`LaunchRefinement` proves `Spec => Implements` from the same invariant: an initial
state of `Launch` is one of `Sandbox`, and each action is a step of `Sandbox` or changes
nothing that `Sandbox` sees, which are the request, the command and the report, a
function of the launcher's status. `Tells` is there for this proof: when the
launcher exits as the child did, the code must be the command's, or another than
0 if the command never started.

`RelayProofs` proves, for every set of signals, every capacity of the channels and any
number of signals and orphans, `TypeCorrect`, `KillsOnlyCommand`, `InventsNothing`,
`StaysAlert` and `AlwaysAlert`. For `KillsOnlyCommand` the invariant says that nobody is
in the reaper's loop once the command is reaped, and, because a command that
replaces the launcher is not the reaper's, that no child is left beside one.
`InventsNothing` counts: for each signal, the copies that lie in pending sets
and channels or were given to the command are at most those sent (`Conserved`). The
count for all signals together is bounded by the variable `total`, which `Send` counts up:
a channel is full only when that many signals have been sent, so that a SIGCHLD is
dropped only then. Hence `StaysAlert`: until `QueueSize` signals have been sent the
reaper never sleeps over something to reap. `AlwaysAlert` is the same for runs with
fewer signals in all; `relay_overflow` shows what happens with more.

`EnforcementProofs` proves, for every set of paths, policies, ABIs and filesystems and
any number of changes (the assumptions of `Enforcement` say only what a valid policy
is): `HandlesAll` and `RightsKnown` about the tables, `IPCInSync` about the two
variants of the IPC logic that a comment asks to keep in sync, and, from `Inductive`,
`TypeCorrect`, `AlwaysCompatible`, `GrantsOnlyWhatIsAsked`, `NeverDowngraded` and
`DenyByDefault`. The invariant adds to the properties that a rule is at hand while one
is processed and that nothing is left over from the one before (`InHand`), what
`Detect` and `Validate` have established (`Checked`), and that what has been gathered,
and the paths still to be examined, belong to a rule (`Justified`). `GrantsAll` is the
other direction, on a filesystem that nobody else changes: what exists and is
named by a rule is granted in full. Its invariant (`Kept`) says that the rules done
have kept all that was theirs and that a path of the rule at hand is either still
to be examined or kept, where directories that `create_dir` makes on the way may be
added (`Grown`). It holds on every filesystem; the exception is in the property
(`CutShort`): a rule with `ignore_missing` and a match that leads through a file, for which
`buildFSRules` returns nothing at all. `enforce_dead_link` shows it.

Its last part proves `DryRunAgrees`: on a filesystem that nobody changes, and where
`Comparable` holds, the dry run accepts if and only if enforcement succeeds. The
invariant (`Verdict`) says that a failed enforcement is one the dry run rejects, and
of one that goes on that only what `create_dir` and its parents brought about is new (`CreatedSoFar`), that
the dry run accepts the rules done (`Passed`) and the paths examined of the one at
hand (`Examining`), and that the kernel will take each grant (`Openable`). `SameVerdict`
carries the dry run's verdict on a rule from the filesystem as it was to the one
that `Enforce` finds.

`PolicySourceProofs` proves, for every command line, document and filesystem,
`NothingPassedOver` and `FlagsAccepted` from `SourceInv`: which checks the invocation has
passed at each step (`Reached`), and that the rules are the document's followed by
those of the flags so far, each made from what was at its path when it was
examined (`Layout`). `PolicySurvives` adds that what was handed on is the marshalled
policy and that this policy is valid and *portable* (`Sent`): what is read from a
document is read back unchanged after it is written. The lemmas behind it take
the formats one by one (`NetReadable`, `BagReadable`, `EntryReadable`, `RoundTrip`); they
rest on `DocumentAssumption`, which says that a document is JSON, whose decoder
makes UTF-8 of every string. Paths of flags pass no decoder: the hypothesis
`Sendable` has them, and the command's path, in UTF-8 and not empty. Both parts are
needed (see the known deviations and `launch_empty_path`). `ModesAsWritten` is about
`create_dir` with any number of digits: whatever passes is octal, and is the number
written if that fits into the integer (`ModeIsWritten`: taking the remainder at every
digit, as the code's `uint32` does, or once at the end is the same). The invariant
is that the modes of all rules gathered so far are valid.

`InheritanceProofs` proves `EnvironmentOnce` for every set of variables, entries and tables:
`Loop` says how far the loop over the entries has come (a variable is as the
launcher had it or as its entry makes it, because an entry looks at no other),
and `Handed` which environment each process holds after that, up to the
command, whichever way it started.

`PathsAsEdited` proves `PathEdits` for values, lists and separators of any kind. Beyond
the environment's invariant it is a matter of what the loops of `resolveEnvEntry`
compute: that splitting what was joined gives the elements back if none has the
separator in it (`SplitJoin`), for which joining and splitting are followed one
character at a time.

The same module proves `CommandKeepsDescriptors` and `ChildFindsPipes` for tables of any
size. `FdInv` says what the launcher's table is at each step, between the first
pipe and the start of the child (`LauncherTable`, `PipesOpen`), that the duplicates made
so far are of the descriptors that will be inherited, in order, and the rest of
them still to come (`Duplicates`), and that the child's table is then the launcher's at
every number, with the pipe ends at 3 and 4 or behind what is inherited
(`ChildsTable`). `TableAssumption` says that a table is finite, numbered from 0 and has
0 to 2 open.

`SeatbeltProofs` proves `GrantsFollowRules` and `AliasesReadable` for every tree, every list of
rules, every `PWD` and every number of links that the kernel follows. Four things come first.
A walk is a loop whose end is not a matter of its text: the invariant (`IsRun`) is that
the steps still allowed, `Steps`, decrease with each, so that `Follow` reaches the end
(`FollowEnds`), whatever the links do; what a walk does to `a \o b` is what it does to `b`
from where `a` leads (`Compose`); and links followed before make no difference but that
there may be too many (`FewerLinks`). The directories of `MkdirAll` leave a tree
(`TypeCorrect`). The paths that are compiled are those the rules mean (`MeantPaths`). And
the name that `canonicalSBPLPath` gives a path is where the path resolves to, if it is
absolute or the working directory goes by its own name (`CanonicalPath`): the loop
of `Spell` keeps the name it has so far equal, once cleaned, to where the walk stands.

`GrantsCorrect` then needs `ProfileInv`: every line of the profile is there for a path that
has been compiled, and every such path has all of its lines. `AliasesCorrect` is about
the recursion of `allowPathAliases`, which stops at a link that has been seen, although
that link's target may not have been walked to its end: it may be one of the paths
on the stack. `AliasInv` says that the links of a path are granted up to where it
stands, apart from those of the target that is walked on its behalf, and that the
paths on the stack have more links the further out they are. A link on the innermost
path cannot lead back to one of them, then, because its target has fewer links than the
path it is on (`PartAdds`): so the targets of seen links are done (`Revisited`), and nothing
is missing when the stack is empty.

Both theorems assume `PatternsClean`, that cleaning changes no match of a pattern;
without it a rule means another directory than it reads (see the known
deviations). `PatternsPlain`: it is enough that no pattern has a "..". What `GrantsCorrect`
says of files it says where `WellSpelt` holds, which is part of the property: every rule is
absolute, or `os.Getwd` gives the directory's own name; `seatbelt_pwd` shows that this is
needed. `AliasesCorrect` needs no such condition, because the aliases of a relative
path are looked for along `PWD`, too (`Along`). Its other hypothesis, `PwdShort`, says that the
links of `PWD` and those behind it are together no more than the kernel follows in one
path: otherwise the walk over a path's aliases fails where the path itself was found.
Without `PwdShort` the property is model-checked only.

`Induction` is what the proofs about loops over data rest on. The library's induction
theorems take an operator as a parameter, which the provers cannot instantiate;
here the property is a set of numbers instead (`EveryNat`, `EveryStep`: a set that has 0
and, with a number, the next one has them all, because there is no smallest one that it
lacks). `LoopExists` says that a recursive function on 0 .. n exists, that is, that
what is written as a loop in the models does what its body says.

Only model-checked. `Template` parses and renders trees with recursive operators,
which the prover does not take: its properties (`ParsedAsWritten`, `RendersAsMeant`,
`NothingMissing`, `NearestMarker`) are checked on the sequences of tags of its run. The
liveness properties are out of the prover's reach.

## Not modelled

The binding to libsandbox (one call, which `Seatbelt!Apply` lets succeed or fail) and
the stubs of other platforms have no state. Left out elsewhere: texts and
logging; the syntax of JSON, strings and numbers (values are what they denote);
how template values are printed; the errno of a failed call, except where the
code branches on it; namespaces beyond the clone flags; more than one pending
signal of a kind; signals ignored from the start, as under nohup; most of the fixed
lines of a Seatbelt profile; a tree that changes while a profile is compiled;
variable names with a "=" in them.

## Plan

1. `Seatbelt` with a tree that changes between `Stat` and the walk over aliases.
2. `Template` without recursive operators: `Eval` and the parser as functions on the
   nodes of a finite tree, so that `NothingMissing` can be proved.
