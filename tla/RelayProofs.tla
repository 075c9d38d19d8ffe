----------------------------- MODULE RelayProofs -----------------------------
(***************************************************************************)
(* For every set of signals, every capacity of the channels and any number *)
(* of signals and orphans: the reaper never kills a pid that may belong to *)
(* somebody else by now, no signal is multiplied, and no SIGCHLD is missed *)
(* before as many signals have been sent as a channel holds.               *)
(***************************************************************************)
EXTENDS Relay, FiniteSetTheorems, TLAPS

(* Once the command is reaped, nobody is left in the reaper's loop.        *)
NobodyLoops == command = "reaped" => child \in {"absent", "done"}

(* The command that replaces the launcher, the only one that is not the    *)
(* child's to reap, starts when no child is left.                          *)
NoChildBeside == launcher \in {"fallback", "payload"} => child \in {"absent", "done"}

(* Before the child is started there is nothing to be reaped.              *)
NothingYet == launcher \in {"boot", "starting"} => child = "absent" /\ command = "none"

KillInv == NoStrayKill /\ NobodyLoops /\ NoChildBeside /\ NothingYet

(* It holds at the start.                                                  *)
LEMMA KillInit == Init => KillInv
  BY DEF Init, KillInv, NoStrayKill, NobodyLoops, NoChildBeside, NothingYet

(* The launcher's steps keep it: a child is started when nothing has been  *)
(* reaped, and the launcher falls back when the child has gone.            *)
LEMMA KillLauncher == KillInv /\ Launcher => KillInv'
<1> SUFFICES ASSUME KillInv, Launcher PROVE KillInv'
  OBVIOUS
<1> USE DEF KillInv, NoStrayKill, NobodyLoops, NoChildBeside, NothingYet, phases, counts
<1>1. CASE Subscribe
  BY <1>1 DEF Subscribe
<1>2. CASE StartChild
  BY <1>2 DEF StartChild, Unavailable
<1>3. CASE ReadSetup
  BY <1>3 DEF ReadSetup, Unavailable
<1>4. CASE ForwardToChild
  BY <1>4 DEF ForwardToChild
<1>5. CASE WaitChild
  BY <1>5 DEF WaitChild
<1>6. CASE ExecCommand
  BY <1>6 DEF ExecCommand
<1> QED
  BY <1>1, <1>2, <1>3, <1>4, <1>5, <1>6 DEF Launcher

(* The child's steps keep it: the reaper leaves its loop for good with the *)
(* step that reaps the command, and therefore receives no signal after it. *)
LEMMA KillChild == KillInv /\ Child => KillInv'
<1> SUFFICES ASSUME KillInv, Child PROVE KillInv'
  OBVIOUS
<1> USE DEF KillInv, NoStrayKill, NobodyLoops, NoChildBeside, NothingYet, phases, counts
<1>1. CASE ReportReady
  BY <1>1 DEF ReportReady
<1>2. CASE SubscribeReaper
  BY <1>2 DEF SubscribeReaper
<1>3. CASE ForkCommand
  BY <1>3 DEF ForkCommand
<1>4. CASE ReceiveSignal
  <2>1. child = "loop" /\ command # "reaped"
    BY <1>4 DEF ReceiveSignal
  <2>2. /\ ~stray'
        /\ child' \in {"loop", "reap"}
        /\ launcher' = launcher /\ command' = command
    BY <1>4, <2>1 DEF ReceiveSignal
  <2> QED
    BY <2>1, <2>2
<1>5. CASE Wait4
  BY <1>5 DEF Wait4, Reaped, AfterOrphan, AfterCommand
<1> QED
  BY <1>1, <1>2, <1>3, <1>4, <1>5 DEF Child

(* So do signals that take effect and what happens outside.                *)
LEMMA KillWorld == KillInv /\ (Taking \/ World) => KillInv'
<1> SUFFICES ASSUME KillInv, Taking \/ World PROVE KillInv'
  OBVIOUS
<1> USE DEF KillInv, NoStrayKill, NobodyLoops, NoChildBeside, NothingYet, phases, counts
<1>1. ASSUME NEW p, NEW s, TakeSignal(p, s) PROVE KillInv'
  <2>1. /\ launcher' \in {launcher, "done"}
        /\ child' \in {child, "done"}
        /\ command' = command /\ stray' = stray
    BY <1>1 DEF TakeSignal
  <2>2. launcher' \in {"boot", "starting"} => child' = child
    BY <1>1 DEF TakeSignal, Alive, Notifier
  <2> QED
    BY <2>1, <2>2
<1>2. ASSUME NEW s, CommandTakesSignal(s) PROVE KillInv'
  BY <1>2 DEF CommandTakesSignal
<1>3. ASSUME NEW s, Send(s) PROVE KillInv'
  BY <1>3 DEF Send
<1>4. CASE CommandEnds
  BY <1>4 DEF CommandEnds
<1>5. CASE OrphanEnds
  BY <1>5 DEF OrphanEnds
<1> QED
  BY <1>1, <1>2, <1>3, <1>4, <1>5 DEF Taking, World

(* Every step keeps it.                                                    *)
THEOREM KillInductive == Spec => []KillInv
<1>1. KillInv /\ [Next]_vars => KillInv'
  <2> SUFFICES ASSUME KillInv, [Next]_vars PROVE KillInv'
    OBVIOUS
  <2>1. CASE UNCHANGED vars
    BY <2>1 DEF vars, phases, counts, KillInv, NoStrayKill, NobodyLoops,
                NoChildBeside, NothingYet
  <2> QED
    BY <2>1, KillLauncher, KillChild, KillWorld DEF Next
<1> QED
  BY <1>1, KillInit, PTL DEF Spec

(* The reaper never kills the command's pid after it has reaped the        *)
(* command.                                                                *)
THEOREM KillsOnlyCommand == Spec => []NoStrayKill
<1>1. KillInv => NoStrayKill
  BY DEF KillInv
<1> QED
  BY <1>1, KillInductive, PTL

-----------------------------------------------------------------------------
(* Types.                                                                  *)

Carried == Signal \cup {"CHLD"}

(* TypeOK but for the counts, and with queues for what they are.           *)
Typed ==
  /\ pidns \in BOOLEAN /\ private \in BOOLEAN
  /\ launcher \in LauncherPhase /\ child \in ChildPhase
  /\ ok \in BOOLEAN
  /\ command \in {"none", "running", "zombie", "reaped"}
  /\ adopted \in 0..MaxOrphans /\ orphans \in 0..adopted
  /\ pending \in [Process -> SUBSET Carried]
  /\ queue \in [Notifier -> Seq(Carried)]
  /\ \A p \in Notifier : Len(queue[p]) <= QueueSize
  /\ total \in 0..MaxSent
  /\ sent \in [Signal -> Nat] /\ got \in [Signal -> Nat]
  /\ \A s \in Signal : sent[s] <= total
  /\ stray \in BOOLEAN

LEMMA Signals == IsFiniteSet(Signal) /\ "CHLD" \notin Signal
<1>1. IsFiniteSet(Forwarded)
  <2>1. Forwarded = (((((({"TERM"} \cup {"INT"}) \cup {"HUP"}) \cup {"QUIT"}) \cup {"WINCH"})
                      \cup {"USR1"}) \cup {"USR2"})
    BY DEF Forwarded
  <2>2. IsFiniteSet({"TERM"})
    BY FS_Singleton
  <2> QED BY <2>1, <2>2, FS_AddElement
<1> QED BY <1>1, SignalAssumption, FS_Subset DEF Forwarded

(* Process is a set of three.                                              *)
LEMMA Processes == IsFiniteSet(Process)
<1>1. Process = ({"launcher"} \cup {"child"}) \cup {"command"}
  BY DEF Process
<1>2. IsFiniteSet({"launcher"})
  BY FS_Singleton
<1> QED BY <1>1, <1>2, FS_AddElement

(* A signal reaches finitely many processes.                               *)
LEMMA ReachedType ==
  ASSUME NEW S \in {{"launcher"}, Process}
  PROVE  Reached(S) \subseteq Process /\ IsFiniteSet(Reached(S)) /\ Cardinality(Reached(S)) \in Nat
<1>1. Reached(S) \subseteq Process
  BY DEF Reached, Process
<1> QED BY <1>1, Processes, FS_Subset, FS_CardinalityType

LEMMA TypedInit == Init => Typed
<1> SUFFICES ASSUME Init PROVE Typed
  OBVIOUS
<1> DEFINE e == <<>>
<1>1. e \in Seq(Carried) /\ Len(e) = 0
  OBVIOUS
<1>2. queue = [p \in Notifier |-> e]
  BY DEF Init
<1> HIDE DEF e
<1>3. queue \in [Notifier -> Seq(Carried)] /\ \A p \in Notifier : Len(queue[p]) <= QueueSize
  BY <1>1, <1>2, RelayAssumption
<1>4. pending \in [Process -> SUBSET Carried]
  BY DEF Init
<1>5. /\ total \in 0..MaxSent /\ adopted \in 0..MaxOrphans /\ orphans \in 0..adopted
      /\ sent \in [Signal -> Nat] /\ got \in [Signal -> Nat] /\ \A s \in Signal : sent[s] <= total
  BY RelayAssumption DEF Init
<1>6. /\ pidns \in BOOLEAN /\ private \in BOOLEAN /\ ok \in BOOLEAN /\ stray \in BOOLEAN
      /\ launcher = "boot" /\ child = "absent" /\ command = "none"
  BY DEF Init
<1> QED
  BY <1>3, <1>4, <1>5, <1>6 DEF Typed, LauncherPhase, ChildPhase

LEMMA TypedStep == Typed /\ [Next]_vars => Typed'
<1> SUFFICES ASSUME Typed, [Next]_vars PROVE Typed'
  OBVIOUS
<1> USE RelayAssumption
<1> USE DEF Typed, launch, phases, ended, counts, Carried, LauncherPhase, ChildPhase, Notifier, Process
<1>0. queue' = [queue EXCEPT !["launcher"] = <<>>] =>
        /\ queue' \in [Notifier -> Seq(Carried)]
        /\ \A p \in Notifier : Len(queue'[p]) <= QueueSize
  <2> DEFINE e == <<>>
  <2>1. e \in Seq(Carried) /\ Len(e) = 0
    OBVIOUS
  <2> HIDE DEF e
  <2>2. queue' = [queue EXCEPT !["launcher"] = e] =>
          /\ queue' \in [Notifier -> Seq(Carried)]
          /\ \A p \in Notifier : Len(queue'[p]) <= QueueSize
    BY <2>1
  <2> QED BY <2>2 DEF e
<1>1. CASE UNCHANGED vars
  BY <1>1 DEF vars
<1>2. CASE Subscribe
  BY <1>2 DEF Subscribe
<1>3. CASE StartChild
  BY <1>3, <1>0 DEF StartChild, Unavailable
<1>4. CASE ReadSetup
  BY <1>4, <1>0 DEF ReadSetup, Unavailable
<1>5. CASE ForwardToChild
  BY <1>5 DEF ForwardToChild, Deliver, Rest
<1>6. CASE WaitChild
  BY <1>6 DEF WaitChild
<1>7. CASE ExecCommand
  BY <1>7 DEF ExecCommand
<1>8. CASE ReportReady
  BY <1>8 DEF ReportReady
<1>9. CASE SubscribeReaper
  BY <1>9 DEF SubscribeReaper
<1>10. CASE ForkCommand
  BY <1>10 DEF ForkCommand
<1>11. CASE ReceiveSignal
  BY <1>11 DEF ReceiveSignal, Deliver, Rest
<1>12. CASE Wait4
  BY <1>12 DEF Wait4, Reaped, AfterOrphan, AfterCommand
<1>13. ASSUME NEW p \in Notifier, NEW s \in pending[p], TakeSignal(p, s) PROVE Typed'
  BY <1>13 DEF TakeSignal, Offer
<1>14. ASSUME NEW s \in Signal, CommandTakesSignal(s) PROVE Typed'
  BY <1>14 DEF CommandTakesSignal
<1>15. ASSUME NEW s \in Signal, Send(s) PROVE Typed'
  <2>1. PICK S \in {{"launcher"}, Process} :
          /\ total' = total + Cardinality(Reached(S)) /\ total' <= MaxSent
          /\ Deliver(Reached(S), s)
          /\ sent' = [sent EXCEPT ![s] = @ + Cardinality(Reached(S))]
          /\ UNCHANGED <<launch, phases, ended, queue, got, stray>>
    BY <1>15 DEF Send
  <2>2. Cardinality(Reached(S)) \in Nat
    BY ReachedType
  <2> DEFINE n == Cardinality(Reached(S))
  <2> HIDE DEF n
  <2>3. total' \in 0..MaxSent /\ total' >= total + n /\ n \in Nat
    BY <2>1, <2>2 DEF n
  <2>4. sent' \in [Signal -> Nat] /\ \A x \in Signal : sent'[x] <= total'
    BY <2>1, <2>3 DEF n
  <2>5. pending' \in [Process -> SUBSET Carried]
    BY <2>1 DEF Deliver
  <2> QED BY <2>1, <2>3, <2>4, <2>5
<1>16. CASE CommandEnds
  BY <1>16 DEF CommandEnds, Deliver
<1>17. CASE OrphanEnds
  BY <1>17 DEF OrphanEnds, Deliver
<1> QED
  BY <1>1, <1>2, <1>3, <1>4, <1>5, <1>6, <1>7, <1>8, <1>9, <1>10, <1>11, <1>12, <1>13, <1>14,
     <1>15, <1>16, <1>17 DEF Next, Launcher, Child, Taking, World

-----------------------------------------------------------------------------
(* Counting.                                                               *)

Places(q, K)  == { i \in DOMAIN q : q[i] \in K }
Weight(s, K)  == IF s \in K THEN 1 ELSE 0

(* A queue holds no more copies than it has places.                        *)
LEMMA PlacesFinite ==
  ASSUME NEW T, NEW q \in Seq(T), NEW K
  PROVE  /\ IsFiniteSet(Places(q, K)) /\ Cardinality(Places(q, K)) \in Nat
         /\ T \subseteq K => Cardinality(Places(q, K)) = Len(q)
<1>1. IsFiniteSet(1 .. Len(q)) /\ Cardinality(1 .. Len(q)) = Len(q)
  <2>1. Len(q) \in Nat
    OBVIOUS
  <2>2. IsFiniteSet(1 .. Len(q)) /\ Cardinality(1 .. Len(q)) = IF 1 > Len(q) THEN 0 ELSE Len(q) - 1 + 1
    BY <2>1, FS_Interval
  <2> QED BY <2>1, <2>2
<1>2. Places(q, K) \subseteq 1 .. Len(q)
  BY DEF Places
<1>3. T \subseteq K => Places(q, K) = 1 .. Len(q)
  BY DEF Places
<1> QED BY <1>1, <1>2, <1>3, FS_Subset, FS_CardinalityType

(* Taking the head out of a queue takes its copy.                          *)
LEMMA PlacesTail ==
  ASSUME NEW T, NEW q \in Seq(T), q # <<>>, NEW K
  PROVE  Cardinality(Places(Tail(q), K)) + Weight(Head(q), K) <= Cardinality(Places(q, K))
<1> DEFINE P == Places(q, K)
           R == Places(Tail(q), K)
           Q == P \ {1}
           f == [i \in R |-> i + 1]
<1>1. IsFiniteSet(P) /\ Cardinality(P) \in Nat
  BY PlacesFinite
<1>2. IsFiniteSet(R) /\ Cardinality(R) \in Nat
  <2>1. Tail(q) \in Seq(T)
    OBVIOUS
  <2> QED BY <2>1, PlacesFinite
<1>3. \A i \in R : i \in Nat /\ i + 1 \in Q
  BY DEF Places
<1>4. f \in Injection(R, Q)
  BY <1>3 DEF Injection, IsInjective
<1>5. IsFiniteSet(Q) /\ Cardinality(Q) = IF 1 \in P THEN Cardinality(P) - 1 ELSE Cardinality(P)
  BY <1>1, FS_RemoveElement
<1>6. Cardinality(R) <= Cardinality(Q)
  BY <1>4, <1>5, FS_Injection
<1>7. Head(q) \in K <=> 1 \in P
  BY DEF Places
<1> HIDE DEF P, R, Q, f
<1>8. Cardinality(R) + Weight(Head(q), K) <= Cardinality(P)
  BY <1>1, <1>2, <1>5, <1>6, <1>7 DEF Weight
<1> QED BY <1>8 DEF P, R

(* A channel gains at most the signal that is offered to it.               *)
LEMMA PlacesOffer ==
  ASSUME NEW T, NEW q \in Seq(T), NEW s, NEW K
  PROVE  Cardinality(Places(Offer(q, s), K)) <= Cardinality(Places(q, K)) + Weight(s, K)
<1> DEFINE P == Places(q, K)
           R == Places(Append(q, s), K)
<1>1. IsFiniteSet(P) /\ Cardinality(P) \in Nat
  BY PlacesFinite
<1>2. R = IF s \in K THEN P \cup {Len(q) + 1} ELSE P
  BY DEF Places
<1>3. IsFiniteSet(P \cup {Len(q) + 1}) /\ Cardinality(P \cup {Len(q) + 1}) <= Cardinality(P) + 1
  <2> HIDE DEF P
  <2>1. /\ IsFiniteSet(P \cup {Len(q) + 1})
        /\ Cardinality(P \cup {Len(q) + 1}) = IF Len(q) + 1 \in P THEN Cardinality(P) ELSE Cardinality(P) + 1
    BY <1>1, FS_AddElement
  <2> QED BY <1>1, <2>1
<1> HIDE DEF P, R
<1>4. Cardinality(R) <= Cardinality(P) + Weight(s, K)
  BY <1>1, <1>2, <1>3 DEF Weight
<1> QED BY <1>1, <1>4 DEF P, R, Offer, Weight

LEMMA CopiesType ==
  ASSUME Typed, NEW K \in SUBSET Signal
  PROVE  /\ IsFiniteSet(Pending(K)) /\ Cardinality(Pending(K)) \in Nat
         /\ \A p \in Notifier : /\ Queued(p, K) = Places(queue[p], K)
                                /\ Cardinality(Queued(p, K)) \in Nat
         /\ Copies(K) \in Nat
<1>1. IsFiniteSet(Process \X K)
  BY Processes, Signals, FS_Subset, FS_Product
<1>2. IsFiniteSet(Pending(K)) /\ Cardinality(Pending(K)) \in Nat
  BY <1>1, FS_Subset, FS_CardinalityType DEF Pending
<1>3. ASSUME NEW p \in Notifier
      PROVE  Queued(p, K) = Places(queue[p], K) /\ Cardinality(Queued(p, K)) \in Nat
  <2>1. queue[p] \in Seq(Carried)
    BY DEF Typed
  <2>2. Queued(p, K) = Places(queue[p], K)
    BY DEF Queued, Places
  <2> QED BY <2>1, <2>2, PlacesFinite
<1>4. Copies(K) \in Nat
  BY <1>2, <1>3 DEF Copies, Notifier
<1> QED BY <1>2, <1>3, <1>4

(* A signal sent to some processes is pending once more in each at most.   *)
LEMMA DeliveredCopies ==
  ASSUME Typed, NEW K \in SUBSET Signal, NEW R \in SUBSET Process, NEW s, Deliver(R, s)
  PROVE  /\ Cardinality(Pending(K)') <= Cardinality(Pending(K)) + Cardinality(R) * Weight(s, K)
         /\ s \notin K => Pending(K)' = Pending(K)
<1>1. IsFiniteSet(R) /\ Cardinality(R) \in Nat
  BY Processes, FS_Subset, FS_CardinalityType
<1>2. IsFiniteSet(Pending(K)) /\ Cardinality(Pending(K)) \in Nat
  BY CopiesType
<1>3. s \notin K => Pending(K)' = Pending(K)
  BY DEF Pending, Deliver, Typed
<1>4. s \in K => Pending(K)' = Pending(K) \cup (R \X {s})
  BY DEF Pending, Deliver, Typed
<1>5. IsFiniteSet(R \X {s}) /\ Cardinality(R \X {s}) = Cardinality(R)
  <2>1. IsFiniteSet({s}) /\ Cardinality({s}) = 1
    BY FS_Singleton
  <2>2. IsFiniteSet(R \X {s}) /\ Cardinality(R \X {s}) = Cardinality(R) * 1
    BY <1>1, <2>1, FS_Product
  <2> QED BY <1>1, <2>2
<1>6. Cardinality(Pending(K) \cup (R \X {s})) <= Cardinality(Pending(K)) + Cardinality(R)
  <2>1. IsFiniteSet(Pending(K) \cap (R \X {s}))
    BY <1>2, FS_Subset
  <2>2. Cardinality(Pending(K) \cap (R \X {s})) \in Nat
    BY <2>1, FS_CardinalityType
  <2>3. Cardinality(Pending(K) \cup (R \X {s})) =
          Cardinality(Pending(K)) + Cardinality(R) - Cardinality(Pending(K) \cap (R \X {s}))
    BY <1>2, <1>5, FS_Union
  <2> QED BY <1>1, <1>2, <2>2, <2>3
<1>7. CASE s \in K
  <2>1. Cardinality(R) * Weight(s, K) = Cardinality(R)
    BY <1>1, <1>7 DEF Weight
  <2> QED BY <1>4, <1>6, <1>7, <2>1
<1>8. CASE s \notin K
  BY <1>1, <1>2, <1>3, <1>8 DEF Weight
<1> QED BY <1>7, <1>8, <1>3

(* A signal that takes effect is pending no more.                          *)
LEMMA TakenCopies ==
  ASSUME Typed, NEW K \in SUBSET Signal, NEW p \in Process, NEW s \in pending[p],
         pending' = [pending EXCEPT ![p] = @ \ {s}]
  PROVE  Cardinality(Pending(K)') + Weight(s, K) = Cardinality(Pending(K))
<1>1. IsFiniteSet(Pending(K)) /\ Cardinality(Pending(K)) \in Nat
  BY CopiesType
<1>2. Pending(K)' = Pending(K) \ {<<p, s>>}
  BY DEF Pending, Typed
<1>3. s \in K <=> <<p, s>> \in Pending(K)
  BY DEF Pending
<1>4. Cardinality(Pending(K)') = IF <<p, s>> \in Pending(K) THEN Cardinality(Pending(K)) - 1
                                 ELSE Cardinality(Pending(K))
  BY <1>1, <1>2, FS_RemoveElement
<1> QED BY <1>1, <1>3, <1>4 DEF Weight

(* The command that replaces the launcher takes over what is pending there. *)
LEMMA InheritedCopies ==
  ASSUME Typed, NEW K \in SUBSET Signal,
         pending' = [pending EXCEPT !["command"] = pending["launcher"], !["launcher"] = {}]
  PROVE  Cardinality(Pending(K)') <= Cardinality(Pending(K))
<1> DEFINE P == Pending(K)
           R == Pending(K)'
           f == [d \in R |-> IF d[1] = "command" THEN <<"launcher", d[2]>> ELSE d]
<1>1. IsFiniteSet(P)
  BY CopiesType
<1>2. \A d \in R : /\ d = <<d[1], d[2]>> /\ d[1] \in Process \ {"launcher"} /\ d[2] \in K
                   /\ d[2] \in pending[IF d[1] = "command" THEN "launcher" ELSE d[1]]
  <2>1. /\ pending'["command"] = pending["launcher"] /\ pending'["launcher"] = {}
        /\ pending'["child"] = pending["child"]
    BY DEF Typed, Process
  <2> SUFFICES ASSUME NEW d \in R
               PROVE  /\ d = <<d[1], d[2]>> /\ d[1] \in Process \ {"launcher"} /\ d[2] \in K
                      /\ d[2] \in pending[IF d[1] = "command" THEN "launcher" ELSE d[1]]
    OBVIOUS
  <2>2. d = <<d[1], d[2]>> /\ d[1] \in Process /\ d[2] \in K /\ d[2] \in pending'[d[1]]
    BY DEF Pending
  <2> QED BY <2>1, <2>2 DEF Process
<1>3. \A d \in R : f[d] \in P
  <2> SUFFICES ASSUME NEW d \in R PROVE f[d] \in P
    OBVIOUS
  <2>1. CASE d[1] = "command"
    BY <1>2, <2>1 DEF Pending, Process
  <2>2. CASE d[1] # "command"
    <3>1. d \in Process \X K /\ d[2] \in pending[d[1]] /\ f[d] = d
      BY <1>2, <2>2
    <3> QED BY <3>1 DEF Pending
  <2> QED BY <2>1, <2>2
<1> HIDE DEF P, R
<1>4. \A d, e \in R : f[d] = f[e] => d = e
  BY <1>2
<1>5. f \in Injection(R, P)
  BY <1>3, <1>4 DEF Injection, IsInjective
<1> HIDE DEF f
<1>6. Cardinality(R) <= Cardinality(P)
  BY <1>1, <1>5, FS_Injection
<1> QED BY <1>6 DEF P, R

LEMMA SameQueue ==
  ASSUME NEW p, queue'[p] = queue[p], NEW K
  PROVE  Queued(p, K)' = Queued(p, K)
BY DEF Queued

(* An emptied channel holds nothing.                                       *)
LEMMA EmptiedCopies ==
  ASSUME Typed, NEW K \in SUBSET Signal, pending' = pending,
         queue' = queue \/ queue' = [queue EXCEPT !["launcher"] = <<>>]
  PROVE  Copies(K)' <= Copies(K)
<1>1. /\ Cardinality(Pending(K)) \in Nat /\ Cardinality(Queued("launcher", K)) \in Nat
      /\ Cardinality(Queued("child", K)) \in Nat
  BY CopiesType DEF Notifier
<1>2. Pending(K)' = Pending(K)
  BY DEF Pending
<1>3. Queued("child", K)' = Queued("child", K)
  BY DEF Queued, Typed, Notifier
<1>4. Queued("launcher", K)' = Queued("launcher", K) \/ Queued("launcher", K)' = {}
  BY DEF Queued, Typed, Notifier
<1>5. Cardinality({}) = 0
  BY FS_EmptySet
<1> DEFINE Q == Queued("launcher", K)
           R == Queued("launcher", K)'
<1>6. Copies(K) = Cardinality(Pending(K)) + Cardinality(Q) + Cardinality(Queued("child", K))
  BY DEF Copies
<1>7. Copies(K)' = Cardinality(Pending(K)) + Cardinality(R) + Cardinality(Queued("child", K))
  BY <1>2, <1>3 DEF Copies
<1> HIDE DEF Q, R
<1>8. R = Q \/ R = {}
  BY <1>4 DEF Q, R
<1>9. Cardinality(Q) \in Nat
  BY <1>1 DEF Q
<1>10. Cardinality(R) <= Cardinality(Q) /\ Cardinality(R) \in Nat
  <2>1. CASE R = Q
    BY <1>9, <2>1
  <2>2. CASE R = {}
    <3>1. Cardinality(R) = 0
      BY <1>5, <2>2
    <3> QED BY <1>9, <3>1
  <2> QED BY <1>8, <2>1, <2>2
<1> QED BY <1>1, <1>6, <1>7, <1>9, <1>10

(* The channels, by the copies in each.                                    *)
LEMMA CopiesSum ==
  ASSUME Typed, Typed', NEW K \in SUBSET Signal
  PROVE  /\ Cardinality(Pending(K)) \in Nat /\ Cardinality(Pending(K)') \in Nat
         /\ \A p \in Notifier : /\ Cardinality(Places(queue[p], K)) \in Nat
                                /\ Cardinality(Places(queue'[p], K)) \in Nat
         /\ Copies(K) = Cardinality(Pending(K)) + Cardinality(Places(queue["launcher"], K))
                                                + Cardinality(Places(queue["child"], K))
         /\ Copies(K)' = Cardinality(Pending(K)') + Cardinality(Places(queue'["launcher"], K))
                                                  + Cardinality(Places(queue'["child"], K))
<1>1. IsFiniteSet(Process \X K)
  BY Processes, Signals, FS_Subset, FS_Product
<1>2. Cardinality(Pending(K)) \in Nat /\ Cardinality(Pending(K)') \in Nat
  BY <1>1, FS_Subset, FS_CardinalityType DEF Pending
<1>3. ASSUME NEW p \in Notifier
      PROVE  /\ Cardinality(Places(queue[p], K)) \in Nat /\ Cardinality(Places(queue'[p], K)) \in Nat
             /\ Queued(p, K) = Places(queue[p], K) /\ Queued(p, K)' = Places(queue'[p], K)
  <2>1. queue[p] \in Seq(Carried) /\ queue'[p] \in Seq(Carried)
    BY DEF Typed, Carried
  <2>2. Queued(p, K) = Places(queue[p], K) /\ Queued(p, K)' = Places(queue'[p], K)
    BY DEF Queued, Places
  <2> QED BY <2>1, <2>2, PlacesFinite
<1> QED BY <1>2, <1>3 DEF Copies, Notifier

(* Forwarding moves a copy from a channel to a process, or loses it.       *)
LEMMA ForwardedCopies ==
  ASSUME Typed, Typed', NEW K \in SUBSET Signal, NEW p \in Notifier, queue[p] # <<>>,
         NEW R \in SUBSET Process, Cardinality(R) <= 1,
         Deliver(R, Head(queue[p])) \/ pending' = pending,
         queue' = [queue EXCEPT ![p] = Rest(@)]
  PROVE  Copies(K)' <= Copies(K)
<1> DEFINE h == Head(queue[p])
<1>1. queue[p] \in Seq(Carried) /\ queue'[p] = Tail(queue[p])
      /\ \A q \in Notifier \ {p} : queue'[q] = queue[q]
  BY DEF Typed, Rest
<1>2. Cardinality(Places(queue'[p], K)) + Weight(h, K) <= Cardinality(Places(queue[p], K))
  BY <1>1, PlacesTail
<1>3. Cardinality(R) \in 0..1 /\ Cardinality(Pending(K)) \in Nat /\ Cardinality(Pending(K)') \in Nat
  BY Processes, FS_Subset, FS_CardinalityType, CopiesSum
<1>4. Cardinality(Pending(K)') <= Cardinality(Pending(K)) + Weight(h, K)
  <2>1. CASE Deliver(R, h)
    <3>1. Cardinality(Pending(K)') <= Cardinality(Pending(K)) + Cardinality(R) * Weight(h, K)
      BY <2>1, DeliveredCopies
    <3>2. Cardinality(R) * Weight(h, K) <= Weight(h, K) /\ Cardinality(R) * Weight(h, K) \in Nat
      BY <1>3 DEF Weight
    <3> QED BY <1>3, <3>1, <3>2 DEF Weight
  <2>2. CASE pending' = pending
    BY <1>3, <2>2 DEF Pending, Weight
  <2> QED BY <2>1, <2>2
<1>5. Weight(h, K) \in Nat
  BY DEF Weight
<1> HIDE DEF h
<1>6. CASE p = "launcher"
  <2>1. queue'["child"] = queue["child"]
    BY <1>1, <1>6 DEF Notifier
  <2> QED BY <1>2, <1>3, <1>4, <1>5, <1>6, <2>1, CopiesSum DEF Notifier
<1>7. CASE p = "child"
  <2>1. queue'["launcher"] = queue["launcher"]
    BY <1>1, <1>7 DEF Notifier
  <2> QED BY <1>2, <1>3, <1>4, <1>5, <1>7, <2>1, CopiesSum DEF Notifier
<1> QED BY <1>6, <1>7 DEF Notifier

(* Neither does a process that takes a signal into its channel add one.    *)
LEMMA CollectedCopies ==
  ASSUME Typed, Typed', NEW K \in SUBSET Signal, NEW p \in Notifier, NEW s \in pending[p],
         TakeSignal(p, s)
  PROVE  Copies(K)' <= Copies(K)
<1>1. queue[p] \in Seq(Carried) /\ p \in Process
  BY DEF Typed, Notifier, Process
<1>2. \A q \in Notifier \ {p} : queue'[q] = queue[q]
  BY DEF Typed, TakeSignal
<1>3. queue'[p] \in {queue[p], Offer(queue[p], s)}
  BY DEF Typed, TakeSignal
<1>4. Cardinality(Places(queue'[p], K)) <= Cardinality(Places(queue[p], K)) + Weight(s, K)
  <2>1. Cardinality(Places(queue[p], K)) \in Nat
    BY CopiesSum
  <2> QED BY <1>1, <1>3, <2>1, PlacesOffer DEF Weight
<1>5. Cardinality(Pending(K)') + Weight(s, K) = Cardinality(Pending(K))
  BY <1>1, TakenCopies DEF TakeSignal
<1>6. Weight(s, K) \in Nat
  BY DEF Weight
<1>7. CASE p = "launcher"
  <2>1. queue'["child"] = queue["child"]
    BY <1>2, <1>7 DEF Notifier
  <2> QED BY <1>4, <1>5, <1>6, <1>7, <2>1, CopiesSum DEF Notifier
<1>8. CASE p = "child"
  <2>1. queue'["launcher"] = queue["launcher"]
    BY <1>2, <1>8 DEF Notifier
  <2> QED BY <1>4, <1>5, <1>6, <1>8, <2>1, CopiesSum DEF Notifier
<1> QED BY <1>7, <1>8 DEF Notifier

(* What a step makes of the copies on their way: the command is given one, *)
(* or some are sent, or none is added.                                     *)
LEMMA CopiesStep ==
  ASSUME Typed, Typed', [Next]_vars, NEW K \in SUBSET Signal
  PROVE  \/ Copies(K)' <= Copies(K) /\ UNCHANGED <<sent, total, got>>
         \/ \E s \in Signal :
              /\ Copies(K)' + Weight(s, K) <= Copies(K)
              /\ got' = [got EXCEPT ![s] = @ + 1] /\ UNCHANGED <<sent, total>>
         \/ \E s \in Signal, n \in Nat :
              /\ Copies(K)' <= Copies(K) + n * Weight(s, K)
              /\ sent' = [sent EXCEPT ![s] = @ + n] /\ total' = total + n /\ got' = got
<1> DEFINE Fewer == Copies(K)' <= Copies(K) /\ UNCHANGED <<sent, total, got>>
<1> USE DEF counts
<1>1. CASE UNCHANGED <<pending, queue, sent, total, got>>
  <2>1. Fewer
    BY <1>1, EmptiedCopies
  <2> QED BY <2>1
<1>2. CASE \/ Subscribe \/ WaitChild \/ ReportReady \/ SubscribeReaper \/ ForkCommand \/ Wait4
           \/ UNCHANGED vars
  <2>1. UNCHANGED <<pending, queue, sent, total, got>>
    BY <1>2 DEF Subscribe, WaitChild, ReportReady, SubscribeReaper, ForkCommand, Wait4, vars
  <2> QED BY <1>1, <2>1
<1>3. CASE StartChild \/ ReadSetup
  <2>1. /\ pending' = pending /\ UNCHANGED <<sent, total, got>>
        /\ queue' = queue \/ queue' = [queue EXCEPT !["launcher"] = <<>>]
    BY <1>3 DEF StartChild, ReadSetup, Unavailable
  <2>2. Fewer
    BY <2>1, EmptiedCopies
  <2> QED BY <2>2
<1>4. CASE ForwardToChild
  <2> DEFINE R == {"child"} \cap {p \in Process : Alive(p)}
  <2>1. R \in SUBSET Process /\ Cardinality(R) <= 1
    <3>1. IsFiniteSet({"child"}) /\ Cardinality({"child"}) = 1 /\ R \in SUBSET {"child"}
      BY FS_Singleton
    <3> QED BY <3>1, FS_Subset
  <2>2. /\ queue["launcher"] # <<>> /\ Deliver(R, Head(queue["launcher"]))
        /\ queue' = [queue EXCEPT !["launcher"] = Rest(@)] /\ UNCHANGED <<sent, total, got>>
    BY <1>4 DEF ForwardToChild
  <2> HIDE DEF R
  <2>3. Fewer
    BY <2>1, <2>2, ForwardedCopies DEF Notifier
  <2> QED BY <2>3
<1>5. CASE ReceiveSignal
  <2> DEFINE R == {p \in {"command"} : Alive(p)}
  <2>1. R \in SUBSET Process /\ Cardinality(R) <= 1
    <3>1. IsFiniteSet({"command"}) /\ Cardinality({"command"}) = 1 /\ R \in SUBSET {"command"}
      BY FS_Singleton
    <3>2. R \in SUBSET Process
      BY DEF Process
    <3> QED BY <3>1, <3>2, FS_Subset
  <2>2. /\ queue["child"] # <<>>
        /\ Deliver(R, Head(queue["child"])) \/ pending' = pending
        /\ queue' = [queue EXCEPT !["child"] = Rest(@)] /\ UNCHANGED <<sent, total, got>>
    BY <1>5 DEF ReceiveSignal
  <2> HIDE DEF R
  <2>3. Fewer
    BY <2>1, <2>2, ForwardedCopies DEF Notifier
  <2> QED BY <2>3
<1>6. CASE ExecCommand
  <2>1. /\ pending' = [pending EXCEPT !["command"] = pending["launcher"], !["launcher"] = {}]
        /\ queue' = queue /\ UNCHANGED <<sent, total, got>>
    BY <1>6 DEF ExecCommand
  <2>2. Cardinality(Pending(K)') <= Cardinality(Pending(K))
    BY <2>1, InheritedCopies
  <2>3. Copies(K)' <= Copies(K)
    BY <2>1, <2>2, CopiesSum DEF Notifier
  <2> QED BY <2>1, <2>3
<1>7. ASSUME NEW p \in Notifier, NEW s \in pending[p], TakeSignal(p, s) PROVE Fewer
  BY <1>7, CollectedCopies DEF TakeSignal
<1>8. CASE CommandEnds \/ OrphanEnds
  <2>1. queue' = queue /\ UNCHANGED <<sent, total, got>>
    BY <1>8 DEF CommandEnds, OrphanEnds
  <2>2. pending' = pending \/ Deliver({"child"}, "CHLD")
    BY <1>8 DEF CommandEnds, OrphanEnds
  <2>3. {"child"} \in SUBSET Process /\ "CHLD" \notin K
    BY Signals DEF Process
  <2>4. Pending(K)' = Pending(K)
    <3>1. CASE pending' = pending
      BY <3>1 DEF Pending
    <3>2. CASE Deliver({"child"}, "CHLD")
      BY <2>3, <3>2, DeliveredCopies
    <3> QED BY <2>2, <3>1, <3>2
  <2>5. Copies(K)' <= Copies(K)
    BY <2>1, <2>4, CopiesSum DEF Notifier
  <2> QED BY <2>1, <2>5
<1>9. ASSUME NEW s \in Signal, CommandTakesSignal(s)
      PROVE  /\ Copies(K)' + Weight(s, K) <= Copies(K)
             /\ got' = [got EXCEPT ![s] = @ + 1] /\ UNCHANGED <<sent, total>>
  <2>1. /\ s \in pending["command"] /\ pending' = [pending EXCEPT !["command"] = @ \ {s}]
        /\ queue' = queue
        /\ got' = [got EXCEPT ![s] = @ + 1] /\ UNCHANGED <<sent, total>>
    BY <1>9 DEF CommandTakesSignal
  <2>2. Cardinality(Pending(K)') + Weight(s, K) = Cardinality(Pending(K))
    BY <2>1, TakenCopies DEF Process
  <2>3. Weight(s, K) \in Nat
    BY DEF Weight
  <2>4. Copies(K)' + Weight(s, K) <= Copies(K)
    BY <2>1, <2>2, <2>3, CopiesSum DEF Notifier
  <2> QED BY <2>1, <2>4
<1>10. ASSUME NEW s \in Signal, Send(s)
       PROVE  \E n \in Nat :
                /\ Copies(K)' <= Copies(K) + n * Weight(s, K)
                /\ sent' = [sent EXCEPT ![s] = @ + n] /\ total' = total + n /\ got' = got
  <2>1. PICK S \in {{"launcher"}, Process} :
          /\ total' = total + Cardinality(Reached(S))
          /\ Deliver(Reached(S), s)
          /\ sent' = [sent EXCEPT ![s] = @ + Cardinality(Reached(S))]
          /\ queue' = queue /\ got' = got
    BY <1>10 DEF Send
  <2>2. Reached(S) \in SUBSET Process /\ Cardinality(Reached(S)) \in Nat
    BY ReachedType
  <2> DEFINE n == Cardinality(Reached(S))
  <2>3. Cardinality(Pending(K)') <= Cardinality(Pending(K)) + n * Weight(s, K)
    BY <2>1, <2>2, DeliveredCopies
  <2>4. n \in Nat /\ total' = total + n /\ sent' = [sent EXCEPT ![s] = @ + n]
    BY <2>1, <2>2
  <2> HIDE DEF n
  <2>5. n * Weight(s, K) \in Nat
    BY <2>4 DEF Weight
  <2>6. Copies(K)' <= Copies(K) + n * Weight(s, K)
    <3> DEFINE m == n * Weight(s, K)
    <3>1. m \in Nat /\ Cardinality(Pending(K)') <= Cardinality(Pending(K)) + m
      BY <2>3, <2>5
    <3> HIDE DEF m
    <3>2. Copies(K)' <= Copies(K) + m
      BY <2>1, <3>1, CopiesSum DEF Notifier
    <3> QED BY <3>2 DEF m
  <2> QED BY <2>1, <2>4, <2>6
<1> QED
  BY <1>2, <1>3, <1>4, <1>5, <1>6, <1>7, <1>8, <1>9, <1>10 DEF Next, Launcher, Child, Taking, World

-----------------------------------------------------------------------------
(* The copies of a signal that are on their way or were given to the       *)
(* command have been sent, and so have all that are on their way at all.   *)
Conserved == NothingInvented /\ Copies(Signal) <= total

LEMMA ConservedInit == Init => Conserved
<1> SUFFICES ASSUME Init PROVE Conserved
  OBVIOUS
<1>1. ASSUME NEW K \in SUBSET Signal PROVE Copies(K) = 0
  <2>1. Pending(K) = {} /\ Queued("launcher", K) = {} /\ Queued("child", K) = {}
    BY DEF Init, Pending, Queued, Notifier, Process
  <2>2. Cardinality({}) = 0
    BY FS_EmptySet
  <2> QED BY <2>1, <2>2 DEF Copies
<1> QED BY <1>1 DEF Init, Conserved, NothingInvented

LEMMA ConservedStep ==
  ASSUME Typed, Typed', [Next]_vars, Conserved
  PROVE  Conserved'
<1>1. ASSUME NEW x \in Signal PROVE got'[x] + Copies({x})' <= sent'[x]
  <2> DEFINE k == Copies({x})
             l == Copies({x})'
  <2>1. k \in Nat /\ l \in Nat
    <3>1. Copies({x}) \in Nat
      BY CopiesType
    <3>2. Copies({x})' \in Nat
      BY CopiesSum DEF Notifier
    <3> QED BY <3>1, <3>2
  <2>2. got[x] + k <= sent[x] /\ got \in [Signal -> Nat] /\ sent \in [Signal -> Nat]
    BY DEF Conserved, NothingInvented, Typed
  <2>3. \/ l <= k /\ UNCHANGED <<sent, total, got>>
        \/ \E s \in Signal :
             /\ l + Weight(s, {x}) <= k
             /\ got' = [got EXCEPT ![s] = @ + 1] /\ UNCHANGED <<sent, total>>
        \/ \E s \in Signal, n \in Nat :
             /\ l <= k + n * Weight(s, {x})
             /\ sent' = [sent EXCEPT ![s] = @ + n] /\ total' = total + n /\ got' = got
    BY CopiesStep
  <2> HIDE DEF k, l
  <2>4. ASSUME l <= k, UNCHANGED <<sent, total, got>>
        PROVE  got'[x] + l <= sent'[x]
    BY <2>1, <2>2, <2>4
  <2>5. ASSUME NEW s \in Signal, l + Weight(s, {x}) <= k,
               got' = [got EXCEPT ![s] = @ + 1], UNCHANGED <<sent, total>>
        PROVE  got'[x] + l <= sent'[x]
    BY <2>1, <2>2, <2>5 DEF Weight
  <2>6. ASSUME NEW s \in Signal, NEW n \in Nat, l <= k + n * Weight(s, {x}),
               sent' = [sent EXCEPT ![s] = @ + n], got' = got
        PROVE  got'[x] + l <= sent'[x]
    <3>1. CASE s = x
      BY <2>1, <2>2, <2>6, <3>1 DEF Weight
    <3>2. CASE s # x
      BY <2>1, <2>2, <2>6, <3>2 DEF Weight
    <3> QED BY <3>1, <3>2
  <2>7. got'[x] + l <= sent'[x]
    BY <2>3, <2>4, <2>5, <2>6
  <2> QED BY <2>7 DEF l
<1>2. Copies(Signal)' <= total'
  <2> DEFINE k == Copies(Signal)
             l == Copies(Signal)'
  <2>1. k \in Nat /\ l \in Nat
    <3>1. Copies(Signal) \in Nat
      BY CopiesType
    <3>2. Copies(Signal)' \in Nat
      BY CopiesSum DEF Notifier
    <3> QED BY <3>1, <3>2
  <2>2. k <= total /\ total \in Nat
    BY RelayAssumption DEF Conserved, Typed
  <2>3. \/ l <= k /\ UNCHANGED <<sent, total, got>>
        \/ \E s \in Signal :
             /\ l + Weight(s, Signal) <= k
             /\ got' = [got EXCEPT ![s] = @ + 1] /\ UNCHANGED <<sent, total>>
        \/ \E s \in Signal, n \in Nat :
             /\ l <= k + n * Weight(s, Signal)
             /\ sent' = [sent EXCEPT ![s] = @ + n] /\ total' = total + n /\ got' = got
    BY CopiesStep
  <2> HIDE DEF k, l
  <2>4. \A s \in Signal : Weight(s, Signal) = 1
    BY DEF Weight
  <2>5. l <= total'
    BY <2>1, <2>2, <2>3, <2>4
  <2> QED BY <2>5 DEF l
<1> QED BY <1>1, <1>2 DEF Conserved, NothingInvented

-----------------------------------------------------------------------------
(* No SIGCHLD is missed while the reaper's channel has room.               *)

(* Nothing is to be reaped before the reaper forks.                        *)
NothingBefore ==
  /\ child \in {"absent", "setup", "ready"} => orphans = 0
  /\ child \in {"setup", "ready"} => command = "none"

Waking == NothingBefore /\ (total < QueueSize => ReaperAlert)

(* A channel without SIGCHLD that is full holds as many copies of signals. *)
LEMMA FullOfCopies ==
  ASSUME Typed, Conserved, Len(queue["child"]) >= QueueSize,
         \A i \in DOMAIN queue["child"] : queue["child"][i] # "CHLD"
  PROVE  total >= QueueSize
<1> DEFINE q == queue["child"]
<1>1. q \in Seq(Carried) /\ Len(q) \in Nat
  BY DEF Typed, Notifier
<1>2. q \in Seq(Signal)
  <2>1. \A i \in 1 .. Len(q) : q[i] \in Signal
    BY <1>1 DEF Carried
  <2> QED BY <1>1, <2>1
<1>3. Cardinality(Queued("child", Signal)) = Len(q)
  <2>1. Cardinality(Places(q, Signal)) = Len(q)
    BY <1>2, PlacesFinite
  <2> QED BY <2>1 DEF Queued, Places
<1>4. Copies(Signal) >= Len(q)
  BY <1>1, <1>3, CopiesType DEF Copies, Notifier
<1>5. Copies(Signal) \in Nat
  BY CopiesType
<1> QED BY <1>1, <1>4, <1>5, RelayAssumption DEF Conserved, Typed

(* A SIGCHLD on its way to the child.                                      *)
Awake == \/ "CHLD" \in pending["child"]
         \/ \E i \in DOMAIN queue["child"] : queue["child"][i] = "CHLD"
Idle  == orphans = 0 /\ command # "zombie"

LEMMA WakingStep ==
  ASSUME Typed, Typed', Conserved, KillInv, [Next]_vars, Waking
  PROVE  Waking'
<1> USE DEF launch, phases, ended, counts
<1>1. NothingBefore'
  <2> USE DEF Waking, NothingBefore, KillInv, NoChildBeside, NothingYet
  <2>1. CASE UNCHANGED <<child, command, orphans>>
    BY <2>1
  <2>2. CASE \/ Subscribe \/ ReadSetup \/ ForwardToChild \/ WaitChild
             \/ (\E s \in Signal : CommandTakesSignal(s) \/ Send(s)) \/ UNCHANGED vars
    BY <2>1, <2>2 DEF Subscribe, ReadSetup, ForwardToChild, WaitChild,
          CommandTakesSignal, Send, vars
  <2>3. CASE StartChild
    BY <2>3 DEF StartChild, Unavailable
  <2>4. CASE ExecCommand
    BY <2>4 DEF ExecCommand
  <2>5. CASE ReportReady \/ SubscribeReaper \/ ForkCommand \/ ReceiveSignal \/ Wait4
    BY <2>5 DEF ReportReady, SubscribeReaper, ForkCommand, ReceiveSignal, Wait4, AfterOrphan,
          AfterCommand
  <2>6. ASSUME NEW p \in Notifier, NEW s \in pending[p], TakeSignal(p, s) PROVE NothingBefore'
    BY <2>6 DEF TakeSignal
  <2>7. CASE CommandEnds
    BY <2>7 DEF CommandEnds
  <2>8. CASE OrphanEnds
    BY <2>8 DEF OrphanEnds, Alive
  <2> QED
    BY <2>2, <2>3, <2>4, <2>5, <2>6, <2>7, <2>8 DEF Next, Launcher, Child, Taking, World
<1>2. total \in Nat /\ total' \in Nat /\ total <= total'
  <2>1. total \in Nat /\ total' \in Nat
    BY RelayAssumption DEF Typed
  <2>2. {} \in SUBSET Signal
    OBVIOUS
  <2>3. total' = total \/ \E n \in Nat : total' = total + n
    BY <2>2, CopiesStep
  <2> QED BY <2>1, <2>3
<1> SUFFICES ASSUME total' < QueueSize, child' \in {"fork", "loop"}, ~Idle'
             PROVE  Awake'
  BY <1>1 DEF Waking, ReaperAlert, Idle, Awake, Typed
<1>3. child \in {"fork", "loop"} /\ ~Idle => Awake
  BY <1>2, RelayAssumption DEF Waking, ReaperAlert, Idle, Awake, Typed
<1>4. ASSUME UNCHANGED <<command, orphans, queue>>, child \in {"fork", "loop"},
             "CHLD" \in pending["child"] => "CHLD" \in pending'["child"]
      PROVE  Awake'
  BY <1>3, <1>4 DEF Idle, Awake
<1>5. CASE UNCHANGED vars
  BY <1>4, <1>5 DEF vars
<1>6. CASE Subscribe \/ WaitChild \/ (\E s \in Signal : CommandTakesSignal(s))
  <2>1. UNCHANGED <<child, command, orphans, queue>>
    BY <1>6 DEF Subscribe, WaitChild, CommandTakesSignal
  <2>2. "CHLD" \in pending["child"] => "CHLD" \in pending'["child"]
    BY <1>6 DEF Subscribe, WaitChild, CommandTakesSignal, Typed, Process
  <2> QED BY <1>4, <2>1, <2>2
<1>7. CASE StartChild \/ ReadSetup
  BY <1>3, <1>7 DEF StartChild, ReadSetup, Unavailable, Idle, Awake, Typed, Notifier
<1>8. CASE ForwardToChild
  <2>1. /\ child' = child /\ command' = command /\ orphans' = orphans
        /\ queue'["child"] = queue["child"]
    BY <1>8 DEF ForwardToChild, Typed, Notifier
  <2>2. "CHLD" \in pending["child"] => "CHLD" \in pending'["child"]
    BY <1>8 DEF ForwardToChild, Deliver, Typed, Process
  <2> QED BY <1>3, <2>1, <2>2 DEF Idle, Awake
<1>9. CASE ExecCommand
  <2>1. child \notin {"fork", "loop"} /\ child' = child
    BY <1>9 DEF ExecCommand, KillInv, NoChildBeside
  <2> QED BY <2>1
<1>10. CASE ReportReady \/ SubscribeReaper
  BY <1>10 DEF ReportReady, SubscribeReaper, Waking, NothingBefore, Idle
<1>11. CASE ForkCommand
  BY <1>3, <1>11 DEF ForkCommand, Idle, Awake
<1>12. CASE ReceiveSignal
  <2> DEFINE q == queue["child"]
  <2>1. /\ child = "loop" /\ child' = "loop" /\ command' = command /\ orphans' = orphans
        /\ q \in Seq(Carried) /\ q # <<>> /\ Head(q) # "CHLD"
        /\ queue'["child"] = Tail(q)
    BY <1>12 DEF ReceiveSignal, Typed, Rest, Notifier
  <2>2. "CHLD" \in pending["child"] => "CHLD" \in pending'["child"]
    BY <1>12 DEF ReceiveSignal, Deliver, Typed, Process
  <2> HIDE DEF q
  <2>3. ASSUME NEW i \in DOMAIN q, q[i] = "CHLD"
        PROVE  \E k \in DOMAIN Tail(q) : Tail(q)[k] = "CHLD"
    <3>1. i # 1 /\ i \in 1 .. Len(q)
      BY <2>1, <2>3
    <3>2. i - 1 \in DOMAIN Tail(q) /\ Tail(q)[i - 1] = q[i]
      BY <2>1, <3>1
    <3> QED BY <2>3, <3>2
  <2>4. queue["child"] = q
    BY DEF q
  <2> QED BY <1>3, <2>1, <2>2, <2>3, <2>4 DEF Idle, Awake
<1>13. CASE Wait4
  BY <1>13 DEF Wait4, Reaped, AfterOrphan, AfterCommand, Idle, Typed
<1>14. ASSUME NEW p \in Notifier, NEW s \in pending[p], TakeSignal(p, s) PROVE Awake'
  <2>1. child' = child /\ command' = command /\ orphans' = orphans /\ Awake
    <3>1. child' = child /\ command' = command /\ orphans' = orphans
      BY <1>14 DEF TakeSignal
    <3> QED BY <1>3, <3>1 DEF Idle
  <2> DEFINE q == queue["child"]
  <2>2. q \in Seq(Carried)
    BY DEF Typed, Notifier
  <2>3. CASE p # "child" \/ s # "CHLD"
    <3>1. "CHLD" \in pending["child"] => "CHLD" \in pending'["child"]
      BY <1>14, <2>3 DEF TakeSignal, Typed, Process
    <3>2. queue'["child"] \in {q, Append(q, s)}
      BY <1>14 DEF TakeSignal, Offer, Typed, Notifier
    <3>3. \A i \in DOMAIN q : i \in DOMAIN queue'["child"] /\ queue'["child"][i] = q[i]
      BY <2>2, <3>2
    <3> QED BY <2>1, <3>1, <3>3 DEF Awake
  <2>4. CASE p = "child" /\ s = "CHLD"
    <3>1. queue'["child"] = Offer(q, "CHLD")
      BY <1>14, <2>1, <2>4 DEF TakeSignal, Subscribed, Typed, Notifier
    <3>2. CASE Len(q) < QueueSize
      <4>1. queue'["child"] = Append(q, "CHLD")
        BY <3>1, <3>2 DEF Offer
      <4>2. Len(q) + 1 \in DOMAIN queue'["child"] /\ queue'["child"][Len(q) + 1] = "CHLD"
        BY <2>2, <4>1
      <4> QED BY <4>2 DEF Awake
    <3>3. CASE ~(Len(q) < QueueSize)
      <4>1. queue'["child"] = q
        BY <3>1, <3>3 DEF Offer
      <4>2. Len(q) >= QueueSize
        BY <2>2, <3>3, RelayAssumption
      <4>3. \E i \in DOMAIN q : q[i] = "CHLD"
        BY <1>2, <4>2, FullOfCopies, RelayAssumption
      <4> QED BY <4>1, <4>3 DEF Awake
    <3> QED BY <3>2, <3>3
  <2> QED BY <2>3, <2>4
<1>15. ASSUME NEW s \in Signal, Send(s) PROVE Awake'
  <2>1. UNCHANGED <<child, command, orphans, queue>>
    BY <1>15 DEF Send
  <2>2. "CHLD" \in pending["child"] => "CHLD" \in pending'["child"]
    BY <1>15 DEF Send, Deliver, Typed, Process
  <2> QED BY <1>4, <2>1, <2>2
<1>16. CASE CommandEnds
  <2>1. launcher # "payload"
    BY <1>16 DEF CommandEnds, KillInv, NoChildBeside
  <2> QED BY <1>16, <2>1 DEF CommandEnds, Deliver, Awake, Typed, Process
<1>17. CASE OrphanEnds
  BY <1>17 DEF OrphanEnds, Deliver, Awake, Typed, Process
<1> QED
  BY <1>5, <1>6, <1>7, <1>8, <1>9, <1>10, <1>11, <1>12, <1>13, <1>14, <1>15, <1>16, <1>17
     DEF Next, Launcher, Child, Taking, World

-----------------------------------------------------------------------------
RelayInv == Typed /\ Conserved /\ Waking

LEMMA RelayAlways == Spec => []RelayInv
<1>1. Init => RelayInv
  BY TypedInit, ConservedInit DEF Init, RelayInv, Waking, NothingBefore, ReaperAlert
<1>2. RelayInv /\ KillInv /\ [Next]_vars => RelayInv'
  BY TypedStep, ConservedStep, WakingStep DEF RelayInv
<1> QED BY <1>1, <1>2, KillInductive, PTL DEF Spec

(* The variables have their types, and no channel is overfull.             *)
THEOREM TypeCorrect == Spec => []TypeOK
<1>1. RelayInv => TypeOK
  <2> SUFFICES ASSUME RelayInv PROVE TypeOK
    OBVIOUS
  <2>1. Typed /\ NothingInvented
    BY DEF RelayInv, Conserved
  <2>2. ASSUME NEW s \in Signal PROVE sent[s] \in 0..total /\ got[s] \in 0..MaxSent
    <3>1. Copies({s}) \in Nat
      BY <2>1, CopiesType
    <3> QED BY <2>1, <3>1, RelayAssumption DEF Typed, NothingInvented
  <2>3. sent \in [Signal -> 0..total] /\ got \in [Signal -> 0..MaxSent]
    BY <2>1, <2>2 DEF Typed
  <2>4. ASSUME NEW p \in Notifier
        PROVE  /\ Len(queue[p]) <= QueueSize
               /\ \A i \in DOMAIN queue[p] : queue[p][i] \in Signal \cup {"CHLD"}
    BY <2>1 DEF Typed, Carried
  <2> QED BY <2>1, <2>3, <2>4 DEF Typed, TypeOK, Carried
<1> QED BY <1>1, RelayAlways, PTL

(* The command is given at most the copies of a signal that were sent.     *)
THEOREM InventsNothing == Spec => []NothingInvented
<1>1. RelayInv => NothingInvented
  BY DEF RelayInv, Conserved
<1> QED BY <1>1, RelayAlways, PTL

(* Until as many signals have been sent as a channel holds, the reaper does *)
(* not wait with somebody to be reaped and no SIGCHLD on its way.          *)
THEOREM StaysAlert == Spec => [](total < QueueSize => ReaperAlert)
<1>1. RelayInv => (total < QueueSize => ReaperAlert)
  BY DEF RelayInv, Waking
<1> QED BY <1>1, RelayAlways, PTL

(* With fewer signals than a channel holds it never does.                  *)
THEOREM AlwaysAlert ==
  ASSUME MaxSent < QueueSize
  PROVE  Spec => []ReaperAlert
<1>1. RelayInv => ReaperAlert
  BY RelayAssumption DEF RelayInv, Waking, Typed
<1> QED BY <1>1, RelayAlways, PTL
=============================================================================
