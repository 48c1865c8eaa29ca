--------------------------- MODULE LustreCluster ---------------------------
(***************************************************************************)
(* infra/scripts/lustre-cluster.sh: a laptop brings a two-node Lustre      *)
(* cluster up and down by piping phase scripts to the nodes over ssh.      *)
(*                                                                         *)
(* A command is a sequence of phases; a phase runs one script per node in  *)
(* parallel and waits for both.  A script is a sequence of operations, of  *)
(* which a failed one ends the script; what it says reaches the laptop as  *)
(* PHASE= lines.  A script whose ssh is gone says no more, but the node    *)
(* may go on with it, beside whatever command the laptop runs next.        *)
(***************************************************************************)
EXTENDS Integers, Sequences

CONSTANTS
  MaxFaults,  \* bound: operations that fail or hang on a node, and ssh
              \* connections lost and scripts interrupted, taken together
  MaxReboots  \* bound: node reboots

ASSUME LustreAssumption == MaxFaults \in Nat /\ MaxReboots \in Nat

Nodes   == {"spark01", "spark02"}
Servers == {"MGS", "MDT0", "OST0", "OST1"}
Clients == {"client01", "client02"}
NodeOf(x) == IF x \in {"OST1", "client02"} THEN "spark02" ELSE "spark01"

\* Operations of the phase scripts.
Mount(x)  == [op |-> "mount", what |-> x]
Umount(x) == [op |-> "umount", what |-> x]
Import    == [op |-> "import", what |-> "pools"]
Modprobe  == [op |-> "modprobe", what |-> "modules"]
Configure == [op |-> "configure", what |-> "LNet"]
Abort     == [op |-> "abort", what |-> "recovery"]
Export    == [op |-> "export", what |-> "pools"]
\* Not an operation: the script ended, its ssh waits for the mount of x.
Linger(x) == [op |-> "linger", what |-> x]

Ops ==
  {Mount(x) : x \in Servers \cup Clients}
  \cup {Umount(x) : x \in Servers \cup Clients}
  \cup {Linger(x) : x \in Servers}
  \cup {Import, Modprobe, Configure, Abort, Export}

On(first, second) == [n \in Nodes |-> IF n = "spark01" THEN first ELSE second]
Prepare == <<Import, Modprobe, Configure>>

\* do_bringup(): the scripts of its phases; the two empty ones are the
\* laptop's own checks (verify_lnet_ping, verify_ost_registration).
BringupPhases ==
  << On(Prepare, Prepare),
     On(<<>>, <<>>),
     On(<<Abort, Mount("MGS")>>, <<>>),
     On(<<Abort, Mount("MDT0")>>, <<>>),
     On(<<Abort, Mount("OST0")>>, <<Abort, Mount("OST1")>>),
     On(<<>>, <<>>),
     On(<<Mount("client01")>>, <<Mount("client02")>>) >>
PingPhase == 2
RegistrationPhase == 6

\* do_teardown(): T1, T2a and T2b.  Variant: MGS before MDT0.
TeardownPhases_Swapped ==
  << On(<<Umount("client01")>>, <<Umount("client02")>>),
     On(<<>>, <<Umount("OST1"), Export>>),
     On(<<Umount("OST0"), Umount("MGS"), Umount("MDT0"), Export>>, <<>>) >>
TeardownPhases ==
  << On(<<Umount("client01")>>, <<Umount("client02")>>),
     On(<<>>, <<Umount("OST1"), Export>>),
     On(<<Umount("OST0"), Umount("MDT0"), Umount("MGS"), Export>>, <<>>) >>

PhasesOf(c) == IF c = "bringup" THEN BringupPhases ELSE TeardownPhases

VARIABLES
  pools,      \* pools[n]: node n has its zpools imported
  modules,    \* modules[n]: zfs, lnet, lustre and osd_zfs are loaded
  lnet,       \* lnet[n]: the o2ib NID is advertised
  mounted,    \* Lustre targets and clients that are mounted
  hung,       \* server mounts left behind in recovery
  orphans,    \* scripts without an ssh: [node, todo, abort]
  cmd,        \* the command the laptop runs, or "none"
  abort,      \* the command was given --abort-recovery
  phase,      \* index of the phase
  left,       \* left[n]: operations the script on n has left
  worst,      \* WORST_STATUS: 0 ok, 1 warn, 2 red
  summary,    \* what the last command printed
  disturbed,  \* ssh loss, reboot, late mount or orphan during the command
  faults, losses, reboots

cluster == <<pools, modules, lnet, mounted, hung>>
budget  == <<faults, losses, reboots>>
vars    == <<cluster, orphans, cmd, abort, phase, left, worst, summary,
             disturbed, budget>>

AllUp   == mounted = Servers \cup Clients
AllDown == mounted = {} /\ \A n \in Nodes : ~pools[n]
FaultsLeft == faults + losses < MaxFaults
Quiet   == \A n \in Nodes : left[n] = <<>>
\* A script gave up on a mount that still holds its ssh open.
Stuck   == \E n \in Nodes : left[n] # <<>> /\ Head(left[n]).op = "linger"

Init ==
  /\ pools = [n \in Nodes |-> FALSE]
  /\ modules = [n \in Nodes |-> FALSE]
  /\ lnet = [n \in Nodes |-> FALSE]
  /\ mounted = {} /\ hung = {} /\ orphans = {}
  /\ cmd = "none" /\ abort = FALSE /\ phase = 1
  /\ left = On(<<>>, <<>>)
  /\ worst = 0 /\ summary = "none" /\ disturbed = FALSE
  /\ faults = 0 /\ losses = 0 /\ reboots = 0

-----------------------------------------------------------------------------
(* The laptop.                                                             *)

Start(c, withAbort) ==
  /\ cmd = "none"
  /\ cmd' = c /\ abort' = withAbort
  /\ phase' = 1
  /\ left' = PhasesOf(c)[1]
  /\ worst' = 0 /\ summary' = "none" /\ disturbed' = FALSE
  /\ UNCHANGED <<cluster, orphans, budget>>

Finish(message) ==
  /\ cmd' = "none" /\ summary' = message
  /\ abort' = FALSE /\ phase' = 1 /\ disturbed' = FALSE
  /\ UNCHANGED <<cluster, orphans, left>>

\* bump_status().  Variant: red is not told from warn.
Bump_RedAsWarn(w, status) == IF status = "ok" THEN w ELSE 1
\* Variant: the statuses add up.
Bump_Sum(w, status) == IF status = "ok" THEN w ELSE w + 1
Bump(w, status) == CASE status = "red" -> 2
                     [] status = "warn" -> IF w < 1 THEN 1 ELSE w
                     [] OTHER -> w

\* A bringup halts on red at the end of every phase but the last; a teardown
\* goes on.  Variant: a bringup goes on as well.
Halts_Never(w) == FALSE
Halts(w) == cmd = "bringup" /\ w = 2

LastPhase == phase = Len(PhasesOf(cmd))

Summary ==
  CASE worst = 2 -> "red"
    [] worst = 1 -> "warnings"
    [] OTHER     -> IF cmd = "bringup" THEN "up" ELSE "safe to poweroff"

\* What the laptop finds out itself at the end of a phase.
Finding ==
  IF cmd = "bringup" /\ phase = PingPhase
  THEN {"red"} \cup (IF \A n \in Nodes : lnet[n] THEN {"ok"} ELSE {})
  ELSE IF cmd = "bringup" /\ phase = RegistrationPhase
  THEN {"warn"} \cup (IF {"OST0", "OST1"} \subseteq mounted THEN {"ok"} ELSE {})
  ELSE {"ok"}

\* Both scripts ended: go on to the next phase, halt, or summarise.
EndPhase ==
  /\ cmd # "none" /\ Quiet
  /\ \E status \in Finding :
       /\ \/ status # "red"
          \/ \E n \in Nodes : ~lnet[n]
          \/ FaultsLeft
       /\ worst' = Bump(worst, status)
       /\ faults' = IF status = "red" /\ \A n \in Nodes : lnet[n]
                    THEN faults + 1 ELSE faults
  /\ IF LastPhase THEN Finish(Summary)
     ELSE IF Halts(worst') THEN Finish("halted")
     ELSE /\ phase' = phase + 1
          /\ left' = PhasesOf(cmd)[phase + 1]
          /\ UNCHANGED <<cluster, orphans, cmd, abort, summary, disturbed>>
  /\ UNCHANGED <<losses, reboots>>

-----------------------------------------------------------------------------
(* The scripts on the nodes.                                               *)

Doing(n, what) == left[n] # <<>> /\ Head(left[n]) = what

\* The operation is done, and its line says `status'.
Done(n, status) ==
  /\ worst' = Bump(worst, status)
  /\ left' = [left EXCEPT ![n] = Tail(@)]
  /\ UNCHANGED <<orphans, cmd, abort, phase, summary, disturbed, losses,
                 reboots>>

\* The operation failed: one red line, and the script exits.
Failed(n) ==
  /\ FaultsLeft
  /\ faults' = faults + 1
  /\ worst' = Bump(worst, "red")
  /\ left' = [left EXCEPT ![n] = <<>>]
  /\ UNCHANGED <<orphans, cmd, abort, phase, summary, disturbed, losses,
                 reboots>>

\* Phase 1: zpool list, and zpool import of what is missing.
RunImport(n) ==
  /\ Doing(n, Import)
  /\ \/ /\ pools' = [pools EXCEPT ![n] = TRUE]
        /\ Done(n, "ok") /\ UNCHANGED faults
     \/ /\ ~pools[n]
        /\ Failed(n) /\ UNCHANGED pools
  /\ UNCHANGED <<modules, lnet, mounted, hung>>

\* Phase 2: modprobe of the modules that are not loaded.
RunModprobe(n) ==
  /\ Doing(n, Modprobe)
  /\ \/ /\ modules' = [modules EXCEPT ![n] = TRUE]
        /\ Done(n, "ok") /\ UNCHANGED faults
     \/ /\ ~modules[n]
        /\ Failed(n) /\ UNCHANGED modules
  /\ UNCHANGED <<pools, lnet, mounted, hung>>

\* Phase 3: the o2ib net; a missing ko2iblnd is a warning.
RunConfigure(n) ==
  /\ Doing(n, Configure)
  /\ \/ /\ lnet' = [lnet EXCEPT ![n] = TRUE]
        /\ \E status \in {"ok", "warn"} : Done(n, status)
        /\ UNCHANGED faults
     \/ /\ ~lnet[n]
        /\ Failed(n) /\ UNCHANGED lnet
  /\ UNCHANGED <<pools, modules, mounted, hung>>

\* Phase 4 pre-step: the targets of this node that are stuck get mounted.
\* Variant: the targets are not looked up, none is aborted.
RunAbort_Nothing(n) ==
  /\ Doing(n, Abort)
  /\ Done(n, "ok")
  /\ UNCHANGED <<cluster, faults>>

\* The targets of n to free, if the command was told to.
Recovering(n, told) == IF told THEN {x \in hung : NodeOf(x) = n} ELSE {}

\* A target that does not come free is a warning, and so is one that is up
\* and has no recovery to abort.
RunAbort(n) ==
  /\ Doing(n, Abort)
  /\ \E freed \in SUBSET Recovering(n, abort) :
       /\ mounted' = mounted \cup freed /\ hung' = hung \ freed
       /\ \/ /\ freed = Recovering(n, abort)
             /\ \/ Done(n, "ok")
                \/ /\ abort /\ \E x \in mounted \cap Servers : NodeOf(x) = n
                   /\ Done(n, "warn")
             /\ UNCHANGED faults
          \/ /\ freed # Recovering(n, abort) /\ Done(n, "warn")
             /\ FaultsLeft /\ faults' = faults + 1
  /\ UNCHANGED <<pools, modules, lnet>>

\* Can the mount of x succeed?
Mountable(x) ==
  IF x \in Servers THEN pools[NodeOf(x)] /\ lnet[NodeOf(x)] /\ x \notin hung
                   ELSE lnet[NodeOf(x)] /\ {"MGS", "MDT0"} \subseteq mounted

\* Phases 4 and 5: mount x, after a recovery wait perhaps, or fail.
RunMount(n, x) ==
  /\ Doing(n, Mount(x))
  /\ \/ /\ x \in mounted
        /\ Done(n, "ok")
        /\ UNCHANGED <<mounted, hung, faults>>
     \/ /\ x \notin mounted /\ Mountable(x)
        /\ mounted' = mounted \cup {x}
        /\ \E status \in IF x \in Servers THEN {"ok", "warn"} ELSE {"ok"} :
             Done(n, status)
        /\ UNCHANGED <<hung, faults>>
     \/ /\ x \notin mounted
        /\ IF Mountable(x)
           THEN Failed(n)
           ELSE /\ worst' = Bump(worst, "red")
                /\ left' = [left EXCEPT ![n] = <<>>]
                /\ UNCHANGED <<orphans, cmd, abort, phase, summary, disturbed,
                               budget>>
        /\ UNCHANGED <<mounted, hung>>
  /\ UNCHANGED <<pools, modules, lnet>>

\* The mount of server x outlasts the recovery timeout: a red line, and the
\* script exits.  Only its subshell is killed: the mount goes on, and with
\* the output it inherited it keeps the ssh open.
OutlastTimeout(n, x) ==
  /\ Doing(n, Mount(x)) /\ x \in Servers \ mounted /\ Mountable(x)
  /\ FaultsLeft
  /\ faults' = faults + 1
  /\ hung' = hung \cup {x}
  /\ worst' = Bump(worst, "red")
  /\ left' = [left EXCEPT ![n] = <<Linger(x)>>]
  /\ UNCHANGED <<pools, modules, lnet, mounted, orphans, cmd, abort, phase,
                 summary, disturbed, losses, reboots>>

\* The mount is over, and so is the ssh.
EndLinger(n, x) ==
  /\ Doing(n, Linger(x)) /\ x \notin hung
  /\ left' = [left EXCEPT ![n] = <<>>]
  /\ UNCHANGED <<cluster, orphans, cmd, abort, phase, worst, summary, disturbed,
                 budget>>

\* Phases T1 and T2: unmount x; a busy one stays and ends the script.
RunUmount(n, x) ==
  /\ Doing(n, Umount(x))
  /\ \/ /\ mounted' = mounted \ {x}
        /\ Done(n, "ok") /\ UNCHANGED faults
     \/ /\ x \in mounted
        /\ Failed(n) /\ UNCHANGED mounted
  /\ UNCHANGED <<pools, modules, lnet, hung>>

\* Phase T3: zpool export -a, a warning when a pool is still in use.
\* Variant: the exit status of zpool is not looked at.
RunExport_Blind(n) ==
  /\ Doing(n, Export)
  /\ pools' = IF \E x \in mounted \cup hung : x \in Servers /\ NodeOf(x) = n
              THEN pools ELSE [pools EXCEPT ![n] = FALSE]
  /\ Done(n, "ok")
  /\ UNCHANGED <<modules, lnet, mounted, hung, faults>>

\* A pool of n is in use.
Held(n) == \E x \in mounted \cup hung : x \in Servers /\ NodeOf(x) = n

RunExport(n) ==
  /\ Doing(n, Export)
  /\ IF Held(n)
     THEN Done(n, "warn") /\ UNCHANGED pools
     ELSE Done(n, "ok") /\ pools' = [pools EXCEPT ![n] = FALSE]
  /\ UNCHANGED <<modules, lnet, mounted, hung, faults>>

\* A script that was not disturbed runs on.
RunScript(n) ==
  \/ RunImport(n) \/ RunModprobe(n) \/ RunConfigure(n) \/ RunAbort(n)
  \/ \E x \in Servers \cup Clients : RunMount(n, x) \/ RunUmount(n, x)
  \/ \E x \in Servers : OutlastTimeout(n, x) \/ EndLinger(n, x)
  \/ RunExport(n)

-----------------------------------------------------------------------------
(* The environment.                                                        *)

\* What goes on without an ssh of the script on n.
Abandoned(n) ==
  IF left[n] = <<>> \/ Head(left[n]).op = "linger" THEN {}
  ELSE {[node |-> n, todo |-> left[n], abort |-> abort]}

\* The ssh of the script on n is lost (or never came up): no line says so.
LoseSsh(n) ==
  /\ left[n] # <<>> /\ FaultsLeft
  /\ losses' = losses + 1
  /\ orphans' = orphans \cup Abandoned(n)
  /\ left' = [left EXCEPT ![n] = <<>>]
  /\ disturbed' = TRUE
  /\ UNCHANGED <<cluster, cmd, abort, phase, worst, summary, faults, reboots>>

\* The laptop's script is interrupted, and the ssh of both nodes with it.
BreakOff ==
  /\ orphans' = orphans \cup UNION {Abandoned(n) : n \in Nodes}
  /\ left' = On(<<>>, <<>>)
  /\ cmd' = "none" /\ summary' = "interrupted"
  /\ abort' = FALSE /\ phase' = 1 /\ worst' = 0 /\ disturbed' = FALSE
  /\ UNCHANGED cluster

Interrupt ==
  /\ cmd # "none" /\ FaultsLeft
  /\ losses' = losses + 1
  /\ BreakOff
  /\ UNCHANGED <<faults, reboots>>

\* The operator interrupts a command that a hung mount keeps waiting.
GiveUpWaiting == Stuck /\ BreakOff /\ UNCHANGED budget

\* The next operation of an orphan on n; nobody hears what came of it.  A
\* mount that cannot be had yet keeps the orphan waiting.
Carries(n, next, told) ==
  \/ /\ next = Import /\ pools' = [pools EXCEPT ![n] = TRUE]
     /\ UNCHANGED <<modules, lnet, mounted, hung>>
  \/ /\ next = Modprobe /\ modules' = [modules EXCEPT ![n] = TRUE]
     /\ UNCHANGED <<pools, lnet, mounted, hung>>
  \/ /\ next = Configure /\ lnet' = [lnet EXCEPT ![n] = TRUE]
     /\ UNCHANGED <<pools, modules, mounted, hung>>
  \/ /\ next = Abort
     /\ \E freed \in SUBSET Recovering(n, told) :
          mounted' = mounted \cup freed /\ hung' = hung \ freed
     /\ UNCHANGED <<pools, modules, lnet>>
  \/ \E x \in Servers \cup Clients :
       /\ next = Mount(x) /\ (x \in mounted \/ Mountable(x))
       /\ \/ mounted' = mounted \cup {x} /\ UNCHANGED hung
          \/ x \in Servers \ mounted /\ hung' = hung \cup {x} /\ UNCHANGED mounted
       /\ UNCHANGED <<pools, modules, lnet>>
  \/ \E x \in Servers \cup Clients :
       /\ next = Umount(x) /\ mounted' = mounted \ {x}
       /\ UNCHANGED <<pools, modules, lnet, hung>>
  \/ /\ next = Export
     /\ pools' = [pools EXCEPT ![n] = @ /\ Held(n)]
     /\ UNCHANGED <<modules, lnet, mounted, hung>>

OrphanWorks(o) ==
  /\ Carries(o.node, Head(o.todo), o.abort)
  /\ LET rest == {r \in {Tail(o.todo)} : r # <<>>}
     IN  orphans' = (orphans \ {o}) \cup {[o EXCEPT !.todo = r] : r \in rest}
  /\ disturbed' = (cmd # "none")
  /\ UNCHANGED <<cmd, abort, phase, left, worst, summary, budget>>

\* It fails, or writes to the ssh that is not there.
OrphanDies(o) ==
  /\ orphans' = orphans \ {o}
  /\ UNCHANGED <<cluster, cmd, abort, phase, left, worst, summary, disturbed,
                 budget>>

\* Node n reboots, with all it had mounted, loaded and imported.
Reboot(n) ==
  /\ reboots < MaxReboots
  /\ reboots' = reboots + 1
  /\ pools' = [pools EXCEPT ![n] = FALSE]
  /\ modules' = [modules EXCEPT ![n] = FALSE]
  /\ lnet' = [lnet EXCEPT ![n] = FALSE]
  /\ mounted' = {x \in mounted : NodeOf(x) # n}
  /\ hung' = {x \in hung : NodeOf(x) # n}
  /\ orphans' = {o \in orphans : o.node # n}
  /\ left' = [left EXCEPT ![n] = <<>>]
  /\ disturbed' = (cmd # "none")
  /\ UNCHANGED <<cmd, abort, phase, worst, summary, faults, losses>>

\* A mount the script gave up on comes out of recovery.
LateMount(x) ==
  /\ x \in hung
  /\ mounted' = mounted \cup {x} /\ hung' = hung \ {x}
  /\ disturbed' = (cmd # "none")
  /\ UNCHANGED <<pools, modules, lnet, orphans, cmd, abort, phase, left, worst,
                 summary, budget>>

-----------------------------------------------------------------------------

Work == EndPhase \/ \E n \in Nodes : RunScript(n)

Next ==
  \/ \E withAbort \in BOOLEAN : Start("bringup", withAbort)
  \/ Start("teardown", FALSE)
  \/ Work
  \/ \E n \in Nodes : LoseSsh(n) \/ Reboot(n)
  \/ Interrupt \/ GiveUpWaiting
  \/ \E x \in Servers : LateMount(x)
  \/ \E o \in orphans : OrphanWorks(o) \/ OrphanDies(o)

Spec == Init /\ [][Next]_vars

\* The laptop and the nodes go on, and the operator keeps running
\* "bringup --abort-recovery" as the script's red line tells them to, after
\* interrupting a command that hangs.
FairSpec ==
  /\ Spec
  /\ WF_vars(Work) /\ WF_vars(GiveUpWaiting)
  /\ SF_vars(Start("bringup", TRUE))

-----------------------------------------------------------------------------
(* Properties.                                                             *)

TypeOK ==
  /\ pools \in [Nodes -> BOOLEAN]
  /\ modules \in [Nodes -> BOOLEAN]
  /\ lnet \in [Nodes -> BOOLEAN]
  /\ mounted \subseteq Servers \cup Clients
  /\ hung \subseteq Servers
  /\ orphans \subseteq [node : Nodes, todo : Seq(Ops), abort : BOOLEAN]
  /\ \A o \in orphans : o.todo # <<>>
  /\ cmd \in {"none", "bringup", "teardown"}
  /\ abort \in BOOLEAN
  /\ phase \in 1..7
  /\ left \in [Nodes -> Seq(Ops)]
  /\ worst \in 0..2
  /\ summary \in {"none", "up", "safe to poweroff", "warnings", "red",
                  "halted", "interrupted"}
  /\ disturbed \in BOOLEAN
  /\ faults \in 0..MaxFaults /\ losses \in 0..MaxFaults
  /\ reboots \in 0..MaxReboots

\* A bringup that was not disturbed and does not end red has everything
\* mounted when it says so (do_bringup's summary).
UpMeansUp ==
  [][cmd = "bringup" /\ cmd' = "none" /\ ~disturbed
       /\ summary' \in {"up", "warnings"} => AllUp]_vars

\* A teardown that was not disturbed and says "Safe to poweroff" left nothing
\* mounted, no server mount waiting, and no pool imported (do_teardown's
\* summary).  It looks for no script that an earlier command has left behind:
\* the client mount of one may still be waiting for its servers.
SafeMeansDown ==
  [][cmd = "teardown" /\ cmd' = "none" /\ ~disturbed
       /\ summary' = "safe to poweroff" => AllDown /\ hung = {}]_vars

\* What must be mounted before x, and what must be unmounted before it on
\* its own node.
Needs(x) == CASE x = "MGS"             -> {}
              [] x = "MDT0"            -> {"MGS"}
              [] x \in {"OST0", "OST1"} -> {"MGS", "MDT0"}
              [] OTHER                 -> Servers

\* An undisturbed bringup mounts MGS, MDT0, the OSTs and the clients in this
\* order, on whatever partial state it starts.  A mount that an earlier
\* bringup left in recovery is excepted: --abort-recovery frees it in the
\* first phase on its node, an OST perhaps before the MGS and the MDT are up.
BringupOrder ==
  [][\A x \in Servers \cup Clients :
       cmd = "bringup" /\ ~disturbed /\ ~disturbed' /\ x \notin hung
       /\ x \in mounted' \ mounted => Needs(x) \subseteq mounted]_vars

\* An undisturbed teardown unmounts the servers of spark01 in the reverse
\* order.
NodeUnmountOrder ==
  [][\A x \in Servers, y \in Servers :
       cmd = "teardown" /\ ~disturbed /\ ~disturbed'
       /\ NodeOf(x) = "spark01" /\ NodeOf(y) = "spark01" /\ x \in Needs(y)
       /\ x \in mounted \ mounted' => y \notin mounted]_vars

\* An operator who keeps running bringup gets the whole cluster up, from any
\* partial state that failures, reboots and teardowns left.
BringupConverges == []<>AllUp
=============================================================================
