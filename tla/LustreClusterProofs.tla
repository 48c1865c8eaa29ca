------------------------ MODULE LustreClusterProofs ------------------------
(***************************************************************************)
(* Proofs about LustreCluster, for any number of failed operations, lost   *)
(* connections and reboots: the orders of mounts, and what the summaries   *)
(* of a command say of the cluster.                                        *)
(***************************************************************************)
EXTENDS LustreCluster, TLAPS

-----------------------------------------------------------------------------
(* The inductive invariants.                                               *)

All == Servers \cup Clients

\* What is in a sequence, and what the script on node n has left to do.
Elems(s) == {s[i] : i \in 1..Len(s)}
Todo(n)  == Elems(left[n])

\* The phase of bringup that mounts x, and those of teardown that unmount x
\* and export the pools of n.
MountPhase(x) ==
  CASE x = "MGS" -> 3 [] x = "MDT0" -> 4 [] x \in {"OST0", "OST1"} -> 5
    [] OTHER -> 7
UmountPhase(x) == CASE x \in Clients -> 1 [] x = "OST1" -> 2 [] OTHER -> 3
ExportPhase(n) == IF n = "spark02" THEN 2 ELSE 3

Phases(c) == IF c = "bringup" THEN 7 ELSE 3

\* TypeOK, and that a command is in one of its own phases.
TypeInv == TypeOK /\ (cmd # "none" => phase <= Phases(cmd))

\* An undisturbed bringup: what the earlier phases mount is mounted, and what
\* this one mounts is mounted or still to do, unless something was red.
BringupInv ==
  cmd = "bringup" /\ ~disturbed =>
    /\ \A x \in All : MountPhase(x) < phase => x \in mounted
    /\ \A x \in All : MountPhase(x) = phase =>
         worst = 2 \/ x \in mounted \/ Mount(x) \in Todo(NodeOf(x))
    /\ \A n \in Nodes, x \in All :
         Mount(x) \in Todo(n) => MountPhase(x) = phase
    /\ \A n \in Nodes, x \in All : Umount(x) \notin Todo(n)
    /\ \A n \in Nodes, x \in Servers : Linger(x) \in Todo(n) => worst = 2

\* The scripts of a teardown unmount and export, each in its phase.
ScriptInv ==
  cmd = "teardown" => \A n \in Nodes : \A op \in Todo(n) :
    \/ \E x \in All : op = Umount(x) /\ UmountPhase(x) = phase /\ NodeOf(x) = n
    \/ op = Export /\ ExportPhase(n) = phase

\* No server is unmounted before one on its node that needs it: neither by
\* the order in a script, nor because the other was passed over.
Sorted(s) ==
  \A i, j \in 1..Len(s) : \A x, y \in Servers :
    i < j /\ s[i] = Umount(x) /\ s[j] = Umount(y) => x \notin Needs(y)

OrderInv ==
  cmd = "teardown" => \A n \in Nodes :
    /\ Sorted(left[n])
    /\ ~disturbed => \A x, y \in Servers :
         x \in Needs(y) /\ NodeOf(y) = n /\ Umount(x) \in Todo(n)
           => y \notin mounted \/ Umount(y) \in Todo(n)

\* Nothing is left of the pools of n: none imported, none held by a mount.
Cleared(n) == ~pools[n] /\ \A x \in hung : NodeOf(x) # n

\* An undisturbed teardown without a warning.
TeardownInv ==
  cmd = "teardown" /\ ~disturbed /\ worst = 0 =>
    /\ \A x \in All : UmountPhase(x) < phase => x \notin mounted
    /\ \A x \in All : UmountPhase(x) = phase =>
         x \notin mounted \/ Umount(x) \in Todo(NodeOf(x))
    /\ \A n \in Nodes : ExportPhase(n) < phase => Cleared(n)
    /\ \A n \in Nodes : ExportPhase(n) = phase =>
         Cleared(n) \/ Export \in Todo(n)

ClusterInv == TypeInv /\ BringupInv /\ ScriptInv /\ OrderInv /\ TeardownInv

-----------------------------------------------------------------------------
(* Operations and scripts.                                                 *)

LEMMA OpsDiffer ==
  /\ \A x, y : Mount(x) = Mount(y) => x = y
  /\ \A x, y : Umount(x) = Umount(y) => x = y
  /\ \A x, y : /\ Mount(x) # Umount(y) /\ Mount(x) # Linger(y)
             /\ Umount(x) # Linger(y)
  /\ \A x : \A op \in {Import, Modprobe, Configure, Abort, Export} :
       Mount(x) # op /\ Umount(x) # op /\ Linger(x) # op
  /\ \A op \in {Import, Modprobe, Configure, Abort} : op # Export
BY DEF Mount, Umount, Linger, Import, Modprobe, Configure, Abort, Export

LEMMA ElemsOf0 == Elems(<<>>) = {}
BY DEF Elems

LEMMA ElemsOf1 == ASSUME NEW a PROVE Elems(<<a>>) = {a}
BY DEF Elems

LEMMA ElemsOf2 == ASSUME NEW a, NEW b PROVE Elems(<<a, b>>) = {a, b}
BY DEF Elems

LEMMA ElemsOf3 ==
  ASSUME NEW a, NEW b, NEW c PROVE Elems(<<a, b, c>>) = {a, b, c}
BY DEF Elems

LEMMA ElemsOf4 ==
  ASSUME NEW a, NEW b, NEW c, NEW d PROVE Elems(<<a, b, c, d>>) = {a, b, c, d}
BY DEF Elems

\* A script that goes on by one operation.
LEMMA TailOfScript ==
  ASSUME NEW s \in Seq(Ops), s # <<>>
  PROVE  /\ Tail(s) \in Seq(Ops) /\ Head(s) \in Elems(s)
         /\ Elems(Tail(s)) \subseteq Elems(s)
         /\ Elems(s) \subseteq Elems(Tail(s)) \cup {Head(s)}
         /\ Sorted(s) => Sorted(Tail(s))
<1>1. /\ Len(s) \in Nat /\ Len(s) > 0 /\ Head(s) = s[1]
      /\ Tail(s) \in Seq(Ops) /\ Len(Tail(s)) = Len(s) - 1
      /\ \A i \in 1..Len(Tail(s)) : Tail(s)[i] = s[i + 1]
  OBVIOUS
<1> DEFINE t == Tail(s)
<1> HIDE DEF t
<1>2. Head(s) \in Elems(s)
  BY <1>1 DEF Elems
<1>3. Elems(t) \subseteq Elems(s)
  BY <1>1 DEF Elems, t
<1>4. Elems(s) \subseteq Elems(t) \cup {Head(s)}
  <2> SUFFICES ASSUME NEW i \in 1..Len(s), i # 1
               PROVE  s[i] \in Elems(t)
    BY <1>1 DEF Elems
  <2>1. i - 1 \in 1..Len(t) /\ t[i - 1] = s[i]
    BY <1>1 DEF t
  <2> QED
    BY <2>1 DEF Elems
<1>5. ASSUME Sorted(s)
      PROVE  Sorted(t)
  <2> SUFFICES ASSUME NEW i \in 1..Len(t), NEW j \in 1..Len(t),
                      NEW x \in Servers, NEW y \in Servers,
                      i < j, t[i] = Umount(x), t[j] = Umount(y)
               PROVE  x \notin Needs(y)
    BY DEF Sorted
  <2>1. /\ i + 1 \in 1..Len(s) /\ j + 1 \in 1..Len(s) /\ i + 1 < j + 1
        /\ s[i + 1] = Umount(x) /\ s[j + 1] = Umount(y)
    BY <1>1 DEF t
  <2> QED
    BY <1>5, <2>1 DEF Sorted
<1> QED
  BY <1>1, <1>2, <1>3, <1>4, <1>5 DEF t

\* The scripts of bringup: x is mounted in its phase, on its node.
LEMMA BringupScripts ==
  ASSUME NEW p \in 1..7, NEW n \in Nodes
  PROVE  /\ BringupPhases[p] \in [Nodes -> Seq(Ops)]
         /\ \A x \in All : /\ Mount(x) \in Elems(BringupPhases[p][n])
                              <=> MountPhase(x) = p /\ NodeOf(x) = n
                          /\ Umount(x) \notin Elems(BringupPhases[p][n])
         /\ \A x \in Servers : Linger(x) \notin Elems(BringupPhases[p][n])
<1>0. p \in {1, 2, 3, 4, 5, 6, 7}
  OBVIOUS
<1>1. \A x \in Servers \cup Clients : Mount(x) \in Ops
  BY DEF Ops
<1>2. {Import, Modprobe, Configure, Abort} \subseteq Ops
  BY DEF Ops
<1>3. /\ <<>> \in Seq(Ops) /\ <<Import, Modprobe, Configure>> \in Seq(Ops)
      /\ \A x \in Servers : <<Abort, Mount(x)>> \in Seq(Ops)
      /\ \A x \in Clients : <<Mount(x)>> \in Seq(Ops)
  BY <1>1, <1>2
<1>4. /\ BringupPhases[1] = On(Prepare, Prepare)
      /\ BringupPhases[2] = On(<<>>, <<>>)
      /\ BringupPhases[3] = On(<<Abort, Mount("MGS")>>, <<>>)
      /\ BringupPhases[4] = On(<<Abort, Mount("MDT0")>>, <<>>)
      /\ BringupPhases[5] = On(<<Abort, Mount("OST0")>>, <<Abort, Mount("OST1")>>)
      /\ BringupPhases[6] = On(<<>>, <<>>)
      /\ BringupPhases[7] = On(<<Mount("client01")>>, <<Mount("client02")>>)
  BY DEF BringupPhases
<1>5. \A a, b : On(a, b)["spark01"] = a /\ On(a, b)["spark02"] = b
  BY DEF On, Nodes
<1>6. \A a, b \in Seq(Ops) : On(a, b) \in [Nodes -> Seq(Ops)]
  BY DEF On
<1>7. BringupPhases[p] \in [Nodes -> Seq(Ops)]
  <2>1. /\ On(Prepare, Prepare) \in [Nodes -> Seq(Ops)]
        /\ On(<<>>, <<>>) \in [Nodes -> Seq(Ops)]
    BY <1>3, <1>6 DEF Prepare
  <2>2. /\ On(<<Abort, Mount("MGS")>>, <<>>) \in [Nodes -> Seq(Ops)]
        /\ On(<<Abort, Mount("MDT0")>>, <<>>) \in [Nodes -> Seq(Ops)]
    BY <1>3, <1>6 DEF Servers
  <2>3. On(<<Abort, Mount("OST0")>>, <<Abort, Mount("OST1")>>)
          \in [Nodes -> Seq(Ops)]
    BY <1>3, <1>6 DEF Servers
  <2>4. On(<<Mount("client01")>>, <<Mount("client02")>>)
          \in [Nodes -> Seq(Ops)]
    BY <1>3, <1>6 DEF Clients
  <2> QED
    BY <1>4, <1>0, <2>1, <2>2, <2>3, <2>4
<1>8. CASE p = 1
  <2>1. BringupPhases[p][n] = Prepare
    BY <1>4, <1>5, <1>8 DEF Nodes
  <2>2. Elems(Prepare) = {Import, Modprobe, Configure}
    BY ElemsOf3 DEF Prepare
  <2> QED
    BY <1>7, <1>8, <2>1, <2>2, OpsDiffer DEF MountPhase
<1>9. CASE p \in {2, 6}
  <2>0. BringupPhases[p][n] = <<>>
    BY <1>4, <1>5, <1>9 DEF Nodes
  <2>1. Elems(BringupPhases[p][n]) = {}
    BY <2>0, ElemsOf0
  <2> QED
    BY <1>7, <1>9, <2>1 DEF MountPhase
<1>10. CASE p \in {3, 4} /\ n = "spark02"
  <2>0. BringupPhases[p][n] = <<>>
    BY <1>4, <1>5, <1>10 DEF Nodes
  <2>1. Elems(BringupPhases[p][n]) = {}
    BY <2>0, ElemsOf0
  <2> QED
    BY <1>7, <1>10, <2>1 DEF MountPhase, NodeOf
<1>11. ASSUME NEW y \in All, p \in {3, 4, 5, 7},
              \A x \in All : MountPhase(x) = p /\ NodeOf(x) = n <=> x = y,
              \/ Elems(BringupPhases[p][n]) = {Abort, Mount(y)}
              \/ Elems(BringupPhases[p][n]) = {Mount(y)}
       PROVE  /\ \A x \in All :
                   /\ Mount(x) \in Elems(BringupPhases[p][n])
                       <=> MountPhase(x) = p /\ NodeOf(x) = n
                   /\ Umount(x) \notin Elems(BringupPhases[p][n])
              /\ \A x \in Servers : Linger(x) \notin Elems(BringupPhases[p][n])
  BY <1>11, OpsDiffer
<1>12. CASE p = 3 /\ n = "spark01"
  <2>0. BringupPhases[p][n] = <<Abort, Mount("MGS")>>
    BY <1>4, <1>5, <1>12 DEF Nodes
  <2>1. Elems(BringupPhases[p][n]) = {Abort, Mount("MGS")}
    BY <2>0, ElemsOf2
  <2>2. \A x \in All : MountPhase(x) = p /\ NodeOf(x) = n <=> x = "MGS"
    BY <1>12 DEF MountPhase, NodeOf, All, Servers, Clients
  <2> QED
    BY <1>7, <1>11, <1>12, <2>1, <2>2 DEF All, Servers
<1>13. CASE p = 4 /\ n = "spark01"
  <2>0. BringupPhases[p][n] = <<Abort, Mount("MDT0")>>
    BY <1>4, <1>5, <1>13 DEF Nodes
  <2>1. Elems(BringupPhases[p][n]) = {Abort, Mount("MDT0")}
    BY <2>0, ElemsOf2
  <2>2. \A x \in All : MountPhase(x) = p /\ NodeOf(x) = n <=> x = "MDT0"
    BY <1>13 DEF MountPhase, NodeOf, All, Servers, Clients
  <2> QED
    BY <1>7, <1>11, <1>13, <2>1, <2>2 DEF All, Servers
<1>14. CASE p = 5
  <2> DEFINE y == IF n = "spark01" THEN "OST0" ELSE "OST1"
  <2>0. BringupPhases[p][n] = <<Abort, Mount(y)>>
    BY <1>4, <1>5, <1>14 DEF Nodes
  <2>1. Elems(BringupPhases[p][n]) = {Abort, Mount(y)}
    BY <2>0, ElemsOf2
  <2>2. \A x \in All : MountPhase(x) = p /\ NodeOf(x) = n <=> x = y
    BY <1>14 DEF MountPhase, NodeOf, All, Servers, Clients, Nodes
  <2> QED
    <3>1. y \in All
      BY DEF All, Servers
    <3> HIDE DEF y
    <3> QED
      BY <1>7, <1>11, <1>14, <2>1, <2>2, <3>1
<1>15. CASE p = 7
  <2> DEFINE y == IF n = "spark01" THEN "client01" ELSE "client02"
  <2>0. BringupPhases[p][n] = <<Mount(y)>>
    BY <1>4, <1>5, <1>15 DEF Nodes
  <2>1. Elems(BringupPhases[p][n]) = {Mount(y)}
    BY <2>0, ElemsOf1
  <2>2. \A x \in All : MountPhase(x) = p /\ NodeOf(x) = n <=> x = y
    BY <1>15 DEF MountPhase, NodeOf, All, Servers, Clients, Nodes
  <2> QED
    <3>1. y \in All
      BY DEF All, Clients
    <3> HIDE DEF y
    <3> QED
      BY <1>7, <1>11, <1>15, <2>1, <2>2, <3>1
<1> QED
  BY <1>8, <1>9, <1>10, <1>12, <1>13, <1>14, <1>15 DEF Nodes

\* The scripts of teardown: x is unmounted in its phase, on its node, and
\* not before a server there that needs it.
LEMMA TeardownScripts ==
  ASSUME NEW p \in 1..3, NEW n \in Nodes
  PROVE  /\ TeardownPhases[p] \in [Nodes -> Seq(Ops)]
         /\ \A x \in All : Umount(x) \in Elems(TeardownPhases[p][n])
                            <=> UmountPhase(x) = p /\ NodeOf(x) = n
         /\ Export \in Elems(TeardownPhases[p][n]) <=> ExportPhase(n) = p
         /\ \A op \in Elems(TeardownPhases[p][n]) :
              op = Export \/ \E x \in All : op = Umount(x)
         /\ Sorted(TeardownPhases[p][n])
<1> DEFINE last == <<Umount("OST0"), Umount("MDT0"), Umount("MGS"), Export>>
<1>0. p \in {1, 2, 3} /\ n \in {"spark01", "spark02"}
  BY DEF Nodes
<1>1. \A x \in Servers \cup Clients : Umount(x) \in Ops
  BY DEF Ops
<1>2. Export \in Ops
  BY DEF Ops
<1>3. /\ <<>> \in Seq(Ops) /\ last \in Seq(Ops)
      /\ <<Umount("client01")>> \in Seq(Ops)
      /\ <<Umount("client02")>> \in Seq(Ops)
      /\ <<Umount("OST1"), Export>> \in Seq(Ops)
  BY <1>1, <1>2 DEF Servers, Clients
<1>4. /\ TeardownPhases[1] = On(<<Umount("client01")>>, <<Umount("client02")>>)
      /\ TeardownPhases[2] = On(<<>>, <<Umount("OST1"), Export>>)
      /\ TeardownPhases[3] = On(last, <<>>)
  BY DEF TeardownPhases
<1> HIDE DEF last
<1>5. \A a, b : On(a, b)["spark01"] = a /\ On(a, b)["spark02"] = b
  BY DEF On, Nodes
<1>6. \A a, b \in Seq(Ops) : On(a, b) \in [Nodes -> Seq(Ops)]
  BY DEF On
<1>7. TeardownPhases[p] \in [Nodes -> Seq(Ops)]
  BY <1>0, <1>3, <1>4, <1>6
<1>8. CASE p = 1
  <2> DEFINE y == IF n = "spark01" THEN "client01" ELSE "client02"
  <2>1. TeardownPhases[p][n] = <<Umount(y)>>
    BY <1>0, <1>4, <1>5, <1>8
  <2>2. Elems(TeardownPhases[p][n]) = {Umount(y)}
    BY <2>1, ElemsOf1
  <2>3. Sorted(TeardownPhases[p][n])
    BY <2>1 DEF Sorted
  <2>4. /\ y \in All
        /\ \A x \in All : UmountPhase(x) = p /\ NodeOf(x) = n <=> x = y
    BY <1>0, <1>8 DEF UmountPhase, NodeOf, All, Servers, Clients
  <2>5. ExportPhase(n) # p
    BY <1>8 DEF ExportPhase
  <2> HIDE DEF y
  <2> QED
    BY <1>7, <2>2, <2>3, <2>4, <2>5, OpsDiffer
<1>9. CASE p = 2 /\ n = "spark02"
  <2>1. TeardownPhases[p][n] = <<Umount("OST1"), Export>>
    BY <1>4, <1>5, <1>9
  <2>2. Elems(TeardownPhases[p][n]) = {Umount("OST1"), Export}
    BY <2>1, ElemsOf2
  <2>3. Sorted(TeardownPhases[p][n])
    BY <2>1, OpsDiffer DEF Sorted
  <2>4. /\ "OST1" \in All
        /\ \A x \in All : UmountPhase(x) = p /\ NodeOf(x) = n <=> x = "OST1"
    BY <1>9 DEF UmountPhase, NodeOf, All, Servers, Clients
  <2>5. ExportPhase(n) = p
    BY <1>9 DEF ExportPhase
  <2> QED
    BY <1>7, <2>2, <2>3, <2>4, <2>5, OpsDiffer
<1>10. CASE (p = 2 /\ n = "spark01") \/ (p = 3 /\ n = "spark02")
  <2>1. TeardownPhases[p][n] = <<>>
    BY <1>4, <1>5, <1>10
  <2>2. Elems(TeardownPhases[p][n]) = {}
    BY <2>1, ElemsOf0
  <2>3. Sorted(TeardownPhases[p][n])
    BY <2>1 DEF Sorted
  <2>4. \A x \in All : ~(UmountPhase(x) = p /\ NodeOf(x) = n)
    BY <1>10 DEF UmountPhase, NodeOf, All, Servers, Clients
  <2>5. ExportPhase(n) # p
    BY <1>10 DEF ExportPhase
  <2> QED
    BY <1>7, <2>2, <2>3, <2>4, <2>5
<1>11. CASE p = 3 /\ n = "spark01"
  <2>1. TeardownPhases[p][n] = last
    BY <1>4, <1>5, <1>11
  <2>2. Elems(last) = {Umount("OST0"), Umount("MDT0"), Umount("MGS"), Export}
    BY ElemsOf4 DEF last
  <2>3. Sorted(last)
    <3> SUFFICES ASSUME NEW i \in 1..Len(last), NEW j \in 1..Len(last),
                        NEW x \in Servers, NEW y \in Servers,
                        i < j, last[i] = Umount(x), last[j] = Umount(y)
                 PROVE  x \notin Needs(y)
      BY DEF Sorted
    <3>1. /\ Len(last) = 4 /\ last[1] = Umount("OST0")
          /\ last[2] = Umount("MDT0") /\ last[3] = Umount("MGS")
          /\ last[4] = Export
      BY DEF last
    <3>2. i \in {1, 2} /\ j \in {2, 3}
      BY <3>1, OpsDiffer
    <3>3. /\ x = (IF i = 1 THEN "OST0" ELSE "MDT0")
          /\ y = (IF j = 2 THEN "MDT0" ELSE "MGS")
      BY <3>1, <3>2, OpsDiffer
    <3> QED
      BY <3>2, <3>3 DEF Needs
  <2>4. /\ {"OST0", "MDT0", "MGS"} \subseteq All
        /\ \A x \in All : UmountPhase(x) = p /\ NodeOf(x) = n
                         <=> x \in {"OST0", "MDT0", "MGS"}
    BY <1>11 DEF UmountPhase, NodeOf, All, Servers, Clients
  <2>5. ExportPhase(n) = p
    BY <1>11 DEF ExportPhase
  <2> QED
    BY <1>7, <2>1, <2>2, <2>3, <2>4, <2>5, OpsDiffer
<1>12. \/ p = 1
       \/ p = 2 /\ n = "spark02"
       \/ p = 3 /\ n = "spark01"
       \/ (p = 2 /\ n = "spark01") \/ (p = 3 /\ n = "spark02")
  BY <1>0
<1> QED
  BY <1>8, <1>9, <1>10, <1>11, <1>12

-----------------------------------------------------------------------------
(* The kinds of steps of a script.                                         *)

LEMMA BumpFacts ==
  ASSUME NEW w \in 0..2, NEW s \in {"ok", "warn", "red"}
  PROVE  /\ Bump(w, s) \in 0..2 /\ (w = 2 => Bump(w, s) = 2)
         /\ Bump(w, s) = 0 => w = 0 /\ s = "ok"
         /\ s = "ok" => Bump(w, s) = w
         /\ Bump(w, s) = 2 <=> w = 2 \/ s = "red"
BY DEF Bump

\* The script on n has done its operation h, and is one shorter.
Took(n, h) ==
  /\ left[n] # <<>> /\ h = Head(left[n])
  /\ left' = [left EXCEPT ![n] = Tail(@)]
  /\ worst' \in 0..2 /\ (worst = 2 => worst' = 2) /\ (worst' = 0 => worst = 0)

\* The script on n has ended after a red line; a mount may linger.
Gave(n) ==
  /\ left[n] # <<>>
  /\ \E s \in {<<>>} \cup {<<Linger(x)>> : x \in Servers} :
       left' = [left EXCEPT ![n] = s]
  /\ worst' = 2

\* The ssh of a lingering mount has ended.
Ended(n) ==
  /\ \E x \in Servers : left[n] # <<>> /\ Head(left[n]) = Linger(x)
  /\ left' = [left EXCEPT ![n] = <<>>]
  /\ worst' = worst

LEMMA DoneTakes ==
  ASSUME TypeOK, NEW n \in Nodes, NEW h, Doing(n, h),
         NEW status \in {"ok", "warn"}, Done(n, status)
  PROVE  /\ Took(n, h) /\ (worst' = 0 => status = "ok")
         /\ UNCHANGED <<orphans, cmd, abort, phase, summary, disturbed>>
<1>1. worst \in 0..2 /\ worst' = Bump(worst, status)
  BY DEF TypeOK, Done
<1>2. /\ worst' \in 0..2 /\ (worst = 2 => worst' = 2)
      /\ worst' = 0 => worst = 0 /\ status = "ok"
  BY <1>1, BumpFacts
<1> QED
  BY <1>2 DEF Took, Doing, Done

LEMMA FailedGives ==
  ASSUME TypeOK, NEW n \in Nodes, NEW h, Doing(n, h), Failed(n)
  PROVE  /\ Gave(n) /\ left'[n] = <<>>
         /\ UNCHANGED <<orphans, cmd, abort, phase, summary, disturbed>>
BY DEF Gave, Failed, Doing, Bump, TypeOK

LEMMA TodoTaken ==
  ASSUME left \in [Nodes -> Seq(Ops)], NEW n \in Nodes, NEW h, Took(n, h)
  PROVE  /\ left' \in [Nodes -> Seq(Ops)] /\ h \in Todo(n)
         /\ \A m \in Nodes : Todo(m)' \subseteq Todo(m)
         /\ \A m \in Nodes : Todo(m) \subseteq Todo(m)' \cup {h}
         /\ \A m \in Nodes : m # n => Todo(m)' = Todo(m)
         /\ \A m \in Nodes : Sorted(left[m]) => Sorted(left'[m])
<1>1. /\ left[n] \in Seq(Ops) /\ left[n] # <<>>
      /\ h = Head(left[n]) /\ left' = [left EXCEPT ![n] = Tail(left[n])]
  BY DEF Took
<1> DEFINE s == left[n]
           r == Tail(s)
<1>2. /\ r \in Seq(Ops) /\ h \in Elems(s) /\ Elems(r) \subseteq Elems(s)
      /\ Elems(s) \subseteq Elems(r) \cup {h} /\ (Sorted(s) => Sorted(r))
  BY <1>1, TailOfScript
<1>3. \A m \in Nodes : left'[m] = (IF m = n THEN r ELSE left[m])
  BY <1>1
<1>4. left' \in [Nodes -> Seq(Ops)]
  BY <1>1, <1>2
<1> HIDE DEF r
<1> QED
  BY <1>2, <1>3, <1>4 DEF Todo

LEMMA TodoGiven ==
  ASSUME left \in [Nodes -> Seq(Ops)], NEW n \in Nodes, Gave(n) \/ Ended(n)
  PROVE  /\ left' \in [Nodes -> Seq(Ops)]
         /\ \A m \in Nodes : m # n => left'[m] = left[m] /\ Todo(m)' = Todo(m)
         /\ Todo(n)' \subseteq {Linger(x) : x \in Servers}
         /\ Sorted(left'[n])
<1>1. PICK s \in {<<>>} \cup {<<Linger(x)>> : x \in Servers} :
        left' = [left EXCEPT ![n] = s]
  BY DEF Gave, Ended
<1>2. s \in Seq(Ops) /\ Elems(s) \subseteq {Linger(x) : x \in Servers} /\ Sorted(s)
  <2>1. CASE s = <<>>
    BY <2>1, ElemsOf0 DEF Sorted
  <2>2. ASSUME NEW x \in Servers, s = <<Linger(x)>>
        PROVE  s \in Seq(Ops) /\ Elems(s) = {Linger(x)} /\ Sorted(s)
    <3>1. Linger(x) \in Ops
      BY DEF Ops
    <3>2. Elems(s) = {Linger(x)}
      BY <2>2, ElemsOf1
    <3>3. Sorted(s)
      BY <2>2 DEF Sorted
    <3> QED
      BY <2>2, <3>1, <3>2, <3>3
  <2> QED
    BY <1>1, <2>1, <2>2
<1>3. \A m \in Nodes : left'[m] = (IF m = n THEN s ELSE left[m])
  BY <1>1
<1>4. left' \in [Nodes -> Seq(Ops)]
  BY <1>1, <1>2
<1> QED
  BY <1>2, <1>3, <1>4 DEF Todo

\* What a step of the script on n does to the cluster, by its kind.
Prepares(n) ==
  /\ \E h \in {Import, Modprobe, Configure} : Took(n, h)
  /\ UNCHANGED <<mounted, hung>>

Aborts(n) ==
  /\ Took(n, Abort)
  /\ mounted \subseteq mounted' /\ hung' \subseteq hung
  /\ mounted' \ mounted \subseteq hung
  /\ UNCHANGED pools

Mounts(n, x) ==
  /\ Took(n, Mount(x)) /\ mounted' = mounted \cup {x}
  /\ UNCHANGED <<pools, hung>>

Unmounts(n, x) ==
  /\ Took(n, Umount(x)) /\ mounted' = mounted \ {x}
  /\ UNCHANGED <<pools, hung>>

Exports(n) ==
  /\ Took(n, Export)
  /\ worst' = 0 => Cleared(n)'
  /\ \A m \in Nodes \ {n} : pools'[m] = pools[m]
  /\ UNCHANGED <<mounted, hung>>

GivesUp(n) ==
  /\ Gave(n)
  /\ hung' # hung \/ left'[n] # <<>> => \E x \in All : Mount(x) \in Todo(n)
  /\ UNCHANGED <<mounted, pools>>

Ends(n) == Ended(n) /\ UNCHANGED <<mounted, pools, hung>>

LEMMA DoingTodo ==
  ASSUME TypeOK, NEW n \in Nodes, NEW h, Doing(n, h)
  PROVE  h \in Todo(n)
<1>1. left[n] \in Seq(Ops) /\ left[n] # <<>> /\ Head(left[n]) = h
  BY DEF TypeOK, Doing
<1> QED
  BY <1>1, TailOfScript DEF Todo

LEMMA ScriptKinds ==
  ASSUME TypeOK, NEW n \in Nodes, RunScript(n)
  PROVE  /\ UNCHANGED <<orphans, cmd, abort, phase, summary, disturbed>>
         /\ \/ Prepares(n) \/ Aborts(n) \/ Exports(n) \/ GivesUp(n) \/ Ends(n)
            \/ \E x \in All : Mounts(n, x) \/ Unmounts(n, x)
<1> DEFINE Same == UNCHANGED <<orphans, cmd, abort, phase, summary, disturbed>>
<1>1. CASE RunImport(n) \/ RunModprobe(n) \/ RunConfigure(n)
  <2>1. UNCHANGED <<mounted, hung>>
    BY <1>1 DEF RunImport, RunModprobe, RunConfigure
  <2>2. PICK h \in {Import, Modprobe, Configure} :
          /\ Doing(n, h)
          /\ \/ \E status \in {"ok", "warn"} : Done(n, status)
             \/ Failed(n) /\ UNCHANGED pools
    BY <1>1 DEF RunImport, RunModprobe, RunConfigure
  <2>3. CASE \E status \in {"ok", "warn"} : Done(n, status)
    BY <2>1, <2>2, <2>3, DoneTakes DEF Prepares
  <2>4. CASE Failed(n) /\ UNCHANGED pools
    BY <2>1, <2>2, <2>4, FailedGives DEF GivesUp
  <2> QED
    BY <2>2, <2>3, <2>4
<1>2. CASE RunAbort(n)
  <2>1. PICK freed \in SUBSET Recovering(n, abort) :
          /\ mounted' = mounted \cup freed /\ hung' = hung \ freed
          /\ Done(n, "ok") \/ Done(n, "warn")
    BY <1>2 DEF RunAbort
  <2>2. Doing(n, Abort) /\ UNCHANGED pools
    BY <1>2 DEF RunAbort
  <2>3. freed \subseteq hung
    BY <2>1 DEF Recovering
  <2>4. /\ mounted \subseteq mounted' /\ hung' \subseteq hung
        /\ mounted' \ mounted \subseteq hung
    BY <2>1, <2>3
  <2> QED
    BY <2>1, <2>2, <2>4, DoneTakes DEF Aborts
<1>3. ASSUME NEW x \in All, RunMount(n, x)
      PROVE  Same /\ (Mounts(n, x) \/ GivesUp(n))
  <2>1. /\ Doing(n, Mount(x)) /\ UNCHANGED <<pools, hung>>
        /\ \/ /\ \E status \in {"ok", "warn"} : Done(n, status)
              /\ mounted' = mounted \cup {x}
           \/ /\ Failed(n) /\ mounted' = mounted
           \/ /\ worst' = Bump(worst, "red")
              /\ left' = [left EXCEPT ![n] = <<>>]
              /\ Same /\ mounted' = mounted
    BY <1>3 DEF RunMount
  <2>2. CASE /\ \E status \in {"ok", "warn"} : Done(n, status)
             /\ mounted' = mounted \cup {x}
    BY <2>1, <2>2, DoneTakes DEF Mounts
  <2>3. CASE Failed(n) /\ mounted' = mounted
    BY <2>1, <2>3, FailedGives DEF GivesUp
  <2>4. CASE /\ worst' = Bump(worst, "red")
             /\ left' = [left EXCEPT ![n] = <<>>]
             /\ Same /\ mounted' = mounted
    BY <2>1, <2>4 DEF GivesUp, Gave, Bump, Doing, TypeOK
  <2> QED
    BY <2>1, <2>2, <2>3, <2>4
<1>4. ASSUME NEW x \in All, RunUmount(n, x)
      PROVE  Same /\ (Unmounts(n, x) \/ GivesUp(n))
  <2>1. /\ Doing(n, Umount(x)) /\ UNCHANGED <<pools, hung>>
        /\ \/ Done(n, "ok") /\ mounted' = mounted \ {x}
           \/ Failed(n) /\ mounted' = mounted
    BY <1>4 DEF RunUmount
  <2>2. CASE Done(n, "ok") /\ mounted' = mounted \ {x}
    BY <2>1, <2>2, DoneTakes DEF Unmounts
  <2>3. CASE Failed(n) /\ mounted' = mounted
    BY <2>1, <2>3, FailedGives DEF GivesUp
  <2> QED
    BY <2>1, <2>2, <2>3
<1>5. ASSUME NEW x \in Servers, OutlastTimeout(n, x)
      PROVE  Same /\ GivesUp(n)
  <2>1. Mount(x) \in Todo(n) /\ x \in All /\ left[n] # <<>>
    BY <1>5, DoingTodo DEF OutlastTimeout, All, Doing
  <2>2. /\ left' = [left EXCEPT ![n] = <<Linger(x)>>] /\ worst' = 2
        /\ Same /\ UNCHANGED <<mounted, pools>>
    BY <1>5 DEF OutlastTimeout, Bump
  <2> QED
    BY <2>1, <2>2 DEF GivesUp, Gave
<1>6. ASSUME NEW x \in Servers, EndLinger(n, x)
      PROVE  Same /\ Ends(n)
  BY <1>6 DEF EndLinger, Doing, Ends, Ended, cluster
<1>7. CASE RunExport(n)
  <2>1. Doing(n, Export) /\ UNCHANGED <<mounted, hung>>
    BY <1>7 DEF RunExport
  <2>2. CASE Done(n, "warn") /\ UNCHANGED pools
    BY <2>1, <2>2, DoneTakes DEF Exports
  <2>3. CASE /\ Done(n, "ok") /\ pools' = [pools EXCEPT ![n] = FALSE]
             /\ ~Held(n)
    <3>1. hung \subseteq Servers /\ pools \in [Nodes -> BOOLEAN]
      BY DEF TypeOK
    <3>2. Cleared(n)' /\ \A m \in Nodes \ {n} : pools'[m] = pools[m]
      BY <2>1, <2>3, <3>1 DEF Cleared, Held
    <3> QED
      BY <2>1, <2>3, <3>2, DoneTakes DEF Exports
  <2> QED
    BY <1>7, <2>2, <2>3 DEF RunExport
<1> QED
  BY <1>1, <1>2, <1>3, <1>4, <1>5, <1>6, <1>7 DEF RunScript, All

-----------------------------------------------------------------------------
(* Types.                                                                  *)

LEMMA PhaseScripts ==
  ASSUME NEW c \in {"bringup", "teardown"}, NEW p \in 1..Phases(c)
  PROVE  /\ Len(PhasesOf(c)) = Phases(c) /\ Phases(c) \in {3, 7}
         /\ PhasesOf(c)[p] \in [Nodes -> Seq(Ops)]
<1>1. CASE c = "bringup"
  <2>1. PhasesOf(c) = BringupPhases /\ Phases(c) = 7
    BY <1>1 DEF PhasesOf, Phases
  <2>2. Len(BringupPhases) = 7
    BY DEF BringupPhases
  <2>3. \A n \in Nodes : BringupPhases[p] \in [Nodes -> Seq(Ops)]
    BY <2>1, BringupScripts
  <2> QED
    BY <2>1, <2>2, <2>3 DEF Nodes
<1>2. CASE c = "teardown"
  <2>1. PhasesOf(c) = TeardownPhases /\ Phases(c) = 3
    BY <1>2 DEF PhasesOf, Phases
  <2>2. Len(TeardownPhases) = 3
    BY DEF TeardownPhases
  <2>3. \A n \in Nodes : TeardownPhases[p] \in [Nodes -> Seq(Ops)]
    BY <2>1, TeardownScripts
  <2> QED
    BY <2>1, <2>2, <2>3 DEF Nodes
<1> QED
  BY <1>1, <1>2

\* TypeInv by its parts.
ClusterType ==
  /\ pools \in [Nodes -> BOOLEAN] /\ modules \in [Nodes -> BOOLEAN]
  /\ lnet \in [Nodes -> BOOLEAN]
  /\ mounted \subseteq Servers \cup Clients /\ hung \subseteq Servers

ControlType ==
  /\ cmd \in {"none", "bringup", "teardown"} /\ abort \in BOOLEAN
  /\ phase \in 1..7 /\ (cmd # "none" => phase <= Phases(cmd))
  /\ worst \in 0..2 /\ disturbed \in BOOLEAN
  /\ summary \in {"none", "up", "safe to poweroff", "warnings", "red",
                  "halted", "interrupted"}

\* What goes on without an ssh.
OrphanType ==
  /\ orphans \subseteq [node : Nodes, todo : Seq(Ops), abort : BOOLEAN]
  /\ \A o \in orphans : o.todo # <<>>

BudgetType ==
  /\ faults \in 0..MaxFaults /\ losses \in 0..MaxFaults
  /\ reboots \in 0..MaxReboots

LEMMA TypeParts ==
  TypeInv <=> /\ ClusterType /\ ControlType /\ BudgetType /\ OrphanType
              /\ left \in [Nodes -> Seq(Ops)]
BY DEF TypeInv, TypeOK, ClusterType, ControlType, BudgetType, OrphanType

LEMMA InitType == Init => TypeInv
<1>1. <<>> \in Seq(Ops)
  OBVIOUS
<1>2. On(<<>>, <<>>) \in [Nodes -> Seq(Ops)]
  BY <1>1 DEF On
<1> SUFFICES ASSUME Init PROVE TypeInv
  OBVIOUS
<1>3. /\ pools \in [Nodes -> BOOLEAN] /\ modules \in [Nodes -> BOOLEAN]
      /\ lnet \in [Nodes -> BOOLEAN]
  BY DEF Init
<1>4. mounted \subseteq Servers \cup Clients /\ hung \subseteq Servers
  BY DEF Init
<1>5. left \in [Nodes -> Seq(Ops)]
  BY <1>2 DEF Init
<1>6. /\ phase \in 1..7 /\ worst \in 0..2
      /\ faults \in 0..MaxFaults /\ losses \in 0..MaxFaults
      /\ reboots \in 0..MaxReboots
  BY LustreAssumption DEF Init, LustreAssumption
<1>7. /\ cmd = "none" /\ abort = FALSE /\ summary = "none"
      /\ disturbed = FALSE /\ orphans = {}
  BY DEF Init
<1> QED
  BY <1>3, <1>4, <1>5, <1>6, <1>7 DEF TypeInv, TypeOK

LEMMA StartType ==
  ASSUME TypeInv, NEW c \in {"bringup", "teardown"}, NEW withAbort \in BOOLEAN,
         Start(c, withAbort)
  PROVE  TypeInv'
<1>1. 1 \in 1..Phases(c) /\ 1 <= Phases(c)
  BY DEF Phases
<1>2. left' \in [Nodes -> Seq(Ops)]
  <2>1. PhasesOf(c)[1] \in [Nodes -> Seq(Ops)]
    BY <1>1, PhaseScripts
  <2> QED
    BY <2>1 DEF Start
<1>3. /\ phase' = 1 /\ cmd' = c /\ abort' = withAbort /\ worst' = 0
      /\ summary' = "none" /\ disturbed' = FALSE
      /\ UNCHANGED <<cluster, orphans, budget>>
  BY DEF Start
<1>4. ClusterType' /\ BudgetType' /\ OrphanType'
  BY <1>3, TypeParts DEF ClusterType, BudgetType, OrphanType, cluster, budget
<1>5. ControlType'
  <2>1. abort' \in BOOLEAN /\ disturbed' \in BOOLEAN
    BY <1>3, Zenon
  <2>2. /\ cmd' \in {"none", "bringup", "teardown"} /\ phase' \in 1..7
        /\ worst' \in 0..2 /\ summary' \in {"none"}
    BY <1>3
  <2>3. (cmd # "none" => phase <= Phases(cmd))'
    BY <1>3 DEF Phases
  <2> QED
    BY <2>1, <2>2, <2>3 DEF ControlType
<1> QED
  BY <1>2, <1>4, <1>5
  DEF TypeInv, TypeOK, ClusterType, ControlType, BudgetType, OrphanType

\* What the end of a phase comes to.
Follows ==
  /\ phase < Phases(cmd) /\ ~Halts(worst')
  /\ phase' = phase + 1 /\ left' = PhasesOf(cmd)[phase + 1]
  /\ UNCHANGED <<cmd, summary, abort, disturbed>>

\* The command is over.
Over ==
  /\ cmd' = "none" /\ abort' = FALSE /\ phase' = 1 /\ disturbed' = FALSE
  /\ UNCHANGED left

LEMMA EndPhaseKinds ==
  ASSUME TypeInv, EndPhase
  PROVE  /\ Quiet /\ cmd \in {"bringup", "teardown"}
         /\ UNCHANGED <<cluster, orphans, losses, reboots>>
         /\ worst' \in 0..2 /\ (worst' = 0 => worst = 0) /\ (worst = 2 => worst' = 2)
         /\ faults' \in 0..MaxFaults
         /\ \/ Follows
            \/ /\ phase = Phases(cmd) /\ Over /\ summary' = Summary
               /\ worst' = worst
            \/ Over /\ summary' = "halted"
<1>1. /\ cmd \in {"bringup", "teardown"} /\ worst \in 0..2 /\ Quiet
      /\ phase \in 1..7 /\ phase <= Phases(cmd) /\ faults \in 0..MaxFaults
      /\ losses \in 0..MaxFaults /\ MaxFaults \in Nat
  BY LustreAssumption DEF TypeInv, TypeOK, EndPhase, LustreAssumption
<1>2. PICK status \in Finding :
        /\ status # "red" \/ (\E n \in Nodes : ~lnet[n]) \/ FaultsLeft
        /\ worst' = Bump(worst, status)
        /\ faults' = IF status = "red" /\ \A n \in Nodes : lnet[n]
                     THEN faults + 1 ELSE faults
  BY DEF EndPhase
<1>3. /\ status \in {"ok", "warn", "red"}
      /\ phase = Phases(cmd) => status = "ok"
  BY <1>1 DEF Finding, PingPhase, RegistrationPhase, Phases
<1>4. /\ worst' \in 0..2 /\ (worst' = 0 => worst = 0) /\ (worst = 2 => worst' = 2)
      /\ phase = Phases(cmd) => worst' = worst
  BY <1>1, <1>2, <1>3, BumpFacts
<1>5. faults' \in 0..MaxFaults
  BY <1>1, <1>2 DEF FaultsLeft
<1>6. LastPhase <=> phase = Phases(cmd)
  <2>1. Phases(cmd) \in {3, 7}
    BY <1>1 DEF Phases
  <2>2. Len(PhasesOf(cmd)) = Phases(cmd)
    BY <1>1, <2>1, PhaseScripts
  <2> QED
    BY <2>2 DEF LastPhase
<1>7. UNCHANGED <<cluster, orphans, losses, reboots>>
  BY DEF EndPhase, Finish
<1>8. CASE phase = Phases(cmd)
  <2>1. Finish(Summary)
    BY <1>6, <1>8 DEF EndPhase
  <2>2. Over /\ summary' = Summary
    BY <2>1, Zenon DEF Finish, Over
  <2> QED
    BY <1>1, <1>4, <1>5, <1>7, <1>8, <2>2
<1>9. CASE phase # Phases(cmd) /\ Halts(worst')
  <2>1. Finish("halted")
    BY <1>6, <1>9 DEF EndPhase
  <2> QED
    BY <1>1, <1>4, <1>5, <1>7, <2>1 DEF Finish, Over
<1>10. CASE phase # Phases(cmd) /\ ~Halts(worst')
  <2>1. /\ phase' = phase + 1 /\ left' = PhasesOf(cmd)[phase + 1]
        /\ UNCHANGED <<cmd, summary, abort, disturbed>>
    BY <1>6, <1>10 DEF EndPhase
  <2>2. phase < Phases(cmd)
    BY <1>1, <1>10 DEF Phases
  <2> QED
    BY <1>1, <1>4, <1>5, <1>7, <1>10, <2>1, <2>2 DEF Follows
<1> QED
  BY <1>8, <1>9, <1>10

LEMMA EndPhaseType ==
  ASSUME TypeInv, EndPhase
  PROVE  TypeInv'
<1>1. /\ cmd' \in {cmd, "none"} /\ cmd \in {"bringup", "teardown"}
      /\ abort' \in {abort, FALSE} /\ disturbed' \in {disturbed, FALSE}
      /\ UNCHANGED <<cluster, orphans, losses, reboots>>
      /\ worst' \in 0..2 /\ faults' \in 0..MaxFaults
  BY EndPhaseKinds DEF Follows, Over
<1>2. /\ phase' \in 1..7 /\ left' \in [Nodes -> Seq(Ops)]
      /\ cmd' # "none" => phase' <= Phases(cmd')
  <2>1. CASE Follows
    <3>1. phase \in 1..7 /\ Phases(cmd) \in {3, 7}
      BY <1>1 DEF TypeInv, TypeOK, Phases
    <3>2. phase + 1 \in 1..Phases(cmd) /\ phase + 1 \in 1..7
      BY <2>1, <3>1 DEF Follows
    <3>3. PhasesOf(cmd)[phase + 1] \in [Nodes -> Seq(Ops)]
      BY <1>1, <3>2, PhaseScripts
    <3> QED
      BY <2>1, <3>1, <3>2, <3>3 DEF Follows
  <2>2. CASE Over
    <3>1. cmd' = "none" /\ phase' = 1 /\ left' = left
      BY <2>2, Zenon DEF Over
    <3>2. left \in [Nodes -> Seq(Ops)]
      BY DEF TypeInv, TypeOK
    <3> QED
      BY <3>1, <3>2
  <2> QED
    BY <2>1, <2>2, EndPhaseKinds
<1>3. summary' \in {"none", "up", "safe to poweroff", "warnings", "red",
                    "halted", "interrupted"}
  <2>1. summary' \in {summary, Summary, "halted"}
    BY EndPhaseKinds DEF Follows
  <2> QED
    BY <2>1 DEF TypeInv, TypeOK, Summary
<1> QED
  BY <1>1, <1>2, <1>3 DEF TypeInv, TypeOK, cluster

LEMMA ScriptType ==
  ASSUME TypeInv, NEW n \in Nodes, RunScript(n)
  PROVE  TypeInv'
<1>1. /\ UNCHANGED <<orphans, cmd, abort, phase, summary, disturbed>>
      /\ \/ \E h : Took(n, h)
         \/ Gave(n)
         \/ Ended(n)
  BY ScriptKinds DEF TypeInv, Prepares, Aborts, Exports, GivesUp, Ends,
                     Mounts, Unmounts
<1>2. left \in [Nodes -> Seq(Ops)] /\ worst \in 0..2
  BY DEF TypeInv, TypeOK
<1>3. left' \in [Nodes -> Seq(Ops)] /\ worst' \in 0..2
  <2>1. ASSUME NEW h, Took(n, h)
        PROVE  left' \in [Nodes -> Seq(Ops)] /\ worst' \in 0..2
    <3>1. left' \in [Nodes -> Seq(Ops)]
      BY <1>2, <2>1, TodoTaken
    <3> QED
      BY <2>1, <3>1 DEF Took
  <2>2. ASSUME Gave(n) \/ Ended(n)
        PROVE  left' \in [Nodes -> Seq(Ops)] /\ worst' \in 0..2
    <3>1. left' \in [Nodes -> Seq(Ops)]
      BY <1>2, <2>2, TodoGiven
    <3> QED
      BY <1>2, <2>2, <3>1 DEF Gave, Ended
  <2> QED
    BY <1>1, <2>1, <2>2
<1>4. /\ pools \in [Nodes -> BOOLEAN] /\ modules \in [Nodes -> BOOLEAN]
      /\ lnet \in [Nodes -> BOOLEAN] /\ mounted \subseteq All
      /\ hung \subseteq Servers /\ faults \in 0..MaxFaults /\ losses \in 0..MaxFaults
      /\ MaxFaults \in Nat
  BY LustreAssumption DEF TypeInv, TypeOK, All, LustreAssumption
<1>5. /\ pools' \in [Nodes -> BOOLEAN] /\ modules' \in [Nodes -> BOOLEAN]
      /\ lnet' \in [Nodes -> BOOLEAN]
  BY <1>4 DEF RunScript, RunImport, RunModprobe, RunConfigure, RunAbort,
              RunMount, RunUmount, OutlastTimeout, EndLinger, RunExport, cluster
<1>6. mounted' \subseteq All /\ hung' \subseteq Servers
  <2>1. CASE RunAbort(n)
    BY <1>4, <2>1 DEF RunAbort, Recovering, All
  <2>2. CASE ~RunAbort(n)
    BY <1>4, <2>2 DEF RunScript, RunImport, RunModprobe, RunConfigure,
                      RunMount, RunUmount, OutlastTimeout, EndLinger,
                      RunExport, cluster, All
  <2> QED
    BY <2>1, <2>2
<1>7. /\ faults' = faults \/ (FaultsLeft /\ faults' = faults + 1)
      /\ UNCHANGED <<losses, reboots>>
  BY DEF RunScript, RunImport, RunModprobe, RunConfigure, RunAbort, RunMount,
         RunUmount, OutlastTimeout, EndLinger, RunExport, Done, Failed, budget
<1>8. faults' \in 0..MaxFaults
  BY <1>4, <1>7 DEF FaultsLeft
<1> QED
  BY <1>1, <1>3, <1>5, <1>6, <1>7, <1>8 DEF TypeInv, TypeOK, All

\* What is left of the scripts that lose their ssh.
LEMMA AbandonedType ==
  ASSUME TypeInv, NEW n \in Nodes
  PROVE  /\ Abandoned(n) \subseteq [node : Nodes, todo : Seq(Ops), abort : BOOLEAN]
         /\ \A o \in Abandoned(n) : o.todo # <<>>
<1>1. left[n] \in Seq(Ops) /\ abort \in BOOLEAN
  BY DEF TypeInv, TypeOK
<1>2. CASE left[n] = <<>> \/ Head(left[n]).op = "linger"
  BY <1>2 DEF Abandoned
<1>3. CASE ~(left[n] = <<>> \/ Head(left[n]).op = "linger")
  <2>1. Abandoned(n) = {[node |-> n, todo |-> left[n], abort |-> abort]}
    BY <1>3 DEF Abandoned
  <2> QED
    BY <1>1, <1>3, <2>1
<1> QED
  BY <1>2, <1>3

LEMMA OrphanWorksType ==
  ASSUME TypeInv, NEW o \in orphans, OrphanWorks(o)
  PROVE  TypeInv'
<1>1. /\ ClusterType /\ ControlType /\ BudgetType /\ OrphanType
      /\ left \in [Nodes -> Seq(Ops)]
  BY TypeParts
<1>2. /\ o \in [node : Nodes, todo : Seq(Ops), abort : BOOLEAN]
      /\ o.todo # <<>> /\ o.node \in Nodes
  BY <1>1 DEF OrphanType
<1>3. Carries(o.node, Head(o.todo), o.abort)
  BY DEF OrphanWorks
<1>4. ClusterType'
  <2>1. /\ pools' \in [Nodes -> BOOLEAN] /\ modules' \in [Nodes -> BOOLEAN]
        /\ lnet' \in [Nodes -> BOOLEAN]
    BY <1>1, <1>2, <1>3 DEF Carries, ClusterType, Held
  <2>2. mounted' \subseteq Servers \cup Clients
    BY <1>1, <1>3 DEF Carries, ClusterType, Recovering
  <2>3. hung' \subseteq Servers
    BY <1>1, <1>3 DEF Carries, ClusterType
  <2> QED
    BY <2>1, <2>2, <2>3 DEF ClusterType
<1>5. OrphanType'
  <2> DEFINE rest == {r \in {Tail(o.todo)} : r # <<>>}
  <2>1. Tail(o.todo) \in Seq(Ops)
    BY <1>2, TailOfScript
  <2>2. \A r \in rest : r \in Seq(Ops) /\ r # <<>>
    BY <2>1
  <2>3. orphans' = (orphans \ {o}) \cup {[o EXCEPT !.todo = r] : r \in rest}
    BY DEF OrphanWorks
  <2> HIDE DEF rest
  <2>4. ASSUME NEW q \in orphans'
        PROVE  /\ q \in [node : Nodes, todo : Seq(Ops), abort : BOOLEAN]
               /\ q.todo # <<>>
    <3>1. CASE q \in orphans
      BY <1>1, <3>1 DEF OrphanType
    <3>2. ASSUME NEW r \in rest, q = [o EXCEPT !.todo = r]
          PROVE  /\ q \in [node : Nodes, todo : Seq(Ops), abort : BOOLEAN]
                 /\ q.todo # <<>>
      BY <1>2, <2>2, <3>2
    <3> QED
      BY <2>3, <2>4, <3>1, <3>2
  <2> QED
    BY <2>4 DEF OrphanType
<1>6. UNCHANGED <<cmd, abort, phase, left, worst, summary, budget>>
  BY DEF OrphanWorks
<1>7. disturbed' \in BOOLEAN
  BY DEF OrphanWorks
<1>8. ControlType'
  BY <1>1, <1>6, <1>7 DEF ControlType
<1>9. BudgetType' /\ left' \in [Nodes -> Seq(Ops)]
  BY <1>1, <1>6 DEF BudgetType, budget
<1> QED
  BY <1>4, <1>5, <1>8, <1>9
  DEF TypeInv, TypeOK, ClusterType, ControlType, BudgetType, OrphanType

LEMMA EnvironmentType ==
  ASSUME TypeInv,
         \/ \E n \in Nodes : LoseSsh(n) \/ Reboot(n)
         \/ Interrupt \/ GiveUpWaiting
         \/ \E x \in Servers : LateMount(x)
         \/ \E o \in orphans : OrphanDies(o)
  PROVE  TypeInv'
<1> USE DEF OrphanType
<1>1. <<>> \in Seq(Ops) /\ On(<<>>, <<>>) \in [Nodes -> Seq(Ops)]
  <2>1. <<>> \in Seq(Ops)
    OBVIOUS
  <2> QED
    BY <2>1 DEF On
<1>2. MaxFaults \in Nat /\ MaxReboots \in Nat
  BY LustreAssumption DEF LustreAssumption
<1>3. /\ ClusterType /\ ControlType /\ BudgetType /\ OrphanType
      /\ left \in [Nodes -> Seq(Ops)]
  BY TypeParts
<1>4. ASSUME NEW n \in Nodes, LoseSsh(n)
      PROVE  TypeInv'
  <2>1. BudgetType'
    BY <1>2, <1>3, <1>4 DEF LoseSsh, BudgetType, FaultsLeft
  <2>2. left' \in [Nodes -> Seq(Ops)]
    BY <1>1, <1>3, <1>4 DEF LoseSsh
  <2>3. ClusterType'
    BY <1>3, <1>4 DEF LoseSsh, cluster, ClusterType
  <2>4. ControlType'
    BY <1>3, <1>4 DEF LoseSsh, ControlType
  <2>5. OrphanType'
    <3>1. orphans' = orphans \cup Abandoned(n)
      BY <1>4 DEF LoseSsh
    <3> QED
      BY <1>3, <3>1, AbandonedType
  <2> QED
    BY <2>1, <2>2, <2>3, <2>4, <2>5
  DEF TypeInv, TypeOK, ClusterType, ControlType, BudgetType
<1>5. ASSUME NEW n \in Nodes, Reboot(n)
      PROVE  TypeInv'
  <2>1. BudgetType'
    BY <1>2, <1>3, <1>5 DEF Reboot, BudgetType
  <2>2. left' \in [Nodes -> Seq(Ops)]
    BY <1>1, <1>3, <1>5 DEF Reboot
  <2>3. ClusterType'
    BY <1>3, <1>5 DEF Reboot, ClusterType
  <2>4. ControlType'
    BY <1>3, <1>5 DEF Reboot, ControlType
  <2>5. OrphanType'
    BY <1>3, <1>5 DEF Reboot
  <2> QED
    BY <2>1, <2>2, <2>3, <2>4, <2>5
  DEF TypeInv, TypeOK, ClusterType, ControlType, BudgetType
<1>6. ASSUME Interrupt \/ GiveUpWaiting
      PROVE  TypeInv'
  <2>0. BreakOff
    BY <1>6 DEF Interrupt, GiveUpWaiting
  <2>1. BudgetType'
    BY <1>2, <1>3, <1>6
    DEF Interrupt, GiveUpWaiting, budget, BudgetType, FaultsLeft
  <2>2. left' \in [Nodes -> Seq(Ops)]
    BY <1>1, <2>0 DEF BreakOff
  <2>3. ClusterType'
    BY <1>3, <2>0 DEF BreakOff, cluster, ClusterType
  <2>4. ControlType'
    <3>1. /\ cmd' = "none" /\ summary' = "interrupted" /\ phase' = 1
          /\ worst' = 0 /\ abort' = FALSE /\ disturbed' = FALSE
      BY <2>0 DEF BreakOff
    <3>2. phase' \in 1..7 /\ worst' \in 0..2
      BY <3>1
    <3>3. abort' \in BOOLEAN /\ disturbed' \in BOOLEAN
      BY <3>1, Zenon
    <3> QED
      BY <3>1, <3>2, <3>3 DEF ControlType
  <2>5. OrphanType'
    <3>1. orphans' = orphans \cup UNION {Abandoned(n) : n \in Nodes}
      BY <2>0 DEF BreakOff
    <3>2. ASSUME NEW o \in orphans'
          PROVE  /\ o \in [node : Nodes, todo : Seq(Ops), abort : BOOLEAN]
                 /\ o.todo # <<>>
      <4>1. CASE o \in orphans
        BY <1>3, <4>1
      <4>2. CASE o \notin orphans
        <5>1. PICK n \in Nodes : o \in Abandoned(n)
          BY <3>1, <3>2, <4>2
        <5> QED
          BY <5>1, AbandonedType
      <4> QED
        BY <4>1, <4>2
    <3> QED
      BY <3>2
  <2> QED
    BY <2>1, <2>2, <2>3, <2>4, <2>5
  DEF TypeInv, TypeOK, ClusterType, ControlType, BudgetType
<1>7. ASSUME NEW x \in Servers, LateMount(x)
      PROVE  TypeInv'
  <2>1. ClusterType'
    BY <1>3, <1>7 DEF LateMount, ClusterType
  <2>2. BudgetType' /\ left' \in [Nodes -> Seq(Ops)] /\ OrphanType'
    BY <1>3, <1>7 DEF LateMount, budget, BudgetType
  <2>3. ControlType'
    BY <1>3, <1>7 DEF LateMount, ControlType
  <2> QED
    BY <2>1, <2>2, <2>3
  DEF TypeInv, TypeOK, ClusterType, ControlType, BudgetType
<1>8. ASSUME NEW o \in orphans, OrphanDies(o)
      PROVE  TypeInv'
  <2>1. UNCHANGED <<cluster, cmd, abort, phase, left, worst, summary, disturbed,
                    budget>>
    BY <1>8 DEF OrphanDies
  <2>2. OrphanType'
    BY <1>3, <1>8 DEF OrphanDies
  <2>3. ClusterType' /\ BudgetType'
    BY <1>3, <2>1 DEF ClusterType, BudgetType, cluster, budget
  <2>4. ControlType' /\ left' \in [Nodes -> Seq(Ops)]
    BY <1>3, <2>1 DEF ControlType
  <2> QED
    BY <2>2, <2>3, <2>4
  DEF TypeInv, TypeOK, ClusterType, ControlType, BudgetType
<1> QED
  BY <1>4, <1>5, <1>6, <1>7, <1>8

LEMMA StutterType == TypeInv /\ UNCHANGED vars => TypeInv'
BY DEF TypeInv, TypeOK, vars, cluster, budget

LEMMA NextType == TypeInv /\ [Next]_vars => TypeInv'
BY StartType, EndPhaseType, ScriptType, EnvironmentType, OrphanWorksType,
   StutterType
DEF Next, Work

-----------------------------------------------------------------------------
(* Bringup.                                                                *)

\* Faults of the environment: the command is disturbed, or over.
Fault ==
  \/ \E n \in Nodes : LoseSsh(n) \/ Reboot(n)
  \/ Interrupt \/ GiveUpWaiting
  \/ \E x \in Servers : LateMount(x)
  \/ \E o \in orphans : OrphanWorks(o)

LEMMA FaultDisturbs ==
  ASSUME Fault
  PROVE  disturbed' = TRUE \/ cmd' = "none"
BY DEF Fault, LoseSsh, Reboot, Interrupt, GiveUpWaiting, BreakOff, LateMount,
       OrphanWorks

LEMMA PhaseOfAll ==
  \A x \in All : MountPhase(x) \in {3, 4, 5, 7} /\ UmountPhase(x) \in 1..3
BY DEF MountPhase, UmountPhase

\* The next phase begins when both scripts of this one have ended.
LEMMA FollowsTodo ==
  ASSUME TypeInv, EndPhase, Follows
  PROVE  /\ phase + 1 \in 1..Phases(cmd) /\ phase \in Nat
         /\ \A n \in Nodes : Todo(n) = {}
         /\ \A n \in Nodes : /\ left'[n] = PhasesOf(cmd)[phase + 1][n]
                            /\ Todo(n)' = Elems(PhasesOf(cmd)[phase + 1][n])
<1>1. phase \in 1..7 /\ Phases(cmd) \in {3, 7} /\ phase < Phases(cmd) /\ Quiet
  BY EndPhaseKinds DEF TypeInv, TypeOK, Follows, Phases
<1>2. left' = PhasesOf(cmd)[phase + 1]
  BY DEF Follows
<1>3. \A n \in Nodes : Todo(n) = {}
  BY <1>1, ElemsOf0 DEF Todo, Quiet
<1>4. \A n \in Nodes : Todo(n)' = Elems(left'[n])
  BY DEF Todo
<1> QED
  BY <1>1, <1>2, <1>3, <1>4

LEMMA StartBringup ==
  ASSUME TypeInv, NEW c \in {"bringup", "teardown"}, NEW withAbort,
         Start(c, withAbort)
  PROVE  BringupInv'
<1> SUFFICES ASSUME c = "bringup"
             PROVE  BringupInv'
  BY DEF BringupInv, Start
<1>1. phase' = 1 /\ left' = BringupPhases[1]
  BY DEF Start, PhasesOf
<1>2. \A n \in Nodes : Todo(n)' = Elems(BringupPhases[1][n])
  BY <1>1 DEF Todo
<1>3. \A n \in Nodes :
        /\ \A x \in All : Mount(x) \notin Todo(n)' /\ Umount(x) \notin Todo(n)'
        /\ \A x \in Servers : Linger(x) \notin Todo(n)'
  BY <1>2, BringupScripts, PhaseOfAll
<1> QED
  BY <1>1, <1>3, PhaseOfAll DEF BringupInv

LEMMA EndPhaseBringup ==
  ASSUME TypeInv, BringupInv, EndPhase
  PROVE  BringupInv'
<1>1. CASE cmd' = "none"
  BY <1>1 DEF BringupInv
<1>2. CASE Follows
  <2> SUFFICES ASSUME cmd = "bringup", ~disturbed
               PROVE  BringupInv'
    BY <1>2, EndPhaseKinds DEF Follows, BringupInv
  <2>1. /\ phase + 1 \in 1..7 /\ phase \in Nat /\ phase' = phase + 1
        /\ \A n \in Nodes : Todo(n) = {}
        /\ \A n \in Nodes : Todo(n)' = Elems(BringupPhases[phase + 1][n])
    BY <1>2, FollowsTodo DEF Follows, PhasesOf, Phases
  <2>2. worst # 2 /\ mounted' = mounted
    BY <1>2, EndPhaseKinds DEF Follows, Halts, cluster
  <2>3. \A x \in All : NodeOf(x) \in Nodes
    BY DEF NodeOf, Nodes
  <2>4. \A x \in All : MountPhase(x) < phase + 1 => x \in mounted'
    <3> SUFFICES ASSUME NEW x \in All, MountPhase(x) < phase + 1
                 PROVE  x \in mounted
      BY <2>2
    <3>1. MountPhase(x) < phase \/ MountPhase(x) = phase
      BY <2>1, PhaseOfAll
    <3> QED
      BY <2>1, <2>2, <2>3, <3>1 DEF BringupInv
  <2>5. \A n \in Nodes :
          /\ \A x \in All :
               /\ Mount(x) \in Todo(n)'
                   <=> MountPhase(x) = phase + 1 /\ NodeOf(x) = n
               /\ Umount(x) \notin Todo(n)'
          /\ \A x \in Servers : Linger(x) \notin Todo(n)'
    <3> DEFINE q == phase + 1
    <3>1. q \in 1..7 /\ \A n \in Nodes : Todo(n)' = Elems(BringupPhases[q][n])
      BY <2>1
    <3> HIDE DEF q
    <3>2. \A n \in Nodes :
            /\ \A x \in All :
                 /\ Mount(x) \in Elems(BringupPhases[q][n])
                     <=> MountPhase(x) = q /\ NodeOf(x) = n
                 /\ Umount(x) \notin Elems(BringupPhases[q][n])
            /\ \A x \in Servers : Linger(x) \notin Elems(BringupPhases[q][n])
      BY <3>1, BringupScripts
    <3> QED
      BY <3>1, <3>2 DEF q
  <2> QED
    BY <2>1, <2>3, <2>4, <2>5 DEF BringupInv
<1> QED
  BY <1>1, <1>2, EndPhaseKinds DEF Over

LEMMA ScriptBringup ==
  ASSUME TypeInv, BringupInv, NEW n \in Nodes, RunScript(n)
  PROVE  BringupInv'
<1>1. UNCHANGED <<cmd, phase, disturbed>>
  BY ScriptKinds DEF TypeInv
<1> SUFFICES ASSUME cmd = "bringup", ~disturbed
             PROVE  BringupInv'
  BY <1>1 DEF BringupInv
<1>2. left \in [Nodes -> Seq(Ops)] /\ worst \in 0..2
  BY DEF TypeInv, TypeOK
<1>3. /\ \A x \in All : NodeOf(x) \in Nodes
      /\ \A x \in Servers : x \in All
  BY DEF NodeOf, Nodes, All
<1>4. ASSUME NEW h, Took(n, h), mounted \subseteq mounted',
             \A x \in All : h = Mount(x) => x \in mounted'
      PROVE  BringupInv'
  <2>1. /\ \A m \in Nodes : Todo(m)' \subseteq Todo(m)
        /\ \A m \in Nodes : Todo(m) \subseteq Todo(m)' \cup {h}
        /\ worst = 2 => worst' = 2
    BY <1>2, <1>4, TodoTaken DEF Took
  <2>2. \A x \in All : MountPhase(x) = phase' =>
          worst' = 2 \/ x \in mounted' \/ Mount(x) \in Todo(NodeOf(x))'
    BY <1>1, <1>3, <1>4, <2>1 DEF BringupInv
  <2> QED
    BY <1>1, <1>4, <2>1, <2>2 DEF BringupInv
<1>5. ASSUME Gave(n) \/ Ended(n), mounted' = mounted
      PROVE  BringupInv'
  <2>1. worst' = 2
    <3>1. CASE Gave(n)
      BY <3>1 DEF Gave
    <3>2. CASE Ended(n)
      <4>1. PICK x \in Servers : left[n] # <<>> /\ Head(left[n]) = Linger(x)
        BY <3>2 DEF Ended
      <4>2. Linger(x) \in Todo(n)
        BY <4>1, DoingTodo DEF Doing, TypeInv
      <4> QED
        BY <3>2, <4>2 DEF BringupInv, Ended
    <3> QED
      BY <1>5, <3>1, <3>2
  <2>2. /\ \A m \in Nodes : m # n => Todo(m)' = Todo(m)
        /\ Todo(n)' \subseteq {Linger(x) : x \in Servers}
    BY <1>2, <1>5, TodoGiven
  <2>3. \A x \in All : Mount(x) \notin Todo(n)' /\ Umount(x) \notin Todo(n)'
    BY <2>2, OpsDiffer
  <2> QED
    BY <1>1, <1>5, <2>1, <2>2, <2>3 DEF BringupInv
<1>6. CASE Prepares(n)
  BY <1>4, <1>6, OpsDiffer DEF Prepares
<1>7. CASE Aborts(n)
  BY <1>4, <1>7, OpsDiffer DEF Aborts
<1>8. CASE Exports(n)
  BY <1>4, <1>8, OpsDiffer DEF Exports
<1>9. CASE GivesUp(n) \/ Ends(n)
  BY <1>5, <1>9 DEF GivesUp, Ends
<1>10. ASSUME NEW x \in All, Mounts(n, x)
       PROVE  BringupInv'
  BY <1>4, <1>10, OpsDiffer DEF Mounts
<1>11. ASSUME NEW x \in All, Unmounts(n, x)
       PROVE  BringupInv'
  BY <1>2, <1>11, TodoTaken DEF Unmounts, BringupInv
<1> QED
  BY <1>6, <1>7, <1>8, <1>9, <1>10, <1>11, ScriptKinds DEF TypeInv

-----------------------------------------------------------------------------
(* Teardown.                                                               *)

\* A script of a teardown unmounts, exports, or gives up.
LEMMA TeardownKinds ==
  ASSUME TypeInv, ScriptInv, cmd = "teardown", NEW n \in Nodes, RunScript(n)
  PROVE  /\ UNCHANGED <<cmd, phase, disturbed>>
         /\ \/ Exports(n)
            \/ \E x \in All : Unmounts(n, x)
            \/ /\ Gave(n) /\ Todo(n)' = {} /\ Sorted(left'[n])
               /\ UNCHANGED <<mounted, pools, hung>>
<1>1. left \in [Nodes -> Seq(Ops)] /\ TypeOK
  BY DEF TypeInv, TypeOK
<1>2. \A op \in Todo(n) : op = Export \/ \E x \in All : op = Umount(x)
  BY DEF ScriptInv
<1>3. ASSUME NEW h, Took(n, h)
      PROVE  h = Export \/ \E x \in All : h = Umount(x)
  BY <1>1, <1>2, <1>3, TodoTaken
<1>4. ~Prepares(n)
  BY <1>3, OpsDiffer DEF Prepares
<1>5. ~Aborts(n)
  BY <1>3, OpsDiffer DEF Aborts
<1>6. ~\E x \in All : Mounts(n, x)
  BY <1>3, OpsDiffer DEF Mounts
<1>7. ~Ends(n)
  <2> SUFFICES ASSUME Ends(n) PROVE FALSE
    OBVIOUS
  <2>1. PICK x \in Servers : left[n] # <<>> /\ Head(left[n]) = Linger(x)
    BY DEF Ends, Ended
  <2>2. Linger(x) \in Todo(n)
    BY <1>1, <2>1, DoingTodo DEF Doing
  <2> QED
    BY <1>2, <2>2, OpsDiffer
<1>8. ASSUME GivesUp(n)
      PROVE  /\ Gave(n) /\ Todo(n)' = {} /\ Sorted(left'[n])
             /\ UNCHANGED <<mounted, pools, hung>>
  <2>1. \A x \in All : Mount(x) \notin Todo(n)
    BY <1>2, OpsDiffer
  <2>2. left'[n] = <<>> /\ hung' = hung
    BY <1>8, <2>1 DEF GivesUp
  <2> QED
    BY <1>8, <2>2, ElemsOf0 DEF GivesUp, Todo, Sorted
<1> QED
  BY <1>1, <1>4, <1>5, <1>6, <1>7, <1>8, ScriptKinds

\* A fault takes scripts away.
LEMMA FaultTodo ==
  ASSUME TypeInv, Fault, cmd' = "teardown"
  PROVE  /\ cmd = "teardown" /\ phase' = phase /\ disturbed' = TRUE
         /\ \A n \in Nodes : left'[n] = left[n] \/ left'[n] = <<>>
BY DEF TypeInv, TypeOK, Fault, LoseSsh, Reboot, Interrupt, GiveUpWaiting,
       BreakOff, LateMount, OrphanWorks

LEMMA StartTeardown ==
  ASSUME TypeInv, NEW c \in {"bringup", "teardown"}, NEW withAbort,
         Start(c, withAbort)
  PROVE  ScriptInv' /\ OrderInv' /\ TeardownInv'
<1> SUFFICES ASSUME c = "teardown"
             PROVE  ScriptInv' /\ OrderInv' /\ TeardownInv'
  BY DEF ScriptInv, OrderInv, TeardownInv, Start
<1>1. phase' = 1 /\ left' = TeardownPhases[1]
  BY DEF Start, PhasesOf
<1>2. \A n \in Nodes : Todo(n)' = Elems(TeardownPhases[1][n])
  BY <1>1 DEF Todo
<1>3. \A n \in Nodes :
        /\ \A x \in All : Umount(x) \in Todo(n)'
                          <=> UmountPhase(x) = 1 /\ NodeOf(x) = n
        /\ Export \in Todo(n)' <=> ExportPhase(n) = 1
        /\ \A op \in Todo(n)' : op = Export \/ \E x \in All : op = Umount(x)
        /\ Sorted(left'[n])
  <2> DEFINE q == 1
  <2>0. q \in 1..3
    OBVIOUS
  <2> HIDE DEF q
  <2>1. \A n \in Nodes :
          /\ \A x \in All : Umount(x) \in Elems(TeardownPhases[q][n])
                            <=> UmountPhase(x) = q /\ NodeOf(x) = n
          /\ Export \in Elems(TeardownPhases[q][n]) <=> ExportPhase(n) = q
          /\ \A op \in Elems(TeardownPhases[q][n]) :
               op = Export \/ \E x \in All : op = Umount(x)
          /\ Sorted(TeardownPhases[q][n])
    BY <2>0, TeardownScripts
  <2> QED
    BY <1>1, <1>2, <2>1 DEF q
<1>4. ScriptInv'
  BY <1>1, <1>3 DEF ScriptInv
<1>5. \A x \in Servers : x \in All /\ UmountPhase(x) # 1
  BY DEF Servers, Clients, UmountPhase, All
<1>6. OrderInv'
  <2>1. \A n \in Nodes, x \in Servers : Umount(x) \notin Todo(n)'
    BY <1>3, <1>5
  <2>2. \A n \in Nodes : Sorted(left'[n])
    BY <1>3
  <2> QED
    BY <2>1, <2>2 DEF OrderInv
<1>7. \A x \in All : NodeOf(x) \in Nodes
  BY DEF NodeOf, Nodes
<1>8. \A n \in Nodes : ExportPhase(n) \in {2, 3}
  BY DEF ExportPhase
<1>9. TeardownInv'
  <2>1. \A x \in All : ~(UmountPhase(x) < phase')
    BY <1>1, PhaseOfAll
  <2>2. \A x \in All :
          UmountPhase(x) = phase' => Umount(x) \in Todo(NodeOf(x))'
    BY <1>1, <1>3, <1>7
  <2>3. \A n \in Nodes : ~(ExportPhase(n) < phase') /\ ExportPhase(n) # phase'
    BY <1>1, <1>8
  <2> QED
    BY <2>1, <2>2, <2>3 DEF TeardownInv
<1> QED
  BY <1>4, <1>6, <1>9

LEMMA EndPhaseTeardown ==
  ASSUME TypeInv, TeardownInv, EndPhase
  PROVE  ScriptInv' /\ OrderInv' /\ TeardownInv'
<1>1. CASE cmd' = "none"
  BY <1>1 DEF ScriptInv, OrderInv, TeardownInv
<1>2. CASE Follows
  <2> SUFFICES ASSUME cmd = "teardown"
               PROVE  ScriptInv' /\ OrderInv' /\ TeardownInv'
    BY <1>2 DEF Follows, ScriptInv, OrderInv, TeardownInv
  <2> DEFINE q == phase + 1
  <2>1. /\ q \in 1..3 /\ phase \in Nat /\ phase' = q
        /\ \A x : UmountPhase(x) \in Int => (UmountPhase(x) < q =>
               UmountPhase(x) < phase \/ UmountPhase(x) = phase)
        /\ \A x : ExportPhase(x) \in Int => (ExportPhase(x) < q =>
               ExportPhase(x) < phase \/ ExportPhase(x) = phase)
    BY <1>2, FollowsTodo DEF Follows, Phases
  <2>2. /\ \A n \in Nodes : Todo(n) = {}
        /\ \A n \in Nodes : /\ left'[n] = TeardownPhases[q][n]
                           /\ Todo(n)' = Elems(TeardownPhases[q][n])
    BY <1>2, FollowsTodo DEF PhasesOf
  <2> HIDE DEF q
  <2>3. \A n \in Nodes :
          /\ \A x \in All : Umount(x) \in Elems(TeardownPhases[q][n])
                            <=> UmountPhase(x) = q /\ NodeOf(x) = n
          /\ Export \in Elems(TeardownPhases[q][n]) <=> ExportPhase(n) = q
          /\ \A op \in Elems(TeardownPhases[q][n]) :
               op = Export \/ \E x \in All : op = Umount(x)
          /\ Sorted(TeardownPhases[q][n])
    BY <2>1, TeardownScripts
  <2>4. ScriptInv'
    BY <2>1, <2>2, <2>3 DEF ScriptInv
  <2>5. \A x, y \in Servers :
          /\ x \in All /\ y \in All
          /\ x \in Needs(y) /\ NodeOf(x) = NodeOf(y)
               => UmountPhase(x) = UmountPhase(y)
    BY DEF Servers, Clients, All, UmountPhase, NodeOf, Needs
  <2>6. OrderInv'
    BY <2>2, <2>3, <2>5 DEF OrderInv
  <2>7. \A x \in All : NodeOf(x) \in Nodes
    BY DEF NodeOf, Nodes
  <2>8. /\ \A n \in Nodes : ExportPhase(n) \in Int
        /\ \A x \in All : UmountPhase(x) \in Int
    BY PhaseOfAll DEF ExportPhase
  <2>9. /\ UNCHANGED <<mounted, pools, hung, disturbed>>
        /\ worst' = 0 => worst = 0
    BY <1>2, EndPhaseKinds DEF cluster, Follows
  <2>10. TeardownInv'
    BY <2>1, <2>2, <2>3, <2>7, <2>8, <2>9 DEF TeardownInv, Cleared
  <2> QED
    BY <2>4, <2>6, <2>10
<1> QED
  BY <1>1, <1>2, EndPhaseKinds DEF Over

LEMMA ScriptTeardown ==
  ASSUME TypeInv, ScriptInv, OrderInv, TeardownInv, NEW n \in Nodes, RunScript(n)
  PROVE  ScriptInv' /\ OrderInv' /\ TeardownInv'
<1>1. CASE cmd # "teardown"
  <2>1. cmd' = cmd
    BY ScriptKinds DEF TypeInv
  <2> QED
    BY <1>1, <2>1 DEF ScriptInv, OrderInv, TeardownInv
<1>2. CASE cmd = "teardown"
  <2>1. /\ UNCHANGED <<cmd, phase, disturbed>>
        /\ \/ Exports(n)
           \/ \E x \in All : Unmounts(n, x)
           \/ /\ Gave(n) /\ Todo(n)' = {} /\ Sorted(left'[n])
              /\ UNCHANGED <<mounted, pools, hung>>
    BY <1>2, TeardownKinds
  <2>2. /\ left \in [Nodes -> Seq(Ops)]
        /\ \A x \in All : NodeOf(x) \in Nodes
        /\ \A x \in Servers : x \in All
    BY DEF TypeInv, TypeOK, NodeOf, Nodes, All
  <2>3. ASSUME NEW h, Took(n, h),
               \/ h = Export
               \/ \E x \in All : h = Umount(x) /\ x \notin mounted',
               mounted' \subseteq mounted
        PROVE  ScriptInv' /\ OrderInv'
    <3>1. /\ \A m \in Nodes : Todo(m)' \subseteq Todo(m)
          /\ \A m \in Nodes : Todo(m) \subseteq Todo(m)' \cup {h}
          /\ \A m \in Nodes : Sorted(left[m]) => Sorted(left'[m])
      BY <2>2, <2>3, TodoTaken
    <3>2. ScriptInv'
      BY <2>1, <3>1 DEF ScriptInv
    <3>3. ASSUME NEW m \in Nodes, ~disturbed, NEW x \in Servers, NEW y \in Servers,
                 x \in Needs(y), NodeOf(y) = m, Umount(x) \in Todo(m)'
          PROVE  y \notin mounted' \/ Umount(y) \in Todo(m)'
      <4>1. y \notin mounted \/ Umount(y) \in Todo(m)
        BY <1>2, <3>1, <3>3 DEF OrderInv
      <4>2. h = Umount(y) => y \notin mounted'
        BY <2>3, OpsDiffer
      <4> QED
        BY <2>3, <3>1, <4>1, <4>2
    <3>4. OrderInv'
      BY <1>2, <2>1, <3>1, <3>3 DEF OrderInv
    <3> QED
      BY <3>2, <3>4
  <2>4. ASSUME NEW x \in All, Unmounts(n, x)
        PROVE  ScriptInv' /\ OrderInv' /\ TeardownInv'
    <3>1. ScriptInv' /\ OrderInv'
      BY <2>3, <2>4 DEF Unmounts
    <3>2. /\ \A m \in Nodes : Todo(m)' \subseteq Todo(m)
          /\ \A m \in Nodes : Todo(m) \subseteq Todo(m)' \cup {Umount(x)}
          /\ worst' = 0 => worst = 0
          /\ mounted' = mounted \ {x} /\ UNCHANGED <<pools, hung>>
      BY <2>2, <2>4, TodoTaken DEF Unmounts, Took
    <3>3. \A y \in All : Umount(y) = Umount(x) => y = x
      BY OpsDiffer
    <3>4. \A m : Cleared(m) => Cleared(m)'
      BY <3>2 DEF Cleared
    <3>5. Export # Umount(x)
      BY OpsDiffer
    <3>6. TeardownInv'
      BY <1>2, <2>1, <2>2, <3>2, <3>3, <3>4, <3>5 DEF TeardownInv
    <3> QED
      BY <3>1, <3>6
  <2>5. CASE Exports(n)
    <3>1. ScriptInv' /\ OrderInv'
      BY <2>3, <2>5 DEF Exports
    <3>2. /\ \A m \in Nodes : Todo(m)' \subseteq Todo(m)
          /\ \A m \in Nodes : Todo(m) \subseteq Todo(m)' \cup {Export}
          /\ \A m \in Nodes : m # n => Todo(m)' = Todo(m)
          /\ worst' = 0 => worst = 0 /\ Cleared(n)'
          /\ UNCHANGED mounted
      BY <2>2, <2>5, TodoTaken DEF Exports, Took
    <3>3. \A y \in All : Umount(y) # Export
      BY OpsDiffer
    <3>4. \A m \in Nodes : m # n /\ Cleared(m) => Cleared(m)'
      BY <2>5 DEF Cleared, Exports
    <3>5. TeardownInv'
      BY <1>2, <2>1, <2>2, <3>2, <3>3, <3>4 DEF TeardownInv
    <3> QED
      BY <3>1, <3>5
  <2>6. CASE /\ Gave(n) /\ Todo(n)' = {} /\ Sorted(left'[n])
             /\ UNCHANGED <<mounted, pools, hung>>
    <3>1. \A m \in Nodes : m # n => left'[m] = left[m] /\ Todo(m)' = Todo(m)
      BY <2>2, <2>6, TodoGiven
    <3>2. ScriptInv'
      BY <2>1, <2>6, <3>1 DEF ScriptInv
    <3>3. OrderInv'
      BY <1>2, <2>1, <2>6, <3>1 DEF OrderInv
    <3>4. TeardownInv'
      BY <2>6 DEF TeardownInv, Gave
    <3> QED
      BY <3>2, <3>3, <3>4
  <2> QED
    BY <2>1, <2>4, <2>5, <2>6
<1> QED
  BY <1>1, <1>2

-----------------------------------------------------------------------------
(* The theorems.                                                           *)

LEMMA InitCluster == Init => ClusterInv
<1> SUFFICES ASSUME Init PROVE ClusterInv
  OBVIOUS
<1>1. TypeInv
  BY InitType
<1>2. cmd = "none"
  BY DEF Init
<1> QED
  BY <1>1, <1>2 DEF ClusterInv, BringupInv, ScriptInv, OrderInv, TeardownInv

LEMMA FaultCluster ==
  ASSUME ClusterInv, Fault
  PROVE  ClusterInv'
<1>1. TypeInv'
  BY EnvironmentType, OrphanWorksType DEF ClusterInv, Fault
<1>2. BringupInv' /\ TeardownInv'
  BY FaultDisturbs DEF BringupInv, TeardownInv
<1>3. CASE cmd' = "teardown"
  <2>1. /\ cmd = "teardown" /\ phase' = phase /\ disturbed' = TRUE
        /\ \A n \in Nodes : left'[n] = left[n] \/ left'[n] = <<>>
    BY <1>3, FaultTodo DEF ClusterInv
  <2>2. \A n \in Nodes : Todo(n)' \subseteq Todo(n)
    BY <2>1, ElemsOf0 DEF Todo
  <2>3. Sorted(<<>>)
    BY DEF Sorted
  <2>4. ScriptInv'
    BY <2>1, <2>2 DEF ClusterInv, ScriptInv
  <2>5. OrderInv'
    BY <2>1, <2>3 DEF ClusterInv, OrderInv
  <2> QED
    BY <1>1, <1>2, <2>4, <2>5 DEF ClusterInv
<1>4. CASE cmd' # "teardown"
  BY <1>1, <1>2, <1>4 DEF ClusterInv, ScriptInv, OrderInv
<1> QED
  BY <1>3, <1>4

LEMMA StutterCluster ==
  ASSUME ClusterInv, UNCHANGED vars \/ \E o \in orphans : OrphanDies(o)
  PROVE  ClusterInv'
<1>1. TypeInv'
  BY StutterType, EnvironmentType DEF ClusterInv
<1>2. UNCHANGED <<cmd, phase, disturbed, worst, left, mounted, pools, hung>>
  BY DEF vars, cluster, OrphanDies
<1>3. /\ \A n : Todo(n)' = Todo(n) /\ Cleared(n)' = Cleared(n)
  BY <1>2 DEF Todo, Cleared
<1> QED
  BY <1>1, <1>2, <1>3
  DEF ClusterInv, BringupInv, ScriptInv, OrderInv, TeardownInv

LEMMA NextCluster == ClusterInv /\ [Next]_vars => ClusterInv'
<1> SUFFICES ASSUME ClusterInv, [Next]_vars
             PROVE  ClusterInv'
  OBVIOUS
<1>1. ASSUME NEW c \in {"bringup", "teardown"}, NEW withAbort \in BOOLEAN,
             Start(c, withAbort)
      PROVE  ClusterInv'
  BY <1>1, StartType, StartBringup, StartTeardown DEF ClusterInv
<1>2. CASE EndPhase
  BY <1>2, EndPhaseType, EndPhaseBringup, EndPhaseTeardown DEF ClusterInv
<1>3. ASSUME NEW n \in Nodes, RunScript(n)
      PROVE  ClusterInv'
  BY <1>3, ScriptType, ScriptBringup, ScriptTeardown DEF ClusterInv
<1>4. CASE Fault
  BY <1>4, FaultCluster
<1>5. CASE UNCHANGED vars \/ \E o \in orphans : OrphanDies(o)
  BY <1>5, StutterCluster
<1> QED
  BY <1>1, <1>2, <1>3, <1>4, <1>5 DEF Next, Work, Fault

LEMMA AlwaysCluster == Spec => []ClusterInv
BY InitCluster, NextCluster, PTL DEF Spec

\* Every variable of the cluster and of the command keeps its type, whatever
\* fails, hangs, is lost or reboots.
THEOREM LustreTypeCorrect == Spec => []TypeOK
<1>1. ClusterInv => TypeOK
  BY DEF ClusterInv, TypeInv
<1> QED
  BY <1>1, AlwaysCluster, PTL

\* A command that ends with one of its own summaries went through its last
\* phase, whose scripts have ended.
LEMMA SummaryAtTheEnd ==
  ASSUME ClusterInv, [Next]_vars, cmd # "none", cmd' = "none",
         summary' \in {"up", "warnings", "safe to poweroff"}
  PROVE  /\ phase = Phases(cmd) /\ summary' = Summary
         /\ \A n \in Nodes : Todo(n) = {}
<1>1. TypeInv
  BY DEF ClusterInv
<1>2. EndPhase
  <2>1. \A n \in Nodes : ~RunScript(n)
    BY <1>1, ScriptKinds DEF TypeInv
  <2>2. ~Fault
    BY DEF Fault, LoseSsh, Reboot, Interrupt, GiveUpWaiting, BreakOff, LateMount,
           OrphanWorks
  <2>3. \A c, withAbort : ~Start(c, withAbort)
    BY DEF Start
  <2>4. ~UNCHANGED vars /\ \A o : ~OrphanDies(o)
    BY DEF vars, OrphanDies
  <2> QED
    BY <2>1, <2>2, <2>3, <2>4 DEF Next, Work, Fault
<1>3. /\ Quiet /\ phase = Phases(cmd) /\ summary' = Summary
  BY <1>1, <1>2, EndPhaseKinds DEF Follows, Over
<1> QED
  BY <1>3, ElemsOf0 DEF Quiet, Todo

\* An undisturbed bringup that says the cluster is up, with warnings or
\* without, has mounted all of it (do_bringup's summary).
THEOREM BringupTellsTheTruth == Spec => UpMeansUp
<1>1. ASSUME ClusterInv, [Next]_vars, cmd = "bringup", cmd' = "none",
             ~disturbed, summary' \in {"up", "warnings"}
      PROVE  AllUp
  <2>1. /\ phase = 7 /\ summary' = Summary /\ \A n \in Nodes : Todo(n) = {}
    BY <1>1, SummaryAtTheEnd DEF Phases
  <2>2. worst # 2
    BY <1>1, <2>1 DEF Summary
  <2>3. /\ \A x \in All : NodeOf(x) \in Nodes
        /\ mounted \subseteq All
    BY <1>1 DEF NodeOf, Nodes, ClusterInv, TypeInv, TypeOK, All
  <2>4. ASSUME NEW x \in All
        PROVE  x \in mounted
    <3>1. MountPhase(x) < phase \/ MountPhase(x) = phase
      BY <2>1, PhaseOfAll
    <3> QED
      BY <1>1, <2>1, <2>2, <2>3, <3>1 DEF ClusterInv, BringupInv
  <2> QED
    BY <2>3, <2>4 DEF AllUp, All
<1>2. ClusterInv /\ [Next]_vars
        => [cmd = "bringup" /\ cmd' = "none" /\ ~disturbed
              /\ summary' \in {"up", "warnings"} => AllUp]_vars
  BY <1>1
<1> QED
  BY <1>2, AlwaysCluster, PTL DEF Spec, UpMeansUp

\* An undisturbed teardown that says "Safe to poweroff" left nothing mounted,
\* no server mount waiting, and no pool imported (do_teardown's summary).
THEOREM TeardownTellsTheTruth == Spec => SafeMeansDown
<1>1. ASSUME ClusterInv, [Next]_vars, cmd = "teardown", cmd' = "none",
             ~disturbed, summary' = "safe to poweroff"
      PROVE  AllDown /\ hung = {}
  <2>1. /\ phase = 3 /\ summary' = Summary /\ \A n \in Nodes : Todo(n) = {}
    BY <1>1, SummaryAtTheEnd DEF Phases
  <2>2. worst = 0
    <3>1. worst \in 0..2
      BY <1>1 DEF ClusterInv, TypeInv, TypeOK
    <3>2. Summary = "safe to poweroff"
      BY <1>1, <2>1
    <3>3. worst # 2 /\ worst # 1
      BY <3>2 DEF Summary
    <3> QED
      BY <3>1, <3>3
  <2>3. /\ \A x \in All : NodeOf(x) \in Nodes
        /\ mounted \subseteq All /\ hung \subseteq All
    BY <1>1 DEF NodeOf, Nodes, ClusterInv, TypeInv, TypeOK, All
  <2>4. ASSUME NEW x \in All
        PROVE  x \notin mounted
    <3>1. UmountPhase(x) < phase \/ UmountPhase(x) = phase
      BY <2>1, PhaseOfAll
    <3> QED
      BY <1>1, <2>1, <2>2, <2>3, <3>1 DEF ClusterInv, TeardownInv
  <2>5. ASSUME NEW n \in Nodes
        PROVE  Cleared(n)
    <3>1. ExportPhase(n) < phase \/ ExportPhase(n) = phase
      BY <2>1 DEF ExportPhase
    <3> QED
      BY <1>1, <2>1, <2>2, <3>1 DEF ClusterInv, TeardownInv
  <2> QED
    BY <2>3, <2>4, <2>5 DEF AllDown, Cleared
<1>2. ClusterInv /\ [Next]_vars
        => [cmd = "teardown" /\ cmd' = "none" /\ ~disturbed
              /\ summary' = "safe to poweroff" => AllDown /\ hung = {}]_vars
  BY <1>1
<1> QED
  BY <1>2, AlwaysCluster, PTL DEF Spec, SafeMeansDown

\* Only a script mounts and unmounts in an undisturbed command.
LEMMA MountsByScripts ==
  ASSUME ClusterInv, [Next]_vars, cmd # "none", ~disturbed', mounted' # mounted
  PROVE  \E n \in Nodes : RunScript(n)
<1>1. TypeInv
  BY DEF ClusterInv
<1>2. ~EndPhase
  BY <1>1, EndPhaseKinds DEF cluster
<1>3. ~Fault
  BY DEF Fault, LoseSsh, Reboot, Interrupt, GiveUpWaiting, BreakOff, LateMount,
         OrphanWorks, cluster
<1>4. \A c, withAbort : ~Start(c, withAbort)
  BY DEF Start
<1>5. ~UNCHANGED vars /\ \A o : ~OrphanDies(o)
  BY DEF vars, cluster, OrphanDies
<1> QED
  BY <1>2, <1>3, <1>4, <1>5 DEF Next, Work, Fault

\* An undisturbed bringup mounts the MGS, the MDT, the OSTs and the clients in
\* this order, from any partial state it starts in (the phases of do_bringup),
\* but for the mounts an earlier one left in recovery.
THEOREM MountsInOrder == Spec => BringupOrder
<1>1. ASSUME ClusterInv, [Next]_vars, NEW x \in All, cmd = "bringup",
             ~disturbed, ~disturbed', x \notin hung, x \in mounted' \ mounted
      PROVE  Needs(x) \subseteq mounted
  <2>1. PICK n \in Nodes : RunScript(n)
    BY <1>1, MountsByScripts
  <2>2. TypeOK /\ left \in [Nodes -> Seq(Ops)]
    BY <1>1 DEF ClusterInv, TypeInv, TypeOK
  <2>3. Mounts(n, x)
    <3>1. ~Prepares(n) /\ ~Aborts(n) /\ ~Exports(n) /\ ~GivesUp(n) /\ ~Ends(n)
      BY <1>1 DEF Prepares, Aborts, Exports, GivesUp, Ends
    <3>2. PICK y \in All : Mounts(n, y) \/ Unmounts(n, y)
      BY <2>1, <2>2, <3>1, ScriptKinds
    <3> QED
      BY <1>1, <3>2 DEF Mounts, Unmounts
  <2>4. Mount(x) \in Todo(n)
    BY <2>2, <2>3, TodoTaken DEF Mounts
  <2>5. MountPhase(x) = phase
    BY <1>1, <2>4 DEF ClusterInv, BringupInv
  <2>6. \A y \in Needs(x) : y \in All /\ MountPhase(y) < MountPhase(x)
    BY DEF Needs, All, MountPhase, Servers, Clients
  <2> QED
    BY <1>1, <2>5, <2>6 DEF ClusterInv, BringupInv
<1>2. ClusterInv /\ [Next]_vars
        => [\A x \in Servers \cup Clients :
              cmd = "bringup" /\ ~disturbed /\ ~disturbed' /\ x \notin hung
              /\ x \in mounted' \ mounted => Needs(x) \subseteq mounted]_vars
  BY <1>1 DEF All
<1> QED
  BY <1>2, AlwaysCluster, PTL DEF Spec, BringupOrder

\* An undisturbed teardown unmounts OST0, the MDT and the MGS in this order,
\* although it goes on after what it could not unmount (phase T2b).
THEOREM UnmountsInOrder == Spec => NodeUnmountOrder
<1>1. ASSUME ClusterInv, [Next]_vars, NEW x \in Servers, NEW y \in Servers,
             cmd = "teardown", ~disturbed, ~disturbed',
             NodeOf(x) = "spark01", NodeOf(y) = "spark01", x \in Needs(y),
             x \in mounted \ mounted'
      PROVE  y \notin mounted
  <2>1. PICK n \in Nodes : RunScript(n)
    BY <1>1, MountsByScripts
  <2>2. /\ TypeInv /\ ScriptInv /\ OrderInv /\ x \in All /\ y \in All
        /\ left \in [Nodes -> Seq(Ops)]
    BY <1>1 DEF ClusterInv, All, TypeInv, TypeOK
  <2>3. Unmounts(n, x)
    <3>1. mounted' # mounted
      BY <1>1
    <3>2. PICK z \in All : Unmounts(n, z)
      BY <1>1, <2>1, <2>2, <3>1, TeardownKinds DEF Exports
    <3> QED
      BY <1>1, <3>2 DEF Unmounts
  <2>4. /\ Umount(x) \in Todo(n) /\ Head(left[n]) = Umount(x)
        /\ left[n] # <<>>
    BY <2>2, <2>3, TodoTaken DEF Unmounts, Took
  <2>5. n = "spark01"
    BY <1>1, <2>2, <2>4, OpsDiffer DEF ScriptInv
  <2>6. y \notin mounted \/ Umount(y) \in Todo(n)
    BY <1>1, <2>2, <2>4, <2>5 DEF OrderInv
  <2>7. ASSUME Umount(y) \in Todo(n)
        PROVE  FALSE
    <3> DEFINE s == left[n]
    <3>1. PICK j \in 1..Len(s) : s[j] = Umount(y)
      BY <2>7 DEF Todo, Elems
    <3>2. s \in Seq(Ops) /\ s # <<>> /\ Head(s) = Umount(x) /\ Sorted(s)
      BY <1>1, <2>2, <2>4 DEF OrderInv
    <3> HIDE DEF s
    <3>3. 1 \in 1..Len(s) /\ s[1] = Umount(x)
      BY <3>2
    <3>4. x # y
      BY <1>1 DEF Needs, Servers
    <3>5. j # 1
      BY <3>1, <3>3, <3>4, OpsDiffer
    <3>6. 1 < j
      BY <3>1, <3>5
    <3> QED
      BY <1>1, <3>1, <3>2, <3>3, <3>6 DEF Sorted
  <2> QED
    BY <2>6, <2>7
<1>2. ClusterInv /\ [Next]_vars
        => [\A x \in Servers, y \in Servers :
              cmd = "teardown" /\ ~disturbed /\ ~disturbed'
              /\ NodeOf(x) = "spark01" /\ NodeOf(y) = "spark01" /\ x \in Needs(y)
              /\ x \in mounted \ mounted' => y \notin mounted]_vars
  BY <1>1
<1> QED
  BY <1>2, AlwaysCluster, PTL DEF Spec, NodeUnmountOrder
=============================================================================
