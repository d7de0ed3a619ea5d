---------------------------- MODULE Desktop_proofs -----------------------------
(***************************************************************************)
(* Proofs about the processes of the desktop app, for any number of        *)
(* launches, other programs and crashes, and whatever the page does.       *)
(***************************************************************************)
EXTENDS Desktop, Induction, SequenceTheorems, FunctionTheorems, FiniteSetTheorems, TLAPS

(***************************************************************************)
(* Families                                                                *)
(***************************************************************************)
Process == [kind : Kind, parent : Nat, alive : BOOLEAN]

Parent(p) == procs[p].parent

\* Who starts whom: a desk a bootloader, a bootloader a worker, and a parent is older.
Families ==
  /\ procs \in Seq(Process)
  /\ \A p \in Pid :
       \/ Parent(p) = InitProcess
       \/ /\ Parent(p) \in Pid /\ Parent(p) < p
          /\ \/ procs[p].kind = "boot" /\ procs[Parent(p)].kind = "desk"
             \/ procs[p].kind = "core" /\ procs[Parent(p)].kind = "boot"
  /\ \A p \in Pid : procs[p].kind \in {"desk", "dev", "other"} => Parent(p) = InitProcess

\* One level of pid_is_descendant, given the levels below it.
Climb(f, ancestor) ==
  [x \in (0 .. 16) \X (0 .. Len(procs)) |->
     \/ x[2] = ancestor
     \/ x[1] > 0 /\ x[2] \in Pid /\ f[<<x[1] - 1, procs[x[2]].parent>>]]

\* Number of processes.
LEMMA Counted == ASSUME Families PROVE Len(procs) \in Nat /\ Pid = 1 .. Len(procs) /\ \A p \in Pid : procs[p] \in Process
BY LenProperties, ElementOfSeq DEF Families, Pid

\* The levels exist, because no family is deeper than three, and so the recursion means
\* what it says.
LEMMA ClimbExists ==
  ASSUME Families, NEW ancestor
  PROVE  \E f : f = Climb(f, ancestor)
<1> DEFINE Up1(x) == x[1] > 0 /\ x[2] \in Pid /\ Parent(x[2]) = ancestor
           Up2(x) == /\ x[1] > 1 /\ x[2] \in Pid /\ Parent(x[2]) \in Pid
                     /\ Parent(Parent(x[2])) = ancestor
           Up3(x) == /\ x[1] > 2 /\ x[2] \in Pid /\ Parent(x[2]) \in Pid
                     /\ Parent(Parent(x[2])) \in Pid /\ ancestor = 0
           F == [x \in (0 .. 16) \X (0 .. Len(procs)) |-> x[2] = ancestor \/ Up1(x) \/ Up2(x) \/ Up3(x)]
<1>1. Len(procs) \in Nat /\ Pid = 1 .. Len(procs)
  BY Counted
<1>2. ASSUME NEW p \in Pid
      PROVE  /\ Parent(p) \in 0 .. Len(procs)
             /\ Parent(p) \in Pid /\ Parent(Parent(p)) \in Pid => Parent(Parent(Parent(p))) = 0
  BY <1>1 DEF Families, InitProcess
<1>3. ASSUME NEW x \in (0 .. 16) \X (0 .. Len(procs))
      PROVE  F[x] = Climb(F, ancestor)[x]
  <2>1. F[x] = (x[2] = ancestor \/ Up1(x) \/ Up2(x) \/ Up3(x))
    BY <1>3, Zenon
  <2>2. Climb(F, ancestor)[x] =
          (x[2] = ancestor \/ (x[1] > 0 /\ x[2] \in Pid /\ F[<<x[1] - 1, Parent(x[2])>>]))
    BY <1>3, Zenon DEF Climb, Parent
  <2>3. ASSUME x[1] > 0, x[2] \in Pid
        PROVE  F[<<x[1] - 1, Parent(x[2])>>] <=>
                 (Parent(x[2]) = ancestor \/ Up2(x) \/ Up3(x))
    <3>1. PICK y : y = <<x[1] - 1, Parent(x[2])>>
      OBVIOUS
    <3>2. y \in (0 .. 16) \X (0 .. Len(procs)) /\ y[1] = x[1] - 1 /\ y[2] = Parent(x[2])
      BY <1>2, <2>3, <3>1
    <3>3. F[y] = (y[2] = ancestor \/ Up1(y) \/ Up2(y) \/ Up3(y))
      BY <3>2, Zenon
    <3>4. Up1(y) <=> Up2(x)
      BY <2>3, <3>2
    <3>5. Up2(y) <=> Up3(x)
      BY <1>2, <2>3, <3>2
    <3>6. ~Up3(y)
      BY <1>1, <1>2, <2>3, <3>2
    <3> HIDE DEF Up1, Up2, Up3, F
    <3> QED BY <3>1, <3>2, <3>3, <3>4, <3>5, <3>6, Zenon
  <2>4. (x[2] = ancestor \/ Up1(x) \/ Up2(x) \/ Up3(x)) <=>
          (x[2] = ancestor \/ (x[1] > 0 /\ x[2] \in Pid
             /\ (Parent(x[2]) = ancestor \/ Up2(x) \/ Up3(x))))
    OBVIOUS
  <2> HIDE DEF Up1, Up2, Up3, F
  <2> QED BY <2>1, <2>2, <2>3, <2>4, Zenon
<1>4. F = Climb(F, ancestor)
  BY <1>3 DEF Climb
<1> QED BY <1>4

\* What one level of the climb says.
LEMMA ClimbLevel ==
  ASSUME Families, NEW ancestor, NEW f, f = Climb(f, ancestor), NEW n \in 0 .. 16,
         NEW q \in 0 .. Len(procs)
  PROVE  f[<<n, q>>] = (q = ancestor \/ (n > 0 /\ q \in Pid /\ f[<<n - 1, Parent(q)>>]))
<1> PICK x : x = <<n, q>>
  OBVIOUS
<1>1. x \in (0 .. 16) \X (0 .. Len(procs)) /\ x[1] = n /\ x[2] = q
  OBVIOUS
<1>2. Climb(f, ancestor)[x] =
        (x[2] = ancestor \/ (x[1] > 0 /\ x[2] \in Pid /\ f[<<x[1] - 1, Parent(x[2])>>]))
  BY <1>1, Zenon DEF Climb, Parent
<1>3. f[x] = (x[2] = ancestor \/ (x[1] > 0 /\ x[2] \in Pid /\ f[<<x[1] - 1, Parent(x[2])>>]))
  BY <1>2, Zenon
<1> QED BY <1>1, <1>3, Zenon

\* pid_is_descendant: the process itself, its parent or the parent's.
LEMMA DescendsIs ==
  ASSUME Families, NEW p \in Pid, NEW ancestor \in Pid
  PROVE  Descends(p, ancestor) <=>
           \/ p = ancestor \/ Parent(p) = ancestor
           \/ Parent(p) \in Pid /\ Parent(Parent(p)) = ancestor
<1>1. Len(procs) \in Nat /\ Pid = 1 .. Len(procs)
  BY Counted
<1>2. PICK f : f = (CHOOSE g : g = Climb(g, ancestor))
  OBVIOUS
<1>3. f = Climb(f, ancestor)
  BY <1>2, ClimbExists, Zenon
<1>4. Descends(p, ancestor) <=> (p # 0 /\ ancestor # 0 /\ f[<<16, p>>])
  BY <1>2, Zenon DEF Descends, Climb
<1>5. ASSUME NEW q \in Pid
      PROVE  /\ Parent(q) \in 0 .. Len(procs) /\ q \in 0 .. Len(procs) /\ q # 0
             /\ Parent(q) # 0 => Parent(q) \in Pid
             /\ Parent(q) \in Pid /\ Parent(Parent(q)) \in Pid => Parent(Parent(Parent(q))) = 0
  BY <1>1 DEF Families, InitProcess
<1>6. ASSUME NEW n \in 1 .. 16, NEW q \in Pid
      PROVE  f[<<n, q>>] = (q = ancestor \/ f[<<n - 1, Parent(q)>>])
  <2>1. f[<<n, q>>] = (q = ancestor \/ (n > 0 /\ q \in Pid /\ f[<<n - 1, Parent(q)>>]))
    BY <1>3, <1>5, ClimbLevel
  <2>2. n > 0
    OBVIOUS
  <2> QED BY <1>6, <2>1, <2>2, Zenon
<1>7. ASSUME NEW n \in 0 .. 16 PROVE ~f[<<n, 0>>]
  <2>1. f[<<n, 0>>] = (0 = ancestor \/ (n > 0 /\ 0 \in Pid /\ f[<<n - 1, Parent(0)>>]))
    <3>1. 0 \in 0 .. Len(procs) /\ n \in 0 .. 16
      BY <1>1, <1>7
    <3> QED BY <1>3, <3>1, ClimbLevel
  <2>2. 0 # ancestor /\ 0 \notin Pid
    BY <1>1
  <2> QED BY <2>1, <2>2, Zenon
<1>8. f[<<16, p>>] <=> (p = ancestor \/ f[<<15, Parent(p)>>])
  <2>1. f[<<16, p>>] = (p = ancestor \/ f[<<16 - 1, Parent(p)>>])
    BY <1>6
  <2>2. 16 - 1 = 15
    OBVIOUS
  <2> QED BY <2>1, <2>2, Zenon
<1>9. ASSUME Parent(p) \in Pid
      PROVE  f[<<15, Parent(p)>>] <=> (Parent(p) = ancestor \/ f[<<14, Parent(Parent(p))>>])
  <2>1. f[<<15, Parent(p)>>] = (Parent(p) = ancestor \/ f[<<15 - 1, Parent(Parent(p))>>])
    BY <1>6, <1>9
  <2>2. 15 - 1 = 14
    OBVIOUS
  <2> QED BY <2>1, <2>2, Zenon
<1>10. ASSUME Parent(p) \in Pid, Parent(Parent(p)) \in Pid
       PROVE  f[<<14, Parent(Parent(p))>>] <=> Parent(Parent(p)) = ancestor
  <2>1. f[<<14, Parent(Parent(p))>>] =
          (Parent(Parent(p)) = ancestor \/ f[<<14 - 1, Parent(Parent(Parent(p)))>>])
    BY <1>6, <1>10
  <2>2. 14 - 1 = 13 /\ Parent(Parent(Parent(p))) = 0 /\ 13 \in 0 .. 16
    BY <1>5, <1>10
  <2>3. ~f[<<13, 0>>]
    BY <1>7, <2>2
  <2> QED BY <2>1, <2>2, <2>3, Zenon
<1>11. p # 0 /\ ancestor # 0 /\ ancestor \in Pid
  BY <1>1
<1>12. CASE Parent(p) = 0
  <2>1. ~f[<<15, Parent(p)>>] /\ Parent(p) # ancestor /\ Parent(p) \notin Pid
    BY <1>1, <1>7, <1>12
  <2> QED BY <1>4, <1>8, <1>11, <2>1, Zenon
<1>13. CASE Parent(p) \in Pid /\ Parent(Parent(p)) = 0
  <2>1. ~f[<<14, Parent(Parent(p))>>] /\ Parent(Parent(p)) # ancestor
    BY <1>1, <1>7, <1>13
  <2> QED BY <1>4, <1>8, <1>9, <1>11, <1>13, <2>1, Zenon
<1>14. CASE Parent(p) \in Pid /\ Parent(Parent(p)) \in Pid
  BY <1>4, <1>8, <1>9, <1>10, <1>11, <1>14, Zenon
<1> QED BY <1>5, <1>12, <1>13, <1>14

--------------------------------------------------------------------------------
(***************************************************************************)
(* The invariant                                                           *)
(***************************************************************************)
KindOf(p) == procs[p].kind
Lives(p)  == procs[p].alive = TRUE

\* A bootloader starts one worker.
OneWorker ==
  \A q, r \in Pid :
    (/\ KindOf(q) = "core" /\ KindOf(r) = "core"
     /\ Parent(q) = Parent(r) /\ Parent(q) # InitProcess) => q = r

\* What listens is alive, and neither a desk nor a bootloader.
PortOK == port # Nobody => port \in Pid /\ Lives(port) /\ KindOf(port) \in {"core", "dev", "other"}

AliveOnly(pids) == \A p \in pids : p \in Pid /\ Lives(p)

ProcessesOK == Families /\ OneWorker /\ PortOK /\ AliveOnly(dying)

\* The page of a desk whose bootloader is c talks to nobody but c's worker, and c has
\* started its worker and starts no other.
TalkOK(c) ==
  /\ c # 0
  /\ \A w \in Pid : Lives(w) /\ KindOf(w) = "core" /\ Parent(w) = c => port = w
  /\ Lives(c) => \E q \in Pid : KindOf(q) = "core" /\ Parent(q) = c

Desk == [phase : Phase, at : Nat, child : Nat]

DesksOK ==
  /\ DOMAIN desk = {p \in Pid : KindOf(p) = "desk"}
  /\ \A d \in DOMAIN desk :
       /\ desk[d] \in Desk
       /\ desk[d].child # 0 => desk[d].child \in Pid /\ KindOf(desk[d].child) = "boot"
       /\ desk[d].phase = "ready" => TalkOK(desk[d].child)

CrashesOK == crashes \in 0 .. MaxCrashes

ShellInv == ProcessesOK /\ DesksOK /\ CrashesOK

--------------------------------------------------------------------------------
(***************************************************************************)
(* What a step does to the processes.                                      *)
(***************************************************************************)
\* Nobody changes what he is, and a page that talks to its own worker still does.
Kept ==
  /\ Pid \subseteq Pid' /\ \A p \in Pid : KindOf(p)' = KindOf(p)
  /\ \A c \in Pid : TalkOK(c) => TalkOK(c)'

ProcessesGo == ProcessesOK' /\ Kept

\* No process comes or goes, and the listener stays.
LEMMA NobodyDies ==
  ASSUME ProcessesOK, UNCHANGED <<procs, port>>, AliveOnly(dying')
  PROVE  ProcessesGo /\ Pid' = Pid
<1> USE DEF Pid, KindOf, Parent, Lives
<1>1. Families' /\ Pid' = Pid
  BY DEF ProcessesOK, Families
<1>2. OneWorker' /\ PortOK'
  BY DEF ProcessesOK, OneWorker, PortOK
<1>3. AliveOnly(dying)'
  BY DEF AliveOnly
<1>4. Kept
  BY DEF Kept, TalkOK
<1> QED BY <1>1, <1>2, <1>3, <1>4 DEF ProcessesGo, ProcessesOK

\* A free port is bound by a worker: nobody's page was talking to anyone.
LEMMA WorkerBinds ==
  ASSUME ProcessesOK, NEW w \in Pid, Lives(w), KindOf(w) = "core", port = Nobody, port' = w,
         UNCHANGED <<procs, dying>>
  PROVE  ProcessesGo /\ Pid' = Pid
<1>1. 0 \notin Pid
  BY Counted DEF ProcessesOK
<1> USE DEF Pid, KindOf, Parent, Lives
<1>2. Families' /\ Pid' = Pid /\ OneWorker'
  BY DEF ProcessesOK, Families, OneWorker
<1>3. PortOK' /\ AliveOnly(dying)'
  BY DEF ProcessesOK, PortOK, AliveOnly
<1>4. \A c \in Pid : TalkOK(c) => TalkOK(c)'
  <2> SUFFICES ASSUME NEW c \in Pid, TalkOK(c) PROVE TalkOK(c)'
    OBVIOUS
  <2>1. \A v \in Pid : ~(Lives(v) /\ KindOf(v) = "core" /\ Parent(v) = c)
    BY <1>1 DEF TalkOK, Nobody
  <2> QED BY <2>1 DEF TalkOK
<1> QED BY <1>2, <1>3, <1>4 DEF ProcessesGo, ProcessesOK, Kept

\* Some processes die.
LEMMA SomeDie ==
  ASSUME ProcessesOK, NEW gone, procs' = After(gone),
         port' = (IF port \in gone THEN Nobody ELSE port), AliveOnly(dying'),
         dying' \cap gone = {}
  PROVE  ProcessesGo /\ Pid' = Pid
<1>1. Len(procs) \in Nat /\ Pid = 1 .. Len(procs) /\ \A p \in Pid : procs[p] \in Process
  BY Counted DEF ProcessesOK
<1>2. ASSUME NEW p \in Pid
      PROVE  /\ procs'[p] \in Process /\ procs'[p].kind = procs[p].kind
             /\ procs'[p].alive = (procs[p].alive /\ p \notin gone)
             /\ procs'[p].parent = IF procs[p].parent \in gone THEN 0 ELSE procs[p].parent
  <2>1. procs'[p] = [procs[p] EXCEPT !.alive = procs[p].alive /\ p \notin gone,
                                    !.parent = IF procs[p].parent \in gone THEN InitProcess
                                               ELSE procs[p].parent]
    BY <1>2, Zenon DEF After
  <2>2. PICK a, b : /\ a = (procs[p].alive /\ p \notin gone)
                    /\ b = IF procs[p].parent \in gone THEN InitProcess ELSE procs[p].parent
    OBVIOUS
  <2>3. procs'[p] = [procs[p] EXCEPT !.alive = a, !.parent = b]
    BY <2>1, <2>2
  <2>4. procs[p] \in Process
    BY <1>1
  <2>5. a \in BOOLEAN /\ b \in Nat
    BY <2>2, <2>4 DEF Process, InitProcess
  <2>6. /\ procs'[p] \in Process /\ procs'[p].kind = procs[p].kind
        /\ procs'[p].alive = a /\ procs'[p].parent = b
    BY <2>3, <2>4, <2>5 DEF Process
  <2> QED BY <2>2, <2>6 DEF InitProcess
<1>3. procs' \in Seq(Process) /\ Len(procs') = Len(procs)
  <2>1. procs' \in [1 .. Len(procs) -> Process]
    BY <1>1, <1>2, Zenon DEF After
  <2> QED BY <1>1, <2>1, LenProperties, SeqDef
<1>4. Pid' = Pid
  BY <1>3 DEF Pid
<1>5. \A p \in Pid : /\ KindOf(p)' = KindOf(p) /\ (Lives(p)' <=> Lives(p) /\ p \notin gone)
                     /\ Parent(p)' = IF Parent(p) \in gone THEN 0 ELSE Parent(p)
  <2> SUFFICES ASSUME NEW p \in Pid
               PROVE  /\ KindOf(p)' = KindOf(p) /\ (Lives(p)' <=> Lives(p) /\ p \notin gone)
                      /\ Parent(p)' = IF Parent(p) \in gone THEN 0 ELSE Parent(p)
    OBVIOUS
  <2>1. procs[p].alive \in BOOLEAN
    BY <1>1 DEF Process
  <2> QED BY <1>2, <2>1 DEF KindOf, Lives, Parent
<1>6. Families'
  <2>1. \A p \in Pid : Parent(p) \in gone => Parent(p)' = 0
    BY <1>5
  <2> QED BY <1>3, <1>4, <1>5, <2>1 DEF ProcessesOK, Families, KindOf, Parent, InitProcess
<1>7. OneWorker'
  BY <1>4, <1>5 DEF ProcessesOK, OneWorker, InitProcess
<1>8. PortOK' /\ AliveOnly(dying)'
  BY <1>4, <1>5 DEF ProcessesOK, PortOK, AliveOnly
<1>9. \A c \in Pid : TalkOK(c) => TalkOK(c)'
  <2> SUFFICES ASSUME NEW c \in Pid, TalkOK(c) PROVE TalkOK(c)'
    OBVIOUS
  <2>1. c # 0
    BY DEF TalkOK
  <2>2. ASSUME NEW w \in Pid', Lives(w)', KindOf(w)' = "core", Parent(w)' = c
        PROVE  port' = w
    <3>1. Lives(w) /\ w \notin gone /\ KindOf(w) = "core" /\ Parent(w) = c
      BY <1>4, <1>5, <2>1, <2>2
    <3>2. port = w
      BY <1>4, <3>1 DEF TalkOK
    <3> QED BY <3>1, <3>2
  <2>3. ASSUME Lives(c)'
        PROVE  \E q \in Pid' : KindOf(q)' = "core" /\ Parent(q)' = c
    <3>1. Lives(c) /\ c \notin gone
      BY <1>5, <2>3
    <3>2. PICK q \in Pid : KindOf(q) = "core" /\ Parent(q) = c
      BY <3>1 DEF TalkOK
    <3> QED BY <1>4, <1>5, <3>1, <3>2
  <2> QED BY <2>1, <2>2, <2>3 DEF TalkOK
<1> QED BY <1>4, <1>5, <1>6, <1>7, <1>8, <1>9 DEF ProcessesGo, ProcessesOK, Kept
\* A process starts, under nobody or under one whose child it may be; another program may
\* bind the free port at once.
LEMMA OneStarts ==
  ASSUME ProcessesOK, NEW n, n = Len(procs) + 1,
         NEW k \in Kind, NEW b, Forks(k, b), dying' = dying,
         \/ k \in {"desk", "dev", "other"} /\ b = InitProcess
         \/ k = "boot" /\ b \in Pid /\ KindOf(b) = "desk"
         \/ /\ k = "core" /\ b \in Pid /\ KindOf(b) = "boot" /\ Lives(b)
            /\ \A q \in Pid : q > b => ~(KindOf(q) = "core" /\ Parent(q) = b),
         \/ port' = port
         \/ port = Nobody /\ port' = n /\ k \in {"dev", "other"}
  PROVE  ProcessesGo /\ n \notin Pid /\ Pid' = Pid \cup {n} /\ KindOf(n)' = k
<1>1. Len(procs) \in Nat /\ Pid = 1 .. Len(procs) /\ procs \in Seq(Process)
      /\ \A p \in Pid : procs[p] \in Process
  BY Counted DEF ProcessesOK, Families
<1>2. n = Len(procs) + 1
  OBVIOUS
<1>3. n \notin Pid /\ n \in Nat /\ n # 0 /\ 0 \notin Pid /\ (\A p \in Pid : p < n)
  BY <1>1, <1>2
<1>4. PICK r : r = [kind |-> k, parent |-> b, alive |-> TRUE]
  OBVIOUS
<1>5. r \in Process /\ r.kind = k /\ r.parent = b /\ r.alive = TRUE
  BY <1>1, <1>4 DEF Process, InitProcess
<1>6. procs' = Append(procs, r)
  BY <1>4 DEF Forks
<1>7. /\ procs' \in Seq(Process) /\ Len(procs') = n /\ procs'[n] = r
      /\ \A p \in Pid : procs'[p] = procs[p]
  BY <1>1, <1>2, <1>5, <1>6, AppendProperties
<1>8. Pid' = Pid \cup {n}
  BY <1>1, <1>2, <1>7 DEF Pid
<1>9. /\ KindOf(n)' = k /\ Parent(n)' = b /\ Lives(n)'
      /\ \A p \in Pid : KindOf(p)' = KindOf(p) /\ Parent(p)' = Parent(p) /\ Lives(p)' = Lives(p)
  BY <1>5, <1>7 DEF KindOf, Parent, Lives
<1>10. \A p \in Pid : /\ Parent(p) = 0 \/ Parent(p) \in Pid
                      /\ KindOf(p) = "core" => Parent(p) = 0 \/ Parent(p) < p
  BY DEF ProcessesOK, Families, InitProcess, KindOf
<1>11. Families'
  <2>1. ASSUME NEW p \in Pid'
        PROVE  /\ \/ Parent(p)' = InitProcess
                  \/ /\ Parent(p)' \in Pid' /\ Parent(p)' < p
                     /\ \/ KindOf(p)' = "boot" /\ KindOf(Parent(p))' = "desk"
                        \/ KindOf(p)' = "core" /\ KindOf(Parent(p))' = "boot"
               /\ KindOf(p)' \in {"desk", "dev", "other"} => Parent(p)' = InitProcess
    <3>1. CASE p = n
      <4>1. Parent(p)' = b /\ KindOf(p)' = k
        BY <1>9, <3>1
      <4>2. b \in Pid => b < n /\ KindOf(b)' = KindOf(b)
        BY <1>3, <1>9
      <4> QED BY <1>8, <3>1, <4>1, <4>2 DEF Kind
    <3>2. CASE p \in Pid
      <4>1. Parent(p)' = Parent(p) /\ KindOf(p)' = KindOf(p)
        BY <1>9, <3>2
      <4>2. Parent(p) \in Pid => KindOf(Parent(p))' = KindOf(Parent(p))
        BY <1>9, <4>1
      <4> QED BY <1>8, <3>2, <4>1, <4>2 DEF ProcessesOK, Families, KindOf
    <3> QED BY <1>8, <2>1, <3>1, <3>2
  <2> QED BY <1>7, <2>1 DEF Families, KindOf
<1>12. OneWorker'
  <2> SUFFICES ASSUME NEW q \in Pid', NEW s \in Pid', KindOf(q)' = "core", KindOf(s)' = "core",
                      Parent(q)' = Parent(s)', Parent(q)' # InitProcess
               PROVE  q = s
    BY DEF OneWorker
  <2>1. CASE q \in Pid /\ s \in Pid
    BY <1>9, <2>1 DEF ProcessesOK, OneWorker
  <2>2. ASSUME NEW t \in Pid, KindOf(t)' = "core", Parent(t)' = b, k = "core"
        PROVE  FALSE
    <3>1. KindOf(t) = "core" /\ Parent(t) = b
      BY <1>9, <2>2
    <3>2. b # 0 /\ b \in Pid
      BY <1>3, <2>2
    <3>3. b < t
      BY <1>10, <3>1, <3>2
    <3> QED BY <1>1, <2>2, <3>1, <3>2, <3>3
  <2> QED BY <1>8, <1>9, <2>1, <2>2
<1>13. PortOK'
  BY <1>2, <1>8, <1>9 DEF ProcessesOK, PortOK
<1>14. AliveOnly(dying)'
  BY <1>8, <1>9 DEF ProcessesOK, AliveOnly
<1>15. \A c \in Pid : TalkOK(c) => TalkOK(c)'
  <2> SUFFICES ASSUME NEW c \in Pid, TalkOK(c) PROVE TalkOK(c)'
    OBVIOUS
  <2>1. c # 0 /\ (Lives(c) => \E q \in Pid : KindOf(q) = "core" /\ Parent(q) = c)
    BY DEF TalkOK
  <2>2. ASSUME NEW w \in Pid', Lives(w)', KindOf(w)' = "core", Parent(w)' = c
        PROVE  port' = w
    <3>1. CASE w \in Pid
      <4>1. port = w
        BY <1>9, <2>2, <3>1 DEF TalkOK
      <4> QED BY <1>3, <3>1, <4>1 DEF Nobody
    <3>2. CASE w = n
      <4>1. k = "core" /\ b = c
        BY <1>9, <2>2, <3>2
      <4>2. PICK q \in Pid : KindOf(q) = "core" /\ Parent(q) = c
        BY <2>1, <4>1
      <4>3. c < q
        BY <1>10, <2>1, <4>2
      <4> QED BY <1>1, <4>1, <4>2, <4>3
    <3> QED BY <1>8, <2>2, <3>1, <3>2
  <2>3. Lives(c)' => \E q \in Pid' : KindOf(q)' = "core" /\ Parent(q)' = c
    BY <1>8, <1>9, <2>1
  <2> QED BY <2>1, <2>2, <2>3 DEF TalkOK
<1>16. Kept
  BY <1>8, <1>9, <1>15 DEF Kept
<1> QED BY <1>2, <1>3, <1>8, <1>9, <1>11, <1>12, <1>13, <1>14, <1>16 DEF ProcessesGo, ProcessesOK

--------------------------------------------------------------------------------
(***************************************************************************)
(* What a step does to the desks.                                          *)
(***************************************************************************)
\* No desk is launched.
SameDesks == \A p \in Pid' : KindOf(p)' = "desk" => p \in Pid

\* A record that a desk may hold after the step.
Fits(r) ==
  /\ r \in Desk
  /\ r.child # 0 => r.child \in Pid' /\ KindOf(r.child)' = "boot"
  /\ r.phase = "ready" => TalkOK(r.child)'

\* What a desk held still fits, and so does what differs from it in the phase only,
\* unless that becomes ready.
LEMMA StillFits ==
  ASSUME DesksOK, Kept, NEW d \in DOMAIN desk, NEW r, r = desk[d]
  PROVE  /\ Fits(r)
         /\ \A s \in Desk : s.child = r.child /\ s.phase # "ready" => Fits(s)
<1>1. /\ r \in Desk
      /\ r.child # 0 => r.child \in Pid /\ KindOf(r.child) = "boot"
  BY DEF DesksOK
<1>2. PICK c : c = r.child
  OBVIOUS
<1>3. c # 0 => c \in Pid' /\ KindOf(c)' = "boot"
  BY <1>1, <1>2 DEF Kept
<1>4. r.phase = "ready" => TalkOK(c)'
  <2>1. r.phase = "ready" => TalkOK(c)
    BY <1>2 DEF DesksOK
  <2>2. TalkOK(c) => c # 0
    BY DEF TalkOK
  <2> QED BY <1>1, <1>2, <2>1, <2>2 DEF Kept
<1> QED BY <1>1, <1>2, <1>3, <1>4 DEF Fits

\* Desks that stay as they are.
LEMMA DesksStay ==
  ASSUME DesksOK, Kept, SameDesks, desk' = desk
  PROVE  DesksOK'
<1>1. DOMAIN desk' = {p \in Pid' : KindOf(p)' = "desk"}
  BY DEF DesksOK, Kept, SameDesks
<1>2. ASSUME NEW d \in DOMAIN desk', NEW r, r = desk'[d]
      PROVE  Fits(r)
  BY <1>2, StillFits
<1> QED BY <1>1, <1>2 DEF DesksOK, Fits

\* One desk that moves on.
LEMMA DeskMoves ==
  ASSUME DesksOK, Kept, SameDesks, NEW d \in DOMAIN desk, NEW s, Fits(s),
         desk' = [desk EXCEPT ![d] = s]
  PROVE  DesksOK'
<1>1. DOMAIN desk' = {p \in Pid' : KindOf(p)' = "desk"}
  BY DEF DesksOK, Kept, SameDesks
<1>2. ASSUME NEW e \in DOMAIN desk', NEW r, r = desk'[e]
      PROVE  Fits(r)
  <2>1. CASE e = d
    BY <1>2, <2>1
  <2>2. CASE e # d
    BY <1>2, <2>2, StillFits
  <2> QED BY <2>1, <2>2
<1> QED BY <1>1, <1>2 DEF DesksOK, Fits

\* A desk that goes on to a phase in which its page talks to nobody yet, or no more.
LEMMA Going ==
  ASSUME DesksOK, Kept, SameDesks, NEW d \in DOMAIN desk, NEW phase \in Phase \ {"ready"},
         Goes(d, phase)
  PROVE  DesksOK'
<1>1. PICK r : r = desk[d]
  OBVIOUS
<1>2. PICK s : s = [r EXCEPT !.phase = phase]
  OBVIOUS
<1>3. r \in Desk
  BY <1>1 DEF DesksOK
<1>4. s \in Desk /\ s.phase = phase /\ s.child = r.child
  BY <1>2, <1>3 DEF Desk
<1>5. Fits(s)
  BY <1>1, <1>4, StillFits
<1>6. desk' = [desk EXCEPT ![d] = s]
  BY <1>1, <1>2 DEF Goes
<1> QED BY <1>5, <1>6, DeskMoves

\* exit, and everything that kill_core may take along.
LEMMA Dying ==
  ASSUME ProcessesOK, NEW gone, Dies(gone)
  PROVE  ProcessesGo /\ Pid' = Pid
<1>1. AliveOnly(dying') /\ dying' \cap gone = {}
  BY DEF Dies, ProcessesOK, AliveOnly
<1> QED BY <1>1, SomeDie DEF Dies

\* kill_core, whatever group the desk signals.
LEMMA KillingCore ==
  ASSUME ProcessesOK, NEW d, KillsCore(d)
  PROVE  ProcessesGo /\ Pid' = Pid
<1>1. PICK gone : gone = {d} \cup {p \in {desk[d].child} : Alive(p)}
  OBVIOUS
<1>2. /\ procs' = After(gone) /\ port' = (IF port \in gone THEN Nobody ELSE port)
      /\ dying' = (dying \cup Group(d)) \ gone
  BY <1>1 DEF KillsCore
<1>3. AliveOnly(Group(d))
  BY DEF AliveOnly, Group, Lives
<1>4. AliveOnly(dying') /\ dying' \cap gone = {}
  BY <1>2, <1>3 DEF ProcessesOK, AliveOnly
<1> QED BY <1>2, <1>4, SomeDie

--------------------------------------------------------------------------------
(***************************************************************************)
(* The steps                                                               *)
(***************************************************************************)
\* A step after which the same processes exist.
LEMMA SamePids ==
  ASSUME CrashesOK, ProcessesGo, Pid' = Pid, UNCHANGED crashes
  PROVE  SameDesks /\ Kept /\ ProcessesOK' /\ CrashesOK'
BY DEF ProcessesGo, SameDesks, CrashesOK

\* exit.
LEMMA ExitStep ==
  ASSUME ShellInv, NEW d \in DOMAIN desk, Exits(d), UNCHANGED crashes
  PROVE  ShellInv'
<1>1. ProcessesGo /\ Pid' = Pid
  BY Dying DEF ShellInv, Exits
<1>2. DesksOK'
  BY <1>1, SamePids, Going DEF ShellInv, Exits, Phase
<1> QED BY <1>1, <1>2, SamePids DEF ShellInv

\* A desk that goes on while nothing happens to the processes.
LEMMA GoesOnStep ==
  ASSUME ShellInv, NEW d \in DOMAIN desk, NEW phase \in Phase \ {"ready"}, Goes(d, phase),
         UNCHANGED <<procs, port, dying, crashes>>
  PROVE  ShellInv'
<1>1. ProcessesGo /\ Pid' = Pid
  BY NobodyDies DEF ShellInv, ProcessesOK
<1>2. DesksOK'
  BY <1>1, SamePids, Going DEF ShellInv
<1> QED BY <1>1, <1>2, SamePids DEF ShellInv

\* SIGTERM changes no process yet.
LEMMA Terminating ==
  ASSUME ShellInv, NEW p, Terminate(p),
         UNCHANGED <<procs, port, crashes>>
  PROVE  ProcessesGo /\ Pid' = Pid /\ CrashesOK' /\ SameDesks /\ Kept
<1>1. AliveOnly(dying')
  BY DEF ShellInv, ProcessesOK, AliveOnly, Terminate, Alive, Lives
<1>2. ProcessesGo /\ Pid' = Pid
  BY <1>1, NobodyDies DEF ShellInv
<1> QED BY <1>2, SamePids DEF ShellInv

\* Who holds the port, and whether it became free.
LEMMA InspectStep ==
  ASSUME ShellInv, NEW d \in DOMAIN desk, NEW answered \in BOOLEAN,
         Probe(d) \/ Inspect(d, answered) \/ Drain(d)
  PROVE  ShellInv'
<1>1. CASE Probe(d)
  <2>1. PICK phase \in {"spawn", "inspect"} : Goes(d, phase)
    BY <1>1 DEF Probe
  <2> QED BY <1>1, <2>1, GoesOnStep DEF Probe, Phase
<1>2. CASE Inspect(d, answered)
  <2>1. CASE Exits(d)
    BY <1>2, <2>1, ExitStep DEF Inspect
  <2>2. CASE Goes(d, "recheck") /\ UNCHANGED <<procs, port, dying>>
    BY <1>2, <2>2, GoesOnStep DEF Inspect, Phase
  <2> QED BY <1>2, <2>1, <2>2 DEF Inspect
<1>3. CASE Drain(d)
  <2>1. CASE Exits(d)
    BY <1>3, <2>1, ExitStep DEF Drain
  <2>2. CASE Goes(d, "spawn") /\ UNCHANGED <<procs, port, dying>>
    BY <1>3, <2>2, GoesOnStep DEF Drain, Phase
  <2> QED BY <1>3, <2>1, <2>2 DEF Drain
<1> QED BY <1>1, <1>2, <1>3

\* A desk that looks at a pid, or climbs on from it.
Looking(r, phase, at) == [r EXCEPT !.phase = phase, !.at = at]

\* Its child stays.
LEMMA LooksAt ==
  ASSUME NEW r \in Desk, NEW phase \in Phase, NEW at \in Nat, NEW s, s = Looking(r, phase, at)
  PROVE  s \in Desk /\ s.phase = phase /\ s.child = r.child
<1>1. PICK t : t = [r EXCEPT !.phase = phase]
  OBVIOUS
<1>2. s = [t EXCEPT !.at = at]
  BY <1>1 DEF Looking
<1>3. t \in Desk /\ t.phase = phase /\ t.child = r.child
  BY <1>1 DEF Desk
<1> QED BY <1>2, <1>3 DEF Desk

\* The second look; only a development server is signalled at once.
LEMMA RecheckStep ==
  ASSUME ShellInv, NEW d \in DOMAIN desk, NEW answered \in BOOLEAN, Recheck(d, answered)
  PROVE  ShellInv'
<1>1. CASE Goes(d, "drain") /\ UNCHANGED dying
  BY <1>1, GoesOnStep DEF Recheck, Phase
<1>2. CASE Occupied(port, TRUE) = "DevLocal" /\ Goes(d, "drain") /\ Terminate(port)
  <2>1. ProcessesGo /\ Pid' = Pid /\ CrashesOK' /\ SameDesks /\ Kept
    BY <1>2, Terminating DEF Recheck
  <2>2. DesksOK'
    BY <1>2, <2>1, Going DEF ShellInv, Phase
  <2> QED BY <2>1, <2>2 DEF ShellInv, ProcessesGo
<1>3. CASE /\ port # Nobody /\ desk' = [desk EXCEPT ![d].phase = "reap", ![d].at = port]
           /\ UNCHANGED dying
  <2>1. port \in Nat
    BY <1>3, Counted DEF ShellInv, ProcessesOK, PortOK
  <2>2. ProcessesGo /\ Pid' = Pid
    BY <1>3, NobodyDies DEF ShellInv, ProcessesOK, Recheck
  <2>3. SameDesks /\ Kept /\ ProcessesOK' /\ CrashesOK'
    BY <1>3, <2>2, SamePids DEF ShellInv, Recheck
  <2>4. PICK r : r = desk[d]
    OBVIOUS
  <2>5. r \in Desk
    BY <2>4 DEF ShellInv, DesksOK
  <2>6. PICK s : s = Looking(r, "reap", port)
    OBVIOUS
  <2>7. desk' = [desk EXCEPT ![d] = s]
    BY <1>3, <2>4, <2>6 DEF Looking
  <2>8. Fits(s)
    <3>1. "reap" \in Phase
      BY DEF Phase
    <3>2. s \in Desk /\ s.phase = "reap" /\ s.child = r.child
      BY <2>1, <2>5, <2>6, <3>1, LooksAt
    <3> QED BY <2>3, <2>4, <3>2, StillFits DEF ShellInv
  <2>9. DesksOK'
    BY <2>3, <2>7, <2>8, DeskMoves DEF ShellInv
  <2> QED BY <2>3, <2>9 DEF ShellInv
<1> QED BY <1>1, <1>2, <1>3 DEF Recheck

\* One hop of the chain.
LEMMA ReapStep ==
  ASSUME ShellInv, NEW d \in DOMAIN desk, Reap(d)
  PROVE  ShellInv'
<1>1. PICK p : p = desk[d].at
  OBVIOUS
<1>2. CASE Goes(d, "drain") /\ UNCHANGED dying
  BY <1>2, GoesOnStep DEF Reap, Phase
<1>3. CASE /\ Alive(p)
           /\ IF Named(p, {"boot", "core"}) THEN Terminate(p) ELSE UNCHANGED dying
           /\ desk' = [desk EXCEPT ![d].phase = IF procs[p].parent = InitProcess THEN "drain" ELSE @,
                                   ![d].at = procs[p].parent]
  <2>1. ProcessesGo /\ Pid' = Pid /\ CrashesOK' /\ SameDesks /\ Kept
    <3>1. CASE Named(p, {"boot", "core"})
      BY <1>3, <3>1, Terminating DEF Reap
    <3>2. CASE ~Named(p, {"boot", "core"})
      <4>1. ProcessesGo /\ Pid' = Pid
        BY <1>3, <3>2, NobodyDies DEF ShellInv, ProcessesOK, Reap
      <4> QED BY <1>3, <3>2, <4>1, SamePids DEF ShellInv, Reap
    <3> QED BY <3>1, <3>2
  <2>2. procs[p].parent \in Nat
    BY <1>3, Counted DEF ShellInv, ProcessesOK, Alive, Process
  <2>3. PICK r : r = desk[d]
    OBVIOUS
  <2>4. r \in Desk /\ r.phase = "reap"
    BY <2>3 DEF Reap, At, ShellInv, DesksOK
  <2>5. PICK phase, at : /\ phase = IF procs[p].parent = InitProcess THEN "drain" ELSE r.phase
                         /\ at = procs[p].parent
    OBVIOUS
  <2>6. phase \in Phase /\ phase # "ready" /\ at \in Nat
    BY <2>2, <2>4, <2>5 DEF Phase
  <2>7. PICK s : s = Looking(r, phase, at)
    OBVIOUS
  <2>8. desk' = [desk EXCEPT ![d] = s]
    BY <1>3, <2>3, <2>5, <2>7 DEF Looking
  <2>9. Fits(s)
    <3>1. s \in Desk /\ s.phase = phase /\ s.child = r.child
      BY <2>4, <2>6, <2>7, LooksAt
    <3> QED BY <2>1, <2>3, <2>6, <3>1, StillFits DEF ShellInv
  <2>10. DesksOK'
    BY <2>1, <2>8, <2>9, DeskMoves DEF ShellInv
  <2> QED BY <2>1, <2>10 DEF ShellInv, ProcessesGo
<1> QED BY <1>1, <1>2, <1>3 DEF Reap

\* A spawned core is the child of its desk from the start.
LEMMA SpawnStep ==
  ASSUME ShellInv, NEW d \in DOMAIN desk, Spawn(d)
  PROVE  ShellInv'
<1>1. CASE Exits(d)
  BY <1>1, ExitStep DEF Spawn
<1>2. CASE /\ Forks("boot", d) /\ UNCHANGED <<port, dying>>
           /\ desk' = [desk EXCEPT ![d].phase = "wait", ![d].child = Len(procs) + 1]
  <2>1. PICK n : n = Len(procs) + 1
    OBVIOUS
  <2>2. n \in Nat
    BY <2>1, Counted DEF ShellInv, ProcessesOK
  <2>3. d \in Pid /\ KindOf(d) = "desk"
    BY DEF ShellInv, DesksOK
  <2>4. ProcessesGo /\ n \notin Pid /\ Pid' = Pid \cup {n} /\ KindOf(n)' = "boot"
    BY <1>2, <2>1, <2>3, OneStarts DEF ShellInv, Kind
  <2>5. Kept /\ SameDesks /\ ProcessesOK' /\ CrashesOK'
    BY <2>4 DEF ProcessesGo, SameDesks, ShellInv, Spawn, CrashesOK
  <2>6. PICK r : r = desk[d]
    OBVIOUS
  <2>7. r \in Desk
    BY <2>6 DEF ShellInv, DesksOK
  <2>8. PICK t : t = [r EXCEPT !.phase = "wait"]
    OBVIOUS
  <2>9. t \in Desk /\ t.phase = "wait"
    BY <2>7, <2>8 DEF Desk, Phase
  <2>10. PICK s : s = [t EXCEPT !.child = n]
    OBVIOUS
  <2>11. s \in Desk /\ s.phase = "wait" /\ s.child = n
    BY <2>2, <2>9, <2>10 DEF Desk
  <2>12. Fits(s)
    BY <2>4, <2>11 DEF Fits
  <2>13. desk' = [desk EXCEPT ![d] = s]
    BY <1>2, <2>1, <2>6, <2>8, <2>10
  <2>14. DesksOK'
    BY <2>5, <2>12, <2>13, DeskMoves DEF ShellInv
  <2> QED BY <2>5, <2>14 DEF ShellInv
<1> QED BY <1>1, <1>2 DEF Spawn

\* The end of a desk that takes its core along.
LEMMA KillStep ==
  ASSUME ShellInv, NEW d \in DOMAIN desk, Goes(d, "gone"), KillsCore(d),
         UNCHANGED crashes
  PROVE  ShellInv'
<1>1. ProcessesGo /\ Pid' = Pid
  BY KillingCore DEF ShellInv
<1>2. SameDesks /\ Kept /\ ProcessesOK' /\ CrashesOK'
  BY <1>1, SamePids DEF ShellInv
<1>3. DesksOK'
  BY <1>2, Going DEF ShellInv, Phase
<1> QED BY <1>2, <1>3 DEF ShellInv

\* A worker below a bootloader is its child: nothing else is below one.
LEMMA OursIsAChild ==
  ASSUME Families, NEW c \in Pid, KindOf(c) = "boot", NEW w \in Pid, KindOf(w) # "boot",
         Descends(w, c)
  PROVE  KindOf(w) = "core" /\ Parent(w) = c
<1>1. 0 \notin Pid
  BY Counted
<1>2. w # c
  OBVIOUS
<1>3. \/ Parent(w) = c
      \/ Parent(w) \in Pid /\ Parent(Parent(w)) = c
  BY <1>2, DescendsIs
<1>4. ASSUME Parent(w) \in Pid
      PROVE  KindOf(w) = "core" /\ KindOf(Parent(w)) = "boot"
  BY <1>1, <1>4 DEF Families, KindOf, InitProcess
<1>5. ASSUME Parent(w) \in Pid, Parent(Parent(w)) \in Pid
      PROVE  KindOf(Parent(Parent(w))) = "desk"
  BY <1>1, <1>4, <1>5 DEF Families, KindOf, InitProcess
<1> QED BY <1>3, <1>4, <1>5

\* What wait_our_core accepts is the one worker of the child.
LEMMA OursIsTalkOK ==
  ASSUME ShellInv, NEW d \in DOMAIN desk, NEW answered \in BOOLEAN, Spawned(d, answered) = "Ours"
  PROVE  TalkOK(desk[d].child)
<1>1. PICK c : c = desk[d].child
  OBVIOUS
<1>2. Descends(port, c) /\ port # Nobody
  BY <1>1 DEF Spawned
<1>3. c # 0
  BY <1>2 DEF Descends
<1>4. c \in Pid /\ KindOf(c) = "boot"
  BY <1>1, <1>3 DEF ShellInv, DesksOK
<1>5. port \in Pid /\ KindOf(port) # "boot"
  BY <1>2 DEF ShellInv, ProcessesOK, PortOK
<1>6. KindOf(port) = "core" /\ Parent(port) = c
  BY <1>2, <1>4, <1>5, OursIsAChild DEF ShellInv, ProcessesOK
<1>7. TalkOK(c)
  BY <1>3, <1>5, <1>6 DEF TalkOK, ShellInv, ProcessesOK, OneWorker, InitProcess
<1> QED BY <1>1, <1>7

\* The core is ours, or the desk ends with what it started.
LEMMA WaitStep ==
  ASSUME ShellInv, NEW d \in DOMAIN desk, NEW answered \in BOOLEAN, Wait(d, answered) \/ Quit(d)
  PROVE  ShellInv'
<1>1. CASE Goes(d, "gone") /\ KillsCore(d)
  BY <1>1, KillStep DEF Wait, Quit
<1>2. CASE /\ Spawned(d, answered) = "Ours" /\ Goes(d, "ready")
           /\ UNCHANGED <<procs, port, dying, crashes>>
  <2>1. ProcessesGo /\ Pid' = Pid
    BY <1>2, NobodyDies DEF ShellInv, ProcessesOK
  <2>2. SameDesks /\ Kept /\ ProcessesOK' /\ CrashesOK'
    BY <1>2, <2>1, SamePids DEF ShellInv
  <2>3. PICK r : r = desk[d]
    OBVIOUS
  <2>4. PICK s : s = [r EXCEPT !.phase = "ready"]
    OBVIOUS
  <2>5. r \in Desk
    BY <2>3 DEF ShellInv, DesksOK
  <2>6. PICK c : c = r.child
    OBVIOUS
  <2>7. s \in Desk /\ s.phase = "ready" /\ s.child = c
    BY <2>4, <2>5, <2>6 DEF Desk, Phase
  <2>8. TalkOK(c)
    BY <1>2, <2>3, <2>6, OursIsTalkOK
  <2>9. c # 0 /\ c \in Pid /\ KindOf(c) = "boot"
    BY <2>3, <2>6, <2>8 DEF TalkOK, ShellInv, DesksOK
  <2>10. Fits(s)
    BY <2>1, <2>2, <2>7, <2>8, <2>9 DEF Fits, Kept
  <2>11. desk' = [desk EXCEPT ![d] = s]
    BY <1>2, <2>3, <2>4 DEF Goes
  <2>12. DesksOK'
    BY <2>2, <2>10, <2>11, DeskMoves DEF ShellInv
  <2> QED BY <2>2, <2>12 DEF ShellInv
<1> QED BY <1>1, <1>2 DEF Wait, Quit

\* A new desk begins by asking who is there.
LEMMA LaunchStep ==
  ASSUME ShellInv, Launch
  PROVE  ShellInv'
<1>1. PICK n : n = Len(procs) + 1
  OBVIOUS
<1>2. ProcessesGo /\ n \notin Pid /\ Pid' = Pid \cup {n} /\ KindOf(n)' = "desk"
  BY <1>1, OneStarts DEF Launch, ShellInv, Kind
<1>3. Kept /\ ProcessesOK' /\ CrashesOK'
  BY <1>2 DEF ProcessesGo, ShellInv, Launch, CrashesOK
<1>4. DOMAIN desk' = {p \in Pid' : KindOf(p)' = "desk"}
  BY <1>1, <1>2, <1>3 DEF Launch, ShellInv, DesksOK, Kept
<1>5. ASSUME NEW d \in DOMAIN desk', NEW r, r = desk'[d]
      PROVE  Fits(r)
  <2>1. CASE d \in DOMAIN desk
    <3>1. r = desk[d]
      BY <1>5, <2>1 DEF Launch
    <3> QED BY <1>3, <2>1, <3>1, StillFits DEF ShellInv
  <2>2. CASE d \notin DOMAIN desk
    <3>1. r = [phase |-> "probe", at |-> 0, child |-> 0]
      BY <1>5, <2>2 DEF Launch
    <3>2. r \in Desk /\ r.phase = "probe" /\ r.child = 0
      BY <3>1 DEF Desk, Phase
    <3> QED BY <3>2 DEF Fits
  <2> QED BY <2>1, <2>2
<1>6. DesksOK'
  BY <1>4, <1>5 DEF DesksOK, Fits
<1> QED BY <1>3, <1>6 DEF ShellInv

\* A process comes or goes and no desk notices.
LEMMA UnnoticedStep ==
  ASSUME ShellInv, ProcessesGo, SameDesks, UNCHANGED <<desk, crashes>>
  PROVE  ShellInv'
<1>1. CrashesOK'
  BY DEF ShellInv, CrashesOK
<1> QED BY <1>1, DesksStay DEF ShellInv, ProcessesGo

\* The core's own steps, the crashes and the other programs.
LEMMA ProcessStep ==
  ASSUME ShellInv, NEW p \in Pid,
         Unpack(p) \/ Serve(p) \/ Follows(p) \/ Ends(p) \/ Crash(p) \/ OtherLeaves(p)
  PROVE  ShellInv'
<1>1. ASSUME Dies({p}), UNCHANGED <<desk, crashes>>
      PROVE  ShellInv'
  <2>1. ProcessesGo /\ Pid' = Pid
    BY <1>1, Dying DEF ShellInv
  <2> QED BY <1>1, <2>1, UnnoticedStep DEF SameDesks
<1>2. CASE Unpack(p)
  <2>1. PICK n : n = Len(procs) + 1
    OBVIOUS
  <2>2. KindOf(p) = "boot" /\ Lives(p)
        /\ \A q \in Pid : q > p => ~(KindOf(q) = "core" /\ Parent(q) = p)
    BY <1>2, Counted
    DEF Unpack, Alive, Named, KindOf, Lives, Parent, ShellInv, ProcessesOK, Process
  <2>3. ProcessesGo /\ n \notin Pid /\ Pid' = Pid \cup {n} /\ KindOf(n)' = "core"
    BY <1>2, <2>1, <2>2, OneStarts DEF Unpack, ShellInv, Kind
  <2>4. SameDesks
    BY <2>3 DEF SameDesks
  <2> QED BY <1>2, <2>3, <2>4, UnnoticedStep DEF Unpack
<1>3. CASE Serve(p)
  <2>1. CASE port = Nobody
    <3>1. KindOf(p) = "core" /\ Lives(p)
      BY <1>3, Counted DEF Serve, Alive, Named, KindOf, Lives, ShellInv, ProcessesOK, Process
    <3>2. ProcessesGo /\ Pid' = Pid
      BY <1>3, <2>1, <3>1, WorkerBinds DEF Serve, ShellInv
    <3> QED BY <1>3, <3>2, UnnoticedStep DEF Serve, SameDesks
  <2>2. CASE port # Nobody
    BY <1>1, <1>3, <2>2 DEF Serve
  <2> QED BY <2>1, <2>2
<1>4. CASE Follows(p)
  BY <1>1, <1>4 DEF Follows
<1>5. CASE Ends(p)
  BY <1>1, <1>5 DEF Ends
<1>6. CASE Crash(p)
  <2>1. ProcessesGo /\ Pid' = Pid
    BY <1>6, Dying DEF ShellInv, Crash
  <2>2. SameDesks /\ Kept /\ ProcessesOK'
    BY <2>1 DEF SameDesks, ProcessesGo
  <2>4. CrashesOK'
    BY <1>6, ShellAssumption DEF Crash, ShellInv, CrashesOK
  <2>5. DesksOK'
    <3>1. CASE p \in DOMAIN desk
      BY <1>6, <2>2, <3>1, Going DEF Crash, Goes, ShellInv, Phase
    <3>2. CASE p \notin DOMAIN desk
      BY <1>6, <2>2, <3>2, DesksStay DEF Crash, ShellInv
    <3> QED BY <3>1, <3>2
  <2> QED BY <2>2, <2>4, <2>5 DEF ShellInv
<1>7. CASE OtherLeaves(p)
  BY <1>1, <1>7 DEF OtherLeaves
<1> QED BY <1>2, <1>3, <1>4, <1>5, <1>6, <1>7

\* Somebody else takes the free port.
LEMMA OtherStep ==
  ASSUME ShellInv, NEW kind \in {"dev", "other"}, OtherBinds(kind)
  PROVE  ShellInv'
<1>1. PICK n : n = Len(procs) + 1
  OBVIOUS
<1>2. ProcessesGo /\ n \notin Pid /\ Pid' = Pid \cup {n} /\ KindOf(n)' = kind
  BY <1>1, OneStarts DEF OtherBinds, ShellInv, Kind
<1>3. SameDesks
  BY <1>2 DEF SameDesks
<1> QED BY <1>2, <1>3, UnnoticedStep DEF OtherBinds

\* Every step of the shell.
LEMMA ShellStep ==
  ASSUME ShellInv, ShellNext
  PROVE  ShellInv'
<1>1. ASSUME NEW d \in DOMAIN desk, Starting(d)
      PROVE  ShellInv'
  BY <1>1, InspectStep, RecheckStep, ReapStep, SpawnStep, WaitStep DEF Starting
<1> QED BY <1>1, LaunchStep, ProcessStep, OtherStep DEF ShellNext

--------------------------------------------------------------------------------
(***************************************************************************)
(* Lists                                                                   *)
(***************************************************************************)
\* What KeepAt does place by place.
KeptUpTo(f, list, places) ==
  [n \in 0 .. Len(list) |->
     IF n = 0 THEN <<>>
     ELSE IF n \in places THEN Append(f[n - 1], list[n]) ELSE f[n - 1]]

\* The first n places of list have been looked at.
KeptOf(kept, T, list, places, n) ==
  /\ kept \in Seq(T)
  /\ \A i \in (1 .. n) \cap places : \E j \in 1 .. Len(kept) : kept[j] = list[i]
  /\ \A j \in 1 .. Len(kept) : \E i \in (1 .. n) \cap places : kept[j] = list[i]

LEMMA KeptExists ==
  ASSUME NEW T, NEW list \in Seq(T), NEW places
  PROVE  \E f : f = KeptUpTo(f, list, places)
<1> DEFINE n == Len(list)
           step == [p \in Seq(T) \X (1 .. n) |->
                      IF p[2] \in places THEN Append(p[1], list[p[2]]) ELSE p[1]]
<1>1. n \in Nat /\ \A i \in 1 .. n : list[i] \in T
  BY LenProperties, ElementOfSeq
<1> HIDE DEF n
<1>2. step \in [Seq(T) \X (1 .. n) -> Seq(T)]
  <2> SUFFICES ASSUME NEW p \in Seq(T) \X (1 .. n)
               PROVE  (IF p[2] \in places THEN Append(p[1], list[p[2]]) ELSE p[1]) \in Seq(T)
    OBVIOUS
  <2>1. p[1] \in Seq(T) /\ list[p[2]] \in T
    BY <1>1
  <2>2. Append(p[1], list[p[2]]) \in Seq(T)
    BY <2>1, AppendProperties
  <2> QED BY <2>1, <2>2
<1>3. <<>> \in Seq(T)
  OBVIOUS
<1> HIDE DEF step
<1>4. PICK f \in [0 .. n -> Seq(T)] : f = Steps(f, n, <<>>, step)
  <2>1. AreSteps(Seq(T), n, <<>>, step)
    BY <1>1, <1>2, <1>3 DEF AreSteps
  <2> QED BY <2>1, StepsExist DEF Stepwise
<1>5. ASSUME NEW i \in 0 .. n PROVE f[i] = KeptUpTo(f, list, places)[i]
  <2>1. f[i] = IF i = 0 THEN <<>> ELSE step[<<f[i - 1], i>>]
    BY <1>4, Zenon DEF Steps
  <2>2. KeptUpTo(f, list, places)[i] =
          IF i = 0 THEN <<>>
          ELSE IF i \in places THEN Append(f[i - 1], list[i]) ELSE f[i - 1]
    BY Zenon DEF KeptUpTo, n
  <2>3. CASE i = 0
    BY <2>1, <2>2, <2>3
  <2>4. CASE i # 0
    <3>1. i - 1 \in 0 .. n /\ i \in 1 .. n
      BY <1>1, <2>4
    <3>2. <<f[i - 1], i>> \in Seq(T) \X (1 .. n)
      BY <3>1
    <3>3. step[<<f[i - 1], i>>] = IF i \in places THEN Append(f[i - 1], list[i]) ELSE f[i - 1]
      BY <3>2 DEF step
    <3> QED BY <2>1, <2>2, <2>4, <3>3
  <2> QED BY <2>3, <2>4
<1>6. KeptUpTo(f, list, places) = [i \in 0 .. n |-> KeptUpTo(f, list, places)[i]]
  BY DEF KeptUpTo, n
<1>7. f = [i \in 0 .. n |-> f[i]]
  OBVIOUS
<1> QED BY <1>5, <1>6, <1>7, Zenon

LEMMA KeptOne ==
  ASSUME NEW T, NEW list \in Seq(T), NEW places, NEW n \in 1 .. Len(list), NEW kept,
         KeptOf(kept, T, list, places, n - 1)
  PROVE  KeptOf(IF n \in places THEN Append(kept, list[n]) ELSE kept, T, list, places, n)
<1>0. list[n] \in T /\ Len(list) \in Nat /\ kept \in Seq(T) /\ Len(kept) \in Nat /\ n \in Nat
  BY ElementOfSeq, LenProperties DEF KeptOf
<1>1. CASE n \notin places
  <2>1. (1 .. n) \cap places = (1 .. n - 1) \cap places
    BY <1>0, <1>1
  <2> QED BY <1>1, <2>1 DEF KeptOf
<1>2. CASE n \in places
  <2> DEFINE next == Append(kept, list[n])
  <2>1. /\ next \in Seq(T) /\ Len(next) = Len(kept) + 1
        /\ \A j \in 1 .. Len(kept) : next[j] = kept[j]
        /\ next[Len(kept) + 1] = list[n]
    BY <1>0, AppendProperties
  <2> HIDE DEF next
  <2>2. ASSUME NEW i \in (1 .. n) \cap places PROVE \E j \in 1 .. Len(next) : next[j] = list[i]
    <3>1. CASE i = n
      BY <1>0, <2>1, <3>1
    <3>2. CASE i # n
      <4>1. i \in (1 .. n - 1) \cap places
        BY <1>0, <3>2
      <4>2. PICK j \in 1 .. Len(kept) : kept[j] = list[i]
        BY <4>1 DEF KeptOf
      <4> QED BY <1>0, <2>1, <4>2
    <3> QED BY <3>1, <3>2
  <2>3. ASSUME NEW j \in 1 .. Len(next) PROVE \E i \in (1 .. n) \cap places : next[j] = list[i]
    <3>1. CASE j = Len(kept) + 1
      BY <1>0, <1>2, <2>1, <3>1
    <3>2. CASE j # Len(kept) + 1
      <4>1. j \in 1 .. Len(kept)
        BY <1>0, <2>1, <3>2
      <4>2. PICK i \in (1 .. n - 1) \cap places : kept[j] = list[i]
        BY <4>1 DEF KeptOf
      <4> QED BY <1>0, <2>1, <4>1, <4>2
    <3> QED BY <3>1, <3>2
  <2>4. KeptOf(next, T, list, places, n)
    BY <2>1, <2>2, <2>3 DEF KeptOf
  <2> QED BY <1>2, <2>4 DEF next
<1> QED BY <1>1, <1>2

\* Array.filter keeps what is at the given places, and nothing else.
LEMMA KeepAtIs ==
  ASSUME NEW T, NEW list \in Seq(T), NEW places
  PROVE  KeptOf(KeepAt(list, places), T, list, places, Len(list))
<1> DEFINE F == CHOOSE f : f = KeptUpTo(f, list, places)
           S == {n \in 0 .. Len(list) : KeptOf(F[n], T, list, places, n)}
<1>1. F = KeptUpTo(F, list, places)
  BY KeptExists, Zenon
<1>2. KeepAt(list, places) = F[Len(list)]
  BY Zenon DEF KeepAt, KeptUpTo
<1> HIDE DEF F
<1>3. Len(list) \in Nat
  BY LenProperties
<1>4. 0 \in S
  <2>1. F[0] = <<>>
    <3>1. 0 \in 0 .. Len(list)
      BY <1>3
    <3> QED BY <1>1, <3>1 DEF KeptUpTo
  <2>2. KeptOf(<<>>, T, list, places, 0)
    BY DEF KeptOf
  <2> QED BY <1>3, <2>1, <2>2
<1>5. ASSUME NEW n \in 1 .. Len(list), n - 1 \in S PROVE n \in S
  <2>1. F[n] = IF n \in places THEN Append(F[n - 1], list[n]) ELSE F[n - 1]
    <3>1. n \in 0 .. Len(list) /\ n # 0
      BY <1>3
    <3> QED BY <1>1, <3>1 DEF KeptUpTo
  <2>2. KeptOf(F[n - 1], T, list, places, n - 1)
    BY <1>5
  <2>3. KeptOf(F[n], T, list, places, n)
    BY <2>1, <2>2, KeptOne
  <2> QED BY <1>3, <2>3
<1> HIDE DEF S
<1>6. \A n \in 0 .. Len(list) : n \in S
  BY <1>3, <1>4, <1>5, UpTo
<1>7. Len(list) \in S
  BY <1>3, <1>6
<1> QED BY <1>2, <1>7 DEF S

(***************************************************************************)
(* The merge by host and username                                          *)
(***************************************************************************)
\* No key comes twice.
KeysOnce(list) == \A i, j \in DOMAIN list : list[i].key = list[j].key => i = j

\* What a Map of the first n entries of list holds: every key once, with its last entry.
MapTo(map, list, n) ==
  /\ map \in Seq(Entry) /\ KeysOnce(map)
  /\ \A i \in 1 .. n : \E j \in DOMAIN map : map[j].key = list[i].key
  /\ \A j \in DOMAIN map :
       \E i \in 1 .. n : /\ map[j] = list[i]
                         /\ \A k \in i + 1 .. n : list[k].key # list[i].key

LEMMA MapOne ==
  ASSUME NEW list \in Seq(Entry), NEW n \in 1 .. Len(list), NEW map, MapTo(map, list, n - 1)
  PROVE  MapTo(SetByKey(map, list[n]), list, n)
<1> DEFINE entry == list[n]
           next == SetByKey(map, list[n])
<1>0. /\ Len(list) \in Nat /\ n \in DOMAIN list /\ n \in Nat /\ entry \in Entry
      /\ map \in Seq(Entry) /\ Len(map) \in Nat /\ DOMAIN map = 1 .. Len(map)
      /\ \A j \in DOMAIN map : map[j] \in Entry
  BY Places DEF MapTo
<1>1. CASE \E j \in DOMAIN map : map[j].key = entry.key
  <2>1. PICK at \in DOMAIN map : map[at].key = entry.key
    BY <1>1
  <2>2. entry.key \in KeysOf(map)
    BY <2>1 DEF KeysOf
  <2>3. next = [i \in DOMAIN map |-> IF map[i].key = entry.key THEN entry ELSE map[i]]
    BY <2>2 DEF SetByKey
  <2>4. \A i \in DOMAIN map : i # at => map[i].key # entry.key
    BY <2>1 DEF MapTo, KeysOnce
  <2> HIDE DEF next, entry
  <2>5. /\ next \in [DOMAIN map -> Entry] /\ next[at] = entry
        /\ \A i \in DOMAIN map : i # at => next[i] = map[i]
    BY <1>0, <2>1, <2>3, <2>4
  <2>6. next \in Seq(Entry) /\ DOMAIN next = DOMAIN map
    BY <1>0, <2>5, SameLength
  <2>7. \A i \in DOMAIN map : next[i].key = map[i].key
    BY <2>1, <2>5
  <2>8. KeysOnce(next)
    BY <2>6, <2>7 DEF KeysOnce, MapTo
  <2>9. ASSUME NEW i \in 1 .. n PROVE \E j \in DOMAIN next : next[j].key = list[i].key
    <3>1. CASE i = n
      BY <2>1, <2>5, <2>6, <3>1 DEF entry
    <3>2. CASE i # n
      <4>1. i \in 1 .. n - 1
        BY <1>0, <3>2
      <4>2. PICK j \in DOMAIN map : map[j].key = list[i].key
        BY <4>1 DEF MapTo
      <4> QED BY <2>6, <2>7, <4>2
    <3> QED BY <3>1, <3>2
  <2>10. ASSUME NEW j \in DOMAIN next
         PROVE  \E i \in 1 .. n : next[j] = list[i] /\ \A k \in i + 1 .. n : list[k].key # list[i].key
    <3>1. CASE j = at
      <4>1. n \in 1 .. n /\ next[j] = list[n] /\ n + 1 .. n = {}
        BY <1>0, <2>5, <3>1 DEF entry
      <4> QED BY <4>1
    <3>2. CASE j # at
      <4>1. PICK i \in 1 .. n - 1 : map[j] = list[i] /\ \A k \in i + 1 .. n - 1 : list[k].key # list[i].key
        BY <2>6 DEF MapTo
      <4>2. map[j].key # list[n].key /\ next[j] = map[j]
        BY <2>4, <2>5, <2>6, <3>2 DEF entry
      <4>3. i \in 1 .. n /\ \A k \in i + 1 .. n : k = n \/ k \in i + 1 .. n - 1
        BY <1>0
      <4> QED BY <4>1, <4>2, <4>3
    <3> QED BY <3>1, <3>2
  <2> QED BY <2>6, <2>8, <2>9, <2>10 DEF MapTo, next
<1>2. CASE ~\E j \in DOMAIN map : map[j].key = entry.key
  <2>1. entry.key \notin KeysOf(map)
    BY <1>2 DEF KeysOf
  <2>2. next = Append(map, entry)
    BY <2>1 DEF SetByKey
  <2> HIDE DEF next
  <2>3. /\ next \in Seq(Entry) /\ Len(next) = Len(map) + 1
        /\ \A j \in 1 .. Len(map) : next[j] = map[j]
        /\ next[Len(map) + 1] = entry
    BY <1>0, <2>2, AppendProperties
  <2>4. DOMAIN next = 1 .. Len(map) + 1
    BY <2>3, Places
  <2>5. \A j \in DOMAIN next : j \in DOMAIN map \/ j = Len(map) + 1
    BY <1>0, <2>4
  <2>6. Len(map) + 1 \in DOMAIN next /\ \A j \in DOMAIN map : j \in DOMAIN next /\ next[j] = map[j]
    BY <1>0, <2>3, <2>4
  <2> HIDE DEF entry
  <2>7. KeysOnce(next)
    <3> SUFFICES ASSUME NEW i \in DOMAIN next, NEW j \in DOMAIN next, next[i].key = next[j].key
                 PROVE  i = j
      BY DEF KeysOnce
    <3>1. CASE i \in DOMAIN map /\ j \in DOMAIN map
      <4>1. map[i].key = map[j].key
        BY <2>6, <3>1
      <4> QED BY <3>1, <4>1 DEF KeysOnce, MapTo
    <3>2. CASE i \in DOMAIN map /\ j \notin DOMAIN map
      <4>1. next[i] = map[i] /\ next[j] = entry
        BY <2>3, <2>5, <2>6, <3>2
      <4> QED BY <1>2, <3>2, <4>1
    <3>3. CASE i \notin DOMAIN map /\ j \in DOMAIN map
      <4>1. next[j] = map[j] /\ next[i] = entry
        BY <2>3, <2>5, <2>6, <3>3
      <4> QED BY <1>2, <3>3, <4>1
    <3>4. CASE i \notin DOMAIN map /\ j \notin DOMAIN map
      BY <2>5, <3>4
    <3> QED BY <3>1, <3>2, <3>3, <3>4
  <2>9. ASSUME NEW i \in 1 .. n PROVE \E j \in DOMAIN next : next[j].key = list[i].key
    <3>1. CASE i = n
      BY <2>3, <2>6, <3>1 DEF entry
    <3>2. CASE i # n
      <4>1. i \in 1 .. n - 1
        BY <1>0, <3>2
      <4>2. PICK j \in DOMAIN map : map[j].key = list[i].key
        BY <4>1 DEF MapTo
      <4> QED BY <2>6, <4>2
    <3> QED BY <3>1, <3>2
  <2>10. ASSUME NEW j \in DOMAIN next
         PROVE  \E i \in 1 .. n : next[j] = list[i] /\ \A k \in i + 1 .. n : list[k].key # list[i].key
    <3>1. CASE j = Len(map) + 1
      <4>1. n \in 1 .. n /\ next[j] = list[n] /\ n + 1 .. n = {}
        BY <1>0, <2>3, <3>1 DEF entry
      <4> QED BY <4>1
    <3>2. CASE j # Len(map) + 1
      <4>0. j \in DOMAIN map
        BY <2>5, <3>2
      <4>1. PICK i \in 1 .. n - 1 : map[j] = list[i] /\ \A k \in i + 1 .. n - 1 : list[k].key # list[i].key
        BY <4>0 DEF MapTo
      <4>2. map[j].key # list[n].key /\ next[j] = map[j]
        BY <1>2, <2>6, <4>0 DEF entry
      <4>3. i \in 1 .. n /\ \A k \in i + 1 .. n : k = n \/ k \in i + 1 .. n - 1
        BY <1>0
      <4> QED BY <4>1, <4>2, <4>3
    <3> QED BY <3>1, <3>2
  <2> QED BY <2>3, <2>7, <2>9, <2>10 DEF MapTo, next
<1> QED BY <1>1, <1>2

\* What MapOf does place by place.
MapSteps(f, list) == [n \in 0 .. Len(list) |-> IF n = 0 THEN <<>> ELSE SetByKey(f[n - 1], list[n])]

LEMMA SetByKeyTypes ==
  ASSUME NEW map \in Seq(Entry), NEW entry \in Entry
  PROVE  SetByKey(map, entry) \in Seq(Entry)
<1>1. CASE entry.key \in KeysOf(map)
  <2>1. SetByKey(map, entry) \in [DOMAIN map -> Entry]
    BY <1>1, Places DEF SetByKey
  <2> QED BY <2>1, SameLength
<1>2. CASE entry.key \notin KeysOf(map)
  BY <1>2, AppendProperties DEF SetByKey
<1> QED BY <1>1, <1>2

LEMMA MapStepsExists ==
  ASSUME NEW list \in Seq(Entry)
  PROVE  \E f : f = MapSteps(f, list)
<1> DEFINE n == Len(list)
           step == [p \in Seq(Entry) \X (1 .. n) |-> SetByKey(p[1], list[p[2]])]
<1>1. n \in Nat /\ \A i \in 1 .. n : list[i] \in Entry
  BY Places
<1> HIDE DEF n
<1>2. step \in [Seq(Entry) \X (1 .. n) -> Seq(Entry)]
  <2> SUFFICES ASSUME NEW p \in Seq(Entry) \X (1 .. n) PROVE SetByKey(p[1], list[p[2]]) \in Seq(Entry)
    BY Zenon
  <2>1. p[1] \in Seq(Entry) /\ list[p[2]] \in Entry
    BY <1>1
  <2> QED BY <2>1, SetByKeyTypes
<1> HIDE DEF step
<1>3. \E f \in [0 .. n -> Seq(Entry)] : f = Steps(f, n, <<>>, step)
  <2>1. AreSteps(Seq(Entry), n, <<>>, step)
    BY <1>1, <1>2 DEF AreSteps
  <2> QED BY <2>1, StepsExist DEF Stepwise
<1>4. PICK f \in [0 .. n -> Seq(Entry)] : f = Steps(f, n, <<>>, step)
  BY <1>3
<1>5. ASSUME NEW i \in 0 .. n PROVE f[i] = MapSteps(f, list)[i]
  <2>1. f[i] = IF i = 0 THEN <<>> ELSE step[<<f[i - 1], i>>]
    BY <1>4, Zenon DEF Steps
  <2>2. MapSteps(f, list)[i] = IF i = 0 THEN <<>> ELSE SetByKey(f[i - 1], list[i])
    BY Zenon DEF MapSteps, n
  <2>3. CASE i = 0
    BY <2>1, <2>2, <2>3
  <2>4. CASE i # 0
    <3>1. i - 1 \in 0 .. n /\ i \in 1 .. n
      BY <1>1, <2>4
    <3>2. <<f[i - 1], i>> \in Seq(Entry) \X (1 .. n)
      BY <3>1
    <3>3. step[<<f[i - 1], i>>] = SetByKey(f[i - 1], list[i])
      BY <3>2 DEF step
    <3> QED BY <2>1, <2>2, <2>4, <3>3
  <2> QED BY <2>3, <2>4
<1>6. MapSteps(f, list) = [i \in 0 .. n |-> MapSteps(f, list)[i]]
  BY DEF MapSteps, n
<1>7. f = [i \in 0 .. n |-> f[i]]
  OBVIOUS
<1> QED BY <1>5, <1>6, <1>7, Zenon

\* A Map of a list has each of its keys once, with the last entry of that key.
LEMMA MapOfIs ==
  ASSUME NEW list \in Seq(Entry)
  PROVE  MapTo(MapOf(list), list, Len(list))
<1> DEFINE F == CHOOSE f : f = MapSteps(f, list)
           S == {n \in 0 .. Len(list) : MapTo(F[n], list, n)}
<1>1. F = MapSteps(F, list)
  BY MapStepsExists, Zenon
<1>2. MapOf(list) = F[Len(list)]
  BY Zenon DEF MapOf, MapSteps
<1> HIDE DEF F
<1>3. Len(list) \in Nat
  BY LenProperties
<1>4. 0 \in S
  <2>1. F[0] = <<>>
    <3>1. 0 \in 0 .. Len(list)
      BY <1>3
    <3> QED BY <1>1, <3>1 DEF MapSteps
  <2>2. <<>> \in Seq(Entry) /\ DOMAIN <<>> = {}
    OBVIOUS
  <2>3. MapTo(<<>>, list, 0)
    BY <2>2 DEF MapTo, KeysOnce
  <2> QED BY <1>3, <2>1, <2>3
<1>5. ASSUME NEW n \in 1 .. Len(list), n - 1 \in S PROVE n \in S
  <2>1. F[n] = SetByKey(F[n - 1], list[n])
    <3>1. n \in 0 .. Len(list) /\ n # 0
      BY <1>3
    <3> QED BY <1>1, <3>1 DEF MapSteps
  <2>2. MapTo(F[n - 1], list, n - 1)
    BY <1>5
  <2>3. MapTo(F[n], list, n)
    BY <2>1, <2>2, MapOne
  <2> QED BY <1>3, <2>3
<1> HIDE DEF S
<1>6. \A n \in 0 .. Len(list) : n \in S
  BY <1>3, <1>4, <1>5, UpTo
<1>7. Len(list) \in S
  BY <1>3, <1>6
<1> QED BY <1>2, <1>7 DEF S

\* The i-th login has a password for this key.
Brings(list, i, key) == list[i].key = key /\ list[i].pw # NoText

\* The password of an entry: the last one brought, or else what it had.
PasswordIs(pw, key, incoming, n, had) ==
  \/ \E i \in 1 .. n : /\ Brings(incoming, i, key) /\ pw = incoming[i].pw
                       /\ \A k \in i + 1 .. n : ~Brings(incoming, k, key)
  \/ (\A i \in 1 .. n : ~Brings(incoming, i, key)) /\ pw = had

\* What the Map is after n incoming logins: its entries stay in their places with their
\* ids, the keys that are new follow.
TakenTo(taken, map, incoming, n) ==
  /\ taken \in Seq(Entry) /\ KeysOnce(taken) /\ Len(map) <= Len(taken)
  /\ \A j \in DOMAIN map : taken[j].id = map[j].id /\ taken[j].key = map[j].key
  /\ \A i \in 1 .. n : \E j \in DOMAIN taken : taken[j].key = incoming[i].key
  /\ \A j \in DOMAIN taken :
       /\ j \notin DOMAIN map => \E i \in 1 .. n : taken[j].key = incoming[i].key
       /\ PasswordIs(taken[j].pw, taken[j].key, incoming, n, IF j \in DOMAIN map THEN map[j].pw ELSE NoText)

\* One more login: its key's password, and nobody else's.
LEMMA PasswordGoesOn ==
  ASSUME NEW incoming, NEW n \in Nat \ {0}, NEW pw, NEW next, NEW key, NEW had,
         PasswordIs(pw, key, incoming, n - 1, had),
         next = IF Brings(incoming, n, key) THEN incoming[n].pw ELSE pw
  PROVE  PasswordIs(next, key, incoming, n, had)
<1>1. CASE Brings(incoming, n, key)
  <2>1. n \in 1 .. n /\ n + 1 .. n = {}
    OBVIOUS
  <2> QED BY <1>1, <2>1 DEF PasswordIs
<1>2. CASE ~Brings(incoming, n, key)
  <2>1. \A i \in 1 .. n : i = n \/ i \in 1 .. n - 1
    OBVIOUS
  <2>2. CASE \A i \in 1 .. n - 1 : ~Brings(incoming, i, key)
    <3>1. \A i \in 1 .. n : ~Brings(incoming, i, key)
      BY <1>2, <2>1, <2>2
    <3>2. pw = had
      BY <2>2 DEF PasswordIs
    <3> QED BY <1>2, <3>1, <3>2 DEF PasswordIs
  <2>3. CASE \E i \in 1 .. n - 1 : /\ Brings(incoming, i, key) /\ pw = incoming[i].pw
                                   /\ \A k \in i + 1 .. n - 1 : ~Brings(incoming, k, key)
    <3>1. PICK i \in 1 .. n - 1 : /\ Brings(incoming, i, key) /\ pw = incoming[i].pw
                                  /\ \A k \in i + 1 .. n - 1 : ~Brings(incoming, k, key)
      BY <2>3
    <3>2. i \in 1 .. n /\ \A k \in i + 1 .. n : k = n \/ k \in i + 1 .. n - 1
      OBVIOUS
    <3>3. \A k \in i + 1 .. n : ~Brings(incoming, k, key)
      BY <1>2, <3>1, <3>2
    <3> QED BY <1>2, <3>1, <3>2, <3>3 DEF PasswordIs
  <2> QED BY <2>2, <2>3 DEF PasswordIs
<1> QED BY <1>1, <1>2

LEMMA TakeOne ==
  ASSUME NEW map \in Seq(Entry), NEW incoming \in Seq(Entry), NEW n \in 1 .. Len(incoming),
         NEW taken, TakenTo(taken, map, incoming, n - 1)
  PROVE  TakenTo(TakeLogin(taken, incoming[n]), map, incoming, n)
<1> DEFINE login == incoming[n]
           next == TakeLogin(taken, login)
           had(j) == IF j \in DOMAIN map THEN map[j].pw ELSE NoText
<1>0. /\ Len(incoming) \in Nat /\ n \in DOMAIN incoming /\ n \in Nat \ {0} /\ login \in Entry
      /\ taken \in Seq(Entry) /\ Len(taken) \in Nat /\ DOMAIN taken = 1 .. Len(taken)
      /\ Len(map) \in Nat /\ DOMAIN map = 1 .. Len(map) /\ Len(map) <= Len(taken)
      /\ \A j \in DOMAIN taken : taken[j] \in Entry
  BY Places DEF TakenTo
<1>1. \A i \in 1 .. n : i = n \/ i \in 1 .. n - 1
  BY <1>0
<1>2. 1 .. n - 1 \subseteq 1 .. n /\ n \in 1 .. n
  BY <1>0
<1>3. \A j \in DOMAIN map : j \in DOMAIN taken
  BY <1>0
<1>4. CASE \E j \in DOMAIN taken : taken[j].key = login.key
  <2>1. PICK at \in DOMAIN taken : taken[at].key = login.key
    BY <1>4
  <2>2. login.key \in KeysOf(taken)
    BY <2>1 DEF KeysOf
  <2>3. next = [i \in DOMAIN taken |->
                  IF taken[i].key = login.key /\ login.pw # NoText THEN [taken[i] EXCEPT !.pw = login.pw]
                  ELSE taken[i]]
    BY <2>2 DEF TakeLogin
  <2> HIDE DEF next, login
  <2>4. ASSUME NEW i \in DOMAIN taken
        PROVE  /\ next[i] \in Entry /\ next[i].key = taken[i].key /\ next[i].id = taken[i].id
               /\ next[i].pw = IF taken[i].key = login.key /\ login.pw # NoText THEN login.pw ELSE taken[i].pw
    <3>1. taken[i] \in Entry /\ login.pw \in Text
      BY <1>0 DEF Entry
    <3>2. CASE taken[i].key = login.key /\ login.pw # NoText
      <4>1. next[i] = [taken[i] EXCEPT !.pw = login.pw]
        BY <2>3, <3>2
      <4> QED BY <3>1, <3>2, <4>1 DEF Entry
    <3>3. CASE ~(taken[i].key = login.key /\ login.pw # NoText)
      <4>1. next[i] = taken[i]
        BY <2>3, <3>3
      <4> QED BY <3>1, <3>3, <4>1
    <3> QED BY <3>2, <3>3
  <2>5. next \in [DOMAIN taken -> Entry]
    BY <2>3, <2>4
  <2>6. next \in Seq(Entry) /\ DOMAIN next = DOMAIN taken /\ Len(next) = Len(taken)
    BY <1>0, <2>5, SameLength
  <2>7. KeysOnce(next)
    BY <2>4, <2>6 DEF KeysOnce, TakenTo
  <2>8. \A j \in DOMAIN map : next[j].id = map[j].id /\ next[j].key = map[j].key
    BY <1>3, <2>4 DEF TakenTo
  <2>9. ASSUME NEW i \in 1 .. n PROVE \E j \in DOMAIN next : next[j].key = incoming[i].key
    <3>1. CASE i = n
      BY <2>1, <2>4, <2>6, <3>1 DEF login
    <3>2. CASE i # n
      <4>1. PICK j \in DOMAIN taken : taken[j].key = incoming[i].key
        BY <1>1, <3>2 DEF TakenTo
      <4> QED BY <2>4, <2>6, <4>1
    <3> QED BY <3>1, <3>2
  <2>10. ASSUME NEW j \in DOMAIN next
         PROVE  /\ j \notin DOMAIN map => \E i \in 1 .. n : next[j].key = incoming[i].key
                /\ PasswordIs(next[j].pw, next[j].key, incoming, n, had(j))
    <3>0. j \in DOMAIN taken
      BY <2>6
    <3>1. /\ j \notin DOMAIN map => \E i \in 1 .. n - 1 : taken[j].key = incoming[i].key
          /\ PasswordIs(taken[j].pw, taken[j].key, incoming, n - 1, had(j))
      BY <3>0 DEF TakenTo
    <3>2. next[j].pw = IF Brings(incoming, n, taken[j].key) THEN incoming[n].pw ELSE taken[j].pw
      BY <2>4, <3>0 DEF Brings, login
    <3> HIDE DEF had
    <3>3. PasswordIs(next[j].pw, taken[j].key, incoming, n, had(j))
      BY <1>0, <3>1, <3>2, PasswordGoesOn
    <3> QED BY <1>2, <2>4, <3>0, <3>1, <3>3
  <2>11. Len(map) <= Len(next)
    BY <1>0, <2>6
  <2> QED BY <2>6, <2>7, <2>8, <2>9, <2>10, <2>11 DEF TakenTo, next, login
<1>5. CASE ~\E j \in DOMAIN taken : taken[j].key = login.key
  <2>1. login.key \notin KeysOf(taken)
    BY <1>5 DEF KeysOf
  <2>2. next = Append(taken, login)
    BY <2>1 DEF TakeLogin
  <2> HIDE DEF next
  <2>3. /\ next \in Seq(Entry) /\ Len(next) = Len(taken) + 1
        /\ \A j \in 1 .. Len(taken) : next[j] = taken[j]
        /\ next[Len(taken) + 1] = login
    BY <1>0, <2>2, AppendProperties
  <2>4. DOMAIN next = 1 .. Len(taken) + 1
    BY <2>3, Places
  <2>5. \A j \in DOMAIN next : j \in DOMAIN taken \/ j = Len(taken) + 1
    BY <1>0, <2>4
  <2>6. /\ Len(taken) + 1 \in DOMAIN next /\ Len(taken) + 1 \notin DOMAIN map
        /\ \A j \in DOMAIN taken : j \in DOMAIN next /\ next[j] = taken[j]
    BY <1>0, <2>3, <2>4
  <2> HIDE DEF login
  <2>7. KeysOnce(next)
    <3> SUFFICES ASSUME NEW i \in DOMAIN next, NEW j \in DOMAIN next, next[i].key = next[j].key
                 PROVE  i = j
      BY DEF KeysOnce
    <3>1. CASE i \in DOMAIN taken /\ j \in DOMAIN taken
      <4>1. taken[i].key = taken[j].key
        BY <2>6, <3>1
      <4> QED BY <3>1, <4>1 DEF KeysOnce, TakenTo
    <3>2. CASE i \in DOMAIN taken /\ j \notin DOMAIN taken
      <4>1. next[i] = taken[i] /\ next[j] = login
        BY <2>3, <2>5, <2>6, <3>2
      <4> QED BY <1>5, <3>2, <4>1
    <3>3. CASE i \notin DOMAIN taken /\ j \in DOMAIN taken
      <4>1. next[j] = taken[j] /\ next[i] = login
        BY <2>3, <2>5, <2>6, <3>3
      <4> QED BY <1>5, <3>3, <4>1
    <3>4. CASE i \notin DOMAIN taken /\ j \notin DOMAIN taken
      BY <2>5, <3>4
    <3> QED BY <3>1, <3>2, <3>3, <3>4
  <2>8. \A j \in DOMAIN map : next[j].id = map[j].id /\ next[j].key = map[j].key
    BY <1>3, <2>6 DEF TakenTo
  <2>9. ASSUME NEW i \in 1 .. n PROVE \E j \in DOMAIN next : next[j].key = incoming[i].key
    <3>1. CASE i = n
      BY <2>3, <2>6, <3>1 DEF login
    <3>2. CASE i # n
      <4>1. PICK j \in DOMAIN taken : taken[j].key = incoming[i].key
        BY <1>1, <3>2 DEF TakenTo
      <4> QED BY <2>6, <4>1
    <3> QED BY <3>1, <3>2
  <2>10. ASSUME NEW j \in DOMAIN next
         PROVE  /\ j \notin DOMAIN map => \E i \in 1 .. n : next[j].key = incoming[i].key
                /\ PasswordIs(next[j].pw, next[j].key, incoming, n, had(j))
    <3>1. CASE j \in DOMAIN taken
      <4>1. /\ j \notin DOMAIN map => \E i \in 1 .. n - 1 : taken[j].key = incoming[i].key
            /\ PasswordIs(taken[j].pw, taken[j].key, incoming, n - 1, had(j))
        BY <3>1 DEF TakenTo
      <4>2. ~Brings(incoming, n, taken[j].key)
        BY <1>5, <3>1 DEF Brings, login
      <4> HIDE DEF had
      <4>3. PasswordIs(taken[j].pw, taken[j].key, incoming, n, had(j))
        BY <1>0, <4>1, <4>2, PasswordGoesOn
      <4> QED BY <1>2, <2>6, <3>1, <4>1, <4>3
    <3>2. CASE j = Len(taken) + 1
      <4>1. next[j] = incoming[n] /\ had(j) = NoText /\ j \notin DOMAIN map
        BY <2>3, <2>6, <3>2 DEF login
      <4>2. ASSUME NEW i \in 1 .. n - 1 PROVE ~Brings(incoming, i, login.key)
        <5>1. PICK k \in DOMAIN taken : taken[k].key = incoming[i].key
          BY DEF TakenTo
        <5> QED BY <1>5, <5>1 DEF Brings
      <4>3. PasswordIs(login.pw, login.key, incoming, n, NoText)
        <5>1. CASE login.pw = NoText
          <6>1. \A i \in 1 .. n : ~Brings(incoming, i, login.key)
            BY <1>1, <4>2, <5>1 DEF Brings, login
          <6> QED BY <5>1, <6>1 DEF PasswordIs
        <5>2. CASE login.pw # NoText
          <6>1. Brings(incoming, n, login.key) /\ n + 1 .. n = {}
            BY <1>0, <5>2 DEF Brings, login
          <6> QED BY <1>2, <6>1 DEF PasswordIs, login
        <5> QED BY <5>1, <5>2
      <4> HIDE DEF had
      <4> QED BY <1>2, <4>1, <4>3 DEF login
    <3> QED BY <2>5, <3>1, <3>2
  <2>11. Len(map) <= Len(next)
    BY <1>0, <2>3
  <2> QED BY <2>3, <2>7, <2>8, <2>9, <2>10, <2>11 DEF TakenTo, next, login
<1> QED BY <1>4, <1>5

\* What TakeLogins does place by place.
TakeSteps(f, map, incoming) ==
  [n \in 0 .. Len(incoming) |-> IF n = 0 THEN map ELSE TakeLogin(f[n - 1], incoming[n])]

LEMMA TakeLoginTypes ==
  ASSUME NEW map \in Seq(Entry), NEW login \in Entry
  PROVE  TakeLogin(map, login) \in Seq(Entry)
<1>1. CASE login.key \in KeysOf(map)
  <2>1. \A i \in DOMAIN map : map[i] \in Entry /\ [map[i] EXCEPT !.pw = login.pw] \in Entry
    <3>1. ASSUME NEW entry \in Entry PROVE [entry EXCEPT !.pw = login.pw] \in Entry
      BY DEF Entry
    <3>2. \A i \in DOMAIN map : map[i] \in Entry
      BY Places
    <3> QED BY <3>1, <3>2
  <2>2. TakeLogin(map, login) \in [DOMAIN map -> Entry]
    BY <1>1, <2>1 DEF TakeLogin
  <2> QED BY <2>2, SameLength
<1>2. CASE login.key \notin KeysOf(map)
  BY <1>2, AppendProperties DEF TakeLogin
<1> QED BY <1>1, <1>2

LEMMA TakeStepsExists ==
  ASSUME NEW incoming \in Seq(Entry), NEW map \in Seq(Entry)
  PROVE  \E f : f = TakeSteps(f, map, incoming)
<1> DEFINE n == Len(incoming)
           step == [p \in Seq(Entry) \X (1 .. n) |-> TakeLogin(p[1], incoming[p[2]])]
<1>1. n \in Nat /\ \A i \in 1 .. n : incoming[i] \in Entry
  BY Places
<1> HIDE DEF n
<1>2. step \in [Seq(Entry) \X (1 .. n) -> Seq(Entry)]
  <2> SUFFICES ASSUME NEW p \in Seq(Entry) \X (1 .. n) PROVE TakeLogin(p[1], incoming[p[2]]) \in Seq(Entry)
    BY Zenon
  <2>1. p[1] \in Seq(Entry) /\ incoming[p[2]] \in Entry
    BY <1>1
  <2> QED BY <2>1, TakeLoginTypes
<1> HIDE DEF step
<1>3. \E f \in [0 .. n -> Seq(Entry)] : f = Steps(f, n, map, step)
  <2>1. AreSteps(Seq(Entry), n, map, step)
    BY <1>1, <1>2 DEF AreSteps
  <2> QED BY <2>1, StepsExist DEF Stepwise
<1>4. PICK f \in [0 .. n -> Seq(Entry)] : f = Steps(f, n, map, step)
  BY <1>3
<1>5. ASSUME NEW i \in 0 .. n PROVE f[i] = TakeSteps(f, map, incoming)[i]
  <2>1. f[i] = IF i = 0 THEN map ELSE step[<<f[i - 1], i>>]
    BY <1>4, Zenon DEF Steps
  <2>2. TakeSteps(f, map, incoming)[i] = IF i = 0 THEN map ELSE TakeLogin(f[i - 1], incoming[i])
    BY Zenon DEF TakeSteps, n
  <2>3. CASE i = 0
    BY <2>1, <2>2, <2>3
  <2>4. CASE i # 0
    <3>1. i - 1 \in 0 .. n /\ i \in 1 .. n
      BY <1>1, <2>4
    <3>2. <<f[i - 1], i>> \in Seq(Entry) \X (1 .. n)
      BY <3>1
    <3>3. step[<<f[i - 1], i>>] = TakeLogin(f[i - 1], incoming[i])
      BY <3>2 DEF step
    <3> QED BY <2>1, <2>2, <2>4, <3>3
  <2> QED BY <2>3, <2>4
<1>6. TakeSteps(f, map, incoming) = [i \in 0 .. n |-> TakeSteps(f, map, incoming)[i]]
  BY DEF TakeSteps, n
<1>7. f = [i \in 0 .. n |-> f[i]]
  OBVIOUS
<1> QED BY <1>5, <1>6, <1>7, Zenon

LEMMA TakeLoginsIs ==
  ASSUME NEW map \in Seq(Entry), KeysOnce(map), NEW incoming \in Seq(Entry)
  PROVE  TakenTo(TakeLogins(map, incoming), map, incoming, Len(incoming))
<1> DEFINE F == CHOOSE f : f = TakeSteps(f, map, incoming)
           S == {n \in 0 .. Len(incoming) : TakenTo(F[n], map, incoming, n)}
<1>1. F = TakeSteps(F, map, incoming)
  BY TakeStepsExists, Zenon
<1>2. TakeLogins(map, incoming) = F[Len(incoming)]
  BY Zenon DEF TakeLogins, TakeSteps
<1> HIDE DEF F
<1>3. Len(incoming) \in Nat
  BY LenProperties
<1>4. 0 \in S
  <2>1. F[0] = map
    <3>1. 0 \in 0 .. Len(incoming)
      BY <1>3
    <3> QED BY <1>1, <3>1 DEF TakeSteps
  <2>2. Len(map) <= Len(map) /\ 1 .. 0 = {}
    BY Places
  <2>3. \A j \in DOMAIN map : PasswordIs(map[j].pw, map[j].key, incoming, 0, map[j].pw)
    BY <2>2 DEF PasswordIs
  <2>4. TakenTo(map, map, incoming, 0)
    BY <2>2, <2>3 DEF TakenTo
  <2> QED BY <1>3, <2>1, <2>4
<1>5. ASSUME NEW n \in 1 .. Len(incoming), n - 1 \in S PROVE n \in S
  <2>1. F[n] = TakeLogin(F[n - 1], incoming[n])
    <3>1. n \in 0 .. Len(incoming) /\ n # 0
      BY <1>3
    <3> QED BY <1>1, <3>1 DEF TakeSteps
  <2>2. TakenTo(F[n - 1], map, incoming, n - 1)
    BY <1>5
  <2>3. TakenTo(F[n], map, incoming, n)
    BY <2>1, <2>2, TakeOne
  <2> QED BY <1>3, <2>3
<1> HIDE DEF S
<1>6. \A n \in 0 .. Len(incoming) : n \in S
  BY <1>3, <1>4, <1>5, UpTo
<1>7. Len(incoming) \in S
  BY <1>3, <1>6
<1> QED BY <1>2, <1>7 DEF S

\* The last entry of this key before the merge.
IsLast(list, i, key) ==
  i \in DOMAIN list /\ list[i].key = key /\ \A k \in i + 1 .. Len(list) : list[k].key # key

\* mergeImportedLogins, for every list of entries and every import: no login is lost and
\* none comes twice, those that were there keep their id, and the password of each is the
\* last one the import brings for it, or else the last it had before, if it had one.
THEOREM MergeByHostAndUser ==
  ASSUME NEW existing \in Seq(Entry), NEW incoming \in Seq(Entry), NEW merged,
         merged = MergeImportedLogins(existing, incoming)
  PROVE  /\ merged \in Seq(Entry) /\ KeysOnce(merged)
         /\ KeysOf(merged) = KeysOf(existing) \cup KeysOf(incoming)
         /\ \A j \in DOMAIN merged :
              \/ \E i \in DOMAIN existing :
                   /\ IsLast(existing, i, merged[j].key) /\ merged[j].id = existing[i].id
                   /\ PasswordIs(merged[j].pw, merged[j].key, incoming, Len(incoming), existing[i].pw)
              \/ /\ merged[j].key \notin KeysOf(existing)
                 /\ PasswordIs(merged[j].pw, merged[j].key, incoming, Len(incoming), NoText)
<1> DEFINE map == MapOf(existing)
<1>1. MapTo(map, existing, Len(existing))
  BY MapOfIs
<1>2. map \in Seq(Entry) /\ KeysOnce(map)
  BY <1>1 DEF MapTo
<1> HIDE DEF map
<1>3. merged = TakeLogins(map, incoming)
  BY DEF MergeImportedLogins, map
<1>4. TakenTo(merged, map, incoming, Len(incoming))
  BY <1>2, <1>3, TakeLoginsIs
<1>5. /\ Len(existing) \in Nat /\ DOMAIN existing = 1 .. Len(existing)
      /\ Len(incoming) \in Nat /\ DOMAIN incoming = 1 .. Len(incoming)
  BY Places
<1>6. \A i \in DOMAIN existing : \E j \in DOMAIN map : map[j].key = existing[i].key
  BY <1>1, <1>5 DEF MapTo
<1>7. \A j \in DOMAIN map : \E i \in DOMAIN existing :
        IsLast(existing, i, map[j].key) /\ map[j] = existing[i]
  BY <1>1, <1>5 DEF MapTo, IsLast
<1>8. merged \in Seq(Entry) /\ KeysOnce(merged) /\ DOMAIN map \subseteq DOMAIN merged
  <2>1. merged \in Seq(Entry) /\ KeysOnce(merged) /\ Len(map) <= Len(merged)
    BY <1>4 DEF TakenTo
  <2>2. /\ Len(map) \in Nat /\ DOMAIN map = 1 .. Len(map)
        /\ Len(merged) \in Nat /\ DOMAIN merged = 1 .. Len(merged)
    BY <1>2, <2>1, Places
  <2> QED BY <2>1, <2>2
<1>9. \A j \in DOMAIN map : merged[j].id = map[j].id /\ merged[j].key = map[j].key
  BY <1>4 DEF TakenTo
<1>10. \A i \in DOMAIN incoming : \E j \in DOMAIN merged : merged[j].key = incoming[i].key
  BY <1>4, <1>5 DEF TakenTo
<1>11. ASSUME NEW j \in DOMAIN merged
       PROVE  /\ j \notin DOMAIN map => \E i \in DOMAIN incoming : merged[j].key = incoming[i].key
              /\ PasswordIs(merged[j].pw, merged[j].key, incoming, Len(incoming),
                            IF j \in DOMAIN map THEN map[j].pw ELSE NoText)
  BY <1>4, <1>5 DEF TakenTo
<1>12. KeysOf(existing) \cup KeysOf(incoming) \subseteq KeysOf(merged)
  <2>1. ASSUME NEW i \in DOMAIN existing PROVE existing[i].key \in KeysOf(merged)
    <3>1. PICK j \in DOMAIN map : map[j].key = existing[i].key
      BY <1>6
    <3> QED BY <1>8, <1>9, <3>1 DEF KeysOf
  <2>2. ASSUME NEW i \in DOMAIN incoming PROVE incoming[i].key \in KeysOf(merged)
    BY <1>10 DEF KeysOf
  <2> QED BY <2>1, <2>2 DEF KeysOf
<1>13. ASSUME NEW j \in DOMAIN map PROVE merged[j].key \in KeysOf(existing)
  BY <1>7, <1>9 DEF KeysOf, IsLast
<1>14. KeysOf(merged) \subseteq KeysOf(existing) \cup KeysOf(incoming)
  <2>1. ASSUME NEW j \in DOMAIN merged PROVE merged[j].key \in KeysOf(existing) \cup KeysOf(incoming)
    <3>1. CASE j \in DOMAIN map
      BY <1>13, <3>1
    <3>2. CASE j \notin DOMAIN map
      BY <1>11, <3>2 DEF KeysOf
    <3> QED BY <3>1, <3>2
  <2> QED BY <2>1 DEF KeysOf
<1>15. ASSUME NEW j \in DOMAIN merged
       PROVE  \/ \E i \in DOMAIN existing :
                   /\ IsLast(existing, i, merged[j].key) /\ merged[j].id = existing[i].id
                   /\ PasswordIs(merged[j].pw, merged[j].key, incoming, Len(incoming), existing[i].pw)
              \/ /\ merged[j].key \notin KeysOf(existing)
                 /\ PasswordIs(merged[j].pw, merged[j].key, incoming, Len(incoming), NoText)
  <2>1. CASE j \in DOMAIN map
    <3>1. PICK i \in DOMAIN existing : IsLast(existing, i, map[j].key) /\ map[j] = existing[i]
      BY <1>7, <2>1
    <3> QED BY <1>9, <1>11, <2>1, <3>1
  <2>2. CASE j \notin DOMAIN map
    <3>1. ASSUME merged[j].key \in KeysOf(existing) PROVE FALSE
      <4>1. PICK i \in DOMAIN existing : existing[i].key = merged[j].key
        BY <3>1 DEF KeysOf
      <4>2. PICK k \in DOMAIN map : map[k].key = existing[i].key
        BY <1>6
      <4>3. k \in DOMAIN merged /\ merged[k].key = merged[j].key
        BY <1>8, <1>9, <4>1, <4>2
      <4> QED BY <1>8, <2>2, <4>2, <4>3 DEF KeysOnce
    <3> QED BY <1>11, <2>2, <3>1
  <2> QED BY <2>1, <2>2
<1> QED BY <1>8, <1>12, <1>14, <1>15

(***************************************************************************)
(* What a file, a browser or a share file brings                           *)
(***************************************************************************)
Takeable == [kind : {"api", "sftp", "web"}, key : Key, pw : Text, titled : BOOLEAN]

LEMMA NoTextIsText == NoText \in Text
BY DeskAssumption

LEMMA KeptTypes ==
  ASSUME NEW T, NEW list \in Seq(T), NEW places
  PROVE  KeepAt(list, places) \in Seq(T)
BY KeepAtIs DEF KeptOf

LEMMA ClassifyTypes ==
  ASSUME NEW row \in FileRow
  PROVE  ClassifyImportedEntry(row) \in Takeable
<1>1. /\ row.host \in Text /\ row.user \in Text /\ row.secret \in Text /\ row.looks \in Text
      /\ row.named \in Text /\ row.titled \in BOOLEAN
  BY DEF FileRow
<1>2. \A host \in Text : ApiEntry(row, host) \in Takeable
  BY <1>1 DEF ApiEntry, Takeable, Key
<1>3. LoginEntry(row, "sftp") \in Takeable /\ LoginEntry(row, "web") \in Takeable
  BY <1>1 DEF LoginEntry, Takeable, Key
<1> QED BY <1>1, <1>2, <1>3 DEF ClassifyImportedEntry

LEMMA ReadAsTypes ==
  ASSUME NEW row \in FileRow
  PROVE  Nameless(row) \in FileRow /\ Userless(row) \in FileRow /\ Bare(row) \in FileRow
<1>1. Nameless(row) \in FileRow
  BY NoTextIsText DEF Nameless, FileRow
<1>2. Userless(row) \in FileRow
  BY NoTextIsText DEF Userless, FileRow
<1>3. Bare(row) \in FileRow
  BY NoTextIsText DEF Bare, FileRow
<1> QED BY <1>1, <1>2, <1>3

LEMMA ClassifiedTypes ==
  ASSUME NEW rows \in Seq(FileRow)
  PROVE  /\ Classified(rows) \in Seq(Takeable)
         /\ ClassifiedAs(Nameless, rows) \in Seq(Takeable)
         /\ ClassifiedAs(Userless, rows) \in Seq(Takeable)
         /\ ClassifiedAs(Bare, rows) \in Seq(Takeable)
<1>1. \A i \in DOMAIN rows :
        /\ ClassifyImportedEntry(rows[i]) \in Takeable
        /\ ClassifyImportedEntry(Nameless(rows[i])) \in Takeable
        /\ ClassifyImportedEntry(Userless(rows[i])) \in Takeable
        /\ ClassifyImportedEntry(Bare(rows[i])) \in Takeable
  BY Places, ClassifyTypes, ReadAsTypes
<1>2. Classified(rows) \in [DOMAIN rows -> Takeable]
  BY <1>1, Zenon DEF Classified
<1>3. ClassifiedAs(Nameless, rows) \in [DOMAIN rows -> Takeable]
  BY <1>1, Zenon DEF ClassifiedAs
<1>4. ClassifiedAs(Userless, rows) \in [DOMAIN rows -> Takeable]
  BY <1>1, Zenon DEF ClassifiedAs
<1>5. ClassifiedAs(Bare, rows) \in [DOMAIN rows -> Takeable]
  BY <1>1, Zenon DEF ClassifiedAs
<1> HIDE DEF Classified, ClassifiedAs
<1> QED BY <1>2, <1>3, <1>4, <1>5, SameLength

LEMMA UsableTypes ==
  ASSUME NEW list \in Seq(Takeable)
  PROVE  Usable(list) \in Seq(Takeable) /\ ApiKeys(list) \in Seq(Takeable)
BY KeptTypes DEF Usable, ApiKeys, Keep

LEMMA RowsTypes ==
  ASSUME NEW file \in Files, NEW sorts
  PROVE  Rows(file, sorts) \in Seq(FileRow)
BY DeskAssumption, KeptTypes DEF Rows, Keep

LEMMA WithSecretTypes ==
  ASSUME NEW rows \in Seq(FileRow)
  PROVE  WithSecret(rows) \in Seq(FileRow)
BY KeptTypes DEF WithSecret, Keep

\* Every parser yields logins.
LEMMA ParsersType ==
  ASSUME NEW file \in Files
  PROVE  ParsePlaintextExport(file) \in Seq(Takeable)
<1>1. file.shape \in Shapes /\ file.rows \in Seq(FileRow)
  BY DeskAssumption
<1>2. Refused \in Seq(Takeable)
  BY DEF Refused
<1>3. ParseBitwarden(file) \in Seq(Takeable)
  <2> DEFINE entry(row) == ClassifyImportedEntry(IF row.sort = "note" THEN Bare(row) ELSE row)
             chosen(row) == row.sort = "login" \/ (entry(row).kind = "api" /\ EntryIsUsable(entry(row)))
             all == Rows(file, {"login", "note"})
             rows == KeepAt(all, {i \in DOMAIN all : chosen(all[i])})
             read == [i \in DOMAIN rows |-> entry(rows[i])]
  <2>1. rows \in Seq(FileRow)
    BY RowsTypes, KeptTypes
  <2>2. ParseBitwarden(file) = read
    BY Zenon DEF ParseBitwarden, Keep
  <2> HIDE DEF rows
  <2>3. ASSUME NEW i \in DOMAIN rows PROVE entry(rows[i]) \in Takeable
    BY <2>1, Places, ClassifyTypes, ReadAsTypes
  <2>4. read \in [DOMAIN rows -> Takeable]
    BY <2>3
  <2> HIDE DEF read
  <2> QED BY <2>1, <2>2, <2>4, SameLength
<1>4. Parse1Password(file) \in Seq(Takeable) /\ Parse1pif(file) \in Seq(Takeable)
  BY RowsTypes, ClassifiedTypes, UsableTypes DEF Parse1Password, Parse1pif
<1>5. ParseKeepassXml(file) \in Seq(Takeable)
  BY RowsTypes, ClassifiedTypes, UsableTypes DEF ParseKeepassXml
<1>6. EntriesFromEnvText(file) \in Seq(Takeable)
  BY RowsTypes, WithSecretTypes, ClassifiedTypes, UsableTypes DEF EntriesFromEnvText
<1>7. EntriesFromProviderJson(file) \in Seq(Takeable)
  BY RowsTypes, WithSecretTypes, ClassifiedTypes, UsableTypes DEF EntriesFromProviderJson
<1>8. ParseCsv(file) \in Seq(Takeable)
  BY <1>1, <1>2, ClassifiedTypes, UsableTypes DEF ParseCsv
<1> QED BY <1>1, <1>2, <1>3, <1>4, <1>5, <1>6, <1>7, <1>8 DEF ParsePlaintextExport, Shapes

\* A list of logins under new ids is a list of entries.
LEMMA NewIdsType ==
  ASSUME NEW T, \A login \in T : login.key \in Key /\ login.pw \in Text,
         NEW logins \in Seq(T), vault.rev \in Nat
  PROVE  WithNewIds(logins) \in Seq(Entry)
<1>1. ASSUME NEW i \in DOMAIN logins
      PROVE  [id |-> NewId(vault.rev, i), key |-> logins[i].key, pw |-> logins[i].pw] \in Entry
  <2>1. NewId(vault.rev, i) \in Nat
    BY Places DEF NewId
  <2>2. logins[i].key \in Key /\ logins[i].pw \in Text
    BY Places
  <2> QED BY <2>1, <2>2 DEF Entry
<1>2. WithNewIds(logins) \in [DOMAIN logins -> Entry]
  BY <1>1, Zenon DEF WithNewIds
<1> QED BY <1>2, SameLength

\* No two entries of a list that can be sealed have one id.
LEMMA SealableIds ==
  ASSUME NEW entries \in Seq(Entry), Sealable(entries), NEW i \in DOMAIN entries, NEW j \in DOMAIN entries,
         entries[i].id = entries[j].id
  PROVE  i = j
<1> DEFINE n == Len(entries)
           f == [k \in 1 .. n |-> entries[k].id]
<1>1. n \in Nat /\ DOMAIN entries = 1 .. n
  BY Places
<1>2. f \in Surjection(1 .. n, Ids(entries))
  <2>1. f \in [1 .. n -> Ids(entries)]
    BY <1>1 DEF Ids
  <2>2. \A id \in Ids(entries) : \E k \in 1 .. n : f[k] = id
    BY <1>1 DEF Ids
  <2> HIDE DEF f
  <2> QED BY <2>1, <2>2, Fun_IsSurj
<1>3. IsFiniteSet(1 .. n) /\ Cardinality(1 .. n) = n
  <2>1. 1 \in Int /\ n \in Int
    BY <1>1
  <2> HIDE DEF n
  <2>2. IsFiniteSet(1 .. n) /\ Cardinality(1 .. n) = IF 1 > n THEN 0 ELSE n - 1 + 1
    BY <2>1, FS_Interval
  <2> QED BY <1>1, <2>2 DEF n
<1>4. Cardinality(Ids(entries)) = n
  BY DEF Sealable
<1> HIDE DEF f, n
<1>5. f \in Injection(1 .. n, Ids(entries))
  BY <1>2, <1>3, <1>4, FS_Surjection
<1>6. f[i] = f[j] => i = j
  BY <1>1, <1>5, Fun_InjectionProperties
<1> QED BY <1>1, <1>6 DEF f

(***************************************************************************)
(* Each edit keeps every login but the one it names                        *)
(***************************************************************************)
LEMMA AppendKeeps ==
  ASSUME NEW entries \in Seq(Entry), NEW entry \in Entry
  PROVE  /\ Append(entries, entry) \in Seq(Entry)
         /\ KeysOf(entries) \subseteq KeysOf(Append(entries, entry))
<1> DEFINE next == Append(entries, entry)
<1>1. /\ next \in Seq(Entry) /\ Len(next) = Len(entries) + 1
      /\ \A i \in 1 .. Len(entries) : next[i] = entries[i]
  BY AppendProperties
<1> HIDE DEF next
<1>2. /\ Len(entries) \in Nat /\ DOMAIN entries = 1 .. Len(entries)
      /\ DOMAIN next = 1 .. Len(entries) + 1
  BY <1>1, Places
<1>3. \A i \in DOMAIN entries : i \in DOMAIN next /\ next[i] = entries[i]
  BY <1>1, <1>2
<1>4. KeysOf(entries) \subseteq KeysOf(next)
  BY <1>3 DEF KeysOf
<1> QED BY <1>1, <1>4 DEF next

LEMMA NewEntryKeeps ==
  ASSUME NEW entries \in Seq(Entry), NEW login \in Login, NEW newId \in Nat
  PROVE  LET next == UpsertDraft(entries, [id |-> 0, key |-> login.key, pw |-> login.pw], newId)
         IN  next \in Seq(Entry) /\ KeysOf(entries) \subseteq KeysOf(next)
<1> DEFINE draft == [id |-> 0, key |-> login.key, pw |-> login.pw]
<1>1. [draft EXCEPT !.id = newId] \in Entry
  BY DEF Login, Entry
<1>2. UpsertDraft(entries, draft, newId) = Append(entries, [draft EXCEPT !.id = newId])
  BY DEF UpsertDraft
<1> HIDE DEF draft
<1> QED BY <1>1, <1>2, AppendKeeps DEF draft

LEMMA EditKeeps ==
  ASSUME NEW entries \in Seq(Entry), Sealable(entries), NEW i \in DOMAIN entries, NEW login \in Login
  PROVE  LET next == UpsertDraft(entries, [id |-> entries[i].id, key |-> login.key, pw |-> login.pw], 0)
         IN  next \in Seq(Entry) /\ KeysOf(entries) \subseteq KeysOf(next) \cup {entries[i].key}
<1> DEFINE draft == [id |-> entries[i].id, key |-> login.key, pw |-> login.pw]
           next == UpsertDraft(entries, draft, 0)
<1>0. entries[i].id \in Nat /\ login.key \in Key /\ login.pw \in Text
  <2>1. entries[i] \in Entry
    BY Places
  <2> QED BY <2>1 DEF Entry, Login
<1>1. CASE draft.id = 0
  <2>1. [draft EXCEPT !.id = 0] \in Entry
    BY <1>0 DEF Entry
  <2>2. next = Append(entries, [draft EXCEPT !.id = 0])
    BY <1>1 DEF UpsertDraft
  <2> HIDE DEF draft, next
  <2>3. next \in Seq(Entry) /\ KeysOf(entries) \subseteq KeysOf(next)
    BY <2>1, <2>2, AppendKeeps
  <2> QED BY <2>3 DEF next, draft
<1>2. CASE draft.id # 0
  <2>1. next = [j \in DOMAIN entries |-> IF entries[j].id = draft.id THEN draft ELSE entries[j]]
    BY <1>2 DEF UpsertDraft
  <2>2. draft \in Entry /\ draft.id = entries[i].id
    BY <1>0 DEF Entry
  <2> HIDE DEF draft, next
  <2>3. next \in [DOMAIN entries -> Entry]
    BY <2>1, <2>2, Places
  <2>4. next \in Seq(Entry) /\ DOMAIN next = DOMAIN entries
    BY <2>3, SameLength
  <2>5. ASSUME NEW j \in DOMAIN entries, j # i PROVE entries[j].key \in KeysOf(next)
    <3>1. entries[j].id # draft.id
      BY <2>2, <2>5, SealableIds
    <3>2. next[j] = entries[j]
      BY <2>1, <3>1
    <3> QED BY <2>4, <3>2 DEF KeysOf
  <2>6. KeysOf(entries) \subseteq KeysOf(next) \cup {entries[i].key}
    BY <2>5 DEF KeysOf
  <2> QED BY <2>4, <2>6 DEF next, draft
<1> QED BY <1>1, <1>2

LEMMA RemovalKeeps ==
  ASSUME NEW entries \in Seq(Entry), Sealable(entries), NEW i \in DOMAIN entries
  PROVE  LET next == RemoveEntryById(entries, entries[i].id)
         IN  next \in Seq(Entry) /\ KeysOf(entries) \subseteq KeysOf(next) \cup {entries[i].key}
<1> DEFINE places == {j \in DOMAIN entries : entries[j].id # entries[i].id}
           next == KeepAt(entries, places)
<1>1. RemoveEntryById(entries, entries[i].id) = next
  BY DEF RemoveEntryById
<1>2. KeptOf(next, Entry, entries, places, Len(entries))
  BY KeepAtIs
<1>3. \A j \in DOMAIN entries : j # i => j \in places
  BY SealableIds
<1> HIDE DEF places, next
<1>4. DOMAIN entries = 1 .. Len(entries)
  BY Places
<1>5. next \in Seq(Entry) /\ DOMAIN next = 1 .. Len(next)
  BY <1>2, Places DEF KeptOf
<1>6. ASSUME NEW j \in DOMAIN entries, j # i PROVE entries[j].key \in KeysOf(next)
  <2>1. PICK k \in DOMAIN next : next[k] = entries[j]
    BY <1>2, <1>3, <1>4, <1>5, <1>6 DEF KeptOf
  <2> QED BY <2>1 DEF KeysOf
<1>7. KeysOf(entries) \subseteq KeysOf(next) \cup {entries[i].key}
  BY <1>6 DEF KeysOf
<1> QED BY <1>1, <1>5, <1>7

LEMMA DemoKeeps ==
  ASSUME NEW entries \in Seq(Entry), NEW newId \in Nat
  PROVE  LET next == WithDemo(entries, Demo, newId)
         IN  next \in Seq(Entry) /\ KeysOf(entries) \subseteq KeysOf(next)
<1>1. [id |-> newId, key |-> Demo.key, pw |-> Demo.pw] \in Entry
  BY DeskAssumption DEF Login, Entry
<1> QED BY <1>1, AppendKeeps DEF WithDemo

LEMMA ConcatKeeps ==
  ASSUME NEW entries \in Seq(Entry), NEW more \in Seq(Entry)
  PROVE  entries \o more \in Seq(Entry) /\ KeysOf(entries) \subseteq KeysOf(entries \o more)
<1> DEFINE next == entries \o more
<1>1. /\ next \in Seq(Entry) /\ Len(next) = Len(entries) + Len(more)
      /\ \A i \in 1 .. Len(entries) : next[i] = entries[i]
  BY ConcatProperties
<1> HIDE DEF next
<1>2. /\ Len(entries) \in Nat /\ DOMAIN entries = 1 .. Len(entries) /\ Len(more) \in Nat
      /\ DOMAIN next = 1 .. Len(entries) + Len(more)
  BY <1>1, Places
<1>3. \A i \in DOMAIN entries : i \in DOMAIN next /\ next[i] = entries[i]
  BY <1>1, <1>2
<1>4. KeysOf(entries) \subseteq KeysOf(next)
  BY <1>3 DEF KeysOf
<1> QED BY <1>1, <1>4 DEF next

LEMMA MergeKeeps ==
  ASSUME NEW entries \in Seq(Entry), NEW more \in Seq(Entry)
  PROVE  /\ MergeImportedLogins(entries, more) \in Seq(Entry)
         /\ KeysOf(entries) \subseteq KeysOf(MergeImportedLogins(entries, more))
<1>1. PICK merged : merged = MergeImportedLogins(entries, more)
  OBVIOUS
<1>2. merged \in Seq(Entry) /\ KeysOf(merged) = KeysOf(entries) \cup KeysOf(more)
  BY <1>1, MergeByHostAndUser
<1> QED BY <1>1, <1>2

LEMMA ImportKeeps ==
  ASSUME NEW entries \in Seq(Entry), NEW chosen \in Seq(Entry), NEW source
  PROVE  /\ MergeImport(entries, chosen, source) \in Seq(Entry)
         /\ KeysOf(entries) \subseteq KeysOf(MergeImport(entries, chosen, source))
BY MergeKeeps, ConcatKeeps DEF MergeImport

(***************************************************************************)
(* The desk                                                                *)
(***************************************************************************)
\* What an operation under way has to do with the newest revision of the vault: until it
\* is sent it holds the logins that were read, whether or not a Lock has blanked them; the
\* list it sends keeps every login of the revision it was made on, except those it is to
\* drop; and once it has landed its list is what was committed.
FitsHead(op, rev, entries) ==
  /\ op \in Op /\ op.base <= rev /\ Sealable(op.next)
  /\ op.phase = "found" => op.source \in Vaults
  /\ op.phase \in {"begun", "found"} /\ op.base = rev => KeysOf(entries) \subseteq KeysOf(op.next)
  /\ op.phase \in {"sent", "left"} /\ op.base = rev =>
       op.lag \/ KeysOf(entries) \subseteq KeysOf(op.next) \cup op.drops
  /\ op.phase \in {"landed", "opened"} =>
       op.base < rev /\ (op.base + 1 = rev => op.next = entries)

Page == [up : BOOLEAN, email : BOOLEAN, token : Nat, known : SUBSET owned, leftover : BOOLEAN]

Revision(r, most) ==
  r \in [rev : 0 .. most, entries : Seq(Entry), key : Nat] /\ Sealable(r.entries)

HeadOK ==
  /\ head \in [rev : 1 .. MaxRevision, entries : Seq(Entry), lost : BOOLEAN]
  /\ Sealable(head.entries)
AccountOK == owned \subseteq Vaults /\ page \in Page
HeldOK ==
  /\ Revision(vault, head.rev) /\ Revision(shown, head.rev)
  /\ vault.rev = head.rev => vault.entries = head.entries
OpsOK ==
  /\ DOMAIN ops = Slots
  /\ \A s \in Slots : ops[s] = None \/ FitsHead(ops[s], head.rev, head.entries)

DeskInv == HeadOK /\ AccountOK /\ HeldOK /\ OpsOK

(***************************************************************************)
(* The steps of the desk                                                   *)
(***************************************************************************)
LEMMA HeadIs ==
  ASSUME HeadOK
  PROVE  /\ head.rev \in Nat /\ head.rev > 0 /\ head.rev <= MaxRevision
         /\ head.entries \in Seq(Entry) /\ Sealable(head.entries)
BY DeskAssumption DEF HeadOK

LEMMA HeldIs ==
  ASSUME HeadOK, HeldOK
  PROVE  /\ vault.rev \in Nat /\ vault.rev <= head.rev /\ vault.key \in Nat
         /\ vault.entries \in Seq(Entry) /\ Sealable(vault.entries)
         /\ shown.entries \in Seq(Entry) /\ Sealable(shown.entries)
BY HeadIs DEF HeldOK, Revision

\* One operation begins, goes on or ends, the others and the vault stay.
LEMMA OneMoves ==
  ASSUME OpsOK, NEW slot \in Slots, NEW op, ops' = [ops EXCEPT ![slot] = op],
         op = None \/ FitsHead(op, head.rev, head.entries), UNCHANGED head
  PROVE  OpsOK'
<1>1. DOMAIN ops' = Slots
  BY DEF OpsOK
<1>2. ASSUME NEW s \in Slots PROVE ops'[s] = None \/ FitsHead(ops'[s], head.rev, head.entries)
  <2>1. ops'[s] = IF s = slot THEN op ELSE ops[s]
    BY DEF OpsOK
  <2> QED BY <2>1 DEF OpsOK
<1> QED BY <1>1, <1>2 DEF OpsOK

\* The vault has a new revision: what was made on an older one no longer fits it, and is
\* not asked to.
LEMMA NewHead ==
  ASSUME NEW op, NEW rev \in Nat, NEW entries, NEW next, FitsHead(op, rev, entries)
  PROVE  FitsHead(op, rev + 1, next)
<1>1. op.base \in Nat /\ op.base <= rev /\ op.base # rev + 1
  BY DEF FitsHead, Op
<1>2. op.phase \in {"landed", "opened"} => op.base < rev
  BY DEF FitsHead
<1>3. op.phase \in {"landed", "opened"} =>
        op.base < rev + 1 /\ (op.base + 1 = rev + 1 => op.next = next)
  BY <1>1, <1>2
<1>4. op.base <= rev + 1
  BY <1>1
<1> QED BY <1>1, <1>3, <1>4 DEF FitsHead

LEMMA SameDesk ==
  ASSUME UNCHANGED <<head, owned, page, vault, shown>>, HeadOK, AccountOK, HeldOK
  PROVE  HeadOK' /\ AccountOK' /\ HeldOK'
BY DEF HeadOK, AccountOK, HeldOK, Page, Revision

LEMMA SaveStep ==
  ASSUME DeskInv, NEW slot \in Slots, NEW next \in Seq(Entry), NEW drops \in SUBSET Key, NEW core \in Nat,
         KeysOf(shown.entries) \subseteq KeysOf(next) \cup drops,
         SaveEntries(slot, next, drops, core)
  PROVE  DeskInv'
<1> DEFINE op == [phase |-> "sent", base |-> vault.rev, key |-> vault.key, next |-> next,
                  drops |-> drops, lag |-> shown.entries # vault.entries, core |-> core,
                  source |-> None]
<1>1. vault.rev \in Nat /\ vault.rev <= head.rev /\ vault.key \in Nat
  BY HeldIs DEF DeskInv
<1>2. op \in Op
  BY <1>1 DEF Op
<1>3. op.base = head.rev => op.lag \/ KeysOf(head.entries) \subseteq KeysOf(op.next) \cup op.drops
  <2>1. CASE shown.entries = vault.entries /\ vault.rev = head.rev
    <3>1. head.entries = shown.entries
      BY <2>1 DEF DeskInv, HeldOK
    <3> QED BY <3>1
  <2>2. CASE shown.entries # vault.entries
    BY <2>2
  <2> QED BY <2>1, <2>2
<1>4. Sealable(op.next)
  BY DEF SaveEntries
<1>5. op.phase = "sent" /\ op.base = vault.rev
  OBVIOUS
<1>6. ops' = [ops EXCEPT ![slot] = op] /\ UNCHANGED <<head, owned, page, vault, shown>>
  BY DEF SaveEntries
<1> HIDE DEF op
<1>7. FitsHead(op, head.rev, head.entries)
  BY <1>1, <1>2, <1>3, <1>4, <1>5 DEF FitsHead
<1>8. OpsOK'
  BY <1>6, <1>7, OneMoves DEF DeskInv
<1> QED BY <1>6, <1>8, SameDesk DEF DeskInv

LEMMA ButtonsStep ==
  ASSUME DeskInv, NEW core \in Nat,
         \/ \E draft \in Drafts :
              \/ SaveNew(draft, core)
              \/ \E i \in DOMAIN shown.entries : Save(shown.entries[i], draft, core)
         \/ \E i \in DOMAIN shown.entries : RemoveEntry(shown.entries[i], core)
         \/ SeedAccessDemo(core) \/ ToggleFavorite(core) \/ EnsureDemoLogin(core)
  PROVE  DeskInv'
<1>0. /\ shown.entries \in Seq(Entry) /\ Sealable(shown.entries) /\ NewId(vault.rev, 1) \in Nat
      /\ Drafts \subseteq Login /\ Demo \in Login /\ "form" \in Slots /\ "star" \in Slots
      /\ {} \in SUBSET Key /\ \A i \in DOMAIN shown.entries : {shown.entries[i].key} \in SUBSET Key
  <2>1. \A i \in DOMAIN shown.entries : shown.entries[i] \in Entry
    BY HeldIs, Places DEF DeskInv
  <2>2. NewId(vault.rev, 1) \in Nat
    BY HeldIs DEF DeskInv, NewId
  <2> QED BY <2>1, <2>2, HeldIs, DeskAssumption DEF DeskInv, Slots, Entry
<1>1. ASSUME NEW draft \in Login,
             SaveEntries("form", UpsertDraft(shown.entries, [id |-> 0, key |-> draft.key, pw |-> draft.pw],
                                             NewId(vault.rev, 1)), {}, core)
      PROVE  DeskInv'
  <2>1. PICK next : next = UpsertDraft(shown.entries, [id |-> 0, key |-> draft.key, pw |-> draft.pw],
                                       NewId(vault.rev, 1))
    OBVIOUS
  <2>2. next \in Seq(Entry) /\ KeysOf(shown.entries) \subseteq KeysOf(next) \cup {}
    BY <1>0, <2>1, NewEntryKeeps
  <2> QED BY <1>0, <1>1, <2>1, <2>2, SaveStep
<1>2. ASSUME NEW draft \in Login, NEW i \in DOMAIN shown.entries, Save(shown.entries[i], draft, core)
      PROVE  DeskInv'
  <2>1. PICK next : next = UpsertDraft(shown.entries,
                             [id |-> shown.entries[i].id, key |-> draft.key, pw |-> draft.pw], 0)
    OBVIOUS
  <2>2. next \in Seq(Entry) /\ KeysOf(shown.entries) \subseteq KeysOf(next) \cup {shown.entries[i].key}
    BY <1>0, <2>1, EditKeeps
  <2>3. SaveEntries("form", next, {shown.entries[i].key}, core)
    BY <1>2, <2>1 DEF Save
  <2> QED BY <1>0, <2>2, <2>3, SaveStep
<1>3. ASSUME NEW i \in DOMAIN shown.entries, RemoveEntry(shown.entries[i], core)
      PROVE  DeskInv'
  <2>1. PICK next : next = RemoveEntryById(shown.entries, shown.entries[i].id)
    OBVIOUS
  <2>2. next \in Seq(Entry) /\ KeysOf(shown.entries) \subseteq KeysOf(next) \cup {shown.entries[i].key}
    BY <1>0, <2>1, RemovalKeeps
  <2>3. SaveEntries("form", next, {shown.entries[i].key}, core)
    BY <1>3, <2>1 DEF RemoveEntry
  <2> QED BY <1>0, <2>2, <2>3, SaveStep
<1>4. ASSUME ToggleFavorite(core) PROVE DeskInv'
  <2>1. SaveEntries("star", shown.entries, {}, core)
    BY <1>4 DEF ToggleFavorite
  <2> QED BY <1>0, <2>1, SaveStep
<1>5. ASSUME EnsureDemoLogin(core) PROVE DeskInv'
  <2>1. PICK next : next = WithDemo(shown.entries, Demo, NewId(vault.rev, 1))
    OBVIOUS
  <2>2. next \in Seq(Entry) /\ KeysOf(shown.entries) \subseteq KeysOf(next) \cup {}
    BY <1>0, <2>1, DemoKeeps
  <2>3. SaveEntries("star", next, {}, core)
    BY <1>5, <2>1 DEF EnsureDemoLogin
  <2> QED BY <1>0, <2>2, <2>3, SaveStep
<1> QED BY <1>0, <1>1, <1>2, <1>3, <1>4, <1>5 DEF SaveNew, SeedAccessDemo

LEMMA ImportStep ==
  ASSUME DeskInv, NEW core \in Nat, NEW T, \A login \in T : login.key \in Key /\ login.pw \in Text,
         NEW logins \in Seq(T), NEW source, Import(source, logins, core)
  PROVE  DeskInv'
<1>1. PICK picked \in SUBSET DOMAIN logins : ConfirmImport(source, logins, picked, core)
  BY DEF Import
<1>2. PICK pending : pending = WithNewIds(logins)
  OBVIOUS
<1>3. PICK chosen : chosen = SelectedImportEntries(pending, {pending[i].id : i \in picked})
  OBVIOUS
<1>4. PICK next : next = MergeImport(shown.entries, chosen, source)
  OBVIOUS
<1>5. SaveEntries("form", next, {}, core)
  BY <1>1, <1>2, <1>3, <1>4 DEF ConfirmImport
<1>6. shown.entries \in Seq(Entry) /\ vault.rev \in Nat
  BY HeldIs DEF DeskInv
<1>7. pending \in Seq(Entry)
  BY <1>2, <1>6, NewIdsType
<1>8. chosen \in Seq(Entry)
  BY <1>3, <1>7, KeptTypes DEF SelectedImportEntries
<1>9. next \in Seq(Entry) /\ KeysOf(shown.entries) \subseteq KeysOf(next) \cup {}
  BY <1>4, <1>6, <1>8, ImportKeeps
<1> QED BY <1>5, <1>9, SaveStep DEF Slots

LEMMA ImportsStep ==
  ASSUME DeskInv, NEW core \in Nat,
         \/ \E file \in Files : ImportFile(file, core)
         \/ \E rows \in BrowserRows : IngestBrowserLogins(rows, core)
         \/ OpenShare(core)
  PROVE  DeskInv'
<1>1. \A login \in Takeable : login.key \in Key /\ login.pw \in Text
  BY DEF Takeable
<1>2. ASSUME NEW file \in Files, ImportFile(file, core) PROVE DeskInv'
  <2>1. ParsePlaintextExport(file) \in Seq(Takeable)
    BY ParsersType
  <2> QED BY <1>1, <1>2, <2>1, ImportStep DEF ImportFile
<1>3. ASSUME NEW rows \in BrowserRows, IngestBrowserLogins(rows, core) PROVE DeskInv'
  <2>1. rows \in Seq(FileRow)
    BY DeskAssumption
  <2>2. EntriesFromBrowserLogins(rows) \in Seq(Takeable)
    BY <2>1, ClassifiedTypes, UsableTypes DEF EntriesFromBrowserLogins
  <2> QED BY <1>1, <1>3, <2>2, ImportStep DEF IngestBrowserLogins
<1>4. ASSUME OpenShare(core) PROVE DeskInv'
  <2>1. SharedLogins \in Seq(Login) /\ \A login \in Login : login.key \in Key /\ login.pw \in Text
    BY DeskAssumption DEF Login
  <2> QED BY <1>4, <2>1, ImportStep DEF OpenShare
<1> QED BY <1>2, <1>3, <1>4

LEMMA ClosedIsOne == ASSUME NEW most \in Nat PROVE Revision(Closed, most)
<1>1. <<>> \in Seq(Entry) /\ Len(<<>>) = 0 /\ DOMAIN <<>> = {}
  OBVIOUS
<1>2. Ids(<<>>) = {}
  BY <1>1 DEF Ids
<1>3. Cardinality({}) = 0
  BY FS_EmptySet
<1>4. Sealable(<<>>)
  BY <1>1, <1>2, <1>3 DEF Sealable
<1> QED BY <1>1, <1>4 DEF Revision, Closed, Zeros

LEMMA LeavesHeld ==
  ASSUME HeadOK, Leaves, UNCHANGED head
  PROVE  HeldOK'
<1>1. Revision(Closed, head.rev) /\ head.rev > 0
  BY HeadIs, ClosedIsOne
<1>2. Closed.rev = 0
  BY DEF Closed
<1> QED BY <1>1, <1>2 DEF Leaves, HeldOK

LEMMA SameOps ==
  ASSUME OpsOK, UNCHANGED <<head, ops>>
  PROVE  OpsOK'
BY DEF OpsOK

\* A list that a Lock has blanked is as good to seal, and has the same logins.
LEMMA BlankedKeeps ==
  ASSUME NEW entries \in Seq(Entry), Sealable(entries)
  PROVE  /\ Blanked(entries) \in Seq(Entry) /\ Sealable(Blanked(entries))
         /\ KeysOf(Blanked(entries)) = KeysOf(entries)
<1> DEFINE blank == Blanked(entries)
<1>1. /\ Len(entries) \in Nat /\ DOMAIN entries = 1 .. Len(entries)
      /\ \A i \in DOMAIN entries : entries[i] \in Entry
  BY Places
<1>2. DOMAIN blank = 1 .. Len(entries)
  BY <1>1 DEF Blanked
<1>3. ASSUME NEW i \in 1 .. Len(entries)
      PROVE  blank[i] \in Entry /\ blank[i].id = entries[i].id /\ blank[i].key = entries[i].key
  <2>1. PICK e : e = entries[i]
    OBVIOUS
  <2>2. blank[i] = [e EXCEPT !.pw = NoText]
    BY <1>1, <2>1 DEF Blanked
  <2>3. e \in Entry /\ NoText \in Text
    BY <1>1, <2>1, NoTextIsText
  <2> QED BY <2>1, <2>2, <2>3 DEF Entry
<1>4. blank \in [1 .. Len(entries) -> Entry]
  BY <1>1, <1>3 DEF Blanked
<1> HIDE DEF blank
<1>5. blank \in Seq(Entry) /\ Len(blank) = Len(entries)
  BY <1>1, <1>4
<1>6. Ids(blank) = Ids(entries) /\ KeysOf(blank) = KeysOf(entries)
  BY <1>1, <1>2, <1>3 DEF Ids, KeysOf
<1>7. Sealable(blank)
  BY <1>5, <1>6 DEF Sealable
<1>8. blank = Blanked(entries)
  BY DEF blank
<1> QED BY <1>5, <1>6, <1>7, <1>8

\* A Lock takes secrets and the key from an operation under way, but no login.
LEMMA LockedFits ==
  ASSUME HeadOK, NEW op, FitsHead(op, head.rev, head.entries), NEW opened \in BOOLEAN,
         opened => op.phase = "landed"
  PROVE  FitsHead(LockedOp(op, opened), head.rev, head.entries)
<1>1. op \in Op /\ op.next \in Seq(Entry) /\ Sealable(op.next)
  BY DEF FitsHead, Op
<1>2. PICK bare : bare = IF op.base = vault.rev THEN [op EXCEPT !.next = Blanked(@)] ELSE op
  OBVIOUS
<1>3. PICK blank : blank = Blanked(op.next)
  OBVIOUS
<1>4. blank \in Seq(Entry) /\ Sealable(blank) /\ KeysOf(blank) = KeysOf(op.next)
  BY <1>1, <1>3, BlankedKeeps
<1>5. /\ bare \in Op /\ bare.phase = op.phase /\ bare.base = op.base /\ Sealable(bare.next)
      /\ bare.source = op.source /\ KeysOf(bare.next) = KeysOf(op.next)
  <2>1. CASE op.base = vault.rev
    <3>1. bare = [op EXCEPT !.next = blank]
      BY <1>2, <1>3, <2>1
    <3> QED BY <1>1, <1>4, <3>1 DEF Op
  <2>2. CASE op.base # vault.rev
    BY <1>1, <1>2, <2>2
  <2> QED BY <2>1, <2>2
<1>6. PICK locked : locked = LockedOp(op, opened)
  OBVIOUS
<1>7. CASE locked = op
  BY <1>6, <1>7
<1>8. CASE op.phase \in {"begun", "found"} /\ locked = [bare EXCEPT !.key = Zeros]
  <2>1. /\ locked \in Op /\ locked.phase = op.phase /\ locked.base = op.base
        /\ Sealable(locked.next) /\ locked.source = op.source /\ KeysOf(locked.next) = KeysOf(op.next)
    BY <1>5, <1>8 DEF Op, Zeros
  <2>2. FitsHead(locked, head.rev, head.entries)
    BY <1>8, <2>1 DEF FitsHead
  <2> QED BY <1>6, <2>2
<1>9. CASE opened /\ locked = [op EXCEPT !.phase = "opened", !.key = Zeros]
  <2>1. PICK answer : answer = [op EXCEPT !.phase = "opened"]
    OBVIOUS
  <2>2. /\ answer \in Op /\ answer.phase = "opened" /\ answer.base = op.base /\ answer.next = op.next
    BY <1>1, <2>1 DEF Op
  <2>3. locked = [answer EXCEPT !.key = Zeros]
    BY <1>1, <1>9, <2>1
  <2>4. /\ locked \in Op /\ locked.phase = "opened" /\ locked.base = op.base /\ locked.next = op.next
    BY <2>2, <2>3 DEF Op, Zeros
  <2>5. FitsHead(locked, head.rev, head.entries)
    BY <1>9, <2>4 DEF FitsHead
  <2> QED BY <1>6, <2>5
<1>10. CASE op.phase \notin {"begun", "found"} /\ locked = [op EXCEPT !.phase = "left"]
  <2>1. /\ locked \in Op /\ locked.phase = "left" /\ locked.base = op.base /\ locked.next = op.next
        /\ locked.drops = op.drops /\ locked.lag = op.lag
    BY <1>1, <1>10 DEF Op
  <2>2. op.phase \in {"sent", "left", "landed", "opened"}
    BY <1>1, <1>10 DEF Op
  <2>3. head.rev \in Nat /\ op.base \in Nat
    BY <1>1, HeadIs DEF Op
  <2>4. FitsHead(locked, head.rev, head.entries)
    BY <2>1, <2>2, <2>3 DEF FitsHead
  <2> QED BY <1>6, <2>4
<1>11. CASE op.key # vault.key
  BY <1>6, <1>7, <1>11 DEF LockedOp
<1>12. CASE op.key = vault.key /\ op.phase \in {"begun", "found"}
  <2>1. locked = [bare EXCEPT !.key = Zeros]
    BY <1>2, <1>6, <1>12, Zenon DEF LockedOp
  <2> QED BY <1>8, <1>12, <2>1
<1>13. CASE op.key = vault.key /\ op.phase \notin {"begun", "found"}
  <2>1. locked \in {op, IF opened THEN [op EXCEPT !.phase = "opened", !.key = Zeros]
                                 ELSE [op EXCEPT !.phase = "left"]}
    BY <1>6, <1>13 DEF LockedOp
  <2> QED BY <1>7, <1>9, <1>10, <1>13, <2>1
<1> QED BY <1>11, <1>12, <1>13

\* Locking, with whatever is under way.
LEMMA LocksStep ==
  ASSUME HeadOK, HeldOK, OpsOK, Locks, UNCHANGED head
  PROVE  HeldOK' /\ OpsOK'
<1>1. CASE UNCHANGED <<vault, shown, ops>>
  BY <1>1, SameOps DEF HeldOK, Revision
<1>2. CASE /\ Leaves
           /\ \E opened \in SUBSET {s \in Slots : PhaseOf(s, "landed")} :
                ops' = [s \in Slots |->
                          IF ops[s] = None THEN None ELSE LockedOp(ops[s], s \in opened)]
  <2>1. PICK opened \in SUBSET {s \in Slots : PhaseOf(s, "landed")} :
          ops' = [s \in Slots |-> IF ops[s] = None THEN None ELSE LockedOp(ops[s], s \in opened)]
    BY <1>2
  <2>2. ASSUME NEW s \in Slots, ops[s] # None
        PROVE  FitsHead(ops'[s], head.rev, head.entries)
    <3>1. PICK answered \in BOOLEAN : answered = (s \in opened)
      <4>1. (s \in opened) \in BOOLEAN
        OBVIOUS
      <4> QED BY <4>1, Zenon
    <3>2. PICK op : op = ops[s]
      OBVIOUS
    <3>3. FitsHead(op, head.rev, head.entries) /\ (answered => op.phase = "landed")
      BY <2>1, <2>2, <3>1, <3>2 DEF OpsOK, PhaseOf
    <3>4. ops'[s] = LockedOp(op, answered)
      <4>1. ops'[s] = LockedOp(ops[s], s \in opened)
        BY <2>1, <2>2, Zenon
      <4> QED BY <3>1, <3>2, <4>1, Zenon
    <3> QED BY <3>3, <3>4, LockedFits
  <2>3. \A s \in Slots : ops[s] = None => ops'[s] = None
    BY <2>1
  <2>4. DOMAIN ops' = Slots
    BY <2>1
  <2>5. OpsOK'
    BY <2>2, <2>3, <2>4 DEF OpsOK
  <2> QED BY <1>2, <2>5, LeavesHeld
<1> QED BY <1>1, <1>2, Zenon DEF Locks

LEMMA AccountStep ==
  ASSUME DeskInv, NEW core \in Nat,
         PageStarts(core) \/ (\E listed \in BOOLEAN : SignIn(core, listed)) \/ SignOut(core)
  PROVE  DeskInv'
<1>1. page \in Page /\ owned \subseteq Vaults
  BY DEF DeskInv, AccountOK
<1>2. ASSUME PageStarts(core) PROVE DeskInv'
  <2>1. page' \in Page
    <3>1. NoPage \in Page
      BY DEF NoPage, Page, NoToken
    <3>2. PICK left \in BOOLEAN : page' = [NoPage EXCEPT !.up = TRUE, !.leftover = left]
      <4>1. page' = [NoPage EXCEPT !.up = TRUE, !.leftover = core # 0 /\ LocalVault \notin owned]
        BY <1>2, Zenon DEF PageStarts
      <4>2. (core # 0 /\ LocalVault \notin owned) \in BOOLEAN
        OBVIOUS
      <4> QED BY <4>1, <4>2, Zenon
    <3> QED BY <3>1, <3>2 DEF Page
  <2>2. UNCHANGED <<head, owned, vault, shown, ops>>
    BY <1>2 DEF PageStarts
  <2> QED BY <2>1, <2>2, SameOps DEF DeskInv, HeadOK, AccountOK, HeldOK, Page, Revision
<1>3. ASSUME NEW listed \in BOOLEAN, SignIn(core, listed) PROVE DeskInv'
  <2>1. page' \in Page
    <3>1. PICK known \in SUBSET owned : page' = [page EXCEPT !.email = TRUE, !.token = core, !.known = known]
      <4>1. page' = [page EXCEPT !.email = TRUE, !.token = core, !.known = IF listed THEN owned ELSE {}]
        BY <1>3, Zenon DEF SignIn
      <4>2. (IF listed THEN owned ELSE {}) \in SUBSET owned
        OBVIOUS
      <4> QED BY <4>1, <4>2, Zenon
    <3> QED BY <1>1, <3>1 DEF Page
  <2>2. UNCHANGED <<head, owned, vault, shown, ops>>
    BY <1>3, Zenon DEF SignIn
  <2> QED BY <2>1, <2>2, SameOps DEF DeskInv, HeadOK, AccountOK, HeldOK, Page, Revision
<1>4. ASSUME SignOut(core) PROVE DeskInv'
  <2>1. page' \in Page
    <3>1. PICK email \in BOOLEAN, known \in SUBSET owned :
            page' = [page EXCEPT !.token = NoToken, !.email = email, !.known = known]
      <4>1. page.known \in SUBSET owned
        BY <1>1 DEF Page
      <4>2. page' = [page EXCEPT !.token = NoToken, !.email = ~Answers(core),
                                 !.known = IF Answers(core) THEN {} ELSE page.known]
        BY <1>4, Zenon DEF SignOut
      <4>3. Answers(core) \in BOOLEAN /\ (IF Answers(core) THEN {} ELSE page.known) \in SUBSET owned
        BY <4>1 DEF Answers
      <4>4. (~Answers(core)) \in BOOLEAN
        OBVIOUS
      <4> QED BY <4>2, <4>3, <4>4, Zenon
    <3> QED BY <1>1, <3>1 DEF Page, NoToken
  <2>2. Locks /\ UNCHANGED <<head, owned>>
    BY <1>4 DEF SignOut
  <2>3. HeldOK' /\ OpsOK'
    BY <2>2, LocksStep DEF DeskInv
  <2> QED BY <1>1, <2>1, <2>2, <2>3 DEF DeskInv, HeadOK, AccountOK, Page
<1> QED BY <1>2, <1>3, <1>4

LEMMA ViewStep ==
  ASSUME DeskInv, NEW core \in Nat,
         (\E key \in 1 .. MaxInFlight + 1 : Unlock(core, key)) \/ LockPage \/ Render
  PROVE  DeskInv'
<1>1. ASSUME NEW key \in 1 .. MaxInFlight + 1, Unlock(core, key) PROVE DeskInv'
  <2>1. PICK opened : opened = [rev |-> head.rev, entries |-> head.entries, key |-> key]
    OBVIOUS
  <2>2. vault' = opened /\ shown' = opened /\ UNCHANGED <<head, owned, page, ops>>
    BY <1>1, <2>1 DEF Unlock
  <2>3. Revision(opened, head.rev) /\ opened.entries = head.entries
    BY <2>1, HeadIs, DeskAssumption DEF DeskInv, Revision
  <2>4. HeldOK'
    BY <2>2, <2>3 DEF HeldOK
  <2> QED BY <2>2, <2>4, SameOps DEF DeskInv, HeadOK, AccountOK, Page
<1>2. CASE LockPage
  <2>1. Locks /\ UNCHANGED <<head, owned, page>>
    BY <1>2 DEF LockPage
  <2>2. HeldOK' /\ OpsOK'
    BY <2>1, LocksStep DEF DeskInv
  <2> QED BY <2>1, <2>2 DEF DeskInv, HeadOK, AccountOK, Page
<1>3. CASE Render
  <2>1. shown' = vault /\ UNCHANGED <<head, owned, page, vault, ops>>
    BY <1>3 DEF Render
  <2>2. HeldOK'
    BY <2>1 DEF DeskInv, HeldOK
  <2> QED BY <2>1, <2>2, SameOps DEF DeskInv, HeadOK, AccountOK, Page
<1> QED BY <1>1, <1>2, <1>3

LEMMA ClosesStep ==
  ASSUME DeskInv, PageCloses
  PROVE  DeskInv'
<1>1. HeldOK'
  BY LeavesHeld DEF DeskInv, PageCloses
<1>2. HeadOK' /\ AccountOK'
  <2>1. NoPage \in Page
    BY DEF NoPage, Page, NoToken
  <2> QED BY <2>1 DEF DeskInv, PageCloses, HeadOK, AccountOK, Page
<1>3. OpsOK'
  <2>1. ASSUME NEW s \in Slots PROVE ops'[s] = None \/ FitsHead(ops'[s], head.rev, head.entries)
    <3>1. CASE ops[s] # None /\ ops[s].phase \in {"sent", "left"}
      <4>1. PICK op : op = ops[s]
        OBVIOUS
      <4>2. FitsHead(op, head.rev, head.entries) /\ op.phase \in {"sent", "left"}
        BY <3>1, <4>1 DEF DeskInv, OpsOK
      <4>3. PICK left : left = [op EXCEPT !.phase = "left"]
        OBVIOUS
      <4>4. op \in Op
        BY <4>2 DEF FitsHead
      <4>5. /\ left \in Op /\ left.phase = "left" /\ left.base = op.base /\ left.next = op.next
            /\ left.drops = op.drops /\ left.lag = op.lag
        BY <4>3, <4>4 DEF Op
      <4>6. FitsHead(left, head.rev, head.entries)
        BY <4>2, <4>5 DEF FitsHead
      <4>7. ops'[s] = left
        BY <3>1, <4>1, <4>3 DEF PageCloses
      <4> QED BY <4>6, <4>7
    <3>2. CASE ~(ops[s] # None /\ ops[s].phase \in {"sent", "left"})
      BY <3>2 DEF PageCloses
    <3> QED BY <3>1, <3>2
  <2>2. DOMAIN ops' = Slots /\ UNCHANGED head
    BY DEF PageCloses
  <2> QED BY <2>1, <2>2 DEF OpsOK
<1> QED BY <1>1, <1>2, <1>3 DEF DeskInv

\* The first other vault is one of the vaults.
LEMMA SourceIsOne ==
  ASSUME LocalVault \in owned
  PROVE  Keep(LAMBDA v : v \in owned, Elder)[1] \in Vaults
<1> DEFINE places == {i \in DOMAIN Elder : Elder[i] \in owned}
           kept == KeepAt(Elder, places)
<1>1. Elder \in Seq(STRING) /\ DOMAIN Elder = 1 .. Len(Elder) /\ Len(Elder) \in Nat
  BY DeskAssumption, Places
<1>2. KeptOf(kept, STRING, Elder, places, Len(Elder))
  BY <1>1, KeepAtIs
<1>3. PICK i \in DOMAIN Elder : Elder[i] = LocalVault
  BY DeskAssumption DEF Vaults
<1>4. i \in (1 .. Len(Elder)) \cap places
  BY <1>1, <1>3
<1>5. Keep(LAMBDA v : v \in owned, Elder) = kept
  BY DEF Keep
<1> HIDE DEF kept, places
<1>6. kept \in Seq(STRING) /\ Len(kept) \in Nat
  BY <1>2, LenProperties DEF KeptOf
<1>7. \E j \in 1 .. Len(kept) : kept[j] = Elder[i]
  BY <1>2, <1>4 DEF KeptOf
<1>8. 1 \in 1 .. Len(kept)
  BY <1>6, <1>7
<1>9. PICK k \in (1 .. Len(Elder)) \cap places : kept[1] = Elder[k]
  BY <1>2, <1>8 DEF KeptOf
<1>10. kept[1] \in Vaults
  BY <1>1, <1>9 DEF Vaults
<1> QED BY <1>5, <1>10

LEMMA PullStep ==
  ASSUME DeskInv, NEW core \in Nat,
         PullStarts \/ (\E answered \in BOOLEAN : PullFindsSource(core, answered)) \/ PullDecrypt(core)
           \/ PullFails
  PROVE  DeskInv'
<1>0. /\ vault.rev \in Nat /\ vault.rev <= head.rev /\ vault.key \in Nat /\ vault.entries \in Seq(Entry)
      /\ Sealable(vault.entries) /\ "pull" \in Slots /\ DOMAIN ops = Slots
      /\ HeadOK /\ AccountOK /\ HeldOK /\ OpsOK
  BY HeldIs DEF DeskInv, Slots, OpsOK
<1>1. CASE PullStarts
  <2> DEFINE op == [phase |-> "begun", base |-> vault.rev, key |-> vault.key,
                    next |-> vault.entries, drops |-> {}, lag |-> FALSE, core |-> page.token, source |-> None]
  <2>1. page.token \in Nat
    BY <1>0 DEF AccountOK, Page
  <2>2. op \in Op
    BY <1>0, <2>1 DEF Op
  <2>3. op.base = head.rev => KeysOf(head.entries) \subseteq KeysOf(op.next)
    BY <1>0 DEF HeldOK
  <2>4. op.phase = "begun" /\ op.base = vault.rev /\ op.next = vault.entries
    OBVIOUS
  <2>5. ops' = [ops EXCEPT !["pull"] = op] /\ UNCHANGED <<head, owned, page, vault, shown>>
    BY <1>1 DEF PullStarts
  <2> HIDE DEF op
  <2>6. FitsHead(op, head.rev, head.entries)
    BY <1>0, <2>2, <2>3, <2>4 DEF FitsHead
  <2> QED BY <1>0, <2>5, <2>6, OneMoves, SameDesk DEF DeskInv
<1>2. ASSUME NEW answered \in BOOLEAN, PullFindsSource(core, answered) PROVE DeskInv'
  <2>0. UNCHANGED <<head, page, vault, shown>> /\ owned' = owned \cup {LocalVault}
    BY <1>2 DEF PullFindsSource
  <2>1. HeadOK' /\ AccountOK' /\ HeldOK'
    <3>1. owned' \subseteq Vaults /\ owned \subseteq owned'
      BY <1>0, <2>0, DeskAssumption DEF AccountOK
    <3>2. page' \in Page'
      BY <1>0, <2>0, <3>1 DEF AccountOK, Page
    <3> QED BY <1>0, <2>0, <3>1, <3>2 DEF HeadOK, AccountOK, HeldOK, Revision
  <2>2. CASE answered
    <3>1. PICK op : op = ops["pull"]
      OBVIOUS
    <3>2. FitsHead(op, head.rev, head.entries) /\ op.phase = "begun" /\ op \in Op
      <4>1. ops["pull"] # None /\ ops["pull"].phase = "begun"
        BY <1>2, Zenon DEF PullFindsSource, PhaseOf
      <4> QED BY <1>0, <3>1, <4>1 DEF OpsOK, FitsHead
    <3>3. PICK source : source = IF LocalVault \notin owned THEN LocalVault
                                 ELSE Keep(LAMBDA v : v \in owned, Elder)[1]
      OBVIOUS
    <3>4. source \in Vaults
      BY <3>3, SourceIsOne, DeskAssumption
    <3>5. PICK found : found = [phase |-> "found", base |-> op.base, key |-> op.key,
                                next |-> op.next, drops |-> op.drops, lag |-> op.lag, core |-> op.core, source |-> source]
      OBVIOUS
    <3>6. found \in Op
      BY <3>2, <3>4, <3>5 DEF Op
    <3>7. /\ found.phase = "found" /\ found.base = op.base /\ found.next = op.next
          /\ found.source = source
      BY <3>5
    <3>8. FitsHead(found, head.rev, head.entries)
      BY <3>2, <3>4, <3>6, <3>7 DEF FitsHead
    <3>9. ops' = [ops EXCEPT !["pull"] = found]
      <4>1. ops' = [ops EXCEPT !["pull"].phase = "found", !["pull"].source = source]
        BY <1>2, <2>2, <3>3, Zenon DEF PullFindsSource
      <4>2. ops' = [[ops EXCEPT !["pull"] = [op EXCEPT !.phase = "found"]]
                      EXCEPT !["pull"] = [@ EXCEPT !.source = source]]
        BY <1>0, <3>1, <4>1
      <4>3. PICK begun : begun = [op EXCEPT !.phase = "found"]
        OBVIOUS
      <4>4. begun = [phase |-> "found", base |-> op.base, key |-> op.key, next |-> op.next,
                     drops |-> op.drops, lag |-> op.lag, core |-> op.core, source |-> op.source]
        BY <3>2, <4>3 DEF Op
      <4>5. [begun EXCEPT !.source = source] = found
        BY <3>5, <4>4
      <4> QED BY <1>0, <4>2, <4>3, <4>5
    <3> QED BY <1>0, <2>0, <2>1, <3>8, <3>9, OneMoves DEF DeskInv
  <2>3. CASE ~answered
    <3>1. ops' = [ops EXCEPT !["pull"] = None]
      BY <1>2, <2>3 DEF PullFindsSource
    <3> QED BY <1>0, <2>0, <2>1, <3>1, OneMoves DEF DeskInv
  <2> QED BY <2>2, <2>3
<1>3. CASE PullDecrypt(core)
  <2>0. UNCHANGED <<head, owned, page, vault, shown>>
    BY <1>3 DEF PullDecrypt
  <2>1. PICK op : op = ops["pull"]
    OBVIOUS
  <2>2. FitsHead(op, head.rev, head.entries) /\ op.phase = "found" /\ op \in Op
    BY <1>0, <1>3, <2>1 DEF PullDecrypt, PhaseOf, OpsOK, FitsHead
  <2>3. op.next \in Seq(Entry) /\ OtherEntries[op.source] \in Seq(Entry)
    BY <2>2, DeskAssumption DEF FitsHead, Op
  <2>4. PICK merged : merged = MergeImportedLogins(op.next, OtherEntries[op.source])
    OBVIOUS
  <2>5. merged \in Seq(Entry) /\ KeysOf(op.next) \subseteq KeysOf(merged)
    BY <2>3, <2>4, MergeKeeps
  <2>6. CASE Sealable(merged)
    <3>1. PICK sent : sent = [phase |-> "sent", base |-> op.base, key |-> op.key, next |-> merged,
                              drops |-> op.drops, lag |-> op.lag, core |-> core, source |-> op.source]
      OBVIOUS
    <3>2. sent \in Op
      BY <2>2, <2>5, <3>1 DEF Op
    <3>3. sent.phase = "sent" /\ sent.base = op.base /\ sent.next = merged
      BY <3>1
    <3>4. sent.base = head.rev => KeysOf(head.entries) \subseteq KeysOf(sent.next)
      BY <2>2, <2>5, <3>3 DEF FitsHead
    <3>5. FitsHead(sent, head.rev, head.entries)
      BY <2>2, <2>6, <3>2, <3>3, <3>4 DEF FitsHead
    <3>6. ops' = [ops EXCEPT !["pull"] = sent]
      <4>1. ops' = [ops EXCEPT !["pull"].phase = "sent", !["pull"].core = core, !["pull"].next = merged]
        BY <1>3, <2>1, <2>4, <2>6 DEF PullDecrypt
      <4>2. ops' = [[[ops EXCEPT !["pull"] = [op EXCEPT !.phase = "sent"]]
                      EXCEPT !["pull"] = [@ EXCEPT !.core = core]]
                      EXCEPT !["pull"] = [@ EXCEPT !.next = merged]]
        BY <1>0, <2>1, <4>1
      <4>3. PICK goes : goes = [op EXCEPT !.phase = "sent"]
        OBVIOUS
      <4>4. PICK answers : answers = [goes EXCEPT !.core = core]
        OBVIOUS
      <4>5. goes = [phase |-> "sent", base |-> op.base, key |-> op.key, next |-> op.next,
                    drops |-> op.drops, lag |-> op.lag, core |-> op.core, source |-> op.source]
        BY <2>2, <4>3 DEF Op
      <4>6. answers = [phase |-> "sent", base |-> op.base, key |-> op.key, next |-> op.next,
                       drops |-> op.drops, lag |-> op.lag, core |-> core, source |-> op.source]
        BY <4>4, <4>5
      <4>7. [answers EXCEPT !.next = merged] = sent
        BY <3>1, <4>6
      <4> QED BY <1>0, <4>2, <4>3, <4>4, <4>7
    <3> QED BY <1>0, <2>0, <3>5, <3>6, OneMoves, SameDesk DEF DeskInv
  <2>7. CASE ~Sealable(merged)
    <3>1. ops' = [ops EXCEPT !["pull"] = None]
      BY <1>3, <2>1, <2>4, <2>7 DEF PullDecrypt
    <3> QED BY <1>0, <2>0, <3>1, OneMoves, SameDesk DEF DeskInv
  <2> QED BY <2>6, <2>7
<1>4. CASE PullFails
  <2>1. ops' = [ops EXCEPT !["pull"] = None] /\ UNCHANGED <<head, owned, page, vault, shown>>
    BY <1>4 DEF PullFails
  <2> QED BY <1>0, <2>1, OneMoves, SameDesk DEF DeskInv
<1> QED BY <1>1, <1>2, <1>3, <1>4

LEMMA LandsStep ==
  ASSUME DeskInv, NEW slot \in Slots, NEW living, Lands(slot, living)
  PROVE  DeskInv'
<1>0. HeadOK /\ AccountOK /\ HeldOK /\ OpsOK
  BY DEF DeskInv
<1>1. PICK op : op = ops[slot]
  OBVIOUS
<1>2. /\ FitsHead(op, head.rev, head.entries) /\ op \in Op /\ op.phase \in {"sent", "left"}
      /\ op.base = head.rev /\ head.rev < MaxRevision
  BY <1>0, <1>1 DEF Lands, OpsOK, FitsHead
<1>3. PICK lost \in BOOLEAN :
        /\ head' = [rev |-> head.rev + 1, entries |-> op.next, lost |-> lost]
        /\ UNCHANGED <<owned, page, vault, shown>>
  <2>1. PICK lost \in BOOLEAN : lost = (op.key = Zeros)
    OBVIOUS
  <2> QED BY <1>1, <2>1 DEF Lands
<1>4. op.next \in Seq(Entry) /\ Sealable(op.next)
  BY <1>2 DEF FitsHead, Op
<1>5. head.rev \in Nat /\ head.rev > 0 /\ head'.rev = head.rev + 1 /\ head'.entries = op.next
  BY <1>0, <1>3, HeadIs
<1>6. HeadOK'
  BY <1>2, <1>3, <1>4, <1>5, DeskAssumption DEF HeadOK
<1>7. AccountOK'
  BY <1>0, <1>3 DEF AccountOK, Page
<1>8. HeldOK'
  <2>1. vault.rev # head'.rev
    BY <1>0, <1>5, HeldIs
  <2>2. 0 .. head.rev \subseteq 0 .. head'.rev
    BY <1>5
  <2>3. Revision(vault, head'.rev) /\ Revision(shown, head'.rev)
    BY <1>0, <2>2 DEF HeldOK, Revision
  <2>4. vault' = vault /\ shown' = shown
    BY <1>3
  <2> QED BY <2>1, <2>3, <2>4 DEF HeldOK
<1>9. OpsOK'
  <2>1. ASSUME NEW s \in Slots PROVE ops'[s] = None \/ FitsHead(ops'[s], head'.rev, head'.entries)
    <3>1. CASE s = slot /\ op.phase = "left"
      BY <1>0, <1>1, <3>1 DEF Lands, OpsOK
    <3>2. CASE s = slot /\ op.phase # "left"
      <4>1. PICK landed : landed = [op EXCEPT !.phase = "landed"]
        OBVIOUS
      <4>2. ops'[s] = landed
        BY <1>0, <1>1, <3>2, <4>1 DEF Lands, OpsOK
      <4>3. landed \in Op /\ landed.phase = "landed" /\ landed.base = op.base /\ landed.next = op.next
        BY <1>2, <4>1 DEF Op
      <4>4. FitsHead(landed, head'.rev, head'.entries)
        BY <1>2, <1>4, <1>5, <4>3 DEF FitsHead
      <4> QED BY <4>2, <4>4
    <3>3. CASE s # slot
      <4>1. ops'[s] = ops[s]
        BY <1>0, <3>3 DEF Lands, OpsOK
      <4>2. CASE ops[s] = None
        BY <4>1, <4>2
      <4>3. CASE ops[s] # None
        <5>1. FitsHead(ops[s], head.rev, head.entries)
          BY <1>0, <4>3 DEF OpsOK
        <5>2. FitsHead(ops[s], head.rev + 1, op.next)
          BY <1>5, <5>1, NewHead
        <5> QED BY <1>5, <4>1, <5>2
      <4> QED BY <4>2, <4>3
    <3> QED BY <3>1, <3>2, <3>3
  <2>2. DOMAIN ops' = Slots
    BY <1>0 DEF Lands, OpsOK
  <2> QED BY <2>1, <2>2 DEF OpsOK
<1> QED BY <1>6, <1>7, <1>8, <1>9 DEF DeskInv

LEMMA SavedStep ==
  ASSUME DeskInv, NEW slot \in Slots, Saved(slot)
  PROVE  DeskInv'
<1>0. HeadOK /\ AccountOK /\ HeldOK /\ OpsOK
  BY DEF DeskInv
<1>1. PICK op : op = ops[slot]
  OBVIOUS
<1>2. FitsHead(op, head.rev, head.entries) /\ op \in Op /\ op.phase \in {"landed", "opened"}
  BY <1>0, <1>1 DEF Saved, PhaseOf, OpsOK, FitsHead
<1>3. /\ vault' = [rev |-> op.base + 1, entries |-> op.next, key |-> op.key]
      /\ ops' = [ops EXCEPT ![slot] = None] /\ UNCHANGED <<head, owned, shown>>
  BY <1>1 DEF Saved
<1>4. /\ op.next \in Seq(Entry) /\ Sealable(op.next) /\ op.base \in Nat /\ op.base < head.rev
      /\ op.base + 1 = head.rev => op.next = head.entries
  BY <1>2 DEF FitsHead, Op
<1>5. head.rev \in Nat
  BY <1>0, HeadIs
<1>6. Revision([rev |-> op.base + 1, entries |-> op.next, key |-> op.key], head.rev)
  BY <1>2, <1>4, <1>5 DEF Revision, Op
<1>7. HeldOK'
  BY <1>0, <1>3, <1>4, <1>6 DEF HeldOK
<1>8. page' \in Page
  <2>1. CASE slot = "pull"
    <3>1. page' = [page EXCEPT !.leftover = FALSE]
      BY <2>1 DEF Saved
    <3> QED BY <1>0, <3>1 DEF AccountOK, Page
  <2>2. CASE slot # "pull"
    BY <1>0, <2>2 DEF Saved, AccountOK
  <2> QED BY <2>1, <2>2
<1>9. HeadOK' /\ AccountOK'
  BY <1>0, <1>3, <1>8 DEF HeadOK, AccountOK, Page
<1>10. OpsOK'
  BY <1>0, <1>3, OneMoves
<1> QED BY <1>7, <1>9, <1>10 DEF DeskInv

LEMMA NotSavedStep ==
  ASSUME DeskInv, NEW slot \in Slots, NEW living, NotSaved(slot, living)
  PROVE  DeskInv'
<1>1. ops' = [ops EXCEPT ![slot] = None] /\ UNCHANGED <<head, owned, page, vault, shown>>
  BY DEF NotSaved
<1> QED BY <1>1, OneMoves, SameDesk DEF DeskInv

LEMMA ElsewhereStep ==
  ASSUME DeskInv, NEW core, NEW draft \in Drafts, Elsewhere(core, draft)
  PROVE  DeskInv' /\ Readable(head) \subseteq Readable(head')
<1>0. HeadOK /\ AccountOK /\ HeldOK /\ OpsOK
  BY DEF DeskInv
<1>1. PICK entry : entry = [id |-> NewId(head.rev, 1), key |-> draft.key, pw |-> draft.pw]
  OBVIOUS
<1>2. PICK next : next = Append(head.entries, entry)
  OBVIOUS
<1>3. /\ head.rev < MaxRevision /\ Sealable(next) /\ head' = [rev |-> head.rev + 1, entries |-> next, lost |-> FALSE]
      /\ UNCHANGED <<owned, page, vault, shown, ops>>
  BY <1>1, <1>2 DEF Elsewhere
<1>4. head.rev \in Nat /\ head.rev > 0 /\ head'.rev = head.rev + 1 /\ head'.entries = next
  BY <1>0, <1>3, HeadIs
<1>5. entry \in Entry
  <2>1. draft \in Login
    BY DeskAssumption
  <2> QED BY <1>1, <1>4, <2>1 DEF Login, Entry, NewId
<1>6. next \in Seq(Entry) /\ KeysOf(head.entries) \subseteq KeysOf(next)
  BY <1>0, <1>2, <1>5, HeadIs, AppendKeeps
<1>7. HeadOK'
  BY <1>3, <1>4, <1>6, DeskAssumption DEF HeadOK
<1>8. AccountOK'
  BY <1>0, <1>3 DEF AccountOK, Page
<1>9. HeldOK'
  <2>1. vault.rev # head'.rev
    BY <1>0, <1>4, HeldIs
  <2>2. 0 .. head.rev \subseteq 0 .. head'.rev
    BY <1>4
  <2>3. Revision(vault, head'.rev) /\ Revision(shown, head'.rev)
    BY <1>0, <2>2 DEF HeldOK, Revision
  <2>4. vault' = vault /\ shown' = shown
    BY <1>3
  <2> QED BY <2>1, <2>3, <2>4 DEF HeldOK
<1>10. OpsOK'
  <2>1. ASSUME NEW s \in Slots PROVE ops'[s] = None \/ FitsHead(ops'[s], head'.rev, head'.entries)
    <3>1. ops'[s] = ops[s]
      BY <1>3
    <3>2. CASE ops[s] = None
      BY <3>1, <3>2
    <3>3. CASE ops[s] # None
      <4>1. FitsHead(ops[s], head.rev, head.entries)
        BY <1>0, <3>3 DEF OpsOK
      <4>2. FitsHead(ops[s], head.rev + 1, next)
        BY <1>4, <4>1, NewHead
      <4> QED BY <1>4, <3>1, <4>2
    <3> QED BY <3>2, <3>3
  <2>2. DOMAIN ops' = Slots
    BY <1>0, <1>3 DEF OpsOK
  <2> QED BY <2>1, <2>2 DEF OpsOK
<1>11. Readable(head) \subseteq Readable(head')
  BY <1>3, <1>4, <1>6 DEF Readable
<1> QED BY <1>7, <1>8, <1>9, <1>10, <1>11 DEF DeskInv

LEMMA PageStep ==
  ASSUME DeskInv, NEW core \in Nat, PageNext(core)
  PROVE  DeskInv'
BY ButtonsStep, ImportsStep, AccountStep, ViewStep, PullStep, SavedStep DEF PageNext

\* A commit takes only the logins its operation named, unless it was computed from a page
\* that lagged or was sealed after a Lock.
LEMMA LandsKeeps ==
  ASSUME DeskInv, NEW slot \in Slots, NEW living, Lands(slot, living),
         NEW k \in Readable(head) \ Readable(head')
  PROVE  slot \in Landing /\ (k \in ops[slot].drops \/ ops[slot].lag \/ ops[slot].key = Zeros)
<1>1. PICK op : op = ops[slot]
  OBVIOUS
<1>2. /\ op # None /\ op.phase \in {"sent", "left"} /\ op.base = head.rev
      /\ FitsHead(op, head.rev, head.entries) /\ op \in Op /\ DOMAIN ops = Slots
  BY <1>1 DEF DeskInv, OpsOK, Lands, FitsHead
<1>3. head'.entries = op.next /\ (op.key # Zeros => ~head'.lost)
  <2>1. PICK lost \in BOOLEAN : lost = (op.key = Zeros)
    OBVIOUS
  <2>2. head' = [rev |-> head.rev + 1, entries |-> op.next, lost |-> lost]
    BY <1>1, <2>1 DEF Lands
  <2> QED BY <2>1, <2>2
<1>4. k \in op.drops \/ op.lag \/ op.key = Zeros
  <2>1. CASE op.key # Zeros
    <3>1. k \in KeysOf(head.entries) /\ k \notin KeysOf(op.next)
      BY <1>3, <2>1 DEF Readable
    <3> QED BY <1>2, <3>1 DEF FitsHead
  <2> QED BY <2>1
<1>5. ops'[slot] # op
  <2>1. CASE op.phase = "left"
    BY <1>1, <1>2, <2>1 DEF Lands
  <2>2. CASE op.phase = "sent"
    <3>1. ops'[slot] = [op EXCEPT !.phase = "landed"]
      BY <1>1, <1>2, <2>2 DEF Lands
    <3>2. [op EXCEPT !.phase = "landed"].phase = "landed"
      BY <1>2 DEF Op
    <3> QED BY <2>2, <3>1, <3>2
  <2> QED BY <1>2, <2>1, <2>2
<1> QED BY <1>1, <1>2, <1>4, <1>5 DEF Landing, InFlight

--------------------------------------------------------------------------------
(***************************************************************************)
(* The results                                                             *)
(***************************************************************************)
\* Whatever the page does, the processes keep their invariant: families are a desk, its
\* bootloader and one worker, and a page that was let in talks to its own worker.
THEOREM Shell == DesktopSpec => []ShellInv
<1>1. DesktopInit => ShellInv
  <2> SUFFICES ASSUME DesktopInit PROVE ShellInv
    OBVIOUS
  <2>1. procs = <<>> /\ port = 0 /\ dying = {} /\ crashes = 0 /\ DOMAIN desk = {}
    BY DEF DesktopInit, ShellInit, Nobody
  <2>2. procs \in Seq(Process) /\ Pid = {}
    BY <2>1, EmptySeq DEF Pid
  <2>3. ProcessesOK
    BY <2>1, <2>2 DEF ProcessesOK, Families, OneWorker, PortOK, AliveOnly, Nobody
  <2>4. DesksOK
    BY <2>1, <2>2 DEF DesksOK
  <2>5. CrashesOK
    BY <2>1, ShellAssumption DEF CrashesOK
  <2> QED BY <2>3, <2>4, <2>5 DEF ShellInv
<1>2. ShellInv /\ [DesktopNext]_desktopVars => ShellInv'
  <2> SUFFICES ASSUME ShellInv, [DesktopNext]_desktopVars PROVE ShellInv'
    OBVIOUS
  <2>1. CASE Racing
    BY <2>1, ShellStep DEF Racing
  <2>2. CASE Running
    <3>1. CASE Launch
      BY <3>1, ShellStep DEF ShellNext
    <3>2. ASSUME NEW d \in DOMAIN desk, Probe(d) \/ Spawn(d) \/ Quit(d) \/ Wait(d, TRUE)
          PROVE  ShellInv'
      BY <3>2, InspectStep, SpawnStep, WaitStep
    <3>3. ASSUME NEW p \in Pid, Unpack(p) \/ Serve(p) \/ Follows(p) \/ Ends(p) \/ Crash(p)
          PROVE  ShellInv'
      BY <3>3, ProcessStep
    <3> QED BY <2>2, <3>1, <3>2, <3>3 DEF Running, CalmStart
  <2>3. CASE UNCHANGED shellVars
    <3>1. ProcessesGo /\ Pid' = Pid
      BY <2>3, NobodyDies DEF shellVars, ShellInv, ProcessesOK
    <3> QED BY <2>3, <3>1, UnnoticedStep DEF shellVars, SameDesks
  <2>4. CASE Working
    BY <2>3, <2>4 DEF Working, shellVars
  <2>5. CASE UNCHANGED desktopVars
    BY <2>3, <2>5 DEF desktopVars, shellVars
  <2> QED BY <2>1, <2>2, <2>4, <2>5 DEF DesktopNext
<1> QED BY <1>1, <1>2, PTL DEF DesktopSpec

\* The processes, the port and the records of the desks stay what they are said to be.
THEOREM ShellTypes == DesktopSpec => []ShellTypeOK
<1>1. ShellInv => ShellTypeOK
  <2> SUFFICES ASSUME ShellInv PROVE ShellTypeOK
    OBVIOUS
  <2>1. \A p \in Pid : Lives(p) <=> procs[p].alive
    BY Counted DEF ShellInv, ProcessesOK, Process, Lives
  <2>2. procs \in Seq([kind : Kind, parent : Nat, alive : BOOLEAN])
    BY DEF ShellInv, ProcessesOK, Families, Process
  <2>3. port \in {Nobody} \cup {p \in Pid : procs[p].alive}
    BY <2>1 DEF ShellInv, ProcessesOK, PortOK
  <2>4. dying \subseteq {p \in Pid : procs[p].alive}
    BY <2>1 DEF ShellInv, ProcessesOK, AliveOnly
  <2>5. DOMAIN desk = {p \in Pid : procs[p].kind = "desk"}
    BY DEF ShellInv, DesksOK, KindOf
  <2>6. \A d \in DOMAIN desk : desk[d] \in [phase : Phase, at : Nat, child : Nat]
    BY DEF ShellInv, DesksOK, Desk
  <2>7. crashes \in 0 .. MaxCrashes
    BY DEF ShellInv, CrashesOK
  <2> QED BY <2>2, <2>3, <2>4, <2>5, <2>6, <2>7 DEF ShellTypeOK
<1> QED BY <1>1, Shell, PTL

\* A desk that became ready talks to the worker it started for as long as one lives
\* (core_bind.rs: classify_spawned_listener), with any number of desks and rivals.
THEOREM TalksToItsCoreHolds == DesktopSpec => []TalksToItsCore
<1>1. ShellInv => TalksToItsCore
  <2> SUFFICES ASSUME ShellInv, NEW d \in DOMAIN desk, At(d, "ready"), OwnWorkers(d) # {}
               PROVE  port \in OwnWorkers(d)
    BY DEF TalksToItsCore
  <2>1. PICK w \in OwnWorkers(d) : TRUE
    OBVIOUS
  <2>2. PICK c : c = desk[d].child
    OBVIOUS
  <2>3. TalkOK(c) /\ c # 0 /\ c \in Pid /\ KindOf(c) = "boot"
    BY <2>2 DEF ShellInv, DesksOK, At, TalkOK
  <2>4. w \in Pid /\ Lives(w) /\ KindOf(w) = "core" /\ Descends(w, c)
    BY <2>1, <2>2 DEF OwnWorkers, Alive, Named, Lives, KindOf
  <2>5. Parent(w) = c
    BY <2>3, <2>4, OursIsAChild DEF ShellInv, ProcessesOK
  <2>6. port = w
    BY <2>3, <2>4, <2>5 DEF TalkOK
  <2> QED BY <2>1, <2>6
<1> QED BY <1>1, Shell, PTL

\* Who answers the page is a process or nobody.
LEMMA CoreIsNat == ASSUME ShellInv PROVE Core \in Nat
BY Counted DEF ShellInv, ProcessesOK, PortOK, Nobody, Core, Lives

LEMMA SameDeskVars ==
  ASSUME DeskInv, UNCHANGED deskVars
  PROVE  DeskInv'
BY SameOps, SameDesk DEF DeskInv, deskVars

\* Whatever the processes, the page and other clients do in whatever order, the desk holds
\* lists that can be sealed, and an operation under way keeps the name of every login of
\* the revision it was made on, except those it names itself: a Lock blanks the secrets.
THEOREM DeskHolds == DesktopSpec => []DeskInv
<1>1. DesktopInit => DeskInv
  <2> SUFFICES ASSUME DesktopInit PROVE DeskInv
    OBVIOUS
  <2>1. HeadOK
    BY DeskAssumption DEF DesktopInit, DeskInit, HeadOK
  <2>2. AccountOK
    BY DEF DesktopInit, DeskInit, AccountOK, NoPage, Page, NoToken
  <2>3. HeldOK
    <3>1. head.rev \in Nat /\ head.rev = 1 /\ Closed.rev = 0
      BY DEF DesktopInit, DeskInit, Closed
    <3>2. Revision(Closed, head.rev)
      BY <3>1, ClosedIsOne
    <3> QED BY <3>1, <3>2 DEF DesktopInit, DeskInit, HeldOK
  <2>4. OpsOK
    BY DEF DesktopInit, DeskInit, OpsOK
  <2> QED BY <2>1, <2>2, <2>3, <2>4 DEF DeskInv
<1>2. ShellInv /\ DeskInv /\ [DesktopNext]_desktopVars => DeskInv'
  <2> SUFFICES ASSUME ShellInv, DeskInv, [DesktopNext]_desktopVars PROVE DeskInv'
    OBVIOUS
  <2>1. CASE Racing
    BY <2>1, SameDeskVars DEF Racing
  <2>2. CASE Running
    <3>1. PageCloses \/ UNCHANGED deskVars
      BY <2>2, Zenon DEF Running
    <3> QED BY <3>1, ClosesStep, SameDeskVars
  <2>3. CASE Working
    <3>1. PICK core \in Nat : core = Core
      BY CoreIsNat
    <3>2. \/ PageNext(core)
          \/ \E s \in Slots : Lands(s, Living) \/ NotSaved(s, Living)
          \/ \E draft \in Drafts : Elsewhere(core, draft)
      BY <2>3, <3>1, Zenon DEF Working
    <3> QED BY <3>2, PageStep, LandsStep, NotSavedStep, ElsewhereStep
  <2>4. CASE UNCHANGED desktopVars
    BY <2>4, SameDeskVars DEF desktopVars, deskVars
  <2> QED BY <2>1, <2>2, <2>3, <2>4 DEF DesktopNext
<1> QED BY <1>1, <1>2, Shell, PTL DEF DesktopSpec

\* The whole state stays in its types: the processes, and the vault, the page and its
\* operations, with no list of entries that could not be sealed.
THEOREM Types == DesktopSpec => []TypeOK
<1>1. DeskInv => DeskTypeOK
  <2> SUFFICES ASSUME DeskInv PROVE DeskTypeOK
    OBVIOUS
  <2>1. \A s \in Slots : ops[s] = None \/ ops[s] \in Op
    BY DEF DeskInv, OpsOK, FitsHead
  <2> QED BY <2>1 DEF DeskInv, HeadOK, AccountOK, Page, HeldOK, Revision, OpsOK, DeskTypeOK
<1> QED BY <1>1, DeskHolds, ShellTypes, PTL DEF TypeOK

\* An edit or a removal takes its own login out of the vault and no import, pull, star,
\* demo login or late commit takes any, whoever commits or locks in between
\* (useVaultState.ts, vault-lifecycle/index.ts: saveEntries, pullLocalIntoOpenVault): the
\* two ways there are to lose one are a click on a page that does not show the newest
\* revision yet, and a commit sealed after a Lock took the key.
THEOREM LoginsSurviveHolds == DesktopSpec => LoginsSurvive
<1> DEFINE Survive ==
      \A k \in Readable(head) \ Readable(head') :
        \E s \in Landing : k \in ops[s].drops \/ ops[s].lag \/ ops[s].key = Zeros
<1>1. DeskInv /\ [DesktopNext]_desktopVars => [Survive]_head
  <2> SUFFICES ASSUME DeskInv, [DesktopNext]_desktopVars, head' # head PROVE Survive
    OBVIOUS
  <2>1. CASE \E s \in Slots : Lands(s, Living)
    BY <2>1, LandsKeeps
  <2>2. CASE \E draft \in Drafts : Elsewhere(Core, draft)
    BY <2>2, ElsewhereStep
  <2>3. ~Racing /\ ~Running
    BY Zenon DEF Racing, Running, deskVars, PageCloses
  <2>4. ~PageNext(Core)
    BY Zenon DEF PageNext, PageStarts, SignIn, Unlock, LockPage, SignOut, Render, SaveNew, Save, RemoveEntry,
       ImportFile, IngestBrowserLogins, OpenShare, Import, ConfirmImport, SeedAccessDemo, ToggleFavorite,
       EnsureDemoLogin, SaveEntries, PullStarts, PullDecrypt, PullFails, PullFindsSource, Saved
  <2>5. ASSUME NEW s \in Slots PROVE ~NotSaved(s, Living)
    BY DEF NotSaved
  <2>6. Working
    BY <2>3 DEF DesktopNext, desktopVars
  <2>7. (\E s \in Slots : Lands(s, Living)) \/ (\E draft \in Drafts : Elsewhere(Core, draft))
    BY <2>4, <2>5, <2>6, Zenon DEF Working
  <2> QED BY <2>1, <2>2, <2>7
<1> QED BY <1>1, DeskHolds, PTL DEF DesktopSpec, LoginsSurvive
================================================================================
