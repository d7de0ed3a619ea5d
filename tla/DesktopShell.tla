----------------------------- MODULE DesktopShell ------------------------------
(***************************************************************************)
(* Starting and stopping the desktop app: src-tauri (lib, loopback,        *)
(* core_bind, process, process_inspect) and the core it spawns             *)
(* (backend/app/local.py), as the processes of one machine that compete    *)
(* for one loopback port.  The installed core is a PyInstaller one-file    *)
(* program: a bootloader and, as its child, the worker that listens.       *)
(*                                                                         *)
(* A pid is the place of a process in `procs' and is not reused.           *)
(***************************************************************************)
EXTENDS Integers, Sequences, FiniteSets

CONSTANTS MaxDesks,    \* bound on launches of the desktop app
          MaxOthers,   \* bound on processes that are neither a desk nor its core
          MaxCrashes   \* bound on crashes

VARIABLES procs,      \* every process so far, with its parent as the OS reports it
          port,       \* pid of the listener on 127.0.0.1:8788 (Nobody: none)
          dying,      \* pids that were sent SIGTERM and still run
          desk,       \* per launched desk, how far `run' has come
          crashes

shellVars == <<procs, port, dying, desk, crashes>>

ASSUME ShellAssumption == MaxDesks \in Nat /\ MaxOthers \in Nat /\ MaxCrashes \in Nat

Nobody == 0     \* no listener
InitProcess == 0      \* the parent of a process whose own is gone

Pid == 1 .. Len(procs)

\* boot and core carry the name fourallpass-core, desk is fourallpass, dev is
\* `python -m app.local'.
Kind == {"desk", "boot", "core", "dev", "other"}

Phase == {"probe", "inspect", "recheck", "reap", "drain", "spawn", "wait", "ready", "gone"}

ShellTypeOK ==
  /\ procs \in Seq([kind : Kind, parent : Nat, alive : BOOLEAN])
  /\ port \in {Nobody} \cup {p \in Pid : procs[p].alive}
  /\ dying \subseteq {p \in Pid : procs[p].alive}
  /\ DOMAIN desk = {p \in Pid : procs[p].kind = "desk"}
  /\ \A d \in DOMAIN desk : desk[d] \in [phase : Phase, at : Nat, child : Nat]
  /\ crashes \in 0 .. MaxCrashes

Alive(p) == p \in Pid /\ procs[p].alive

\* pid_is_descendant.
Descends(p, ancestor) ==
  LET climb[x \in (0 .. 16) \X (0 .. Len(procs))] ==
        \/ x[2] = ancestor
        \/ x[1] > 0 /\ x[2] \in Pid /\ climb[<<x[1] - 1, procs[x[2]].parent>>]
  IN  p # 0 /\ ancestor # 0 /\ climb[<<16, p>>]

\* What a shell without children leaves behind when `gone' dies: its children go to init.
After(gone) ==
  [p \in Pid |->
     [procs[p] EXCEPT !.alive = @ /\ p \notin gone,
                      !.parent = IF @ \in gone THEN InitProcess ELSE @]]

DiesListening(gone) ==  \* mutant: the socket of a process outlives it
  /\ procs' = After(gone)
  /\ port' = port
  /\ dying' = dying \ gone

Dies(gone) ==
  /\ procs' = After(gone)
  /\ port' = IF port \in gone THEN Nobody ELSE port
  /\ dying' = dying \ gone

Forks(kind, parent) ==
  procs' = Append(procs, [kind |-> kind, parent |-> parent, alive |-> TRUE])

Others == Cardinality({p \in Pid : procs[p].kind \in {"dev", "other"}})

ShellInit ==
  /\ procs = <<>> /\ port = Nobody /\ dying = {} /\ crashes = 0
  /\ desk = [d \in {} |-> [phase |-> "probe", at |-> 0, child |-> 0]]

--------------------------------------------------------------------------------
(***************************************************************************)
(* prepare_loopback_core: who holds the port before anything is spawned.   *)
(***************************************************************************)
At(d, phase) == d \in DOMAIN desk /\ desk[d].phase = phase

Goes(d, phase) == desk' = [desk EXCEPT ![d].phase = phase]

\* std::process::exit, and the child with it if there is one yet.
Exits(d) ==
  /\ Goes(d, "gone")
  /\ Dies({d})

Launch ==
  /\ Cardinality(DOMAIN desk) < MaxDesks
  /\ Forks("desk", InitProcess)
  /\ desk' = [d \in DOMAIN desk \cup {Len(procs) + 1} |->
                IF d \in DOMAIN desk THEN desk[d] ELSE [phase |-> "probe", at |-> 0, child |-> 0]]
  /\ UNCHANGED <<port, dying, crashes>>

\* core_up.
Probe(d) ==
  /\ At(d, "probe")
  /\ Goes(d, IF port = Nobody THEN "spawn" ELSE "inspect")
  /\ UNCHANGED <<procs, port, dying, crashes>>

Named(p, names) == p \in Pid /\ procs[p].kind \in names

\* occupant_of and classify_occupied.  ps or lsof may answer nothing.
Occupied(p, answered) ==
  IF ~answered \/ ~Alive(p) THEN "Foreign"
  ELSE IF Named(p, {"boot", "core"})
    THEN IF \E q \in Pid : Named(q, {"desk"}) /\ Descends(p, q) THEN "OurLive" ELSE "OurOrphan"
  ELSE IF Named(p, {"dev"}) THEN "DevLocal" ELSE "Foreign"

\* A second desk leaves; a stranger on the port is left alone.
Inspect(d, answered) ==
  /\ At(d, "inspect")
  /\ IF Occupied(port, answered) \in {"OurOrphan", "DevLocal"}
       THEN /\ Goes(d, "recheck")
            /\ UNCHANGED <<procs, port, dying>>
       ELSE Exits(d)
  /\ UNCHANGED crashes

\* terminate: SIGTERM, which the process acts upon later.
Terminate(p) == dying' = IF Alive(p) THEN dying \cup {p} ELSE dying

\* The listener and its class are read again, and may be others by now.  Whatever is
\* not a development server goes through reap_our_core_chain.
Recheck(d, answered) ==
  /\ At(d, "recheck")
  /\ \/ /\ port = Nobody \/ ~answered
        /\ Goes(d, "drain")
        /\ UNCHANGED dying
     \/ /\ port # Nobody /\ Occupied(port, TRUE) = "DevLocal"
        /\ Goes(d, "drain")
        /\ Terminate(port)
     \/ /\ port # Nobody /\ Occupied(port, answered) # "DevLocal"
        /\ desk' = [desk EXCEPT ![d].phase = "reap", ![d].at = port]
        /\ UNCHANGED dying
  /\ UNCHANGED <<procs, port, crashes>>

\* One hop of reap_our_core_chain: only what is named fourallpass-core is signalled,
\* and the climb ends below a desk.
Reap(d) ==
  /\ At(d, "reap")
  /\ LET p == desk[d].at IN
       IF ~Alive(p) \/ Named(p, {"desk"})
         THEN Goes(d, "drain") /\ UNCHANGED dying
         ELSE /\ IF Named(p, {"boot", "core"}) THEN Terminate(p) ELSE UNCHANGED dying
              /\ desk' = [desk EXCEPT ![d].phase = IF procs[p].parent = InitProcess THEN "drain" ELSE @,
                                      ![d].at = procs[p].parent]
  /\ UNCHANGED <<procs, port, crashes>>

\* Two seconds for the port to become free.
Drain(d) ==
  /\ At(d, "drain")
  /\ IF port = Nobody THEN Goes(d, "spawn") /\ UNCHANGED <<procs, port, dying>> ELSE Exits(d)
  /\ UNCHANGED crashes

--------------------------------------------------------------------------------
(***************************************************************************)
(* The core, from spawn_core to the listening socket.                      *)
(***************************************************************************)
\* spawn_core; its failure ends the app.
Spawn(d) ==
  /\ At(d, "spawn")
  /\ \/ /\ Forks("boot", d)
        /\ desk' = [desk EXCEPT ![d].phase = "wait", ![d].child = Len(procs) + 1]
        /\ UNCHANGED <<port, dying>>
     \/ Exits(d)
  /\ UNCHANGED crashes

ChildrenOf(p) == {q \in Pid : procs[q].alive /\ procs[q].parent = p}

\* The bootloader unpacks and starts the worker, once.
Unpack(b) ==
  /\ Alive(b) /\ Named(b, {"boot"}) /\ b \notin dying
  /\ \A q \in Pid : q > b => ~(procs[q].kind = "core" /\ procs[q].parent = b)
  /\ Forks("core", b)
  /\ UNCHANGED <<port, dying, desk, crashes>>

\* local.main: a held port ends the process, a free one is bound.
Serve(c) ==
  /\ Alive(c) /\ Named(c, {"core"}) /\ c \notin dying /\ port # c
  /\ IF port = Nobody THEN port' = c /\ UNCHANGED <<procs, dying>> ELSE Dies({c})
  /\ UNCHANGED <<desk, crashes>>

\* A bootloader ends with its worker, and a worker that finds its parent gone ends too
\* (_watch_tauri_parent): its parent is the bootloader, never the desk.
Follows(p) ==
  /\ Alive(p)
  /\ \/ /\ Named(p, {"boot"}) /\ ChildrenOf(p) = {}
        /\ \E q \in Pid : q > p /\ procs[q].kind = "core" /\ ~procs[q].alive
     \/ Named(p, {"core"}) /\ procs[p].parent = InitProcess
  /\ Dies({p})
  /\ UNCHANGED <<desk, crashes>>

\* A process that got SIGTERM ends when it has shut down.
Ends(p) ==
  /\ p \in dying
  /\ Dies({p})
  /\ UNCHANGED <<desk, crashes>>

--------------------------------------------------------------------------------
(***************************************************************************)
(* wait_our_core, the running app, and its end.                            *)
(***************************************************************************)
SpawnedByConnect(d, answered) ==  \* mutant: a listener nobody could name is taken for ours
  IF port = Nobody THEN "NotYet"
  ELSE IF ~answered THEN "Ours"
  ELSE IF Descends(port, desk[d].child) THEN "Ours" ELSE "Foreign"

\* classify_spawned_listener.
Spawned(d, answered) ==
  IF port = Nobody THEN "NotYet"
  ELSE IF ~answered THEN "Unknown"
  ELSE IF Descends(port, desk[d].child) THEN "Ours" ELSE "Foreign"

\* kill_core: SIGTERM to the process group, SIGKILL to the child.
Group(d) == {p \in Pid : procs[p].alive /\ desk[d].child # 0 /\ Descends(p, desk[d].child)}

KillsCore(d) ==
  LET gone == {d} \cup {p \in {desk[d].child} : Alive(p)}
  IN  /\ procs' = After(gone)
      /\ port' = IF port \in gone THEN Nobody ELSE port
      /\ dying' = (dying \cup Group(d)) \ gone

\* The core is ours, or someone else's, or 45 seconds have passed.
Wait(d, answered) ==
  /\ At(d, "wait")
  /\ IF Spawned(d, answered) = "Ours"
       THEN Goes(d, "ready") /\ UNCHANGED <<procs, port, dying>>
       ELSE Goes(d, "gone") /\ KillsCore(d)
  /\ UNCHANGED crashes

\* Quit from the tray, or RunEvent::Exit.
Quit(d) ==
  /\ At(d, "ready")
  /\ Goes(d, "gone")
  /\ KillsCore(d)
  /\ UNCHANGED crashes

\* A desk that dies runs no kill_core; a core can die on its own.
Crash(p) ==
  /\ crashes < MaxCrashes
  /\ Alive(p) /\ Named(p, {"desk", "core"})
  /\ desk' = IF p \in DOMAIN desk THEN [desk EXCEPT ![p].phase = "gone"] ELSE desk
  /\ Dies({p})
  /\ crashes' = crashes + 1

\* Another program, or `npm run app', finds the port free and binds it.
OtherBinds(kind) ==
  /\ Others < MaxOthers
  /\ port = Nobody
  /\ Forks(kind, InitProcess)
  /\ port' = Len(procs) + 1
  /\ UNCHANGED <<dying, desk, crashes>>

OtherLeaves(p) ==
  /\ Alive(p) /\ Named(p, {"dev", "other"})
  /\ Dies({p})
  /\ UNCHANGED <<desk, crashes>>

Starting(d) ==
  \/ Probe(d) \/ Reap(d) \/ Drain(d) \/ Spawn(d) \/ Quit(d)
  \/ \E answered \in BOOLEAN : Inspect(d, answered) \/ Recheck(d, answered) \/ Wait(d, answered)

ShellNext ==
  \/ Launch
  \/ \E d \in DOMAIN desk : Starting(d)
  \/ \E p \in Pid : Unpack(p) \/ Serve(p) \/ Follows(p) \/ Ends(p) \/ Crash(p) \/ OtherLeaves(p)
  \/ \E kind \in {"dev", "other"} : OtherBinds(kind)

ShellSpec == ShellInit /\ [][ShellNext]_shellVars
--------------------------------------------------------------------------------
\* The core of a desk that runs is signalled by nobody but that desk, on its own way out:
\* a second start leaves a live instance alone and exits (loopback.rs: "Foreign / live
\* instance: clean exit"; core_bind.rs calls a core "Safe to kill" that has "no living
\* `fourallpass` parent").  The listener may change hands between the two looks at it.
LiveCoresSpared ==
  [][\A p \in dying' \ dying, d \in DOMAIN desk :
       Alive(d) /\ Descends(p, d) => desk'[d].phase = "gone"]_shellVars

\* Serving: a worker of the child that this desk spawned is up.
OwnWorkers(d) ==
  {p \in Pid : Alive(p) /\ Named(p, {"core"}) /\ Descends(p, desk[d].child)}

\* The page of a running desk talks to its own core as long as that core lives, whoever
\* else wanted the port while it started ("TCP connect is not trust").
TalksToItsCore ==
  \A d \in DOMAIN desk : At(d, "ready") /\ OwnWorkers(d) # {} => port \in OwnWorkers(d)
================================================================================
