-------------------------------- MODULE Desktop --------------------------------
(***************************************************************************)
(* The desktop app as a whole: the page runs in the window of a desk that  *)
(* is ready and talks to whatever listens on the port.  A run either       *)
(* starts and kills desks with nobody at the page, or has somebody work in *)
(* the only desk (`working'), where nobody races for the port but the core *)
(* may still die under the page, and the desk with it.                     *)
(***************************************************************************)
EXTENDS DesktopShell, VaultDesk

CONSTANT MaxStranded  \* bound on the operations that a crash leaves without an answer

VARIABLES working  \* chosen at the start

desktopVars == <<procs, port, dying, desk, crashes,
                 head, owned, page, vault, shown, ops, working>>

Core == IF port # Nobody /\ Named(port, {"core"}) THEN port ELSE 0
Living == {p \in Pid : Alive(p) /\ Named(p, {"core"})}

DesktopInit == ShellInit /\ DeskInit /\ working \in BOOLEAN

Racing ==
  /\ ~working
  /\ ShellNext
  /\ UNCHANGED <<deskVars, working>>

Window == {d \in DOMAIN desk : At(d, "ready")}

\* One desk on a machine where nobody else wants the port and ps and lsof answer.
CalmStart ==
  \/ procs = <<>> /\ Launch
  \/ \E d \in DOMAIN desk :
       Probe(d) \/ Spawn(d) \/ Quit(d) \/ (port # Nobody /\ Wait(d, TRUE))
  \/ \E p \in Pid : Unpack(p) \/ Serve(p) \/ Follows(p) \/ Ends(p)
  \/ Cardinality(InFlight) <= MaxStranded /\ \E p \in Pid : Crash(p)

\* The page goes with its window.
Running ==
  /\ working
  /\ CalmStart
  /\ IF Window # {} /\ Window' = {} THEN PageCloses ELSE UNCHANGED deskVars
  /\ UNCHANGED working

Working ==
  /\ working
  /\ \/ Window # {} /\ PageNext(Core)
     \/ \E s \in Slots : Lands(s, Living) \/ NotSaved(s, Living)
     \/ \E draft \in Drafts : Elsewhere(Core, draft)
  /\ UNCHANGED <<procs, port, dying, desk, crashes, working>>

DesktopNext == Racing \/ Running \/ Working

DesktopSpec == DesktopInit /\ [][DesktopNext]_desktopVars

TypeOK == ShellTypeOK /\ DeskTypeOK
================================================================================
