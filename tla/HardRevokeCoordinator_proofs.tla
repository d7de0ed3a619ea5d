---------------------- MODULE HardRevokeCoordinator_proofs ----------------------
(***************************************************************************)
(* Proofs about the hard-revoke coordinator, for any number of calls in    *)
(* flight, vault objects and sign-outs.                                    *)
(***************************************************************************)
EXTENDS HardRevokeCoordinator, FiniteSetTheorems, TLAPS

\* No call began after the newest sign-out that happened: a ticket that is stale stays so.
TicketsPast == \A s \in Slot : frame[s] # None => frame[s].ticket <= generation

\* `rotation' names the one valid commit in flight, and nothing is pending meanwhile.
RotationHeld ==
  /\ \A s \in Slot : s \in Rotations <=> rotation = s
  /\ rotation # None => pending = None

\* A valid request serves the pending task, asks for what its phase says, and is the
\* only one; `reconciling' says that there is one.
RequestServes ==
  /\ \A s \in Requests :
       /\ reconciling
       /\ pending # None /\ pending.task = frame[s].of
       /\ At(s, "delete") => pending.phase = "revoke_pending"
  /\ \A s, t \in Requests : s = t
  /\ reconciling => pending # None /\ Requests # {}

\* What is still to be deleted has not been.
PendingNotDeleted ==
  pending # None /\ pending.phase = "revoke_pending" => pending.task \notin deleted

\* Tasks follow commits: the next one is new.
TasksMade == (pending # None => pending.task <= made) /\ deleted \subseteq 1 .. made

IInv ==
  TasksMade /\ TicketsPast /\ RotationHeld /\ RequestServes /\ PendingNotDeleted /\ BannerTellsTheTruth
    /\ KeysOnScreen

--------------------------------------------------------------------------------
\* A call in flight has all the fields of one.
LEMMA FrameTyped ==
  ASSUME CallsTyped, NEW s \in Slot, frame[s] # None
  PROVE  frame[s] \in Frame
BY DEF CallsTyped

\* The banner and `reconciling' have their type after every step.
LEMMA BannerStaysTyped ==
  ASSUME CallsTyped, BannerTyped, [Next]_vars
  PROVE  BannerTyped'
<1> USE CoordinatorAssumption DEF BannerTyped
<1>1. ASSUME \/ Open \/ Lock \/ SignOut \/ StillSignedIn \/ SignIn \/ UNCHANGED vars
             \/ \E s \in Slot : HardRevoke(s) \/ CommitFails(s) \/ CommittedTooLate(s)
      PROVE  BannerTyped'
  BY <1>1 DEF Open, Lock, SignOut, StillSignedIn, SignIn, vars, own, HardRevoke, CommitFails,
              CommittedTooLate
<1>2. ASSUME SignedOut \/ \E s \in Slot : Listed(s) \/ StaleReply(s) PROVE BannerTyped'
  BY <1>2 DEF SignedOut, Clear, Listed, StaleReply
<1>3. ASSUME NEW s \in Slot, NEW self \in BOOLEAN, Committed(s, self) PROVE BannerTyped'
  BY <1>3 DEF Committed, Banner, Phase
<1>4. ASSUME NEW s \in Slot, Deleted(s) PROVE BannerTyped'
  BY <1>4 DEF Deleted, Banner, Phase
<1>5. ASSUME NEW s \in Slot, Reconcile(s) \/ RequestFails(s) PROVE BannerTyped'
  <2>1. PICK phase \in Phase : phase = pending.phase
    BY <1>5 DEF Reconcile, RequestFails, Serves, CallsTyped, Task
  <2>2. reconciling' \in BOOLEAN /\ \E b \in BOOLEAN : progress' = [phase |-> phase, busy |-> b]
    BY <1>5, <2>1 DEF Reconcile, RequestFails, Banner
  <2> QED BY <2>2
<1> QED BY <1>1, <1>2, <1>3, <1>4, <1>5 DEF Next

\* So have all other variables.
LEMMA CallsStayTyped ==
  ASSUME CallsTyped, [Next]_vars
  PROVE  CallsTyped'
<1> USE CoordinatorAssumption DEF CallsTyped
<1>1. ASSUME Open \/ Lock \/ SignOut \/ SignedOut \/ StillSignedIn \/ SignIn
      PROVE  CallsTyped'
  <2>1. CASE Open
    <3>1. made' \in 0 .. MaxVaults /\ current' \in 0 .. made'
      BY <2>1 DEF Open
    <3>2. live' \subseteq 1 .. made'
      BY <2>1 DEF Open
    <3> QED BY <2>1, <3>1, <3>2 DEF Open, own
  <2>2. CASE Lock \/ SignOut
    <3>1. current' \in 0 .. made /\ live' \subseteq live
      BY <2>2 DEF Lock, SignOut
    <3>2. live' \subseteq 1 .. made
      BY <3>1
    <3> QED BY <2>2, <3>1, <3>2 DEF Lock, SignOut, own
  <2>3. CASE SignedOut
    <3>1. generation' \in 0 .. MaxClears
      BY <2>3 DEF SignedOut, Clear
    <3> QED BY <2>3, <3>1 DEF SignedOut, Clear
  <2>4. CASE StillSignedIn \/ SignIn
    BY <2>4 DEF StillSignedIn, SignIn, own
  <2> QED BY <1>1, <2>1, <2>2, <2>3, <2>4
<1>2. ASSUME NEW s \in Slot, HardRevoke(s) PROVE CallsTyped'
  BY <1>2 DEF HardRevoke, screen, Frame
<1>3. ASSUME NEW s \in Slot, CommitFails(s) PROVE CallsTyped'
  BY <1>3 DEF CommitFails, Release, screen
<1>4. ASSUME NEW s \in Slot, CommittedTooLate(s) PROVE CallsTyped'
  <2>1. made' \in 0 .. MaxVaults /\ current' \in 0 .. made'
    BY <1>4 DEF CommittedTooLate
  <2>2. live' \subseteq live
    BY <1>4 DEF CommittedTooLate
  <2>3. live' \subseteq 1 .. made'
    <3>1. made \in Nat /\ live \subseteq 1 .. made
      OBVIOUS
    <3> HIDE DEF CallsTyped
    <3>2. made' = made + 1
      BY <1>4 DEF CommittedTooLate
    <3> QED BY <2>2, <3>1, <3>2
  <2> QED BY <1>4, <2>1, <2>3 DEF CommittedTooLate, Release
<1>5. ASSUME NEW s \in Slot, Reconcile(s) PROVE CallsTyped'
  <2>1. pending.task \in Nat
    BY <1>5 DEF Reconcile, Task
  <2> QED BY <1>5, <2>1 DEF Reconcile, screen, Frame
<1>6. ASSUME NEW s \in Slot, NEW self \in BOOLEAN, Committed(s, self) PROVE CallsTyped'
  <2>1. pending' \in Task
    BY <1>6 DEF Committed, Task, Phase
  <2>2. frame' \in [Slot -> Frame \cup {None}]
    BY <1>6 DEF Committed, Frame
  <2>3. made' \in 0 .. MaxVaults /\ current' \in 0 .. made'
    BY <1>6 DEF Committed, AdoptOrLock
  <2>4. live' \subseteq live \cup {made + 1}
    BY <1>6 DEF Committed, AdoptOrLock
  <2>5. live' \subseteq 1 .. made'
    BY <1>6, <2>4 DEF Committed
  <2> QED BY <1>6, <2>1, <2>2, <2>3, <2>5 DEF Committed, Release
<1>7. ASSUME NEW s \in Slot, Deleted(s) PROVE CallsTyped'
  <2>1. frame[s] \in Frame
    BY <1>7, FrameTyped DEF Deleted, At
  <2>2. pending \in Task /\ frame[s].of = pending.task
    BY <1>7 DEF Deleted, Serves
  <2>3. frame' \in [Slot -> Frame \cup {None}]
    BY <1>7, <2>1 DEF Deleted, Frame
  <2>4. pending' \in Task
    BY <1>7, <2>2 DEF Deleted, Task, Phase
  <2>5. deleted' \subseteq 1 .. MaxVaults
    BY <1>7, <2>2 DEF Deleted, Task
  <2> QED BY <1>7, <2>3, <2>4, <2>5 DEF Deleted, screen
<1>8. ASSUME NEW s \in Slot, Listed(s) \/ RequestFails(s) \/ StaleReply(s) PROVE CallsTyped'
  BY <1>8 DEF Listed, RequestFails, StaleReply, screen
<1>9. CASE UNCHANGED vars
  BY <1>9 DEF vars
<1> QED BY <1>1, <1>2, <1>3, <1>4, <1>5, <1>6, <1>7, <1>8, <1>9 DEF Next

\* Type correctness: Spec keeps every variable in its type.
THEOREM TypeCorrect == Spec => []TypeOK
<1>1. Init => CallsTyped
  BY CoordinatorAssumption DEF Init, CallsTyped
<1>2. Init => BannerTyped
  BY DEF Init, BannerTyped
<1>3. TypeOK /\ [Next]_vars => TypeOK'
  BY BannerStaysTyped, CallsStayTyped DEF TypeOK
<1> QED BY <1>1, <1>2, <1>3, PTL DEF Spec, TypeOK

--------------------------------------------------------------------------------
\* What the user does to the screen, signing out apart, is not the coordinator's business.
LEMMA ScreenInductive ==
  ASSUME CallsTyped, IInv, Open \/ Lock \/ SignOut \/ StillSignedIn \/ SignIn
  PROVE  IInv'
<1>1. UNCHANGED <<own, frame, deleted>>
  BY DEF Open, Lock, SignOut, StillSignedIn, SignIn
<1>2. Requests' = Requests /\ Rotations' = Rotations
  BY <1>1 DEF Requests, Rotations, At, Valid, own
<1>3. TicketsPast' /\ RotationHeld' /\ RequestServes' /\ PendingNotDeleted'
        /\ BannerTellsTheTruth'
  BY <1>1, <1>2 DEF IInv, TicketsPast, RotationHeld, RequestServes, PendingNotDeleted,
                    BannerTellsTheTruth, At, own
<1>4. KeysOnScreen'
  <2>1. CASE Open
    BY <2>1 DEF Open, IInv, KeysOnScreen, CallsTyped
  <2>2. CASE Lock \/ SignOut \/ StillSignedIn \/ SignIn
    BY <2>2 DEF IInv, KeysOnScreen, CallsTyped, Lock, SignOut, StillSignedIn, SignIn
  <2> QED BY <2>1, <2>2
<1>5. TasksMade'
  BY <1>1 DEF IInv, TasksMade, CallsTyped, Task, own, Open, Lock, SignOut, StillSignedIn, SignIn
<1> QED BY <1>3, <1>4, <1>5 DEF IInv

\* A sign-out makes every call in flight a stale one and leaves nothing pending.
LEMMA SignedOutInductive ==
  ASSUME CallsTyped, IInv, SignedOut
  PROVE  IInv'
<1>1. /\ generation' = generation + 1 /\ generation \in Nat
      /\ rotation' = None /\ pending' = None /\ progress' = None /\ reconciling' = FALSE
      /\ UNCHANGED <<frame, current, live, deleted>>
  BY DEF SignedOut, Clear, CallsTyped
<1>2. \A s \in Slot : frame[s] # None => frame[s].ticket <= generation /\ frame[s].ticket \in Nat
  BY FrameTyped DEF IInv, TicketsPast, Frame
<1>3. Requests' = {} /\ Rotations' = {}
  BY <1>1, <1>2 DEF Requests, Rotations, At, Valid
<1>4. TicketsPast' /\ KeysOnScreen'
  BY <1>1, <1>2 DEF TicketsPast, IInv, KeysOnScreen
<1>5. TasksMade'
  BY <1>1 DEF SignedOut, IInv, TasksMade
<1> QED BY <1>1, <1>3, <1>4, <1>5, CoordinatorAssumption
        DEF IInv, RotationHeld, RequestServes, PendingNotDeleted, BannerTellsTheTruth

\* A new rotation: nothing is in flight that is not stale.
LEMMA HardRevokeInductive ==
  ASSUME CallsTyped, IInv, NEW s \in Slot, HardRevoke(s)
  PROVE  IInv'
<1> DEFINE f == [at |-> "commit", ticket |-> generation, of |-> current]
<1>1. /\ rotation = None /\ pending = None /\ rotation' = s
      /\ frame' = [frame EXCEPT ![s] = f]
      /\ UNCHANGED <<generation, pending, reconciling, progress, current, live, made, deleted>>
  BY DEF HardRevoke, screen
<1>2. f \in Frame /\ f # None /\ frame \in [Slot -> Frame \cup {None}]
  BY CoordinatorAssumption DEF Frame, CallsTyped
<1>3. Rotations = {} /\ Requests = {}
  BY <1>1, CoordinatorAssumption DEF IInv, RotationHeld, RequestServes, Rotations
<1>4. Rotations' = {s} /\ Requests' = {}
  BY <1>1, <1>2, <1>3 DEF Rotations, Requests, At, Valid
<1>5. TicketsPast'
  BY <1>1, <1>2 DEF IInv, TicketsPast, CallsTyped
<1>6. reconciling = FALSE
  BY <1>1 DEF IInv, RequestServes, CallsTyped
<1>7. RotationHeld'
  BY <1>1, <1>4 DEF RotationHeld
<1>8. RequestServes'
  BY <1>1, <1>4, <1>6 DEF RequestServes
<1>9. PendingNotDeleted' /\ BannerTellsTheTruth' /\ KeysOnScreen' /\ TasksMade'
  BY <1>1, <1>3, <1>4 DEF IInv, PendingNotDeleted, BannerTellsTheTruth, KeysOnScreen, TasksMade
<1> QED BY <1>5, <1>7, <1>8, <1>9 DEF IInv

\* A frame that ends, and was neither the pending task's request nor answered to it,
\* changes nothing but the rotation it may have held.
LEMMA FrameEnds ==
  ASSUME CallsTyped, IInv, NEW s \in Slot,
         At(s, "commit") \/ ~Valid(s),
         frame' = [frame EXCEPT ![s] = None],
         rotation' = IF rotation = s THEN None ELSE rotation,
         UNCHANGED <<generation, pending, reconciling, progress, deleted>>,
         KeysOnScreen', TasksMade'
  PROVE  IInv'
<1>1. Requests' = Requests /\ s \notin Requests
  BY DEF Requests, At, Valid, CallsTyped
<1>2. Rotations' = Rotations \ {s}
  BY DEF Rotations, At, Valid, CallsTyped
<1>3. TicketsPast'
  BY DEF IInv, TicketsPast, CallsTyped
<1>4. RotationHeld'
  BY <1>2, CoordinatorAssumption DEF IInv, RotationHeld
<1>5. \A t \in Requests : frame'[t] = frame[t]
  BY <1>1 DEF CallsTyped, Requests
<1>6. RequestServes'
  BY <1>1, <1>5 DEF IInv, RequestServes, At
<1>7. PendingNotDeleted' /\ BannerTellsTheTruth'
  BY <1>1 DEF IInv, PendingNotDeleted, BannerTellsTheTruth
<1> QED BY <1>3, <1>4, <1>6, <1>7 DEF IInv

\* A committed rotation: its task is new, and its DELETE the only request.
LEMMA CommittedInductive ==
  ASSUME CallsTyped, IInv, NEW s \in Slot, NEW self \in BOOLEAN, Committed(s, self)
  PROVE  IInv'
<1> DEFINE f == [at |-> "delete", ticket |-> generation, of |-> made + 1]
           task == [task |-> made + 1, phase |-> "revoke_pending"]
<1>1. /\ s \in Rotations
      /\ pending' = task /\ reconciling' = TRUE
      /\ progress' = [phase |-> "revoke_pending", busy |-> TRUE]
      /\ frame' = [frame EXCEPT ![s] = f]
      /\ UNCHANGED <<generation, deleted>>
  BY DEF Committed, Banner, Rotations
<1>2. rotation = s /\ pending = None
  BY <1>1, CoordinatorAssumption DEF IInv, RotationHeld
<1>3. rotation' = None
  BY <1>2 DEF Committed, Release
<1>4. Rotations = {s} /\ Requests = {}
  BY <1>1, <1>2 DEF IInv, RotationHeld, RequestServes, Rotations
<1>5. f \in Frame /\ f # None /\ frame \in [Slot -> Frame \cup {None}]
  BY CoordinatorAssumption DEF Frame, CallsTyped
<1>6. Requests' = {s}
  BY <1>1, <1>4, <1>5 DEF Requests, At, Valid
<1>7. Rotations' = {}
  BY <1>1, <1>4, <1>5 DEF Rotations, At, Valid
<1>8. task \in Task /\ made + 1 \notin deleted /\ TasksMade'
  <2>1. made + 1 \in 1 .. MaxVaults /\ made' = made + 1 /\ made \in Nat
    BY CoordinatorAssumption DEF Committed, CallsTyped
  <2>2. task \in Task
    BY <2>1 DEF Task, Phase
  <2>3. made + 1 \notin deleted /\ deleted' \subseteq 1 .. made'
    BY <1>1, <2>1 DEF IInv, TasksMade
  <2> QED BY <1>1, <2>1, <2>2, <2>3 DEF TasksMade
<1>9. TicketsPast'
  BY <1>1, <1>5 DEF IInv, TicketsPast, CallsTyped
<1>10. RotationHeld'
  BY <1>3, <1>7, CoordinatorAssumption DEF RotationHeld
<1>11. RequestServes'
  BY <1>1, <1>5, <1>6, <1>8, CoordinatorAssumption DEF RequestServes, At
<1>12. PendingNotDeleted' /\ BannerTellsTheTruth'
  BY <1>1, <1>6, <1>8, CoordinatorAssumption DEF PendingNotDeleted, BannerTellsTheTruth
<1>13. KeysOnScreen'
  BY DEF Committed, AdoptOrLock, IInv, KeysOnScreen
<1> QED BY <1>8, <1>9, <1>10, <1>11, <1>12, <1>13 DEF IInv

\* A check that the user asks for is the only one.
LEMMA ReconcileInductive ==
  ASSUME CallsTyped, IInv, NEW s \in Slot, Reconcile(s)
  PROVE  IInv'
<1> DEFINE f == [at |-> IF pending.phase = "revoke_pending" THEN "delete" ELSE "get",
                 ticket |-> generation, of |-> pending.task]
<1>1. /\ pending # None /\ ~reconciling /\ reconciling' = TRUE
      /\ progress' = [phase |-> pending.phase, busy |-> TRUE]
      /\ frame' = [frame EXCEPT ![s] = f]
      /\ frame[s] = None
      /\ UNCHANGED <<generation, rotation, pending, current, live, made, deleted>>
  BY DEF Reconcile, Banner, screen
<1>2. f \in Frame /\ f # None /\ frame \in [Slot -> Frame \cup {None}]
  BY <1>1, CoordinatorAssumption DEF Frame, CallsTyped, Task
<1>3. Requests = {} /\ rotation = None
  BY <1>1 DEF IInv, RequestServes, RotationHeld
<1>4. Requests' = {s} /\ Rotations' = Rotations
  BY <1>1, <1>2, <1>3 DEF Requests, Rotations, At, Valid
<1>5. TicketsPast'
  BY <1>1, <1>2 DEF IInv, TicketsPast, CallsTyped
<1>6. RequestServes'
  BY <1>1, <1>2, <1>4 DEF RequestServes, At
<1>7. RotationHeld' /\ PendingNotDeleted'
  BY <1>1, <1>4 DEF IInv, RotationHeld, PendingNotDeleted
<1>8. BannerTellsTheTruth' /\ KeysOnScreen' /\ TasksMade'
  BY <1>1, <1>4 DEF IInv, BannerTellsTheTruth, KeysOnScreen, TasksMade
<1> QED BY <1>5, <1>6, <1>7, <1>8 DEF IInv

\* The DELETE's answer turns the only request into the only request for the list.
LEMMA DeletedInductive ==
  ASSUME CallsTyped, IInv, NEW s \in Slot, Deleted(s)
  PROVE  IInv'
<1> DEFINE f == [frame[s] EXCEPT !.at = "get"]
<1>1. /\ s \in Requests /\ pending # None /\ pending.task = frame[s].of
      /\ pending' = [pending EXCEPT !.phase = "refresh_pending"]
      /\ progress' = [phase |-> "refresh_pending", busy |-> TRUE]
      /\ deleted' = deleted \cup {frame[s].of}
      /\ UNCHANGED <<generation, rotation, reconciling, current, live, made>>
  BY DEF Deleted, Serves, Banner, Requests, screen
<1>2. frame[s] \in Frame
  BY FrameTyped DEF Deleted, At
<1>3. /\ f \in Frame /\ f # None /\ f.at = "get" /\ f.ticket = frame[s].ticket
      /\ f.of = frame[s].of
  BY <1>2, CoordinatorAssumption DEF Frame
<1>4. frame' = [frame EXCEPT ![s] = f] /\ frame \in [Slot -> Frame \cup {None}]
  BY DEF Deleted, CallsTyped
<1>5. pending' \in Task /\ pending'.task = pending.task /\ pending'.phase = "refresh_pending"
  BY <1>1 DEF CallsTyped, Task, Phase
<1>6. Requests = {s} /\ reconciling
  BY <1>1 DEF IInv, RequestServes
<1>7. Requests' = {s}
  BY <1>1, <1>3, <1>4, <1>6 DEF Requests, At, Valid
<1>8. Rotations' = Rotations
  BY <1>1, <1>3, <1>4 DEF Requests, Rotations, At, Valid
<1>9. rotation = None
  BY <1>1 DEF IInv, RotationHeld
<1>10. TicketsPast'
  BY <1>1, <1>3, <1>4 DEF IInv, TicketsPast, CallsTyped, Requests, At
<1>11. RotationHeld' /\ KeysOnScreen'
  BY <1>1, <1>8, <1>9 DEF IInv, RotationHeld, KeysOnScreen
<1>12. RequestServes'
  BY <1>1, <1>3, <1>4, <1>5, <1>6, <1>7, CoordinatorAssumption DEF RequestServes, At
<1>13. PendingNotDeleted' /\ BannerTellsTheTruth'
  BY <1>1, <1>5, <1>7, CoordinatorAssumption DEF PendingNotDeleted, BannerTellsTheTruth
<1>14. TasksMade'
  BY <1>1, <1>5 DEF IInv, TasksMade, CallsTyped, Task
<1> QED BY <1>10, <1>11, <1>12, <1>13, <1>14 DEF IInv

\* The last answer of a task, or a failure, ends the only request.
LEMMA RequestEnds ==
  ASSUME CallsTyped, IInv, NEW s \in Slot, Listed(s) \/ RequestFails(s)
  PROVE  IInv'
<1>1. /\ s \in Requests /\ pending # None
      /\ reconciling' = FALSE /\ frame' = [frame EXCEPT ![s] = None]
      /\ UNCHANGED <<generation, rotation, current, live, made, deleted>>
      /\ \/ pending' = None /\ progress' = None
         \/ pending' = pending /\ progress' = [phase |-> pending.phase, busy |-> FALSE]
  BY DEF Listed, RequestFails, Serves, Banner, Requests, screen
<1>2. Requests = {s}
  BY <1>1 DEF IInv, RequestServes
<1>3. Requests' = {} /\ Rotations' = Rotations
  BY <1>1, <1>2 DEF Requests, Rotations, At, Valid, CallsTyped
<1>4. rotation = None
  BY <1>1 DEF IInv, RotationHeld
<1>5. TicketsPast'
  BY <1>1 DEF IInv, TicketsPast, CallsTyped
<1>6. RotationHeld' /\ RequestServes'
  BY <1>1, <1>3, <1>4 DEF IInv, RotationHeld, RequestServes
<1>7. PendingNotDeleted' /\ TasksMade' /\ KeysOnScreen'
  BY <1>1 DEF IInv, PendingNotDeleted, TasksMade, KeysOnScreen
<1>8. BannerTellsTheTruth'
  BY <1>1, <1>3 DEF BannerTellsTheTruth
<1> QED BY <1>5, <1>6, <1>7, <1>8 DEF IInv

\* The invariant is inductive.
LEMMA IInvInductive ==
  ASSUME CallsTyped, IInv, [Next]_vars
  PROVE  IInv'
<1>1. CASE Open \/ Lock \/ SignOut \/ StillSignedIn \/ SignIn
  BY <1>1, ScreenInductive
<1>2. CASE SignedOut
  BY <1>2, SignedOutInductive
<1>3. ASSUME NEW s \in Slot, CommitFails(s) \/ CommittedTooLate(s) PROVE IInv'
  <2>1. KeysOnScreen'
    BY <1>3 DEF CommitFails, CommittedTooLate, screen, IInv, KeysOnScreen
  <2>2. made' \in {made, made + 1} /\ UNCHANGED <<pending, deleted>>
    BY <1>3 DEF CommitFails, CommittedTooLate, screen
  <2>3. TasksMade'
    BY <2>2 DEF IInv, TasksMade, CallsTyped, Task
  <2> QED BY <1>3, <2>1, <2>3, FrameEnds DEF CommitFails, CommittedTooLate, Release
<1>4. ASSUME NEW s \in Slot, StaleReply(s) PROVE IInv'
  <2>1. ~Valid(s)
    BY <1>4 DEF StaleReply, Serves, IInv, RequestServes, Requests
  <2>2. rotation # s
    BY <2>1 DEF IInv, RotationHeld, Rotations
  <2> QED BY <1>4, <2>1, <2>2, FrameEnds DEF StaleReply, screen, IInv, KeysOnScreen, TasksMade
<1>5. CASE UNCHANGED vars
  <2>1. Requests' = Requests /\ Rotations' = Rotations
    BY <1>5 DEF vars, Requests, Rotations, At, Valid
  <2>2. TasksMade' /\ TicketsPast' /\ RotationHeld' /\ PendingNotDeleted' /\ KeysOnScreen'
    BY <1>5, <2>1 DEF vars, IInv, TasksMade, TicketsPast, RotationHeld, PendingNotDeleted,
                      KeysOnScreen
  <2>3. RequestServes' /\ BannerTellsTheTruth'
    BY <1>5, <2>1 DEF vars, IInv, RequestServes, BannerTellsTheTruth, At
  <2> QED BY <2>2, <2>3 DEF IInv
<1> QED BY <1>1, <1>2, <1>3, <1>4, <1>5, HardRevokeInductive, ReconcileInductive,
           CommittedInductive, DeletedInductive, RequestEnds DEF Next

\* Every reachable state satisfies the invariant.
LEMMA InvariantHolds == Spec => [](CallsTyped /\ IInv)
<1>1. Init => IInv
  <2>1. ASSUME Init PROVE Requests = {} /\ Rotations = {}
    BY <2>1 DEF Init, Requests, Rotations, At
  <2>2. Init => TasksMade /\ TicketsPast /\ PendingNotDeleted /\ KeysOnScreen
    BY DEF Init, TasksMade, TicketsPast, PendingNotDeleted, KeysOnScreen
  <2>3. Init => RotationHeld /\ BannerTellsTheTruth
    BY <2>1, CoordinatorAssumption DEF Init, RotationHeld, BannerTellsTheTruth
  <2>4. Init => RequestServes
    BY <2>1 DEF Init, RequestServes
  <2> QED BY <2>2, <2>3, <2>4 DEF IInv
<1>2. CallsTyped /\ IInv /\ [Next]_vars => IInv'
  BY IInvInductive
<1> QED BY <1>1, <1>2, TypeCorrect, PTL DEF Spec, TypeOK

\* The banner tells what is pending and whether its request is in flight.
THEOREM BannerTellsTheTruthHolds == Spec => []BannerTellsTheTruth
<1>1. IInv => BannerTellsTheTruth
  BY DEF IInv
<1> QED BY <1>1, InvariantHolds, PTL

\* Every vault object that is not on the screen has lost its key.
THEOREM KeysOnScreenHolds == Spec => []KeysOnScreen
<1>1. IInv => KeysOnScreen
  BY DEF IInv
<1> QED BY <1>1, InvariantHolds, PTL

\* An acknowledged DELETE is not sent again.
THEOREM DeleteNotRepeatedHolds == Spec => []DeleteNotRepeated
<1>1. IInv => DeleteNotRepeated
  BY DEF IInv, RequestServes, PendingNotDeleted, DeleteNotRepeated
<1> QED BY <1>1, InvariantHolds, PTL

\* One rotation between two sign-outs: in flight, or waiting for its DELETE.
THEOREM OneRotationHolds == Spec => []OneRotation
<1>1. IInv => OneRotation
  <2> SUFFICES ASSUME IInv PROVE OneRotation
    OBVIOUS
  <2>1. CASE rotation \in Slot
    <3>1. Rotations = {rotation} /\ pending = None
      BY <2>1, CoordinatorAssumption DEF IInv, RotationHeld, Rotations
    <3>2. Cardinality({rotation}) = 1
      BY FS_Singleton
    <3> QED BY <3>1, <3>2 DEF OneRotation
  <2>2. CASE rotation \notin Slot
    <3>1. Rotations = {}
      BY <2>2 DEF IInv, RotationHeld, Rotations
    <3>2. Cardinality({}) = 0
      BY FS_EmptySet
    <3> QED BY <3>1, <3>2 DEF OneRotation
  <2> QED BY <2>1, <2>2
<1> QED BY <1>1, InvariantHolds, PTL

\* One DELETE or GET at a time, and `reconciling' says whether there is one.
THEOREM OneRequestHolds == Spec => []OneRequest
<1>1. CallsTyped /\ IInv => OneRequest
  <2> SUFFICES ASSUME CallsTyped, IInv PROVE OneRequest
    OBVIOUS
  <2>1. CASE reconciling
    <3>1. PICK s \in Requests : Requests = {s}
      BY <2>1 DEF IInv, RequestServes
    <3>2. Cardinality({s}) = 1
      BY FS_Singleton
    <3> QED BY <2>1, <3>1, <3>2 DEF OneRequest, IInv, RequestServes
  <2>2. CASE ~reconciling
    <3>1. Requests = {}
      BY <2>2 DEF IInv, RequestServes
    <3>2. Cardinality({}) = 0
      BY FS_EmptySet
    <3> QED BY <2>2, <3>1, <3>2 DEF OneRequest
  <2> QED BY <2>1, <2>2
<1> QED BY <1>1, InvariantHolds, PTL

\* A rotation that comes back opens no screen and replaces no vault but its own.
THEOREM NeverReopensHolds == Spec => NeverReopens
<1> DEFINE A == current' \notin {0, current} =>
                  \/ current = 0 /\ frame' = frame
                  \/ \E s \in Rotations : frame[s].of = current /\ frame'[s] # frame[s]
<1>1. CallsTyped /\ [Next]_vars => [A]_vars
  <2> SUFFICES ASSUME CallsTyped, Next, current' \notin {0, current}
               PROVE  A
    BY DEF vars
  <2>1. CASE Open
    BY <2>1 DEF Open
  <2>2. ASSUME NEW s \in Slot, NEW self \in BOOLEAN, Committed(s, self) PROVE A
    <3>1. s \in Rotations /\ frame[s].of = current
      BY <2>2 DEF Committed, AdoptOrLock, Rotations
    <3>2. frame'[s].at = "delete" /\ frame[s].at = "commit"
      BY <2>2 DEF Committed, At, CallsTyped
    <3> QED BY <3>1, <3>2
  <2>3. CASE ~Open /\ \A s \in Slot, self \in BOOLEAN : ~Committed(s, self)
    BY <2>3
    DEF Next, Lock, SignOut, SignedOut, StillSignedIn, SignIn, HardRevoke, CommitFails,
        CommittedTooLate, Reconcile, Deleted, Listed, RequestFails, StaleReply, screen
  <2> QED BY <2>1, <2>2, <2>3
<1> QED BY <1>1, TypeCorrect, PTL DEF Spec, TypeOK, NeverReopens
================================================================================
