--------------------------- MODULE TrackingProofs ---------------------------
(***************************************************************************)
(* Theorems about Tracking, for every number of changes of mind and of     *)
(* refreshes.                                                              *)
(***************************************************************************)
EXTENDS Tracking, TLAPS

-----------------------------------------------------------------------------
(* The inductive invariant of the row and its jobs *)

Open == {"pending", "loaded", "gone"}

\* The jobs of the attempts to come do not exist.
Future == \A n \in Tries : n > attempt => task[n] = "none"

\* The row knows a provider id only of a creation that is over, and none while
\* it is being created, has failed or is deleted.
KnownEnded == known # None => At(known, "create", "ended")
KnownNone == status \in {"absent", "creating", "failed", "deleted"} => known = None

\* A creation that is done, but not recorded, is at the provider.
MadeIsLive == \A n \in Tries : At(n, "create", "made") => n \in live

\* The deletion at work is the last attempt, and the row waits for it.
OneDelete == \A n \in Tries :
    task[n] = "delete" /\ stage[n] \in Open => status = "deleting" /\ n = attempt

\* It deletes what the row knows, and records only what is gone.
LoadedIsKnown == \A n \in Tries : At(n, "delete", "loaded") => target[n] = known
GoneIsGone == \A n \in Tries : At(n, "delete", "gone") => known \notin live

RowInv ==
    /\ TypeOK
    /\ Future /\ KnownEnded /\ KnownNone
    /\ MadeIsLive /\ OneDelete /\ LoadedIsKnown /\ GoneIsGone
    /\ ActiveIsLive

-----------------------------------------------------------------------------
(* The inductive invariant of the refreshes *)

InFlight(r) == worker[r] \notin {"none", "ended"}

\* The refresh of a job at work is open, and so is one that the provider has accepted
\* and not completed, unless its answer was ambiguous.
FlightIsPending == \A r \in Refreshes : InFlight(r) => refresh[r] = "pending"
AskedIsOpen == \A r \in asked \ completed :
    refresh[r] \in {"pending", "processing", "failed_ambiguous"}

\* Nothing is asked before the call of the job, or when the provider has rejected it.
NotAskedYet == \A r \in asked :
    refresh[r] # "absent" /\ worker[r] \notin {"pending", "loaded", "rejected"}

\* A request id is stored when the refresh is no longer pending.
StoredLater == \A r \in stored : refresh[r] \notin {"absent", "pending"}

\* The unique index.
OneOpen == \A r, s \in Refreshes :
    /\ refresh[r] \in {"pending", "processing"}
    /\ refresh[s] \in {"pending", "processing"}
    => r = s

RefreshInv ==
    TypeOK /\ FlightIsPending /\ AskedIsOpen /\ NotAskedYet /\ StoredLater /\ OneOpen

-----------------------------------------------------------------------------
(* Type correctness *)

\* The requests of the user keep the types: create_tracking, delete_tracking.
LEMMA RequestType ==
    ASSUME TypeOK, CreateTracking \/ DeleteTracking
    PROVE  TypeOK'
<1>1. /\ attempt + 1 \in Tries
      /\ attempt' = attempt + 1
  BY TrackingAssumption DEF CreateTracking, DeleteTracking, NewAttempt, TypeOK, Tries
<1>2. CASE CreateTracking
  BY <1>1, <1>2 DEF TypeOK, CreateTracking, NewAttempt, Tries, Stages, None, refreshing
<1>3. CASE DeleteTracking
  BY <1>1, <1>3 DEF TypeOK, DeleteTracking, NewAttempt, Tries, Stages, None, refreshing
<1> QED BY <1>2, <1>3

\* The two tasks of a tracking keep the types.
LEMMA TaskType ==
    ASSUME TypeOK, NEW n \in Tries, TaskStep(n) \/ LoseTask(n)
    PROVE  TypeOK'
<1>1. CASE LoadCreate(n)
  BY <1>1 DEF TypeOK, LoadCreate, Stages, refreshing
<1>2. CASE CallCreate(n)
  BY <1>2 DEF TypeOK, CallCreate, Stages, refreshing
<1>3. CASE RecordCreate(n)
  BY <1>3 DEF TypeOK, RecordCreate, Stages, refreshing
<1>4. CASE LoadDelete(n)
  BY <1>4 DEF TypeOK, LoadDelete, Stages, refreshing
<1>5. CASE CallDelete(n)
  BY <1>5 DEF TypeOK, CallDelete, AfterDelete, Stages, refreshing
<1>6. CASE RecordDelete(n)
  BY <1>6 DEF TypeOK, RecordDelete, Stages, refreshing
<1>7. CASE LoseTask(n)
  BY <1>7 DEF TypeOK, LoseTask, Stages, refreshing
<1> QED BY <1>1, <1>2, <1>3, <1>4, <1>5, <1>6, <1>7 DEF TaskStep

RefreshMove(r) == Reconcile(r) \/ RefreshStep(r) \/ LoseRefresh(r) \/ CompleteRequest(r)

\* The scheduler, the task of a refresh and the trigger of its completion keep
\* the types.
LEMMA RefreshType ==
    ASSUME TypeOK, NEW r \in Refreshes, RefreshMove(r)
    PROVE  TypeOK'
<1>1. CASE Reconcile(r)
  BY <1>1 DEF TypeOK, Reconcile, tracking
<1>2. CASE LoadRefresh(r)
  BY <1>2 DEF TypeOK, LoadRefresh, tracking
<1>3. CASE CallRefresh(r)
  BY <1>3 DEF TypeOK, CallRefresh, tracking
<1>4. CASE RecordRefresh(r)
  BY <1>4 DEF TypeOK, RecordRefresh, RefreshOutcome, tracking
<1>5. CASE LoseRefresh(r)
  BY <1>5 DEF TypeOK, LoseRefresh, tracking
<1>6. CASE CompleteRequest(r)
  BY <1>6 DEF TypeOK, CompleteRequest, tracking
<1> QED BY <1>1, <1>2, <1>3, <1>4, <1>5, <1>6 DEF RefreshMove, RefreshStep

\* The steps of the specification, by the part of the state they move.
LEMMA NextCases ==
    ASSUME Next
    PROVE  \/ CreateTracking \/ DeleteTracking
           \/ \E n \in Tries : TaskStep(n) \/ LoseTask(n)
           \/ \E r \in Refreshes : RefreshMove(r)
BY DEF Next, RefreshMove

\* Every reachable state of a tracking, its jobs and its refreshes is well typed.
THEOREM TypeCorrect == Spec => []TypeOK
<1>1. Init => TypeOK
  BY TrackingAssumption DEF Init, TypeOK, Tries, None, Stages
<1>2. TypeOK /\ [Next]_vars => TypeOK'
  <2>1. ASSUME TypeOK, Next PROVE TypeOK'
    BY <2>1, NextCases, RequestType, TaskType, RefreshType
  <2>2. ASSUME TypeOK, UNCHANGED vars PROVE TypeOK'
    BY <2>2 DEF TypeOK, vars
  <2> QED BY <2>1, <2>2
<1> QED BY <1>1, <1>2, PTL DEF Spec

-----------------------------------------------------------------------------
(* The row shows what the provider has *)

\* What the user asks for starts a new attempt and gives up no provider id.
LEMMA RequestRow ==
    ASSUME RowInv, CreateTracking \/ DeleteTracking
    PROVE  RowInv' /\ (known # None => known' = known)
<1>0. TypeOK' BY RequestType DEF RowInv
<1>1. /\ attempt + 1 \in Tries
      /\ attempt' = attempt + 1
      /\ \A n \in Tries : n # attempt + 1 => task'[n] = task[n] /\ stage'[n] = stage[n]
      /\ stage'[attempt + 1] = "pending"
      /\ target' = target /\ live' = live
  BY TrackingAssumption
  DEF RowInv, TypeOK, CreateTracking, DeleteTracking, NewAttempt, Tries
<1>2. task[attempt + 1] = "none" BY <1>1 DEF RowInv, TypeOK, Future, Tries
<1>3. known' = known
  BY DEF RowInv, KnownNone, CreateTracking, DeleteTracking, TypeOK
<1>4. \/ status' = "creating" /\ known' = None /\ task'[attempt + 1] = "create"
      \/ status' = "deleting" /\ task'[attempt + 1] = "delete"
  BY <1>1 DEF CreateTracking, DeleteTracking, NewAttempt, RowInv, TypeOK
<1>5. Future'
  BY <1>1 DEF RowInv, Future, TypeOK, Tries
<1>6. KnownEnded' BY <1>1, <1>2, <1>3 DEF RowInv, KnownEnded, At, TypeOK, None
<1>7. KnownNone' BY <1>4 DEF KnownNone
<1>8. MadeIsLive' /\ LoadedIsKnown' /\ GoneIsGone'
  BY <1>1, <1>3 DEF RowInv, MadeIsLive, LoadedIsKnown, GoneIsGone, At
<1>9. OneDelete'
  <2>1. \A n \in Tries : ~(task[n] = "delete" /\ stage[n] \in Open)
    BY DEF RowInv, OneDelete, CreateTracking, DeleteTracking
  <2> QED BY <1>1, <1>4, <2>1 DEF OneDelete
<1>10. ActiveIsLive' BY <1>4 DEF ActiveIsLive
<1> QED BY <1>0, <1>3, <1>5, <1>6, <1>7, <1>8, <1>9, <1>10 DEF RowInv

\* create_judit_tracking_task writes to the row only while it is being created.
LEMMA CreateRow ==
    ASSUME RowInv, NEW n \in Tries, LoadCreate(n) \/ CallCreate(n) \/ RecordCreate(n)
    PROVE  RowInv' /\ (known # None => known' = known)
<1>0. TypeOK' BY TaskType DEF RowInv, TaskStep
<1>1. CASE LoadCreate(n)
  BY <1>0, <1>1
  DEF LoadCreate, RowInv, TypeOK, Future, KnownEnded, KnownNone, MadeIsLive, OneDelete,
      LoadedIsKnown, GoneIsGone, ActiveIsLive, At, Open
<1>2. CASE CallCreate(n)
  <2>1. live \subseteq live' /\ live' \subseteq live \cup {n} /\ (stage'[n] = "made" => n \in live')
    BY <1>2 DEF CallCreate, RowInv, TypeOK
  <2>2. known # n
    BY <1>2 DEF CallCreate, RowInv, KnownEnded, At, None, Tries
  <2>3. stage' = [stage EXCEPT ![n] = stage'[n]] /\ stage'[n] \in {"made", "refused"}
    BY <1>2 DEF CallCreate, RowInv, TypeOK
  <2> QED BY <1>0, <1>2, <2>1, <2>2, <2>3
  DEF CallCreate, RowInv, TypeOK, Future, KnownEnded, KnownNone, MadeIsLive, OneDelete,
      LoadedIsKnown, GoneIsGone, ActiveIsLive, At, Open
<1>3. CASE RecordCreate(n)
  <2>1. CASE StillCreating /\ stage[n] = "made"
    <3>1. n \in live BY <1>3, <2>1 DEF RecordCreate, RowInv, MadeIsLive, At
    <3>2. \A m \in Tries : ~(task[m] = "delete" /\ stage[m] \in Open)
      BY <2>1 DEF StillCreating, RowInv, OneDelete
    <3>3. known = None BY <2>1 DEF StillCreating, RowInv, KnownNone
    <3> QED BY <1>0, <1>3, <2>1, <3>1, <3>2, <3>3
    DEF RecordCreate, RowInv, TypeOK, Future, KnownEnded, KnownNone, MadeIsLive, OneDelete,
        LoadedIsKnown, GoneIsGone, ActiveIsLive, At, Open
  <2>2. CASE ~(StillCreating /\ stage[n] = "made")
    BY <1>0, <1>3, <2>2
    DEF RecordCreate, StillCreating, RowInv, TypeOK, Future, KnownEnded, KnownNone,
        MadeIsLive, OneDelete, LoadedIsKnown, GoneIsGone, ActiveIsLive, At, Open
  <2> QED BY <2>1, <2>2
<1> QED BY <1>1, <1>2, <1>3

\* delete_judit_tracking_task forgets the provider id only when it is gone.
LEMMA DeleteRow ==
    ASSUME RowInv, NEW n \in Tries, LoadDelete(n) \/ CallDelete(n) \/ RecordDelete(n)
    PROVE  RowInv' /\ (known # None /\ known' # known => known \notin live)
<1>0. TypeOK' BY TaskType DEF RowInv, TaskStep
<1>1. /\ status = "deleting" /\ task[n] = "delete"
      /\ n = attempt
      /\ \A m \in Tries : m # n => ~(task[m] = "delete" /\ stage[m] \in Open)
  BY DEF LoadDelete, CallDelete, RecordDelete, RowInv, OneDelete, At, Open
<1>2. CASE LoadDelete(n)
  BY <1>0, <1>1, <1>2
  DEF LoadDelete, RowInv, TypeOK, Future, KnownEnded, KnownNone, MadeIsLive, OneDelete,
      LoadedIsKnown, GoneIsGone, ActiveIsLive, At, Open, None, Tries
<1>3. CASE CallDelete(n)
  <2>1. target[n] = known /\ stage[n] = "loaded"
    BY <1>3 DEF CallDelete, RowInv, LoadedIsKnown, At
  <2>2. /\ stage' = [stage EXCEPT ![n] = stage'[n]]
        /\ stage'[n] \in {"gone", "ended"}
        /\ live' \subseteq live /\ live \subseteq live' \cup {known}
    BY <1>3, <2>1 DEF CallDelete, AfterDelete, RowInv, TypeOK
  <2>3. stage'[n] = "gone" => known \notin live'
    BY <1>3, <2>1 DEF CallDelete, AfterDelete, RowInv, TypeOK
  <2>4. \A m \in Tries : At(m, "create", "made") => m # known
    BY DEF RowInv, KnownEnded, At, None, Tries
  <2> QED BY <1>0, <1>1, <1>3, <2>1, <2>2, <2>3, <2>4
  DEF CallDelete, RowInv, TypeOK, Future, KnownEnded, KnownNone, MadeIsLive, OneDelete,
      LoadedIsKnown, GoneIsGone, ActiveIsLive, At, Open
<1>4. CASE RecordDelete(n)
  <2>1. known \notin live BY <1>4 DEF RecordDelete, RowInv, GoneIsGone
  <2> QED BY <1>0, <1>1, <1>4, <2>1
  DEF RecordDelete, RowInv, TypeOK, Future, KnownEnded, KnownNone, MadeIsLive, OneDelete,
      LoadedIsKnown, GoneIsGone, ActiveIsLive, At, Open
<1> QED BY <1>2, <1>3, <1>4

\* A lost task leaves the row as it is.
LEMMA LoseRow ==
    ASSUME RowInv, NEW n \in Tries, LoseTask(n)
    PROVE  RowInv' /\ known' = known
<1>0. TypeOK' BY TaskType DEF RowInv
<1> QED BY <1>0
  DEF LoseTask, RowInv, TypeOK, Future, KnownEnded, KnownNone, MadeIsLive, OneDelete,
      LoadedIsKnown, GoneIsGone, ActiveIsLive, At, Open

\* Every step keeps the invariant of the row and the provider id that is still live.
LEMMA RowStep ==
    ASSUME RowInv, [Next]_vars
    PROVE  RowInv' /\ (known # None /\ known' # known => known \notin live)
<1>1. CASE CreateTracking \/ DeleteTracking BY <1>1, RequestRow
<1>2. ASSUME NEW n \in Tries, TaskStep(n) \/ LoseTask(n)
      PROVE  RowInv' /\ (known # None /\ known' # known => known \notin live)
  BY <1>2, CreateRow, DeleteRow, LoseRow DEF TaskStep
<1>3. ASSUME UNCHANGED tracking, TypeOK'
      PROVE  RowInv' /\ (known # None /\ known' # known => known \notin live)
  BY <1>3 DEF tracking, RowInv, Future, KnownEnded, KnownNone, MadeIsLive, OneDelete,
              LoadedIsKnown, GoneIsGone, ActiveIsLive, At
<1>4. ASSUME NEW r \in Refreshes, RefreshMove(r) PROVE UNCHANGED tracking /\ TypeOK'
  BY <1>4, RefreshType
  DEF RowInv, RefreshMove, RefreshStep, Reconcile, LoadRefresh, CallRefresh, RecordRefresh,
      LoseRefresh, CompleteRequest
<1>5. CASE UNCHANGED vars
  BY <1>3, <1>5 DEF vars, tracking, RowInv, TypeOK
<1> QED BY <1>1, <1>2, <1>3, <1>4, <1>5, NextCases

\* The invariant of the row holds in every reachable state.
LEMMA RowInvariant == Spec => []RowInv
<1>1. Init => RowInv
  <2>1. Init => TypeOK BY TrackingAssumption DEF Init, TypeOK, Tries, None, Stages
  <2> QED BY <2>1
  DEF Init, RowInv, Future, KnownEnded, KnownNone, MadeIsLive, OneDelete, LoadedIsKnown,
      GoneIsGone, ActiveIsLive, At
<1>2. RowInv /\ [Next]_vars => RowInv' BY RowStep
<1> QED BY <1>1, <1>2, PTL DEF Spec

\* A tracking shown as active exists at the provider, however late the attempts
\* of create_judit_tracking_task and delete_judit_tracking_task write.
THEOREM ActiveTrackingsAreLive == Spec => []ActiveIsLive
<1>1. RowInv => ActiveIsLive BY DEF RowInv
<1> QED BY <1>1, RowInvariant, PTL

\* A failed or overtaken deletion never forgets a tracking that the provider still
\* has: RecordDelete is reached with the provider's answer only.
THEOREM HandlesAreKept == Spec => HandleKept
<1>1. RowInv /\ [Next]_vars => [known # None /\ known' # known => known \notin live]_vars
  BY RowStep
<1> QED BY <1>1, RowInvariant, PTL DEF Spec, HandleKept

\* A creation that a deletion has overtaken does not bring the tracking back: the
\* guard of create_judit_tracking_task on the status creating.
THEOREM DeletedStaysDeleted == Spec => DeletedStays
<1>1. TypeOK /\ [Next]_vars => [status = "deleted" /\ status' # "deleted" => attempt' > attempt]_vars
  <2> SUFFICES ASSUME TypeOK, Next, status = "deleted", status' # "deleted"
               PROVE  attempt' > attempt
    OBVIOUS
  <2>1. CASE CreateTracking \/ DeleteTracking
    BY <2>1 DEF CreateTracking, DeleteTracking, NewAttempt, TypeOK
  <2>2. ASSUME NEW n \in Tries, TaskStep(n) \/ LoseTask(n) PROVE FALSE
    BY <2>2 DEF TaskStep, LoadCreate, CallCreate, RecordCreate, StillCreating, LoadDelete,
                CallDelete, RecordDelete, LoseTask
  <2>3. ASSUME NEW r \in Refreshes, RefreshMove(r) PROVE FALSE
    BY <2>3 DEF RefreshMove, RefreshStep, Reconcile, LoadRefresh, CallRefresh,
                RecordRefresh, LoseRefresh, CompleteRequest, tracking
  <2> QED BY <2>1, <2>2, <2>3, NextCases
<1> QED BY <1>1, TypeCorrect, PTL DEF Spec, DeletedStays

-----------------------------------------------------------------------------
(* One refresh at a time *)

\* The steps of a tracking and its jobs leave the refreshes alone.
LEMMA RowLeavesRefreshes ==
    ASSUME TypeOK, \/ CreateTracking \/ DeleteTracking
                   \/ \E n \in Tries : TaskStep(n) \/ LoseTask(n)
    PROVE  UNCHANGED refreshing
BY DEF CreateTracking, DeleteTracking, TaskStep, LoadCreate, CallCreate, RecordCreate,
       LoadDelete, CallDelete, RecordDelete, LoseTask

\* The life of a refresh keeps the invariant: the unique index is asked before a
\* refresh is inserted, and the request id is stored with the status processing.
LEMMA RefreshStepInv ==
    ASSUME RefreshInv, NEW r \in Refreshes, RefreshMove(r)
    PROVE  RefreshInv'
<1>0. TypeOK' BY RefreshType DEF RefreshInv
<1>1. CASE Reconcile(r)
  BY <1>0, <1>1
  DEF Reconcile, NoOpenRefresh, RefreshInv, TypeOK, FlightIsPending, InFlight, AskedIsOpen,
      OneOpen, NotAskedYet, StoredLater
<1>2. CASE LoadRefresh(r)
  BY <1>0, <1>2
  DEF LoadRefresh, RefreshInv, TypeOK, FlightIsPending, InFlight, AskedIsOpen, OneOpen,
      NotAskedYet, StoredLater
<1>3. CASE CallRefresh(r)
  <2>1. worker' = [worker EXCEPT ![r] = worker'[r]] /\ UNCHANGED <<refresh, stored, completed>>
    BY <1>3 DEF CallRefresh, RefreshInv, TypeOK
  <2> QED BY <1>0, <1>3, <2>1
  DEF CallRefresh, RefreshInv, TypeOK, FlightIsPending, InFlight, AskedIsOpen, OneOpen,
      NotAskedYet, StoredLater
<1>4. CASE RecordRefresh(r)
  <2>1. refresh[r] = "pending" /\ (worker[r] = "rejected" => r \notin asked)
    BY <1>4 DEF RecordRefresh, RefreshInv, FlightIsPending, InFlight, NotAskedYet, StoredLater
  <2>2. \/ /\ refresh' = [refresh EXCEPT ![r] = "processing"]
           /\ stored' = stored \cup {r}
        \/ /\ refresh' = [refresh EXCEPT ![r] = "failed_ambiguous"]
           /\ stored' = stored
        \/ /\ refresh' = [refresh EXCEPT ![r] = "failed_retryable"]
           /\ stored' = stored /\ r \notin asked
    BY <1>4, <2>1 DEF RecordRefresh, RefreshOutcome
  <2>3. worker' = [worker EXCEPT ![r] = "ended"] /\ UNCHANGED <<asked, completed>>
    BY <1>4 DEF RecordRefresh
  <2> QED BY <1>0, <2>1, <2>2, <2>3
  DEF RefreshInv, TypeOK, FlightIsPending, InFlight, AskedIsOpen, OneOpen, NotAskedYet, StoredLater
<1>5. CASE LoseRefresh(r)
  BY <1>0, <1>5
  DEF LoseRefresh, RefreshInv, TypeOK, FlightIsPending, InFlight, AskedIsOpen, OneOpen,
      NotAskedYet, StoredLater
<1>6. CASE CompleteRequest(r)
  BY <1>0, <1>6
  DEF CompleteRequest, RefreshInv, TypeOK, FlightIsPending, InFlight, AskedIsOpen, OneOpen,
      NotAskedYet, StoredLater
<1> QED BY <1>1, <1>2, <1>3, <1>4, <1>5, <1>6 DEF RefreshMove, RefreshStep

\* Two refreshes of a tracking are with a worker or at the provider at once only when
\* the answer to one of them was ambiguous.
THEOREM RefreshesAreSerial == Spec => []OnlyUnsureOverlap
<1>1. Init => RefreshInv
  <2>1. Init => TypeOK BY TrackingAssumption DEF Init, TypeOK, Tries, None, Stages
  <2> QED BY <2>1
  DEF Init, RefreshInv, FlightIsPending, InFlight, AskedIsOpen, OneOpen, NotAskedYet, StoredLater
<1>2. RefreshInv /\ [Next]_vars => RefreshInv'
  <2>1. ASSUME RefreshInv, UNCHANGED refreshing, TypeOK' PROVE RefreshInv'
    BY <2>1 DEF refreshing, RefreshInv, FlightIsPending, InFlight, AskedIsOpen, OneOpen,
                NotAskedYet, StoredLater
  <2>2. ASSUME RefreshInv, UNCHANGED vars PROVE RefreshInv'
    BY <2>1, <2>2 DEF vars, refreshing, RefreshInv, TypeOK
  <2>3. ASSUME RefreshInv, Next PROVE RefreshInv'
    <3>1. CASE \E r \in Refreshes : RefreshMove(r) BY <2>3, <3>1, RefreshStepInv
    <3>2. CASE \/ CreateTracking \/ DeleteTracking
               \/ \E n \in Tries : TaskStep(n) \/ LoseTask(n)
      <4>1. TypeOK' BY <2>3, <3>2, RequestType, TaskType DEF RefreshInv
      <4>2. UNCHANGED refreshing BY <2>3, <3>2, RowLeavesRefreshes DEF RefreshInv
      <4> QED BY <2>1, <2>3, <4>1, <4>2
    <3> QED BY <2>3, <3>1, <3>2, NextCases
  <2> QED BY <2>2, <2>3
<1>3. RefreshInv => OnlyUnsureOverlap
  BY DEF RefreshInv, FlightIsPending, InFlight, AskedIsOpen, OneOpen, OnlyUnsureOverlap,
         Undecided
<1> QED BY <1>1, <1>2, <1>3, PTL DEF Spec
=============================================================================
