------------------------------- MODULE Access -------------------------------
(* API keys: authentication, the rate limit of a key and the scope of a request
   (api_key_auth.py, api_key_middleware.py).

   One key and the requests made with it. Each request runs a transaction that
   begins, waits for the row of the key, checks the key and takes a slot of the
   window; then a second one decides the scope, and the access is logged before the
   handler runs. NOW() is the time the transaction began; the service compares with
   its clock at the moment it reads the window. A minute is MinuteLength ticks. *)
EXTENDS Naturals, FiniteSets

CONSTANTS
  Requests,      \* requests made with the key
  Limit,         \* api_keys.rate_limit_per_minute
  MinuteLength,  \* ticks of a minute
  Horizon,       \* bound: the last tick
  Expires        \* api_keys.expires_at

NoRequest == 0

ASSUME AccessAssumption ==
  /\ NoRequest \notin Requests
  /\ Limit \in Nat \ {0} /\ MinuteLength \in Nat \ {0} /\ Horizon \in Nat /\ Expires \in Nat

VARIABLES
  clock,     \* the time
  revoked,   \* api_keys.revoked_at is set
  scoped,    \* the CNJ is in the scope of the key, or in the portfolio of its tenant
  keyRow,    \* the request that holds the row of the key
  window,    \* api_key_rate_limits: start and count
  request,   \* each request: place, start of its transaction, count it read, when it was let in
  granted,   \* ghost: slots given since the window was last reset
  log        \* access_log: who was served or denied

accessVars == <<clock, revoked, scoped, keyRow, window, request, granted, log>>

NotAdmitted == Horizon + 1

Unstarted == [pc |-> "unsent", began |-> 0, read |-> 0, admitted |-> NotAdmitted]

\* The first request creates the row with the current minute and no request.
AccessInit ==
  /\ clock = 0
  /\ revoked = FALSE
  /\ scoped = TRUE
  /\ keyRow = NoRequest
  /\ window = [start |-> 0, count |-> 0]
  /\ request = [r \in Requests |-> Unstarted]
  /\ granted = 0
  /\ log = {}

MinuteOf(t) == t - (t % MinuteLength)

-----------------------------------------------------------------------------
(* The world. *)

TickAccess ==
  /\ clock < Horizon
  /\ clock' = clock + 1
  /\ UNCHANGED <<revoked, scoped, keyRow, window, request, granted, log>>

\* An operator revokes the key: the update waits for the row.
RevokeKey ==
  /\ ~revoked
  /\ keyRow = NoRequest
  /\ revoked' = TRUE
  /\ UNCHANGED <<clock, scoped, keyRow, window, request, granted, log>>

\* The CNJ leaves the scope of the key.
LeaveScope ==
  /\ scoped
  /\ scoped' = FALSE
  /\ UNCHANGED <<clock, revoked, keyRow, window, request, granted, log>>

-----------------------------------------------------------------------------
(* The transaction of authentication. *)

Move(r, pc) == request' = [request EXCEPT ![r].pc = pc]

\* The transaction begins; the row of the key may be taken.
BeginAuthentication(r) ==
  /\ request[r].pc = "unsent"
  /\ request' = [request EXCEPT ![r].pc = "waiting", ![r].began = clock]
  /\ UNCHANGED <<clock, revoked, scoped, keyRow, window, granted, log>>

KeyIsValid == ~revoked /\ clock < Expires

\* Mutant: neither the row of the key nor that of the window is read FOR UPDATE.
ReadKeyUnlocked(r) ==
  /\ request[r].pc = "waiting"
  /\ Move(r, IF KeyIsValid THEN "valid" ELSE "refused")
  /\ UNCHANGED <<clock, revoked, scoped, keyRow, window, granted, log>>

\* The row is locked, and read as it is then.
LockKey(r) ==
  /\ request[r].pc = "waiting"
  /\ keyRow = NoRequest
  /\ IF KeyIsValid
     THEN Move(r, "valid") /\ keyRow' = r
     ELSE Move(r, "refused") /\ UNCHANGED keyRow
  /\ UNCHANGED <<clock, revoked, scoped, window, granted, log>>

\* The window is read and compared with the clock of the service. Its row is read FOR UPDATE
\* too, which only whoever holds that of the key asks for: the lock is left out.
ReadWindow(r) ==
  /\ request[r].pc = "valid"
  /\ CASE clock - window.start >= MinuteLength ->
            /\ request' = [request EXCEPT ![r].pc = "reset", ![r].admitted = clock]
            /\ UNCHANGED keyRow
       [] clock - window.start < MinuteLength /\ window.count >= Limit ->
            Move(r, "limited") /\ keyRow' = IF keyRow = r THEN NoRequest ELSE keyRow
       [] OTHER ->
            /\ request' = [request EXCEPT ![r].pc = "count", ![r].read = window.count,
                                          ![r].admitted = clock]
            /\ UNCHANGED keyRow
  /\ UNCHANGED <<clock, revoked, scoped, window, granted, log>>

\* The slot is written and the transaction commits: a new window starts at the minute
\* in which the transaction began.
TakeSlot(r) ==
  /\ request[r].pc \in {"reset", "count"}
  /\ IF request[r].pc = "reset"
     THEN window' = [start |-> MinuteOf(request[r].began), count |-> 1] /\ granted' = 1
     ELSE window' = [window EXCEPT !.count = request[r].read + 1] /\ granted' = granted + 1
  /\ Move(r, "identified")
  /\ keyRow' = IF keyRow = r THEN NoRequest ELSE keyRow
  /\ UNCHANGED <<clock, revoked, scoped, log>>

\* The service or its connection dies: the transaction is rolled back, and whatever
\* was committed stays.
AbandonRequest(r) ==
  /\ request[r].pc \in {"waiting", "valid", "reset", "count", "identified", "allowed"}
  /\ request' = [request EXCEPT ![r].pc = "gone",
                   ![r].admitted = IF request[r].pc \in {"identified", "allowed"} THEN @ ELSE NotAdmitted]
  /\ keyRow' = IF keyRow = r THEN NoRequest ELSE keyRow
  /\ UNCHANGED <<clock, revoked, scoped, window, granted, log>>

-----------------------------------------------------------------------------
(* Authorization and the audit log. *)

\* A CNJ out of scope is not found; the denial is logged in the same transaction.
DecideScope(r) ==
  /\ request[r].pc = "identified"
  /\ IF scoped THEN Move(r, "allowed") /\ UNCHANGED log
               ELSE Move(r, "denied") /\ log' = log \cup {r}
  /\ UNCHANGED <<clock, revoked, scoped, keyRow, window, granted>>

\* The access is logged, then the handler runs.
ServeRequest(r) ==
  /\ request[r].pc = "allowed"
  /\ log' = log \cup {r}
  /\ Move(r, "served")
  /\ UNCHANGED <<clock, revoked, scoped, keyRow, window, granted>>

AccessNext ==
  \/ TickAccess \/ RevokeKey \/ LeaveScope
  \/ \E r \in Requests :
       \/ BeginAuthentication(r) \/ LockKey(r) \/ ReadWindow(r) \/ TakeSlot(r)
       \/ AbandonRequest(r) \/ DecideScope(r) \/ ServeRequest(r)

AccessSpec == AccessInit /\ [][AccessNext]_accessVars

-----------------------------------------------------------------------------
(* Properties. *)

\* Every slot that was given is counted: no two requests write the same count
\* (FOR UPDATE in authenticate_api_key_identity).
NoSlotIsLost == window.count = granted

\* A key that was revoked before its row was read identifies no request, however
\* long the request waited: only those already past the check go on.
RevokedIsRefused ==
  [][revoked => \A r \in Requests :
       request'[r].pc = "identified" => request[r].pc = "identified"]_accessVars

\* What "rate_limit_per_minute" says: no more than Limit requests pass in a minute of
\* the clock. The code does not keep it: a request that waited for the row over the end
\* of a minute sets the window back to the minute before, with a count of one.
RateLimitHolds ==
  \A k \in 0..(Horizon \div MinuteLength) :
    Cardinality({r \in Requests :
      /\ request[r].pc \notin {"reset", "count"} /\ request[r].admitted # NotAdmitted
      /\ MinuteOf(request[r].admitted) = k * MinuteLength}) <= Limit
=============================================================================
