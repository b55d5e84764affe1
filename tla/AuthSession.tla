---------------------------- MODULE AuthSession ----------------------------
(***************************************************************************)
(* One login of the API: its refresh token family, the rotations of the    *)
(* family, its session row, and the HTTP requests that refresh, use and    *)
(* end it at the same time, on any instance.  Families of other logins     *)
(* share no row with it.                                                   *)
(*                                                                         *)
(* A token pair is named by its generation: (family, generation) is unique *)
(* in refresh_token_rotations.  One step is one database transaction, one  *)
(* database statement or one Redis command; between two of them any other  *)
(* request may act.                                                        *)
(***************************************************************************)
EXTENDS Integers, FiniteSets

CONSTANTS
  Requests,  \* HTTP requests under way at the same time
  MaxGen     \* bound: the last generation a family reaches

ASSUME MaxGenAssumption == MaxGen \in Nat

VARIABLES
  login,     \* how far issueSession is
  family,    \* RefreshTokenFamily.status, "none" before the row exists
  current,   \* RefreshTokenFamily.currentGeneration
  reason,    \* RefreshTokenFamily.revokedReason, "none" for null
  rotation,  \* RefreshTokenRotation.status of each generation
  session,   \* UserSession.status
  lastUsed,  \* generation of UserSession.currentAccessJti
  late,      \* generations whose refresh token is past its expiry
  blacklist, \* token:blacklist keys: kind and generation
  redis,     \* whether Redis can be reached; it never comes back
  req,       \* a request: what it does next (at), the generations of the refresh token and
             \* of the access token it works on, the effects of a revocation still under way
  delivered, \* generations some client holds
  presented, \* history: refresh requests made with a generation, counted up to 2
  answered   \* history: logouts and forced logouts answered with success, "found" if they came
             \* upon the session row of this login, "missed" if it was not written yet

rows    == <<family, current, reason, rotation, session, lastUsed>>
history == <<delivered, presented, answered>>
vars    == <<login, rows, late, blacklist, redis, req, history>>

Generations == 0..MaxGen
Effects     == {"access", "refresh", "family"}
Pc == {"idle", "verified", "current", "replay", "expiring", "rotated",
       "authorised", "admitted", "revoking"}

Idle == [at |-> "idle", token |-> 0, access |-> 0, todo |-> {}]

Existing == {g \in Generations : rotation[g] # "none"}

(* verifyToken fails open: without Redis nothing is blacklisted.  A key lives until the expiry
   of its token, and verification tolerates a few seconds more. *)
Blacklisted(kind, g) == redis /\ <<kind, g>> \in blacklist /\ g \notin late

(* TokenBlacklistService.blacklist swallows the failure of Redis. *)
Blacklist(kind, g) == blacklist' = IF redis THEN blacklist \cup {<<kind, g>>} ELSE blacklist

At(r, label) == req[r].at = label
Go(r, label) == req' = [req EXCEPT ![r].at = label]
Done(r)      == req' = [req EXCEPT ![r] = Idle]

Init ==
  /\ login = "family"
  /\ family = "none" /\ current = 0 /\ reason = "none"
  /\ rotation = [g \in Generations |-> "none"]
  /\ session = "none" /\ lastUsed = 0
  /\ late = {} /\ blacklist = {} /\ redis = TRUE
  /\ req = [r \in Requests |-> Idle]
  /\ delivered = {} /\ presented = [g \in Generations |-> 0] /\ answered = {}
----------------------------------------------------------------------------
(* issueSession writes three rows one after the other; nobody holds a token before the last
   one is written, and a failure in between leaves the earlier rows behind. *)

CreateTokenFamily ==
  /\ login = "family" /\ login' = "rotation"
  /\ family' = "active" /\ current' = 0
  /\ UNCHANGED <<reason, rotation, session, lastUsed, late, blacklist, redis, req, history>>

CreateTokenRotation ==
  /\ login = "rotation" /\ login' = "session"
  /\ rotation' = [rotation EXCEPT ![0] = "active"]
  /\ UNCHANGED <<family, current, reason, session, lastUsed, late, blacklist, redis, req, history>>

CreateSessionRecord ==
  /\ login = "session" /\ login' = "done"
  /\ session' = "ACTIVE" /\ lastUsed' = 0
  /\ delivered' = {0}
  /\ UNCHANGED <<family, current, reason, rotation, late, blacklist, redis, req, presented, answered>>

LoginFails ==
  /\ login \in {"rotation", "session"} /\ login' = "failed"
  /\ UNCHANGED <<rows, late, blacklist, redis, req, history>>
----------------------------------------------------------------------------
(* The two transactions that end a family. *)

(* Mutant: the update of the family has no condition on its status. *)
RevokeOverwritingReason(why, replayed) ==
  /\ family'   = "revoked"
  /\ reason'   = why
  /\ rotation' = [g \in Generations |->
                    IF g \in replayed THEN "replayed"
                    ELSE IF rotation[g] \in {"active", "used"} THEN "revoked" ELSE rotation[g]]
  /\ session'  = IF session = "ACTIVE" THEN "REVOKED" ELSE session
  /\ UNCHANGED <<current, lastUsed>>

RevokeRefreshTokenFamily(why, replayed) ==
  /\ family'   = IF family = "active" THEN "revoked" ELSE family
  /\ reason'   = IF family = "active" THEN why ELSE reason
  /\ rotation' = [g \in Generations |->
                    IF g \in replayed THEN "replayed"
                    ELSE IF rotation[g] \in {"active", "used"} THEN "revoked" ELSE rotation[g]]
  /\ session'  = IF session = "ACTIVE" THEN "REVOKED" ELSE session
  /\ UNCHANGED <<current, lastUsed>>

(* Mutant: the update of the session has no condition on its status. *)
ExpireAnySession ==
  /\ family'  = IF family = "active" THEN "expired" ELSE family
  /\ reason'  = IF family = "active" THEN "expired" ELSE reason
  /\ session' = "EXPIRED"
  /\ UNCHANGED <<current, rotation, lastUsed>>

(* Mutant: the session gets the status of a family. *)
ExpireWithFamilyStatus ==
  /\ family'  = IF family = "active" THEN "expired" ELSE family
  /\ reason'  = IF family = "active" THEN "expired" ELSE reason
  /\ session' = IF session = "ACTIVE" THEN "expired" ELSE session
  /\ UNCHANGED <<current, rotation, lastUsed>>

ExpireRefreshTokenFamily ==
  /\ family'  = IF family = "active" THEN "expired" ELSE family
  /\ reason'  = IF family = "active" THEN "expired" ELSE reason
  /\ session' = IF session = "ACTIVE" THEN "EXPIRED" ELSE session
  /\ UNCHANGED <<current, rotation, lastUsed>>
----------------------------------------------------------------------------
(* refreshTokens *)

(* verifyRefreshToken: within the clock tolerance a token passes although it is past its
   expiry. *)
StartRefresh(r, g) ==
  /\ At(r, "idle") /\ g \in delivered
  /\ presented' = [presented EXCEPT ![g] = IF @ < 2 THEN @ + 1 ELSE 2]
  /\ IF Blacklisted("refresh", g)
       THEN UNCHANGED req
       ELSE req' = [req EXCEPT ![r] = [Idle EXCEPT !.at = "verified", !.token = g]]
  /\ UNCHANGED <<login, rows, late, blacklist, redis, delivered, answered>>

(* getRefreshRotationOrThrow and the checks of assertRefreshRotationCurrent, in their order. *)
AssertRefreshRotationCurrent(r) ==
  LET g == req[r].token IN
  /\ At(r, "verified")
  /\ IF family = "revoked" THEN Done(r)
     ELSE Go(r, IF family = "expired" \/ g \in late \/ current \in late THEN "expiring"
                ELSE IF rotation[g] # "active" \/ g # current THEN "replay"
                ELSE "current")
  /\ UNCHANGED <<login, rows, late, blacklist, redis, history>>

(* Not awaited: the client has its answer before this is written. *)
AssertFamilyNotExpired(r) ==
  /\ At(r, "expiring") /\ Done(r)
  /\ ExpireRefreshTokenFamily
  /\ UNCHANGED <<login, late, blacklist, redis, history>>

HandleRefreshReplay(r) ==
  /\ At(r, "replay") /\ Done(r)
  /\ RevokeRefreshTokenFamily("replay_detected", {req[r].token})
  /\ UNCHANGED <<login, late, blacklist, redis, history>>

(* Mutant: the advance compares the generation only. *)
RotateEndedFamily(r) ==
  LET g == req[r].token IN
  /\ At(r, "current") /\ g < MaxGen
  /\ IF current = g
       THEN /\ Go(r, "rotated")
            /\ current'  = g + 1
            /\ rotation' = [rotation EXCEPT ![g] = "used", ![g + 1] = "active"]
            /\ lastUsed' = IF session = "ACTIVE" THEN g + 1 ELSE lastUsed
            /\ UNCHANGED <<family, reason, session>>
       ELSE Go(r, "replay") /\ UNCHANGED rows
  /\ UNCHANGED <<login, late, blacklist, redis, history>>

(* Mutant: the rotation that was spent keeps its status. *)
RotateKeepingPrevious(r) ==
  LET g == req[r].token IN
  /\ At(r, "current") /\ g < MaxGen
  /\ IF family = "active" /\ current = g
       THEN /\ Go(r, "rotated")
            /\ current'  = g + 1
            /\ rotation' = [rotation EXCEPT ![g + 1] = "active"]
            /\ lastUsed' = IF session = "ACTIVE" THEN g + 1 ELSE lastUsed
            /\ UNCHANGED <<family, reason, session>>
       ELSE Go(r, "replay") /\ UNCHANGED rows
  /\ UNCHANGED <<login, late, blacklist, redis, history>>

(* rotateRefreshTokenFamily advances the family if it is still active and still at the
   generation that was read, in one transaction with the rotations and the session. *)
RotateRefreshTokenFamily(r) ==
  LET g == req[r].token IN
  /\ At(r, "current") /\ g < MaxGen
  /\ IF family = "active" /\ current = g
       THEN /\ Go(r, "rotated")
            /\ current'  = g + 1
            /\ rotation' = [rotation EXCEPT ![g] = "used", ![g + 1] = "active"]
            /\ lastUsed' = IF session = "ACTIVE" THEN g + 1 ELSE lastUsed
            /\ UNCHANGED <<family, reason, session>>
       ELSE Go(r, "replay") /\ UNCHANGED rows
  /\ UNCHANGED <<login, late, blacklist, redis, history>>

(* finalizeRefreshRotation, and the answer, which may not reach the client. *)
FinalizeRefreshRotation(r) ==
  /\ At(r, "rotated") /\ Done(r)
  /\ Blacklist("refresh", req[r].token)
  /\ \/ delivered' = delivered \cup {req[r].token + 1}
     \/ UNCHANGED delivered
  /\ UNCHANGED <<login, rows, late, redis, presented, answered>>
----------------------------------------------------------------------------
(* Requests with an access token: AuthGuard, then a logout or any other handler. *)

(* verifyAccessToken *)
VerifyAccessToken(r, a) ==
  /\ At(r, "idle") /\ a \in delivered /\ ~Blacklisted("access", a)
  /\ req' = [req EXCEPT ![r] = [Idle EXCEPT !.at = "authorised", !.access = a]]
  /\ UNCHANGED <<login, rows, late, blacklist, redis, history>>

(* Mutant: a touch that updates no row lets the request in. *)
TouchAnySession(r) ==
  /\ At(r, "authorised")
  /\ Go(r, "admitted")
  /\ lastUsed' = IF session = "ACTIVE" THEN req[r].access ELSE lastUsed
  /\ UNCHANGED <<login, family, current, reason, rotation, session, late, blacklist, redis, history>>

(* touchSessionActivity lets a request in while the session is active.  (Tokens of a login
   without a session row are let in too, but nobody holds one.) *)
TouchSessionActivity(r) ==
  /\ At(r, "authorised")
  /\ IF session = "ACTIVE"
       THEN Go(r, "admitted") /\ lastUsed' = req[r].access
       ELSE Done(r) /\ UNCHANGED lastUsed
  /\ UNCHANGED <<login, family, current, reason, rotation, session, late, blacklist, redis, history>>

(* performLogout: the refresh token that comes along must not be blacklisted; then the two
   tokens are blacklisted and the family is revoked, all at once. *)
PerformLogout(r, g) ==
  /\ At(r, "admitted") /\ g \in delivered /\ ~Blacklisted("refresh", g)
  /\ req' = [req EXCEPT ![r] = [@ EXCEPT !.at = "revoking", !.token = g, !.todo = Effects]]
  /\ UNCHANGED <<login, rows, late, blacklist, redis, history>>

(* forceLogoutUser, terminateSession and forceLogoutAll read the sessions that are active,
   with the access token last seen, and hand them to revokeSessionTargets.  Without one, the
   first and the last answer with success all the same: nothing was to be revoked, or the
   login has not got to its session row. *)
ForceLogout(r) ==
  /\ At(r, "idle") /\ login # "family"
  /\ IF session = "ACTIVE"
       THEN /\ req' = [req EXCEPT ![r] = [Idle EXCEPT !.at = "revoking", !.access = lastUsed,
                                                      !.todo = {"access", "family"}]]
            /\ UNCHANGED answered
       ELSE /\ answered' = answered \cup {IF session = "none" THEN "missed" ELSE "found"}
            /\ UNCHANGED req
  /\ UNCHANGED <<login, rows, late, blacklist, redis, delivered, presented>>

(* Mutant: the answer does not wait for all of the promises. *)
RevokeAnsweringFirst(r, effect) ==
  /\ At(r, "revoking") /\ effect \in req[r].todo
  /\ CASE effect = "access"  -> Blacklist("access", req[r].access) /\ UNCHANGED rows
       [] effect = "refresh" -> Blacklist("refresh", req[r].token) /\ UNCHANGED rows
       [] effect = "family"  -> RevokeRefreshTokenFamily("logout", {}) /\ UNCHANGED blacklist
  /\ answered' = answered \cup {"found"}
  /\ IF req[r].todo = {effect}
       THEN Done(r)
       ELSE req' = [req EXCEPT ![r].todo = @ \ {effect}]
  /\ UNCHANGED <<login, late, redis, delivered, presented>>

(* One of the promises of logout or of buildRevocationTasks is fulfilled. *)
Revoke(r, effect) ==
  /\ At(r, "revoking") /\ effect \in req[r].todo
  /\ CASE effect = "access"  -> Blacklist("access", req[r].access) /\ UNCHANGED rows
       [] effect = "refresh" -> Blacklist("refresh", req[r].token) /\ UNCHANGED rows
       [] effect = "family"  -> RevokeRefreshTokenFamily("logout", {}) /\ UNCHANGED blacklist
  /\ IF req[r].todo = {effect}
       THEN Done(r) /\ answered' = answered \cup {"found"}
       ELSE req' = [req EXCEPT ![r].todo = @ \ {effect}] /\ UNCHANGED answered
  /\ UNCHANGED <<login, late, redis, delivered, presented>>

(* The handler returns; or a database call is rejected, the user turns out to be inactive or
   the instance stops: the steps that were left are never taken. *)
EndRequest(r) ==
  /\ ~At(r, "idle") /\ Done(r)
  /\ UNCHANGED <<login, rows, late, blacklist, redis, history>>
----------------------------------------------------------------------------
(* Tokens have one lifetime: they expire in the order they were issued. *)
TokenExpires(g) ==
  /\ g \in Existing \ late
  /\ \A h \in Existing \ late : g <= h
  /\ late' = late \cup {g}
  /\ UNCHANGED <<login, rows, blacklist, redis, req, history>>

RedisFails ==
  /\ redis /\ redis' = FALSE
  /\ UNCHANGED <<login, rows, late, blacklist, req, history>>
----------------------------------------------------------------------------
IssueSession == CreateTokenFamily \/ CreateTokenRotation \/ CreateSessionRecord \/ LoginFails

Refresh(r) ==
  \/ \E g \in Generations : StartRefresh(r, g)
  \/ AssertRefreshRotationCurrent(r) \/ AssertFamilyNotExpired(r) \/ HandleRefreshReplay(r)
  \/ RotateRefreshTokenFamily(r) \/ FinalizeRefreshRotation(r)

Use(r) ==
  \/ \E g \in Generations : VerifyAccessToken(r, g) \/ PerformLogout(r, g)
  \/ TouchSessionActivity(r) \/ ForceLogout(r) \/ EndRequest(r)
  \/ \E effect \in Effects : Revoke(r, effect)

Next ==
  \/ IssueSession
  \/ \E r \in Requests : Refresh(r) \/ Use(r)
  \/ \E g \in Generations : TokenExpires(g)
  \/ RedisFails

Spec == Init /\ [][Next]_vars
----------------------------------------------------------------------------
(* The type of every variable. *)
TypeOK ==
  /\ login \in {"family", "rotation", "session", "done", "failed"}
  /\ family \in {"none", "active", "revoked", "expired"} /\ current \in Generations
  /\ reason \in {"none", "logout", "replay_detected", "expired"}
  /\ rotation \in [Generations -> {"none", "active", "used", "revoked", "replayed"}]
  /\ session \in {"none", "ACTIVE", "REVOKED", "EXPIRED"} /\ lastUsed \in Generations
  /\ late \subseteq Generations /\ blacklist \subseteq {"access", "refresh"} \X Generations
  /\ redis \in BOOLEAN
  /\ req \in [Requests -> [at: Pc, token: Generations, access: Generations, todo: SUBSET Effects]]
  /\ delivered \subseteq Generations /\ presented \in [Generations -> 0..2] /\ answered \subseteq {"found", "missed"}

(* An active family has exactly one rotation that can be refreshed, the one of its current
   generation, however many refreshes race. *)
OneCurrentRotation ==
  login = "done" /\ family = "active" =>
    {g \in Generations : rotation[g] = "active"} = {current}

(* The family and its session row end together and for the same cause. *)
SessionEndsWithFamily ==
  login = "done" =>
    session = CASE family = "active"  -> "ACTIVE"
                [] family = "revoked" -> "REVOKED"
                [] family = "expired" -> "EXPIRED"

(* A client that presents each refresh token once is never taken for a replay: neither a
   lost answer, a race with a logout, nor an expiry revokes its family as replayed. *)
ReplayNeedsTwoPresentations ==
  reason = "replay_detected" => \E g \in Generations : presented[g] = 2

(* When a logout is answered, the family and the session are over, also if a refresh was in the
   middle of its steps and Redis is down.  The one login that outlives answered logouts is
   the one they all missed: forced logouts that came while it was still writing its rows. *)
LogoutEndsTheFamily ==
  answered # {} => (family # "active" /\ session # "ACTIVE") \/ answered = {"missed"}

(* Once a logout that found the session was answered, no request gets past the guard any more,
   whichever access token of the family it carries, whatever it had verified before, and with
   Redis down. *)
NoAdmissionAfterLogout ==
  [][("found" \in answered) =>
     \A r \in Requests : req'[r].at = "admitted" => At(r, "admitted")]_vars

(* "Database-side family revocation remains authoritative": once a family is revoked or
   expired no generation is added to it and its session stays ended, also by requests that
   read it before, and without Redis. *)
EndedFamilyStaysEnded ==
  [][(family \in {"revoked", "expired"}) =>
     (family' = family /\ current' = current /\ Existing' = Existing /\ session' # "ACTIVE")]_vars
============================================================================
