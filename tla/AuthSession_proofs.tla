------------------------ MODULE AuthSession_proofs ------------------------
(***************************************************************************)
(* Theorems about AuthSession, for any number of concurrent requests and   *)
(* of generations.                                                         *)
(***************************************************************************)
EXTENDS AuthSession, TLAPS

Request == [at: Pc, token: Generations, access: Generations, todo: SUBSET Effects]

LEMMA IdleType == Idle \in Request
BY MaxGenAssumption DEF Idle, Request, Pc, Generations

(* The two ways in which a step moves a request. *)
LEMMA ReqType ==
  ASSUME req \in [Requests -> Request], NEW r \in Requests
  PROVE  /\ Done(r) => req' \in [Requests -> Request]
         /\ \A label \in Pc : Go(r, label) => req' \in [Requests -> Request]
         /\ req[r] \in Request
<1>1. Done(r) => req' \in [Requests -> Request]
  BY IdleType DEF Done
<1>2. ASSUME NEW label \in Pc, Go(r, label) PROVE req' \in [Requests -> Request]
  BY <1>2 DEF Go, Request
<1> QED
  BY <1>1, <1>2

LEMMA BlacklistType ==
  ASSUME blacklist \subseteq {"access", "refresh"} \X Generations,
         NEW kind \in {"access", "refresh"}, NEW g \in Generations, Blacklist(kind, g)
  PROVE  blacklist' \subseteq {"access", "refresh"} \X Generations
BY DEF Blacklist

(* A request whose rotation is written works on a generation that has a successor. *)
HasSuccessor == \A r \in Requests : At(r, "rotated") => req[r].token < MaxGen

LEMMA MoveKeepsSuccessor ==
  ASSUME req \in [Requests -> Request], HasSuccessor, NEW r \in Requests,
         NEW label \in Pc \ {"rotated"}, Go(r, label)
  PROVE  HasSuccessor'
BY DEF HasSuccessor, At, Go, Request

LEMMA DoneKeepsSuccessor ==
  ASSUME req \in [Requests -> Request], HasSuccessor, NEW r \in Requests, Done(r)
  PROVE  HasSuccessor'
BY DEF HasSuccessor, At, Done, Idle

(* TypeOK in parts: the rows, the requests, the rest. *)
RowsOK ==
  /\ login \in {"family", "rotation", "session", "done", "failed"}
  /\ family \in {"none", "active", "revoked", "expired"} /\ current \in Generations
  /\ reason \in {"none", "logout", "replay_detected", "expired"}
  /\ rotation \in [Generations -> {"none", "active", "used", "revoked", "replayed"}]
  /\ session \in {"none", "ACTIVE", "REVOKED", "EXPIRED"} /\ lastUsed \in Generations
RestOK ==
  /\ late \subseteq Generations
  /\ redis \in BOOLEAN
  /\ delivered \subseteq Generations /\ presented \in [Generations -> 0..2] /\ answered \subseteq {"found", "missed"}
BlacklistOK == blacklist \subseteq {"access", "refresh"} \X Generations
ReqOK == req \in [Requests -> Request]

LEMMA Parts == TypeOK <=> RowsOK /\ RestOK /\ BlacklistOK /\ ReqOK
BY DEF TypeOK, RowsOK, RestOK, BlacklistOK, ReqOK, Request

LEMMA RevokeType ==
  ASSUME RowsOK, NEW why \in {"logout", "replay_detected"}, NEW T,
         RevokeRefreshTokenFamily(why, T), UNCHANGED login
  PROVE  RowsOK'
BY DEF RowsOK, RevokeRefreshTokenFamily

TInv == RowsOK /\ RestOK /\ BlacklistOK /\ ReqOK /\ HasSuccessor

(* The inductive form of TypeOK. *)
LEMMA TypeInvariance == Spec => []TInv
<1> USE MaxGenAssumption DEF TInv
<1>1. Init => TInv
  <2> SUFFICES ASSUME Init PROVE TInv
    OBVIOUS
  <2>1. RowsOK
    BY DEF Init, RowsOK, Generations
  <2>2. BlacklistOK
    BY DEF Init, BlacklistOK
  <2>3. RestOK
    <3>1. presented \in [Generations -> 0..2]
      BY DEF Init
    <3> QED
      BY <3>1 DEF Init, RestOK
  <2>4. ReqOK /\ HasSuccessor
    BY IdleType DEF Init, ReqOK, HasSuccessor, At, Idle
  <2> QED
    BY <2>1, <2>2, <2>3, <2>4
<1>2. TInv /\ [Next]_vars => TInv'
  <2> SUFFICES ASSUME TInv, [Next]_vars PROVE TInv'
    OBVIOUS
  <2> USE DEF rows, history
  <2>1. CASE IssueSession
    <3> USE <2>1 DEF IssueSession, CreateTokenFamily, CreateTokenRotation, CreateSessionRecord, LoginFails
    <3>1. RowsOK'
      BY DEF RowsOK, Generations
    <3>2. BlacklistOK' /\ ReqOK' /\ HasSuccessor'
      BY DEF BlacklistOK, ReqOK, HasSuccessor, At
    <3>3. 0 \in Generations
      BY DEF Generations
    <3>4. RestOK'
      BY <3>3 DEF RestOK
    <3> QED
      BY <3>1, <3>2, <3>4
  <2>2. ASSUME NEW r \in Requests, NEW g \in Generations, StartRefresh(r, g) PROVE TInv'
    <3>1. RowsOK' /\ BlacklistOK' /\ RestOK'
      BY <2>2 DEF StartRefresh, RowsOK, BlacklistOK, RestOK
    <3>2. [Idle EXCEPT !.at = "verified", !.token = g] \in Request
      BY IdleType DEF Request, Idle, Pc
    <3>3. ReqOK'
      BY <2>2, <3>2 DEF StartRefresh, ReqOK
    <3>4. HasSuccessor'
      BY <2>2 DEF StartRefresh, ReqOK, HasSuccessor, At, Idle
    <3> QED
      BY <3>1, <3>3, <3>4
  <2>3. ASSUME NEW r \in Requests, AssertRefreshRotationCurrent(r) PROVE TInv'
    <3>1. RowsOK' /\ BlacklistOK' /\ RestOK'
      BY <2>3 DEF AssertRefreshRotationCurrent, RowsOK, BlacklistOK, RestOK
    <3>2. Done(r) \/ \E label \in {"expiring", "replay", "current"} : Go(r, label)
      BY <2>3 DEF AssertRefreshRotationCurrent
    <3>3. ReqOK'
      BY <3>2, ReqType DEF ReqOK, Pc
    <3>4. HasSuccessor'
      BY <3>2, MoveKeepsSuccessor, DoneKeepsSuccessor DEF ReqOK, Pc
    <3> QED
      BY <3>1, <3>3, <3>4
  <2>4. ASSUME NEW r \in Requests, Done(r) PROVE ReqOK' /\ HasSuccessor'
    <3>1. ReqOK'
      BY <2>4, ReqType DEF ReqOK
    <3>2. HasSuccessor'
      BY <2>4, DoneKeepsSuccessor DEF ReqOK
    <3> QED
      BY <3>1, <3>2
  <2>5. ASSUME NEW r \in Requests, AssertFamilyNotExpired(r) PROVE TInv'
    <3>1. RowsOK' /\ BlacklistOK' /\ RestOK'
      BY <2>5 DEF AssertFamilyNotExpired, ExpireRefreshTokenFamily, RowsOK, BlacklistOK, RestOK
    <3> QED
      BY <2>4, <2>5, <3>1 DEF AssertFamilyNotExpired
  <2>6. ASSUME NEW r \in Requests, HandleRefreshReplay(r) PROVE TInv'
    <3>1. RowsOK'
      BY <2>6, RevokeType DEF HandleRefreshReplay
    <3>2. BlacklistOK' /\ RestOK'
      BY <2>6 DEF HandleRefreshReplay, BlacklistOK, RestOK
    <3> QED
      BY <2>4, <2>6, <3>1, <3>2 DEF HandleRefreshReplay
  <2>7. ASSUME NEW r \in Requests, RotateRefreshTokenFamily(r) PROVE TInv'
    <3>1. req[r] \in Request /\ req[r].token \in Generations /\ req[r].token < MaxGen
      BY <2>7 DEF RotateRefreshTokenFamily, ReqOK, Request
    <3>2. RowsOK'
      BY <2>7, <3>1 DEF RotateRefreshTokenFamily, RowsOK, Generations
    <3>3. BlacklistOK' /\ RestOK'
      BY <2>7 DEF RotateRefreshTokenFamily, BlacklistOK, RestOK
    <3>4. \E label \in {"rotated", "replay"} : Go(r, label)
      BY <2>7 DEF RotateRefreshTokenFamily
    <3>5. ReqOK'
      BY <3>4, ReqType DEF ReqOK, Pc
    <3>6. HasSuccessor'
      BY <3>1, <3>4 DEF ReqOK, HasSuccessor, At, Go
    <3> QED
      BY <3>2, <3>3, <3>5, <3>6
  <2>8. ASSUME NEW r \in Requests, FinalizeRefreshRotation(r) PROVE TInv'
    <3>1. req[r].token \in Generations /\ req[r].token + 1 \in Generations
      BY <2>8 DEF FinalizeRefreshRotation, ReqOK, Request, HasSuccessor, Generations
    <3>2. BlacklistOK'
      BY <2>8, <3>1, BlacklistType DEF FinalizeRefreshRotation, BlacklistOK
    <3>3. RowsOK' /\ RestOK'
      BY <2>8, <3>1 DEF FinalizeRefreshRotation, RowsOK, RestOK
    <3> QED
      BY <2>4, <2>8, <3>2, <3>3 DEF FinalizeRefreshRotation
  <2>9. ASSUME NEW r \in Requests, NEW g \in Generations, VerifyAccessToken(r, g) PROVE TInv'
    <3>1. RowsOK' /\ BlacklistOK' /\ RestOK'
      BY <2>9 DEF VerifyAccessToken, RowsOK, BlacklistOK, RestOK
    <3>2. [Idle EXCEPT !.at = "authorised", !.access = g] \in Request
      BY IdleType DEF Request, Idle, Pc
    <3>3. ReqOK'
      BY <2>9, <3>2 DEF VerifyAccessToken, ReqOK
    <3>4. HasSuccessor'
      BY <2>9 DEF VerifyAccessToken, ReqOK, HasSuccessor, At, Idle
    <3> QED
      BY <3>1, <3>3, <3>4
  <2>10. ASSUME NEW r \in Requests, NEW g \in Generations, PerformLogout(r, g) PROVE TInv'
    <3>1. RowsOK' /\ BlacklistOK' /\ RestOK'
      BY <2>10 DEF PerformLogout, RowsOK, BlacklistOK, RestOK
    <3>2. [req[r] EXCEPT !.at = "revoking", !.token = g, !.todo = Effects] \in Request
      BY DEF ReqOK, Request, Pc
    <3>3. ReqOK'
      BY <2>10, <3>2 DEF PerformLogout, ReqOK
    <3>4. HasSuccessor'
      BY <2>10 DEF PerformLogout, ReqOK, HasSuccessor, At, Request
    <3> QED
      BY <3>1, <3>3, <3>4
  <2>11. ASSUME NEW r \in Requests, TouchSessionActivity(r) PROVE TInv'
    <3>1. Done(r) \/ Go(r, "admitted")
      BY <2>11 DEF TouchSessionActivity
    <3>2. RowsOK' /\ BlacklistOK' /\ RestOK'
      BY <2>11 DEF TouchSessionActivity, RowsOK, BlacklistOK, RestOK, ReqOK, Request
    <3>3. ReqOK'
      BY <3>1, ReqType DEF ReqOK, Pc
    <3>4. HasSuccessor'
      BY <3>1, MoveKeepsSuccessor, DoneKeepsSuccessor DEF ReqOK, Pc
    <3> QED
      BY <3>2, <3>3, <3>4
  <2>12. ASSUME NEW r \in Requests, ForceLogout(r) PROVE TInv'
    <3>1. RowsOK' /\ BlacklistOK' /\ RestOK'
      BY <2>12 DEF ForceLogout, RowsOK, BlacklistOK, RestOK
    <3>2. [Idle EXCEPT !.at = "revoking", !.access = lastUsed, !.todo = {"access", "family"}] \in Request
      BY IdleType DEF Request, Idle, Pc, Effects, RowsOK
    <3>3. ReqOK'
      BY <2>12, <3>2 DEF ForceLogout, ReqOK
    <3>4. HasSuccessor'
      BY <2>12 DEF ForceLogout, ReqOK, HasSuccessor, At, Idle
    <3> QED
      BY <3>1, <3>3, <3>4
  <2>13. ASSUME NEW r \in Requests, EndRequest(r) PROVE TInv'
    <3>1. RowsOK' /\ BlacklistOK' /\ RestOK'
      BY <2>13 DEF EndRequest, RowsOK, BlacklistOK, RestOK
    <3> QED
      BY <2>4, <2>13, <3>1 DEF EndRequest
  <2>14. ASSUME NEW r \in Requests, NEW effect \in Effects, Revoke(r, effect) PROVE TInv'
    <3>1. req[r] \in Request /\ req[r].token \in Generations /\ req[r].access \in Generations
      BY DEF ReqOK, Request
    <3>2. RowsOK' /\ BlacklistOK'
      <4>1. CASE effect = "access"
        BY <2>14, <3>1, <4>1, BlacklistType DEF Revoke, RowsOK, BlacklistOK
      <4>2. CASE effect = "refresh"
        BY <2>14, <3>1, <4>2, BlacklistType DEF Revoke, RowsOK, BlacklistOK
      <4>3. CASE effect = "family"
        BY <2>14, <4>3, RevokeType DEF Revoke, BlacklistOK
      <4> QED
        BY <4>1, <4>2, <4>3 DEF Effects
    <3>3. RestOK'
      BY <2>14 DEF Revoke, RestOK
    <3>4. Done(r) \/ req' = [req EXCEPT ![r].todo = @ \ {effect}]
      BY <2>14 DEF Revoke
    <3>5. CASE req' = [req EXCEPT ![r].todo = @ \ {effect}]
      <4>1. [req[r] EXCEPT !.todo = @ \ {effect}] \in Request
        BY <3>1 DEF Request
      <4>2. req' = [req EXCEPT ![r] = [req[r] EXCEPT !.todo = @ \ {effect}]]
        BY <3>5
      <4>3. ReqOK'
        BY <4>1, <4>2 DEF ReqOK
      <4>4. HasSuccessor'
        BY <3>1, <4>2 DEF ReqOK, Request, HasSuccessor, At
      <4> QED
        BY <3>2, <3>3, <4>3, <4>4
    <3> QED
      BY <2>4, <3>2, <3>3, <3>4, <3>5 DEF ReqOK, HasSuccessor
  <2>15. ASSUME NEW g \in Generations, TokenExpires(g) PROVE TInv'
    BY <2>15 DEF TokenExpires, RowsOK, RestOK, BlacklistOK, ReqOK, HasSuccessor, At
  <2>16. CASE RedisFails
    BY <2>16 DEF RedisFails, RowsOK, RestOK, BlacklistOK, ReqOK, HasSuccessor, At
  <2>17. CASE UNCHANGED vars
    BY <2>17 DEF vars, RowsOK, RestOK, BlacklistOK, ReqOK, HasSuccessor, At
  <2> QED
    BY <2>1, <2>2, <2>3, <2>5, <2>6, <2>7, <2>8, <2>9, <2>10, <2>11, <2>12, <2>13, <2>14,
       <2>15, <2>16, <2>17 DEF Next, Refresh, Use
<1> QED
  BY <1>1, <1>2, PTL DEF Spec

(* Every variable keeps its type. *)
THEOREM TypeCorrect == Spec => []TypeOK
<1>1. TInv => TypeOK
  BY Parts DEF TInv
<1> QED
  BY <1>1, TypeInvariance, PTL
----------------------------------------------------------------------------
(* The inductive invariant behind the safety properties. *)

(* Nothing of a login is in anybody's hands before its last row is written. *)
LoginInOrder ==
  /\ login # "done" => /\ session = "none" /\ delivered = {} /\ current = 0 /\ "found" \notin answered
                       /\ \A r \in Requests : At(r, "idle")
  /\ login = "family" => family = "none"
  /\ login \in {"rotation", "session"} => family = "active"
  /\ login \in {"family", "rotation"} => \A g \in Generations : rotation[g] = "none"
  /\ login = "session" => \A g \in Generations : rotation[g] = IF g = 0 THEN "active" ELSE "none"

(* The three tables of a login agree. *)
RowsAgree == login = "done" =>
  /\ family # "none"
  /\ session = CASE family = "active"  -> "ACTIVE"
                 [] family = "revoked" -> "REVOKED"
                 [] family = "expired" -> "EXPIRED"
  /\ \A g \in Generations : rotation[g] # "none" <=> g <= current
  /\ family = "active" => \A g \in Generations : rotation[g] = "active" <=> g = current

(* What a refresh may be doing with the token it presented. *)
Unrotated == {"verified", "current", "replay", "expiring"}

(* Tokens in somebody's hands have a row. *)
TokensHaveRows ==
  /\ \A g \in delivered : g <= current
  /\ \A r \in Requests : req[r].at \in Unrotated => req[r].token <= current
  /\ \A r \in Requests : At(r, "rotated") => req[r].token < current

(* A revocation whose family effect is done has ended the family. *)
RevocationEnds ==
  /\ "found" \in answered => family # "active"
  /\ \A r \in Requests : At(r, "revoking") => "family" \in req[r].todo \/ family # "active"

SessionInvariant == LoginInOrder /\ RowsAgree /\ TokensHaveRows /\ RevocationEnds


(* How a step that acts for one request moves the requests. *)
LEMMA OneMoves ==
  ASSUME ReqOK, NEW r \in Requests, NEW v, req' = [req EXCEPT ![r] = v]
  PROVE  req'[r] = v /\ \A q \in Requests : q # r => req'[q] = req[q]
BY DEF ReqOK

LEMMA DoneMoves ==
  ASSUME ReqOK, NEW r \in Requests, Done(r)
  PROVE  req'[r] = Idle /\ req'[r].at = "idle" /\ \A q \in Requests : q # r => req'[q] = req[q]
BY DEF ReqOK, Done, Idle

LEMMA GoMoves ==
  ASSUME ReqOK, NEW r \in Requests, NEW label, Go(r, label)
  PROVE  /\ req'[r].at = label /\ req'[r].token = req[r].token /\ req'[r].access = req[r].access
         /\ req'[r].todo = req[r].todo
         /\ \A q \in Requests : q # r => req'[q] = req[q]
BY DEF ReqOK, Request, Go

(* A request that does anything belongs to a login that is complete. *)
LEMMA BusyAfterLogin ==
  ASSUME SessionInvariant, NEW r \in Requests, ~At(r, "idle") \/ delivered # {} \/ session = "ACTIVE"
  PROVE  login = "done"
BY DEF SessionInvariant, LoginInOrder

(* The rows when a family is revoked or expires. *)
LEMMA RevokeRows ==
  ASSUME RowsOK, RowsAgree, login = "done", UNCHANGED login,
         NEW why, NEW T, \A g \in T : g \in Generations /\ g <= current,
         RevokeRefreshTokenFamily(why, T)
  PROVE  RowsAgree' /\ family' # "active" /\ current' = current
<1>1. family' # "active" /\ family' # "none" /\ current' = current
  BY DEF RowsOK, RowsAgree, RevokeRefreshTokenFamily
<1>2. \A g \in Generations : rotation'[g] # "none" <=> rotation[g] # "none"
  BY DEF RowsOK, RowsAgree, RevokeRefreshTokenFamily
<1>3. session' = CASE family' = "active"  -> "ACTIVE"
                   [] family' = "revoked" -> "REVOKED"
                   [] family' = "expired" -> "EXPIRED"
  BY DEF RowsOK, RowsAgree, RevokeRefreshTokenFamily
<1> QED
  BY <1>1, <1>2, <1>3 DEF RowsAgree

LEMMA ExpireRows ==
  ASSUME RowsOK, RowsAgree, login = "done", UNCHANGED login, ExpireRefreshTokenFamily
  PROVE  RowsAgree' /\ family' # "active" /\ current' = current
BY DEF RowsOK, RowsAgree, ExpireRefreshTokenFamily

LEMMA SessionStep ==
  ASSUME TInv, SessionInvariant, [Next]_vars
  PROVE  SessionInvariant'
<1> USE DEF TInv, rows, history
<1>1. CASE IssueSession
  <2>1. login # "done"
    BY <1>1 DEF IssueSession, CreateTokenFamily, CreateTokenRotation, CreateSessionRecord, LoginFails
  <2> USE <1>1, <2>1 DEF IssueSession, CreateTokenFamily, CreateTokenRotation, CreateSessionRecord, LoginFails
  <2>2. LoginInOrder'
    BY DEF SessionInvariant, LoginInOrder, At, RowsOK
  <2>3. RowsAgree'
    BY MaxGenAssumption DEF SessionInvariant, LoginInOrder, RowsAgree, RowsOK, Generations
  <2>4. TokensHaveRows' /\ RevocationEnds'
    BY DEF SessionInvariant, LoginInOrder, TokensHaveRows, RevocationEnds, At, Unrotated
  <2> QED
    BY <2>2, <2>3, <2>4 DEF SessionInvariant
<1>2. ASSUME NEW r \in Requests, NEW g \in Generations, StartRefresh(r, g) PROVE SessionInvariant'
  <2>1. login = "done" /\ login' = "done"
    BY <1>2, BusyAfterLogin DEF StartRefresh
  <2>2. LoginInOrder' /\ RowsAgree'
    BY <1>2, <2>1 DEF StartRefresh, SessionInvariant, LoginInOrder, RowsAgree
  <2>3. CASE UNCHANGED req
    BY <1>2, <2>2, <2>3 DEF StartRefresh, SessionInvariant, TokensHaveRows, RevocationEnds, At
  <2>4. CASE req' = [req EXCEPT ![r] = [Idle EXCEPT !.at = "verified", !.token = g]]
    <3>1. req'[r].at = "verified" /\ req'[r].token = g /\ \A q \in Requests : q # r => req'[q] = req[q]
      BY <2>4 DEF ReqOK, Idle
    <3> QED
      BY <1>2, <2>2, <3>1 DEF StartRefresh, SessionInvariant, TokensHaveRows, RevocationEnds, At
  <2> QED
    BY <1>2, <2>3, <2>4 DEF StartRefresh
<1>3. ASSUME NEW r \in Requests, AssertRefreshRotationCurrent(r) PROVE SessionInvariant'
  <2>1. login = "done" /\ login' = "done"
    BY <1>3, BusyAfterLogin DEF AssertRefreshRotationCurrent, At
  <2>2. LoginInOrder' /\ RowsAgree'
    BY <1>3, <2>1 DEF AssertRefreshRotationCurrent, SessionInvariant, LoginInOrder, RowsAgree
  <2>3. /\ req'[r].at \in {"idle", "expiring", "replay", "current"}
        /\ req'[r].at # "idle" => req'[r].token = req[r].token
        /\ \A q \in Requests : q # r => req'[q] = req[q]
    BY <1>3, DoneMoves, GoMoves DEF AssertRefreshRotationCurrent
  <2> QED
    BY <1>3, <2>2, <2>3
    DEF AssertRefreshRotationCurrent, SessionInvariant, TokensHaveRows, RevocationEnds, At, Unrotated
<1>4. ASSUME NEW r \in Requests, AssertFamilyNotExpired(r) PROVE SessionInvariant'
  <2>1. login = "done" /\ login' = "done"
    BY <1>4, BusyAfterLogin DEF AssertFamilyNotExpired, At
  <2>2. RowsAgree' /\ family' # "active" /\ current' = current
    BY <1>4, <2>1, ExpireRows DEF AssertFamilyNotExpired, SessionInvariant
  <2>3. req'[r].at = "idle" /\ \A q \in Requests : q # r => req'[q] = req[q]
    BY <1>4, DoneMoves DEF AssertFamilyNotExpired
  <2> QED
    BY <1>4, <2>1, <2>2, <2>3
    DEF AssertFamilyNotExpired, SessionInvariant, LoginInOrder, TokensHaveRows, RevocationEnds, At, Unrotated
<1>5. ASSUME NEW r \in Requests, HandleRefreshReplay(r) PROVE SessionInvariant'
  <2>1. login = "done" /\ login' = "done"
    BY <1>5, BusyAfterLogin DEF HandleRefreshReplay, At
  <2>2. req[r].token \in Generations /\ req[r].token <= current
    BY <1>5 DEF HandleRefreshReplay, SessionInvariant, TokensHaveRows, At, Unrotated, ReqOK, Request
  <2>3. RowsAgree' /\ family' # "active" /\ current' = current
    BY <1>5, <2>1, <2>2, RevokeRows DEF HandleRefreshReplay, SessionInvariant
  <2>4. req'[r].at = "idle" /\ \A q \in Requests : q # r => req'[q] = req[q]
    BY <1>5, DoneMoves DEF HandleRefreshReplay
  <2> QED
    BY <1>5, <2>1, <2>3, <2>4
    DEF HandleRefreshReplay, SessionInvariant, LoginInOrder, TokensHaveRows, RevocationEnds, At, Unrotated
<1>6. ASSUME NEW r \in Requests, RotateRefreshTokenFamily(r) PROVE SessionInvariant'
  <2>1. login = "done" /\ login' = "done"
    BY <1>6, BusyAfterLogin DEF RotateRefreshTokenFamily, At
  <2>2. req[r].token \in Generations /\ req[r].token <= current /\ current \in Nat
    BY <1>6 DEF RotateRefreshTokenFamily, SessionInvariant, TokensHaveRows, At, Unrotated, ReqOK, Request, RowsOK, Generations
  <2>3. CASE family = "active" /\ current = req[r].token
    <3>1. /\ Go(r, "rotated") /\ current' = current + 1 /\ UNCHANGED <<family, session>>
          /\ rotation' = [rotation EXCEPT ![current] = "used", ![current + 1] = "active"]
      BY <1>6, <2>3 DEF RotateRefreshTokenFamily
    <3>2. RowsAgree'
      BY <2>1, <2>2, <3>1 DEF SessionInvariant, RowsAgree, RowsOK, Generations
    <3>3. /\ req'[r].at = "rotated" /\ req'[r].token = current
          /\ \A q \in Requests : q # r => req'[q] = req[q]
      BY <2>3, <3>1, GoMoves
    <3>4. TokensHaveRows'
      <4>1. \A g \in delivered' : g <= current'
        BY <1>6, <2>2, <3>1 DEF RotateRefreshTokenFamily, SessionInvariant, TokensHaveRows, RestOK, Generations
      <4>2. \A q \in Requests : req'[q].at \in Unrotated => req'[q].token <= current'
        BY <2>2, <3>1, <3>3 DEF SessionInvariant, TokensHaveRows, ReqOK, Request, Generations, Unrotated
      <4>3. \A q \in Requests : req'[q].at = "rotated" => req'[q].token < current'
        BY <2>2, <3>1, <3>3 DEF SessionInvariant, TokensHaveRows, ReqOK, Request, Generations, At
      <4> QED
        BY <4>1, <4>2, <4>3 DEF TokensHaveRows, At
    <3> QED
      BY <1>6, <2>1, <3>1, <3>2, <3>3, <3>4
      DEF RotateRefreshTokenFamily, SessionInvariant, LoginInOrder, RevocationEnds, At
  <2>4. CASE ~(family = "active" /\ current = req[r].token)
    <3>1. Go(r, "replay") /\ UNCHANGED rows
      BY <1>6, <2>4 DEF RotateRefreshTokenFamily
    <3>2. /\ req'[r].at = "replay" /\ req'[r].token = req[r].token
          /\ \A q \in Requests : q # r => req'[q] = req[q]
      BY <3>1, GoMoves
    <3> QED
      BY <1>6, <2>1, <2>2, <3>1, <3>2
      DEF RotateRefreshTokenFamily, SessionInvariant, LoginInOrder, RowsAgree, TokensHaveRows,
          RevocationEnds, At, Unrotated
  <2> QED
    BY <2>3, <2>4
<1>7. ASSUME NEW r \in Requests, FinalizeRefreshRotation(r) PROVE SessionInvariant'
  <2>1. login = "done" /\ login' = "done"
    BY <1>7, BusyAfterLogin DEF FinalizeRefreshRotation, At
  <2>2. req'[r].at = "idle" /\ \A q \in Requests : q # r => req'[q] = req[q]
    BY <1>7, DoneMoves DEF FinalizeRefreshRotation
  <2>3. req[r].token + 1 <= current
    BY <1>7 DEF FinalizeRefreshRotation, SessionInvariant, TokensHaveRows, ReqOK, Request, RowsOK, Generations
  <2> QED
    BY <1>7, <2>1, <2>2, <2>3
    DEF FinalizeRefreshRotation, SessionInvariant, LoginInOrder, RowsAgree, TokensHaveRows, RevocationEnds, At, Unrotated
<1>8. ASSUME NEW r \in Requests, NEW g \in Generations, VerifyAccessToken(r, g) PROVE SessionInvariant'
  <2>1. login = "done" /\ login' = "done"
    BY <1>8, BusyAfterLogin DEF VerifyAccessToken
  <2>2. req'[r].at = "authorised" /\ \A q \in Requests : q # r => req'[q] = req[q]
    BY <1>8 DEF VerifyAccessToken, ReqOK, Idle
  <2> QED
    BY <1>8, <2>1, <2>2
    DEF VerifyAccessToken, SessionInvariant, LoginInOrder, RowsAgree, TokensHaveRows, RevocationEnds, At, Unrotated
<1>9. ASSUME NEW r \in Requests, NEW g \in Generations, PerformLogout(r, g) PROVE SessionInvariant'
  <2>1. login = "done" /\ login' = "done"
    BY <1>9, BusyAfterLogin DEF PerformLogout
  <2>2. /\ req'[r].at = "revoking" /\ "family" \in req'[r].todo
        /\ \A q \in Requests : q # r => req'[q] = req[q]
    BY <1>9, OneMoves DEF PerformLogout, ReqOK, Request, Effects
  <2> QED
    BY <1>9, <2>1, <2>2
    DEF PerformLogout, SessionInvariant, LoginInOrder, RowsAgree, TokensHaveRows, RevocationEnds, At, Unrotated
<1>10. ASSUME NEW r \in Requests, TouchSessionActivity(r) PROVE SessionInvariant'
  <2>1. login = "done" /\ login' = "done"
    BY <1>10, BusyAfterLogin DEF TouchSessionActivity, At
  <2>2. req'[r].at \in {"idle", "admitted"} /\ \A q \in Requests : q # r => req'[q] = req[q]
    BY <1>10, DoneMoves, GoMoves DEF TouchSessionActivity
  <2> QED
    BY <1>10, <2>1, <2>2
    DEF TouchSessionActivity, SessionInvariant, LoginInOrder, RowsAgree, TokensHaveRows, RevocationEnds, At, Unrotated
<1>11. ASSUME NEW r \in Requests, ForceLogout(r) PROVE SessionInvariant'
  <2>1. CASE session = "ACTIVE"
    <3>1. login = "done" /\ login' = "done"
      BY <1>11, <2>1, BusyAfterLogin DEF ForceLogout
    <3>2. /\ req'[r].at = "revoking" /\ "family" \in req'[r].todo
          /\ \A q \in Requests : q # r => req'[q] = req[q]
      BY <1>11, <2>1 DEF ForceLogout, ReqOK, Idle
    <3> QED
      BY <1>11, <2>1, <3>1, <3>2
      DEF ForceLogout, SessionInvariant, LoginInOrder, RowsAgree, TokensHaveRows, RevocationEnds, At, Unrotated
  <2>2. CASE session # "ACTIVE"
    <3>1. UNCHANGED <<login, rows, req, delivered>>
      BY <1>11, <2>2 DEF ForceLogout
    <3>2. "found" \in answered' => "found" \in answered \/ session # "none"
      BY <1>11, <2>2 DEF ForceLogout
    <3>3. login # "done" => session = "none" /\ "found" \notin answered
      BY DEF SessionInvariant, LoginInOrder
    <3>4. login = "done" => family # "active"
      BY <2>2 DEF SessionInvariant, RowsAgree
    <3> QED
      BY <3>1, <3>2, <3>3, <3>4
      DEF SessionInvariant, LoginInOrder, RowsAgree, TokensHaveRows, RevocationEnds, At
  <2> QED
    BY <2>1, <2>2
<1>12. ASSUME NEW r \in Requests, EndRequest(r) PROVE SessionInvariant'
  <2>1. login = "done" /\ login' = "done"
    BY <1>12, BusyAfterLogin DEF EndRequest
  <2>2. req'[r].at = "idle" /\ \A q \in Requests : q # r => req'[q] = req[q]
    BY <1>12, DoneMoves DEF EndRequest
  <2> QED
    BY <1>12, <2>1, <2>2
    DEF EndRequest, SessionInvariant, LoginInOrder, RowsAgree, TokensHaveRows, RevocationEnds, At, Unrotated
<1>13. ASSUME NEW r \in Requests, NEW effect \in Effects, Revoke(r, effect) PROVE SessionInvariant'
  <2>1. login = "done" /\ login' = "done"
    BY <1>13, BusyAfterLogin DEF Revoke, At
  <2>2. RowsAgree' /\ current' = current /\ (family # "active" \/ effect = "family" => family' # "active")
    <3>1. CASE effect = "family"
      BY <1>13, <2>1, <3>1, RevokeRows DEF Revoke, SessionInvariant
    <3>2. CASE effect # "family"
      BY <1>13, <2>1, <3>2 DEF Revoke, Effects, SessionInvariant, RowsAgree
    <3> QED
      BY <3>1, <3>2
  <2>3. CASE req[r].todo = {effect}
    <3>1. req'[r].at = "idle" /\ \A q \in Requests : q # r => req'[q] = req[q]
      BY <1>13, <2>3, DoneMoves DEF Revoke
    <3>2. family' # "active"
      BY <1>13, <2>2, <2>3 DEF Revoke, SessionInvariant, RevocationEnds
    <3> QED
      BY <1>13, <2>1, <2>2, <3>1, <3>2
      DEF Revoke, SessionInvariant, LoginInOrder, TokensHaveRows, RevocationEnds, At, Unrotated
  <2>4. CASE req[r].todo # {effect}
    <3>1. /\ req'[r].at = "revoking" /\ req'[r].todo = req[r].todo \ {effect}
          /\ \A q \in Requests : q # r => req'[q] = req[q]
      BY <1>13, <2>4 DEF Revoke, ReqOK, Request, At
    <3>2. answered' = answered
      BY <1>13, <2>4 DEF Revoke
    <3> QED
      BY <1>13, <2>1, <2>2, <3>1, <3>2
      DEF Revoke, SessionInvariant, LoginInOrder, TokensHaveRows, RevocationEnds, At, Unrotated
  <2> QED
    BY <2>3, <2>4
<1>14. CASE (\E g \in Generations : TokenExpires(g)) \/ RedisFails \/ UNCHANGED vars
  <2>1. UNCHANGED <<login, family, current, reason, rotation, session, req, delivered, answered>>
    BY <1>14 DEF TokenExpires, RedisFails, vars
  <2> QED
    BY <2>1 DEF SessionInvariant, LoginInOrder, RowsAgree, TokensHaveRows, RevocationEnds, At
<1> QED
  BY <1>1, <1>2, <1>3, <1>4, <1>5, <1>6, <1>7, <1>8, <1>9, <1>10, <1>11, <1>12, <1>13, <1>14
  DEF Next, Refresh, Use

LEMMA SessionInvariance == Spec => [](TInv /\ SessionInvariant)
<1>1. Init => SessionInvariant
  BY DEF Init, SessionInvariant, LoginInOrder, RowsAgree, TokensHaveRows, RevocationEnds, At, Idle, Unrotated
<1> QED
  BY <1>1, TypeInvariance, SessionStep, PTL DEF Spec

(* A family has one current rotation at most, however refreshes, logouts and expiries
   interleave. *)
THEOREM TablesAgree == Spec => []OneCurrentRotation
<1>1. TInv /\ SessionInvariant => OneCurrentRotation
  BY DEF TInv, RowsOK, SessionInvariant, RowsAgree, OneCurrentRotation
<1> QED
  BY <1>1, SessionInvariance, PTL

(* Its session ends with it. *)
THEOREM SessionsFollowFamilies == Spec => []SessionEndsWithFamily
<1>1. TInv /\ SessionInvariant => SessionEndsWithFamily
  BY DEF TInv, RowsOK, SessionInvariant, RowsAgree, SessionEndsWithFamily
<1> QED
  BY <1>1, SessionInvariance, PTL

(* An answered logout means that the family is over, unless every one that was answered missed
   a login that was still writing its rows. *)
THEOREM LogoutIsFinal == Spec => []LogoutEndsTheFamily
<1>1. TInv /\ SessionInvariant => LogoutEndsTheFamily
  <2> SUFFICES ASSUME TInv, SessionInvariant PROVE LogoutEndsTheFamily
    OBVIOUS
  <2>1. "found" \in answered => family # "active" /\ session # "ACTIVE"
    BY DEF TInv, RowsOK, SessionInvariant, LoginInOrder, RowsAgree, RevocationEnds
  <2>2. "found" \notin answered => answered \in {{}, {"missed"}}
    BY DEF TInv, RestOK
  <2> QED
    BY <2>1, <2>2 DEF LogoutEndsTheFamily
<1> QED
  BY <1>1, SessionInvariance, PTL

(* The steps that let a request in look at the session. *)
LEMMA AdmissionStep ==
  ASSUME TInv, SessionInvariant, "found" \in answered, [Next]_vars,
         NEW q \in Requests, req'[q].at = "admitted"
  PROVE  At(q, "admitted")
<1> USE DEF TInv, rows, history
<1>1. session # "ACTIVE"
  BY DEF RowsOK, SessionInvariant, LoginInOrder, RowsAgree, RevocationEnds
<1>2. SUFFICES ASSUME req'[q] # req[q] PROVE FALSE
  BY DEF At
<1>3. ASSUME NEW r \in Requests, Done(r) PROVE FALSE
  BY <1>2, <1>3, DoneMoves
<1>4. ASSUME NEW r \in Requests, NEW label, label # "admitted", Go(r, label) PROVE FALSE
  BY <1>2, <1>4, GoMoves
<1>5. CASE IssueSession \/ (\E g \in Generations : TokenExpires(g)) \/ RedisFails \/ UNCHANGED vars
  BY <1>2, <1>5
  DEF IssueSession, CreateTokenFamily, CreateTokenRotation, CreateSessionRecord, LoginFails,
      TokenExpires, RedisFails, vars
<1>6. ASSUME NEW r \in Requests, NEW g \in Generations,
             StartRefresh(r, g) \/ VerifyAccessToken(r, g)
      PROVE  FALSE
  BY <1>2, <1>6 DEF StartRefresh, VerifyAccessToken, ReqOK, Idle
<1>7. ASSUME NEW r \in Requests, NEW g \in Generations, PerformLogout(r, g) PROVE FALSE
  BY <1>2, <1>7 DEF PerformLogout, ReqOK, Request
<1>8. ASSUME NEW r \in Requests, AssertRefreshRotationCurrent(r) PROVE FALSE
  BY <1>3, <1>4, <1>8 DEF AssertRefreshRotationCurrent
<1>9. ASSUME NEW r \in Requests, RotateRefreshTokenFamily(r) PROVE FALSE
  BY <1>4, <1>9 DEF RotateRefreshTokenFamily
<1>10. ASSUME NEW r \in Requests,
              AssertFamilyNotExpired(r) \/ HandleRefreshReplay(r) \/ FinalizeRefreshRotation(r)
                \/ EndRequest(r)
       PROVE  FALSE
  BY <1>3, <1>10 DEF AssertFamilyNotExpired, HandleRefreshReplay, FinalizeRefreshRotation, EndRequest
<1>11. ASSUME NEW r \in Requests, TouchSessionActivity(r) PROVE FALSE
  BY <1>1, <1>3, <1>11 DEF TouchSessionActivity
<1>12. ASSUME NEW r \in Requests, ForceLogout(r) PROVE FALSE
  BY <1>1, <1>2, <1>12 DEF ForceLogout
<1>13. ASSUME NEW r \in Requests, NEW effect \in Effects, Revoke(r, effect) PROVE FALSE
  BY <1>2, <1>3, <1>13 DEF Revoke, ReqOK, Request, At
<1> QED
  BY <1>5, <1>6, <1>7, <1>8, <1>9, <1>10, <1>11, <1>12, <1>13 DEF Next, Refresh, Use

(* After an answered logout that found the session no request of the login is admitted any
   more. *)
THEOREM LoggedOutIsOut == Spec => NoAdmissionAfterLogout
<1>1. TInv /\ SessionInvariant /\ [Next]_vars =>
        [("found" \in answered) => \A r \in Requests : req'[r].at = "admitted" => At(r, "admitted")]_vars
  BY AdmissionStep
<1> QED
  BY <1>1, SessionInvariance, PTL DEF Spec, NoAdmissionAfterLogout

(* What a step may do to the rows of a family that is over. *)
Kept == family' = family /\ current' = current /\ Existing' = Existing /\ session' # "ACTIVE"

(* Every transaction on the rows looks at the status of the family or of the session. *)
LEMMA EndedStep ==
  ASSUME TInv, SessionInvariant, family \in {"revoked", "expired"}, [Next]_vars
  PROVE  Kept
<1> USE DEF TInv, rows, history
<1>1. session # "ACTIVE"
  BY DEF RowsOK, SessionInvariant, LoginInOrder, RowsAgree
<1>2. UNCHANGED <<family, current, rotation, session>> => Kept
  BY <1>1 DEF Kept, Existing
<1>3. ASSUME NEW why, NEW T, \A g \in T : g \in Existing, RevokeRefreshTokenFamily(why, T) PROVE Kept
  <2>1. family' = family /\ current' = current /\ session' # "ACTIVE"
    BY <1>1, <1>3 DEF RevokeRefreshTokenFamily
  <2>2. \A g \in Generations : rotation'[g] # "none" <=> rotation[g] # "none"
    BY <1>3 DEF RevokeRefreshTokenFamily, Existing
  <2> QED
    BY <2>1, <2>2 DEF Kept, Existing
<1>4. CASE IssueSession
  <2>1. login = "failed" \/ login = "session"
    BY <1>4
    DEF SessionInvariant, LoginInOrder, IssueSession, CreateTokenFamily, CreateTokenRotation,
        CreateSessionRecord, LoginFails
  <2> QED
    BY <1>2, <1>4, <2>1
    DEF SessionInvariant, LoginInOrder, IssueSession, CreateTokenFamily, CreateTokenRotation,
        CreateSessionRecord, LoginFails
<1>5. ASSUME NEW r \in Requests, HandleRefreshReplay(r) PROVE Kept
  <2>1. login = "done"
    BY <1>5, BusyAfterLogin DEF HandleRefreshReplay, At
  <2>2. req[r].token \in Existing
    BY <1>5, <2>1
    DEF HandleRefreshReplay, SessionInvariant, RowsAgree, TokensHaveRows, At, Unrotated, ReqOK, Request, Existing
  <2> QED
    BY <1>3, <1>5, <2>2 DEF HandleRefreshReplay
<1>6. ASSUME NEW r \in Requests, AssertFamilyNotExpired(r) PROVE Kept
  BY <1>1, <1>6 DEF AssertFamilyNotExpired, ExpireRefreshTokenFamily, Kept, Existing
<1>7. ASSUME NEW r \in Requests, RotateRefreshTokenFamily(r) PROVE Kept
  BY <1>2, <1>7 DEF RotateRefreshTokenFamily
<1>8. ASSUME NEW r \in Requests, NEW effect \in Effects, Revoke(r, effect) PROVE Kept
  <2>1. CASE effect = "family"
    BY <1>3, <1>8, <2>1 DEF Revoke
  <2>2. CASE effect # "family"
    BY <1>2, <1>8, <2>2 DEF Revoke, Effects
  <2> QED
    BY <2>1, <2>2
<1>9. ASSUME NEW r \in Requests, NEW g \in Generations,
             StartRefresh(r, g) \/ VerifyAccessToken(r, g) \/ PerformLogout(r, g)
      PROVE  Kept
  BY <1>2, <1>9 DEF StartRefresh, VerifyAccessToken, PerformLogout
<1>10. ASSUME NEW r \in Requests,
              AssertRefreshRotationCurrent(r) \/ FinalizeRefreshRotation(r)
                \/ TouchSessionActivity(r) \/ ForceLogout(r) \/ EndRequest(r)
       PROVE  Kept
  BY <1>2, <1>10
  DEF AssertRefreshRotationCurrent, FinalizeRefreshRotation, TouchSessionActivity, ForceLogout, EndRequest
<1>11. CASE (\E g \in Generations : TokenExpires(g)) \/ RedisFails \/ UNCHANGED vars
  BY <1>2, <1>11 DEF TokenExpires, RedisFails, vars
<1> QED
  BY <1>4, <1>5, <1>6, <1>7, <1>8, <1>9, <1>10, <1>11 DEF Next, Refresh, Use

(* The database keeps a family that is over as it is, whatever requests that read it before
   still do, and without Redis. *)
THEOREM EndedIsFinal == Spec => EndedFamilyStaysEnded
<1>1. TInv /\ SessionInvariant /\ [Next]_vars =>
        [(family \in {"revoked", "expired"}) =>
           (family' = family /\ current' = current /\ Existing' = Existing /\ session' # "ACTIVE")]_vars
  BY EndedStep DEF Kept
<1> QED
  BY <1>1, SessionInvariance, PTL DEF Spec, EndedFamilyStaysEnded
----------------------------------------------------------------------------
(* A token is presented once for each request that works on it and once for its rotation. *)
PresentationsCounted ==
  /\ \A g \in Generations : g < current => presented[g] >= 1
  /\ \A r \in Requests : req[r].at \in Unrotated =>
       /\ presented[req[r].token] >= 1
       /\ req[r].token < current => presented[req[r].token] = 2
  /\ \A r, q \in Requests :
       r # q /\ req[r].at \in Unrotated /\ req[q].at \in Unrotated /\ req[r].token = req[q].token
         => presented[req[r].token] = 2
  /\ \A r \in Requests : At(r, "replay") /\ family = "active" => req[r].token < current

(* Most steps leave the count and the current generation alone, and at most let a request
   that already worked on its token go on. *)
LEMMA QuietStep ==
  ASSUME PresentationsCounted, UNCHANGED <<presented, current>>,
         family' = family \/ family' # "active",
         \A q \in Requests : req'[q].at \in Unrotated =>
           /\ req[q].at \in Unrotated /\ req'[q].token = req[q].token
           /\ \/ req'[q].at # "replay" \/ At(q, "replay")
              \/ family # "active" \/ req[q].token < current
  PROVE  PresentationsCounted'
BY DEF PresentationsCounted, At, Unrotated

LEMMA PresentationStep ==
  ASSUME TInv, SessionInvariant, PresentationsCounted, [Next]_vars
  PROVE  PresentationsCounted'
<1> USE DEF TInv, rows, history
<1>1. CASE IssueSession
  <2>1. /\ UNCHANGED <<req, presented>> /\ current' = 0
        /\ \A r \in Requests : At(r, "idle")
    BY <1>1
    DEF SessionInvariant, LoginInOrder, IssueSession, CreateTokenFamily, CreateTokenRotation,
        CreateSessionRecord, LoginFails
  <2> QED
    BY <2>1 DEF PresentationsCounted, At, Unrotated, Generations
<1>2. ASSUME NEW r \in Requests, Done(r), UNCHANGED <<presented, current>>,
             family' = family \/ family' # "active"
      PROVE  PresentationsCounted'
  <2>1. req'[r].at \notin Unrotated /\ \A q \in Requests : q # r => req'[q] = req[q]
    BY <1>2, DoneMoves DEF Unrotated
  <2> QED
    BY <1>2, <2>1, QuietStep DEF At
<1>3. ASSUME NEW r \in Requests, NEW label, Go(r, label), UNCHANGED <<presented, current, family>>,
             label \in Unrotated => req[r].at \in Unrotated,
             label = "replay" => family # "active" \/ req[r].token < current
      PROVE  PresentationsCounted'
  <2>1. /\ req'[r].at = label /\ req'[r].token = req[r].token
        /\ \A q \in Requests : q # r => req'[q] = req[q]
    BY <1>3, GoMoves
  <2> QED
    BY <1>3, <2>1, QuietStep DEF At
<1>4. ASSUME NEW r \in Requests, NEW g \in Generations, StartRefresh(r, g) PROVE PresentationsCounted'
  <2>1. /\ presented'[g] = IF presented[g] < 2 THEN presented[g] + 1 ELSE 2
        /\ \A h \in Generations : h # g => presented'[h] = presented[h]
        /\ \A h \in Generations : presented[h] \in 0..2
        /\ UNCHANGED <<current, family>>
    BY <1>4 DEF StartRefresh, RestOK
  <2>2. presented'[g] >= 1 /\ (presented[g] >= 1 => presented'[g] = 2)
    BY <2>1
  <2>3. \A h \in Generations : /\ presented[h] >= 1 => presented'[h] >= 1
                               /\ presented[h] = 2 => presented'[h] = 2
    BY <2>1, <2>2
  <2>4. \A q \in Requests : req[q].token \in Generations
    BY DEF ReqOK, Request
  <2>5. CASE UNCHANGED req
    BY <2>1, <2>3, <2>4, <2>5 DEF PresentationsCounted, At
  <2>6. CASE req' = [req EXCEPT ![r] = [Idle EXCEPT !.at = "verified", !.token = g]]
    <3>1. /\ req'[r].at = "verified" /\ req'[r].token = g
          /\ \A q \in Requests : q # r => req'[q] = req[q]
      BY <2>6 DEF ReqOK, Idle
    <3>2. \A h \in Generations : h < current' => presented'[h] >= 1
      BY <2>1, <2>3 DEF PresentationsCounted
    <3>3. \A q \in Requests : req'[q].at \in Unrotated =>
             /\ presented'[req'[q].token] >= 1
             /\ req'[q].token < current' => presented'[req'[q].token] = 2
      BY <2>1, <2>2, <2>3, <2>4, <3>1 DEF PresentationsCounted
    <3>4. \A q \in Requests \ {r} : req'[q].at \in Unrotated /\ req'[q].token = g => presented'[g] = 2
      BY <2>2, <3>1 DEF PresentationsCounted
    <3>5. \A p, q \in Requests :
             p # q /\ req'[p].at \in Unrotated /\ req'[q].at \in Unrotated /\ req'[p].token = req'[q].token
               => presented'[req'[p].token] = 2
      BY <2>3, <2>4, <3>1, <3>4 DEF PresentationsCounted
    <3>6. \A q \in Requests : req'[q].at = "replay" /\ family' = "active" => req'[q].token < current'
      BY <2>1, <3>1 DEF PresentationsCounted, At
    <3> QED
      BY <3>2, <3>3, <3>5, <3>6 DEF PresentationsCounted, At
  <2> QED
    BY <1>4, <2>5, <2>6 DEF StartRefresh
<1>5. ASSUME NEW r \in Requests, AssertRefreshRotationCurrent(r) PROVE PresentationsCounted'
  <2>1. login = "done"
    BY <1>5, BusyAfterLogin DEF AssertRefreshRotationCurrent, At
  <2>2. req[r].token \in Generations /\ req[r].token <= current /\ current \in Nat
    BY <1>5
    DEF AssertRefreshRotationCurrent, SessionInvariant, TokensHaveRows, At, Unrotated, ReqOK, Request,
        RowsOK, Generations
  <2>3. rotation[req[r].token] # "active" \/ req[r].token # current =>
           family # "active" \/ req[r].token < current
    BY <2>1, <2>2 DEF SessionInvariant, RowsAgree, Generations
  <2>4. req[r].at \in Unrotated /\ UNCHANGED <<presented, current, family>>
    BY <1>5 DEF AssertRefreshRotationCurrent, At, Unrotated
  <2>5. \/ Done(r) \/ Go(r, "expiring") \/ Go(r, "current")
        \/ Go(r, "replay") /\ (family # "active" \/ req[r].token < current)
    BY <1>5, <2>3 DEF AssertRefreshRotationCurrent
  <2> QED
    BY <1>2, <1>3, <2>4, <2>5
<1>6. ASSUME NEW r \in Requests, RotateRefreshTokenFamily(r) PROVE PresentationsCounted'
  <2>1. /\ req[r].token \in Generations /\ req[r].token <= current /\ current \in Nat
        /\ req[r].at \in Unrotated /\ UNCHANGED presented
    BY <1>6
    DEF RotateRefreshTokenFamily, SessionInvariant, TokensHaveRows, At, Unrotated, ReqOK, Request,
        RowsOK, Generations
  <2>2. CASE family = "active" /\ current = req[r].token
    <3>1. Go(r, "rotated") /\ current' = current + 1 /\ UNCHANGED family
      BY <1>6, <2>2 DEF RotateRefreshTokenFamily
    <3>2. req'[r].at = "rotated" /\ \A q \in Requests : q # r => req'[q] = req[q]
      BY <3>1, GoMoves
    <3>3. \A g \in Generations : g < current' => presented'[g] >= 1
      BY <2>1, <2>2, <3>1 DEF PresentationsCounted, Generations
    <3>4. \A q \in Requests \ {r} : req[q].at \in Unrotated => presented[req[q].token] = 2 \/ req[q].token > current
      BY <2>1, <2>2 DEF PresentationsCounted, ReqOK, Request, Generations
    <3>5. \A q \in Requests : req'[q].at \in Unrotated =>
             /\ presented'[req'[q].token] >= 1
             /\ req'[q].token < current' => presented'[req'[q].token] = 2
      BY <2>1, <3>1, <3>2, <3>4 DEF PresentationsCounted, Unrotated, ReqOK, Request, Generations
    <3>6. \A p, q \in Requests :
             p # q /\ req'[p].at \in Unrotated /\ req'[q].at \in Unrotated /\ req'[p].token = req'[q].token
               => presented'[req'[p].token] = 2
      BY <2>1, <3>2 DEF PresentationsCounted, Unrotated
    <3>7. \A q \in Requests : req'[q].at = "replay" /\ family' = "active" => req'[q].token < current'
      BY <2>1, <3>1, <3>2 DEF PresentationsCounted, At, ReqOK, Request, Generations
    <3> QED
      BY <3>3, <3>5, <3>6, <3>7 DEF PresentationsCounted, At
  <2>3. CASE ~(family = "active" /\ current = req[r].token)
    <3>1. Go(r, "replay") /\ UNCHANGED rows
      BY <1>6, <2>3 DEF RotateRefreshTokenFamily
    <3>2. family # "active" \/ req[r].token < current
      BY <2>1, <2>3 DEF Generations
    <3> QED
      BY <1>3, <2>1, <3>1, <3>2
  <2> QED
    BY <2>2, <2>3
<1>7. ASSUME NEW r \in Requests,
             AssertFamilyNotExpired(r) \/ HandleRefreshReplay(r) \/ FinalizeRefreshRotation(r) \/ EndRequest(r)
      PROVE  PresentationsCounted'
  <2>1. Done(r) /\ UNCHANGED <<presented, current>> /\ (family' = family \/ family' # "active")
    BY <1>7
    DEF AssertFamilyNotExpired, HandleRefreshReplay, FinalizeRefreshRotation, EndRequest,
        ExpireRefreshTokenFamily, RevokeRefreshTokenFamily
  <2> QED
    BY <1>2, <2>1
<1>8. ASSUME NEW r \in Requests, TouchSessionActivity(r) PROVE PresentationsCounted'
  BY <1>2, <1>3, <1>8 DEF TouchSessionActivity, Unrotated
<1>9. ASSUME NEW r \in Requests, NEW g \in Generations,
             VerifyAccessToken(r, g) \/ PerformLogout(r, g) \/ ForceLogout(r)
      PROVE  PresentationsCounted'
  <2>1. UNCHANGED <<presented, current, family>>
    BY <1>9 DEF VerifyAccessToken, PerformLogout, ForceLogout
  <2>2. req'[r].at \notin Unrotated /\ \A q \in Requests : q # r => req'[q] = req[q]
    <3>1. CASE VerifyAccessToken(r, g)
      BY <3>1 DEF VerifyAccessToken, ReqOK, Idle, Unrotated
    <3>2. CASE PerformLogout(r, g)
      BY <3>2 DEF PerformLogout, ReqOK, Request, Unrotated
    <3>3. CASE ForceLogout(r)
      <4>1. CASE UNCHANGED req
        BY <3>3, <4>1 DEF ForceLogout, At, Unrotated
      <4>2. CASE session = "ACTIVE"
        BY <3>3, <4>2 DEF ForceLogout, ReqOK, Idle, Unrotated
      <4> QED
        BY <3>3, <4>1, <4>2 DEF ForceLogout
    <3> QED
      BY <1>9, <3>1, <3>2, <3>3
  <2> QED
    BY <2>1, <2>2, QuietStep DEF At
<1>10. ASSUME NEW r \in Requests, NEW effect \in Effects, Revoke(r, effect) PROVE PresentationsCounted'
  <2>1. /\ req'[r].at \notin Unrotated
        /\ \A q \in Requests : q # r => req'[q] = req[q]
    BY <1>10, DoneMoves DEF Revoke, ReqOK, Request, At, Unrotated
  <2>2. UNCHANGED <<presented, current>> /\ (family' = family \/ family' # "active")
    BY <1>10 DEF Revoke, Effects, RevokeRefreshTokenFamily
  <2> QED
    BY <2>1, <2>2, QuietStep DEF At
<1>11. CASE (\E g \in Generations : TokenExpires(g)) \/ RedisFails \/ UNCHANGED vars
  <2>1. UNCHANGED <<family, current, req, presented>>
    BY <1>11 DEF TokenExpires, RedisFails, vars
  <2> QED
    BY <2>1 DEF PresentationsCounted, At
<1> QED
  BY <1>1, <1>4, <1>5, <1>6, <1>7, <1>8, <1>9, <1>10, <1>11, MaxGenAssumption
  DEF Next, Refresh, Use, Generations

(* The reason of a revocation changes to replay_detected in one step only. *)
LEMMA ReplayStep ==
  ASSUME TInv, SessionInvariant, PresentationsCounted, ReplayNeedsTwoPresentations, [Next]_vars
  PROVE  ReplayNeedsTwoPresentations'
<1> USE DEF TInv, rows, history
<1>1. \A g \in Generations : presented[g] = 2 => presented'[g] = 2
  <2>1. UNCHANGED presented \/ \E r \in Requests, g \in Generations : StartRefresh(r, g)
    BY DEF Next, IssueSession, CreateTokenFamily, CreateTokenRotation, CreateSessionRecord, LoginFails,
           Refresh, Use, AssertRefreshRotationCurrent, AssertFamilyNotExpired, HandleRefreshReplay,
           RotateRefreshTokenFamily, FinalizeRefreshRotation, VerifyAccessToken, PerformLogout,
           TouchSessionActivity, ForceLogout, EndRequest, Revoke, TokenExpires, RedisFails, vars
  <2>2. ASSUME NEW r \in Requests, NEW h \in Generations, StartRefresh(r, h),
               NEW g \in Generations, presented[g] = 2
        PROVE  presented'[g] = 2
    BY <2>2 DEF StartRefresh, RestOK
  <2> QED
    BY <2>1, <2>2
<1>2. reason' = "replay_detected" =>
        \/ reason = "replay_detected"
        \/ \E r \in Requests : HandleRefreshReplay(r) /\ family = "active"
  BY DEF Next, IssueSession, CreateTokenFamily, CreateTokenRotation, CreateSessionRecord, LoginFails,
         Refresh, Use, StartRefresh, AssertRefreshRotationCurrent, AssertFamilyNotExpired,
         HandleRefreshReplay, RotateRefreshTokenFamily, FinalizeRefreshRotation, VerifyAccessToken,
         PerformLogout, TouchSessionActivity, ForceLogout, EndRequest, Revoke, Effects, TokenExpires,
         RedisFails, vars, RevokeRefreshTokenFamily, ExpireRefreshTokenFamily
<1>3. ASSUME NEW r \in Requests, HandleRefreshReplay(r), family = "active"
      PROVE  \E g \in Generations : presented[g] = 2
  <2>1. req[r].token \in Generations
    BY DEF ReqOK, Request
  <2>2. presented[req[r].token] = 2
    BY <1>3 DEF HandleRefreshReplay, PresentationsCounted, At, Unrotated
  <2> QED
    BY <2>1, <2>2
<1> QED
  BY <1>1, <1>2, <1>3 DEF ReplayNeedsTwoPresentations

(* A family is revoked as replayed only if one of its refresh tokens was presented twice. *)
THEOREM NoFalseReplay == Spec => []ReplayNeedsTwoPresentations
<1>1. Init => PresentationsCounted /\ ReplayNeedsTwoPresentations
  BY DEF Init, PresentationsCounted, ReplayNeedsTwoPresentations, At, Idle, Unrotated, Generations
<1> QED
  BY <1>1, SessionInvariance, PresentationStep, ReplayStep, PTL DEF Spec
============================================================================
