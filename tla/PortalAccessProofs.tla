------------------------- MODULE PortalAccessProofs -------------------------
(***************************************************************************)
(* Proofs about PortalAccess, for any users, nodes, connections, sessions, *)
(* keys, times and any interleaving of requests and identity commands.     *)
(*                                                                         *)
(* Neither the audit log nor the refusals follow from one statement group. *)
(* The invariant AccessInv adds what a handler that waits between two of   *)
(* them relies on (HeldBy): what it is about to change is on record, the   *)
(* token it is about to store is still free, and no other handler is about *)
(* to store the same one.  SeenKept ties the time a session was last       *)
(* admitted to last_seen_at, which is written only now and then.           *)
(***************************************************************************)
EXTENDS PortalAccess, TLAPS

Gone == [st |-> "pruned"]
Reasons == {"none", "expired", "idle", "wrong_node", "wrong_user", "rotated", "logout", "user_disabled"}
Places == {"quiet", "session", "key", "login", "insert", "logout", "create", "check", "revoke"}
\* Places at which a handler has a session token it has not stored yet.
Signing == {"login", "insert"}

ReqRow ==
  [pc : Places, node : Nodes, login : Logins, user : Users \union {"none"},
   cred : Sessions \union Keys \union {"none"}, new : Sessions \union Keys \union {"none"},
   old : Sessions \union {"none"}]

AccessTypes ==
  /\ AccessAssumption /\ realm \in Realms
  /\ time \in 0..MaxTime /\ moves \in 0..MaxMoves
  /\ user \in [Users -> {"none", "active", "disabled"}]
  /\ owner \in [Nodes -> Logins]
  /\ session \in [Sessions -> SessionRow \union {Unused, Gone}]
  /\ key \in [Keys -> KeyRow \union {Unused}]
  /\ req \in [Procs -> ReqRow]
  /\ log \subseteq ({"login", "logout"} \X Sessions) \union ({"create", "revoke"} \X Keys)
  /\ seenAt \in [Sessions -> 0..MaxTime] /\ exposed \subseteq Sessions
  /\ cli.pc \in {"create", "revoked"} => cli.target \in Keys
  /\ cli.pc = "create" => cli.user \in Users /\ <<"create", cli.target>> \in log

\* What a request r under the setting x may rely on, given the sessions
\* table and the log.
HeldBy(x, rows, records, r) ==
  /\ r.pc # "quiet" => r.user \in x.users
  /\ r.pc \in {"session", "logout"} => r.cred \in x.sessions
  /\ r.pc \in Signing => r.new \in x.sessions /\ rows[r.new].st = "free"
  /\ r.pc \in {"create", "check", "revoke"} => r.new \in x.keys
  /\ r.pc = "insert" => <<"login", r.new>> \in records
  /\ r.pc = "logout" => <<"logout", r.cred>> \in records
  /\ r.pc = "create" => <<"create", r.new>> \in records
  /\ r.pc = "revoke" => <<"revoke", r.new>> \in records

HandlersHold == \A p \in Procs : HeldBy(realm, session, log, req[p])

\* No two handlers are about to store the same token.
TokensApart ==
  \A p, q \in Procs : p # q /\ req[p].pc \in Signing /\ req[q].pc \in Signing => req[p].new # req[q].new

\* Sign-ins, sign-outs and keys are on record.
Recorded ==
  /\ \A s \in Sessions :
       /\ session[s].st # "free" => <<"login", s>> \in log
       /\ session[s].st = "revoked" /\ session[s].reason = "logout" => <<"logout", s>> \in log
  /\ \A k \in Keys : key[k].st # "free" => <<"create", k>> \in log

\* So are the revocations of keys that the command line did not make.
RevocationsRecorded ==
  \A k \in Keys :
    key[k].st = "revoked" /\ "revoke" \notin Cli /\ user[key[k].user] # "disabled" => <<"revoke", k>> \in log

\* last_seen_at lags behind the last admission by less than Touch.
SeenKept ==
  \A s \in Sessions : Live(session[s]) =>
    session[s].seen <= seenAt[s] /\ seenAt[s] < session[s].seen + Touch /\ seenAt[s] <= time

\* A cookie that was seen elsewhere is no longer live and will not be again.
ExposedEnded == \A s \in exposed : session[s].st \in {"revoked", "pruned"}

AccessInv ==
  /\ AccessTypes /\ HandlersHold /\ TokensApart
  /\ Recorded /\ RevocationsRecorded /\ SeenKept /\ ExposedEnded

-----------------------------------------------------------------------------
(* What a step may do to the tables, to the requests and to the rest.      *)

\* A session's row stays, is ended, pruned, stored by a login, or used.
RowStep(s) ==
  \/ session'[s] = session[s] /\ seenAt'[s] = seenAt[s]
  \/ /\ Live(session[s]) /\ seenAt'[s] = seenAt[s]
     /\ session'[s] \in SessionRow /\ session'[s].st = "revoked"
     /\ session'[s].reason = "logout" => <<"logout", s>> \in log
     /\ session'[s].reason = "idle" => time - seenAt[s] > IdleLimit - Touch
  \/ /\ session[s].st \in {"live", "revoked"} /\ seenAt'[s] = seenAt[s]
     /\ session'[s] = Gone
  \/ /\ \E p \in Procs : req[p].pc = "insert" /\ req[p].new = s /\ req'[p].pc = "quiet"
     /\ session'[s] \in SessionRow /\ Live(session'[s])
     /\ session'[s].seen = time /\ seenAt'[s] = time
  \/ /\ Live(session[s])
     /\ session'[s] \in SessionRow /\ Live(session'[s])
     /\ session'[s].seen <= time /\ time < session'[s].seen + Touch /\ seenAt'[s] = time

SessionsMove ==
  /\ session' = [s \in Sessions |-> session'[s]] /\ seenAt' = [s \in Sessions |-> seenAt'[s]]
  /\ \A s \in Sessions : RowStep(s)

\* A key's row stays, is stored after its record, or is revoked: after its
\* record, with its user, or from the command line.
KeyStep(k) ==
  \/ key'[k] = key[k]
  \/ key'[k] \in KeyRow /\ Live(key'[k]) /\ <<"create", k>> \in log
  \/ /\ Live(key[k]) /\ key'[k] \in KeyRow /\ key'[k].st = "revoked"
     /\ "revoke" \in Cli \/ user'[key'[k].user] = "disabled" \/ <<"revoke", k>> \in log

KeysMove ==
  /\ key' = [k \in Keys |-> key'[k]]
  /\ \A k \in Keys : KeyStep(k)

\* One connection at most goes on, to a place whose needs are met.
ReqTo(p, r) ==
  /\ r \in ReqRow
  /\ HeldBy(realm, session', log', r)
  /\ r.pc \in Signing => \A q \in Procs : q # p /\ req[q].pc \in Signing => req[q].new # r.new
  /\ req' = [req EXCEPT ![p] = r]

ReqsMove == req' = req \/ \E p \in Procs, r \in ReqRow : ReqTo(p, r)

PlainMove ==
  /\ time' \in time..MaxTime /\ moves' \in 0..MaxMoves
  /\ user' \in [Users -> {"none", "active", "disabled"}]
  /\ \A u \in Users : user[u] = "disabled" => user'[u] = "disabled"
  /\ owner' \in [Nodes -> Logins]
  /\ log' \subseteq ({"login", "logout"} \X Sessions) \union ({"create", "revoke"} \X Keys)
  /\ log \subseteq log'
  /\ exposed' \subseteq Sessions
  /\ \A s \in exposed' \ exposed : session'[s].st = "revoked"
  /\ cli'.pc \in {"create", "revoked"} => cli'.target \in Keys
  /\ cli'.pc = "create" => cli'.user \in Users /\ <<"create", cli'.target>> \in log'

AccessMove == realm' = realm /\ SessionsMove /\ KeysMove /\ ReqsMove /\ PlainMove

\* What holds of everybody who is admitted in a step.
Admissions ==
  \A p \in Procs : Admitted(p) =>
    /\ user[req'[p].user] = "active"
    /\ req'[p].pc = "session" => /\ req'[p].cred \notin exposed
                                 /\ time - seenAt[req'[p].cred] < IdleLimit

\* The parts of a setting.
LEMMA SettingStays ==
  ASSUME realm' = realm
  PROVE  /\ Users' = Users /\ Nodes' = Nodes /\ Procs' = Procs /\ Sessions' = Sessions /\ Keys' = Keys
         /\ Cli' = Cli /\ IdleLimit' = IdleLimit /\ Lifetime' = Lifetime /\ Touch' = Touch
         /\ MaxTime' = MaxTime /\ MaxMoves' = MaxMoves /\ Logins' = Logins
         /\ SessionRow' = SessionRow /\ KeyRow' = KeyRow /\ ReqRow' = ReqRow
  BY DEF Users, Nodes, Procs, Sessions, Keys, Cli, IdleLimit, Lifetime, Touch, MaxTime, MaxMoves, Logins,
         SessionRow, KeyRow, ReqRow

LEMMA SettingNumbers ==
  ASSUME AccessTypes
  PROVE  /\ time \in Nat /\ IdleLimit \in Nat /\ Touch \in Nat /\ Lifetime \in Nat
         /\ MaxTime \in Nat /\ MaxMoves \in Nat
         /\ 0 < Touch /\ Touch <= IdleLimit /\ Retention \in Nat /\ KeyLifetime \in Nat
         /\ \A s \in Sessions : seenAt[s] \in Nat
  BY DEF AccessTypes, AccessAssumption, IdleLimit, Touch, Lifetime, MaxTime, MaxMoves

-----------------------------------------------------------------------------
(* Steps of that kind keep the invariant.                                  *)

LEMMA TypesKept ==
  ASSUME AccessInv, AccessMove
  PROVE  AccessTypes'
  <1>1. session' \in [Sessions -> SessionRow \union {Unused, Gone}]
    <2>1. ASSUME NEW s \in Sessions
          PROVE  session'[s] \in SessionRow \union {Unused, Gone}
      <3>1. session[s] \in SessionRow \union {Unused, Gone}
        BY DEF AccessInv, AccessTypes
      <3>2. RowStep(s)
        BY DEF AccessMove, SessionsMove
      <3> QED
        BY <3>1, <3>2 DEF RowStep
    <2>2. session' = [s \in Sessions |-> session'[s]]
      BY DEF AccessMove, SessionsMove
    <2> QED
      BY <2>1, <2>2
  <1>2. seenAt' \in [Sessions -> 0..MaxTime]
    <2>1. ASSUME NEW s \in Sessions
          PROVE  seenAt'[s] \in 0..MaxTime
      <3>1. seenAt[s] \in 0..MaxTime /\ time \in 0..MaxTime
        BY DEF AccessInv, AccessTypes
      <3>2. RowStep(s)
        BY DEF AccessMove, SessionsMove
      <3> QED
        BY <3>1, <3>2 DEF RowStep
    <2>2. seenAt' = [s \in Sessions |-> seenAt'[s]]
      BY DEF AccessMove, SessionsMove
    <2> QED
      BY <2>1, <2>2
  <1>3. key' \in [Keys -> KeyRow \union {Unused}]
    <2>1. ASSUME NEW k \in Keys
          PROVE  key'[k] \in KeyRow \union {Unused}
      <3>1. key[k] \in KeyRow \union {Unused}
        BY DEF AccessInv, AccessTypes
      <3>2. KeyStep(k)
        BY DEF AccessMove, KeysMove
      <3> QED
        BY <3>1, <3>2 DEF KeyStep
    <2>2. key' = [k \in Keys |-> key'[k]]
      BY DEF AccessMove, KeysMove
    <2> QED
      BY <2>1, <2>2
  <1>4. req' \in [Procs -> ReqRow]
    BY DEF AccessInv, AccessTypes, AccessMove, ReqsMove, ReqTo
  <1>5. time' \in 0..MaxTime
    BY SettingNumbers DEF AccessInv, AccessMove, PlainMove
  <1>6. AccessAssumption /\ realm' \in Realms
    BY DEF AccessInv, AccessTypes, AccessMove
  <1> QED
    BY <1>1, <1>2, <1>3, <1>4, <1>5, <1>6, SettingStays
       DEF AccessTypes, AccessMove, PlainMove, AccessAssumption, Unused, Gone

\* A token that waits to be stored stays free until its own login stores it.
LEMMA FreeStays ==
  ASSUME AccessInv, AccessMove, NEW p \in Procs, req[p].pc \in Signing, req'[p] = req[p]
  PROVE  session'[req[p].new].st = "free"
  <1>1. req[p].new \in Sessions /\ session[req[p].new].st = "free"
    BY DEF AccessInv, HandlersHold, HeldBy, Sessions
  <1>2. RowStep(req[p].new)
    BY <1>1 DEF AccessMove, SessionsMove
  <1>3. ASSUME NEW q \in Procs, req[q].pc = "insert", req[q].new = req[p].new, req'[q].pc = "quiet"
        PROVE  FALSE
    BY <1>3 DEF AccessInv, TokensApart, Signing
  <1> QED
    BY <1>1, <1>2, <1>3 DEF RowStep, Live

LEMMA HandlersKept ==
  ASSUME AccessInv, AccessMove
  PROVE  HandlersHold'
  <1>1. ASSUME NEW p \in Procs, req'[p] = req[p]
        PROVE  HeldBy(realm, session', log', req[p])
    <2>1. HeldBy(realm, session, log, req[p])
      BY DEF AccessInv, HandlersHold
    <2>2. log \subseteq log'
      BY DEF AccessMove, PlainMove
    <2>3. req[p].pc \in Signing => session'[req[p].new].st = "free"
      BY <1>1, FreeStays
    <2> QED
      BY <2>1, <2>2, <2>3 DEF HeldBy
  <1>2. ASSUME NEW p \in Procs
        PROVE  HeldBy(realm, session', log', req'[p])
    <2>1. CASE req' = req
      BY <1>1, <2>1
    <2>2. CASE \E q \in Procs, r \in ReqRow : ReqTo(q, r)
      <3>1. PICK q \in Procs, r \in ReqRow : ReqTo(q, r)
        BY <2>2
      <3>2. req'[p] = IF p = q THEN r ELSE req[p]
        BY <3>1 DEF ReqTo, AccessInv, AccessTypes
      <3> QED
        BY <1>1, <3>1, <3>2 DEF ReqTo
    <2> QED
      BY <2>1, <2>2 DEF AccessMove, ReqsMove
  <1> QED
    BY <1>2, SettingStays DEF HandlersHold, AccessMove

LEMMA TokensKept ==
  ASSUME AccessInv, AccessMove
  PROVE  TokensApart'
  <1>1. CASE req' = req
    BY <1>1, SettingStays DEF AccessInv, TokensApart, AccessMove
  <1>2. CASE \E q \in Procs, r \in ReqRow : ReqTo(q, r)
    <2>1. PICK q \in Procs, r \in ReqRow : ReqTo(q, r)
      BY <1>2
    <2>2. \A p \in Procs : req'[p] = IF p = q THEN r ELSE req[p]
      BY <2>1 DEF ReqTo, AccessInv, AccessTypes
    <2> QED
      BY <2>1, <2>2, SettingStays DEF ReqTo, AccessInv, TokensApart, AccessMove
  <1> QED
    BY <1>1, <1>2 DEF AccessMove, ReqsMove

LEMMA SessionsKept ==
  ASSUME AccessInv, AccessMove, NEW s \in Sessions
  PROVE  /\ session'[s].st # "free" => <<"login", s>> \in log'
         /\ session'[s].st = "revoked" /\ session'[s].reason = "logout" => <<"logout", s>> \in log'
         /\ Live(session'[s]) => /\ session'[s].seen <= seenAt'[s]
                                 /\ seenAt'[s] < session'[s].seen + Touch /\ seenAt'[s] <= time'
         /\ s \in exposed => session'[s].st \in {"revoked", "pruned"}
  <1> DEFINE L == <<"login", s>>  O == <<"logout", s>>
  <1>1. RowStep(s)
    BY DEF AccessMove, SessionsMove
  <1>2. /\ session[s].st # "free" => L \in log
        /\ session[s].st = "revoked" /\ session[s].reason = "logout" => O \in log
        /\ Live(session[s]) => session[s].seen <= seenAt[s] /\ seenAt[s] < session[s].seen + Touch /\ seenAt[s] <= time
        /\ s \in exposed => session[s].st \in {"revoked", "pruned"}
    BY DEF AccessInv, Recorded, SeenKept, ExposedEnded
  <1>3. /\ log \subseteq log' /\ time <= time' /\ time \in Nat /\ time' \in Nat
        /\ Touch \in Nat /\ 0 < Touch /\ seenAt[s] \in Nat
    BY SettingNumbers DEF AccessMove, PlainMove, AccessInv
  <1>4. session[s] \in SessionRow \union {Unused, Gone}
    BY DEF AccessInv, AccessTypes
  <1>5. ASSUME NEW p \in Procs, req[p].pc = "insert", req[p].new = s
        PROVE  L \in log /\ session[s].st = "free"
    BY <1>5 DEF AccessInv, HandlersHold, HeldBy, Signing
  <1> HIDE DEF L, O
  <1>6. CASE session'[s] = session[s] /\ seenAt'[s] = seenAt[s]
    BY <1>2, <1>3, <1>4, <1>6 DEF L, O, Live
  <1>7. CASE /\ Live(session[s]) /\ seenAt'[s] = seenAt[s]
             /\ session'[s] \in SessionRow /\ session'[s].st = "revoked"
             /\ session'[s].reason = "logout" => <<"logout", s>> \in log
    BY <1>2, <1>3, <1>7 DEF L, O, Live
  <1>8. CASE session[s].st \in {"live", "revoked"} /\ session'[s] = Gone
    BY <1>2, <1>3, <1>8 DEF L, O, Live, Gone
  <1>9. CASE /\ \E p \in Procs : req[p].pc = "insert" /\ req[p].new = s /\ req'[p].pc = "quiet"
             /\ session'[s] \in SessionRow /\ Live(session'[s])
             /\ session'[s].seen = time /\ seenAt'[s] = time
    BY <1>2, <1>3, <1>5, <1>9 DEF L, O, Live
  <1>10. CASE /\ Live(session[s])
              /\ session'[s] \in SessionRow /\ Live(session'[s])
              /\ session'[s].seen <= time /\ time < session'[s].seen + Touch /\ seenAt'[s] = time
    BY <1>2, <1>3, <1>10 DEF L, O, Live
  <1> QED
    BY <1>1, <1>6, <1>7, <1>8, <1>9, <1>10 DEF RowStep

LEMMA KeysKept ==
  ASSUME AccessInv, AccessMove, NEW k \in Keys
  PROVE  /\ key'[k].st # "free" => <<"create", k>> \in log'
         /\ key'[k].st = "revoked" /\ "revoke" \notin Cli /\ user'[key'[k].user] # "disabled"
              => <<"revoke", k>> \in log'
  <1>1. KeyStep(k)
    BY DEF AccessMove, KeysMove
  <1>2. /\ key[k].st # "free" => <<"create", k>> \in log
        /\ key[k].st = "revoked" /\ "revoke" \notin Cli /\ user[key[k].user] # "disabled" => <<"revoke", k>> \in log
    BY DEF AccessInv, Recorded, RevocationsRecorded
  <1>3. log \subseteq log' /\ \A u \in Users : user[u] = "disabled" => user'[u] = "disabled"
    BY DEF AccessMove, PlainMove
  <1>4. key[k].st = "revoked" => key[k].user \in Users
    BY DEF AccessInv, AccessTypes, KeyRow, Unused
  <1> QED
    BY <1>1, <1>2, <1>3, <1>4 DEF KeyStep, Live

LEMMA MoveKeeps ==
  ASSUME AccessInv, AccessMove
  PROVE  AccessInv'
  <1>1. Sessions' = Sessions /\ Keys' = Keys /\ Cli' = Cli /\ Touch' = Touch
    BY SettingStays DEF AccessMove
  <1>2. Recorded'
    BY <1>1, SessionsKept, KeysKept DEF Recorded
  <1>3. RevocationsRecorded'
    BY <1>1, KeysKept DEF RevocationsRecorded
  <1>4. SeenKept'
    BY <1>1, SessionsKept DEF SeenKept, Live
  <1>5. ExposedEnded'
    BY <1>1, SessionsKept DEF ExposedEnded, AccessMove, PlainMove
  <1> QED
    BY <1>2, <1>3, <1>4, <1>5, TypesKept, HandlersKept, TokensKept DEF AccessInv

-----------------------------------------------------------------------------
(* The sessions table: every statement group that writes to it.            *)

LEMMA EndedRow ==
  ASSUME NEW row \in SessionRow, NEW why \in Reasons, time \in Nat
  PROVE  LET new == [row EXCEPT !.st = "revoked", !.ended = time, !.reason = why]
         IN  new \in SessionRow /\ new.st = "revoked" /\ new.reason = why
  BY DEF SessionRow, Reasons

\* Ending one session ends a live row, for the reason given, and no other.
LEMMA RevokedRows ==
  ASSUME AccessTypes, NEW s \in Sessions, NEW why \in Reasons
  PROVE  /\ Revoked(session, s, why) = [t \in Sessions |-> Revoked(session, s, why)[t]]
         /\ \A t \in Sessions :
              \/ Revoked(session, s, why)[t] = session[t]
              \/ /\ t = s /\ Live(session[t])
                 /\ Revoked(session, s, why)[t] \in SessionRow
                 /\ Revoked(session, s, why)[t].st = "revoked"
                 /\ Revoked(session, s, why)[t].reason = why
         /\ Live(session[s]) => Revoked(session, s, why)[s].st = "revoked"
  <1>1. session \in [Sessions -> SessionRow \union {Unused, Gone}]
    BY DEF AccessTypes
  <1>2. CASE ~Live(session[s])
    BY <1>1, <1>2 DEF Revoked
  <1>3. CASE Live(session[s])
    <2> DEFINE new == [session[s] EXCEPT !.st = "revoked", !.ended = time, !.reason = why]
    <2>1. session[s] \in SessionRow
      BY <1>1, <1>3 DEF Live, Unused, Gone
    <2>2. new \in SessionRow /\ new.st = "revoked" /\ new.reason = why
      BY <2>1, EndedRow, SettingNumbers
    <2>3. Revoked(session, s, why) = [session EXCEPT ![s] = new]
      BY <1>3 DEF Revoked
    <2> HIDE DEF new
    <2> QED
      BY <1>1, <1>3, <2>2, <2>3
  <1> QED
    BY <1>2, <1>3

\* A statement group that ends one session, and what it must not be lying about.
LEMMA EndOne ==
  ASSUME AccessInv, NEW s \in Sessions, NEW why \in Reasons, session' = Revoked(session, s, why), seenAt' = seenAt,
         why = "logout" => <<"logout", s>> \in log,
         Live(session[s]) /\ why = "idle" => time - seenAt[s] > IdleLimit - Touch
  PROVE  SessionsMove
  <1>1. seenAt' = [t \in Sessions |-> seenAt'[t]]
    BY DEF AccessInv, AccessTypes
  <1>2. ASSUME NEW t \in Sessions
        PROVE  RowStep(t)
    BY RevokedRows DEF RowStep, AccessInv
  <1>3. session' = [t \in Sessions |-> session'[t]]
    BY RevokedRows DEF AccessInv
  <1> QED
    BY <1>1, <1>2, <1>3 DEF SessionsMove

LEMMA SessionsSame ==
  ASSUME AccessInv, session' = session, seenAt' = seenAt
  PROVE  SessionsMove
  BY DEF SessionsMove, RowStep, AccessInv, AccessTypes

LEMMA PresentOldMoves ==
  ASSUME AccessInv, NEW p \in Procs, NEW s \in Sessions, PresentOld(p, s)
  PROVE  SessionsMove
  <1>0. seenAt' = seenAt /\ Live(session[s])
    BY DEF PresentOld
  <1>1. CASE Expired(s) /\ session' = Revoked(session, s, "expired")
    BY <1>0, <1>1, EndOne DEF Reasons
  <1>2. CASE Idled(s) /\ session' = Revoked(session, s, "idle")
    <2>1. session[s] \in SessionRow
      BY <1>0 DEF AccessInv, AccessTypes, Live, Unused, Gone
    <2>2. session[s].seen \in Nat
      BY <2>1 DEF SessionRow
    <2>3. seenAt[s] < session[s].seen + Touch
      BY <1>0 DEF AccessInv, SeenKept
    <2>4. time - seenAt[s] > IdleLimit - Touch
      BY <1>2, <2>2, <2>3, SettingNumbers DEF Idled, AccessInv
    <2> QED
      BY <1>0, <1>2, <2>4, EndOne DEF Reasons
  <1> QED
    BY <1>1, <1>2 DEF PresentOld

LEMMA PresentForeignMoves ==
  ASSUME AccessInv, NEW p \in Procs, NEW s \in Sessions, PresentForeign(p, s)
  PROVE  SessionsMove /\ session'[s].st = "revoked"
  <1> DEFINE why == IF req[p].node # session[s].node THEN "wrong_node" ELSE "wrong_user"
  <1>1. session' = Revoked(session, s, why) /\ seenAt' = seenAt /\ Live(session[s])
    BY DEF PresentForeign, RefuseForeign, Fresh
  <1>2. why \in Reasons /\ why # "logout" /\ why # "idle"
    BY DEF Reasons
  <1> HIDE DEF why
  <1>3. SessionsMove
    BY <1>1, <1>2, EndOne
  <1> QED
    BY <1>1, <1>2, <1>3, RevokedRows DEF AccessInv

LEMMA LogoutMoves ==
  ASSUME AccessInv, NEW p \in Procs, Logout(p)
  PROVE  SessionsMove
  <1>1. req[p].cred \in Sessions /\ <<"logout", req[p].cred>> \in log
    BY DEF Logout, AccessInv, HandlersHold, HeldBy, Sessions
  <1>2. session' = Revoked(session, req[p].cred, "logout") /\ seenAt' = seenAt
    BY DEF Logout
  <1> QED
    BY <1>1, <1>2, EndOne DEF Reasons

\* A session that may be used: within its idle time since it was last seen.
LEMMA FreshRow ==
  ASSUME AccessInv, NEW s \in Sessions, Fresh(s)
  PROVE  /\ session[s] \in SessionRow /\ session[s].st = "live" /\ session[s].seen \in Nat
         /\ session[s].user \in Users
         /\ s \notin exposed /\ time - seenAt[s] < IdleLimit
  <1>1. session[s] \in SessionRow /\ Live(session[s])
    BY DEF Fresh, AccessInv, AccessTypes, Live, Unused, Gone
  <1>2. session[s].seen \in Nat /\ session[s].user \in Users
    BY <1>1 DEF SessionRow
  <1>3. session[s].seen <= seenAt[s] /\ time - session[s].seen < IdleLimit
    BY <1>1, <1>2, SettingNumbers DEF AccessInv, SeenKept, Fresh, Idled
  <1>4. s \notin exposed
    BY <1>1 DEF AccessInv, ExposedEnded, Live
  <1> QED
    BY <1>1, <1>2, <1>3, <1>4, SettingNumbers DEF Live, AccessInv

LEMMA PresentOwnMoves ==
  ASSUME AccessInv, NEW p \in Procs, NEW s \in Sessions, PresentOwn(p, s)
  PROVE  SessionsMove
  <1>1. /\ session' = Touched(s) /\ seenAt' = [seenAt EXCEPT ![s] = time] /\ Fresh(s)
    BY DEF PresentOwn
  <1>2. session[s] \in SessionRow /\ session[s].st = "live" /\ session[s].seen \in Nat
    BY <1>1, FreshRow
  <1>3. /\ session \in [Sessions -> SessionRow \union {Unused, Gone}]
        /\ seenAt \in [Sessions -> 0..MaxTime]
    BY DEF AccessInv, AccessTypes
  <1>4. time \in Nat /\ Touch \in Nat /\ 0 < Touch
    BY SettingNumbers DEF AccessInv
  <1>5. session[s].seen <= time
    <2>1. session[s].seen <= seenAt[s] /\ seenAt[s] <= time /\ seenAt[s] \in Nat
      BY <1>2, SettingNumbers DEF AccessInv, SeenKept, Live
    <2> QED
      BY <1>2, <1>4, <2>1
  <1> DEFINE new == [session[s] EXCEPT !.seen = time]
  <1>6. new \in SessionRow /\ new.st = "live" /\ new.seen = time
    BY <1>2, <1>4 DEF SessionRow
  <1>7. session' = IF time - session[s].seen >= Touch THEN [session EXCEPT ![s] = new] ELSE session
    BY <1>1 DEF Touched
  <1> HIDE DEF new
  <1>8. session' = [t \in Sessions |-> session'[t]] /\ seenAt' = [t \in Sessions |-> seenAt'[t]]
    BY <1>1, <1>3, <1>7
  <1>9. ASSUME NEW t \in Sessions, t # s
        PROVE  RowStep(t)
    BY <1>1, <1>3, <1>7, <1>9 DEF RowStep
  <1>10. seenAt'[s] = time
    BY <1>1, <1>3
  <1>11. CASE time - session[s].seen >= Touch
    <2>1. session'[s] = new
      BY <1>3, <1>7, <1>11
    <2>2. RowStep(s)
      BY <1>2, <1>4, <1>6, <1>10, <2>1 DEF RowStep, Live
    <2> QED
      BY <1>8, <1>9, <2>2 DEF SessionsMove
  <1>12. CASE ~(time - session[s].seen >= Touch)
    <2>1. session'[s] = session[s] /\ time < session[s].seen + Touch
      BY <1>2, <1>4, <1>7, <1>12
    <2>2. RowStep(s)
      BY <1>2, <1>4, <1>5, <1>10, <2>1 DEF RowStep, Live
    <2> QED
      BY <1>8, <1>9, <2>2 DEF SessionsMove
  <1> QED
    BY <1>11, <1>12

\* The tables before the insert of a login: rows stay, are ended or pruned.
LEMMA RotatedRows ==
  ASSUME AccessInv, NEW p \in Procs, NEW t \in Sessions
  PROVE  \/ Rotated(p)[t] = session[t]
         \/ /\ Live(session[t]) /\ Rotated(p)[t] \in SessionRow
            /\ Rotated(p)[t].st = "revoked" /\ Rotated(p)[t].reason = "rotated"
  <1>1. CASE req[p].old # "none"
    <2>1. PICK o : o = req[p].old
      OBVIOUS
    <2>2. o \in Sessions
      BY <1>1, <2>1 DEF AccessInv, AccessTypes, ReqRow
    <2>3. Rotated(p) = session \/ Rotated(p) = Revoked(session, o, "rotated")
      BY <2>1 DEF Rotated
    <2>4. "rotated" \in Reasons
      BY DEF Reasons
    <2> QED
      BY <2>2, <2>3, <2>4, RevokedRows DEF AccessInv
  <1>2. CASE req[p].old = "none"
    BY <1>2 DEF Rotated
  <1> QED
    BY <1>1, <1>2

LEMMA PrunedRows ==
  ASSUME NEW rows, NEW cutoff, NEW t \in Sessions
  PROVE  \/ Pruned(rows, cutoff)[t] = rows[t]
         \/ rows[t].st \in {"live", "revoked"} /\ Pruned(rows, cutoff)[t] = Gone
  BY DEF Pruned, Gone

LEMMA LoginInsertMoves ==
  ASSUME AccessInv, NEW p \in Procs, LoginInsert(p)
  PROVE  SessionsMove
  <1>1. PICK rows : rows = Pruned(Rotated(p), time - Retention)
    OBVIOUS
  <1>2. PICK new : new = req[p].new
    OBVIOUS
  <1>3. PICK row : row = NewSession(req[p].user, req[p].node)
    OBVIOUS
  <1>4. /\ new \in Sessions /\ session[new].st = "free" /\ req[p].pc = "insert" /\ req[p].user \in Users
        /\ req[p].node \in Nodes
    BY <1>2 DEF LoginInsert, AccessInv, HandlersHold, HeldBy, Sessions, Users, Signing, AccessTypes, ReqRow
  <1>5. row \in SessionRow /\ Live(row) /\ row.seen = time
    BY <1>3, <1>4, SettingNumbers DEF NewSession, SessionRow, Live, AccessInv
  <1>6. \/ session' = [rows EXCEPT ![new] = row] /\ seenAt' = [seenAt EXCEPT ![new] = time]
        \/ session' = rows /\ seenAt' = seenAt
    BY <1>1, <1>2, <1>3 DEF LoginInsert
  <1>7. rows = [t \in Sessions |-> rows[t]]
    BY <1>1 DEF Pruned
  <1>8. seenAt \in [Sessions -> 0..MaxTime] /\ req \in [Procs -> ReqRow]
    BY DEF AccessInv, AccessTypes
  <1>9. session' = [t \in Sessions |-> session'[t]] /\ seenAt' = [t \in Sessions |-> seenAt'[t]]
    BY <1>4, <1>6, <1>7, <1>8
  <1>10. req'[p].pc = "quiet"
    BY <1>8 DEF LoginInsert, RequestEnds, Peer
  <1>11. ASSUME NEW t \in Sessions
         PROVE  \/ rows[t] = session[t]
                \/ session[t].st \in {"live", "revoked"} /\ rows[t] = Gone
                \/ /\ Live(session[t]) /\ rows[t] \in SessionRow
                   /\ rows[t].st = "revoked" /\ rows[t].reason = "rotated"
    BY <1>1, RotatedRows, PrunedRows DEF Live
  <1>12. ASSUME NEW t \in Sessions, session'[t] = rows[t], seenAt'[t] = seenAt[t]
         PROVE  RowStep(t)
    BY <1>11, <1>12 DEF RowStep
  <1>13. ASSUME session'[new] = row, seenAt'[new] = time
         PROVE  RowStep(new)
    BY <1>2, <1>4, <1>5, <1>10, <1>13 DEF RowStep
  <1>14. ASSUME NEW t \in Sessions
         PROVE  RowStep(t)
    <2>1. \/ session'[t] = rows[t] /\ seenAt'[t] = seenAt[t]
          \/ t = new /\ session'[t] = row /\ seenAt'[t] = time
      BY <1>6, <1>7, <1>8
    <2> QED
      BY <1>12, <1>13, <2>1
  <1> QED
    BY <1>9, <1>14 DEF SessionsMove

LEMMA UserDisableMoves ==
  ASSUME AccessInv, NEW u \in Users, UserDisable(u)
  PROVE  SessionsMove /\ KeysMove
  <1>1. SessionsMove
    <2>1. ASSUME NEW t \in Sessions
          PROVE  RowStep(t)
      <3>1. session'[t] = session[t] \/ session'[t] = Revoked(session, t, "user_disabled")[t]
        BY DEF UserDisable
      <3>2. seenAt'[t] = seenAt[t] /\ "user_disabled" \in Reasons
        BY DEF UserDisable, Reasons
      <3> QED
        BY <3>1, <3>2, RevokedRows DEF RowStep, AccessInv
    <2>2. session' = [t \in Sessions |-> session'[t]] /\ seenAt' = [t \in Sessions |-> seenAt'[t]]
      BY DEF UserDisable, AccessInv, AccessTypes
    <2> QED
      BY <2>1, <2>2 DEF SessionsMove
  <1>2. KeysMove
    <2>1. ASSUME NEW k \in Keys
          PROVE  KeyStep(k)
      <3>1. CASE Live(key[k]) /\ key[k].user = u
        <4>1. key[k] \in KeyRow
          BY <3>1 DEF AccessInv, AccessTypes, Live, Unused
        <4> DEFINE new == [key[k] EXCEPT !.st = "revoked"]
        <4>2. new \in KeyRow /\ new.st = "revoked" /\ new.user = u
          BY <3>1, <4>1 DEF KeyRow
        <4>3. key'[k] = [key EXCEPT ![k] = new][k]
          BY <3>1 DEF UserDisable, KeyRevoked
        <4>4. key'[k] = new
          BY <4>3 DEF AccessInv, AccessTypes
        <4>5. user'[u] = "disabled"
          BY DEF UserDisable, AccessInv, AccessTypes
        <4> HIDE DEF new
        <4> QED
          BY <3>1, <4>2, <4>4, <4>5 DEF KeyStep
      <3>2. CASE ~(Live(key[k]) /\ key[k].user = u)
        BY <3>2 DEF UserDisable, KeyStep
      <3> QED
        BY <3>1, <3>2
    <2> QED
      BY <2>1 DEF KeysMove, UserDisable
  <1> QED
    BY <1>1, <1>2

-----------------------------------------------------------------------------
(* The keys table.                                                         *)

LEMMA KeysSame ==
  ASSUME AccessInv, key' = key
  PROVE  KeysMove
  BY DEF KeysMove, KeyStep, AccessInv, AccessTypes

\* A row is stored after its record was written.
LEMMA KeyStored ==
  ASSUME AccessInv, NEW k \in Keys, NEW u \in Users, NEW n \in Nodes \union {"any"}, NEW days \in BOOLEAN,
         <<"create", k>> \in log, key' = [key EXCEPT ![k] = NewKey(u, n, days)]
  PROVE  KeysMove
  <1>1. PICK row : row = NewKey(u, n, days)
    OBVIOUS
  <1>2. row \in KeyRow /\ Live(row)
    BY <1>1, SettingNumbers DEF NewKey, KeyRow, Live, AccessInv
  <1>3. key \in [Keys -> KeyRow \union {Unused}] /\ key' = [key EXCEPT ![k] = row]
    BY <1>1 DEF AccessInv, AccessTypes
  <1> QED
    BY <1>2, <1>3 DEF KeysMove, KeyStep

\* A row is revoked after its record was written, or by the command line.
LEMMA KeyEnded ==
  ASSUME AccessInv, NEW k \in Keys, key' = KeyRevoked(key, k), "revoke" \in Cli \/ <<"revoke", k>> \in log
  PROVE  KeysMove
  <1>1. CASE ~Live(key[k])
    BY <1>1, KeysSame DEF KeyRevoked
  <1>2. CASE Live(key[k])
    <2>1. key[k] \in KeyRow
      BY <1>2 DEF AccessInv, AccessTypes, Live, Unused
    <2> DEFINE new == [key[k] EXCEPT !.st = "revoked"]
    <2>2. new \in KeyRow /\ new.st = "revoked"
      BY <2>1 DEF KeyRow
    <2>3. key' = [key EXCEPT ![k] = new] /\ key \in [Keys -> KeyRow \union {Unused}]
      BY <1>2 DEF KeyRevoked, AccessInv, AccessTypes
    <2> HIDE DEF new
    <2> QED
      BY <1>2, <2>2, <2>3 DEF KeysMove, KeyStep
  <1> QED
    BY <1>1, <1>2

LEMMA CreateKeyMoves ==
  ASSUME AccessInv, NEW p \in Procs, CreateKey(p)
  PROVE  KeysMove
  <1>1. req[p].new \in Keys /\ req[p].user \in Users /\ <<"create", req[p].new>> \in log
    BY DEF CreateKey, AccessInv, HandlersHold, HeldBy, Keys, Users
  <1>2. PICK n \in Nodes \union {"any"}, days \in BOOLEAN :
            key' = [key EXCEPT ![req[p].new] = NewKey(req[p].user, n, days)]
    BY DEF CreateKey
  <1> QED
    BY <1>1, <1>2, KeyStored

LEMMA RevokeKeyMoves ==
  ASSUME AccessInv, NEW p \in Procs, RevokeKey(p)
  PROVE  KeysMove
  <1>1. req[p].new \in Keys /\ <<"revoke", req[p].new>> \in log
    BY DEF RevokeKey, AccessInv, HandlersHold, HeldBy, Keys
  <1> QED
    BY <1>1, KeyEnded DEF RevokeKey

LEMMA CliCreateMoves ==
  ASSUME AccessInv, CliCreate
  PROVE  KeysMove
  <1>1. cli.target \in Keys /\ cli.user \in Users /\ <<"create", cli.target>> \in log
    BY DEF CliCreate, AccessInv, AccessTypes
  <1>2. CASE key' = key
    BY <1>2, KeysSame
  <1>3. CASE \E n \in Nodes \union {"any"}, days \in BOOLEAN :
               key' = [key EXCEPT ![cli.target] = NewKey(cli.user, n, days)]
    BY <1>1, <1>3, KeyStored
  <1> QED
    BY <1>2, <1>3 DEF CliCreate

-----------------------------------------------------------------------------
(* The requests.                                                           *)

\* The connection p goes on to r, which is not about to store a session.
LEMMA GoesOn ==
  ASSUME AccessInv, NEW p \in Procs, NEW r \in ReqRow, req' = [req EXCEPT ![p] = r],
         r.pc \notin Signing, HeldBy(realm, session', log', r)
  PROVE  ReqsMove
  BY DEF ReqsMove, ReqTo

\* It admits somebody only where Admissions says so.
LEMMA GoesOnAdmits ==
  ASSUME AccessInv, NEW p \in Procs, NEW r, req' = [req EXCEPT ![p] = r],
         req[p].pc = "quiet" /\ r.pc \in {"session", "key"} =>
            /\ user[r.user] = "active"
            /\ r.pc = "session" => r.cred \notin exposed /\ time - seenAt[r.cred] < IdleLimit
  PROVE  Admissions
  <1>1. \A q \in Procs : req'[q] = IF q = p THEN r ELSE req[q]
    BY DEF AccessInv, AccessTypes
  <1>2. ASSUME NEW q \in Procs, Admitted(q)
        PROVE  q = p /\ req'[q] = r /\ req[p].pc = "quiet" /\ r.pc \in {"session", "key"}
    BY <1>1, <1>2 DEF Admitted
  <1> QED
    BY <1>2 DEF Admissions

LEMMA NobodyGoesOn ==
  ASSUME req' = req
  PROVE  ReqsMove /\ Admissions
  BY DEF ReqsMove, Admissions, Admitted

LEMMA ReqRowOf ==
  ASSUME AccessInv, NEW p \in Procs
  PROVE  req[p] \in ReqRow /\ req \in [Procs -> ReqRow] /\ HeldBy(realm, session, log, req[p])
  BY DEF AccessInv, AccessTypes, HandlersHold

\* The request is over.
LEMMA DoneMoves ==
  ASSUME AccessInv, NEW p \in Procs, RequestEnds(p)
  PROVE  ReqsMove /\ Admissions
  <1>1. PICK r : r = Peer(req[p].node, req[p].login)
    OBVIOUS
  <1>2. r \in ReqRow /\ r.pc = "quiet"
    BY <1>1, ReqRowOf DEF ReqRow, Peer, Places
  <1>3. req' = [req EXCEPT ![p] = r]
    BY <1>1 DEF RequestEnds
  <1>4. HeldBy(realm, session', log', r)
    BY <1>2 DEF HeldBy, Signing
  <1> QED
    BY <1>2, <1>3, <1>4, GoesOn, GoesOnAdmits DEF Signing

LEMMA ReconnectMoves ==
  ASSUME AccessInv, NEW p \in Procs, NEW n \in Nodes, Reconnect(p, n)
  PROVE  ReqsMove /\ Admissions
  <1>1. PICK r : r = Quiet(n)
    OBVIOUS
  <1>2. r \in ReqRow /\ r.pc = "quiet"
    BY <1>1 DEF ReqRow, Quiet, Peer, Places, AccessInv, AccessTypes
  <1>3. req' = [req EXCEPT ![p] = r]
    BY <1>1 DEF Reconnect
  <1>4. HeldBy(realm, session', log', r)
    BY <1>2 DEF HeldBy, Signing
  <1> QED
    BY <1>2, <1>3, <1>4, GoesOn, GoesOnAdmits DEF Signing

\* A credential is accepted: As(p, pc, u, c).
LEMMA AsMoves ==
  ASSUME AccessInv, NEW p \in Procs, NEW pc \in {"session", "key"}, NEW u \in Users, NEW c \in Sessions \union Keys,
         As(p, pc, u, c), user[u] = "active",
         pc = "session" => c \in Sessions /\ c \notin exposed /\ time - seenAt[c] < IdleLimit
  PROVE  ReqsMove /\ Admissions
  <1> DEFINE r == [req[p] EXCEPT !.pc = pc, !.user = u, !.cred = c]
  <1>1. r \in ReqRow /\ r.pc = pc /\ r.user = u /\ r.cred = c
    BY ReqRowOf DEF ReqRow, Places
  <1>2. req' = [req EXCEPT ![p] = r]
    BY DEF As
  <1> HIDE DEF r
  <1>3. HeldBy(realm, session', log', r)
    BY <1>1 DEF HeldBy, Signing, Users, Sessions
  <1>4. r.pc \notin Signing
    BY <1>1 DEF Signing
  <1> QED
    BY <1>1, <1>2, <1>3, <1>4, GoesOn, GoesOnAdmits

LEMMA PresentOwnAdmits ==
  ASSUME AccessInv, NEW p \in Procs, NEW s \in Sessions, PresentOwn(p, s)
  PROVE  ReqsMove /\ Admissions
  <1>1. PICK u : u = session[s].user
    OBVIOUS
  <1>2. Fresh(s) /\ As(p, "session", u, s) /\ user[u] = "active"
    BY <1>1 DEF PresentOwn
  <1>3. u \in Users /\ s \notin exposed /\ time - seenAt[s] < IdleLimit
    BY <1>1, <1>2, FreshRow
  <1> QED
    BY <1>2, <1>3, AsMoves

LEMMA PresentKeyAdmits ==
  ASSUME AccessInv, NEW p \in Procs, NEW k \in Keys, PresentKey(p, k)
  PROVE  ReqsMove /\ Admissions
  <1>1. PICK u : u = key[k].user
    OBVIOUS
  <1>2. Live(key[k]) /\ As(p, "key", u, k) /\ user[u] = "active"
    BY <1>1 DEF PresentKey, KeyAccepted
  <1>3. u \in Users
    BY <1>1, <1>2 DEF AccessInv, AccessTypes, Live, KeyRow, Unused
  <1> QED
    BY <1>2, <1>3, AsMoves

\* login chose a free token that no other request has.
LEMMA LoginCheckMoves ==
  ASSUME AccessInv, NEW p \in Procs, NEW old \in Sessions \union {"none"}, LoginCheck(p, old)
  PROVE  ReqsMove /\ Admissions
  <1>1. PICK s \in Sessions :
          /\ session[s].st = "free" /\ \A q \in Procs : req[q].new # s
          /\ req' = [req EXCEPT ![p] = [@ EXCEPT !.pc = "login", !.user = req[p].login, !.new = s, !.old = old]]
    BY DEF LoginCheck
  <1>2. PICK u : u = req[p].login
    OBVIOUS
  <1>3. u \in Users
    BY <1>2, ReqRowOf DEF LoginCheck, ReqRow, Logins
  <1> DEFINE r == [req[p] EXCEPT !.pc = "login", !.user = u, !.new = s, !.old = old]
  <1>4. r \in ReqRow /\ r.pc = "login" /\ r.user = u /\ r.new = s
    BY <1>3, ReqRowOf DEF ReqRow, Places
  <1>5. req' = [req EXCEPT ![p] = r]
    BY <1>1, <1>2
  <1> HIDE DEF r
  <1>6. session' = session /\ log' = log
    BY DEF LoginCheck
  <1>7. HeldBy(realm, session', log', r)
    BY <1>1, <1>3, <1>4, <1>6 DEF HeldBy, Signing, Users, Sessions
  <1>8. ReqTo(p, r)
    BY <1>1, <1>4, <1>5, <1>7 DEF ReqTo
  <1> QED
    BY <1>4, <1>5, <1>8, GoesOnAdmits DEF ReqsMove

\* The record of a login is written: its token is still its own.
LEMMA LoginRecordMoves ==
  ASSUME AccessInv, NEW p \in Procs, LoginRecord(p)
  PROVE  ReqsMove /\ Admissions
  <1> DEFINE r == [req[p] EXCEPT !.pc = "insert"]
  <1>1. req[p].pc = "login" /\ HeldBy(realm, session, log, req[p]) /\ req[p] \in ReqRow
    BY ReqRowOf DEF LoginRecord
  <1>2. r \in ReqRow /\ r.pc = "insert" /\ r.new = req[p].new /\ r.user = req[p].user
    BY <1>1 DEF ReqRow, Places
  <1>3. req' = [req EXCEPT ![p] = r]
    BY DEF LoginRecord, Allow, At
  <1> HIDE DEF r
  <1>4. session' = session /\ <<"login", r.new>> \in log'
    BY <1>2 DEF LoginRecord, Allow
  <1>5. HeldBy(realm, session', log', r)
    BY <1>1, <1>2, <1>4 DEF HeldBy, Signing
  <1>6. ASSUME NEW q \in Procs, q # p, req[q].pc \in Signing
        PROVE  req[q].new # r.new
    BY <1>1, <1>2, <1>6 DEF AccessInv, TokensApart, Signing
  <1>7. ReqTo(p, r)
    BY <1>2, <1>3, <1>5, <1>6 DEF ReqTo
  <1> QED
    BY <1>2, <1>3, <1>7, GoesOnAdmits DEF ReqsMove

\* The other records: the request goes on to make the change it recorded.
LEMMA RecordMoves ==
  ASSUME AccessInv, NEW p \in Procs, LogoutRecord(p) \/ RevokeKeyRecord(p)
  PROVE  ReqsMove /\ Admissions
  <1>1. PICK to : to = IF req[p].pc = "session" THEN "logout" ELSE "revoke"
    OBVIOUS
  <1> DEFINE r == [req[p] EXCEPT !.pc = to]
  <1>2. req[p].pc \in {"session", "check"} /\ HeldBy(realm, session, log, req[p]) /\ req[p] \in ReqRow
    BY ReqRowOf DEF LogoutRecord, RevokeKeyRecord
  <1>3. r \in ReqRow /\ r.pc = to /\ r.new = req[p].new /\ r.user = req[p].user /\ r.cred = req[p].cred
    BY <1>1, <1>2 DEF ReqRow, Places
  <1>4. req' = [req EXCEPT ![p] = r]
    BY <1>1 DEF LogoutRecord, RevokeKeyRecord, Allow, At
  <1> HIDE DEF r
  <1>5. to = "logout" => <<"logout", r.cred>> \in log'
    BY <1>1, <1>3 DEF LogoutRecord, RevokeKeyRecord, Allow
  <1>6. to = "revoke" => <<"revoke", r.new>> \in log'
    BY <1>1, <1>3 DEF LogoutRecord, RevokeKeyRecord, Allow
  <1>7. HeldBy(realm, session', log', r)
    BY <1>1, <1>2, <1>3, <1>5, <1>6 DEF HeldBy, Signing
  <1> QED
    BY <1>1, <1>2, <1>3, <1>4, <1>7, GoesOn, GoesOnAdmits DEF Signing

\* A request about a key: its record is written, or its row was found.
LEMMA KeyRequestMoves ==
  ASSUME AccessInv, NEW p \in Procs, NEW k \in Keys, CreateKeyRecord(p, k) \/ RevokeKeyCheck(p, k)
  PROVE  ReqsMove /\ Admissions
  <1>1. PICK to \in {"create", "check"} :
          /\ req' = [req EXCEPT ![p] = [@ EXCEPT !.pc = to, !.new = k]]
          /\ to = "create" => <<"create", k>> \in log'
    BY DEF CreateKeyRecord, RecordKey, RevokeKeyCheck
  <1> DEFINE r == [req[p] EXCEPT !.pc = to, !.new = k]
  <1>2. req[p].pc = "session" /\ HeldBy(realm, session, log, req[p]) /\ req[p] \in ReqRow
    BY ReqRowOf DEF CreateKeyRecord, RevokeKeyCheck
  <1>3. r \in ReqRow /\ r.pc = to /\ r.new = k /\ r.user = req[p].user
    BY <1>2 DEF ReqRow, Places
  <1>4. req' = [req EXCEPT ![p] = r]
    BY <1>1
  <1> HIDE DEF r
  <1>5. HeldBy(realm, session', log', r)
    BY <1>1, <1>2, <1>3 DEF HeldBy, Signing, Keys
  <1> QED
    BY <1>2, <1>3, <1>4, <1>5, GoesOn, GoesOnAdmits DEF Signing

-----------------------------------------------------------------------------
(* Every step is of that kind.                                             *)

\* What most steps leave alone.
LEMMA PlainSame ==
  ASSUME AccessInv, UNCHANGED <<time, user, owner, moves, cli, log, exposed>>
  PROVE  PlainMove
  BY SettingNumbers DEF PlainMove, AccessInv, AccessTypes

LEMMA PlainRecord ==
  ASSUME AccessInv, UNCHANGED <<time, user, owner, moves, cli, exposed>>, NEW e, log' = log \union {e},
         e \in ({"login", "logout"} \X Sessions) \union ({"create", "revoke"} \X Keys)
  PROVE  PlainMove
  BY SettingNumbers DEF PlainMove, AccessInv, AccessTypes

\* Presenting a session or a key, and the requests about keys.
LEMMA PresentStep ==
  ASSUME AccessInv, realm' = realm, NEW p \in Procs,
         \/ \E s \in Sessions : PresentOld(p, s) \/ PresentForeign(p, s) \/ PresentOwn(p, s)
         \/ \E k \in Keys : PresentKey(p, k) \/ CreateKeyRecord(p, k) \/ RevokeKeyCheck(p, k)
  PROVE  AccessMove /\ Admissions
  <1>1. ASSUME NEW s \in Sessions, PresentOld(p, s)
        PROVE  AccessMove /\ Admissions
    <2>1. SessionsMove
      BY <1>1, PresentOldMoves
    <2>2. KeysMove /\ PlainMove /\ ReqsMove /\ Admissions
      BY <1>1, KeysSame, PlainSame, NobodyGoesOn DEF PresentOld
    <2> QED
      BY <2>1, <2>2 DEF AccessMove
  <1>2. ASSUME NEW s \in Sessions, PresentForeign(p, s)
        PROVE  AccessMove /\ Admissions
    <2>1. SessionsMove /\ session'[s].st = "revoked"
      BY <1>2, PresentForeignMoves
    <2>2. KeysMove /\ ReqsMove /\ Admissions
      BY <1>2, KeysSame, NobodyGoesOn DEF PresentForeign
    <2>3. PlainMove
      BY <1>2, <2>1, SettingNumbers DEF PresentForeign, PlainMove, AccessInv, AccessTypes
    <2> QED
      BY <2>1, <2>2, <2>3 DEF AccessMove
  <1>3. ASSUME NEW s \in Sessions, PresentOwn(p, s)
        PROVE  AccessMove /\ Admissions
    <2>1. SessionsMove /\ ReqsMove /\ Admissions
      BY <1>3, PresentOwnMoves, PresentOwnAdmits
    <2>2. KeysMove /\ PlainMove
      BY <1>3, KeysSame, PlainSame DEF PresentOwn
    <2> QED
      BY <2>1, <2>2 DEF AccessMove
  <1>4. ASSUME NEW k \in Keys, PresentKey(p, k)
        PROVE  AccessMove /\ Admissions
    <2>1. ReqsMove /\ Admissions
      BY <1>4, PresentKeyAdmits
    <2>2. SessionsMove /\ KeysMove /\ PlainMove
      BY <1>4, SessionsSame, KeysSame, PlainSame DEF PresentKey
    <2> QED
      BY <2>1, <2>2 DEF AccessMove
  <1>5. ASSUME NEW k \in Keys, CreateKeyRecord(p, k)
        PROVE  AccessMove /\ Admissions
    <2>1. ReqsMove /\ Admissions
      BY <1>5, KeyRequestMoves
    <2>2. SessionsMove /\ KeysMove
      BY <1>5, SessionsSame, KeysSame DEF CreateKeyRecord, RecordKey
    <2>3. PlainMove
      BY <1>5, PlainRecord DEF CreateKeyRecord, RecordKey
    <2> QED
      BY <2>1, <2>2, <2>3 DEF AccessMove
  <1>6. ASSUME NEW k \in Keys, RevokeKeyCheck(p, k)
        PROVE  AccessMove /\ Admissions
    <2>1. ReqsMove /\ Admissions
      BY <1>6, KeyRequestMoves
    <2>2. SessionsMove /\ KeysMove /\ PlainMove
      BY <1>6, SessionsSame, KeysSame, PlainSame DEF RevokeKeyCheck
    <2> QED
      BY <2>1, <2>2 DEF AccessMove
  <1> QED
    BY <1>1, <1>2, <1>3, <1>4, <1>5, <1>6

\* The statement groups of a handler after the first.
LEMMA HandlerStep ==
  ASSUME AccessInv, realm' = realm, NEW p \in Procs,
         \/ \E old \in Sessions \union {"none"} : LoginCheck(p, old)
         \/ LoginRecord(p) \/ LoginInsert(p) \/ LogoutRecord(p) \/ Logout(p)
         \/ CreateKey(p) \/ RevokeKeyRecord(p) \/ RevokeKey(p) \/ Abandon(p)
         \/ \E n \in Nodes : Reconnect(p, n)
  PROVE  AccessMove /\ Admissions
  <1>1. ASSUME NEW old \in Sessions \union {"none"}, LoginCheck(p, old)
        PROVE  AccessMove /\ Admissions
    <2>1. ReqsMove /\ Admissions
      BY <1>1, LoginCheckMoves
    <2>2. SessionsMove /\ KeysMove /\ PlainMove
      BY <1>1, SessionsSame, KeysSame, PlainSame DEF LoginCheck
    <2> QED
      BY <2>1, <2>2 DEF AccessMove
  <1>2. CASE LoginRecord(p) \/ LogoutRecord(p) \/ RevokeKeyRecord(p)
    <2>1. ReqsMove /\ Admissions
      BY <1>2, LoginRecordMoves, RecordMoves
    <2>2. SessionsMove /\ KeysMove
      BY <1>2, SessionsSame, KeysSame DEF LoginRecord, LogoutRecord, RevokeKeyRecord, Allow
    <2>3. UNCHANGED <<time, user, owner, moves, cli, exposed>>
      BY <1>2 DEF LoginRecord, LogoutRecord, RevokeKeyRecord, Allow
    <2>4. HeldBy(realm, session, log, req[p])
      BY ReqRowOf
    <2>5. ASSUME LoginRecord(p)
          PROVE  PlainMove
      <3>1. req[p].new \in Sessions /\ log' = log \union {<<"login", req[p].new>>}
        BY <2>4, <2>5 DEF LoginRecord, Allow, HeldBy, Signing, Sessions
      <3> QED
        BY <2>3, <3>1, PlainRecord
    <2>6. ASSUME LogoutRecord(p)
          PROVE  PlainMove
      <3>1. req[p].cred \in Sessions /\ log' = log \union {<<"logout", req[p].cred>>}
        BY <2>4, <2>6 DEF LogoutRecord, Allow, HeldBy, Sessions
      <3> QED
        BY <2>3, <3>1, PlainRecord
    <2>7. ASSUME RevokeKeyRecord(p)
          PROVE  PlainMove
      <3>1. req[p].new \in Keys /\ log' = log \union {<<"revoke", req[p].new>>}
        BY <2>4, <2>7 DEF RevokeKeyRecord, Allow, HeldBy, Keys
      <3> QED
        BY <2>3, <3>1, PlainRecord
    <2> QED
      BY <1>2, <2>1, <2>2, <2>5, <2>6, <2>7 DEF AccessMove
  <1>3. CASE LoginInsert(p) \/ Logout(p)
    <2>1. ReqsMove /\ Admissions
      BY <1>3, DoneMoves DEF LoginInsert, Logout
    <2>2. SessionsMove
      BY <1>3, LoginInsertMoves, LogoutMoves
    <2>3. KeysMove /\ PlainMove
      BY <1>3, KeysSame, PlainSame DEF LoginInsert, Logout
    <2> QED
      BY <2>1, <2>2, <2>3 DEF AccessMove
  <1>4. CASE CreateKey(p) \/ RevokeKey(p)
    <2>1. ReqsMove /\ Admissions
      BY <1>4, DoneMoves DEF CreateKey, RevokeKey
    <2>2. KeysMove
      BY <1>4, CreateKeyMoves, RevokeKeyMoves
    <2>3. SessionsMove /\ PlainMove
      BY <1>4, SessionsSame, PlainSame DEF CreateKey, RevokeKey
    <2> QED
      BY <2>1, <2>2, <2>3 DEF AccessMove
  <1>5. CASE Abandon(p)
    BY <1>5, DoneMoves, SessionsSame, KeysSame, PlainSame DEF Abandon, AccessMove
  <1>6. ASSUME NEW n \in Nodes, Reconnect(p, n)
        PROVE  AccessMove /\ Admissions
    <2>1. ReqsMove /\ Admissions
      BY <1>6, ReconnectMoves
    <2>2. SessionsMove /\ KeysMove /\ PlainMove
      BY <1>6, SessionsSame, KeysSame, PlainSame DEF Reconnect
    <2> QED
      BY <2>1, <2>2 DEF AccessMove
  <1> QED
    BY <1>1, <1>2, <1>3, <1>4, <1>5, <1>6

\* The command line.
LEMMA CommandStep ==
  ASSUME AccessInv, realm' = realm, Command
  PROVE  AccessMove /\ Admissions
  <1>1. ASSUME NEW u \in Users, UserAdd(u)
        PROVE  AccessMove /\ Admissions
    <2>1. SessionsMove /\ KeysMove /\ ReqsMove /\ Admissions
      BY <1>1, SessionsSame, KeysSame, NobodyGoesOn DEF UserAdd
    <2>2. PlainMove
      BY <1>1, SettingNumbers DEF UserAdd, PlainMove, AccessInv, AccessTypes
    <2> QED
      BY <2>1, <2>2 DEF AccessMove
  <1>2. ASSUME NEW u \in Users, UserDisable(u)
        PROVE  AccessMove /\ Admissions
    <2>1. SessionsMove /\ KeysMove
      BY <1>2, UserDisableMoves
    <2>2. ReqsMove /\ Admissions
      BY <1>2, NobodyGoesOn DEF UserDisable
    <2>3. PlainMove
      BY <1>2, SettingNumbers DEF UserDisable, PlainMove, AccessInv, AccessTypes
    <2> QED
      BY <2>1, <2>2, <2>3 DEF AccessMove
  <1>3. ASSUME NEW u \in Users, NEW k \in Keys, CliCreateRecord(u, k)
        PROVE  AccessMove /\ Admissions
    <2>1. SessionsMove /\ KeysMove /\ ReqsMove /\ Admissions
      BY <1>3, SessionsSame, KeysSame, NobodyGoesOn DEF CliCreateRecord
    <2>2. PlainMove
      BY <1>3, SettingNumbers DEF CliCreateRecord, PlainMove, AccessInv, AccessTypes
    <2> QED
      BY <2>1, <2>2 DEF AccessMove
  <1>4. ASSUME NEW k \in Keys, CliRevoke(k)
        PROVE  AccessMove /\ Admissions
    <2>1. SessionsMove /\ ReqsMove /\ Admissions
      BY <1>4, SessionsSame, NobodyGoesOn DEF CliRevoke
    <2>2. KeysMove
      BY <1>4, KeyEnded DEF CliRevoke
    <2>3. PlainMove
      BY <1>4, SettingNumbers DEF CliRevoke, PlainMove, AccessInv, AccessTypes
    <2> QED
      BY <2>1, <2>2, <2>3 DEF AccessMove
  <1>5. CASE CliCreate
    <2>1. SessionsMove /\ ReqsMove /\ Admissions
      BY <1>5, SessionsSame, NobodyGoesOn DEF CliCreate
    <2>2. KeysMove
      BY <1>5, CliCreateMoves
    <2>3. PlainMove
      BY <1>5, SettingNumbers DEF CliCreate, PlainMove, AccessInv, AccessTypes
    <2> QED
      BY <2>1, <2>2, <2>3 DEF AccessMove
  <1>6. CASE CliRevokeRecord
    <2>1. SessionsMove /\ KeysMove /\ ReqsMove /\ Admissions
      BY <1>6, SessionsSame, KeysSame, NobodyGoesOn DEF CliRevokeRecord
    <2>2. cli.target \in Keys
      BY <1>6 DEF CliRevokeRecord, AccessInv, AccessTypes
    <2>3. PlainMove
      BY <1>6, <2>2, SettingNumbers DEF CliRevokeRecord, PlainMove, AccessInv, AccessTypes
    <2> QED
      BY <2>1, <2>3 DEF AccessMove
  <1> QED
    BY <1>1, <1>2, <1>3, <1>4, <1>5, <1>6 DEF Command

LEMMA AccessStep ==
  ASSUME AccessInv, AccessNext
  PROVE  AccessMove /\ Admissions
  <1>0. realm' = realm
    BY DEF AccessNext
  <1>1. ASSUME NEW p \in Procs, Request(p)
        PROVE  AccessMove /\ Admissions
    BY <1>0, <1>1, PresentStep, HandlerStep DEF Request
  <1>2. CASE Command
    BY <1>0, <1>2, CommandStep
  <1>3. ASSUME NEW n \in Nodes, NEW who \in Logins, Reassign(n, who)
        PROVE  AccessMove /\ Admissions
    <2>1. SessionsMove /\ KeysMove /\ ReqsMove /\ Admissions
      BY <1>3, SessionsSame, KeysSame, NobodyGoesOn DEF Reassign
    <2>2. PlainMove
      BY <1>3, SettingNumbers DEF Reassign, PlainMove, AccessInv, AccessTypes
    <2> QED
      BY <1>0, <2>1, <2>2 DEF AccessMove
  <1>4. CASE TimePasses
    <2>1. SessionsMove /\ KeysMove /\ ReqsMove /\ Admissions
      BY <1>4, SessionsSame, KeysSame, NobodyGoesOn DEF TimePasses
    <2>2. PlainMove
      BY <1>4, SettingNumbers DEF TimePasses, PlainMove, AccessInv, AccessTypes
    <2> QED
      BY <1>0, <2>1, <2>2 DEF AccessMove
  <1> QED
    BY <1>1, <1>2, <1>3, <1>4 DEF AccessNext, AccessActivity

LEMMA AccessRests ==
  ASSUME AccessInv, UNCHANGED accessVars
  PROVE  AccessMove /\ Admissions
  <1>1. SessionsMove /\ KeysMove /\ ReqsMove /\ Admissions /\ PlainMove
    BY SessionsSame, KeysSame, NobodyGoesOn, PlainSame DEF accessVars
  <1> QED
    BY <1>1 DEF AccessMove, accessVars

LEMMA AccessStarts ==
  ASSUME AccessAssumption, AccessInit
  PROVE  AccessInv
  <1>1. realm \in Realms /\ MaxTime \in Nat /\ MaxMoves \in Nat
    BY DEF AccessInit, AccessAssumption, MaxTime, MaxMoves
  <1>2. ASSUME NEW p \in Procs
        PROVE  req[p] \in ReqRow /\ req[p].pc = "quiet"
    BY DEF AccessInit, Quiet, Peer, ReqRow, Places
  <1>3. req \in [Procs -> ReqRow]
    BY <1>2 DEF AccessInit
  <1>4. AccessTypes
    BY <1>1, <1>3 DEF AccessInit, AccessTypes
  <1>5. HandlersHold /\ TokensApart
    BY <1>2 DEF HandlersHold, TokensApart, HeldBy, Signing
  <1>6. Recorded /\ RevocationsRecorded /\ SeenKept /\ ExposedEnded
    BY DEF AccessInit, Recorded, RevocationsRecorded, SeenKept, ExposedEnded, Unused, Live
  <1> QED
    BY <1>4, <1>5, <1>6 DEF AccessInv

LEMMA AccessAlways == AccessAssumption /\ AccessSpec => []AccessInv
  <1>1. AccessAssumption /\ AccessInit => AccessInv
    BY AccessStarts
  <1>2. AccessInv /\ [AccessNext]_accessVars => AccessInv'
    BY AccessStep, AccessRests, MoveKeeps
  <1> QED
    BY <1>1, <1>2, PTL DEF AccessSpec

-----------------------------------------------------------------------------
(* The results.                                                            *)

\* Every sign-in, sign-out, new key and revoked key is in the audit log
\* before it happens, and the tables keep their types, however the handlers
\* interleave (login, logout, create_key, revoke_key).
THEOREM ChangesAreAudited == AccessAssumption /\ AccessSpec => []ChangesAudited
  <1>1. AccessInv => AccessTyped
    BY DEF AccessInv, AccessTypes, AccessTyped, ReqRow, Gone
  <1>2. AccessInv => AuditedFirst
    BY DEF AccessInv, Recorded, RevocationsRecorded, AuditedFirst
  <1> QED
    BY <1>1, <1>2, AccessAlways, PTL DEF ChangesAudited

LEMMA HonestStep ==
  ASSUME AccessInv, AccessMove, Admissions, NEW s \in Sessions
  PROVE  /\ \A p \in Procs :
              Admitted(p) /\ req'[p].pc = "session" /\ req'[p].cred = s => time - seenAt[s] < IdleLimit
         /\ session'[s].st = "revoked" /\ Live(session[s]) /\ session'[s].reason = "idle"
              => time - seenAt[s] > IdleLimit - Touch
  <1>1. RowStep(s)
    BY DEF AccessMove, SessionsMove
  <1>2. session'[s].st = "revoked" /\ Live(session[s]) /\ session'[s].reason = "idle"
           => time - seenAt[s] > IdleLimit - Touch
    BY <1>1 DEF RowStep, Live, Gone
  <1> QED
    BY <1>2 DEF Admissions

\* No request is admitted as a disabled user, with a cookie that was once
\* presented by another node or user, or with a session idle for too long;
\* and a session is ended as idle only when it was
\* (authenticate_session, authenticate_api_key).
THEOREM AccessIsRefused == AccessAssumption /\ AccessSpec => AccessRefused
  <1>1. AccessInv /\ [AccessNext]_accessVars => AccessMove /\ Admissions
    BY AccessStep, AccessRests
  <1>2. AccessInv /\ [AccessNext]_accessVars =>
          [\A p \in Procs : Admitted(p) => user[req'[p].user] = "active"]_accessVars
    BY <1>1 DEF Admissions
  <1>3. AccessInv /\ [AccessNext]_accessVars =>
          [\A p \in Procs : Admitted(p) /\ req'[p].pc = "session" => req'[p].cred \notin exposed]_accessVars
    BY <1>1 DEF Admissions
  <1>4. AccessInv /\ [AccessNext]_accessVars =>
          [\A s \in Sessions :
             /\ \A p \in Procs :
                  Admitted(p) /\ req'[p].pc = "session" /\ req'[p].cred = s => time - seenAt[s] < IdleLimit
             /\ session'[s].st = "revoked" /\ Live(session[s]) /\ session'[s].reason = "idle"
                  => time - seenAt[s] > IdleLimit - Touch]_accessVars
    BY <1>1, HonestStep
  <1>5. AccessAssumption /\ AccessSpec => DisabledNeverActs
    BY <1>2, AccessAlways, PTL DEF AccessSpec, DisabledNeverActs
  <1>6. AccessAssumption /\ AccessSpec => ExposedNeverAccepted
    BY <1>3, AccessAlways, PTL DEF AccessSpec, ExposedNeverAccepted
  <1>7. AccessAssumption /\ AccessSpec => IdleIsHonest
    BY <1>4, AccessAlways, PTL DEF AccessSpec, IdleIsHonest
  <1> QED
    BY <1>5, <1>6, <1>7 DEF AccessRefused

=============================================================================
