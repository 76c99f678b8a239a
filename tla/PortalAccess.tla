---------------------------- MODULE PortalAccess ----------------------------
(***************************************************************************)
(* Who may act through `portal serve`: users, browser sessions and API     *)
(* keys, the requests that check them and the audit records written before *)
(* a change (portal_server.rs, auth.rs, metadata/identity.rs), beside the  *)
(* identity commands of the command line (main.rs), which run in another   *)
(* process on the same database.                                           *)
(*                                                                         *)
(* A handler takes the database lock once per statement group: it reads    *)
(* the credential, writes the audit record and makes its change in         *)
(* separate steps, and other handlers and commands run in between.         *)
(* A session is stamped with the time of its insertion; the code reads the *)
(* clock before the audit record, so its session ends a little earlier.    *)
(***************************************************************************)
EXTENDS Integers

CONSTANTS
  Retention, KeyLifetime,   \* seconds, scaled down
  Realms        \* who and what there is

AccessAssumption ==
  /\ {Retention, KeyLifetime} \subseteq Nat
  /\ \A x \in Realms :
       /\ {x.idle, x.lifetime, x.touch, x.time, x.moves} \subseteq Nat
       /\ 0 < x.touch /\ x.touch <= x.idle
       /\ x.cli \subseteq {"disable", "create", "revoke"}

VARIABLES
  time,     \* the clock of the portal's host
  user,     \* users and identities: none, active or disabled
  owner,    \* whose node it is, or "tagged" (external: Tailscale)
  moves,
  session,  \* the sessions table
  key,      \* the api_keys table
  req,      \* per connection: WhoIs identity and the request it serves
  cli,      \* a `portal api-key create` or `revoke` between two statements
  log,      \* audit records with outcome "allowed"
  seenAt,   \* history: when a session was last admitted
  exposed,  \* history: sessions presented by another node or user
  realm     \* the one of Realms there is

accessVars == <<time, user, owner, moves, session, key, req, cli, log, seenAt, exposed, realm>>

Users    == realm.users       \* one Tailscale login each
Nodes    == realm.nodes       \* tailnet nodes, by stable id
PortalNode == realm.portal    \* the portal's own node: no sign-in from it
Procs    == realm.procs       \* connections, each serving one request at a time
Sessions == realm.sessions    \* session tokens a login can mint
Keys     == realm.keys        \* API keys that can be minted
Cli      == realm.cli         \* identity commands the operator issues
IdleLimit == realm.idle       \* seconds, scaled down
Lifetime == realm.lifetime
Touch    == realm.touch
MaxTime  == realm.time        \* bound: the clock stops there
MaxMoves == realm.moves       \* bound: how often a node changes its owner

Logins == Users \union {"tagged"}
Unused == [st |-> "free"]

\* A connection with no request on it; its identity is WhoIs's answer when
\* it was accepted and stays until it is closed.
Peer(n, who) == [pc |-> "quiet", node |-> n, login |-> who,
                 user |-> "none", cred |-> "none", new |-> "none", old |-> "none"]
Quiet(n) == Peer(n, owner[n])

AccessInit ==
  /\ realm \in Realms
  /\ time = 0 /\ moves = 0 /\ log = {} /\ exposed = {}
  /\ user = [u \in Users |-> "none"]
  /\ owner \in [Nodes -> Logins]
  /\ session = [s \in Sessions |-> Unused]
  /\ key = [k \in Keys |-> Unused]
  /\ req \in [Procs -> {Quiet(n) : n \in Nodes}]
  /\ cli = [pc |-> "quiet"]
  /\ seenAt = [s \in Sessions |-> 0]

-----------------------------------------------------------------------------
(* The tables.                                                             *)

Live(row) == row.st = "live"

\* UPDATE sessions ... WHERE session_id = s AND revoked_at IS NULL.
Revoked(rows, s, why) ==
  IF Live(rows[s])
  THEN [rows EXCEPT ![s] = [@ EXCEPT !.st = "revoked", !.ended = time, !.reason = why]]
  ELSE rows

KeyRevoked(rows, k) ==
  IF Live(rows[k]) THEN [rows EXCEPT ![k] = [@ EXCEPT !.st = "revoked"]] ELSE rows

\* DELETE FROM sessions WHERE expires_at < cutoff OR revoked_at < cutoff.
Pruned(rows, cutoff) ==
  [s \in Sessions |->
     IF rows[s].st \in {"live", "revoked"}
        /\ \/ rows[s].expires < cutoff
           \/ rows[s].st = "revoked" /\ rows[s].ended < cutoff
     THEN [st |-> "pruned"] ELSE rows[s]]

NewSession(u, n) ==
  [st |-> "live", user |-> u, node |-> n, seen |-> time,
   expires |-> time + Lifetime, ended |-> 0, reason |-> "none"]

\* Expiry is optional: a key without one is modelled by the bound on time.
NewKey(u, n, days) ==
  [st |-> "live", user |-> u, node |-> n,
   expires |-> IF days THEN time + KeyLifetime ELSE MaxTime + 1]

-----------------------------------------------------------------------------
(* Authentication: one statement group under the database lock.            *)

\* touch_session: at most once every Touch seconds, and only a live row.
Touched(s) ==
  IF time - session[s].seen >= Touch
  THEN [session EXCEPT ![s] = [@ EXCEPT !.seen = time]] ELSE session

Expired(s) == time >= session[s].expires
Idled(s) == ~Expired(s) /\ time - session[s].seen >= IdleLimit
Fresh(s) == Live(session[s]) /\ ~Expired(s) /\ ~Idled(s)
Foreign(p, s) == req[p].node # session[s].node \/ req[p].login # session[s].user

At(p, pc) == req' = [req EXCEPT ![p].pc = pc]
As(p, pc, u, c) == req' = [req EXCEPT ![p] = [@ EXCEPT !.pc = pc, !.user = u, !.cred = c]]

\* authenticate_session finds the session too old: revoked, and refused.
PresentOld(p, s) ==
  /\ req[p].pc = "quiet"
  /\ Live(session[s])
  /\ \/ Expired(s) /\ session' = Revoked(session, s, "expired")
     \/ Idled(s) /\ session' = Revoked(session, s, "idle")
  /\ UNCHANGED <<time, user, owner, moves, key, req, cli, log, seenAt, exposed>>

\* Mutant: a cookie from another node or user is refused and stays live.
RefuseForeignKept(p, s) == session

RefuseForeign(p, s) ==
  Revoked(session, s, IF req[p].node # session[s].node THEN "wrong_node" ELSE "wrong_user")

\* A cookie presented by another node, or by another user of its node, is
\* taken for stolen and revoked.
PresentForeign(p, s) ==
  /\ req[p].pc = "quiet"
  /\ Fresh(s) /\ Foreign(p, s)
  /\ session' = RefuseForeign(p, s)
  /\ exposed' = exposed \union {s}
  /\ UNCHANGED <<time, user, owner, moves, key, req, cli, log, seenAt>>

\* The session's own node and user, while the user is enabled: admitted.
PresentOwn(p, s) ==
  /\ req[p].pc = "quiet"
  /\ Fresh(s) /\ ~Foreign(p, s)
  /\ user[session[s].user] = "active"
  /\ session' = Touched(s)
  /\ seenAt' = [seenAt EXCEPT ![s] = time]
  /\ As(p, "session", session[s].user, s)
  /\ UNCHANGED <<time, user, owner, moves, key, cli, log, exposed>>

KeyAccepted(p, k) ==
  /\ Live(key[k])
  /\ time < key[k].expires
  /\ key[k].node \in {"any", req[p].node}
  /\ user[key[k].user] = "active"

PresentKey(p, k) ==
  /\ req[p].pc = "quiet"
  /\ KeyAccepted(p, k)
  /\ As(p, "key", key[k].user, k)
  /\ UNCHANGED <<time, user, owner, moves, session, key, cli, log, seenAt, exposed>>

-----------------------------------------------------------------------------
(* Handlers. Each writes its audit record before its change; a record that *)
(* cannot be written refuses the request.                                  *)

RequestEnds(p) == req' = [req EXCEPT ![p] = Peer(@.node, @.login)]

\* The client hung up, or the handler refused, or the record or the change
\* could not be written: nothing further happens on this request.
Abandon(p) ==
  /\ req[p].pc # "quiet"
  /\ RequestEnds(p)
  /\ UNCHANGED <<time, user, owner, moves, session, key, cli, log, seenAt, exposed>>

\* login, up to the check of the user.
LoginCheck(p, old) ==
  /\ req[p].pc = "quiet"
  /\ req[p].login # "tagged" /\ req[p].node # PortalNode
  /\ user[req[p].login] = "active"
  /\ \E s \in Sessions :
       /\ session[s].st = "free" /\ \A q \in Procs : req[q].new # s
       /\ req' = [req EXCEPT ![p] = [@ EXCEPT !.pc = "login", !.user = req[p].login,
                                              !.new = s, !.old = old]]
  /\ UNCHANGED <<time, user, owner, moves, session, key, cli, log, seenAt, exposed>>

Allow(p, event, target, next) ==
  /\ log' = log \union {<<event, target>>}
  /\ At(p, next)
  /\ UNCHANGED <<time, user, owner, moves, session, key, cli, seenAt, exposed>>

LoginRecord(p) == req[p].pc = "login" /\ Allow(p, "login", req[p].new, "insert")

\* Rotation of the presented cookie, when it is the same user's.
Rotated(p) ==
  LET o == req[p].old
  IN  IF o # "none" /\ session[o].st \in {"live", "revoked"} /\ session[o].user = req[p].user
      THEN Revoked(session, o, "rotated") ELSE session

\* The last group of login: rotate, prune, insert; the insert may fail.
LoginInsert(p) ==
  /\ req[p].pc = "insert"
  /\ LET rows == Pruned(Rotated(p), time - Retention)
     IN  \/ session' = [rows EXCEPT ![req[p].new] = NewSession(req[p].user, req[p].node)]
            /\ seenAt' = [seenAt EXCEPT ![req[p].new] = time]
         \/ session' = rows /\ UNCHANGED seenAt
  /\ RequestEnds(p)
  /\ UNCHANGED <<time, user, owner, moves, key, cli, log, exposed>>

LogoutRecord(p) == req[p].pc = "session" /\ Allow(p, "logout", req[p].cred, "logout")

Logout(p) ==
  /\ req[p].pc = "logout"
  /\ session' = Revoked(session, req[p].cred, "logout")
  /\ RequestEnds(p)
  /\ UNCHANGED <<time, user, owner, moves, key, cli, log, seenAt, exposed>>

FreeKey(k) ==
  /\ key[k].st = "free"
  /\ \A q \in Procs : req[q].new # k
  /\ cli.pc = "create" => cli.target # k

\* Mutant: the key is stored before its record is written.
InsertThenRecord(p, k) ==
  /\ key' = [key EXCEPT ![k] = NewKey(req[p].user, "any", TRUE)]
  /\ req' = [req EXCEPT ![p] = [@ EXCEPT !.pc = "create", !.new = k]]
  /\ UNCHANGED <<log, session>>

\* The record of a key names the key that will be inserted.
RecordKey(p, k) ==
  /\ log' = log \union {<<"create", k>>}
  /\ req' = [req EXCEPT ![p] = [@ EXCEPT !.pc = "create", !.new = k]]
  /\ UNCHANGED <<key, session>>

\* create_key: a session only; the request names the node, or any node.
CreateKeyRecord(p, k) ==
  /\ req[p].pc = "session"
  /\ FreeKey(k)
  /\ RecordKey(p, k)
  /\ UNCHANGED <<time, user, owner, moves, cli, seenAt, exposed>>

CreateKey(p) ==
  /\ req[p].pc = "create"
  /\ \E n \in Nodes \union {"any"}, days \in BOOLEAN :
       key' = [key EXCEPT ![req[p].new] = NewKey(req[p].user, n, days)]
  /\ RequestEnds(p)
  /\ UNCHANGED <<time, user, owner, moves, session, cli, log, seenAt, exposed>>

\* revoke_key finds the caller's live key, and records before it revokes.
RevokeKeyCheck(p, k) ==
  /\ req[p].pc = "session"
  /\ Live(key[k]) /\ key[k].user = req[p].user
  /\ req' = [req EXCEPT ![p] = [@ EXCEPT !.pc = "check", !.new = k]]
  /\ UNCHANGED <<time, user, owner, moves, session, key, cli, log, seenAt, exposed>>

RevokeKeyRecord(p) == req[p].pc = "check" /\ Allow(p, "revoke", req[p].new, "revoke")

RevokeKey(p) ==
  /\ req[p].pc = "revoke"
  /\ key' = KeyRevoked(key, req[p].new)
  /\ RequestEnds(p)
  /\ UNCHANGED <<time, user, owner, moves, session, cli, log, seenAt, exposed>>

-----------------------------------------------------------------------------
(* The command line, and the world outside.                                *)

UserAdd(u) ==
  /\ user[u] = "none"
  /\ user' = [user EXCEPT ![u] = "active"]
  /\ UNCHANGED <<time, owner, moves, session, key, req, cli, log, seenAt, exposed>>

\* disable_user: one transaction over the three tables.
UserDisable(u) ==
  /\ "disable" \in Cli
  /\ user[u] = "active"
  /\ user' = [user EXCEPT ![u] = "disabled"]
  /\ session' = [s \in Sessions |->
       IF Live(session[s]) /\ session[s].user = u
       THEN Revoked(session, s, "user_disabled")[s] ELSE session[s]]
  /\ key' = [k \in Keys |->
       IF Live(key[k]) /\ key[k].user = u THEN KeyRevoked(key, k)[k] ELSE key[k]]
  /\ UNCHANGED <<time, owner, moves, req, cli, log, seenAt, exposed>>

\* portal api-key create: checked, recorded, inserted.
CliCreateRecord(u, k) ==
  /\ "create" \in Cli /\ cli.pc = "quiet"
  /\ user[u] = "active"
  /\ FreeKey(k)
  /\ log' = log \union {<<"create", k>>}
  /\ cli' = [pc |-> "create", target |-> k, user |-> u]
  /\ UNCHANGED <<time, user, owner, moves, session, key, req, seenAt, exposed>>

CliCreate ==
  /\ cli.pc = "create"
  /\ \/ \E n \in Nodes \union {"any"}, days \in BOOLEAN :
          key' = [key EXCEPT ![cli.target] = NewKey(cli.user, n, days)]
     \/ UNCHANGED key
  /\ cli' = [pc |-> "quiet"]
  /\ UNCHANGED <<time, user, owner, moves, session, req, log, seenAt, exposed>>

\* portal api-key revoke: revoked, then recorded; the record may be lost.
CliRevoke(k) ==
  /\ "revoke" \in Cli /\ cli.pc = "quiet"
  /\ Live(key[k])
  /\ key' = KeyRevoked(key, k)
  /\ cli' = [pc |-> "revoked", target |-> k]
  /\ UNCHANGED <<time, user, owner, moves, session, req, log, seenAt, exposed>>

CliRevokeRecord ==
  /\ cli.pc = "revoked"
  /\ log' \in {log, log \union {<<"revoke", cli.target>>}}
  /\ cli' = [pc |-> "quiet"]
  /\ UNCHANGED <<time, user, owner, moves, session, key, req, seenAt, exposed>>

\* The connection is closed and another one accepted from node n.
Reconnect(p, n) ==
  /\ req' = [req EXCEPT ![p] = Quiet(n)]
  /\ req' # req
  /\ UNCHANGED <<time, user, owner, moves, session, key, cli, log, seenAt, exposed>>

\* The tailnet gives a node to another user, or tags it.
Reassign(n, who) ==
  /\ moves < MaxMoves /\ owner[n] # who
  /\ owner' = [owner EXCEPT ![n] = who]
  /\ moves' = moves + 1
  /\ UNCHANGED <<time, user, session, key, req, cli, log, seenAt, exposed>>

TimePasses ==
  /\ time < MaxTime
  /\ time' = time + 1
  /\ UNCHANGED <<user, owner, moves, session, key, req, cli, log, seenAt, exposed>>

Request(p) ==
  \/ \E s \in Sessions : PresentOld(p, s) \/ PresentForeign(p, s) \/ PresentOwn(p, s)
  \/ \E k \in Keys : PresentKey(p, k) \/ CreateKeyRecord(p, k) \/ RevokeKeyCheck(p, k)
  \/ \E old \in Sessions \union {"none"} : LoginCheck(p, old)
  \/ LoginRecord(p) \/ LoginInsert(p) \/ LogoutRecord(p) \/ Logout(p)
  \/ CreateKey(p) \/ RevokeKeyRecord(p) \/ RevokeKey(p) \/ Abandon(p)
  \/ \E n \in Nodes : Reconnect(p, n)

Command ==
  \/ \E u \in Users : UserAdd(u) \/ UserDisable(u)
  \/ \E u \in Users, k \in Keys : CliCreateRecord(u, k)
  \/ \E k \in Keys : CliRevoke(k)
  \/ CliCreate \/ CliRevokeRecord

AccessActivity ==
  \/ \E p \in Procs : Request(p)
  \/ Command
  \/ \E n \in Nodes, who \in Logins : Reassign(n, who)
  \/ TimePasses

AccessNext == UNCHANGED realm /\ AccessActivity

AccessSpec == AccessInit /\ [][AccessNext]_accessVars

-----------------------------------------------------------------------------
(* What is checked.                                                        *)

SessionRow ==
  [st : {"live", "revoked"}, user : Users, node : Nodes, seen : Nat, expires : Nat,
   ended : Nat, reason : {"none", "expired", "idle", "wrong_node", "wrong_user",
                          "rotated", "logout", "user_disabled"}]
KeyRow ==
  [st : {"live", "revoked"}, user : Users, node : Nodes \union {"any"}, expires : Nat]

\* The tables and the memory of the handlers keep their types.
AccessTyped ==
  /\ realm \in Realms
  /\ time \in 0..MaxTime /\ moves \in 0..MaxMoves
  /\ user \in [Users -> {"none", "active", "disabled"}]
  /\ owner \in [Nodes -> Logins]
  /\ \A s \in Sessions : session[s] \in SessionRow \union {Unused, [st |-> "pruned"]}
  /\ \A k \in Keys : key[k] \in KeyRow \union {Unused}
  /\ \A p \in Procs : req[p].node \in Nodes /\ req[p].login \in Logins
  /\ log \subseteq ({"login", "logout"} \X Sessions) \union ({"create", "revoke"} \X Keys)
  /\ seenAt \in [Sessions -> 0..MaxTime] /\ exposed \subseteq Sessions

Admitted(p) == req[p].pc = "quiet" /\ req'[p].pc \in {"session", "key"}

\* Once disable_user has committed, no request is authenticated as that
\* user, although a login or a key creation that had checked the user
\* earlier may still insert a live row (authenticate_session and
\* authenticate_api_key look at the user on every request).
DisabledNeverActs ==
  [][\A p \in Procs : Admitted(p) => user[req'[p].user] = "active"]_accessVars

\* A cookie that was once presented from another node, or by another user
\* of its node, is never admitted again, from its own node either
\* (deployment.md: "presented from another node or as another user it is
\* revoked").
ExposedNeverAccepted ==
  [][\A p \in Procs : Admitted(p) /\ req'[p].pc = "session" => req'[p].cred \notin exposed]_accessVars

\* last_seen_at is written at most once per Touch seconds, and still a
\* session is only admitted within IdleLimit seconds of its last use and is
\* only ended as idle when more than IdleLimit - Touch seconds passed.
IdleIsHonest ==
  [][\A s \in Sessions :
       /\ \A p \in Procs :
            Admitted(p) /\ req'[p].pc = "session" /\ req'[p].cred = s => time - seenAt[s] < IdleLimit
       /\ session'[s].st = "revoked" /\ Live(session[s]) /\ session'[s].reason = "idle"
            => time - seenAt[s] > IdleLimit - Touch]_accessVars

\* Sign-ins, sign-outs and key changes are in the audit log before they
\* happen (deployment.md: "A state change is recorded before it runs"), where
\* keys are not revoked from the command line.
AuditedFirst == "revoke" \notin Cli =>
  /\ \A s \in Sessions :
       /\ session[s].st # "free" => <<"login", s>> \in log
       /\ session[s].st = "revoked" /\ session[s].reason = "logout" => <<"logout", s>> \in log
  /\ \A k \in Keys :
       /\ key[k].st # "free" => <<"create", k>> \in log
       /\ key[k].st = "revoked" /\ user[key[k].user] # "disabled" => <<"revoke", k>> \in log

\* Who is admitted: no disabled user, no cookie that was seen elsewhere, no
\* session that was idle too long (authenticate_session, authenticate_api_key).
AccessRefused == DisabledNeverActs /\ ExposedNeverAccepted /\ IdleIsHonest

\* The tables, and the audit log that is ahead of them (login, logout,
\* create_key, revoke_key).
ChangesAudited == AccessTyped /\ AuditedFirst
=============================================================================
