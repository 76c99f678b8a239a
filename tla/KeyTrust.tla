------------------------------ MODULE KeyTrust ------------------------------
(***************************************************************************)
(* The portal's grant-signing keys and one agent's trust in them: joining  *)
(* (trust.rs, agent_client.rs), rotation, retirement and revocation        *)
(* (access.rs, metadata.rs), the push of an outdated key set, and what a   *)
(* crash, a lost answer, a replaced volume or a restored database leave.   *)
(*                                                                         *)
(* Abstractions                                                            *)
(*  - A signature is the name of its key.  A key set is signed by every    *)
(*    key in it.  A grant is its key and its epoch; operation, object and  *)
(*    expiry are checked against the request itself and are left out.      *)
(*  - replace_file_durably and remove_file_durably are one durable step    *)
(*    each.  Join tokens do not expire.                                    *)
(*  - A durable step that fails leaves what a crash before it leaves, and  *)
(*    is not modelled apart from it.                                       *)
(***************************************************************************)
EXTENDS Integers, FiniteSets

CONSTANTS
    Processes,      \* portal processes
    Settings        \* what a deployment may have and meet

ASSUME KeyTrustAssumption ==
    \A x \in Settings :
      /\ x.keys \in Nat \ {0} /\ x.tokens \in Nat \ {0} /\ x.versions \in Nat \ {0}
      /\ x.faults \in Nat /\ x.resets \in Nat /\ x.restores \in Nat
      /\ x.nodes # {} /\ x.procs \subseteq Processes

VARIABLES
    db,         \* the portal's tables: signing keys, grant state, tokens, agent_joins
    disk,       \* the agent's volume: key set, pinned portal node, join token
    mem,        \* the key set and node the agent has loaded
    apc,        \* what the agent is doing
    offer,      \* the join the agent is carrying out
    proc,       \* process -> its grant material and request
    pinner,     \* auxiliary: the node whose join gave the agent its key set
    snapshot,
    made,       \* how many keys and tokens were ever made: they are random, never made twice
    faults, resets, restores,
    setting     \* the one of Settings this deployment has

vars == <<db, disk, mem, apc, offer, proc, pinner, snapshot, made, faults, resets, restores, setting>>

Keys        == 1..setting.keys      \* signing keys, made in this order
Tokens      == 1..setting.tokens    \* join tokens, made in this order
Procs       == setting.procs        \* the processes in use
Nodes       == setting.nodes        \* tailnet nodes the portal may run on
MaxVersion  == setting.versions     \* bounds: key-set versions, crashes and lost
MaxFaults   == setting.faults       \*   answers, trust resets and replaced
MaxResets   == setting.resets       \*   volumes, restores from a database
MaxRestores == setting.restores     \*   snapshot

NoNode == "none"
KeySet(v, e, a, ks) == [ver |-> v, epoch |-> e, act |-> a, keys |-> ks]
NoSet == KeySet(0, 0, 0, {})
KeySets == [ver : 0..MaxVersion, epoch : 0..MaxVersion, act : Keys \cup {0}, keys : SUBSET Keys]

IdleProc == [pc |-> "idle", mat |-> NoSet, tok |-> 0, node |-> NoNode]
NoOffer == [set |-> NoSet, node |-> NoNode]

\* The type invariant: tables, volume and memories.
TypeOK ==
    /\ setting \in Settings
    /\ db \in [key : [Keys -> {"none", "active", "retiring", "revoked"}], epoch : 1..MaxVersion,
               ver : 1..MaxVersion, token : [Tokens -> {"none", "issued", "used"}], joined : BOOLEAN]
    /\ Cardinality({k \in Keys : db.key[k] = "active"}) = 1
    /\ disk \in [set : KeySets, node : Nodes \cup {NoNode}, tok : Tokens \cup {0}]
    /\ mem \in [set : KeySets, node : Nodes \cup {NoNode}]
    /\ apc \in {"down", "reset_set", "reset_node", "up", "pin", "store", "burn"}
    /\ offer \in [set : KeySets, node : Nodes \cup {NoNode}]
    /\ proc \in [Procs -> [pc : {"idle", "loading", "loaded", "joining", "lost", "answered", "ask",
                                 "push", "again"},
                           mat : KeySets, tok : Tokens \cup {0}, node : Nodes \cup {NoNode}]]
    /\ pinner \in Nodes \cup {NoNode}
    /\ made \in [key : Keys, tok : Tokens]
    /\ faults \in 0..MaxFaults /\ resets \in 0..MaxResets /\ restores \in 0..MaxRestores

Init ==
    /\ setting \in Settings
    /\ db = [key |-> [k \in Keys |-> IF k = 1 THEN "active" ELSE "none"], epoch |-> 1, ver |-> 1,
             token |-> [t \in Tokens |-> IF t = 1 THEN "issued" ELSE "none"], joined |-> FALSE]
    /\ disk = [set |-> NoSet, node |-> NoNode, tok |-> 0]
    /\ mem = [set |-> NoSet, node |-> NoNode]
    /\ apc = "down" /\ offer = NoOffer
    /\ proc = [p \in Procs |-> IdleProc]
    /\ pinner = NoNode
    /\ snapshot = db
    /\ made = [key |-> 1, tok |-> 1]
    /\ faults = 0 /\ resets = 0 /\ restores = 0

Fault == faults < MaxFaults /\ faults' = faults + 1
Reset == resets < MaxResets /\ resets' = resets + 1
Set(p, r) == proc' = [proc EXCEPT ![p] = r]
Live(d) == {k \in Keys : d.key[k] \in {"active", "retiring"}}
Active(d) == CHOOSE k \in Keys : d.key[k] = "active"
\* GrantMaterial of one moment.
Current == KeySet(db.ver, db.epoch, Active(db), Live(db))

-----------------------------------------------------------------------------
(* Keys and tokens in the database, one transaction each *)

\* Mutant: the old key leaves the key set at once.
RotatedAlone(key, k) ==
    [j \in Keys |-> IF j = k THEN "active" ELSE IF key[j] = "active" THEN "revoked" ELSE key[j]]
\* rotate_signing_key: the old key goes on vouching as retiring.
Rotated(key, k) ==
    [j \in Keys |-> IF j = k THEN "active" ELSE IF key[j] = "active" THEN "retiring" ELSE key[j]]

Rotate ==
    /\ db.ver < MaxVersion
    /\ \E k \in Keys :
         /\ k = made.key + 1 /\ made' = [made EXCEPT !.key = k]
         /\ db' = [db EXCEPT !.key = Rotated(@, k), !.ver = @ + 1]
    /\ UNCHANGED <<disk, mem, apc, offer, proc, pinner, snapshot, faults, resets, restores>>

\* The operator waits until the agent, if it has joined or is joining, and every
\* command that runs know the active key ("once agents use the active key").
AgentMoved ==
    /\ \A m \in {disk.set, offer.set} : m # NoSet => Active(db) \in m.keys
    /\ \A p \in Procs : proc[p].mat.keys # {} => Active(db) \in proc[p].mat.keys

\* end_signing_key: only a retiring key ends; --revoke also raises the epoch.
EndKey(k, revoke) ==
    /\ db.key[k] = "retiring" /\ db.ver < MaxVersion /\ AgentMoved
    /\ db' = [db EXCEPT !.key[k] = "revoked", !.ver = @ + 1,
                        !.epoch = IF revoke THEN @ + 1 ELSE @]
    /\ UNCHANGED <<disk, mem, apc, offer, proc, pinner, snapshot, made, faults, resets, restores>>

\* create_join_token
CreateToken(t) ==
    /\ t = made.tok + 1 /\ made' = [made EXCEPT !.tok = t]
    /\ db' = [db EXCEPT !.token[t] = "issued"]
    /\ UNCHANGED <<disk, mem, apc, offer, proc, pinner, snapshot, faults, resets, restores>>

-----------------------------------------------------------------------------
(* A portal process.  load_or_create reads the grant state and then the keys. *)

LoadState(p) ==
    /\ proc[p].pc = "idle"
    /\ \E n \in Nodes :
         Set(p, [pc |-> "loading", mat |-> KeySet(db.ver, db.epoch, 0, {}), tok |-> 0, node |-> n])
    /\ UNCHANGED <<db, disk, mem, apc, offer, pinner, snapshot, made, faults, resets, restores>>

LoadKeys(p) ==
    /\ proc[p].pc = "loading"
    /\ Set(p, [proc[p] EXCEPT !.pc = "loaded", !.mat = KeySet(@.ver, @.epoch, Active(db), Live(db))])
    /\ UNCHANGED <<db, disk, mem, apc, offer, pinner, snapshot, made, faults, resets, restores>>

\* join_agent sends the key set with an unused token.
SendJoin(p) ==
    /\ proc[p].pc = "loaded"
    /\ \E t \in Tokens :
         /\ db.token[t] = "issued"
         /\ Set(p, [proc[p] EXCEPT !.pc = "joining", !.tok = t])
    /\ UNCHANGED <<db, disk, mem, apc, offer, pinner, snapshot, made, faults, resets, restores>>

\* Any other command: requests under the loaded material.
Ask(p) ==
    /\ proc[p].pc = "loaded" /\ db.joined
    /\ Set(p, [proc[p] EXCEPT !.pc = "ask"])
    /\ UNCHANGED <<db, disk, mem, apc, offer, pinner, snapshot, made, faults, resets, restores>>

\* KeySet::verify
Verdict(m) ==
    IF mem.set = NoSet THEN "not_joined"
    ELSE IF m.act \notin mem.set.keys THEN "outdated"
    ELSE IF m.epoch < mem.set.epoch THEN "stale"
    ELSE IF m.epoch > mem.set.epoch THEN "outdated"
    ELSE "ok"

\* check_peer: a joined agent answers the pinned node only.
PeerRefused(p) == mem.set # NoSet /\ proc[p].node # mem.node

\* send: an outdated answer is followed by one push and one more attempt.  A
\* join whose agent had joined already is recorded if the agent accepts a grant.
Answer(p) ==
    /\ proc[p].pc \in {"ask", "again"} /\ apc = "up"
    /\ LET v == IF PeerRefused(p) THEN "peer" ELSE Verdict(proc[p].mat) IN
       Set(p, IF v = "outdated" /\ proc[p].pc = "ask" THEN [proc[p] EXCEPT !.pc = "push"]
              ELSE IF v = "ok" /\ proc[p].tok # 0 THEN [proc[p] EXCEPT !.pc = "answered"]
              ELSE IdleProc)
    /\ UNCHANGED <<db, disk, mem, apc, offer, pinner, snapshot, made, faults, resets, restores>>

\* TrustStore::update
Acceptable(m, s) ==
    /\ m.keys \cap s.keys # {}
    /\ m.ver > s.ver /\ m.epoch >= s.epoch

PushKeySet(p) ==
    LET m == proc[p].mat IN
    /\ proc[p].pc = "push" /\ apc = "up"
    /\ IF mem.set # NoSet /\ ~PeerRefused(p) /\ Acceptable(m, mem.set)
       THEN disk' = [disk EXCEPT !.set = m] /\ mem' = [mem EXCEPT !.set = m]
       ELSE UNCHANGED <<disk, mem>>
    /\ Set(p, IF mem.set # NoSet /\ ~PeerRefused(p) /\ m.keys \cap mem.set.keys # {} THEN [proc[p] EXCEPT !.pc = "again"]
              ELSE IdleProc)
    /\ UNCHANGED <<db, apc, offer, pinner, snapshot, made, faults, resets, restores>>

\* record_agent_join: the token is burned; a known agent id raises the epoch.
RecordJoin(p) ==
    /\ proc[p].pc = "answered"
    /\ db.joined => db.ver < MaxVersion
    /\ db' = IF db.token[proc[p].tok] # "issued" THEN db
             ELSE [db EXCEPT !.token[proc[p].tok] = "used", !.joined = TRUE,
                             !.epoch = IF db.joined THEN @ + 1 ELSE @,
                             !.ver = IF db.joined THEN @ + 1 ELSE @]
    /\ Set(p, IdleProc)
    /\ UNCHANGED <<disk, mem, apc, offer, pinner, snapshot, made, faults, resets, restores>>

\* The request or its answer is lost, or the process stops.
GiveUp(p) ==
    /\ proc[p].pc # "idle"
    /\ Fault
    /\ Set(p, IdleProc)
    /\ UNCHANGED <<db, disk, mem, apc, offer, pinner, snapshot, made, resets, restores>>

-----------------------------------------------------------------------------
(* The agent *)

\* TrustStore::open: a joined volume drops a token that is left over; otherwise
\* the token the operator gives is armed, and without one the agent exits.
StartAgent(t) ==
    /\ apc = "down" /\ db.token[t] = "issued"
    /\ apc' = "up" /\ mem' = [set |-> disk.set, node |-> disk.node]
    /\ disk' = [disk EXCEPT !.tok = IF disk.set # NoSet THEN 0 ELSE t]
    /\ UNCHANGED <<db, offer, proc, pinner, snapshot, made, faults, resets, restores>>

RestartAgent ==
    /\ apc = "down" /\ disk.set # NoSet
    /\ apc' = "up" /\ mem' = [set |-> disk.set, node |-> disk.node]
    /\ disk' = [disk EXCEPT !.tok = 0]
    /\ UNCHANGED <<db, offer, proc, pinner, snapshot, made, faults, resets, restores>>

\* reset_and_arm, at the start of an agent with --reset-trust.
ResetTrust(t) ==
    /\ apc = "down" /\ db.token[t] = "issued"
    /\ Reset
    /\ disk' = [disk EXCEPT !.tok = t]
    /\ apc' = "reset_set"
    /\ UNCHANGED <<db, mem, offer, proc, pinner, snapshot, made, faults, restores>>

ResetSet ==
    /\ apc = "reset_set"
    /\ disk' = [disk EXCEPT !.set = NoSet] /\ pinner' = NoNode
    /\ apc' = "reset_node"
    /\ UNCHANGED <<db, mem, offer, proc, snapshot, made, faults, resets, restores>>

ResetNode ==
    /\ apc = "reset_node"
    /\ disk' = [disk EXCEPT !.node = NoNode]
    /\ mem' = [set |-> NoSet, node |-> NoNode]
    /\ apc' = "up"
    /\ UNCHANGED <<db, offer, proc, pinner, snapshot, made, faults, resets, restores>>

\* The order of a join's writes: node, key set, token.
NextStep(step) ==
    CASE step = "up" -> "pin" [] step = "pin" -> "store" [] step = "store" -> "burn" [] step = "burn" -> "up"

\* Mutant: a join answered with already_joined fails.
GiveUpJoin(p) == IdleProc
\* join_agent after a refusal: an agent that has joined is asked for its health.
AfterRefusal(p) == IF mem.set # NoSet THEN [proc[p] EXCEPT !.pc = "ask"] ELSE IdleProc

\* TrustStore::join under the write lock: an agent that has joined refuses, and
\* so does one whose token is another.
ReceiveJoin(p) ==
    /\ proc[p].pc = "joining" /\ apc = "up"
    /\ IF mem.set = NoSet /\ disk.tok = proc[p].tok
       THEN /\ offer' = [set |-> proc[p].mat, node |-> proc[p].node]
            /\ apc' = NextStep("up")
            /\ Set(p, [proc[p] EXCEPT !.pc = "lost"])
       ELSE UNCHANGED <<offer, apc>> /\ Set(p, AfterRefusal(p))
    /\ UNCHANGED <<db, disk, mem, pinner, snapshot, made, faults, resets, restores>>

JoinStep ==
    /\ apc \in {"pin", "store", "burn"}
    /\ disk' = CASE apc = "pin"   -> [disk EXCEPT !.node = offer.node]
                 [] apc = "store" -> [disk EXCEPT !.set = offer.set]
                 [] apc = "burn"  -> [disk EXCEPT !.tok = 0]
    /\ pinner' = IF apc = "store" THEN offer.node ELSE pinner
    /\ apc' = NextStep(apc)
    /\ IF apc' = "up"
       THEN /\ mem' = [set |-> offer.set, node |-> offer.node]
            /\ offer' = NoOffer
            /\ proc' = [p \in Procs |-> IF proc[p].pc = "lost" THEN [proc[p] EXCEPT !.pc = "answered"]
                                        ELSE proc[p]]
       ELSE UNCHANGED <<mem, offer, proc>>
    /\ UNCHANGED <<db, snapshot, made, faults, resets, restores>>

\* A process that waits for an answer gives up when the agent stops.
CrashAgent ==
    /\ apc # "down"
    /\ Fault
    /\ apc' = "down" /\ mem' = [set |-> NoSet, node |-> NoNode] /\ offer' = NoOffer
    /\ proc' = [p \in Procs |-> IF proc[p].pc = "lost" THEN IdleProc ELSE proc[p]]
    /\ UNCHANGED <<db, disk, pinner, snapshot, made, resets, restores>>

\* The agent's volume is replaced by a blank one.
ReplaceVolume ==
    /\ apc = "down"
    /\ Reset
    /\ disk' = [set |-> NoSet, node |-> NoNode, tok |-> 0] /\ pinner' = NoNode
    /\ UNCHANGED <<db, mem, apc, offer, proc, snapshot, made, faults, restores>>

-----------------------------------------------------------------------------
(* Backup of the database *)

TakeSnapshot ==
    /\ restores < MaxRestores /\ snapshot # db
    /\ snapshot' = db
    /\ UNCHANGED <<made, db, disk, mem, apc, offer, proc, pinner, faults, resets, restores>>

Restore ==
    /\ restores < MaxRestores
    /\ restores' = restores + 1
    /\ db' = snapshot
    /\ proc' = [p \in Procs |-> IdleProc]
    /\ UNCHANGED <<disk, mem, apc, offer, pinner, snapshot, made, faults, resets>>

Join(p) ==
    \/ LoadState(p) \/ LoadKeys(p) \/ SendJoin(p) \/ ReceiveJoin(p) \/ RecordJoin(p)
    \/ Answer(p) \/ PushKeySet(p)

Activity ==
    \/ Rotate \/ \E k \in Keys, r \in BOOLEAN : EndKey(k, r)
    \/ \E t \in Tokens : CreateToken(t) \/ StartAgent(t) \/ ResetTrust(t)
    \/ \E p \in Procs : Join(p) \/ Ask(p) \/ GiveUp(p)
    \/ RestartAgent \/ ResetSet \/ ResetNode \/ JoinStep \/ CrashAgent \/ ReplaceVolume
    \/ TakeSnapshot \/ Restore

Next == UNCHANGED setting /\ Activity

Spec == Init /\ [][Next]_vars

\* The operator starts the agent and repeats the join until it is recorded.
FairSpec ==
    /\ Spec
    /\ WF_vars(UNCHANGED setting /\ (RestartAgent \/ \E t \in Tokens : StartAgent(t)))
    /\ WF_vars(UNCHANGED setting /\ (ResetSet \/ ResetNode \/ JoinStep))
    /\ \A p \in Processes : WF_vars(p \in Procs /\ UNCHANGED setting /\ Join(p))

-----------------------------------------------------------------------------
(* Properties *)

Accepted(m) == Verdict(m) = "ok" \/ (Verdict(m) = "outdated" /\ Acceptable(m, mem.set))

\* The material in the database is accepted by a joined agent, or its push is:
\* no rotation, retirement or revocation that waits for the agent, no key set
\* put together from two reads, no crash and no repeated join locks the portal
\* out, as long as the database was not restored (rotate_signing_key,
\* end_signing_key, load, update).
KeysVouched == (restores = 0 /\ mem.set # NoSet /\ db.joined) => Accepted(Current)

\* A joined agent's pinned portal node is the one whose join gave it the key
\* set, whatever joins and resets were cut short (join, reset_and_arm, open).
PinMatches ==
    disk.set # NoSet => disk.node = pinner

\* A stored key set is only ever followed by one of the same or a later epoch,
\* until the volume is reset: no delayed push, restored portal or restart takes
\* an agent back (update).
EpochForward ==
    [][disk'.set = NoSet \/ disk'.set.epoch >= disk.set.epoch]_vars

\* Joining ends: repeated with the same token after crashes and lost answers,
\* it leaves the agent joined, the join recorded and the token burned, where
\* the keys change at most once and nobody resets the agent or restores the
\* database.
JoinConverges ==
    (MaxVersion <= 2 /\ MaxResets = 0 /\ MaxRestores = 0) => <>(db.joined /\ disk.set # NoSet /\ disk.tok = 0)

\* The agent trusts the keys and the node it was given, and no older ones
\* (rotate_signing_key, end_signing_key, join, update).
TrustSound == [](TypeOK /\ KeysVouched /\ PinMatches) /\ EpochForward
=============================================================================
