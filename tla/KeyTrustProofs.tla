--------------------------- MODULE KeyTrustProofs ---------------------------
(***************************************************************************)
(* Proofs about KeyTrust, for any number of keys, tokens, processes, nodes *)
(* and faults.                                                             *)
(*                                                                         *)
(* What an agent holds came from the portal's tables, possibly in two      *)
(* reads and through a join or a push that waited: Vouched says how it may *)
(* lag behind them without being cut off.  AgentOK says what is on the     *)
(* volume at each of the writes of a join and of a reset.                  *)
(***************************************************************************)
EXTENDS KeyTrust, FiniteSetTheorems, TLAPS

Statuses == {"none", "active", "retiring", "revoked"}
Tables == [key : [Keys -> Statuses], epoch : 1..MaxVersion, ver : 1..MaxVersion,
           token : [Tokens -> {"none", "issued", "used"}], joined : BOOLEAN]

\* Tables with exactly one active key.
DbOK(d) ==
    /\ d \in Tables /\ d.epoch <= d.ver
    /\ \E k \in Keys : \A j \in Keys : d.key[j] = "active" <=> j = k

ProcStates == {"idle", "loading", "loaded", "joining", "lost", "answered", "ask", "push", "again"}

Typed ==
    /\ setting \in Settings
    /\ DbOK(db) /\ DbOK(snapshot)
    /\ disk \in [set : KeySets, node : Nodes \cup {NoNode}, tok : Tokens \cup {0}]
    /\ mem \in [set : KeySets, node : Nodes \cup {NoNode}]
    /\ apc \in {"down", "reset_set", "reset_node", "up", "pin", "store", "burn"}
    /\ offer \in [set : KeySets, node : Nodes \cup {NoNode}]
    /\ proc \in [Procs -> [pc : ProcStates, mat : KeySets, tok : Tokens \cup {0}, node : Nodes \cup {NoNode}]]
    /\ pinner \in Nodes \cup {NoNode}
    /\ made \in [key : Keys, tok : Tokens]
    /\ faults \in 0..MaxFaults /\ resets \in 0..MaxResets /\ restores \in 0..MaxRestores

\* The volume and the memory of the agent, at every write of a join or a reset.
AgentOK ==
    /\ mem.set = IF apc = "up" THEN disk.set ELSE NoSet
    /\ apc \in {"pin", "store", "reset_node"} => disk.set = NoSet
    /\ apc \in {"store", "burn"} => disk.node = offer.node
    /\ apc = "burn" => disk.set = offer.set
    /\ apc \in {"pin", "store", "burn"} => offer.set.keys # {}
    /\ apc \notin {"pin", "store", "burn"} => offer = NoOffer
    /\ disk.set # NoSet => disk.set.keys # {} /\ disk.node = pinner

\* A process beyond its two reads has keys.
ProcOK == \A p \in Procs : proc[p].pc \notin {"idle", "loading"} => proc[p].mat.keys # {}

\* Material m is what the tables d once said, perhaps read in two parts: where
\* it lags, its version does too, and it shares a key with them.
Vouched(m, d) ==
    /\ m.ver <= d.ver /\ m.epoch <= d.epoch
    /\ m.epoch < d.epoch => m.ver < d.ver
    /\ m.keys # {} => /\ m.keys \cap Live(d) # {}
                      /\ Active(d) \notin m.keys => m.ver < d.ver

KeysOK ==
    restores = 0 =>
      /\ Vouched(disk.set, db) /\ Vouched(offer.set, db)
      /\ \A p \in Procs : Vouched(proc[p].mat, db)

\* The inductive invariant.
TrustInv == Typed /\ AgentOK /\ ProcOK /\ KeysOK

-----------------------------------------------------------------------------
(* The tables.                                                             *)

LEMMA BoundFacts ==
  ASSUME setting \in Settings
  PROVE  /\ setting.keys \in Nat \ {0} /\ setting.tokens \in Nat \ {0} /\ MaxVersion \in Nat \ {0}
         /\ MaxFaults \in Nat /\ MaxResets \in Nat /\ MaxRestores \in Nat
         /\ 1 \in Keys /\ 1 \in Tokens /\ NoSet \in KeySets
  <1>1. /\ setting.keys \in Nat \ {0} /\ setting.tokens \in Nat \ {0} /\ MaxVersion \in Nat \ {0}
        /\ MaxFaults \in Nat /\ MaxResets \in Nat /\ MaxRestores \in Nat
    BY KeyTrustAssumption DEF MaxVersion, MaxFaults, MaxResets, MaxRestores
  <1>2. 1 \in Keys /\ 1 \in Tokens
    BY <1>1 DEF Keys, Tokens
  <1>3. NoSet \in KeySets
    BY <1>1 DEF NoSet, KeySet, KeySets
  <1>4. QED
    BY <1>1, <1>2, <1>3

LEMMA ActiveOne ==
  ASSUME NEW d, DbOK(d)
  PROVE  /\ Active(d) \in Keys /\ d.key[Active(d)] = "active" /\ Active(d) \in Live(d)
         /\ \A j \in Keys : d.key[j] = "active" => j = Active(d)
         /\ Cardinality({k \in Keys : d.key[k] = "active"}) = 1
  <1>1. PICK k \in Keys : \A j \in Keys : d.key[j] = "active" <=> j = k
    BY DEF DbOK
  <1>2. Active(d) = k
    BY <1>1 DEF Active
  <1>3. {j \in Keys : d.key[j] = "active"} = {k}
    BY <1>1
  <1>4. QED
    BY <1>1, <1>2, <1>3, FS_Singleton DEF Live

\* Nothing that changes the tables cuts off material they vouched for: versions
\* and epochs go forward, and the active key is kept alive.
LEMMA VouchedOn ==
  ASSUME NEW d, NEW e, DbOK(d), DbOK(e), MaxVersion \in Nat, NEW m \in KeySets, Vouched(m, d),
         e.ver >= d.ver, e.epoch >= d.epoch, e.epoch > d.epoch => e.ver > d.ver,
         \/ Live(d) \subseteq Live(e) /\ (Active(e) = Active(d) \/ e.ver > d.ver)
         \/ Active(e) = Active(d) /\ (m.keys # {} => Active(d) \in m.keys)
  PROVE  Vouched(m, e)
  <1>1. /\ m.ver \in Nat /\ m.epoch \in Nat /\ d.ver \in Nat /\ d.epoch \in Nat /\ e.ver \in Nat /\ e.epoch \in Nat
    BY DEF DbOK, Tables, KeySets
  <1>2. m.ver <= d.ver /\ m.epoch <= d.epoch /\ (m.epoch < d.epoch => m.ver < d.ver)
    BY DEF Vouched
  <1>3. m.ver <= e.ver /\ m.epoch <= e.epoch /\ (m.epoch < e.epoch => m.ver < e.ver)
    BY <1>1, <1>2
  <1>4. ASSUME m.keys # {}
        PROVE  m.keys \cap Live(e) # {} /\ (Active(e) \notin m.keys => m.ver < e.ver)
    <2>1. m.keys \cap Live(d) # {} /\ (Active(d) \notin m.keys => m.ver < d.ver)
      BY <1>4 DEF Vouched
    <2>2. CASE Live(d) \subseteq Live(e) /\ (Active(e) = Active(d) \/ e.ver > d.ver)
      BY <1>1, <1>2, <2>1, <2>2
    <2>3. CASE Active(e) = Active(d) /\ Active(d) \in m.keys
      BY <2>3, ActiveOne
    <2>4. QED
      BY <1>4, <2>2, <2>3
  <1>5. QED
    BY <1>3, <1>4 DEF Vouched

LEMMA NoSetVouched ==
  ASSUME NEW d, DbOK(d), MaxVersion \in Nat
  PROVE  Vouched(NoSet, d)
  BY DEF Vouched, NoSet, KeySet, DbOK, Tables

-----------------------------------------------------------------------------
(* Steps.                                                                  *)

LEMMA SameBounds ==
  ASSUME UNCHANGED setting
  PROVE  /\ Keys' = Keys /\ Tokens' = Tokens /\ Procs' = Procs /\ Nodes' = Nodes /\ KeySets' = KeySets
         /\ MaxVersion' = MaxVersion /\ MaxFaults' = MaxFaults /\ MaxResets' = MaxResets
         /\ MaxRestores' = MaxRestores /\ Tables' = Tables
         /\ \A d : Live(d)' = Live(d) /\ Active(d)' = Active(d) /\ DbOK(d)' = DbOK(d)
         /\ \A m, d : Vouched(m, d)' = Vouched(m, d)
  <1>1. /\ Keys' = Keys /\ Tokens' = Tokens /\ Procs' = Procs /\ Nodes' = Nodes
        /\ MaxVersion' = MaxVersion /\ MaxFaults' = MaxFaults /\ MaxResets' = MaxResets
        /\ MaxRestores' = MaxRestores
    BY DEF Keys, Tokens, Procs, Nodes, MaxVersion, MaxFaults, MaxResets, MaxRestores
  <1>2. KeySets' = KeySets /\ Tables' = Tables
    BY <1>1 DEF KeySets, Tables
  <1>3. \A d : Live(d)' = Live(d) /\ Active(d)' = Active(d)
    BY <1>1 DEF Live, Active
  <1>4. \A d : DbOK(d)' = DbOK(d)
    BY <1>1, <1>2 DEF DbOK
  <1>5. \A m, d : Vouched(m, d)' = Vouched(m, d)
    BY <1>3 DEF Vouched
  <1>6. QED
    BY <1>1, <1>2, <1>3, <1>4, <1>5

\* A step of the tables alone.
TablesMove(e) ==
    /\ db' = e /\ DbOK(e)
    /\ UNCHANGED <<setting, disk, mem, apc, offer, proc, pinner, snapshot, faults, resets, restores>>
    /\ made' \in [key : Keys, tok : Tokens]

LEMMA TablesKeep ==
  ASSUME TrustInv, NEW e, TablesMove(e),
         \A m \in KeySets : restores = 0 /\ Vouched(m, db)
           /\ m \in {disk.set, offer.set} \cup {proc[p].mat : p \in Procs} => Vouched(m, e)
  PROVE  TrustInv'
  <1>1. Typed /\ AgentOK /\ ProcOK /\ KeysOK
    BY DEF TrustInv
  <1>2. Typed'
    BY <1>1, SameBounds DEF Typed, TablesMove
  <1>3. AgentOK' /\ ProcOK'
    BY <1>1, SameBounds DEF AgentOK, ProcOK, TablesMove
  <1>4. KeysOK'
    <2>1. /\ disk.set \in KeySets /\ offer.set \in KeySets
          /\ \A p \in Procs : proc[p].mat \in KeySets
      BY <1>1 DEF Typed
    <2>2. restores = 0 => Vouched(disk.set, e) /\ Vouched(offer.set, e) /\ \A p \in Procs : Vouched(proc[p].mat, e)
      BY <1>1, <2>1 DEF KeysOK
    <2>3. QED
      BY <2>2 DEF KeysOK, TablesMove, Vouched, Live, Active, Keys, Procs
  <1>5. QED
    BY <1>2, <1>3, <1>4 DEF TrustInv

\* Tables with other keys, version and epoch.
LEMMA TableMoved ==
  ASSUME NEW d \in Tables, NEW key \in [Keys -> Statuses], NEW v \in 1..MaxVersion, NEW e \in 1..MaxVersion
  PROVE  /\ [d EXCEPT !.key = key, !.ver = v, !.epoch = e] \in Tables
         /\ [d EXCEPT !.key = key, !.ver = v] \in Tables
  BY DEF Tables

LEMMA RotateKeeps == ASSUME TrustInv, UNCHANGED setting, Rotate PROVE TrustInv'
  <1>1. PICK k \in Keys : made' = [made EXCEPT !.key = k] /\ db' = [db EXCEPT !.key = Rotated(@, k), !.ver = @ + 1]
    BY DEF Rotate
  <1>2. DbOK(db) /\ MaxVersion \in Nat /\ db.ver < MaxVersion /\ made \in [key : Keys, tok : Tokens]
    BY BoundFacts DEF TrustInv, Typed, Rotate
  <1>3. db \in Tables /\ db.epoch <= db.ver /\ db.ver \in 1..MaxVersion /\ db.epoch \in 1..MaxVersion
    BY <1>2 DEF DbOK, Tables
  <1>4. /\ db'.key = Rotated(db.key, k) /\ db'.ver = db.ver + 1 /\ db'.epoch = db.epoch
        /\ db'.token = db.token /\ db'.joined = db.joined
    BY <1>1, <1>3 DEF Tables
  <1>5. /\ Rotated(db.key, k) \in [Keys -> Statuses]
        /\ \A j \in Keys : Rotated(db.key, k)[j] = "active" <=> j = k
        /\ \A j \in Keys : db.key[j] \in {"active", "retiring"} => Rotated(db.key, k)[j] \in {"active", "retiring"}
    BY <1>3 DEF Rotated, Statuses, Tables
  <1>6. DbOK(db')
    <2>0. db.ver + 1 \in 1..MaxVersion /\ db.epoch \in 1..MaxVersion
      BY <1>2, <1>3
    <2>1. db' \in Tables
      BY <1>1, <1>3, <1>5, <2>0, TableMoved
    <2>2. QED
      BY <1>2, <1>3, <1>4, <1>5, <2>1 DEF DbOK
  <1>7. Live(db) \subseteq Live(db')
    BY <1>4, <1>5 DEF Live
  <1>8. TablesMove(db')
    BY <1>1, <1>2, <1>6 DEF TablesMove, Rotate
  <1>9. \A m \in KeySets : Vouched(m, db) => Vouched(m, db')
    <2>1. db'.ver >= db.ver /\ db'.epoch >= db.epoch /\ db'.ver > db.ver
      BY <1>3, <1>4
    <2>2. QED
      BY <1>2, <1>6, <1>7, <2>1, VouchedOn
  <1>10. QED
    BY <1>8, <1>9, TablesKeep

LEMMA EndKeyKeeps ==
  ASSUME TrustInv, UNCHANGED setting, NEW k \in Keys, NEW revoke \in BOOLEAN, EndKey(k, revoke)
  PROVE  TrustInv'
  <1>1. db' = [db EXCEPT !.key[k] = "revoked", !.ver = @ + 1, !.epoch = IF revoke THEN @ + 1 ELSE @]
    BY DEF EndKey
  <1>2. /\ DbOK(db) /\ MaxVersion \in Nat /\ db.ver < MaxVersion /\ db.key[k] = "retiring" /\ AgentMoved
        /\ made \in [key : Keys, tok : Tokens]
    BY BoundFacts DEF TrustInv, Typed, EndKey
  <1>3. db \in Tables /\ db.epoch <= db.ver /\ db.ver \in 1..MaxVersion /\ db.epoch \in 1..MaxVersion
    BY <1>2 DEF DbOK, Tables
  <1>4. /\ db'.key = [db.key EXCEPT ![k] = "revoked"] /\ db'.ver = db.ver + 1
        /\ db'.epoch \in {db.epoch, db.epoch + 1}
        /\ db'.token = db.token /\ db'.joined = db.joined
    BY <1>1, <1>3 DEF Tables
  <1>5. PICK a \in Keys : \A j \in Keys : db.key[j] = "active" <=> j = a
    BY <1>2 DEF DbOK
  <1>6. /\ db'.key \in [Keys -> Statuses]
        /\ \A j \in Keys : db'.key[j] = "active" <=> j = a
    BY <1>2, <1>3, <1>4, <1>5 DEF Statuses, Tables
  <1>7. DbOK(db')
    <2>1. db' \in Tables
      <3>1. db.ver + 1 \in 1..MaxVersion /\ (IF revoke THEN db.epoch + 1 ELSE db.epoch) \in 1..MaxVersion
        BY <1>2, <1>3
      <3>2. db' = [db EXCEPT !.key = [db.key EXCEPT ![k] = "revoked"], !.ver = db.ver + 1,
                             !.epoch = IF revoke THEN db.epoch + 1 ELSE db.epoch]
        BY <1>1, <1>3 DEF Tables
      <3>3. [db.key EXCEPT ![k] = "revoked"] \in [Keys -> Statuses]
        BY <1>4, <1>6
      <3>4. QED
        BY <1>3, <3>1, <3>2, <3>3, TableMoved
    <2>2. db'.epoch <= db'.ver
      BY <1>3, <1>4
    <2>3. QED
      BY <1>6, <2>1, <2>2 DEF DbOK
  <1>8. Active(db') = a /\ Active(db) = a
    BY <1>2, <1>5, <1>6, <1>7, ActiveOne
  <1>9. TablesMove(db')
    BY <1>2, <1>7 DEF TablesMove, EndKey
  <1>10. ASSUME NEW m \in KeySets, Vouched(m, db), m \in {disk.set, offer.set} \cup {proc[p].mat : p \in Procs}
         PROVE  Vouched(m, db')
    <2>1. m.keys # {} => Active(db) \in m.keys
      BY <1>2, <1>10 DEF AgentMoved, NoSet, KeySet
    <2>2. db'.ver >= db.ver /\ db'.epoch >= db.epoch /\ db'.ver > db.ver
      BY <1>3, <1>4
    <2>3. QED
      BY <1>2, <1>7, <1>8, <1>10, <2>1, <2>2, VouchedOn
  <1>11. QED
    BY <1>9, <1>10, TablesKeep

\* Tables whose keys are the same and whose epoch moves with its version.
LEMMA SameKeys ==
  ASSUME NEW d, NEW e, DbOK(d), DbOK(e), MaxVersion \in Nat, e.key = d.key,
         (e.ver = d.ver /\ e.epoch = d.epoch) \/ (e.ver = d.ver + 1 /\ e.epoch = d.epoch + 1),
         NEW m \in KeySets, Vouched(m, d)
  PROVE  Vouched(m, e)
  <1>1. Live(e) = Live(d) /\ Active(e) = Active(d)
    BY DEF Live, Active
  <1>2. d.ver \in Nat /\ d.epoch \in Nat
    BY DEF DbOK, Tables
  <1>3. e.ver >= d.ver /\ e.epoch >= d.epoch /\ (e.epoch > d.epoch => e.ver > d.ver)
    BY <1>2
  <1>4. QED
    BY <1>1, <1>3, VouchedOn

LEMMA CreateTokenKeeps ==
  ASSUME TrustInv, UNCHANGED setting, NEW t \in Tokens, CreateToken(t)
  PROVE  TrustInv'
  <1>1. db' = [db EXCEPT !.token[t] = "issued"] /\ made' = [made EXCEPT !.tok = t]
    BY DEF CreateToken
  <1>2. DbOK(db) /\ MaxVersion \in Nat /\ made \in [key : Keys, tok : Tokens] /\ db \in Tables
    BY BoundFacts DEF TrustInv, Typed, DbOK
  <1>3. db'.key = db.key /\ db'.ver = db.ver /\ db'.epoch = db.epoch /\ db' \in Tables
    BY <1>1, <1>2 DEF Tables
  <1>4. DbOK(db')
    BY <1>2, <1>3 DEF DbOK
  <1>5. TablesMove(db')
    BY <1>1, <1>2, <1>4 DEF TablesMove, CreateToken
  <1>6. \A m \in KeySets : Vouched(m, db) => Vouched(m, db')
    BY <1>2, <1>3, <1>4, SameKeys
  <1>7. QED
    BY <1>5, <1>6, TablesKeep

-----------------------------------------------------------------------------
(* Processes.                                                              *)

\* A process moves, and nothing else.
ProcMove(p, r) ==
    /\ proc' = [proc EXCEPT ![p] = r]
    /\ UNCHANGED <<setting, db, disk, mem, apc, offer, pinner, snapshot, made, resets, restores>>
    /\ faults' \in 0..MaxFaults

Row == [pc : ProcStates, mat : KeySets, tok : Tokens \cup {0}, node : Nodes \cup {NoNode}]

LEMMA ProcKeeps ==
  ASSUME TrustInv, NEW p \in Procs, NEW r \in Row, ProcMove(p, r),
         r.pc \notin {"idle", "loading"} => r.mat.keys # {},
         restores = 0 => Vouched(r.mat, db)
  PROVE  TrustInv'
  <1>1. Typed /\ AgentOK /\ ProcOK /\ KeysOK
    BY DEF TrustInv
  <1>2. proc' \in [Procs -> Row] /\ proc'[p] = r /\ \A q \in Procs \ {p} : proc'[q] = proc[q]
    BY <1>1 DEF Typed, ProcMove, Row
  <1>3. Typed'
    BY <1>1, <1>2, SameBounds DEF Typed, ProcMove, Row, DbOK
  <1>4. AgentOK'
    BY <1>1 DEF AgentOK, ProcMove
  <1>5. ProcOK'
    BY <1>1, <1>2, SameBounds DEF ProcOK, ProcMove
  <1>6. KeysOK'
    <2>1. \A q \in Procs : restores = 0 => Vouched(proc'[q].mat, db)
      BY <1>1, <1>2 DEF KeysOK
    <2>2. QED
      BY <1>1, <2>1 DEF KeysOK, ProcMove, Vouched, Live, Active, Keys, Procs
  <1>7. QED
    BY <1>3, <1>4, <1>5, <1>6 DEF TrustInv

LEMMA RowHere ==
  ASSUME TrustInv, NEW p \in Procs
  PROVE  /\ proc[p] \in Row /\ proc[p].pc \in ProcStates /\ proc[p].mat \in KeySets
         /\ proc[p].pc \notin {"idle", "loading"} => proc[p].mat.keys # {}
         /\ restores = 0 => Vouched(proc[p].mat, db)
         /\ DbOK(db) /\ MaxVersion \in Nat \ {0} /\ faults \in 0..MaxFaults /\ MaxFaults \in Nat
  <1>1. proc[p] \in Row
    BY DEF TrustInv, Typed, Row
  <1>2. MaxVersion \in Nat \ {0} /\ MaxFaults \in Nat
    BY BoundFacts DEF TrustInv, Typed
  <1>3. QED
    BY <1>1, <1>2 DEF TrustInv, Typed, ProcOK, KeysOK, Row

\* The same material at another point of the program.
LEMMA StepKeeps ==
  ASSUME TrustInv, NEW p \in Procs, NEW r, ProcMove(p, r),
         \/ r = IdleProc
         \/ /\ proc[p].pc \notin {"idle", "loading"}
            /\ \/ \E c \in ProcStates : r = [proc[p] EXCEPT !.pc = c]
               \/ \E c \in ProcStates, t \in Tokens : r = [proc[p] EXCEPT !.pc = c, !.tok = t]
  PROVE  TrustInv'
  <1>1. /\ proc[p] \in Row /\ (restores = 0 => Vouched(proc[p].mat, db)) /\ DbOK(db) /\ MaxVersion \in Nat
        /\ proc[p].pc \notin {"idle", "loading"} => proc[p].mat.keys # {}
    BY RowHere
  <1>2. CASE r = IdleProc
    <2>1. IdleProc \in Row /\ IdleProc.pc = "idle" /\ IdleProc.mat = NoSet
      BY BoundFacts DEF TrustInv, Typed, Row, IdleProc, ProcStates
    <2>2. QED
      BY <1>1, <1>2, <2>1, NoSetVouched, ProcKeeps
  <1>3. CASE /\ proc[p].pc \notin {"idle", "loading"}
             /\ \/ \E c \in ProcStates : r = [proc[p] EXCEPT !.pc = c]
                \/ \E c \in ProcStates, t \in Tokens : r = [proc[p] EXCEPT !.pc = c, !.tok = t]
    <2>1. r \in Row /\ r.mat = proc[p].mat
      BY <1>1, <1>3 DEF Row
    <2>2. QED
      BY <1>1, <1>3, <2>1, ProcKeeps
  <1>4. QED
    BY <1>2, <1>3

LEMMA LoadStateKeeps == ASSUME TrustInv, UNCHANGED setting, NEW p \in Procs, LoadState(p) PROVE TrustInv'
  <1> DEFINE m == KeySet(db.ver, db.epoch, 0, {})
  <1>1. PICK n \in Nodes : proc' = [proc EXCEPT ![p] = [pc |-> "loading", mat |-> m, tok |-> 0, node |-> n]]
    BY DEF LoadState, Set
  <1> DEFINE r == [pc |-> "loading", mat |-> m, tok |-> 0, node |-> n]
  <1>2. DbOK(db) /\ MaxVersion \in Nat \ {0} /\ db.ver \in 1..MaxVersion /\ db.epoch \in 1..MaxVersion
    BY RowHere DEF DbOK, Tables
  <1>3. m.ver = db.ver /\ m.epoch = db.epoch /\ m.keys = {} /\ m \in KeySets
    BY <1>2 DEF KeySet, KeySets
  <1> HIDE DEF m
  <1>4. r \in Row /\ r.pc = "loading" /\ r.mat = m
    BY <1>3 DEF Row, ProcStates
  <1>5. Vouched(m, db)
    BY <1>2, <1>3 DEF Vouched
  <1>6. ProcMove(p, r)
    BY <1>1, RowHere DEF ProcMove, LoadState
  <1> HIDE DEF r
  <1>7. QED
    BY <1>4, <1>5, <1>6, ProcKeeps

LEMMA LoadKeysKeeps == ASSUME TrustInv, UNCHANGED setting, NEW p \in Procs, LoadKeys(p) PROVE TrustInv'
  <1> DEFINE m == KeySet(proc[p].mat.ver, proc[p].mat.epoch, Active(db), Live(db))
             r == [proc[p] EXCEPT !.pc = "loaded", !.mat = m]
  <1>1. /\ proc[p] \in Row /\ (restores = 0 => Vouched(proc[p].mat, db)) /\ DbOK(db)
        /\ proc[p].mat \in KeySets
    BY RowHere
  <1>2. Active(db) \in Keys /\ Active(db) \in Live(db) /\ Live(db) \subseteq Keys
    BY <1>1, ActiveOne DEF Live
  <1>3. m \in KeySets /\ m.ver = proc[p].mat.ver /\ m.epoch = proc[p].mat.epoch /\ m.keys = Live(db)
    BY <1>1, <1>2 DEF KeySets, KeySet
  <1>4. ProcMove(p, r)
    BY <1>1, RowHere DEF ProcMove, LoadKeys, Set, Row
  <1> HIDE DEF m
  <1>5. r \in Row /\ r.pc = "loaded" /\ r.mat = m
    BY <1>1, <1>3 DEF Row, ProcStates
  <1>6. restores = 0 => Vouched(m, db)
    BY <1>1, <1>2, <1>3 DEF Vouched
  <1> HIDE DEF r
  <1>7. QED
    BY <1>2, <1>3, <1>4, <1>5, <1>6, ProcKeeps

LEMMA ProcStepsKeep ==
  ASSUME TrustInv, UNCHANGED setting, NEW p \in Procs, SendJoin(p) \/ Ask(p) \/ Answer(p) \/ GiveUp(p)
  PROVE  TrustInv'
  <1>1. faults \in 0..MaxFaults /\ MaxFaults \in Nat
    BY RowHere
  <1>2. CASE SendJoin(p)
    <2>1. PICK t \in Tokens : ProcMove(p, [proc[p] EXCEPT !.pc = "joining", !.tok = t])
      BY <1>1, <1>2 DEF SendJoin, Set, ProcMove
    <2>2. proc[p].pc = "loaded" /\ "joining" \in ProcStates
      BY <1>2 DEF SendJoin, ProcStates
    <2>3. QED
      BY <2>1, <2>2, StepKeeps
  <1>3. CASE Ask(p)
    <2>1. ProcMove(p, [proc[p] EXCEPT !.pc = "ask"]) /\ proc[p].pc = "loaded" /\ "ask" \in ProcStates
      BY <1>1, <1>3 DEF Ask, Set, ProcMove, ProcStates
    <2>2. QED
      BY <2>1, StepKeeps
  <1>4. CASE Answer(p)
    <2>1. PICK r \in {[proc[p] EXCEPT !.pc = "push"], [proc[p] EXCEPT !.pc = "answered"], IdleProc} : ProcMove(p, r)
      BY <1>1, <1>4 DEF Answer, Set, ProcMove
    <2>2. proc[p].pc \in {"ask", "again"} /\ "push" \in ProcStates /\ "answered" \in ProcStates
      BY <1>4 DEF Answer, ProcStates
    <2>3. QED
      BY <2>1, <2>2, StepKeeps
  <1>5. CASE GiveUp(p)
    <2>1. ProcMove(p, IdleProc)
      BY <1>1, <1>5 DEF GiveUp, Fault, Set, ProcMove
    <2>2. QED
      BY <2>1, StepKeeps
  <1>6. QED
    BY <1>2, <1>3, <1>4, <1>5

LEMMA RecordJoinKeeps == ASSUME TrustInv, UNCHANGED setting, NEW p \in Procs, RecordJoin(p) PROVE TrustInv'
  <1> DEFINE t == proc[p].tok
  <1>1. Typed /\ AgentOK /\ ProcOK /\ KeysOK
    BY DEF TrustInv
  <1>2. DbOK(db) /\ MaxVersion \in Nat /\ db \in Tables /\ db.ver \in 1..MaxVersion /\ db.epoch \in 1..MaxVersion
    BY BoundFacts, <1>1 DEF Typed, DbOK, Tables
  <1>3. /\ DbOK(db') /\ db'.key = db.key
        /\ (db'.ver = db.ver /\ db'.epoch = db.epoch) \/ (db'.ver = db.ver + 1 /\ db'.epoch = db.epoch + 1)
    <2>1. CASE db' = db
      BY <1>2, <2>1
    <2>2. CASE db' # db
      <3>1. PICK token, joined, e, v :
              /\ db' = [key |-> db.key, epoch |-> e, ver |-> v, token |-> token, joined |-> joined]
              /\ token \in [Tokens -> {"none", "issued", "used"}] /\ joined \in BOOLEAN
              /\ (v = db.ver /\ e = db.epoch) \/ (v = db.ver + 1 /\ e = db.epoch + 1 /\ db.ver < MaxVersion)
        <4>1. /\ db' = [db EXCEPT !.token[t] = "used", !.joined = TRUE,
                                  !.epoch = IF db.joined THEN @ + 1 ELSE @, !.ver = IF db.joined THEN @ + 1 ELSE @]
              /\ db.joined => db.ver < MaxVersion
          BY <2>2 DEF RecordJoin
        <4>2. db' = [key |-> db.key, epoch |-> IF db.joined THEN db.epoch + 1 ELSE db.epoch,
                     ver |-> IF db.joined THEN db.ver + 1 ELSE db.ver,
                     token |-> [db.token EXCEPT ![t] = "used"], joined |-> TRUE]
          BY <1>2, <4>1 DEF Tables
        <4>3. [db.token EXCEPT ![t] = "used"] \in [Tokens -> {"none", "issued", "used"}]
          BY <1>2 DEF Tables
        <4>4. QED
          BY <4>1, <4>2, <4>3
      <3>2. e \in 1..MaxVersion /\ v \in 1..MaxVersion /\ e <= v
        BY <1>2, <3>1 DEF DbOK
      <3>3. db' \in Tables /\ db'.key = db.key /\ db'.ver = v /\ db'.epoch = e
        BY <1>2, <3>1, <3>2 DEF Tables
      <3>4. DbOK(db')
        BY <1>2, <3>2, <3>3 DEF DbOK
      <3>5. QED
        BY <3>1, <3>3, <3>4
    <2>3. QED
      BY <2>1, <2>2
  <1>4. /\ proc' = [proc EXCEPT ![p] = IdleProc]
        /\ UNCHANGED <<disk, mem, apc, offer, pinner, snapshot, made, faults, resets, restores>>
    BY DEF RecordJoin, Set
  <1>5. IdleProc \in Row /\ IdleProc.pc = "idle" /\ IdleProc.mat = NoSet
    BY <1>1, BoundFacts DEF Typed, Row, IdleProc, ProcStates
  <1>6. proc' \in [Procs -> Row] /\ \A q \in Procs : proc'[q] \in {proc[q], IdleProc}
    BY <1>1, <1>4, <1>5 DEF Typed, Row
  <1>7. Typed'
    BY <1>1, <1>3, <1>4, <1>6, SameBounds DEF Typed, Row
  <1>8. AgentOK'
    BY <1>1, <1>4 DEF AgentOK
  <1>9. ProcOK'
    BY <1>1, <1>5, <1>6, SameBounds DEF ProcOK
  <1>10. KeysOK'
    <2>1. \A m \in KeySets : Vouched(m, db) => Vouched(m, db')
      BY <1>2, <1>3, SameKeys
    <2>2. /\ disk.set \in KeySets /\ offer.set \in KeySets /\ NoSet \in KeySets
          /\ \A q \in Procs : proc[q].mat \in KeySets
      BY <1>1, BoundFacts DEF Typed
    <2>3. Vouched(NoSet, db')
      BY <1>2, <1>3, NoSetVouched
    <2>4. restores = 0 => /\ Vouched(disk.set, db') /\ Vouched(offer.set, db')
                          /\ \A q \in Procs : Vouched(proc'[q].mat, db')
      BY <1>1, <1>5, <1>6, <2>1, <2>2, <2>3 DEF KeysOK
    <2>5. QED
      BY <1>4, <2>4 DEF KeysOK, Vouched, Live, Active, Keys, Procs
  <1>11. QED
    BY <1>7, <1>8, <1>9, <1>10 DEF TrustInv

-----------------------------------------------------------------------------
(* The agent.                                                              *)

\* What a step of the agent may bring: nothing the portal did not vouch for.
Offers == {NoSet, disk.set, offer.set} \cup {proc[p].mat : p \in Procs}

AgentMove ==
    /\ UNCHANGED <<setting, db, snapshot, made, restores>>
    /\ disk' \in [set : KeySets, node : Nodes \cup {NoNode}, tok : Tokens \cup {0}]
    /\ mem' \in [set : KeySets, node : Nodes \cup {NoNode}]
    /\ apc' \in {"down", "reset_set", "reset_node", "up", "pin", "store", "burn"}
    /\ offer' \in [set : KeySets, node : Nodes \cup {NoNode}]
    /\ pinner' \in Nodes \cup {NoNode}
    /\ faults' \in 0..MaxFaults /\ resets' \in 0..MaxResets
    /\ disk'.set \in Offers /\ offer'.set \in Offers

ProcsMove ==
    /\ proc' \in [Procs -> Row]
    /\ \A p \in Procs : \/ proc'[p] = IdleProc
                        \/ proc'[p].mat = proc[p].mat
                           /\ (proc'[p].pc = proc[p].pc \/ proc[p].pc \notin {"idle", "loading"})

LEMMA AgentKeeps ==
  ASSUME TrustInv, AgentMove, ProcsMove, AgentOK'
  PROVE  TrustInv'
  <1>1. Typed /\ AgentOK /\ ProcOK /\ KeysOK
    BY DEF TrustInv
  <1>2. Typed'
    BY <1>1, SameBounds DEF Typed, AgentMove, ProcsMove, Row, DbOK
  <1>3. IdleProc.pc = "idle" /\ IdleProc.mat = NoSet
    BY DEF IdleProc
  <1>4. ProcOK'
    BY <1>1, <1>3, SameBounds DEF ProcOK, ProcsMove, AgentMove
  <1>5. KeysOK'
    <2>1. Vouched(NoSet, db)
      BY <1>1, BoundFacts, NoSetVouched DEF Typed
    <2>2. restores = 0 => \A m \in Offers : Vouched(m, db)
      BY <1>1, <2>1 DEF KeysOK, Offers
    <2>3. restores = 0 => /\ Vouched(disk'.set, db) /\ Vouched(offer'.set, db)
                          /\ \A p \in Procs : Vouched(proc'[p].mat, db)
      BY <1>1, <1>3, <2>1, <2>2 DEF AgentMove, ProcsMove, KeysOK
    <2>4. QED
      BY <2>3 DEF KeysOK, AgentMove, Vouched, Live, Active, Keys, Procs
  <1>6. QED
    BY <1>2, <1>4, <1>5 DEF TrustInv

LEMMA AgentTypes ==
  ASSUME TrustInv
  PROVE  /\ setting \in Settings /\ NoSet \in KeySets /\ NoSet.keys = {} /\ NoOffer.set = NoSet
         /\ NoOffer \in [set : KeySets, node : Nodes \cup {NoNode}]
         /\ disk \in [set : KeySets, node : Nodes \cup {NoNode}, tok : Tokens \cup {0}]
         /\ mem \in [set : KeySets, node : Nodes \cup {NoNode}]
         /\ apc \in {"down", "reset_set", "reset_node", "up", "pin", "store", "burn"}
         /\ offer \in [set : KeySets, node : Nodes \cup {NoNode}]
         /\ proc \in [Procs -> Row] /\ pinner \in Nodes \cup {NoNode} /\ IdleProc \in Row
         /\ faults \in 0..MaxFaults /\ resets \in 0..MaxResets /\ MaxFaults \in Nat /\ MaxResets \in Nat
         /\ AgentOK
  <1>1. Typed /\ AgentOK
    BY DEF TrustInv
  <1>2. NoSet \in KeySets /\ MaxFaults \in Nat /\ MaxResets \in Nat
    BY <1>1, BoundFacts DEF Typed
  <1>3. NoOffer \in [set : KeySets, node : Nodes \cup {NoNode}] /\ NoOffer.set = NoSet /\ NoSet.keys = {}
    BY <1>2 DEF NoOffer, NoSet, KeySet
  <1>4. IdleProc \in Row
    BY <1>2 DEF IdleProc, Row, ProcStates
  <1>5. QED
    BY <1>1, <1>2, <1>3, <1>4 DEF Typed, Row

LEMMA StartsKeep ==
  ASSUME TrustInv, UNCHANGED setting, RestartAgent \/ \E t \in Tokens : StartAgent(t)
  PROVE  TrustInv'
  <1>1. PICK t \in Tokens \cup {0} :
          /\ apc = "down" /\ apc' = "up" /\ mem' = [set |-> disk.set, node |-> disk.node]
          /\ disk' = [disk EXCEPT !.tok = t]
          /\ UNCHANGED <<db, offer, proc, pinner, snapshot, made, faults, resets, restores>>
    BY DEF RestartAgent, StartAgent
  <1>2. disk'.set = disk.set /\ disk'.node = disk.node
    BY <1>1, AgentTypes
  <1>3. AgentMove
    BY <1>1, <1>2, AgentTypes DEF AgentMove, Offers
  <1>4. ProcsMove
    BY <1>1, AgentTypes DEF ProcsMove
  <1>5. AgentOK'
    BY <1>1, <1>2, AgentTypes DEF AgentOK
  <1>6. QED
    BY <1>3, <1>4, <1>5, AgentKeeps

LEMMA ResetsKeep ==
  ASSUME TrustInv, UNCHANGED setting, ResetSet \/ ResetNode \/ ReplaceVolume \/ \E t \in Tokens : ResetTrust(t)
  PROVE  TrustInv'
  <1>1. CASE \E t \in Tokens : ResetTrust(t)
    <2>1. PICK t \in Tokens : ResetTrust(t)
      BY <1>1
    <2>2. disk' = [disk EXCEPT !.tok = t] /\ apc = "down" /\ apc' = "reset_set" /\ resets' \in 0..MaxResets
      BY <2>1, AgentTypes DEF ResetTrust, Reset
    <2>3. disk'.set = disk.set /\ disk'.node = disk.node
      BY <2>2, AgentTypes
    <2>4. AgentMove
      BY <2>1, <2>2, <2>3, AgentTypes DEF AgentMove, Offers, ResetTrust
    <2>5. ProcsMove
      BY <2>1, AgentTypes DEF ProcsMove, ResetTrust
    <2>6. AgentOK'
      BY <2>1, <2>2, <2>3, AgentTypes DEF AgentOK, ResetTrust
    <2>7. QED
      BY <2>4, <2>5, <2>6, AgentKeeps
  <1>2. CASE ResetSet
    <2>1. disk'.set = NoSet /\ disk'.node = disk.node /\ apc = "reset_set" /\ apc' = "reset_node"
      BY <1>2, AgentTypes DEF ResetSet
    <2>2. AgentMove
      BY <1>2, <2>1, AgentTypes DEF AgentMove, Offers, ResetSet
    <2>3. ProcsMove
      BY <1>2, AgentTypes DEF ProcsMove, ResetSet
    <2>4. AgentOK'
      BY <1>2, <2>1, AgentTypes DEF AgentOK, ResetSet
    <2>5. QED
      BY <2>2, <2>3, <2>4, AgentKeeps
  <1>3. CASE ResetNode
    <2>1. disk'.set = disk.set /\ apc = "reset_node" /\ apc' = "up" /\ disk.set = NoSet
      BY <1>3, AgentTypes DEF ResetNode, AgentOK
    <2>2. AgentMove
      BY <1>3, <2>1, AgentTypes DEF AgentMove, Offers, ResetNode
    <2>3. ProcsMove
      BY <1>3, AgentTypes DEF ProcsMove, ResetNode
    <2>4. AgentOK'
      BY <1>3, <2>1, AgentTypes DEF AgentOK, ResetNode
    <2>5. QED
      BY <2>2, <2>3, <2>4, AgentKeeps
  <1>4. CASE ReplaceVolume
    <2>1. disk'.set = NoSet /\ apc = "down" /\ apc' = "down" /\ resets' \in 0..MaxResets
      BY <1>4, AgentTypes DEF ReplaceVolume, Reset
    <2>2. AgentMove
      BY <1>4, <2>1, AgentTypes DEF AgentMove, Offers, ReplaceVolume
    <2>3. ProcsMove
      BY <1>4, AgentTypes DEF ProcsMove, ReplaceVolume
    <2>4. AgentOK'
      BY <1>4, <2>1, AgentTypes DEF AgentOK, ReplaceVolume
    <2>5. QED
      BY <2>2, <2>3, <2>4, AgentKeeps
  <1>5. QED
    BY <1>1, <1>2, <1>3, <1>4

LEMMA CrashAgentKeeps == ASSUME TrustInv, UNCHANGED setting, CrashAgent PROVE TrustInv'
  <1>1. /\ apc' = "down" /\ mem' = [set |-> NoSet, node |-> NoNode] /\ offer' = NoOffer /\ faults' \in 0..MaxFaults
        /\ UNCHANGED <<db, disk, pinner, snapshot, made, resets, restores>>
    BY AgentTypes DEF CrashAgent, Fault
  <1>2. AgentMove
    BY <1>1, AgentTypes DEF AgentMove, Offers
  <1>3. ProcsMove
    BY AgentTypes DEF ProcsMove, CrashAgent
  <1>4. AgentOK'
    BY <1>1, AgentTypes DEF AgentOK
  <1>5. QED
    BY <1>2, <1>3, <1>4, AgentKeeps

LEMMA PushKeySetKeeps == ASSUME TrustInv, UNCHANGED setting, NEW p \in Procs, PushKeySet(p) PROVE TrustInv'
  <1> DEFINE m == proc[p].mat
  <1>1. /\ proc[p] \in Row /\ m \in KeySets /\ m.keys # {} /\ proc[p].pc = "push" /\ apc = "up"
    BY RowHere DEF PushKeySet
  <1>2. UNCHANGED <<db, apc, offer, pinner, snapshot, made, faults, resets, restores>>
    BY DEF PushKeySet
  <1>3. ProcsMove
    <2>1. PICK r \in {[proc[p] EXCEPT !.pc = "again"], IdleProc} : proc' = [proc EXCEPT ![p] = r]
      BY DEF PushKeySet, Set
    <2>2. r \in Row /\ (r = IdleProc \/ r.mat = m)
      BY <1>1, <2>1, AgentTypes DEF Row, ProcStates
    <2>3. QED
      BY <1>1, <2>1, <2>2, AgentTypes DEF ProcsMove
  <1>4. CASE UNCHANGED <<disk, mem>>
    <2>1. AgentMove
      BY <1>2, <1>4, AgentTypes DEF AgentMove, Offers
    <2>2. AgentOK'
      BY <1>2, <1>4, AgentTypes DEF AgentOK
    <2>3. QED
      BY <1>3, <2>1, <2>2, AgentKeeps
  <1>5. CASE mem.set # NoSet /\ disk' = [disk EXCEPT !.set = m] /\ mem' = [mem EXCEPT !.set = m]
    <2>1. disk'.set = m /\ disk'.node = disk.node /\ mem'.set = m /\ disk.set # NoSet
      BY <1>1, <1>5, AgentTypes DEF AgentOK
    <2>2. AgentMove
      BY <1>1, <1>2, <1>5, <2>1, AgentTypes DEF AgentMove, Offers
    <2>3. AgentOK'
      BY <1>1, <1>2, <2>1, AgentTypes DEF AgentOK
    <2>4. QED
      BY <1>3, <2>2, <2>3, AgentKeeps
  <1>6. QED
    BY <1>4, <1>5 DEF PushKeySet

LEMMA ReceiveJoinKeeps == ASSUME TrustInv, UNCHANGED setting, NEW p \in Procs, ReceiveJoin(p) PROVE TrustInv'
  <1>1. /\ proc[p] \in Row /\ proc[p].mat \in KeySets /\ proc[p].mat.keys # {} /\ proc[p].pc = "joining" /\ apc = "up"
    BY RowHere DEF ReceiveJoin
  <1>2. UNCHANGED <<db, disk, mem, pinner, snapshot, made, faults, resets, restores>>
    BY DEF ReceiveJoin
  <1>3. ProcsMove
    <2>1. PICK r \in {[proc[p] EXCEPT !.pc = "lost"], [proc[p] EXCEPT !.pc = "ask"], IdleProc} :
            proc' = [proc EXCEPT ![p] = r]
      BY DEF ReceiveJoin, Set, AfterRefusal
    <2>2. r \in Row /\ (r = IdleProc \/ r.mat = proc[p].mat)
      BY <1>1, <2>1, AgentTypes DEF Row, ProcStates
    <2>3. QED
      BY <1>1, <2>1, <2>2, AgentTypes DEF ProcsMove
  <1>4. CASE UNCHANGED <<offer, apc>>
    <2>1. AgentMove
      BY <1>2, <1>4, AgentTypes DEF AgentMove, Offers
    <2>2. AgentOK'
      BY <1>2, <1>4, AgentTypes DEF AgentOK
    <2>3. QED
      BY <1>3, <2>1, <2>2, AgentKeeps
  <1>5. CASE mem.set = NoSet /\ offer' = [set |-> proc[p].mat, node |-> proc[p].node] /\ apc' = NextStep("up")
    <2>1. apc' = "pin" /\ disk.set = NoSet /\ offer'.set = proc[p].mat
      BY <1>1, <1>5, AgentTypes DEF NextStep, AgentOK
    <2>2. AgentMove
      BY <1>1, <1>2, <1>5, <2>1, AgentTypes DEF AgentMove, Offers, Row
    <2>3. AgentOK'
      BY <1>1, <1>2, <1>5, <2>1, AgentTypes DEF AgentOK
    <2>4. QED
      BY <1>3, <2>2, <2>3, AgentKeeps
  <1>6. QED
    BY <1>4, <1>5 DEF ReceiveJoin

LEMMA JoinStepKeeps == ASSUME TrustInv, UNCHANGED setting, JoinStep PROVE TrustInv'
  <1>1. UNCHANGED <<db, snapshot, made, faults, resets, restores>>
    BY DEF JoinStep
  <1>2. CASE apc = "pin"
    <2>1. /\ apc' = "store" /\ disk' = [disk EXCEPT !.node = offer.node] /\ pinner' = pinner
          /\ UNCHANGED <<mem, offer, proc>>
      BY <1>2 DEF JoinStep, NextStep
    <2>2. disk'.set = disk.set /\ disk'.node = offer.node
      BY <2>1, AgentTypes
    <2>3. AgentMove
      BY <1>1, <2>1, <2>2, AgentTypes DEF AgentMove, Offers
    <2>4. ProcsMove
      BY <2>1, AgentTypes DEF ProcsMove
    <2>5. AgentOK'
      BY <1>2, <2>1, <2>2, AgentTypes DEF AgentOK
    <2>6. QED
      BY <2>3, <2>4, <2>5, AgentKeeps
  <1>3. CASE apc = "store"
    <2>1. /\ apc' = "burn" /\ disk' = [disk EXCEPT !.set = offer.set] /\ pinner' = offer.node
          /\ UNCHANGED <<mem, offer, proc>>
      BY <1>3 DEF JoinStep, NextStep
    <2>2. disk'.set = offer.set /\ disk'.node = disk.node
      BY <2>1, AgentTypes
    <2>3. AgentMove
      BY <1>1, <2>1, <2>2, AgentTypes DEF AgentMove, Offers
    <2>4. ProcsMove
      BY <2>1, AgentTypes DEF ProcsMove
    <2>5. AgentOK'
      BY <1>3, <2>1, <2>2, AgentTypes DEF AgentOK
    <2>6. QED
      BY <2>3, <2>4, <2>5, AgentKeeps
  <1>4. CASE apc = "burn"
    <2>1. /\ apc' = "up" /\ disk' = [disk EXCEPT !.tok = 0] /\ pinner' = pinner
          /\ mem' = [set |-> offer.set, node |-> offer.node] /\ offer' = NoOffer
          /\ proc' = [p \in Procs |-> IF proc[p].pc = "lost" THEN [proc[p] EXCEPT !.pc = "answered"] ELSE proc[p]]
      BY <1>4 DEF JoinStep, NextStep
    <2>2. disk'.set = disk.set /\ disk'.node = disk.node
      BY <2>1, AgentTypes
    <2>3. AgentMove
      BY <1>1, <2>1, <2>2, AgentTypes DEF AgentMove, Offers
    <2>4. ProcsMove
      BY <2>1, AgentTypes DEF ProcsMove, Row, ProcStates
    <2>5. AgentOK'
      BY <1>4, <2>1, <2>2, AgentTypes DEF AgentOK
    <2>6. QED
      BY <2>3, <2>4, <2>5, AgentKeeps
  <1>5. QED
    BY <1>2, <1>3, <1>4 DEF JoinStep

-----------------------------------------------------------------------------
(* Snapshots, and the theorem.                                             *)

LEMMA TakeSnapshotKeeps == ASSUME TrustInv, UNCHANGED setting, TakeSnapshot PROVE TrustInv'
  <1>1. snapshot' = db /\ UNCHANGED <<made, db, disk, mem, apc, offer, proc, pinner, faults, resets, restores>>
    BY DEF TakeSnapshot
  <1>2. Typed'
    BY <1>1, SameBounds DEF TrustInv, Typed, DbOK
  <1>3. AgentOK' /\ ProcOK'
    BY <1>1, SameBounds DEF TrustInv, AgentOK, ProcOK
  <1>4. KeysOK'
    BY <1>1 DEF TrustInv, KeysOK, Vouched, Live, Active, Keys, Procs
  <1>5. QED
    BY <1>2, <1>3, <1>4 DEF TrustInv

LEMMA RestoreKeeps == ASSUME TrustInv, UNCHANGED setting, Restore PROVE TrustInv'
  <1>1. /\ db' = snapshot /\ restores' = restores + 1 /\ restores < MaxRestores /\ proc' = [p \in Procs |-> IdleProc]
        /\ UNCHANGED <<disk, mem, apc, offer, pinner, snapshot, made, faults, resets>>
    BY DEF Restore
  <1>2. restores \in 0..MaxRestores /\ MaxRestores \in Nat
    BY BoundFacts DEF TrustInv, Typed
  <1>3. Typed'
    BY <1>1, <1>2, SameBounds, AgentTypes DEF TrustInv, Typed, DbOK, Row
  <1>4. AgentOK'
    BY <1>1 DEF TrustInv, AgentOK
  <1>5. ProcOK'
    BY <1>1, SameBounds DEF ProcOK, IdleProc
  <1>6. KeysOK'
    BY <1>1, <1>2 DEF KeysOK
  <1>7. QED
    BY <1>3, <1>4, <1>5, <1>6 DEF TrustInv

LEMMA TrustFirst == Init => TrustInv
  <1> SUFFICES ASSUME Init PROVE TrustInv
    OBVIOUS
  <1>1. /\ setting \in Settings /\ NoSet \in KeySets /\ 1 \in Keys /\ 1 \in Tokens /\ MaxVersion \in Nat \ {0}
        /\ MaxFaults \in Nat /\ MaxResets \in Nat /\ MaxRestores \in Nat
    BY BoundFacts DEF Init
  <1>2. DbOK(db) /\ snapshot = db
    <2>1. db \in Tables
      BY <1>1 DEF Init, Tables, Statuses
    <2>2. \A j \in Keys : db.key[j] = "active" <=> j = 1
      BY DEF Init
    <2>3. QED
      BY <1>1, <2>1, <2>2 DEF Init, DbOK
  <1>3. Typed
    BY <1>1, <1>2 DEF Init, Typed, NoOffer, IdleProc, ProcStates
  <1>4. AgentOK
    BY DEF Init, AgentOK
  <1>5. ProcOK
    BY DEF Init, ProcOK, IdleProc
  <1>6. KeysOK
    BY <1>1, <1>2, NoSetVouched DEF Init, KeysOK, NoOffer, IdleProc
  <1>7. QED
    BY <1>3, <1>4, <1>5, <1>6 DEF TrustInv

LEMMA TrustStep == TrustInv /\ [Next]_vars => TrustInv'
  <1> SUFFICES ASSUME TrustInv, [Next]_vars PROVE TrustInv'
    OBVIOUS
  <1>1. CASE UNCHANGED vars
    <2>1. Typed'
      BY <1>1, SameBounds DEF vars, TrustInv, Typed, DbOK
    <2>2. AgentOK' /\ ProcOK'
      BY <1>1, SameBounds DEF vars, TrustInv, AgentOK, ProcOK
    <2>3. KeysOK'
      BY <1>1 DEF vars, TrustInv, KeysOK, Vouched, Live, Active, Keys, Procs
    <2>4. QED
      BY <2>1, <2>2, <2>3 DEF TrustInv
  <1>2. CASE Next
    <2>1. UNCHANGED setting /\ Activity
      BY <1>2 DEF Next
    <2>2. ASSUME NEW p \in Procs, Join(p) \/ Ask(p) \/ GiveUp(p) PROVE TrustInv'
      BY <2>1, <2>2, LoadStateKeeps, LoadKeysKeeps, ProcStepsKeep, ReceiveJoinKeeps, RecordJoinKeeps, PushKeySetKeeps
         DEF Join
    <2>3. CASE Rotate \/ \E k \in Keys, r \in BOOLEAN : EndKey(k, r)
      BY <2>1, <2>3, RotateKeeps, EndKeyKeeps
    <2>4. ASSUME NEW t \in Tokens, CreateToken(t) \/ StartAgent(t) \/ ResetTrust(t) PROVE TrustInv'
      BY <2>1, <2>4, CreateTokenKeeps, StartsKeep, ResetsKeep
    <2>5. CASE RestartAgent \/ ResetSet \/ ResetNode \/ JoinStep \/ CrashAgent \/ ReplaceVolume
      BY <2>1, <2>5, StartsKeep, ResetsKeep, JoinStepKeeps, CrashAgentKeeps
    <2>6. CASE TakeSnapshot \/ Restore
      BY <2>1, <2>6, TakeSnapshotKeeps, RestoreKeeps
    <2>7. QED
      BY <2>1, <2>2, <2>3, <2>4, <2>5, <2>6 DEF Activity
  <1>3. QED
    BY <1>1, <1>2

-----------------------------------------------------------------------------
(* What the invariant says.                                                *)

LEMMA TrustTyped == TrustInv => TypeOK
  <1> SUFFICES ASSUME TrustInv PROVE TypeOK
    OBVIOUS
  <1>1. Typed /\ DbOK(db)
    BY DEF TrustInv, Typed
  <1>2. Cardinality({k \in Keys : db.key[k] = "active"}) = 1
    BY <1>1, ActiveOne
  <1>3. QED
    BY <1>1, <1>2 DEF Typed, TypeOK, DbOK, Tables, Statuses, ProcStates

LEMMA TrustVouches == TrustInv => KeysVouched
  <1> SUFFICES ASSUME TrustInv, restores = 0, mem.set # NoSet PROVE Accepted(Current)
    BY DEF KeysVouched
  <1> DEFINE s == mem.set
  <1>1. DbOK(db) /\ s \in KeySets /\ MaxVersion \in Nat
    BY BoundFacts DEF TrustInv, Typed
  <1>2. s = disk.set /\ s.keys # {}
    BY DEF TrustInv, AgentOK
  <1>3. Vouched(s, db)
    BY <1>2 DEF TrustInv, KeysOK
  <1>4. /\ Current.ver = db.ver /\ Current.epoch = db.epoch
        /\ Current.act = Active(db) /\ Current.keys = Live(db)
    BY DEF Current, KeySet
  <1>5. s.ver \in Nat /\ s.epoch \in Nat /\ db.ver \in Nat /\ db.epoch \in Nat
    BY <1>1 DEF DbOK, Tables, KeySets
  <1>6. /\ s.epoch <= db.epoch /\ (s.epoch < db.epoch => s.ver < db.ver)
        /\ s.keys \cap Live(db) # {} /\ (Active(db) \notin s.keys => s.ver < db.ver)
    BY <1>2, <1>3 DEF Vouched
  <1>7. ASSUME s.ver < db.ver PROVE Acceptable(Current, s)
    BY <1>4, <1>5, <1>6, <1>7 DEF Acceptable
  <1>8. CASE Active(db) \notin s.keys
    <2>1. Verdict(Current) = "outdated"
      BY <1>4, <1>8 DEF Verdict
    <2>2. QED
      BY <1>6, <1>7, <1>8, <2>1 DEF Accepted
  <1>9. CASE Active(db) \in s.keys /\ s.epoch < db.epoch
    <2>1. Verdict(Current) = "outdated"
      BY <1>4, <1>5, <1>9 DEF Verdict
    <2>2. QED
      BY <1>6, <1>7, <1>9, <2>1 DEF Accepted
  <1>10. CASE Active(db) \in s.keys /\ ~(s.epoch < db.epoch)
    <2>1. ~(db.epoch < s.epoch) /\ ~(db.epoch > s.epoch)
      BY <1>5, <1>6, <1>10
    <2>2. Verdict(Current) = "ok"
      BY <1>4, <1>10, <2>1 DEF Verdict
    <2>3. QED
      BY <2>2 DEF Accepted
  <1>11. QED
    BY <1>8, <1>9, <1>10

\* What a step may do to the epoch of the stored key set.
Forward == disk'.set = NoSet \/ disk'.set.epoch >= disk.set.epoch

LEMMA EpochStep == TrustInv /\ [Next]_vars => Forward
  <1> SUFFICES ASSUME TrustInv, [Next]_vars PROVE Forward
    OBVIOUS
  <1>1. disk \in [set : KeySets, node : Nodes \cup {NoNode}, tok : Tokens \cup {0}] /\ MaxVersion \in Nat
    BY BoundFacts DEF TrustInv, Typed
  <1>2. disk.set.epoch \in Nat
    BY <1>1 DEF KeySets
  <1>3. ASSUME disk'.set = disk.set PROVE Forward
    BY <1>2, <1>3 DEF Forward
  <1>4. CASE UNCHANGED vars
    BY <1>3, <1>4 DEF vars
  <1>5. CASE Rotate \/ (\E k \in Keys, r \in BOOLEAN : EndKey(k, r)) \/ TakeSnapshot \/ Restore \/ CrashAgent
    BY <1>3, <1>5 DEF Rotate, EndKey, TakeSnapshot, Restore, CrashAgent
  <1>6. ASSUME NEW t \in Tokens, CreateToken(t) \/ StartAgent(t) \/ ResetTrust(t) PROVE Forward
    BY <1>1, <1>3, <1>6 DEF CreateToken, StartAgent, ResetTrust
  <1>7. ASSUME NEW p \in Procs,
               LoadState(p) \/ LoadKeys(p) \/ SendJoin(p) \/ ReceiveJoin(p) \/ RecordJoin(p) \/ Answer(p) \/ Ask(p) \/ GiveUp(p)
        PROVE  Forward
    BY <1>3, <1>7 DEF LoadState, LoadKeys, SendJoin, ReceiveJoin, RecordJoin, Answer, Ask, GiveUp
  <1>8. ASSUME NEW p \in Procs, PushKeySet(p) PROVE Forward
    <2>1. CASE UNCHANGED disk
      BY <1>3, <2>1
    <2>2. CASE mem.set # NoSet /\ Acceptable(proc[p].mat, mem.set) /\ disk' = [disk EXCEPT !.set = proc[p].mat]
      <3>1. mem.set = disk.set
        BY <2>2 DEF TrustInv, AgentOK
      <3>2. disk'.set = proc[p].mat
        BY <1>1, <2>2
      <3>3. QED
        BY <2>2, <3>1, <3>2 DEF Acceptable, Forward
    <2>3. QED
      BY <1>8, <2>1, <2>2 DEF PushKeySet
  <1>9. CASE RestartAgent
    BY <1>1, <1>3, <1>9 DEF RestartAgent
  <1>10. CASE ResetSet \/ ReplaceVolume
    BY <1>1, <1>10 DEF ResetSet, ReplaceVolume, Forward
  <1>11. CASE ResetNode
    BY <1>1, <1>3, <1>11 DEF ResetNode
  <1>12. CASE JoinStep
    <2>1. CASE apc = "store"
      <3>1. disk.set = NoSet /\ disk'.set = offer.set /\ offer.set \in KeySets
        BY <1>1, <1>12, <2>1 DEF JoinStep, TrustInv, AgentOK, Typed
      <3>2. QED
        BY <1>1, <3>1 DEF NoSet, KeySet, KeySets, Forward
    <2>2. CASE apc \in {"pin", "burn"}
      <3>1. disk'.set = disk.set
        BY <1>1, <1>12, <2>2 DEF JoinStep
      <3>2. QED
        BY <1>3, <3>1
    <2>3. QED
      BY <1>12, <2>1, <2>2 DEF JoinStep
  <1>13. QED
    BY <1>4, <1>5, <1>6, <1>7, <1>8, <1>9, <1>10, <1>11, <1>12 DEF Next, Activity, Join

\* However rotations, retirements and revocations, joins in two reads, pushes,
\* crashes, resets and restores interleave, a joined agent accepts the portal's
\* material or the push of it until a database is restored, its pinned node is
\* the one whose join it stored, and the epoch it stores never goes back
\* (rotate_signing_key, end_signing_key, TrustStore::join, update, reset_and_arm).
THEOREM TrustIsSound == Spec => TrustSound
  <1>1. TrustInv => TypeOK /\ KeysVouched /\ PinMatches
    BY TrustTyped, TrustVouches DEF TrustInv, AgentOK, PinMatches
  <1>2. QED
    BY <1>1, TrustFirst, TrustStep, EpochStep, PTL DEF Spec, TrustSound, EpochForward, Forward
=============================================================================
