--------------------------- MODULE DevtoolsBridge ---------------------------
(***************************************************************************)
(* packages/devtools-bridge/src/connect.ts: one graph, its observers that  *)
(* connect it to the Redux DevTools panel and dispose of it in any order   *)
(* (StrictMode does both twice), and the messages of the panel.  All       *)
(* callers of one graph share a connection, counted in ACTIVE.             *)
(*                                                                         *)
(* A state the panel has is a snapshot of the graph, known here by its     *)
(* time: what snapshotAt answers for a time is the matter of Retention.    *)
(* Messages come from the panel and may name times of another session.     *)
(***************************************************************************)
EXTENDS GraphClock, Sequences, FiniteSets

CONSTANTS Holder,    \* one per call of connectDevtools at a time
          Depth,     \* snapshotRetentionCap of the graph
          ActionId,  \* of the panel's log
          NoLink     \* no entry in ACTIVE

ASSUME HolderAssumption == IsFiniteSet(Holder)
ASSUME DepthAssumption == Depth \in Nat \ {0}

VARIABLES
  extension,  \* has the page __REDUX_DEVTOOLS_EXTENSION__?
  holds,      \* the disposers: "none" yet, "held", "noop" or "spent"
  link,       \* ACTIVE's entry, with BridgeState and baselineTime
  panel,      \* external: what the panel shows, and the actions it was sent
  owed        \* history: the commits the panel was to be sent

bridgeVars == <<extension, holds, link, panel, owed>>

\* BridgeState with refcount and baselineTime.
Link == [refcount : Nat, paused : BOOLEAN, locked : BOOLEAN, persist : BOOLEAN,
         skipped : SUBSET ActionId, baseline : Time]

ASSUME NoLinkAssumption == NoLink \notin Link

NoPanel == [shown |-> 0, log |-> <<>>]

BridgeTypeOK ==
  /\ extension \in BOOLEAN
  /\ holds \in [Holder -> {"none", "held", "noop", "spent"}]
  /\ link \in Link \cup {NoLink} /\ (link # NoLink => link.baseline \in 0..now)
  /\ panel.shown \in 0..now /\ panel.log \in Seq(1..now) /\ owed \in Seq(1..now)

-----------------------------------------------------------------------------
(* connectDevtools and its disposers.                                      *)

Held == {h \in Holder : holds[h] = "held"}

\* ext.connect, conn.init and a BridgeState of its own.
Open == /\ link' = [refcount |-> 1, paused |-> FALSE, locked |-> FALSE,
                    persist |-> FALSE, skipped |-> {}, baseline |-> now]
        /\ panel' = [shown |-> now, log |-> <<>>]
        /\ owed' = <<>>

Connect(h) ==
  /\ holds[h] # "held"
  /\ holds' = [holds EXCEPT ![h] = IF extension THEN "held" ELSE "noop"]
  /\ \/ ~extension /\ UNCHANGED <<link, panel, owed>>
     \/ extension /\ link = NoLink /\ Open
     \/ /\ extension /\ link # NoLink
        /\ link' = [link EXCEPT !.refcount = @ + 1]
        /\ UNCHANGED <<panel, owed>>
  /\ UNCHANGED <<now, extension>>

\* cleanup, when the last one leaves
Release == IF link.refcount - 1 <= 0 THEN NoLink ELSE [link EXCEPT !.refcount = @ - 1]

\* A disposer that does not remember that it ran.
DisposeEachTime(h) ==
  /\ holds[h] \in {"held", "spent"}
  /\ link # NoLink /\ link' = Release
  /\ holds' = [holds EXCEPT ![h] = "spent"]
  /\ UNCHANGED <<now, extension, panel, owed>>

\* makeDisposer: once, however often it is called.
Dispose(h) ==
  /\ holds[h] = "held"
  /\ link' = IF link = NoLink THEN NoLink ELSE Release
  /\ holds' = [holds EXCEPT ![h] = "spent"]
  /\ UNCHANGED <<now, extension, panel, owed>>

\* The extension may come after the page's own code ran.
Install == ~extension /\ extension' = TRUE /\ UNCHANGED <<now, holds, link, panel, owed>>

-----------------------------------------------------------------------------
(* The graph commits, the panel sends messages.                            *)

\* The subscribeCommits observer of the connection.
GraphCommits ==
  /\ Tick
  /\ IF link # NoLink /\ ~link.paused
     THEN panel' = [shown |-> now', log |-> Append(panel.log, now')] ELSE UNCHANGED panel
  /\ owed' = IF Held # {} /\ ~link.paused THEN Append(owed, now') ELSE owed
  /\ UNCHANGED <<extension, holds, link>>

\* snapshotAt(t).status = 'retained'
Retained(t) == t \in 0..now /\ t > now - Depth

Shows(t) == /\ panel' = IF Retained(t) THEN [shown |-> t, log |-> <<>>] ELSE panel
            /\ owed'  = IF Retained(t) THEN <<>> ELSE owed
            /\ UNCHANGED link

\* decodeDispatch: what the wire may carry, null when it is malformed.
Message ==
  [kind : {"jump_to_state", "jump_to_action"}, time : Time]
    \cup [kind : {"pause_recording", "lock_changes"}, status : {"on", "off", "absent"}]
    \cup [kind : {"import_state"}, times : {<<>>} \cup (Time \X Time)]
    \cup [kind : {"commit", "rollback", "sweep", "toggle_persist", "malformed"}]
    \cup [kind : {"toggle_action"}, id : ActionId]

Switched(old, status) == IF status = "absent" THEN ~old ELSE status = "on"

Sets(l) == link' = l /\ UNCHANGED <<panel, owed>>

Handles(m) ==
  \/ m.kind \in {"jump_to_state", "jump_to_action"} /\ Shows(m.time)
  \/ m.kind = "import_state" /\ m.times # <<>> /\ Shows(m.times[Len(m.times)])
  \/ m.kind = "rollback" /\ Shows(link.baseline)
  \/ /\ m.kind = "commit" /\ link' = [link EXCEPT !.baseline = now]
     /\ panel' = [shown |-> now, log |-> <<>>] /\ owed' = <<>>
  \/ /\ m.kind = "pause_recording"
     /\ Sets([link EXCEPT !.paused = Switched(@, m.status)])
  \/ m.kind = "lock_changes" /\ Sets([link EXCEPT !.locked = Switched(@, m.status)])
  \/ m.kind = "sweep" /\ Sets([link EXCEPT !.skipped = {}])
  \/ /\ m.kind = "toggle_action"
     /\ Sets([link EXCEPT !.skipped = IF m.id \in @ THEN @ \ {m.id} ELSE @ \cup {m.id}])
  \/ m.kind = "toggle_persist" /\ Sets([link EXCEPT !.persist = ~@])

\* The conn.subscribe listener; a lock lets only itself be changed.
Receive(m) ==
  /\ link # NoLink
  /\ link.locked => m.kind = "lock_changes"
  /\ Handles(m)
  /\ UNCHANGED <<now, extension, holds>>

-----------------------------------------------------------------------------

BridgeInit ==
  /\ now = 0 /\ extension \in BOOLEAN /\ holds = [h \in Holder |-> "none"]
  /\ link = NoLink /\ panel = NoPanel /\ owed = <<>>

BridgeNext ==
  \/ \E h \in Holder : Connect(h) \/ Dispose(h)
  \/ \E m \in Message : Receive(m)
  \/ Install \/ GraphCommits

BridgeSpec == BridgeInit /\ [][BridgeNext]_<<now, bridgeVars>>

-----------------------------------------------------------------------------
(* Properties.                                                             *)

\* The connection lives exactly as long as somebody has an undisposed
\* disposer, however connects and disposals interleave, and counts them.
LinkIsHeld == /\ (link # NoLink) = (Held # {})
              /\ link # NoLink => link.refcount = Cardinality(Held)

\* Since its last init the panel was sent each commit of an unpaused
\* connection once and in order, whoever else connected meanwhile.
PanelMissesNothing == link # NoLink => panel.log = owed

BridgeLinkSound == LinkIsHeld /\ PanelMissesNothing
=============================================================================
