------------------------- MODULE BrowserBridgeProofs -------------------------
(***************************************************************************)
(* Theorems about BrowserBridge, for every set of tabs and every bound.    *)
(***************************************************************************)
EXTENDS BrowserSocketsProofs

-----------------------------------------------------------------------------
(* The broker's maps                                                       *)

\* The broker's record has its fields, whatever is in them.
BrokerShape ==
    DOMAIN broker = {"socket", "gen", "key", "lastKey", "tabs", "approvals", "dispatched",
                     "snaps", "requests"}

\* Approvals are about operations that were asked for: a later one is not theirs.
AskedFor == asked \in Seq(Tabs) /\ broker.approvals \subseteq DOMAIN asked

MapsInv == BrokerShape /\ AskedFor /\ ApprovalsOnSharedTabs /\ DisconnectCancels

\* Nothing is shared and nothing is asked for at first.
LEMMA MapsInit == Init => MapsInv
  BY DEF Init, MapsInv, BrokerShape, AskedFor, ApprovalsOnSharedTabs, DisconnectCancels

\* A step that asks for nothing, adds no approval, keeps the tabs that the approvals wait
\* on, and leaves nothing behind a connection that is gone.
LEMMA MapsShrink ==
    ASSUME MapsInv, UNCHANGED asked, BrokerShape', DisconnectCancels',
           broker'.approvals \subseteq broker.approvals,
           \A c \in broker'.approvals : asked[c] \in broker.tabs => asked[c] \in broker'.tabs
    PROVE  MapsInv'
  BY DEF MapsInv, AskedFor, ApprovalsOnSharedTabs

\* What the broker does with a message of the extension.
LEMMA MapsTakes ==
    ASSUME MapsInv, NEW s \in Sockets, BrokerTakes(s)
    PROVE  MapsInv'
<1> USE DEF MapsInv, BrokerShape, DisconnectCancels
<1>1. CASE Authenticate(s)
  <2>1. s # None
    BY DEF Sockets, None
  <2>2. QED
    BY <1>1, <2>1, MapsShrink DEF Authenticate, Refuse
<1>2. CASE RequestPairing(s)
  BY <1>2, MapsShrink DEF RequestPairing, Refuse
<1>3. CASE Unpair(s)
  BY <1>3, MapsShrink DEF Unpair, Refuse
<1>4. CASE TabShared(s)
  BY <1>4, MapsShrink DEF TabShared, Refuse
<1>5. CASE TabUnshared(s)
  <2>1. UNCHANGED <<broker, asked>> \/ broker' = WithoutTab(broker, Arg(s))
    BY <1>5 DEF TabUnshared, Refuse
  <2>2. CASE broker' = WithoutTab(broker, Arg(s))
    <3>1. /\ broker'.approvals = {c \in broker.approvals : asked[c] # Arg(s)}
          /\ broker'.tabs = broker.tabs \ {Arg(s)}
          /\ broker'.socket = broker.socket /\ broker'.dispatched = broker.dispatched
          /\ BrokerShape'
      BY <2>2 DEF WithoutTab
    <3>2. UNCHANGED asked
      BY <1>5 DEF TabUnshared
    <3>3. QED
      BY <3>1, <3>2, MapsShrink
  <2>3. QED
    BY <2>1, <2>2, MapsShrink
<1>6. CASE Snapshot(s)
  BY <1>6, MapsShrink DEF Snapshot, Refuse
<1>7. CASE Result(s)
  BY <1>7, MapsShrink DEF Result, Refuse, Undispatched
<1>8. CASE HeartbeatTaken(s)
  BY <1>8, MapsShrink DEF HeartbeatTaken, Refuse
<1>9. CASE SocketClosed(s)
  BY <1>9, MapsShrink DEF SocketClosed, Disconnected
<1>10. QED
  BY <1>1, <1>2, <1>3, <1>4, <1>5, <1>6, <1>7, <1>8, <1>9 DEF BrokerTakes

\* The agent asks for an operation on a tab that is shared, with a connection.
LEMMA MapsAsk ==
    ASSUME MapsInv, NEW t \in Tabs, Ask(t)
    PROVE  MapsInv'
<1> DEFINE c == Len(asked) + 1
<1>1. /\ asked' \in Seq(Tabs) /\ DOMAIN asked' = DOMAIN asked \cup {c}
      /\ asked'[c] = t /\ \A d \in DOMAIN asked : asked'[d] = asked[d]
  BY DEF Ask, MapsInv, AskedFor
<1>2. /\ BrokerShape' /\ broker'.approvals = broker.approvals \cup {c}
      /\ broker'.socket # None /\ broker'.tabs = broker.tabs /\ t \in broker.tabs
  BY DEF Ask, MapsInv, BrokerShape
<1>3. AskedFor'
  BY <1>1, <1>2 DEF MapsInv, AskedFor
<1>4. ApprovalsOnSharedTabs' /\ DisconnectCancels'
  BY <1>1, <1>2 DEF MapsInv, AskedFor, ApprovalsOnSharedTabs, DisconnectCancels
<1>5. QED
  BY <1>2, <1>3, <1>4 DEF MapsInv

\* Decisions, timers, snapshots, revocation and restart.
LEMMA MapsOwn ==
    ASSUME MapsInv,
           \/ \E s \in Sockets : PairingExpires(s) \/ PairingDecisionArrives(s)
           \/ AllowPairing \/ DenyPairing
           \/ \E t \in Tabs : RequestSnapshot(t) \/ SnapshotExpires(t)
           \/ \E c \in Ids : \/ ApprovalExpires(c) \/ CommandExpires(c)
                             \/ DecisionArrives(c) \/ Decide(c)
           \/ Revoke \/ BrokerRestart
    PROVE  MapsInv'
<1> USE DEF MapsInv, BrokerShape, DisconnectCancels
<1>1. CASE \E s \in Sockets : PairingExpires(s) \/ PairingDecisionArrives(s)
  BY <1>1, MapsShrink DEF PairingExpires, PairingDecisionArrives
<1>2. CASE AllowPairing \/ DenyPairing
  <2>1. /\ broker'.approvals = broker.approvals /\ broker'.tabs = broker.tabs
        /\ broker'.socket = broker.socket /\ broker'.dispatched = broker.dispatched
        /\ BrokerShape' /\ UNCHANGED asked
    BY <1>2 DEF AllowPairing, DenyPairing
  <2>2. QED
    BY <2>1, MapsShrink
<1>3. CASE \E t \in Tabs : RequestSnapshot(t) \/ SnapshotExpires(t)
  BY <1>3, MapsShrink DEF RequestSnapshot, SnapshotExpires
<1>4. CASE \E c \in Ids : ApprovalExpires(c) \/ CommandExpires(c) \/ DecisionArrives(c)
  BY <1>4, MapsShrink DEF ApprovalExpires, CommandExpires, DecisionArrives, Undispatched
<1>5. CASE \E c \in Ids : Decide(c)
  <2>1. PICK c \in Ids : Decide(c)
    BY <1>5
  <2>2. /\ broker'.approvals = broker.approvals \ {c} /\ broker'.tabs = broker.tabs
        /\ broker'.socket = broker.socket /\ BrokerShape' /\ UNCHANGED asked
        /\ broker'.dispatched = broker.dispatched \/ broker.socket # None
    BY <2>1 DEF Decide, Dispatchable, Dispatched
  <2>3. QED
    BY <2>2, MapsShrink
<1>6. CASE Revoke
  BY <1>6, MapsShrink DEF Revoke
<1>7. CASE BrokerRestart
  BY <1>7, MapsShrink DEF BrokerRestart, Disconnected
<1>8. QED
  BY <1>1, <1>2, <1>3, <1>4, <1>5, <1>6, <1>7

\* The extension touches neither the maps nor what was asked for.
LEMMA ExtLeavesMaps == ExtStep => UNCHANGED <<broker, asked>>
  BY DEF ExtStep, TimerFires, SetBrokerUrl, ConnectGoesOn, Heartbeat, Opened, ConnectFails,
         ExtHears, OnAuthenticated, OnPaired, OnSnapshotRequest, OnCommand, OnError,
         OnClose, Announce, CollectSnapshot, Share, Unshare, CommandDone, ExtRevoke,
         WorkerRestart

\* One step keeps the maps in order.
LEMMA MapsNext == MapsInv /\ [Next]_vars => MapsInv'
<1> SUFFICES ASSUME MapsInv, [Next]_vars PROVE MapsInv'
  OBVIOUS
<1>1. CASE BrokerStep
  BY <1>1, MapsTakes, MapsAsk, MapsOwn DEF BrokerStep
<1>2. CASE UNCHANGED <<broker, asked>>
  BY <1>2 DEF MapsInv, BrokerShape, AskedFor, ApprovalsOnSharedTabs, DisconnectCancels
<1>3. QED
  BY <1>1, <1>2, ExtLeavesMaps DEF Next, vars

\* The inductive invariant of the maps holds throughout.
LEMMA MapsCorrect == Spec => []MapsInv
  BY MapsInit, MapsNext, PTL DEF Spec

\* Whatever ends a share in the broker (tab_unshared, close, revoke, restart) ends the
\* approvals on the tab, in every interleaving with the decisions.
THEOREM ApprovalsAreShared == Spec => []ApprovalsOnSharedTabs
<1>1. MapsInv => ApprovalsOnSharedTabs
  BY DEF MapsInv
<1>2. QED
  BY <1>1, MapsCorrect, PTL

\* Without a connection nothing waits for a human or for a result, in every interleaving.
THEOREM DisconnectLeavesNothing == Spec => []DisconnectCancels
<1>1. MapsInv => DisconnectCancels
  BY DEF MapsInv
<1>2. QED
  BY <1>1, MapsCorrect, PTL

-----------------------------------------------------------------------------
(* The extension's retries                                                 *)

\* The worker's record has its fields, and what is under way in it is counted.
Counted(x) ==
    /\ DOMAIN x = Fields
    /\ x.armed \in BOOLEAN /\ x.retrying \in Nat /\ x.replacing \in Nat
    /\ x.announcing \in Nat

ExtShape == Counted(ext)

RetryInv == ExtShape /\ DisconnectedHasRetry

\* The timer is armed at first.
LEMMA RetryInit == Init => RetryInv
  BY DEF Init, RetryInv, ExtShape, Counted, Fields, DisconnectedHasRetry

\* A connect that goes on ends in a socket or in an armed timer.
LEMMA RetryOpen ==
    ASSUME NEW x, Open(x), NEW n \in Nat, NEW m \in Nat,
           x = [ext EXCEPT !.retrying = n] \/ x = [ext EXCEPT !.replacing = m],
           ExtShape
    PROVE  ExtShape' /\ (ext'.socket # None \/ ext'.armed)
<1>1. Counted(x)
  BY DEF ExtShape, Counted, Fields
<1>2. CASE \E s \in Sockets : ext' = [x EXCEPT !.socket = s]
  BY <1>1, <1>2 DEF ExtShape, Counted, Fields, Sockets, None
<1>3. CASE ext' = Armed([x EXCEPT !.socket = None])
  BY <1>1, <1>3 DEF ExtShape, Counted, Fields, Armed
<1>4. QED
  BY <1>2, <1>3 DEF Open

\* What the extension does by itself or for its user.
LEMMA RetryOwn ==
    ASSUME RetryInv, ExtStep, ~\E s \in Sockets : ExtHears(s)
    PROVE  RetryInv'
<1> USE DEF RetryInv, ExtShape, Counted, Fields, DisconnectedHasRetry
<1>1. CASE TimerFires
  BY <1>1 DEF TimerFires
<1>2. CASE SetBrokerUrl
  BY <1>2 DEF SetBrokerUrl
<1>3. CASE ConnectGoesOn
  <2>1. CASE /\ ext.retrying > 0 /\ ext.socket # None
             /\ ext' = [ext EXCEPT !.retrying = @ - 1]
    BY <2>1
  <2>2. CASE ext.retrying > 0 /\ Open([ext EXCEPT !.retrying = @ - 1])
    <3>1. ext.retrying - 1 \in Nat /\ 0 \in Nat
      BY <2>2
    <3>2. QED
      BY <2>2, <3>1, RetryOpen
  <2>3. CASE ext.replacing > 0 /\ Open([ext EXCEPT !.replacing = @ - 1])
    <3>1. ext.replacing - 1 \in Nat /\ 0 \in Nat
      BY <2>3
    <3>2. QED
      BY <2>3, <3>1, RetryOpen
  <2>4. QED
    BY <1>3, <2>1, <2>2, <2>3 DEF ConnectGoesOn
<1>4. CASE Heartbeat \/ \E s \in Sockets : Opened(s)
  BY <1>4 DEF Heartbeat, Opened
<1>5. CASE \E s \in Sockets : ConnectFails(s)
  BY <1>5 DEF ConnectFails, Armed
<1>6. CASE Announce
  BY <1>6 DEF Announce
<1>7. CASE \E t \in Tabs : CollectSnapshot(t) \/ Share(t) \/ Unshare(t)
  BY <1>7 DEF CollectSnapshot, Share, Unshare
<1>8. CASE \E c \in Ids : CommandDone(c)
  BY <1>8 DEF CommandDone
<1>9. CASE ExtRevoke
  BY <1>9 DEF ExtRevoke
<1>10. CASE WorkerRestart
  <2>1. PICK gone :
          ext' = [ext EXCEPT !.socket = None, !.gen = 0, !.handled = {}, !.running = {},
                           !.snapping = {}, !.announcing = 0, !.armed = FALSE,
                           !.retrying = 1, !.replacing = 0, !.stale = @ \cup gone]
    BY <1>10 DEF WorkerRestart
  <2>2. DOMAIN ext' = DOMAIN ext
    BY <2>1, Zenon
  <2>3. ext'.armed \in BOOLEAN
    BY <2>1
  <2>4. ext'.retrying = 1
    BY <2>1
  <2>5. ext'.replacing = 0
    BY <2>1
  <2>6. ext'.announcing = 0
    BY <2>1
  <2>7. QED
    BY <2>2, <2>3, <2>4, <2>5, <2>6
<1>11. QED
  BY <1>1, <1>2, <1>3, <1>4, <1>5, <1>6, <1>7, <1>8, <1>9, <1>10 DEF ExtStep

\* What the extension does with a message of the broker.
LEMMA RetryHears ==
    ASSUME RetryInv, NEW s \in Sockets, ExtHears(s)
    PROVE  RetryInv'
<1> USE DEF RetryInv, ExtShape, Counted, Fields, DisconnectedHasRetry
<1>1. CASE OnAuthenticated(s)
  BY <1>1 DEF OnAuthenticated
<1>2. CASE OnPaired(s)
  BY <1>2 DEF OnPaired
<1>3. CASE OnSnapshotRequest(s)
  BY <1>3 DEF OnSnapshotRequest
<1>4. CASE OnCommand(s)
  BY <1>4 DEF OnCommand
<1>5. CASE OnError(s)
  BY <1>5 DEF OnError, Forgot, Armed
<1>6. CASE OnClose(s)
  BY <1>6 DEF OnClose, Armed
<1>7. QED
  BY <1>1, <1>2, <1>3, <1>4, <1>5, <1>6 DEF ExtHears

\* The broker touches none of the worker's variables.
LEMMA BrokerLeavesExt == BrokerStep => UNCHANGED ext
  BY DEF BrokerStep, BrokerTakes, Authenticate, RequestPairing, Unpair, TabShared,
         TabUnshared, Snapshot, Result, HeartbeatTaken, SocketClosed, PairingExpires,
         PairingDecisionArrives, AllowPairing, DenyPairing, Ask, RequestSnapshot,
         SnapshotExpires, ApprovalExpires, CommandExpires, DecisionArrives, Decide,
         Revoke, BrokerRestart

\* One step leaves the extension a way back.
LEMMA RetryNext == RetryInv /\ [Next]_vars => RetryInv'
<1> SUFFICES ASSUME RetryInv, [Next]_vars PROVE RetryInv'
  OBVIOUS
<1>1. CASE ExtStep
  BY <1>1, RetryOwn, RetryHears
<1>2. CASE UNCHANGED ext
  BY <1>2 DEF RetryInv, ExtShape, Counted, DisconnectedHasRetry
<1>3. QED
  BY <1>1, <1>2, BrokerLeavesExt DEF Next, vars

\* Without a socket the extension has a timer or a connect under way, whatever the broker
\* closes, refuses or loses and whatever the user revokes meanwhile.
THEOREM NeverStuck == Spec => []DisconnectedHasRetry
<1>1. RetryInv => DisconnectedHasRetry
  BY DEF RetryInv
<1>2. QED
  BY <1>1, RetryInit, RetryNext, PTL DEF Spec

-----------------------------------------------------------------------------
(* What a primitive does to each socket                                    *)

\* A message of the broker is queued where both ends are open.
LEMMA DownIs ==
    ASSUME NEW k, NEW n \in Nat, Good(k, n), NEW s \in Sockets \cup {None},
           NEW m \in DownMessages(n), NEW r \in Sockets
    PROVE  /\ Down(k, s, m)[r].e = k[r].e /\ Down(k, s, m)[r].b = k[r].b
           /\ Down(k, s, m)[r].auth = k[r].auth /\ Down(k, s, m)[r].up = k[r].up
           /\ Down(k, s, m)[r].down =
                 IF r = s /\ k[r].e = "open" /\ k[r].b = "open"
                 THEN Append(k[r].down, m) ELSE k[r].down
<1>1. k \in [Sockets -> Socket(n)] /\ k[r] \in Socket(n) /\ r # None
  BY NoneIsNoSocket DEF Good
<1>2. CASE s # None /\ k[s].e = "open" /\ k[s].b = "open"
  <2> DEFINE l == [k EXCEPT ![s].down = Append(@, m)]
  <2>1. l[r] = IF r = s THEN [k[r] EXCEPT !.down = Append(@, m)] ELSE k[r]
    BY <1>1
  <2>2. Down(k, s, m) = l
    BY <1>2 DEF Down
  <2> HIDE DEF l
  <2>3. CASE r = s
    BY <1>1, <1>2, <2>1, <2>2, <2>3 DEF Socket
  <2> QED BY <2>1, <2>2, <2>3
<1> QED BY <1>1, <1>2 DEF Down

\* The broker's close leaves the extension's end to hear of it.
LEMMA BrokerClosesIs ==
    ASSUME NEW k, NEW n \in Nat, Good(k, n), NEW s \in Sockets \cup {None}, NEW r \in Sockets
    PROVE  LET l == BrokerCloses(k, s)
           IN  /\ l[r].e = k[r].e /\ l[r].auth = k[r].auth /\ l[r].up = k[r].up
               /\ l[r].b = IF r = s /\ k[r].b = "open" THEN "closing" ELSE k[r].b
               /\ l[r].down = IF r = s /\ k[r].e = "open" /\ k[r].b = "open"
                              THEN Append(k[r].down, Plain("close")) ELSE k[r].down
<1> DEFINE j == Down(k, s, Plain("close"))
           l == [j EXCEPT ![s].b = "closing"]
<1>1. Plain("close") \in DownMessages(n)
  BY PlainMessages
<1>2. /\ j[r].e = k[r].e /\ j[r].b = k[r].b /\ j[r].auth = k[r].auth /\ j[r].up = k[r].up
      /\ j[r].down = IF r = s /\ k[r].e = "open" /\ k[r].b = "open"
                     THEN Append(k[r].down, Plain("close")) ELSE k[r].down
  BY <1>1, DownIs
<1>3. j \in [Sockets -> Socket(n)] /\ j[r] \in Socket(n) /\ r # None
  BY <1>1, DownIsGood, NoneIsNoSocket DEF Good
<1> HIDE DEF j
<1>4. CASE s # None /\ k[s].b = "open"
  <2>1. BrokerCloses(k, s) = l
    BY <1>4 DEF BrokerCloses, j
  <2>2. l[r] = IF r = s THEN [j[r] EXCEPT !.b = "closing"] ELSE j[r]
    BY <1>3
  <2> HIDE DEF l
  <2>3. CASE r = s
    BY <1>2, <1>3, <1>4, <2>1, <2>2, <2>3 DEF Socket
  <2> QED BY <1>2, <2>1, <2>2, <2>3
<1> QED BY <1>3, <1>4 DEF BrokerCloses

\* What the broker takes is gone from the queue.
LEMMA TakenIs ==
    ASSUME NEW n \in Nat, Good(sock, n), NEW s \in Sockets, NEW r \in Sockets
    PROVE  /\ Taken(s)[r].e = sock[r].e /\ Taken(s)[r].b = sock[r].b
           /\ Taken(s)[r].auth = sock[r].auth /\ Taken(s)[r].down = sock[r].down
           /\ Taken(s)[r].up = IF r = s THEN Tail(sock[r].up) ELSE sock[r].up
<1>1. sock \in [Sockets -> Socket(n)] /\ sock[r] \in Socket(n)
  BY DEF Good
<1>2. Taken(s)[r] = IF r = s THEN [sock[r] EXCEPT !.up = Tail(@)] ELSE sock[r]
  BY <1>1 DEF Taken
<1>3. CASE r = s
  BY <1>1, <1>2, <1>3 DEF Socket
<1> QED BY <1>2, <1>3

\* So is what the extension takes.
LEMMA HeardIs ==
    ASSUME NEW n \in Nat, Good(sock, n), NEW s \in Sockets, NEW r \in Sockets
    PROVE  /\ Heard(s)[r].e = sock[r].e /\ Heard(s)[r].b = sock[r].b
           /\ Heard(s)[r].auth = sock[r].auth /\ Heard(s)[r].up = sock[r].up
           /\ Heard(s)[r].down = IF r = s THEN Tail(sock[r].down) ELSE sock[r].down
<1>1. sock \in [Sockets -> Socket(n)] /\ sock[r] \in Socket(n)
  BY DEF Good
<1>2. Heard(s)[r] = IF r = s THEN [sock[r] EXCEPT !.down = Tail(@)] ELSE sock[r]
  BY <1>1 DEF Heard
<1>3. CASE r = s
  BY <1>1, <1>2, <1>3 DEF Socket
<1> QED BY <1>2, <1>3

\* The extension sends on its socket, unless it is not open or its broker is gone.
LEMMA UpIs ==
    ASSUME NEW k, NEW n \in Nat, Good(k, n), NEW ms, NEW r \in Sockets
    PROVE  /\ Up(k, ms)[r].e = k[r].e /\ Up(k, ms)[r].b = k[r].b
           /\ Up(k, ms)[r].auth = k[r].auth /\ Up(k, ms)[r].down = k[r].down
           /\ Up(k, ms)[r].up =
                 IF r = ext.socket /\ k[r].e = "open" /\ k[r].b # "dead"
                 THEN k[r].up \o ms ELSE k[r].up
<1> DEFINE s == ext.socket
<1>1. k \in [Sockets -> Socket(n)] /\ k[r] \in Socket(n) /\ r # None
  BY NoneIsNoSocket DEF Good
<1>2. CASE s # None /\ k[s].e = "open" /\ k[s].b # "dead"
  <2> DEFINE l == [k EXCEPT ![s].up = @ \o ms]
  <2>1. l[r] = IF r = s THEN [k[r] EXCEPT !.up = @ \o ms] ELSE k[r]
    BY <1>1
  <2>2. Up(k, ms) = l
    BY <1>2 DEF Up
  <2> HIDE DEF l
  <2>3. CASE r = s
    BY <1>1, <1>2, <2>1, <2>2, <2>3 DEF Socket
  <2> QED BY <2>1, <2>2, <2>3
<1> QED BY <1>1, <1>2 DEF Up

\* The extension's end goes: nothing is left for it to hear.
LEMMA ExtClosesIs ==
    ASSUME NEW k, NEW n \in Nat, Good(k, n), NEW s \in Sockets \cup {None}, NEW r \in Sockets
    PROVE  LET l == ExtCloses(k, s)
           IN  IF r # s THEN l[r] = k[r]
               ELSE /\ l[r].e # "open" /\ l[r].down = <<>>
                    /\ \/ l[r] = Free /\ (k[r].e = "connecting" \/ k[r].b = "dead")
                       \/ /\ l[r].auth = k[r].auth /\ l[r].b = k[r].b /\ k[r].b # "dead"
                          /\ l[r].up = Append(k[r].up, Plain("close"))
<1>1. k \in [Sockets -> Socket(n)] /\ k[r] \in Socket(n) /\ r # None
  BY NoneIsNoSocket DEF Good
<1>2. CASE s # None /\ (k[s].e = "connecting" \/ k[s].b = "dead")
  <2>1. ExtCloses(k, s) = [k EXCEPT ![s] = Free]
    BY <1>2 DEF ExtCloses
  <2>2. ExtCloses(k, s)[r] = IF r = s THEN Free ELSE k[r]
    BY <1>1, <2>1
  <2>3. Free.e # "open" /\ Free.down = <<>>
    BY DEF Free
  <2> QED BY <1>2, <2>2, <2>3
<1>3. CASE s # None /\ ~(k[s].e = "connecting" \/ k[s].b = "dead")
  <2> DEFINE l == [k EXCEPT ![s].e = "gone", ![s].down = <<>>,
                            ![s].up = Append(@, Plain("close"))]
  <2>1. l[r] = IF r = s
               THEN [k[r] EXCEPT !.e = "gone", !.down = <<>>,
                                 !.up = Append(@, Plain("close"))]
               ELSE k[r]
    BY <1>1, <1>3
  <2>2. ExtCloses(k, s) = l
    BY <1>3 DEF ExtCloses
  <2> HIDE DEF l
  <2>3. CASE r = s
    BY <1>1, <1>3, <2>1, <2>2, <2>3 DEF Socket
  <2> QED BY <2>1, <2>2, <2>3
<1>4. CASE s = None
  BY <1>1, <1>4 DEF ExtCloses
<1> QED BY <1>2, <1>3, <1>4

-----------------------------------------------------------------------------
(* What a queue carries                                                    *)

\* What the messages of one type are about.
Carried(q, type) == {m.arg : m \in {x \in Range(q) : x.type = type}}

Only(m, type) == IF m.type = type THEN {m.arg} ELSE {}

\* A queue holds its head and what its tail holds.
LEMMA RangeTail ==
    ASSUME NEW S, NEW q \in Seq(S), q # <<>>
    PROVE  Range(q) = Range(Tail(q)) \cup {Head(q)}
<1>1. /\ Tail(q) \in Seq(S) /\ Len(Tail(q)) = Len(q) - 1 /\ Len(q) \in Nat \ {0}
      /\ \A i \in 1..Len(Tail(q)) : Tail(q)[i] = q[i + 1]
  BY HeadTailProperties, EmptySeq
<1>2. Range(q) = {q[i] : i \in 1..Len(q)} /\ Range(Tail(q)) = {Tail(q)[i] : i \in 1..Len(Tail(q))}
  BY <1>1, RangeEquality
<1>3. Head(q) = q[1]
  OBVIOUS
<1>4. ASSUME NEW i \in 1..Len(q) PROVE q[i] \in Range(Tail(q)) \cup {Head(q)}
  <2>1. CASE i = 1
    BY <1>3, <2>1
  <2>2. CASE i # 1
    <3>1. i - 1 \in 1..Len(Tail(q)) /\ Tail(q)[i - 1] = q[i]
      BY <1>1, <2>2
    <3>2. QED
      BY <1>2, <3>1
  <2>3. QED
    BY <2>1, <2>2
<1>5. ASSUME NEW i \in 1..Len(Tail(q)) PROVE Tail(q)[i] \in Range(q)
  <2>1. i + 1 \in 1..Len(q) /\ Tail(q)[i] = q[i + 1]
    BY <1>1
  <2>2. QED
    BY <1>2, <2>1
<1>6. Head(q) \in Range(q)
  <2>1. 1 \in 1..Len(q)
    BY <1>1
  <2>2. QED
    BY <1>2, <1>3, <2>1
<1>7. QED
  BY <1>2, <1>4, <1>5, <1>6

\* A queue carries what its head and its tail carry.
LEMMA CarriedTail ==
    ASSUME NEW S, NEW q \in Seq(S), q # <<>>, NEW type
    PROVE  Carried(q, type) = Carried(Tail(q), type) \cup Only(Head(q), type)
  BY RangeTail DEF Carried, Only

\* Two queues carry together what each carries.
LEMMA CarriedConcat ==
    ASSUME NEW S, NEW q \in Seq(S), NEW r \in Seq(S), NEW type
    PROVE  Carried(q \o r, type) = Carried(q, type) \cup Carried(r, type)
  BY RangeConcatenation DEF Carried

\* A message of its own.
LEMMA CarriedOne ==
    ASSUME NEW m, NEW type
    PROVE  Carried(<<m>>, type) = Only(m, type) /\ Carried(<<>>, type) = {}
<1>1. DOMAIN <<m>> = 1..1 /\ <<m>>[1] = m
  OBVIOUS
<1>2. Range(<<m>>) = {m}
  BY <1>1 DEF Range
<1>3. Range(<<>>) = {}
  BY DEF Range
<1>4. QED
  BY <1>2, <1>3 DEF Carried, Only

\* One more message at its end.
LEMMA CarriedAppend ==
    ASSUME NEW S, NEW q \in Seq(S), NEW m \in S, NEW type
    PROVE  Carried(Append(q, m), type) = Carried(q, type) \cup Only(m, type)
<1> DEFINE one == <<m>>
<1>1. Append(q, m) = q \o one /\ one \in Seq(S)
  BY AppendIsConcat
<1>2. Carried(one, type) = Only(m, type)
  BY CarriedOne
<1> HIDE DEF one
<1>3. QED
  BY <1>1, <1>2, CarriedConcat

\* A message for each tab of a set names every one of them.
LEMMA CarriedForEach ==
    ASSUME NEW T \in SUBSET Tabs, NEW type \in Types \ {"close"}, NEW other
    PROVE  Carried(ForEach(T, type), other) = IF other = type THEN T ELSE {}
<1> DEFINE n == Cardinality(T)
           order == SetToSeq(T)
<1>1. IsFiniteSet(T) /\ n \in Nat /\ ExistsBijection(1..n, T)
  BY TabsAssumption, FS_Subset, FS_CardinalityType
<1>2. PICK f \in [1..n -> T] : \A a, b \in DOMAIN f : f[a] = f[b] => a = b
  BY <1>1 DEF ExistsBijection, Bijection, Injection, IsInjective
<1>3. order \in [1..n -> T] /\ \A a, b \in DOMAIN order : order[a] = order[b] => a = b
  BY <1>2 DEF SetToSeq, IsInjective
<1> HIDE DEF n, order
<1>4. ASSUME NEW t \in T PROVE \E i \in 1..n : order[i] = t
  <2>1. SUFFICES ASSUME \A i \in 1..n : order[i] # t PROVE FALSE
    OBVIOUS
  <2>2. order \in [1..n -> T \ {t}]
    BY <1>3, <2>1
  <2>3. IsFiniteSet(T \ {t}) /\ Cardinality(T \ {t}) = n - 1
    BY <1>1, FS_RemoveElement DEF n
  <2>4. IsFiniteSet(1..n) /\ Cardinality(1..n) = n
    BY <1>1, FS_Interval
  <2>5. \E x, y \in 1..n : x # y /\ order[x] = order[y]
    BY <1>1, <2>2, <2>3, <2>4, FS_PigeonHole
  <2>6. QED
    BY <1>3, <2>5
<1>5. ForEach(T, type) = [i \in 1..n |-> Message(type, order[i], 0)]
  BY <1>3 DEF ForEach, order
<1>6. Range(ForEach(T, type)) = {Message(type, t, 0) : t \in T}
  BY <1>3, <1>4, <1>5 DEF Range
<1>7. \A t \in T : Message(type, t, 0).type = type /\ Message(type, t, 0).arg = t
  BY DEF Message
<1>8. {x \in Range(ForEach(T, type)) : x.type = other}
        = IF other = type THEN {Message(type, t, 0) : t \in T} ELSE {}
  BY <1>6, <1>7
<1>9. QED
  BY <1>7, <1>8 DEF Carried

-----------------------------------------------------------------------------
(* The tabs the broker lists                                               *)

\* A connection whose news the extension has heard.
Live(x) ==
    /\ x.e = "open" /\ x.b = "open" /\ x.auth
    /\ Carried(x.down, "authenticated") = {}

\* The tabs a queue tells of, in whatever form.
Shares(q) == Carried(q, "tab_shared") \cup Carried(q, "tab_http") \cup Carried(q, "tab_entry")

\* From x to y no tab is unshared anew and none that was shared is forgotten.
Still(x, y) ==
    /\ Carried(y.up, "tab_unshared") \subseteq Carried(x.up, "tab_unshared")
    /\ Live(y) => /\ Live(x)
                  /\ Shares(x.up) \subseteq Shares(y.up)

\* No tab that is shared, or may be, is being unshared; each tab that is shared is listed
\* or about to be taken or refused, once the extension has announced its tabs.
Listed ==
    /\ \A s \in Sockets :
          Carried(sock[s].up, "tab_unshared") \cap (ext.tabs \cup ext.fresh) = {}
    /\ ext.announcing = 0 =>
          \A s \in Sockets : Live(sock[s]) =>
              ext.tabs \subseteq broker.tabs \cup Shares(sock[s].up)

\* What happens to one socket and then to it again.
LEMMA StillTwice ==
    ASSUME NEW x, NEW y, NEW z, Still(x, y), Still(y, z)
    PROVE  Still(x, z)
  BY DEF Still

\* Nothing happens.
LEMMA StillSame == \A x : Still(x, x)
  BY DEF Still

\* A message of the broker.
LEMMA StillDown ==
    ASSUME NEW k, NEW n \in Nat, Good(k, n), NEW s \in Sockets \cup {None},
           NEW m \in DownMessages(n), NEW r \in Sockets
    PROVE  Still(k[r], Down(k, s, m)[r])
<1>1. k[r].down \in Seq(DownMessages(n))
  BY DEF Good, Socket
<1>2. Carried(k[r].down, "authenticated") \subseteq Carried(Append(k[r].down, m), "authenticated")
  BY <1>1, CarriedAppend
<1>3. QED
  BY <1>2, DownIs DEF Still, Live

\* The broker's close.
LEMMA StillBrokerCloses ==
    ASSUME NEW k, NEW n \in Nat, Good(k, n), NEW s \in Sockets \cup {None}, NEW r \in Sockets
    PROVE  Still(k[r], BrokerCloses(k, s)[r])
<1>1. k[r].down \in Seq(DownMessages(n)) /\ Plain("close") \in DownMessages(n)
  BY PlainMessages DEF Good, Socket
<1>2. Carried(k[r].down, "authenticated")
        \subseteq Carried(Append(k[r].down, Plain("close")), "authenticated")
  BY <1>1, CarriedAppend
<1>3. QED
  BY <1>2, BrokerClosesIs DEF Still, Live

\* The broker's refusal.
LEMMA StillRejected ==
    ASSUME NEW k, NEW n \in Nat, Good(k, n), NEW s \in Sockets \cup {None}, NEW r \in Sockets
    PROVE  Still(k[r], Rejected(k, s)[r])
<1> DEFINE j == Down(k, s, Plain("error"))
<1>1. Plain("error") \in DownMessages(n)
  BY PlainMessages
<1>2. Good(j, n) /\ Still(k[r], j[r])
  BY <1>1, DownIsGood, StillDown
<1> HIDE DEF j
<1>3. Still(j[r], BrokerCloses(j, s)[r])
  BY <1>2, StillBrokerCloses
<1>4. QED
  BY <1>2, <1>3, StillTwice DEF Rejected, j

\* The extension's close.
LEMMA StillExtCloses ==
    ASSUME NEW k, NEW n \in Nat, Good(k, n), NEW s \in Sockets \cup {None}, NEW r \in Sockets
    PROVE  Still(k[r], ExtCloses(k, s)[r])
<1> DEFINE l == ExtCloses(k, s)
<1>1. k[r].up \in Seq(UpMessages) /\ Plain("close") \in UpMessages
  BY PlainMessages DEF Good, Socket
<1>2. Carried(Append(k[r].up, Plain("close")), "tab_unshared") = Carried(k[r].up, "tab_unshared")
  <2> DEFINE m == Plain("close")
  <2>1. Only(m, "tab_unshared") = {}
    BY DEF Only, Plain, Message
  <2>2. m \in UpMessages
    BY <1>1
  <2> HIDE DEF m
  <2>3. Carried(Append(k[r].up, m), "tab_unshared")
          = Carried(k[r].up, "tab_unshared") \cup Only(m, "tab_unshared")
    BY <1>1, <2>2, CarriedAppend
  <2>4. QED
    BY <2>1, <2>3 DEF m
<1>3. CASE r # s
  BY <1>3, ExtClosesIs, StillSame
<1>4. CASE r = s
  <2>1. l[r].e # "open" /\ (l[r] = Free \/ l[r].up = Append(k[r].up, Plain("close")))
    BY <1>4, ExtClosesIs
  <2>2. Carried(Free.up, "tab_unshared") = {}
    BY CarriedOne DEF Free
  <2>3. QED
    BY <1>2, <2>1, <2>2 DEF Still, Live
<1>5. QED
  BY <1>3, <1>4

\* A message the broker takes, unless it shares a tab.
LEMMA StillTaken ==
    ASSUME NEW n \in Nat, Good(sock, n), NEW s \in Sockets, NEW type, Takes(s, type),
           type \notin TabForms \/ ~sock[s].auth, NEW r \in Sockets
    PROVE  Still(sock[r], Taken(s)[r])
<1>1. sock[s].up \in Seq(UpMessages) /\ sock[s].up # <<>> /\ Head(sock[s].up).type = type
  BY DEF Good, Socket, Takes
<1>2. \A ty : Carried(sock[s].up, ty) = Carried(Tail(sock[s].up), ty) \cup Only(Head(sock[s].up), ty)
  BY <1>1, CarriedTail
<1>3. QED
  BY <1>1, <1>2, TakenIs DEF Still, Live, Only, Shares, TabForms

\* A message the extension takes, unless it is the news of the connection.
LEMMA StillHeard ==
    ASSUME NEW n \in Nat, Good(sock, n), NEW s \in Sockets, NEW type, Hears(s, type),
           type # "authenticated", NEW r \in Sockets
    PROVE  Still(sock[r], Heard(s)[r])
<1>1. /\ sock[s].down \in Seq(DownMessages(n)) /\ sock[s].down # <<>>
      /\ Head(sock[s].down).type = type
  BY DEF Good, Socket, Hears
<1>2. Carried(sock[s].down, "authenticated")
        = Carried(Tail(sock[s].down), "authenticated") \cup Only(Head(sock[s].down), "authenticated")
  BY <1>1, CarriedTail
<1>3. QED
  BY <1>1, <1>2, HeardIs DEF Still, Live, Only

\* Messages of the extension are carried by its socket, besides those there were.
LEMMA CarriedUp ==
    ASSUME NEW k, NEW n \in Nat, Good(k, n), NEW ms \in Seq(LiveMessages), NEW r \in Sockets
    PROVE  /\ Live(Up(k, ms)[r]) <=> Live(k[r])
           /\ \A type : Carried(Up(k, ms)[r].up, type)
                          \subseteq Carried(k[r].up, type) \cup Carried(ms, type)
           /\ \A type : Carried(k[r].up, type) \subseteq Carried(Up(k, ms)[r].up, type)
           /\ Linked(k, ext.socket) /\ Live(k[r]) =>
                 \A type : Carried(ms, type) \subseteq Carried(Up(k, ms)[r].up, type)
<1>1. k[r].up \in Seq(UpMessages) /\ ms \in Seq(UpMessages)
  <2>1. LiveMessages \subseteq UpMessages
    BY DEF LiveMessages
  <2>2. QED
    BY <2>1, SeqMonotonic DEF Good, Socket
<1>2. \A type : Carried(k[r].up \o ms, type) = Carried(k[r].up, type) \cup Carried(ms, type)
  BY <1>1, CarriedConcat
<1>3. Linked(k, ext.socket) /\ Live(k[r]) => r = ext.socket /\ k[r].e = "open" /\ k[r].b # "dead"
  BY DEF Linked, Live
<1>4. QED
  BY <1>2, <1>3, UpIs DEF Live

\* Messages of the extension that unshare no tab.
LEMMA StillUp ==
    ASSUME NEW k, NEW n \in Nat, Good(k, n), NEW ms \in Seq(LiveMessages),
           Carried(ms, "tab_unshared") = {}, NEW r \in Sockets
    PROVE  Still(k[r], Up(k, ms)[r])
  BY CarriedUp DEF Still, Shares

\* Nothing is shared, listed or unshared yet.
LEMMA ListedInit == Init => Listed
<1> SUFFICES ASSUME Init PROVE Listed
  OBVIOUS
<1>1. \A s \in Sockets : sock[s] = Free
  BY DEF Init
<1>2. Carried(Free.up, "tab_unshared") = {} /\ ~Live(Free)
  BY CarriedOne DEF Free, Live
<1>3. QED
  BY <1>1, <1>2 DEF Listed

\* A step that shares no tab, and unlists none that is shared.
LEMMA ListedKeeps ==
    ASSUME Listed, \A s \in Sockets : Still(sock[s], sock'[s]),
           ext'.tabs \cup ext'.fresh \subseteq ext.tabs \cup ext.fresh,
           \A s \in Sockets : Live(sock'[s]) /\ ext'.announcing = 0 =>
               /\ ext.announcing = 0 /\ ext'.tabs \subseteq ext.tabs
               /\ ext'.tabs \cap broker.tabs \subseteq broker'.tabs
    PROVE  Listed'
<1>1. \A s \in Sockets :
          Carried(sock'[s].up, "tab_unshared") \cap (ext'.tabs \cup ext'.fresh) = {}
  BY DEF Listed, Still
<1>2. ASSUME ext'.announcing = 0, NEW s \in Sockets, Live(sock'[s])
      PROVE  ext'.tabs \subseteq broker'.tabs \cup Shares(sock'[s].up)
  <2>1. Live(sock[s]) /\ Shares(sock[s].up) \subseteq Shares(sock'[s].up)
    BY <1>2 DEF Still
  <2>2. ext.tabs \subseteq broker.tabs \cup Shares(sock[s].up)
    BY <1>2, <2>1 DEF Listed
  <2>3. QED
    BY <1>2, <2>1, <2>2
<1>3. QED
  BY <1>1, <1>2 DEF Listed

\* A message that shares no tab is taken, answered or refused.
LEMMA StillAnswers ==
    ASSUME IInv, NEW s \in Sockets, NEW type, Takes(s, type),
           type \notin TabForms \/ ~sock[s].auth,
           \/ sock' = Taken(s) \/ sock' = Rejected(Taken(s), s)
           \/ sock' = BrokerCloses(Taken(s), s)
           \/ \E m \in DownMessages(Len(asked)) : sock' = Down(Taken(s), s, m)
    PROVE  \A r \in Sockets : Still(sock[r], sock'[r])
<1> DEFINE n == Len(asked)
           k == Taken(s)
<1>1. n \in Nat /\ Good(sock, n) /\ Good(k, n)
  BY Asked, TakenIsGood DEF IInv
<1>2. \A r \in Sockets : Still(sock[r], k[r])
  BY <1>1, StillTaken
<1> HIDE DEF k, n
<1>3. ASSUME NEW r \in Sockets PROVE Still(k[r], sock'[r])
  <2>1. CASE sock' = k
    BY <2>1, StillSame
  <2>2. CASE sock' = Rejected(k, s)
    BY <1>1, <2>2, StillRejected
  <2>3. CASE sock' = BrokerCloses(k, s)
    BY <1>1, <2>3, StillBrokerCloses
  <2>4. CASE \E m \in DownMessages(n) : sock' = Down(k, s, m)
    BY <1>1, <2>4, StillDown
  <2>5. QED
    BY <2>1, <2>2, <2>3, <2>4 DEF k, n
<1>4. QED
  BY <1>2, <1>3, StillTwice

\* A new connection is no live one before the extension has heard of it.
LEMMA ListedAuthenticate ==
    ASSUME IInv, Listed, NEW s \in Sockets, Authenticate(s)
    PROVE  Listed'
<1> DEFINE n == Len(asked)
           taken == Taken(s)
           replaced == Replaced(taken)
           known == [replaced EXCEPT ![s].auth = TRUE]
           m == Message("authenticated", None, broker.gen + 1)
<1>1. UNCHANGED ext /\ Takes(s, "authenticate")
  BY DEF Authenticate
<1>2. CASE UNCHANGED broker /\ sock' = Rejected(taken, s)
  <2>1. \A r \in Sockets : Still(sock[r], sock'[r])
    BY <1>1, <1>2, StillAnswers DEF TabForms
  <2>2. QED
    BY <1>1, <1>2, <2>1, ListedKeeps
<1>3. CASE /\ broker' = [broker EXCEPT !.socket = s, !.gen = @ + 1]
           /\ sock' = Down(known, s, m)
  <2>1. n \in Nat /\ Good(sock, n) /\ Good(taken, n) /\ broker.socket \in Sockets \cup {None}
    BY <1>1, Asked, TakenIsGood DEF IInv, BrokerTyped
  <2>2. \A r \in Sockets : Still(sock[r], taken[r])
    BY <1>1, <2>1, StillTaken DEF TabForms
  <2> HIDE DEF taken
  <2>3. \A r \in Sockets : Still(taken[r], replaced[r])
    BY <2>1, StillBrokerCloses DEF Replaced
  <2>4. Good(replaced, n)
    BY <2>1, BrokerClosesIsGood DEF Replaced
  <2> HIDE DEF replaced
  <2>5. s # None /\ replaced \in [Sockets -> Socket(n)]
    BY <2>4, NoneIsNoSocket DEF Good
  <2>6. \A r \in Sockets : r # s => known[r] = replaced[r]
    BY <2>5
  <2>7. /\ known[s] = [replaced[s] EXCEPT !.auth = TRUE]
        /\ known[s].e = replaced[s].e /\ known[s].b = replaced[s].b
        /\ known[s].up = replaced[s].up /\ known[s].down = replaced[s].down
        /\ known \in [Sockets -> Socket(n)]
    BY <2>5 DEF Socket
  <2> HIDE DEF known
  <2>8. ASSUME NEW r \in Sockets, r # s PROVE sock'[r] = known[r]
    BY <1>3, <2>7, <2>8 DEF Down
  <2>9. /\ sock'[s].up = replaced[s].up
        /\ ~Live(sock'[s])
    <3>1. CASE known[s].e = "open" /\ known[s].b = "open"
      <4>1. sock'[s] = [known[s] EXCEPT !.down = Append(@, m)]
        BY <1>3, <2>5, <2>7, <3>1 DEF Down
      <4>2. sock'[s].down = Append(replaced[s].down, m) /\ sock'[s].up = replaced[s].up
        BY <2>5, <2>7, <4>1 DEF Socket
      <4>3. m \in DownMessages(n) /\ m.type = "authenticated" /\ m.arg = None
        BY DEF IInv, BrokerTyped, Message, None, Types, Messages, DownMessages
      <4>4. Carried(sock'[s].down, "authenticated") # {}
        <5> HIDE DEF m
        <5>1. replaced[s].down \in Seq(DownMessages(n))
          BY <2>5 DEF Socket
        <5>2. Carried(sock'[s].down, "authenticated")
                = Carried(replaced[s].down, "authenticated") \cup Only(m, "authenticated")
          BY <4>2, <4>3, <5>1, CarriedAppend
        <5>3. QED
          BY <4>3, <5>2 DEF Only
      <4>5. QED
        BY <4>2, <4>4 DEF Live
    <3>2. CASE ~(known[s].e = "open" /\ known[s].b = "open")
      <4>1. sock'[s] = known[s]
        BY <1>3, <3>2 DEF Down
      <4>2. QED
        BY <2>7, <3>2, <4>1 DEF Live
    <3>3. QED
      BY <3>1, <3>2
  <2>10. \A r \in Sockets : Still(replaced[r], sock'[r])
    BY <2>6, <2>8, <2>9 DEF Still
  <2>11. \A r \in Sockets : Still(sock[r], sock'[r])
    BY <2>2, <2>3, <2>10, StillTwice
  <2>12. broker'.tabs = broker.tabs
    BY <1>3 DEF IInv, BrokerTyped
  <2>13. QED
    BY <1>1, <2>11, <2>12, ListedKeeps
<1>4. QED
  BY <1>2, <1>3 DEF Authenticate, Refuse

\* Other messages that share and unshare no tab.
LEMMA ListedMessages ==
    ASSUME IInv, Listed, NEW s \in Sockets,
           RequestPairing(s) \/ Unpair(s) \/ Snapshot(s) \/ Result(s) \/ HeartbeatTaken(s)
    PROVE  Listed'
<1>1. UNCHANGED ext
  BY DEF RequestPairing, Unpair, Snapshot, Result, HeartbeatTaken
<1>2. PICK type \in Types : Takes(s, type) /\ type \notin TabForms
  BY DEF RequestPairing, Unpair, Snapshot, Result, HeartbeatTaken, Types, TabForms
<1>3. Message("paired", broker.key, 0) \in DownMessages(Len(asked))
  BY DEF IInv, BrokerTyped, Message, Types, Messages, DownMessages
<1>4. \/ sock' = Taken(s) \/ sock' = Rejected(Taken(s), s)
      \/ sock' = BrokerCloses(Taken(s), s)
      \/ sock' = Down(Taken(s), s, Message("paired", broker.key, 0))
  BY DEF RequestPairing, Unpair, Snapshot, Result, HeartbeatTaken, Refuse
<1>5. \A r \in Sockets : Still(sock[r], sock'[r])
  BY <1>2, <1>3, <1>4, StillAnswers
<1>6. broker'.tabs = broker.tabs
  BY DEF RequestPairing, Unpair, Snapshot, Result, HeartbeatTaken, Refuse, Undispatched,
         IInv, BrokerTyped
<1>7. QED
  BY <1>1, <1>5, <1>6, ListedKeeps

\* A message that is refused leaves no live connection.
LEMMA StillRefused ==
    ASSUME IInv, NEW s \in Sockets, NEW type, Takes(s, type), sock' = Rejected(Taken(s), s)
    PROVE  \A r \in Sockets : Still(sock[r], sock'[r])
<1> DEFINE n == Len(asked)
           k == Taken(s)
           j == Down(k, s, Plain("error"))
<1>1. n \in Nat /\ Good(sock, n) /\ Good(k, n)
  BY Asked, TakenIsGood DEF IInv
<1>2. Carried(k[s].up, "tab_unshared") \subseteq Carried(sock[s].up, "tab_unshared")
  <2>1. sock[s].up \in Seq(UpMessages) /\ sock[s].up # <<>>
    BY <1>1 DEF Good, Socket, Takes
  <2>2. QED
    BY <1>1, <2>1, CarriedTail, TakenIs
<1>3. \A r \in Sockets \ {s} : k[r] = sock[r]
  BY <1>1 DEF Good, Taken
<1> HIDE DEF k, n
<1>4. Good(j, n)
  BY <1>1, PlainMessages, DownIsGood
<1>5. \A r \in Sockets : Still(k[r], sock'[r])
  BY <1>1, StillRejected DEF k
<1>6. sock'[s].b # "open"
  <2> HIDE DEF j
  <2>1. BrokerCloses(j, s)[s].b # "open"
    BY <1>4, BrokerClosesIsGood, NoneIsNoSocket, <1>1
  <2>2. sock' = BrokerCloses(j, s)
    BY DEF Rejected, j, k
  <2>3. QED
    BY <2>1, <2>2
<1>7. QED
  BY <1>2, <1>3, <1>5, <1>6 DEF Still, Live

\* A tab that is shared goes from the queue to the list, or costs the connection.
LEMMA ListedShares ==
    ASSUME IInv, Listed, NEW s \in Sockets, TabShared(s)
    PROVE  Listed'
<1> DEFINE n == Len(asked)
           m == Head(sock[s].up)
<1>1. UNCHANGED ext /\ Takes(s, m.type)
  BY DEF TabShared, Takes
<1>2. CASE ~(sock[s].auth /\ ValidSharedTab(m))
  <2>1. sock' = Rejected(Taken(s), s) /\ broker' = broker
    BY <1>2 DEF TabShared, Refuse
  <2>2. \A r \in Sockets : Still(sock[r], sock'[r])
    BY <1>1, <2>1, StillRefused
  <2>3. QED
    BY <1>1, <2>1, <2>2, ListedKeeps
<1>3. CASE sock[s].auth /\ ValidSharedTab(m)
  <2>1. /\ n \in Nat /\ Good(sock, n)
        /\ sock' = Taken(s) /\ broker' = [broker EXCEPT !.tabs = @ \cup {Arg(s)}]
    BY <1>3, Asked DEF TabShared, IInv
  <2>2. broker'.tabs = broker.tabs \cup {Arg(s)}
    BY <2>1 DEF IInv, BrokerTyped
  <2>3. ASSUME NEW r \in Sockets
        PROVE  /\ Carried(sock'[r].up, "tab_unshared") \subseteq Carried(sock[r].up, "tab_unshared")
               /\ Live(sock'[r]) <=> Live(sock[r])
               /\ Shares(sock[r].up) \subseteq Shares(sock'[r].up) \cup {Arg(s)}
    <3>1. sock[s].up \in Seq(UpMessages) /\ sock[s].up # <<>>
      BY <1>1, <2>1 DEF Good, Socket, Takes
    <3>2. \A type : Carried(sock[s].up, type) = Carried(Tail(sock[s].up), type) \cup Only(m, type)
      BY <3>1, CarriedTail
    <3>3. \A type : Only(m, type) \subseteq {Arg(s)}
      BY DEF Only, Arg
    <3>4. QED
      BY <2>1, <3>2, <3>3, TakenIs DEF Live, Shares
  <2>4. QED
    BY <1>1, <2>2, <2>3 DEF Listed
<1>4. QED
  BY <1>2, <1>3

\* A tab that is unshared is not one that is shared.
LEMMA ListedUnshares ==
    ASSUME IInv, Listed, NEW s \in Sockets, TabUnshared(s)
    PROVE  Listed'
<1>1. UNCHANGED ext /\ Takes(s, "tab_unshared")
  BY DEF TabUnshared
<1>2. \A r \in Sockets : Still(sock[r], sock'[r])
  BY <1>1, StillAnswers DEF TabUnshared, Refuse, TabForms
<1>3. Arg(s) \notin ext.tabs
  <2>1. sock[s].up \in Seq(UpMessages) /\ sock[s].up # <<>>
    BY <1>1 DEF IInv, Good, Socket, Takes
  <2>2. Only(Head(sock[s].up), "tab_unshared") \subseteq Carried(sock[s].up, "tab_unshared")
    BY <2>1, CarriedTail
  <2>3. Arg(s) \in Only(Head(sock[s].up), "tab_unshared")
    BY <1>1 DEF Only, Takes, Arg
  <2>4. QED
    BY <2>2, <2>3 DEF Listed
<1>4. broker'.tabs = broker.tabs \/ broker'.tabs = broker.tabs \ {Arg(s)}
  BY DEF TabUnshared, Refuse, WithoutTab, IInv, BrokerTyped
<1>5. QED
  BY <1>1, <1>2, <1>3, <1>4, ListedKeeps

\* The list is cleared with the only connection there is.
LEMMA ListedCloses ==
    ASSUME IInv, Listed, (\E s \in Sockets : SocketClosed(s)) \/ Revoke \/ BrokerRestart
    PROVE  Listed'
<1> DEFINE n == Len(asked)
<1>1. /\ UNCHANGED ext /\ n \in Nat /\ Good(sock, n) /\ Single(sock, broker.socket)
      /\ broker.socket \in Sockets \cup {None}
  BY Asked DEF SocketClosed, Revoke, BrokerRestart, IInv, BrokerTyped
<1>2. Carried(Free.up, "tab_unshared") = {} /\ ~Live(Free)
  BY CarriedOne DEF Free, Live
<1>3. CASE \E s \in Sockets : SocketClosed(s)
  <2>1. PICK s \in Sockets : SocketClosed(s)
    BY <1>3
  <2>2. sock'[s] = Free /\ \A r \in Sockets : r # s => sock'[r] = sock[r]
    BY <1>1, <2>1 DEF SocketClosed, Good
  <2>3. \A r \in Sockets : Still(sock[r], sock'[r])
    BY <1>2, <2>2 DEF Still
  <2>4. \A r \in Sockets : Live(sock'[r]) => broker'.tabs = broker.tabs
    <3>1. CASE IsConnection(s)
      BY <1>1, <1>2, <2>2, <3>1 DEF Live, Single, IsConnection
    <3>2. CASE ~IsConnection(s)
      BY <2>1, <3>2 DEF SocketClosed, IInv, BrokerTyped
    <3>3. QED
      BY <3>1, <3>2
  <2>5. QED
    BY <1>1, <2>3, <2>4, ListedKeeps
<1>4. CASE Revoke
  <2>1. sock' = BrokerCloses(sock, broker.socket)
    BY <1>4 DEF Revoke
  <2>2. \A r \in Sockets : Still(sock[r], sock'[r])
    BY <1>1, <2>1, StillBrokerCloses
  <2>3. \A r \in Sockets : ~Live(sock'[r])
    BY <1>1, <2>1, BrokerClosesIs DEF Single, Live
  <2>4. QED
    BY <1>1, <2>2, <2>3, ListedKeeps
<1>5. CASE BrokerRestart
  <2>1. ASSUME NEW r \in Sockets PROVE ~Live(sock'[r]) /\ Still(sock[r], sock'[r])
    <3>1. CASE sock[r].e = "gone"
      BY <1>2, <1>5, <3>1 DEF BrokerRestart, Still
    <3>2. CASE sock[r].e = "open"
      <4> DEFINE l == BrokerCloses(sock, r)
      <4>1. l[r] \in Socket(n)
        BY <1>1, BrokerClosesIsGood DEF Good
      <4>2. sock'[r] = [l[r] EXCEPT !.b = "dead", !.auth = FALSE, !.up = <<>>]
        BY <1>5, <3>2 DEF BrokerRestart
      <4> HIDE DEF l
      <4>3. sock'[r].auth = FALSE /\ sock'[r].up = <<>>
        BY <4>1, <4>2 DEF Socket
      <4>4. Carried(<<>>, "tab_unshared") = {}
        BY CarriedOne
      <4>5. QED
        BY <4>3, <4>4 DEF Live, Still
    <3>3. CASE sock[r].e \notin {"gone", "open"}
      <4>1. sock'[r] = sock[r]
        BY <1>5, <3>3 DEF BrokerRestart
      <4>2. QED
        BY <3>3, <4>1 DEF Live, Still
    <3>4. QED
      BY <3>1, <3>2, <3>3
  <2>2. QED
    BY <1>1, <2>1, ListedKeeps
<1>6. QED
  BY <1>3, <1>4, <1>5

\* What the broker does by itself, for the agent and for the WebUI.
LEMMA ListedBrokerOwn ==
    ASSUME IInv, Listed,
           \/ \E s \in Sockets : PairingExpires(s) \/ PairingDecisionArrives(s)
           \/ AllowPairing \/ DenyPairing
           \/ \E t \in Tabs : Ask(t) \/ RequestSnapshot(t) \/ SnapshotExpires(t)
           \/ \E c \in Ids : \/ ApprovalExpires(c) \/ CommandExpires(c)
                             \/ DecisionArrives(c) \/ Decide(c)
    PROVE  Listed'
<1> DEFINE n == Len(asked)
<1>1. n \in Nat /\ Good(sock, n) /\ UNCHANGED ext
  BY Asked DEF PairingExpires, PairingDecisionArrives, AllowPairing, DenyPairing, Ask,
               RequestSnapshot, SnapshotExpires, ApprovalExpires, CommandExpires,
               DecisionArrives, Decide, IInv
<1>2. broker'.tabs = broker.tabs
  BY DEF PairingExpires, PairingDecisionArrives, AllowPairing, DenyPairing, Ask,
         RequestSnapshot, SnapshotExpires, ApprovalExpires, CommandExpires,
         DecisionArrives, Decide, Dispatched, Undispatched, IInv, BrokerTyped
<1>3. \/ sock' = sock
      \/ \E s \in Sockets \cup {None} : sock' = Rejected(sock, s) \/ sock' = BrokerCloses(sock, s)
      \/ \E s \in Sockets \cup {None}, m \in DownMessages(n) : sock' = Down(sock, s, m)
  <2>1. broker.socket \in Sockets \cup {None} /\ decisions.pairing.socket \in Sockets \cup {None}
    BY DEF IInv, BrokerTyped, DecisionsTyped
  <2>2. CASE AllowPairing
    <3>1. Message("paired", broker.lastKey + 1, 0) \in DownMessages(n)
      BY DEF IInv, BrokerTyped, Message, Types, Messages, DownMessages
    <3>2. QED
      BY <2>1, <2>2, <3>1 DEF AllowPairing
  <2>3. CASE \E t \in Tabs : RequestSnapshot(t)
    <3>1. \A t \in Tabs : Message("snapshot_request", t, 0) \in DownMessages(n)
      BY DEF Message, Types, Messages, DownMessages
    <3>2. QED
      BY <2>1, <2>3, <3>1 DEF RequestSnapshot
  <2>4. CASE \E c \in Ids : Decide(c)
    <3>1. PICK c \in Ids : Decide(c)
      BY <2>4
    <3>2. c \in 1..n /\ broker.gen \in Nat
      BY <3>1, Asked DEF Decide, IInv, DecisionsTyped, BrokerTyped
    <3>3. Message("command", c, broker.gen) \in DownMessages(n)
      BY <3>2 DEF Message, Types, Messages, DownMessages
    <3>4. QED
      BY <2>1, <3>1, <3>3 DEF Decide
  <2>5. CASE DenyPairing \/ \E s \in Sockets : PairingExpires(s)
    BY <2>1, <2>5 DEF DenyPairing, PairingExpires
  <2>6. CASE \/ \E s \in Sockets : PairingDecisionArrives(s)
             \/ \E t \in Tabs : Ask(t) \/ SnapshotExpires(t)
             \/ \E c \in Ids : ApprovalExpires(c) \/ CommandExpires(c) \/ DecisionArrives(c)
    BY <2>6 DEF PairingDecisionArrives, Ask, SnapshotExpires, ApprovalExpires,
                CommandExpires, DecisionArrives
  <2>7. QED
    BY <2>2, <2>3, <2>4, <2>5, <2>6
<1>4. \A r \in Sockets : Still(sock[r], sock'[r])
  BY <1>1, <1>3, StillSame, StillRejected, StillBrokerCloses, StillDown
<1>5. QED
  BY <1>1, <1>2, <1>4, ListedKeeps

\* Every step of the broker keeps the list.
LEMMA ListedBroker == IInv /\ Listed /\ BrokerStep => Listed'
  BY ListedAuthenticate, ListedMessages, ListedShares, ListedUnshares, ListedCloses,
     ListedBrokerOwn DEF BrokerStep, BrokerTakes

\* The extension's end goes: nothing is live, and nothing is unshared anew.
LEMMA ClosesAll ==
    ASSUME NEW k, NEW n \in Nat, Good(k, n), Linked(k, ext.socket),
           ext.socket \in Sockets \cup {None}
    PROVE  \A r \in Sockets : /\ Still(k[r], ExtCloses(k, ext.socket)[r])
                              /\ ~Live(ExtCloses(k, ext.socket)[r])
  BY StillExtCloses, ExtClosesIs DEF Linked, Live

\* A connect: a socket that is opening is not live, and neither is any other.
LEMMA ListedOpens ==
    ASSUME IInv, Listed, NEW x, Open(x), WorkerTyped(x), x.tabs = ext.tabs, x.fresh = ext.fresh
    PROVE  Listed'
<1> DEFINE n == Len(asked)
           k == Cleared(sock)
<1>1. /\ n \in Nat /\ Good(sock, n) /\ Linked(sock, ext.socket)
      /\ ext.socket \in Sockets \cup {None}
  BY Asked DEF IInv, ExtTyped, WorkerTyped
<1>2. Good(k, n) /\ \A r \in Sockets : Still(sock[r], k[r]) /\ ~Live(k[r])
  BY <1>1, ClosesAll, ExtClosesIsGood DEF Cleared
<1> HIDE DEF k
<1>3. ext'.tabs = ext.tabs /\ ext'.fresh = ext.fresh
  BY DEF Open, Armed, WorkerTyped, Fields
<1>4. ASSUME NEW r \in Sockets PROVE Still(sock[r], sock'[r]) /\ ~Live(sock'[r])
  <2>1. CASE sock' = k
    BY <1>2, <2>1
  <2>2. CASE \E s \in Sockets : sock' = [k EXCEPT ![s].e = "connecting"]
    <3>1. PICK s \in Sockets : sock' = [k EXCEPT ![s].e = "connecting"]
      BY <2>2
    <3>2. sock'[r] = IF r = s THEN [k[r] EXCEPT !.e = "connecting"] ELSE k[r]
      BY <1>2, <3>1 DEF Good
    <3>3. CASE r = s
      <4>1. sock'[r].e = "connecting" /\ sock'[r].up = k[r].up
        BY <1>2, <3>2, <3>3 DEF Good, Socket
      <4>2. QED
        BY <1>2, <4>1 DEF Live, Still
    <3>4. QED
      BY <1>2, <3>2, <3>3
  <2>3. QED
    BY <2>1, <2>2 DEF Open, k
<1>5. QED
  BY <1>3, <1>4, ListedKeeps

\* Timers and connections.
LEMMA ListedConnects ==
    ASSUME IInv, Listed,
           \/ TimerFires \/ SetBrokerUrl \/ ConnectGoesOn \/ WorkerRestart
           \/ \E s \in Sockets : Opened(s) \/ ConnectFails(s) \/ OnError(s) \/ OnClose(s)
    PROVE  Listed'
<1> DEFINE n == Len(asked)
<1>1. /\ n \in Nat /\ Good(sock, n) /\ Linked(sock, ext.socket)
      /\ ext.socket \in Sockets \cup {None} /\ WorkerTyped(ext)
  BY Asked DEF IInv, ExtTyped, WorkerTyped
<1>2. CASE TimerFires \/ SetBrokerUrl
  <2>1. /\ UNCHANGED <<sock, broker>> /\ ext'.tabs = ext.tabs /\ ext'.fresh = ext.fresh
        /\ ext'.announcing = ext.announcing
    BY <1>1, <1>2 DEF TimerFires, SetBrokerUrl, WorkerTyped, Fields
  <2>2. QED
    BY <2>1, StillSame, ListedKeeps
<1>3. CASE ConnectGoesOn
  <2> DEFINE x == [ext EXCEPT !.retrying = @ - 1]
             y == [ext EXCEPT !.replacing = @ - 1]
  <2>1. /\ WorkerTyped(x) /\ x.tabs = ext.tabs /\ x.fresh = ext.fresh
        /\ WorkerTyped(y) /\ y.tabs = ext.tabs /\ y.fresh = ext.fresh
        /\ x.announcing = ext.announcing
    BY <1>1 DEF WorkerTyped, Fields
  <2>2. CASE ext' = x /\ UNCHANGED sock
    <3>1. UNCHANGED broker
      BY <1>3 DEF ConnectGoesOn
    <3>2. QED
      BY <2>1, <2>2, <3>1, StillSame, ListedKeeps
  <2>3. CASE Open(x)
    BY <2>1, <2>3, ListedOpens
  <2>4. CASE Open(y)
    BY <2>1, <2>4, ListedOpens
  <2>5. QED
    BY <1>3, <2>2, <2>3, <2>4 DEF ConnectGoesOn
<1>4. CASE WorkerRestart
  <2>1. PICK gone \in SUBSET ext.tabs :
          ext' = [ext EXCEPT !.socket = None, !.gen = 0, !.handled = {}, !.running = {},
                           !.snapping = {}, !.announcing = 0, !.armed = FALSE,
                           !.retrying = 1, !.replacing = 0, !.stale = @ \cup gone]
    BY <1>4 DEF WorkerRestart
  <2>2. ext'.tabs = ext.tabs /\ ext'.fresh = ext.fresh
    BY <1>1, <2>1 DEF WorkerTyped, Fields
  <2>3. sock' = ExtCloses(sock, ext.socket)
    BY <1>4 DEF WorkerRestart
  <2>4. QED
    BY <1>1, <2>2, <2>3, ClosesAll, ListedKeeps
<1>5. CASE \E s \in Sockets : Opened(s)
  <2>1. PICK s \in Sockets : Opened(s)
    BY <1>5
  <2> DEFINE hello == IF ext.key # None THEN Message("authenticate", ext.key, 0)
                      ELSE Plain("request_pairing")
  <2>2. Only(hello, "tab_unshared") = {}
    BY DEF Only, Message, Plain
  <2> HIDE DEF hello
  <2>3. UNCHANGED <<ext, broker>> /\ sock[s].e = "connecting"
        /\ sock' = [sock EXCEPT ![s].e = "open", ![s].b = "open", ![s].up = <<hello>>]
    BY <2>1 DEF Opened, hello
  <2>4. sock[s].auth = FALSE /\ sock[s] \in Socket(n)
    BY <1>1, <2>3 DEF Good, Socket
  <2>5. sock'[s] = [sock[s] EXCEPT !.e = "open", !.b = "open", !.up = <<hello>>]
    BY <1>1, <2>3 DEF Good
  <2>6. sock'[s].auth = FALSE /\ sock'[s].up = <<hello>>
    BY <2>4, <2>5 DEF Socket
  <2>7. Still(sock[s], sock'[s])
    <3>1. Carried(<<hello>>, "tab_unshared") = {}
      BY <2>2, CarriedOne
    <3>2. QED
      BY <2>6, <3>1 DEF Still, Live
  <2>8. \A r \in Sockets \ {s} : sock'[r] = sock[r]
    BY <1>1, <2>3 DEF Good
  <2>9. QED
    BY <2>3, <2>7, <2>8, StillSame, ListedKeeps
<1>6. CASE \E s \in Sockets : ConnectFails(s) \/ OnError(s) \/ OnClose(s)
  <2>1. PICK s \in Sockets : ConnectFails(s) \/ OnError(s) \/ OnClose(s)
    BY <1>6
  <2>2. s # None /\ ext.socket = s
    BY <1>1, <2>1, NoneIsNoSocket DEF ConnectFails, OnError, OnClose, Hears, Linked
  <2>3. sock' = ExtCloses(sock, ext.socket)
    BY <2>1, <2>2 DEF ConnectFails, OnError, OnClose, ExtCloses
  <2>4. ext'.tabs = ext.tabs /\ ext'.fresh = ext.fresh
    BY <1>1, <2>1 DEF ConnectFails, OnError, OnClose, Forgot, Armed, WorkerTyped, Fields
  <2>5. QED
    BY <1>1, <2>3, <2>4, ClosesAll, ListedKeeps
<1>7. QED
  BY <1>2, <1>3, <1>4, <1>5, <1>6

\* What the extension hears: the news of a connection is followed by an announcement.
LEMMA ListedHears ==
    ASSUME IInv, ext.announcing \in Nat, Listed, NEW s \in Sockets,
           OnAuthenticated(s) \/ OnPaired(s) \/ OnSnapshotRequest(s) \/ OnCommand(s)
    PROVE  Listed'
<1> DEFINE n == Len(asked)
           k == Heard(s)
<1>1. n \in Nat /\ Good(sock, n) /\ UNCHANGED broker /\ WorkerTyped(ext)
  BY Asked DEF IInv, ExtTyped, OnAuthenticated, OnPaired, OnSnapshotRequest, OnCommand
<1>2. CASE OnAuthenticated(s)
  <2>1. /\ ext'.tabs = ext.tabs /\ ext'.fresh = ext.fresh
        /\ ext'.announcing = ext.announcing + 1 /\ sock' = k
    BY <1>1, <1>2 DEF OnAuthenticated, WorkerTyped, Fields
  <2>2. \A r \in Sockets : sock'[r].up = sock[r].up
    BY <1>1, <2>1, HeardIs
  <2>3. QED
    BY <2>1, <2>2 DEF Listed
<1>3. CASE OnPaired(s) \/ OnSnapshotRequest(s) \/ OnCommand(s)
  <2>1. PICK type : Hears(s, type) /\ type # "authenticated"
    BY <1>3 DEF OnPaired, OnSnapshotRequest, OnCommand
  <2>2. \A r \in Sockets : Still(sock[r], k[r])
    BY <1>1, <2>1, StillHeard
  <2>3. Good(k, n) /\ Head(sock[s].down) \in DownMessages(n)
    BY <1>1, <2>1, HeardIsGood
  <2> HIDE DEF k
  <2>4. \A r \in Sockets : Still(k[r], sock'[r])
    <3>1. CASE OnPaired(s)
      <4>1. News(s) \in Nat /\ sock' = Up(k, <<Message("authenticate", News(s), 0)>>)
        BY <2>3, <3>1 DEF OnPaired, Hears, News, DownMessages, k
      <4>2. <<Message("authenticate", News(s), 0)>> \in Seq(LiveMessages)
        BY <4>1, OneMessage DEF Types
      <4>3. Carried(<<Message("authenticate", News(s), 0)>>, "tab_unshared") = {}
        <5>1. Only(Message("authenticate", News(s), 0), "tab_unshared") = {}
          BY DEF Only, Message
        <5>2. QED
          BY <5>1, CarriedOne
      <4>4. QED
        BY <1>1, <2>3, <4>1, <4>2, <4>3, StillUp
    <3>2. CASE OnSnapshotRequest(s) \/ OnCommand(s)
      BY <3>2, StillSame DEF OnSnapshotRequest, OnCommand, k
    <3>3. QED
      BY <1>3, <3>1, <3>2
  <2>5. \A r \in Sockets : Still(sock[r], sock'[r])
    BY <2>2, <2>4, StillTwice
  <2>6. /\ ext'.tabs = ext.tabs /\ ext'.fresh = ext.fresh
        /\ ext'.announcing = ext.announcing
    BY <1>1, <1>3 DEF OnPaired, OnSnapshotRequest, OnCommand, WorkerTyped, Fields
  <2>7. QED
    BY <1>1, <2>5, <2>6, ListedKeeps
<1>4. QED
  BY <1>2, <1>3

\* A result, a snapshot or a heartbeat.
LEMMA ListedReports ==
    ASSUME IInv, Listed,
           \/ Heartbeat \/ \E t \in Tabs : CollectSnapshot(t)
           \/ \E c \in Ids : CommandDone(c)
    PROVE  Listed'
<1>1. Len(asked) \in Nat /\ Good(sock, Len(asked)) /\ UNCHANGED broker
  BY Asked DEF IInv, Heartbeat, CollectSnapshot, CommandDone
<1>2. /\ ext'.tabs = ext.tabs /\ ext'.fresh = ext.fresh /\ ext'.announcing = ext.announcing
  BY DEF Heartbeat, CollectSnapshot, CommandDone, IInv, ExtTyped, WorkerTyped, Fields
<1>3. ASSUME NEW m \in LiveMessages, m.type # "tab_unshared", sock' = Up(sock, <<m>>)
      PROVE  \A r \in Sockets : Still(sock[r], sock'[r])
  <2> DEFINE ms == <<m>>
  <2>1. ms \in Seq(LiveMessages)
    BY <1>3
  <2>2. Carried(ms, "tab_unshared") = {}
    BY <1>3, CarriedOne DEF Only
  <2> HIDE DEF ms
  <2>3. sock' = Up(sock, ms)
    BY <1>3 DEF ms
  <2>4. QED
    BY <1>1, <2>1, <2>2, <2>3, StillUp
<1>4. \A r \in Sockets : Still(sock[r], sock'[r])
  <2>1. CASE Heartbeat
    <3>1. Plain("heartbeat") \in LiveMessages
      BY <1>1, PlainMessages
    <3>2. Plain("heartbeat").type # "tab_unshared"
      BY DEF Plain, Message
    <3>3. QED
      BY <1>3, <2>1, <3>1, <3>2 DEF Heartbeat
  <2>2. CASE \E t \in Tabs : CollectSnapshot(t)
    <3>1. PICK t \in Tabs : CollectSnapshot(t)
      BY <2>2
    <3>2. Message("snapshot", t, 0) \in LiveMessages
      BY DEF Message, Types, Messages, UpMessages, LiveMessages
    <3>3. Message("snapshot", t, 0).type # "tab_unshared"
      BY DEF Message
    <3>4. QED
      BY <1>3, <3>1, <3>2, <3>3, StillSame DEF CollectSnapshot
  <2>3. CASE \E c \in Ids : CommandDone(c)
    <3>1. PICK c \in Ids : CommandDone(c)
      BY <2>3
    <3>2. Message("result", c, ext.gen) \in LiveMessages
      BY DEF Message, Types, Messages, UpMessages, LiveMessages, Ids,
             IInv, ExtTyped, WorkerTyped
    <3>3. Message("result", c, ext.gen).type # "tab_unshared"
      BY DEF Message
    <3>4. QED
      BY <1>3, <3>1, <3>2, <3>3 DEF CommandDone
  <2>4. QED
    BY <2>1, <2>2, <2>3
<1>5. QED
  BY <1>1, <1>2, <1>4, ListedKeeps

\* The tabs that are gone are unshared for good, the others are announced.
LEMMA ListedAnnounces ==
    ASSUME IInv, Listed, Announce
    PROVE  Listed'
<1> DEFINE kept == ext.tabs \ ext.stale
           ms == ForEach(ext.stale, "tab_unshared") \o ForEach(kept, "tab_entry")
<1>1. /\ Len(asked) \in Nat /\ Good(sock, Len(asked)) /\ UNCHANGED broker
      /\ WorkerTyped(ext) /\ Linked(sock, ext.socket) /\ sock' = Up(sock, ms)
  BY Asked DEF IInv, ExtTyped, Announce
<1>2. /\ ext'.tabs = kept /\ ext'.fresh = ext.fresh
      /\ ext.stale \subseteq ext.tabs /\ ext.tabs \subseteq Tabs
      /\ ext.tabs \cap ext.fresh = {}
  BY <1>1 DEF Announce, WorkerTyped, Fields
<1> HIDE DEF kept
<1>3. kept \subseteq Tabs /\ ext.stale \subseteq Tabs
  BY <1>2 DEF kept
<1>4. /\ ForEach(ext.stale, "tab_unshared") \in Seq(LiveMessages)
      /\ ForEach(kept, "tab_entry") \in Seq(LiveMessages)
  BY <1>3, ForEachIsGood DEF Types
<1>5. /\ ms \in Seq(LiveMessages)
      /\ \A type : Carried(ms, type) = Carried(ForEach(ext.stale, "tab_unshared"), type)
                                         \cup Carried(ForEach(kept, "tab_entry"), type)
  BY <1>4, ConcatProperties, CarriedConcat
<1>6. /\ Carried(ForEach(ext.stale, "tab_unshared"), "tab_unshared") = ext.stale
      /\ Carried(ForEach(kept, "tab_entry"), "tab_unshared") = {}
      /\ Carried(ForEach(kept, "tab_entry"), "tab_entry") = kept
  BY <1>3, CarriedForEach DEF Types
<1> HIDE DEF ms
<1>7. Carried(ms, "tab_unshared") = ext.stale /\ kept \subseteq Carried(ms, "tab_entry")
  BY <1>5, <1>6
<1>8. ASSUME NEW r \in Sockets
      PROVE  /\ Carried(sock'[r].up, "tab_unshared")
                  \subseteq Carried(sock[r].up, "tab_unshared") \cup ext.stale
             /\ Live(sock'[r]) => kept \subseteq Shares(sock'[r].up)
  BY <1>1, <1>5, <1>7, CarriedUp DEF Shares
<1>9. QED
  BY <1>2, <1>8 DEF Listed, kept

\* A share is announced at once, and so is its end.
LEMMA ListedUser ==
    ASSUME IInv, Listed, NEW t \in Tabs, Share(t) \/ Unshare(t)
    PROVE  Listed'
<1>1. /\ Len(asked) \in Nat /\ Good(sock, Len(asked)) /\ UNCHANGED broker
      /\ WorkerTyped(ext) /\ Linked(sock, ext.socket)
  BY Asked DEF IInv, ExtTyped, Share, Unshare
<1>2. ext.tabs \cap ext.fresh = {}
  BY <1>1 DEF WorkerTyped
<1>3. CASE Share(t)
  <2>1. PICK form \in {"tab_shared", "tab_http"} : sock' = Up(sock, <<Message(form, t, 0)>>)
    BY <1>3 DEF Share
  <2> DEFINE one == <<Message(form, t, 0)>>
  <2>2. one \in Seq(LiveMessages)
    BY OneMessage DEF Types
  <2>3. Carried(one, "tab_unshared") = {} /\ t \in Shares(one)
    <3>1. /\ Only(Message(form, t, 0), "tab_unshared") = {}
          /\ Only(Message(form, t, 0), form) = {t}
      BY DEF Only, Message
    <3>2. Carried(one, "tab_unshared") = {} /\ Carried(one, form) = {t}
      BY <3>1, CarriedOne
    <3>3. QED
      BY <3>2 DEF Shares
  <2> HIDE DEF one
  <2>4. sock' = Up(sock, one)
    BY <2>1 DEF one
  <2>5. /\ ext'.tabs = ext.tabs \cup {t} /\ ext'.fresh = ext.fresh \ {t}
        /\ ext'.announcing = ext.announcing /\ t \in ext.fresh
    BY <1>1, <1>3 DEF Share, WorkerTyped, Fields
  <2>6. ASSUME NEW r \in Sockets
        PROVE  /\ Carried(sock'[r].up, "tab_unshared") \subseteq Carried(sock[r].up, "tab_unshared")
               /\ Live(sock'[r]) => /\ Live(sock[r])
                                    /\ Shares(sock[r].up) \cup {t} \subseteq Shares(sock'[r].up)
    <3>1. /\ Live(sock'[r]) <=> Live(sock[r])
          /\ \A type : Carried(sock'[r].up, type)
                         \subseteq Carried(sock[r].up, type) \cup Carried(one, type)
          /\ \A type : Carried(sock[r].up, type) \subseteq Carried(sock'[r].up, type)
          /\ Live(sock[r]) => \A type : Carried(one, type) \subseteq Carried(sock'[r].up, type)
      BY <1>1, <2>2, <2>4, CarriedUp
    <3>2. Carried(sock'[r].up, "tab_unshared") \subseteq Carried(sock[r].up, "tab_unshared")
      BY <2>3, <3>1
    <3>3. QED
      BY <2>3, <3>1, <3>2 DEF Shares
  <2>7. QED
    BY <1>1, <2>5, <2>6 DEF Listed
<1>4. CASE Unshare(t)
  <2> DEFINE one == <<Message("tab_unshared", t, 0)>>
  <2>1. one \in Seq(LiveMessages)
    BY OneMessage DEF Types
  <2>2. Carried(one, "tab_unshared") = {t}
    <3>1. Only(Message("tab_unshared", t, 0), "tab_unshared") = {t}
      BY DEF Only, Message
    <3>2. QED
      BY <3>1, CarriedOne
  <2>3. sock' = Up(sock, one)
    BY <1>4 DEF Unshare
  <2> HIDE DEF one
  <2>4. /\ ext'.tabs = ext.tabs \ {t} /\ ext'.fresh = ext.fresh
        /\ ext'.announcing = ext.announcing /\ t \in ext.tabs
    BY <1>1, <1>4 DEF Unshare, WorkerTyped, Fields
  <2>5. ASSUME NEW r \in Sockets
        PROVE  /\ Carried(sock'[r].up, "tab_unshared")
                    \subseteq Carried(sock[r].up, "tab_unshared") \cup {t}
               /\ Live(sock'[r]) => /\ Live(sock[r])
                                    /\ Shares(sock[r].up) \subseteq Shares(sock'[r].up)
    BY <1>1, <2>1, <2>2, <2>3, CarriedUp DEF Shares
  <2>6. QED
    BY <1>1, <1>2, <2>4, <2>5 DEF Listed
<1>5. QED
  BY <1>3, <1>4

\* The user's revocation unshares every tab and leaves none.
LEMMA ListedRevokes ==
    ASSUME IInv, Listed, ExtRevoke
    PROVE  Listed'
<1> DEFINE ms == ForEach(ext.tabs, "tab_unshared") \o <<Plain("unpair")>>
           k == Up(sock, ms)
<1>1. /\ Len(asked) \in Nat /\ Good(sock, Len(asked)) /\ WorkerTyped(ext)
      /\ Linked(sock, ext.socket) /\ sock' = ExtCloses(k, ext.socket)
  BY Asked DEF IInv, ExtTyped, ExtRevoke
<1>2. /\ ext'.tabs = {} /\ ext'.fresh = ext.fresh /\ ext.tabs \subseteq Tabs
      /\ ext.tabs \cap ext.fresh = {} /\ ext.socket \in Sockets \cup {None}
  BY <1>1 DEF ExtRevoke, WorkerTyped, Fields
<1>3. ms \in Seq(LiveMessages) /\ Carried(ms, "tab_unshared") = ext.tabs
  <2> DEFINE unpair == <<Plain("unpair")>>
  <2>1. /\ ForEach(ext.tabs, "tab_unshared") \in Seq(LiveMessages)
        /\ Carried(ForEach(ext.tabs, "tab_unshared"), "tab_unshared") = ext.tabs
    BY <1>2, ForEachIsGood, CarriedForEach DEF Types
  <2>2. unpair \in Seq(LiveMessages)
    BY <1>1, PlainMessages
  <2>3. Carried(unpair, "tab_unshared") = {}
    <3>1. Only(Plain("unpair"), "tab_unshared") = {}
      BY DEF Only, Plain, Message
    <3>2. QED
      BY <3>1, CarriedOne
  <2>4. ms = ForEach(ext.tabs, "tab_unshared") \o unpair
    OBVIOUS
  <2> HIDE DEF unpair, ms
  <2>5. ms \in Seq(LiveMessages)
    BY <2>1, <2>2, <2>4, ConcatProperties
  <2>6. Carried(ms, "tab_unshared") = Carried(ForEach(ext.tabs, "tab_unshared"), "tab_unshared")
                                        \cup Carried(unpair, "tab_unshared")
    BY <2>1, <2>2, <2>4, CarriedConcat
  <2>7. QED
    BY <2>1, <2>3, <2>5, <2>6
<1> HIDE DEF ms
<1>4. /\ Good(k, Len(asked))
      /\ \A r \in Sockets : Carried(k[r].up, "tab_unshared")
                              \subseteq Carried(sock[r].up, "tab_unshared") \cup ext.tabs
  BY <1>1, <1>2, <1>3, UpIsGood, CarriedUp
<1> HIDE DEF k
<1>5. \A r \in Sockets : Carried(sock'[r].up, "tab_unshared")
                           \subseteq Carried(sock[r].up, "tab_unshared") \cup ext.tabs
  BY <1>1, <1>2, <1>4, StillExtCloses DEF Still
<1>6. QED
  BY <1>2, <1>5 DEF Listed

\* Every step of the extension keeps the list.
LEMMA ListedExt == IInv /\ ext.announcing \in Nat /\ Listed /\ ExtStep => Listed'
  BY ListedConnects, ListedHears, ListedReports, ListedAnnounces, ListedUser, ListedRevokes
     DEF ExtStep, ExtHears

\* One step keeps the list.
LEMMA ListedNext == IInv /\ RetryInv /\ Listed /\ [Next]_vars => Listed'
<1> SUFFICES ASSUME IInv, RetryInv, Listed, [Next]_vars PROVE Listed'
  OBVIOUS
<1>1. ext.announcing \in Nat
  BY DEF RetryInv, ExtShape, Counted
<1>2. CASE UNCHANGED vars
  BY <1>2 DEF vars, Listed
<1>3. QED
  BY <1>1, <1>2, ListedBroker, ListedExt DEF Next

\* However connections come and go while tabs are shared, unshared and announced: on a
\* connection that is quiet the broker lists every tab the extension shares.  The tabs it
\* refuses, those announced again among them, are on none, for they cost the connection.
THEOREM SharesAreListed == Spec => []SharedTabsAreListed
<1>1. Listed => SharedTabsAreListed
  <2> SUFFICES ASSUME Listed, NEW s \in Sockets, Quiet(s) PROVE ext.tabs \subseteq broker.tabs
    BY DEF SharedTabsAreListed
  <2>1. \A type : Carried(<<>>, type) = {}
    BY CarriedOne
  <2>2. Live(sock[s]) /\ ext.announcing = 0 /\ Shares(sock[s].up) = {}
    BY <2>1 DEF Quiet, Live, Shares
  <2>3. QED
    BY <2>2 DEF Listed
<1>2. Spec => []RetryInv
  BY RetryInit, RetryNext, PTL DEF Spec
<1>3. Spec => []Listed
  BY <1>2, ListedInit, ListedNext, IInvAlways, PTL DEF Spec
<1>4. QED
  BY <1>1, <1>3, PTL

-----------------------------------------------------------------------------
(* What is carried out once on a connection                                *)

\* The connections of which a queue tells, and the operations it orders.
Announced(q) == {m.gen : m \in {x \in Range(q) : x.type = "authenticated"}}
Orders(q) == {m \in Range(q) : m.type = "command"}

\* A queue tells of one connection at most, and before it orders anything.
Early(q) ==
    \A i, j \in DOMAIN q :
        q[i].type = "authenticated" /\ q[j].type \in {"authenticated", "command"} => i <= j

Other(m) == m.type \notin {"authenticated", "command"}

\* Queue r tells and orders what queue q does.
SameOrders(q, r) ==
    Announced(r) = Announced(q) /\ Orders(r) = Orders(q) /\ (Early(q) => Early(r))

\* A queue with one more message holds it besides those it held.
LEMMA RangeAppend ==
    ASSUME NEW S, NEW q \in Seq(S), NEW m \in S
    PROVE  Range(Append(q, m)) = Range(q) \cup {m}
<1> DEFINE one == <<m>>
<1>1. Append(q, m) = q \o one /\ one \in Seq(S)
  BY AppendIsConcat
<1>2. DOMAIN one = 1..1 /\ one[1] = m
  OBVIOUS
<1> HIDE DEF one
<1>3. Range(one) = {m}
  BY <1>2 DEF Range
<1>4. QED
  BY <1>1, <1>3, RangeConcatenation

\* A message that tells and orders nothing is added.
LEMMA OtherAppended ==
    ASSUME NEW S, NEW q \in Seq(S), NEW m \in S, Other(m)
    PROVE  SameOrders(q, Append(q, m))
<1>1. Range(Append(q, m)) = Range(q) \cup {m}
  BY RangeAppend
<1>2. Announced(Append(q, m)) = Announced(q) /\ Orders(Append(q, m)) = Orders(q)
  BY <1>1 DEF Announced, Orders, Other
<1>3. ASSUME Early(q) PROVE Early(Append(q, m))
  <2>1. /\ DOMAIN q = 1..Len(q) /\ Len(q) \in Nat
        /\ DOMAIN Append(q, m) = 1..(Len(q) + 1) /\ Append(q, m)[Len(q) + 1] = m
        /\ \A i \in 1..Len(q) : Append(q, m)[i] = q[i]
    BY AppendProperties, LenProperties
  <2>2. ASSUME NEW i \in DOMAIN Append(q, m), Append(q, m)[i].type \in {"authenticated", "command"}
        PROVE  i \in DOMAIN q /\ Append(q, m)[i] = q[i]
    BY <2>1, <2>2 DEF Other
  <2>3. QED
    BY <1>3, <2>2 DEF Early
<1>4. QED
  BY <1>2, <1>3 DEF SameOrders

\* An order is added to a queue.
LEMMA OrderAppended ==
    ASSUME NEW S, NEW q \in Seq(S), NEW m \in S, m.type = "command"
    PROVE  /\ Announced(Append(q, m)) = Announced(q)
           /\ Orders(Append(q, m)) = Orders(q) \cup {m}
           /\ Early(q) => Early(Append(q, m))
<1>1. Range(Append(q, m)) = Range(q) \cup {m}
  BY RangeAppend
<1>2. Announced(Append(q, m)) = Announced(q) /\ Orders(Append(q, m)) = Orders(q) \cup {m}
  BY <1>1 DEF Announced, Orders
<1>3. ASSUME Early(q) PROVE Early(Append(q, m))
  <2>1. /\ DOMAIN q = 1..Len(q) /\ Len(q) \in Nat
        /\ DOMAIN Append(q, m) = 1..(Len(q) + 1) /\ Append(q, m)[Len(q) + 1] = m
        /\ \A i \in 1..Len(q) : Append(q, m)[i] = q[i]
    BY AppendProperties, LenProperties
  <2>2. ASSUME NEW i \in DOMAIN Append(q, m), Append(q, m)[i].type = "authenticated"
        PROVE  i \in 1..Len(q) /\ Append(q, m)[i] = q[i]
    BY <2>1, <2>2
  <2>3. ASSUME NEW i \in DOMAIN Append(q, m), NEW j \in DOMAIN Append(q, m),
               Append(q, m)[i].type = "authenticated",
               Append(q, m)[j].type \in {"authenticated", "command"}
        PROVE  i <= j
    <3>1. CASE j \in 1..Len(q)
      BY <1>3, <2>1, <2>2, <2>3, <3>1 DEF Early
    <3>2. CASE j = Len(q) + 1
      BY <2>1, <2>2, <2>3, <3>2
    <3>3. QED
      BY <2>1, <2>3, <3>1, <3>2
  <2>4. QED
    BY <2>3 DEF Early
<1>4. QED
  BY <1>2, <1>3

\* The news of a connection is added to a queue that tells and orders nothing.
LEMMA NewsAppended ==
    ASSUME NEW S, NEW q \in Seq(S), NEW m \in S, m.type = "authenticated",
           Announced(q) = {}, Orders(q) = {}
    PROVE  /\ Announced(Append(q, m)) = {m.gen} /\ Orders(Append(q, m)) = {}
           /\ Early(Append(q, m))
<1>1. Range(Append(q, m)) = Range(q) \cup {m}
  BY RangeAppend
<1>2. Announced(Append(q, m)) = {m.gen} /\ Orders(Append(q, m)) = {}
  BY <1>1 DEF Announced, Orders
<1>3. Early(Append(q, m))
  <2>1. /\ DOMAIN q = 1..Len(q) /\ Len(q) \in Nat
        /\ DOMAIN Append(q, m) = 1..(Len(q) + 1) /\ Append(q, m)[Len(q) + 1] = m
        /\ \A i \in 1..Len(q) : Append(q, m)[i] = q[i]
    BY AppendProperties, LenProperties
  <2>2. \A i \in 1..Len(q) : q[i].type \notin {"authenticated", "command"}
    BY <2>1 DEF Announced, Orders, Range
  <2>3. QED
    BY <2>1, <2>2 DEF Early
<1>4. QED
  BY <1>2, <1>3

\* A message is taken from a queue.
LEMMA OrdersTail ==
    ASSUME NEW S, NEW q \in Seq(S), q # <<>>
    PROVE  /\ Early(q) => Early(Tail(q))
           /\ Other(Head(q)) => SameOrders(q, Tail(q))
           /\ Orders(Tail(q)) \subseteq Orders(q)
           /\ Head(q).type = "command" => Head(q) \in Orders(q)
           /\ Head(q).type = "authenticated" => Head(q).gen \in Announced(q)
           /\ Early(q) /\ Head(q).type = "command" => Announced(q) = {}
           /\ Early(q) /\ Head(q).type = "authenticated" => Announced(Tail(q)) = {}
           /\ Announced(Tail(q)) \subseteq Announced(q)
<1>1. /\ DOMAIN q = 1..Len(q) /\ Len(q) \in Nat \ {0} /\ Head(q) = q[1]
      /\ Tail(q) \in Seq(S) /\ DOMAIN Tail(q) = 1..(Len(q) - 1)
      /\ \A i \in 1..(Len(q) - 1) : Tail(q)[i] = q[i + 1]
  BY HeadTailProperties, EmptySeq, LenProperties
<1>2. Range(q) = Range(Tail(q)) \cup {Head(q)}
  BY RangeTail
<1>3. Early(q) => Early(Tail(q))
  <2>1. SUFFICES ASSUME Early(q), NEW i \in DOMAIN Tail(q), NEW j \in DOMAIN Tail(q),
                        Tail(q)[i].type = "authenticated",
                        Tail(q)[j].type \in {"authenticated", "command"}
                 PROVE  i <= j
    BY DEF Early
  <2>2. i + 1 \in DOMAIN q /\ j + 1 \in DOMAIN q /\ Tail(q)[i] = q[i + 1] /\ Tail(q)[j] = q[j + 1]
    BY <1>1
  <2>3. i + 1 <= j + 1
    BY <2>1, <2>2 DEF Early
  <2>4. QED
    BY <1>1, <2>3
<1>4. Other(Head(q)) => SameOrders(q, Tail(q))
  BY <1>2, <1>3 DEF Other, SameOrders, Announced, Orders
<1>5. /\ Orders(Tail(q)) \subseteq Orders(q) /\ Announced(Tail(q)) \subseteq Announced(q)
      /\ Head(q).type = "command" => Head(q) \in Orders(q)
      /\ Head(q).type = "authenticated" => Head(q).gen \in Announced(q)
  BY <1>2 DEF Announced, Orders
<1>6. ASSUME Early(q), Head(q).type \in {"authenticated", "command"}
      PROVE  Announced(Tail(q)) = {}
  <2>1. ASSUME NEW i \in DOMAIN Tail(q) PROVE Tail(q)[i].type # "authenticated"
    <3>1. i + 1 \in DOMAIN q /\ 1 \in DOMAIN q /\ Tail(q)[i] = q[i + 1] /\ ~(i + 1 <= 1)
      BY <1>1
    <3>2. QED
      BY <1>1, <1>6, <3>1 DEF Early
  <2>2. QED
    BY <2>1 DEF Announced, Range
<1>7. Early(q) /\ Head(q).type = "command" => Announced(q) = {}
  BY <1>2, <1>6 DEF Announced
<1>8. QED
  BY <1>3, <1>4, <1>5, <1>6, <1>7

\* An empty queue tells and orders nothing.
LEMMA NothingOrdered == Announced(<<>>) = {} /\ Orders(<<>>) = {} /\ Early(<<>>)
  BY DEF Announced, Orders, Early, Range

\* The generations an operation was carried out under, and the operations that may be
\* ordered yet.
Under(c) == Range(executed[c])
Waiting == broker.approvals \cup {c \in Ids : decisions.posts[c] > 0}

\* The extension is on connection g when it has heard queue q ...
Meets(q, g) == Announced(q) = {g} \/ (Announced(q) = {} /\ ext.gen = g)

\* ... and knows then whether it carried c out on it.
Safe(q, c, g) == g \in Under(c) => Announced(q) = {} /\ c \in ext.handled

\* What is carried out was asked for, once on a connection; the next connection is a new
\* one to what may be ordered yet.
History ==
    /\ Len(asked) <= MaxCommands
    /\ executed \in [Ids -> Seq(Nat)]
    /\ \A c \in Ids : Under(c) # {} => c \in DOMAIN asked
    /\ ExecutedOncePerConnection
    /\ \A c \in Waiting : \A g \in Under(c) : g <= broker.gen

\* What a socket orders finds the extension on the connection it was ordered on.
Ordered(x) ==
    /\ Early(x.down)
    /\ x.auth => x.b # "dead"
    /\ ~x.auth /\ x.b # "dead" => Announced(x.down) = {} /\ Orders(x.down) = {}
    /\ \A m \in Orders(x.down) :
          /\ Meets(x.down, m.gen) /\ Safe(x.down, m.arg, m.gen)
          /\ m.arg \in Waiting => m.gen <= broker.gen

\* So does what the broker may order on its connection.
Ready(x) ==
    /\ x.auth
    /\ x.e = "open" /\ x.b = "open" =>
          /\ Meets(x.down, broker.gen)
          /\ \A c \in Waiting : Safe(x.down, c, broker.gen)

OnceInv ==
    /\ History
    /\ \A s \in Sockets : Ordered(sock[s])
    /\ \A s \in Sockets : broker.socket = s => Ready(sock[s])

Silent(q) == Announced(q) = {} /\ Orders(q) = {} /\ Early(q)

\* From x to y a socket falls silent, or goes on with what it tells and orders.
Calm(x, y) ==
    /\ \/ Silent(y.down) /\ (y.e # "open" \/ ~y.auth)
       \/ /\ x.e = "open" /\ SameOrders(x.down, y.down)
          /\ y.b = "open" => x.b = "open"
          /\ ~y.auth /\ y.b # "dead" => ~x.auth /\ x.b # "dead"
    /\ y.auth => x.auth /\ (x.b # "dead" => y.b # "dead")

\* What happens to one socket and then to it again.
LEMMA CalmTwice ==
    ASSUME NEW x, NEW y, NEW z, Calm(x, y), Calm(y, z)
    PROVE  Calm(x, z)
<1>1. SameOrders(y.down, z.down) /\ Silent(y.down) => Silent(z.down)
  BY DEF SameOrders, Silent
<1>2. SameOrders(x.down, y.down) /\ SameOrders(y.down, z.down) => SameOrders(x.down, z.down)
  BY DEF SameOrders
<1>3. QED
  BY <1>1, <1>2 DEF Calm

\* A socket keeps its ends, but for closes of the broker, and what it tells and orders.
LEMMA CalmIs ==
    ASSUME NEW k, NEW n, Good(k, n), NEW r \in Sockets, NEW y,
           SameOrders(k[r].down, y.down), y.e = k[r].e, y.auth = k[r].auth,
           y.b = "open" => k[r].b = "open", y.b = "dead" <=> k[r].b = "dead"
    PROVE  Calm(k[r], y)
<1>1. CASE k[r].e = "open"
  BY <1>1 DEF Calm
<1>2. CASE k[r].e # "open"
  <2>1. k[r].down = <<>>
    BY <1>2 DEF Good
  <2>2. Silent(y.down)
    BY <2>1, NothingOrdered DEF SameOrders, Silent
  <2>3. QED
    BY <1>2, <2>2 DEF Calm
<1>3. QED
  BY <1>1, <1>2

\* Nothing happens.
LEMMA CalmSame ==
    ASSUME NEW k, NEW n, Good(k, n), NEW r \in Sockets
    PROVE  Calm(k[r], k[r])
<1>1. SameOrders(k[r].down, k[r].down)
  BY DEF SameOrders
<1>2. QED
  BY <1>1, CalmIs

\* A message of the broker that tells and orders nothing.
LEMMA CalmDown ==
    ASSUME NEW k, NEW n \in Nat, Good(k, n), NEW s \in Sockets \cup {None},
           NEW m \in DownMessages(n), Other(m), NEW r \in Sockets
    PROVE  Calm(k[r], Down(k, s, m)[r]) /\ Down(k, s, m)[r].auth = k[r].auth
<1>1. k[r].down \in Seq(DownMessages(n))
  BY DEF Good, Socket
<1>2. SameOrders(k[r].down, Append(k[r].down, m)) /\ SameOrders(k[r].down, k[r].down)
  BY <1>1, OtherAppended DEF SameOrders
<1> DEFINE y == Down(k, s, m)[r]
<1>3. /\ SameOrders(k[r].down, y.down) /\ y.e = k[r].e /\ y.b = k[r].b /\ y.auth = k[r].auth
  BY <1>2, DownIs
<1> HIDE DEF y
<1>4. Calm(k[r], y)
  BY <1>3, CalmIs
<1>5. QED
  BY <1>3, <1>4 DEF y

\* The broker's close.
LEMMA CalmBrokerCloses ==
    ASSUME NEW k, NEW n \in Nat, Good(k, n), NEW s \in Sockets \cup {None}, NEW r \in Sockets
    PROVE  Calm(k[r], BrokerCloses(k, s)[r]) /\ BrokerCloses(k, s)[r].auth = k[r].auth
<1> DEFINE m == Plain("close")
<1>1. k[r].down \in Seq(DownMessages(n)) /\ m \in DownMessages(n)
  BY PlainMessages DEF Good, Socket
<1>2. Other(m)
  BY DEF Other, Plain, Message
<1>3. SameOrders(k[r].down, Append(k[r].down, m)) /\ SameOrders(k[r].down, k[r].down)
  <2> HIDE DEF m
  <2>1. QED
    BY <1>1, <1>2, OtherAppended DEF SameOrders
<1> DEFINE y == BrokerCloses(k, s)[r]
<1>4. /\ SameOrders(k[r].down, y.down) /\ y.e = k[r].e /\ y.auth = k[r].auth
      /\ y.b = k[r].b \/ (y.b = "closing" /\ k[r].b = "open")
  BY <1>3, BrokerClosesIs
<1> HIDE DEF y
<1>5. Calm(k[r], y)
  BY <1>4, CalmIs
<1>6. QED
  BY <1>4, <1>5 DEF y

\* The broker's refusal.
LEMMA CalmRejected ==
    ASSUME NEW k, NEW n \in Nat, Good(k, n), NEW s \in Sockets \cup {None}, NEW r \in Sockets
    PROVE  Calm(k[r], Rejected(k, s)[r]) /\ Rejected(k, s)[r].auth = k[r].auth
<1> DEFINE j == Down(k, s, Plain("error"))
<1>1. Plain("error") \in DownMessages(n) /\ Other(Plain("error"))
  BY PlainMessages DEF Other, Plain, Message
<1>2. Good(j, n) /\ Calm(k[r], j[r]) /\ j[r].auth = k[r].auth
  BY <1>1, DownIsGood, CalmDown
<1> HIDE DEF j
<1>3. Calm(j[r], BrokerCloses(j, s)[r]) /\ BrokerCloses(j, s)[r].auth = j[r].auth
  BY <1>2, CalmBrokerCloses
<1>4. QED
  BY <1>2, <1>3, CalmTwice DEF Rejected, j

\* A message the broker takes.
LEMMA CalmTaken ==
    ASSUME NEW n \in Nat, Good(sock, n), NEW s \in Sockets, NEW r \in Sockets
    PROVE  Calm(sock[r], Taken(s)[r]) /\ Taken(s)[r].auth = sock[r].auth
<1> DEFINE y == Taken(s)[r]
<1>1. /\ SameOrders(sock[r].down, y.down) /\ y.e = sock[r].e /\ y.b = sock[r].b
      /\ y.auth = sock[r].auth
  BY TakenIs DEF SameOrders
<1> HIDE DEF y
<1>2. Calm(sock[r], y)
  BY <1>1, CalmIs
<1>3. QED
  BY <1>1, <1>2 DEF y

\* A message the extension takes that tells and orders nothing.
LEMMA CalmHeard ==
    ASSUME NEW n \in Nat, Good(sock, n), NEW s \in Sockets, NEW type, Hears(s, type),
           type \notin {"authenticated", "command"}, NEW r \in Sockets
    PROVE  Calm(sock[r], Heard(s)[r]) /\ Heard(s)[r].auth = sock[r].auth
<1>1. /\ sock[s].down \in Seq(DownMessages(n)) /\ sock[s].down # <<>>
      /\ Other(Head(sock[s].down))
  BY DEF Good, Socket, Hears, Other
<1>2. SameOrders(sock[s].down, Tail(sock[s].down)) /\ SameOrders(sock[r].down, sock[r].down)
  BY <1>1, OrdersTail DEF SameOrders
<1> DEFINE y == Heard(s)[r]
<1>3. /\ SameOrders(sock[r].down, y.down) /\ y.e = sock[r].e /\ y.b = sock[r].b
      /\ y.auth = sock[r].auth
  BY <1>2, HeardIs
<1> HIDE DEF y
<1>4. Calm(sock[r], y)
  BY <1>3, CalmIs
<1>5. QED
  BY <1>3, <1>4 DEF y

\* What the extension sends.
LEMMA CalmUp ==
    ASSUME NEW k, NEW n \in Nat, Good(k, n), NEW ms, NEW r \in Sockets
    PROVE  Calm(k[r], Up(k, ms)[r]) /\ Up(k, ms)[r].auth = k[r].auth
<1> DEFINE y == Up(k, ms)[r]
<1>1. /\ SameOrders(k[r].down, y.down) /\ y.e = k[r].e /\ y.b = k[r].b /\ y.auth = k[r].auth
  BY UpIs DEF SameOrders
<1> HIDE DEF y
<1>2. Calm(k[r], y)
  BY <1>1, CalmIs
<1>3. QED
  BY <1>1, <1>2 DEF y

\* A socket that is free, or goes at the extension's end, is silent.
LEMMA CalmExtCloses ==
    ASSUME NEW k, NEW n \in Nat, Good(k, n), NEW s \in Sockets \cup {None}, NEW r \in Sockets
    PROVE  Calm(k[r], ExtCloses(k, s)[r])
<1>1. Silent(<<>>)
  BY NothingOrdered DEF Silent
<1>2. CASE r # s
  BY <1>2, ExtClosesIs, CalmSame
<1>3. CASE r = s
  <2> DEFINE y == ExtCloses(k, s)[r]
  <2>1. /\ y.e # "open" /\ y.down = <<>>
        /\ y = Free \/ (y.auth = k[r].auth /\ y.b = k[r].b)
    BY <1>3, ExtClosesIs
  <2>2. Free.auth = FALSE
    BY DEF Free
  <2> HIDE DEF y
  <2>3. Calm(k[r], y)
    BY <1>1, <2>1, <2>2 DEF Calm
  <2>4. QED
    BY <2>3 DEF y
<1>4. QED
  BY <1>2, <1>3

\* Nothing was carried out yet.
LEMMA OnceInit == Init => OnceInv
<1> SUFFICES ASSUME Init PROVE OnceInv
  OBVIOUS
<1>1. \A c \in Ids : Under(c) = {}
  BY DEF Init, Under, Range
<1>2. History
  <2>1. ExecutedOncePerConnection
    BY DEF Init, ExecutedOncePerConnection
  <2>2. Len(asked) = 0 /\ executed \in [Ids -> Seq(Nat)] /\ Waiting = {}
    BY EmptySeq DEF Init, Waiting, NoDecisions
  <2>3. QED
    BY <1>1, <2>1, <2>2, BoundsAssumption DEF History
<1>3. \A s \in Sockets : Ordered(sock[s])
  <2>1. Free.down = <<>> /\ Free.auth = FALSE
    BY DEF Free
  <2>2. \A s \in Sockets : sock[s] = Free
    BY DEF Init
  <2>3. QED
    BY <2>1, <2>2, NothingOrdered DEF Ordered
<1>4. broker.socket \notin Sockets
  BY NoneIsNoSocket DEF Init
<1>5. QED
  BY <1>2, <1>3, <1>4 DEF OnceInv

\* A socket that goes on or falls silent orders what it ordered.
LEMMA OrderedKeeps ==
    ASSUME IInv, UNCHANGED executed, (Waiting' \ Waiting) \cap DOMAIN asked = {},
           NEW s \in Sockets, Ordered(sock[s]), Calm(sock[s], sock'[s]),
           (broker'.gen \in Nat /\ broker'.gen >= broker.gen) \/ Waiting' = {},
           \/ ext'.gen = ext.gen /\ ext'.handled = ext.handled
           \/ sock'[s].e # "open" /\ Silent(sock'[s].down)
    PROVE  Ordered(sock[s])'
<1> DEFINE x == sock[s]
           y == sock'[s]
<1>1. Calm(x, y) /\ Ordered(x) /\ broker.gen \in Nat
  BY DEF IInv, BrokerTyped
<1>2. \A m \in Orders(x.down) : m.arg \in DOMAIN asked /\ m.gen \in Nat
  <2>1. sock[s].down \in Seq(DownMessages(Len(asked))) /\ DOMAIN asked = 1..Len(asked)
    BY Asked DEF IInv, Good, Socket
  <2>2. Range(sock[s].down) \subseteq DownMessages(Len(asked))
    BY <2>1, RangeOfSeq
  <2>3. QED
    BY <2>1, <2>2 DEF Orders, DownMessages, Messages
<1> HIDE DEF x
<1>3. Early(y.down) /\ (y.auth => y.b # "dead")
      /\ (~y.auth /\ y.b # "dead" => Announced(y.down) = {} /\ Orders(y.down) = {})
  BY <1>1 DEF Calm, Ordered, Silent, SameOrders
<1>4. ASSUME NEW m \in Orders(y.down)
      PROVE  /\ Meets(sock[s].down, m.gen)' /\ Safe(sock[s].down, m.arg, m.gen)'
             /\ m.arg \in Waiting' => m.gen <= broker'.gen
  <2>1. SameOrders(x.down, y.down) /\ m \in Orders(x.down)
    BY <1>1, <1>4 DEF Calm, Silent, SameOrders
  <2>2. ext'.gen = ext.gen /\ ext'.handled = ext.handled
    BY <1>4 DEF Silent
  <2>3. Meets(x.down, m.gen) /\ Safe(x.down, m.arg, m.gen)
        /\ (m.arg \in Waiting => m.gen <= broker.gen)
    BY <1>1, <2>1 DEF Ordered
  <2>4. m.arg \in Waiting' => m.arg \in Waiting
    BY <1>2, <2>1
  <2>5. Meets(sock[s].down, m.gen)'
    BY <2>1, <2>2, <2>3 DEF Meets, SameOrders
  <2>6. Safe(sock[s].down, m.arg, m.gen)'
    BY <2>1, <2>2, <2>3 DEF Safe, Under, SameOrders
  <2>7. m.arg \in Waiting' => m.gen <= broker'.gen
    BY <1>1, <1>2, <2>1, <2>3, <2>4
  <2>8. QED
    BY <2>5, <2>6, <2>7
<1>5. QED
  BY <1>3, <1>4 DEF Ordered

\* A step that orders and carries out nothing, and starts no connection; what waits anew
\* was not asked for before.
LEMMA OnceKeeps ==
    ASSUME IInv, OnceInv, UNCHANGED executed,
           DOMAIN asked \subseteq DOMAIN asked', Len(asked') <= MaxCommands,
           (Waiting' \ Waiting) \cap DOMAIN asked = {}, Waiting' \subseteq Ids,
           \A s \in Sockets : Calm(sock[s], sock'[s]),
           \A s \in Sockets : broker'.socket = s => broker.socket = s /\ sock'[s].auth,
           broker'.gen = broker.gen \/ (Waiting' = {} /\ broker'.socket = None),
           \/ ext'.gen = ext.gen /\ ext'.handled = ext.handled
           \/ \A s \in Sockets : sock'[s].e # "open" /\ Silent(sock'[s].down)
    PROVE  OnceInv'
<1>1. \A c : Under(c)' = Under(c)
  BY DEF Under
<1>2. \A c \in Waiting' : c \in Waiting \/ (c \notin DOMAIN asked /\ Under(c) = {})
  BY DEF OnceInv, History
<1>3. History'
  <2>1. \A c \in Waiting' : \A g \in Under(c)' : g <= broker'.gen
    BY <1>1, <1>2 DEF OnceInv, History
  <2>2. ExecutedOncePerConnection'
    BY DEF OnceInv, History, ExecutedOncePerConnection
  <2>3. \A c \in Ids : Under(c)' # {} => c \in DOMAIN asked'
    BY <1>1 DEF OnceInv, History
  <2>4. QED
    BY <2>1, <2>2, <2>3 DEF OnceInv, History
<1>4. ASSUME NEW s \in Sockets PROVE Ordered(sock[s])'
  <2>1. Ordered(sock[s]) /\ Calm(sock[s], sock'[s])
    BY DEF OnceInv
  <2>2. (broker'.gen \in Nat /\ broker'.gen >= broker.gen) \/ Waiting' = {}
    BY DEF IInv, BrokerTyped
  <2>3. QED
    BY <2>1, <2>2, OrderedKeeps
<1>5. ASSUME NEW s \in Sockets, broker'.socket = s PROVE Ready(sock[s])'
  <2> DEFINE x == sock[s]
             y == sock'[s]
  <2>1. Calm(x, y) /\ Ready(x) /\ y.auth /\ broker'.gen = broker.gen
    BY <1>5, NoneIsNoSocket DEF OnceInv
  <2> HIDE DEF x
  <2>2. ASSUME y.e = "open", y.b = "open"
        PROVE  Meets(sock[s].down, broker.gen)' /\ \A c \in Waiting' : Safe(sock[s].down, c, broker.gen)'
    <3>1. x.e = "open" /\ x.b = "open" /\ SameOrders(x.down, y.down)
      BY <2>1, <2>2 DEF Calm
    <3>2. ext'.gen = ext.gen /\ ext'.handled = ext.handled
      BY <2>2
    <3>3. Meets(x.down, broker.gen) /\ \A c \in Waiting : Safe(x.down, c, broker.gen)
      BY <2>1, <3>1 DEF Ready
    <3>4. Meets(sock[s].down, broker.gen)'
      BY <2>1, <3>1, <3>2, <3>3 DEF Meets, SameOrders
    <3>5. ASSUME NEW c \in Waiting' PROVE Safe(sock[s].down, c, broker.gen)'
      <4>1. CASE c \in Waiting
        BY <1>1, <2>1, <3>1, <3>2, <3>3, <4>1 DEF Safe, SameOrders
      <4>2. CASE Under(c) = {}
        BY <1>1, <4>2 DEF Safe
      <4>3. QED
        BY <1>2, <4>1, <4>2
    <3>6. QED
      BY <3>4, <3>5
  <2>3. QED
    BY <2>1, <2>2 DEF Ready
<1>6. QED
  BY <1>3, <1>4, <1>5 DEF OnceInv

\* What may be ordered was asked for.
LEMMA WaitingAsked ==
    IInv /\ OnceInv => Waiting \subseteq DOMAIN asked /\ Waiting \subseteq Ids
<1> SUFFICES ASSUME IInv, OnceInv
             PROVE  Waiting \subseteq DOMAIN asked /\ Waiting \subseteq Ids
  OBVIOUS
<1>1. Waiting \subseteq DOMAIN asked
  BY DEF IInv, BrokerTyped, DecisionsTyped, Waiting
<1>2. DOMAIN asked = 1..Len(asked) /\ Len(asked) \in Nat /\ Len(asked) <= MaxCommands
  BY Asked DEF OnceInv, History
<1>3. DOMAIN asked \subseteq Ids
  BY <1>2, BoundsAssumption DEF Ids
<1>4. QED
  BY <1>1, <1>3

\* A step that orders and carries out nothing and asks for nothing.
LEMMA OnceQuiet ==
    ASSUME IInv, OnceInv, UNCHANGED <<asked, executed>>, Waiting' \subseteq Waiting,
           ext'.gen = ext.gen, ext'.handled = ext.handled,
           \A s \in Sockets : Calm(sock[s], sock'[s]),
           broker'.socket \in {None, broker.socket}, broker'.gen = broker.gen,
           \A s \in Sockets : broker'.socket = s => sock'[s].auth
    PROVE  OnceInv'
<1>1. Waiting' \subseteq Ids /\ (Waiting' \ Waiting) \cap DOMAIN asked = {}
  BY WaitingAsked
<1>2. \A s \in Sockets : broker'.socket = s => broker.socket = s
  BY NoneIsNoSocket
<1>3. Len(asked') <= MaxCommands /\ DOMAIN asked \subseteq DOMAIN asked'
  BY DEF OnceInv, History
<1>4. QED
  BY <1>1, <1>2, <1>3, OnceKeeps

\* A message is taken, answered or refused.
LEMMA CalmAnswers ==
    ASSUME IInv, NEW s \in Sockets, NEW type, Takes(s, type),
           \/ sock' = Taken(s) \/ sock' = Rejected(Taken(s), s)
           \/ sock' = BrokerCloses(Taken(s), s)
           \/ \E m \in DownMessages(Len(asked)) : Other(m) /\ sock' = Down(Taken(s), s, m)
    PROVE  \A r \in Sockets : Calm(sock[r], sock'[r]) /\ sock'[r].auth = sock[r].auth
<1> DEFINE n == Len(asked)
           k == Taken(s)
<1>1. n \in Nat /\ Good(sock, n) /\ Good(k, n)
  BY Asked, TakenIsGood DEF IInv
<1>2. \A r \in Sockets : Calm(sock[r], k[r]) /\ k[r].auth = sock[r].auth
  BY <1>1, CalmTaken
<1> HIDE DEF k, n
<1>3. ASSUME NEW r \in Sockets PROVE Calm(k[r], sock'[r]) /\ sock'[r].auth = k[r].auth
  <2>1. CASE sock' = k
    BY <1>1, <2>1, CalmSame
  <2>2. CASE sock' = Rejected(k, s)
    BY <1>1, <2>2, CalmRejected
  <2>3. CASE sock' = BrokerCloses(k, s)
    BY <1>1, <2>3, CalmBrokerCloses
  <2>4. CASE \E m \in DownMessages(n) : Other(m) /\ sock' = Down(k, s, m)
    BY <1>1, <2>4, CalmDown
  <2>5. QED
    BY <2>1, <2>2, <2>3, <2>4 DEF k, n
<1>4. QED
  BY <1>2, <1>3, CalmTwice

\* The messages of the extension, but for a key.
LEMMA OnceMessages ==
    ASSUME IInv, OnceInv, NEW s \in Sockets,
           \/ RequestPairing(s) \/ Unpair(s) \/ TabShared(s) \/ TabUnshared(s)
           \/ Snapshot(s) \/ Result(s) \/ HeartbeatTaken(s)
    PROVE  OnceInv'
<1>1. UNCHANGED <<ext, asked, executed, decisions>>
  BY DEF RequestPairing, Unpair, TabShared, TabUnshared, Snapshot, Result, HeartbeatTaken
<1>2. PICK type : Takes(s, type)
  BY DEF RequestPairing, Unpair, TabShared, TabUnshared, Snapshot, Result, HeartbeatTaken
<1>3. /\ Message("paired", broker.key, 0) \in DownMessages(Len(asked))
      /\ Other(Message("paired", broker.key, 0))
  BY DEF IInv, BrokerTyped, Message, Types, Messages, DownMessages, Other
<1>4. \/ sock' = Taken(s) \/ sock' = Rejected(Taken(s), s)
      \/ sock' = BrokerCloses(Taken(s), s)
      \/ sock' = Down(Taken(s), s, Message("paired", broker.key, 0))
  BY DEF RequestPairing, Unpair, TabShared, TabUnshared, Snapshot, Result, HeartbeatTaken,
         Refuse
<1>5. \A r \in Sockets : Calm(sock[r], sock'[r]) /\ sock'[r].auth = sock[r].auth
  BY <1>2, <1>3, <1>4, CalmAnswers
<1>6. /\ broker'.socket = broker.socket /\ broker'.gen = broker.gen
      /\ broker'.approvals \subseteq broker.approvals
  BY DEF RequestPairing, Unpair, TabShared, TabUnshared, Snapshot, Result, HeartbeatTaken,
         Refuse, Undispatched, WithoutTab, IInv, BrokerTyped
<1>7. Waiting' \subseteq Waiting
  BY <1>1, <1>6 DEF Waiting
<1>8. \A r \in Sockets : broker'.socket = r => sock'[r].auth
  BY <1>5, <1>6 DEF OnceInv, Ready
<1>9. QED
  BY <1>1, <1>5, <1>6, <1>7, <1>8, OnceQuiet

\* Timers, pairings and snapshots, and what the user denies.
LEMMA OnceBrokerOwn ==
    ASSUME IInv, OnceInv, UNCHANGED <<ext, asked, executed>>,
           \/ sock' = sock
           \/ \E s \in Sockets \cup {None} :
                 \/ sock' = Rejected(sock, s) \/ sock' = BrokerCloses(sock, s)
                 \/ \E m \in DownMessages(Len(asked)) : Other(m) /\ sock' = Down(sock, s, m),
           broker'.socket \in {None, broker.socket}, broker'.gen = broker.gen,
           Waiting' \subseteq Waiting
    PROVE  OnceInv'
<1>1. Len(asked) \in Nat /\ Good(sock, Len(asked))
  BY Asked DEF IInv
<1>2. ASSUME NEW r \in Sockets PROVE Calm(sock[r], sock'[r]) /\ sock'[r].auth = sock[r].auth
  <2>1. CASE sock' = sock
    BY <1>1, <2>1, CalmSame
  <2>2. CASE \E s \in Sockets \cup {None} : sock' = Rejected(sock, s)
    BY <1>1, <2>2, CalmRejected
  <2>3. CASE \E s \in Sockets \cup {None} : sock' = BrokerCloses(sock, s)
    BY <1>1, <2>3, CalmBrokerCloses
  <2>4. CASE \E s \in Sockets \cup {None}, m \in DownMessages(Len(asked)) :
                 Other(m) /\ sock' = Down(sock, s, m)
    BY <1>1, <2>4, CalmDown
  <2>5. QED
    BY <2>1, <2>2, <2>3, <2>4
<1>3. \A r \in Sockets : broker'.socket = r => sock'[r].auth
  BY <1>2, NoneIsNoSocket DEF OnceInv, Ready
<1>4. QED
  BY <1>2, <1>3, OnceQuiet

\* What the broker does by itself and for the WebUI.
LEMMA OnceTimers ==
    ASSUME IInv, OnceInv,
           \/ \E s \in Sockets : PairingExpires(s) \/ PairingDecisionArrives(s)
           \/ AllowPairing \/ DenyPairing \/ Revoke
           \/ \E t \in Tabs : RequestSnapshot(t) \/ SnapshotExpires(t)
           \/ \E c \in Ids : ApprovalExpires(c) \/ CommandExpires(c) \/ DecisionArrives(c)
    PROVE  OnceInv'
<1> DEFINE n == Len(asked)
<1>1. UNCHANGED <<ext, asked, executed>>
  BY DEF PairingExpires, PairingDecisionArrives, AllowPairing, DenyPairing, Revoke,
         RequestSnapshot, SnapshotExpires, ApprovalExpires, CommandExpires, DecisionArrives
<1>2. /\ broker'.socket \in {None, broker.socket} /\ broker'.gen = broker.gen
      /\ broker'.approvals \subseteq broker.approvals
  BY DEF PairingExpires, PairingDecisionArrives, AllowPairing, DenyPairing, Revoke,
         RequestSnapshot, SnapshotExpires, ApprovalExpires, CommandExpires, DecisionArrives,
         Undispatched, IInv, BrokerTyped
<1>3. Waiting' \subseteq Waiting
  <2>1. CASE \E c \in Ids : DecisionArrives(c)
    <3>1. PICK c \in Ids : DecisionArrives(c)
      BY <2>1
    <3>2. \A d \in Ids : d # c => decisions'.posts[d] = decisions.posts[d]
      BY <3>1 DEF DecisionArrives, IInv, DecisionsTyped
    <3>3. c \in broker.approvals
      BY <3>1 DEF DecisionArrives
    <3>4. QED
      BY <1>2, <3>2, <3>3 DEF Waiting
  <2>2. CASE ~\E c \in Ids : DecisionArrives(c)
    <3>1. decisions'.posts = decisions.posts
      BY <2>2 DEF PairingExpires, PairingDecisionArrives, AllowPairing, DenyPairing, Revoke,
         RequestSnapshot, SnapshotExpires, ApprovalExpires, CommandExpires, IInv, DecisionsTyped
    <3>2. QED
      BY <1>2, <3>1 DEF Waiting
  <2>3. QED
    BY <2>1, <2>2
<1>4. \/ sock' = sock
      \/ \E s \in Sockets \cup {None} :
            \/ sock' = Rejected(sock, s) \/ sock' = BrokerCloses(sock, s)
            \/ \E m \in DownMessages(n) : Other(m) /\ sock' = Down(sock, s, m)
  <2>1. broker.socket \in Sockets \cup {None} /\ decisions.pairing.socket \in Sockets \cup {None}
    BY DEF IInv, BrokerTyped, DecisionsTyped
  <2>2. CASE AllowPairing
    <3>1. /\ Message("paired", broker.lastKey + 1, 0) \in DownMessages(n)
          /\ Other(Message("paired", broker.lastKey + 1, 0))
      BY DEF IInv, BrokerTyped, Message, Types, Messages, DownMessages, Other
    <3>2. QED
      BY <2>1, <2>2, <3>1 DEF AllowPairing
  <2>3. CASE \E t \in Tabs : RequestSnapshot(t)
    <3>1. \A t \in Tabs : /\ Message("snapshot_request", t, 0) \in DownMessages(n)
                          /\ Other(Message("snapshot_request", t, 0))
      BY DEF Message, Types, Messages, DownMessages, Other
    <3>2. QED
      BY <2>1, <2>3, <3>1 DEF RequestSnapshot
  <2>4. CASE DenyPairing \/ Revoke \/ \E s \in Sockets : PairingExpires(s)
    BY <2>1, <2>4 DEF DenyPairing, Revoke, PairingExpires
  <2>5. CASE \/ \E s \in Sockets : PairingDecisionArrives(s)
             \/ \E t \in Tabs : SnapshotExpires(t)
             \/ \E c \in Ids : ApprovalExpires(c) \/ CommandExpires(c) \/ DecisionArrives(c)
    BY <2>5 DEF PairingDecisionArrives, SnapshotExpires, ApprovalExpires,
                CommandExpires, DecisionArrives
  <2>6. QED
    BY <2>2, <2>3, <2>4, <2>5
<1>5. QED
  BY <1>1, <1>2, <1>3, <1>4, OnceBrokerOwn

\* A new operation has not been carried out.
LEMMA OnceAsks ==
    ASSUME IInv, OnceInv, NEW t \in Tabs, Ask(t)
    PROVE  OnceInv'
<1> DEFINE n == Len(asked)
<1>1. /\ UNCHANGED <<decisions, ext, sock, executed>> /\ asked' = Append(asked, t)
      /\ broker'.approvals = broker.approvals \cup {n + 1} /\ n < MaxCommands
      /\ broker'.socket = broker.socket /\ broker'.gen = broker.gen
  BY DEF Ask, IInv, BrokerTyped
<1>2. n \in Nat /\ DOMAIN asked = 1..n /\ DOMAIN asked' = 1..(n + 1) /\ Len(asked') = n + 1
  BY <1>1, Asked, AppendProperties, LenProperties DEF IInv
<1>3. Waiting' = Waiting \cup {n + 1}
  BY <1>1 DEF Waiting
<1>4. Waiting' \subseteq Ids /\ (Waiting' \ Waiting) \cap DOMAIN asked = {}
  BY <1>1, <1>2, <1>3, WaitingAsked, BoundsAssumption DEF Ids
<1>5. \A s \in Sockets : Calm(sock[s], sock'[s])
  BY <1>1, CalmSame DEF IInv
<1>6. \A s \in Sockets : broker'.socket = s => broker.socket = s /\ sock'[s].auth
  BY <1>1 DEF OnceInv, Ready
<1>7. Len(asked') <= MaxCommands /\ DOMAIN asked \subseteq DOMAIN asked'
  BY <1>1, <1>2, BoundsAssumption
<1> HIDE DEF n
<1>8. QED
  BY <1>1, <1>4, <1>5, <1>6, <1>7, OnceKeeps

\* A socket that is gone is silent, and the broker has no connection without it.
LEMMA OnceCloses ==
    ASSUME IInv, OnceInv, NEW s \in Sockets, SocketClosed(s)
    PROVE  OnceInv'
<1>1. UNCHANGED <<ext, asked, executed>> /\ sock' = [sock EXCEPT ![s] = Free]
      /\ decisions' = WithoutSocket(s) /\ Good(sock, Len(asked))
  BY DEF SocketClosed, IInv
<1>2. sock'[s] = Free /\ \A r \in Sockets : r # s => sock'[r] = sock[r]
  BY <1>1 DEF Good
<1>3. \A r \in Sockets : Calm(sock[r], sock'[r])
  <2>1. Calm(sock[s], Free)
    BY NothingOrdered DEF Calm, Silent, Free
  <2>2. QED
    BY <1>1, <1>2, <2>1, CalmSame
<1>4. /\ broker'.socket \in {None, broker.socket} /\ broker'.gen = broker.gen
      /\ broker'.approvals \subseteq broker.approvals
      /\ sock[s].auth /\ broker.socket = s => broker'.socket = None
  BY DEF SocketClosed, IsConnection, Disconnected, IInv, BrokerTyped
<1>5. Waiting' \subseteq Waiting
  <2>1. decisions'.posts = decisions.posts
    BY <1>1 DEF WithoutSocket, IInv, DecisionsTyped
  <2>2. QED
    BY <1>4, <2>1 DEF Waiting
<1>6. \A r \in Sockets : broker'.socket = r => sock'[r].auth
  BY <1>2, <1>4, NoneIsNoSocket DEF OnceInv, Ready
<1>7. QED
  BY <1>1, <1>3, <1>4, <1>5, <1>6, OnceQuiet

\* A restart leaves nothing that may be ordered yet, and no connection.
LEMMA OnceRestarts ==
    ASSUME IInv, OnceInv, BrokerRestart
    PROVE  OnceInv'
<1> DEFINE n == Len(asked)
<1>1. UNCHANGED <<ext, asked, executed>> /\ n \in Nat /\ Good(sock, n)
  BY Asked DEF BrokerRestart, IInv
<1>2. broker'.socket = None /\ broker'.approvals = {}
  BY DEF BrokerRestart, Disconnected, IInv, BrokerTyped
<1>3. Waiting' = {}
  <2>1. decisions' = NoDecisions
    BY DEF BrokerRestart
  <2>2. \A c \in Ids : decisions'.posts[c] = 0
    BY <2>1 DEF NoDecisions
  <2>3. QED
    BY <1>2, <2>2 DEF Waiting
<1>4. ASSUME NEW r \in Sockets PROVE Calm(sock[r], sock'[r])
  <2>1. CASE sock[r].e = "gone"
    <3>1. sock'[r] = Free
      BY <2>1 DEF BrokerRestart
    <3>2. QED
      BY <3>1, NothingOrdered DEF Calm, Silent, Free
  <2>2. CASE sock[r].e = "open"
    <3> DEFINE l == BrokerCloses(sock, r)
               y == [l[r] EXCEPT !.b = "dead", !.auth = FALSE, !.up = <<>>]
    <3>1. l[r] \in Socket(n) /\ Calm(sock[r], l[r])
      BY <1>1, BrokerClosesIsGood, CalmBrokerCloses DEF Good
    <3>2. sock'[r] = y
      BY <2>2 DEF BrokerRestart
    <3>3. l[r].e = "open"
      BY <1>1, <2>2, BrokerClosesIs
    <3> HIDE DEF l
    <3>4. y.e = "open" /\ y.b = "dead" /\ y.auth = FALSE /\ y.down = l[r].down
      BY <3>1, <3>3 DEF Socket
    <3> HIDE DEF y
    <3>5. Calm(l[r], y)
      <4>1. SameOrders(l[r].down, y.down)
        BY <3>4 DEF SameOrders
      <4>2. QED
        BY <3>3, <3>4, <4>1 DEF Calm
    <3>6. QED
      BY <3>1, <3>2, <3>5, CalmTwice
  <2>3. CASE sock[r].e \notin {"gone", "open"}
    <3>1. sock'[r] = sock[r]
      BY <2>3 DEF BrokerRestart
    <3>2. QED
      BY <1>1, <3>1, CalmSame
  <2>4. QED
    BY <2>1, <2>2, <2>3
<1>5. \A r \in Sockets : broker'.socket = r => broker.socket = r /\ sock'[r].auth
  BY <1>2, NoneIsNoSocket
<1>6. Len(asked') <= MaxCommands /\ DOMAIN asked \subseteq DOMAIN asked'
  BY <1>1 DEF OnceInv, History
<1>7. QED
  BY <1>1, <1>2, <1>3, <1>4, <1>5, <1>6, OnceKeeps

\* A new connection has a generation under which nothing that waits was carried out.
LEMMA OnceAuthenticates ==
    ASSUME IInv, OnceInv, NEW s \in Sockets, Authenticate(s)
    PROVE  OnceInv'
<1> DEFINE n == Len(asked)
           taken == Taken(s)
           replaced == Replaced(taken)
           known == [replaced EXCEPT ![s].auth = TRUE]
           g == broker.gen + 1
           m == Message("authenticated", None, g)
<1>1. /\ UNCHANGED <<decisions, ext, asked, executed>> /\ Takes(s, "authenticate")
      /\ n \in Nat /\ Good(sock, n) /\ broker.socket \in Sockets \cup {None}
      /\ broker.gen \in Nat
  BY Asked DEF Authenticate, IInv, BrokerTyped
<1>2. CASE UNCHANGED broker /\ sock' = Rejected(taken, s)
  <2>1. \A r \in Sockets : Calm(sock[r], sock'[r]) /\ sock'[r].auth = sock[r].auth
    BY <1>1, <1>2, CalmAnswers
  <2>2. Waiting' = Waiting
    BY <1>1, <1>2 DEF Waiting
  <2>3. \A r \in Sockets : broker'.socket = r => sock'[r].auth
    BY <1>2, <2>1 DEF OnceInv, Ready
  <2>4. QED
    BY <1>1, <1>2, <2>1, <2>2, <2>3, OnceQuiet
<1>3. CASE /\ ~sock[s].auth /\ broker' = [broker EXCEPT !.socket = s, !.gen = @ + 1]
           /\ sock' = Down(known, s, m)
  <2>1. Good(taken, n) /\ \A r \in Sockets : Calm(sock[r], taken[r])
    BY <1>1, TakenIsGood, CalmTaken
  <2>2. /\ taken[s].e = sock[s].e /\ taken[s].b = sock[s].b /\ taken[s].down = sock[s].down
        /\ sock[s].b \in {"open", "closing"}
    BY <1>1, TakenIs DEF Takes
  <2> HIDE DEF taken
  <2>3. Good(replaced, n) /\ \A r \in Sockets : Calm(taken[r], replaced[r])
    BY <1>1, <2>1, BrokerClosesIsGood, CalmBrokerCloses DEF Replaced
  <2>4. broker.socket # s
    BY <1>3 DEF OnceInv, Ready
  <2>5. /\ replaced[s].e = sock[s].e /\ replaced[s].b = sock[s].b
        /\ replaced[s].down = sock[s].down
    BY <1>1, <2>1, <2>2, <2>4, BrokerClosesIs DEF Replaced
  <2> HIDE DEF replaced
  <2>6. s # None /\ replaced \in [Sockets -> Socket(n)]
    BY <2>3, NoneIsNoSocket DEF Good
  <2>7. /\ known \in [Sockets -> Socket(n)] /\ \A r \in Sockets : r # s => known[r] = replaced[r]
        /\ known[s].e = sock[s].e /\ known[s].b = sock[s].b /\ known[s].auth = TRUE
        /\ known[s].down = sock[s].down
    BY <2>5, <2>6 DEF Socket
  <2> HIDE DEF known
  <2>8. m \in DownMessages(n) /\ m.type = "authenticated" /\ m.gen = g
    BY <1>1 DEF Message, None, Types, Messages, DownMessages
  <2>9. /\ Announced(sock[s].down) = {} /\ Orders(sock[s].down) = {} /\ Early(sock[s].down)
        /\ sock[s].down \in Seq(DownMessages(n))
    BY <1>1, <1>3, <2>2 DEF OnceInv, Ordered, Good, Socket
  <2> HIDE DEF m
  <2>10. /\ broker'.socket = s /\ broker'.gen = g /\ broker'.approvals = broker.approvals
    BY <1>3 DEF IInv, BrokerTyped
  <2>11. Waiting' = Waiting
    BY <1>1, <2>10 DEF Waiting
  <2>12. History'
    <3>1. ExecutedOncePerConnection'
      BY <1>1 DEF OnceInv, History, ExecutedOncePerConnection
    <3>2. \A c \in Ids : Under(c)' = Under(c)
      BY <1>1 DEF Under
    <3>3. \A c \in Waiting' : \A h \in Under(c)' : h <= broker'.gen
      <4>1. SUFFICES ASSUME NEW c \in Waiting, NEW h \in Under(c) PROVE h <= g
        BY <2>10, <2>11, <3>2, WaitingAsked
      <4>2. h \in Nat /\ h <= broker.gen
        <5>1. c \in Ids /\ executed[c] \in Seq(Nat)
          BY WaitingAsked DEF OnceInv, History
        <5>2. QED
          BY <5>1, RangeOfSeq DEF OnceInv, History, Under
      <4>3. QED
        BY <1>1, <4>2
    <3>4. QED
      BY <1>1, <3>1, <3>2, <3>3 DEF OnceInv, History
  <2>13. /\ sock'[s].e = sock[s].e /\ sock'[s].b = sock[s].b /\ sock'[s].auth = TRUE
         /\ sock'[s].down = IF sock[s].e = "open" /\ sock[s].b = "open"
                            THEN Append(sock[s].down, m) ELSE sock[s].down
    <3>1. CASE known[s].e = "open" /\ known[s].b = "open"
      <4>1. sock'[s] = [known[s] EXCEPT !.down = Append(@, m)]
        BY <1>3, <2>6, <2>7, <3>1 DEF Down
      <4>2. QED
        BY <2>7, <3>1, <4>1 DEF Socket
    <3>2. CASE ~(known[s].e = "open" /\ known[s].b = "open")
      BY <1>3, <2>7, <3>2 DEF Down
    <3>3. QED
      BY <3>1, <3>2
  <2>14. /\ Early(sock'[s].down) /\ Orders(sock'[s].down) = {}
         /\ sock[s].e = "open" /\ sock[s].b = "open" => Announced(sock'[s].down) = {g}
    BY <2>8, <2>9, <2>13, NewsAppended
  <2>15. Ordered(sock[s])'
    BY <2>2, <2>13, <2>14 DEF Ordered
  <2>16. Ready(sock[s])'
    <3>1. ASSUME sock[s].e = "open", sock[s].b = "open"
          PROVE  Meets(sock[s].down, broker.gen)' /\ \A c \in Waiting' : Safe(sock[s].down, c, broker.gen)'
      <4>1. Meets(sock[s].down, broker.gen)'
        BY <2>10, <2>14, <3>1 DEF Meets
      <4>2. ASSUME NEW c \in Waiting' PROVE g \notin Under(c)'
        <5>1. \A h \in Under(c) : h <= broker.gen
          BY <2>11 DEF OnceInv, History
        <5>2. g \notin Under(c)
          BY <1>1, <5>1
        <5>3. QED
          BY <1>1, <5>2 DEF Under
      <4>3. QED
        BY <2>10, <4>1, <4>2 DEF Safe
    <3>2. QED
      BY <2>13, <3>1 DEF Ready
  <2>17. ASSUME NEW r \in Sockets, r # s PROVE Ordered(sock[r])'
    <3>1. sock'[r] = known[r]
      BY <1>3, <2>7, <2>17 DEF Down
    <3>2. Calm(sock[r], sock'[r])
      BY <2>1, <2>3, <2>7, <2>17, <3>1, CalmTwice
    <3>3. Ordered(sock[r]) /\ broker'.gen \in Nat /\ broker'.gen >= broker.gen
      BY <1>1, <2>10 DEF OnceInv
    <3>4. QED
      BY <1>1, <2>11, <3>2, <3>3, OrderedKeeps
  <2>18. QED
    BY <2>10, <2>12, <2>15, <2>16, <2>17 DEF OnceInv
<1>4. QED
  BY <1>2, <1>3 DEF Authenticate, Refuse

\* What the broker orders, it is ready to order.
LEMMA OnceDecides ==
    ASSUME IInv, OnceInv, NEW c \in Ids, Decide(c)
    PROVE  OnceInv'
<1> DEFINE n == Len(asked)
           bs == broker.socket
           m == Message("command", c, broker.gen)
           open == bs # None /\ sock[bs].e = "open" /\ sock[bs].b = "open"
<1>1. /\ UNCHANGED <<ext, asked, executed>> /\ n \in Nat /\ Good(sock, n)
      /\ bs \in Sockets \cup {None} /\ broker.gen \in Nat
  BY Asked DEF Decide, IInv, BrokerTyped
<1>2. /\ broker'.socket = bs /\ broker'.gen = broker.gen
      /\ broker'.approvals \subseteq broker.approvals
  BY DEF Decide, Dispatched, IInv, BrokerTyped
<1>3. Waiting' \subseteq Waiting /\ c \in Waiting
  <2>1. /\ decisions.posts[c] > 0
        /\ \A d \in Ids : decisions'.posts[d] > 0 => decisions.posts[d] > 0
    BY DEF Decide, IInv, DecisionsTyped
  <2>2. QED
    BY <1>2, <2>1 DEF Waiting
<1>4. CASE UNCHANGED sock
  BY <1>1, <1>2, <1>3, <1>4, OnceBrokerOwn
<1>5. CASE sock' = Down(sock, bs, m)
  <2>1. c \in DOMAIN asked /\ DOMAIN asked = 1..n
    BY <1>3, WaitingAsked, Asked
  <2>2. m \in DownMessages(n) /\ m.type = "command" /\ m.arg = c /\ m.gen = broker.gen
    BY <1>1, <2>1 DEF Message, Types, Messages, DownMessages
  <2> HIDE DEF m
  <2>3. ASSUME NEW s \in Sockets
        PROVE  /\ sock'[s].e = sock[s].e /\ sock'[s].b = sock[s].b
               /\ sock'[s].auth = sock[s].auth
               /\ sock'[s].down = IF s = bs /\ open THEN Append(sock[s].down, m) ELSE sock[s].down
    BY <1>1, <1>5, <2>2, <2>3, NoneIsNoSocket, DownIs
  <2>4. ASSUME NEW s \in Sockets
        PROVE  /\ Announced(sock'[s].down) = Announced(sock[s].down)
               /\ Early(sock'[s].down)
               /\ Orders(sock'[s].down) \subseteq Orders(sock[s].down) \cup {m}
               /\ ~(s = bs /\ open) => Orders(sock'[s].down) = Orders(sock[s].down)
    <3>1. sock[s].down \in Seq(DownMessages(n)) /\ Early(sock[s].down)
      BY <1>1 DEF Good, Socket, OnceInv, Ordered
    <3>2. QED
      BY <2>2, <2>3, <3>1, OrderAppended
  <2>5. History'
    <3>1. ExecutedOncePerConnection'
      BY <1>1 DEF OnceInv, History, ExecutedOncePerConnection
    <3>2. \A d \in Ids : Under(d)' = Under(d)
      BY <1>1 DEF Under
    <3>3. \A d \in Waiting' : \A h \in Under(d)' : h <= broker'.gen
      BY <1>2, <1>3, <3>2, WaitingAsked DEF OnceInv, History
    <3>4. QED
      BY <1>1, <3>1, <3>2, <3>3 DEF OnceInv, History
  <2>6. ASSUME NEW s \in Sockets PROVE Ordered(sock[s])'
    <3>1. Ordered(sock[s])
      BY DEF OnceInv
    <3>2. ASSUME s = bs, open
          PROVE  /\ Ready(sock[s]) /\ sock[s].auth
                 /\ Meets(sock[s].down, m.gen) /\ Safe(sock[s].down, m.arg, m.gen)
      BY <1>3, <2>2, <3>2 DEF OnceInv, Ready
    <3>3. ASSUME NEW o \in Orders(sock'[s].down)
          PROVE  /\ Meets(sock[s].down, o.gen)' /\ Safe(sock[s].down, o.arg, o.gen)'
                 /\ o.arg \in Waiting' => o.gen <= broker'.gen
      <4>1. /\ Meets(sock[s].down, o.gen) /\ Safe(sock[s].down, o.arg, o.gen)
            /\ o.arg \in Waiting => o.gen <= broker.gen
        <5>1. CASE o \in Orders(sock[s].down)
          BY <3>1, <5>1 DEF Ordered
        <5>2. CASE o \notin Orders(sock[s].down)
          BY <1>1, <2>2, <2>4, <3>2, <3>3, <5>2
        <5>3. QED
          BY <5>1, <5>2
      <4>2. Meets(sock[s].down, o.gen)'
        BY <1>1, <2>4, <4>1 DEF Meets
      <4>3. Safe(sock[s].down, o.arg, o.gen)'
        BY <1>1, <2>4, <4>1 DEF Safe, Under
      <4>4. QED
        BY <1>2, <1>3, <4>1, <4>2, <4>3
    <3>4. /\ sock'[s].auth => sock'[s].b # "dead"
          /\ ~sock'[s].auth /\ sock'[s].b # "dead" =>
                Announced(sock'[s].down) = {} /\ Orders(sock'[s].down) = {}
      BY <2>3, <2>4, <3>1, <3>2 DEF Ordered
    <3>5. QED
      BY <2>4, <3>3, <3>4 DEF Ordered
  <2>7. ASSUME NEW s \in Sockets, broker'.socket = s PROVE Ready(sock[s])'
    <3>1. Ready(sock[s])
      BY <1>2, <2>7 DEF OnceInv
    <3>2. ASSUME sock[s].e = "open", sock[s].b = "open"
          PROVE  /\ Meets(sock[s].down, broker.gen)'
                 /\ \A d \in Waiting' : Safe(sock[s].down, d, broker.gen)'
      <4>1. Meets(sock[s].down, broker.gen) /\ \A d \in Waiting : Safe(sock[s].down, d, broker.gen)
        BY <3>1, <3>2 DEF Ready
      <4>2. Meets(sock[s].down, broker.gen)'
        BY <1>1, <1>2, <2>4, <4>1 DEF Meets
      <4>3. ASSUME NEW d \in Waiting' PROVE Safe(sock[s].down, d, broker.gen)'
        BY <1>1, <1>2, <1>3, <2>4, <4>1 DEF Safe, Under
      <4>4. QED
        BY <4>2, <4>3
    <3>3. QED
      BY <2>3, <3>1, <3>2 DEF Ready
  <2>8. QED
    BY <2>5, <2>6, <2>7 DEF OnceInv
<1>6. QED
  BY <1>4, <1>5 DEF Decide

\* Every step of the broker keeps the invariant.
LEMMA OnceBroker == IInv /\ OnceInv /\ BrokerStep => OnceInv'
  BY OnceAuthenticates, OnceMessages, OnceCloses, OnceTimers, OnceAsks, OnceDecides,
     OnceRestarts DEF BrokerStep, BrokerTakes

\* A connection of the broker stays authenticated when the extension closes its end.
LEMMA CloseIsHeard ==
    ASSUME OnceInv, NEW n \in Nat, Good(sock, n), NEW k, Good(k, n),
           NEW s \in Sockets \cup {None}, NEW r \in Sockets, broker.socket = r,
           k[r].e = sock[r].e, k[r].b = sock[r].b, k[r].auth = sock[r].auth
    PROVE  ExtCloses(k, s)[r].auth
<1>1. sock[r].auth /\ sock[r].b # "dead"
  BY DEF OnceInv, Ready, Ordered
<1>2. sock[r].e # "connecting"
  BY <1>1 DEF Good
<1> DEFINE y == ExtCloses(k, s)[r]
<1>3. CASE r # s
  <2>1. y = k[r]
    BY <1>3, ExtClosesIs
  <2>2. QED
    BY <1>1, <2>1
<1>4. CASE r = s
  <2>1. y.auth = k[r].auth \/ k[r].e = "connecting" \/ k[r].b = "dead"
    BY <1>4, ExtClosesIs
  <2>2. QED
    BY <1>1, <1>2, <2>1
<1>5. QED
  BY <1>3, <1>4

\* What the extension does by itself and for its user.
LEMMA OnceExtOwn ==
    ASSUME IInv, OnceInv, ExtStep, ~\E s \in Sockets : ExtHears(s)
    PROVE  OnceInv'
<1> DEFINE n == Len(asked)
<1>1. /\ UNCHANGED <<broker, decisions, asked, executed>>
      /\ n \in Nat /\ Good(sock, n) /\ Linked(sock, ext.socket)
      /\ ext.socket \in Sockets \cup {None} /\ WorkerTyped(ext)
  BY Asked DEF ExtStep, TimerFires, SetBrokerUrl, ConnectGoesOn, Heartbeat, Opened,
      ConnectFails, Announce, CollectSnapshot, Share, Unshare, CommandDone, ExtRevoke,
      WorkerRestart, IInv, ExtTyped, WorkerTyped
<1>2. Waiting' = Waiting
  BY <1>1 DEF Waiting
<1>3. /\ \A s \in Sockets : broker.socket = s => sock[s].auth
      /\ broker'.socket \in {None, broker.socket} /\ broker'.gen = broker.gen
  BY <1>1 DEF OnceInv, Ready
<1>4. CASE WorkerRestart
  <2>1. sock' = ExtCloses(sock, ext.socket)
    BY <1>4 DEF WorkerRestart
  <2>2. \A s \in Sockets : Calm(sock[s], sock'[s])
    BY <1>1, <2>1, CalmExtCloses
  <2>3. \A s \in Sockets : broker.socket = s => sock'[s].auth
    BY <1>1, <2>1, CloseIsHeard
  <2>4. \A s \in Sockets : sock'[s].e # "open" /\ sock'[s].down = <<>>
    BY <1>1, <2>1, ExtClosesIs DEF Linked, Good
  <2>5. \A s \in Sockets : sock'[s].e # "open" /\ Silent(sock'[s].down)
    BY <2>4, NothingOrdered DEF Silent
  <2>6. Len(asked') <= MaxCommands /\ DOMAIN asked \subseteq DOMAIN asked'
    BY <1>1 DEF OnceInv, History
  <2>7. QED
    BY <1>1, <1>2, <1>3, <2>2, <2>3, <2>5, <2>6, WaitingAsked, OnceKeeps
<1>5. ASSUME ext'.gen = ext.gen, ext'.handled = ext.handled,
             \A s \in Sockets : Calm(sock[s], sock'[s]),
             \A s \in Sockets : broker.socket = s => sock'[s].auth
      PROVE  OnceInv'
  BY <1>1, <1>2, <1>3, <1>5, OnceQuiet
<1>6. CASE TimerFires \/ SetBrokerUrl
  <2>1. UNCHANGED sock /\ ext'.gen = ext.gen /\ ext'.handled = ext.handled
    BY <1>1, <1>6 DEF TimerFires, SetBrokerUrl, WorkerTyped, Fields
  <2>2. QED
    BY <1>1, <1>3, <1>5, <2>1, CalmSame
<1>7. CASE \/ Heartbeat \/ Announce
           \/ \E t \in Tabs : CollectSnapshot(t) \/ Share(t) \/ Unshare(t)
           \/ \E c \in Ids : CommandDone(c)
  <2>1. sock' = sock \/ \E ms : sock' = Up(sock, ms)
    BY <1>7 DEF Heartbeat, Announce, CollectSnapshot, Share, Unshare, CommandDone
  <2>2. ext'.gen = ext.gen /\ ext'.handled = ext.handled
    BY <1>1, <1>7 DEF Heartbeat, Announce, CollectSnapshot, Share, Unshare, CommandDone,
                      WorkerTyped, Fields
  <2>3. QED
    BY <1>1, <1>3, <1>5, <2>1, <2>2, CalmSame, CalmUp
<1>8. CASE \E s \in Sockets : Opened(s)
  <2>1. PICK s \in Sockets : Opened(s)
    BY <1>8
  <2> DEFINE hello == <<IF ext.key # None THEN Message("authenticate", ext.key, 0)
                        ELSE Plain("request_pairing")>>
  <2>2. sock' = [sock EXCEPT ![s].e = "open", ![s].b = "open", ![s].up = hello]
        /\ sock[s].e = "connecting" /\ UNCHANGED ext
    BY <2>1 DEF Opened
  <2> HIDE DEF hello
  <2>3. sock[s] \in Socket(n) /\ sock[s].down = <<>> /\ sock[s].auth = FALSE
    BY <1>1, <2>2 DEF Good, Socket
  <2>4. /\ sock'[s] = [sock[s] EXCEPT !.e = "open", !.b = "open", !.up = hello]
        /\ \A r \in Sockets : r # s => sock'[r] = sock[r]
    BY <1>1, <2>2 DEF Good
  <2>5. sock'[s].down = <<>> /\ sock'[s].auth = FALSE
    BY <2>3, <2>4 DEF Socket
  <2>6. Calm(sock[s], sock'[s])
    BY <2>5, NothingOrdered DEF Calm, Silent
  <2>7. \A r \in Sockets : broker.socket = r => sock'[r].auth
    BY <1>3, <2>3, <2>4
  <2>8. QED
    BY <1>1, <1>5, <2>2, <2>4, <2>6, <2>7, CalmSame
<1>9. CASE \E s \in Sockets : ConnectFails(s)
  <2>1. PICK s \in Sockets : ConnectFails(s)
    BY <1>9
  <2>2. s # None /\ sock' = ExtCloses(sock, s)
    BY <2>1, NoneIsNoSocket DEF ConnectFails, ExtCloses
  <2>3. ext'.gen = ext.gen /\ ext'.handled = ext.handled
    BY <1>1, <2>1 DEF ConnectFails, Armed, WorkerTyped, Fields
  <2>4. QED
    BY <1>1, <1>5, <2>2, <2>3, CalmExtCloses, CloseIsHeard
<1>10. CASE ExtRevoke
  <2> DEFINE ms == ForEach(ext.tabs, "tab_unshared") \o <<Plain("unpair")>>
             k == Up(sock, ms)
  <2>1. sock' = ExtCloses(k, ext.socket)
    BY <1>10 DEF ExtRevoke
  <2>2. Good(k, n)
    <3>1. ForEach(ext.tabs, "tab_unshared") \in Seq(LiveMessages)
      BY <1>1, ForEachIsGood DEF Types, WorkerTyped
    <3>2. <<Plain("unpair")>> \in Seq(LiveMessages)
      BY PlainMessages, <1>1
    <3>3. ms \in Seq(LiveMessages)
      BY <3>1, <3>2, ConcatProperties
    <3>4. QED
      BY <1>1, <3>3, UpIsGood
  <2>3. \A r \in Sockets : /\ Calm(sock[r], k[r]) /\ k[r].e = sock[r].e
                           /\ k[r].b = sock[r].b /\ k[r].auth = sock[r].auth
    BY <1>1, CalmUp, UpIs
  <2> HIDE DEF k
  <2>4. \A r \in Sockets : Calm(k[r], sock'[r])
    BY <1>1, <2>1, <2>2, CalmExtCloses
  <2>5. \A r \in Sockets : Calm(sock[r], sock'[r])
    BY <2>3, <2>4, CalmTwice
  <2>6. \A r \in Sockets : broker.socket = r => sock'[r].auth
    BY <1>1, <2>1, <2>2, <2>3, CloseIsHeard
  <2>7. ext'.gen = ext.gen /\ ext'.handled = ext.handled
    BY <1>1, <1>10 DEF ExtRevoke, WorkerTyped, Fields
  <2>8. QED
    BY <1>5, <2>5, <2>6, <2>7
<1>11. CASE ConnectGoesOn
  <2> DEFINE k == Cleared(sock)
  <2>1. /\ Good(k, n) /\ \A r \in Sockets : Calm(sock[r], k[r])
        /\ \A r \in Sockets : broker.socket = r => k[r].auth
    BY <1>1, CalmExtCloses, CloseIsHeard, ExtClosesIsGood DEF Cleared
  <2> HIDE DEF k
  <2>2. ASSUME NEW x, WorkerTyped(x), x.gen = ext.gen, x.handled = ext.handled, Open(x)
        PROVE  OnceInv'
    <3>1. ext'.gen = ext.gen /\ ext'.handled = ext.handled
      BY <2>2 DEF Open, Armed, WorkerTyped, Fields
    <3>2. CASE sock' = k
      BY <1>5, <2>1, <3>1, <3>2
    <3>3. CASE \E s \in Sockets : k[s] = Free /\ sock' = [k EXCEPT ![s].e = "connecting"]
      <4>1. PICK s \in Sockets : k[s] = Free /\ sock' = [k EXCEPT ![s].e = "connecting"]
        BY <3>3
      <4>2. /\ sock'[s] = [k[s] EXCEPT !.e = "connecting"]
            /\ \A r \in Sockets : r # s => sock'[r] = k[r]
        BY <2>1, <4>1 DEF Good
      <4>3. /\ sock'[s].e = "connecting" /\ sock'[s].down = <<>> /\ sock'[s].auth = FALSE
            /\ k[s].auth = FALSE
        BY <4>1, <4>2 DEF Free
      <4>4. Calm(sock[s], sock'[s])
        BY <4>3, NothingOrdered DEF Calm, Silent
      <4>5. \A r \in Sockets : broker.socket = r => sock'[r].auth
        BY <2>1, <4>2, <4>3
      <4>6. QED
        BY <1>5, <2>1, <3>1, <4>2, <4>4, <4>5
    <3>4. QED
      BY <2>2, <3>2, <3>3 DEF Open, k
  <2>3. /\ WorkerTyped([ext EXCEPT !.retrying = @ - 1])
        /\ WorkerTyped([ext EXCEPT !.replacing = @ - 1])
        /\ [ext EXCEPT !.retrying = @ - 1].gen = ext.gen
        /\ [ext EXCEPT !.retrying = @ - 1].handled = ext.handled
        /\ [ext EXCEPT !.replacing = @ - 1].gen = ext.gen
        /\ [ext EXCEPT !.replacing = @ - 1].handled = ext.handled
    BY <1>1 DEF WorkerTyped, Fields
  <2>4. CASE ext' = [ext EXCEPT !.retrying = @ - 1] /\ UNCHANGED sock
    BY <1>1, <1>3, <1>5, <2>3, <2>4, CalmSame
  <2>5. QED
    BY <1>11, <2>2, <2>3, <2>4 DEF ConnectGoesOn
<1>12. QED
  BY <1>4, <1>6, <1>7, <1>8, <1>9, <1>10, <1>11 DEF ExtStep

\* The other sockets carry nothing to the extension while it hears one.
LEMMA OthersSilent ==
    ASSUME IInv, OnceInv, NEW s \in Sockets, sock[s].e = "open", sock' = Heard(s),
           UNCHANGED broker, NEW r \in Sockets, r # s
    PROVE  Ordered(sock[r])' /\ (broker'.socket = r => Ready(sock[r])')
<1>1. Len(asked) \in Nat /\ Good(sock, Len(asked))
  BY Asked DEF IInv
<1>2. sock'[r].e = sock[r].e /\ sock'[r].b = sock[r].b /\ sock'[r].auth = sock[r].auth
      /\ sock'[r].down = sock[r].down
  BY <1>1, HeardIs
<1>3. sock[r].e # "open" /\ sock[r].down = <<>>
  BY <1>1 DEF IInv, Linked, Good
<1>4. Ordered(sock[r])'
  BY <1>2, <1>3, NothingOrdered DEF OnceInv, Ordered
<1>5. broker'.socket = r => Ready(sock[r])'
  BY <1>2, <1>3 DEF OnceInv, Ready
<1>6. QED
  BY <1>4, <1>5

\* The extension hears of its connection: what is ordered on it comes after.
LEMMA OnceNews ==
    ASSUME IInv, OnceInv, NEW s \in Sockets, OnAuthenticated(s)
    PROVE  OnceInv'
<1> DEFINE n == Len(asked)
           q == sock[s].down
           g == Head(q).gen
<1>1. /\ UNCHANGED <<broker, decisions, asked, executed>> /\ sock' = Heard(s)
      /\ sock[s].e = "open" /\ q # <<>> /\ Head(q).type = "authenticated"
      /\ n \in Nat /\ Good(sock, n) /\ WorkerTyped(ext)
  BY Asked DEF OnAuthenticated, Hears, IInv, ExtTyped
<1>2. ext'.gen = g /\ ext'.handled = {}
  BY <1>1 DEF OnAuthenticated, WorkerTyped, Fields
<1>3. /\ sock'[s].e = sock[s].e /\ sock'[s].b = sock[s].b /\ sock'[s].auth = sock[s].auth
      /\ sock'[s].down = Tail(q)
  BY <1>1, HeardIs
<1>4. Ordered(sock[s]) /\ q \in Seq(DownMessages(n))
  BY <1>1 DEF OnceInv, Good, Socket
<1>5. /\ Early(Tail(q)) /\ Announced(Tail(q)) = {} /\ Orders(Tail(q)) \subseteq Orders(q)
      /\ g \in Announced(q)
  BY <1>1, <1>4, OrdersTail DEF Ordered
<1>6. Waiting' = Waiting /\ \A c : Under(c)' = Under(c)
  BY <1>1 DEF Waiting, Under
<1> HIDE DEF q, g, n
<1>7. ASSUME NEW h, Meets(q, h)
      PROVE  h = g /\ Meets(sock[s].down, h)'
  <2>1. h = g
    BY <1>5, <1>7 DEF Meets
  <2>2. QED
    BY <1>2, <1>3, <1>5, <2>1 DEF Meets
<1>8. ASSUME NEW c, NEW h, Safe(q, c, h)
      PROVE  Safe(sock[s].down, c, h)'
  <2>1. h \notin Under(c)'
    BY <1>5, <1>6, <1>8 DEF Safe
  <2>2. QED
    BY <2>1 DEF Safe
<1>9. Ordered(sock[s])'
  <2>1. ASSUME NEW m \in Orders(Tail(q))
        PROVE  /\ Meets(sock[s].down, m.gen)' /\ Safe(sock[s].down, m.arg, m.gen)'
               /\ m.arg \in Waiting' => m.gen <= broker'.gen
    <3>1. /\ Meets(q, m.gen) /\ Safe(q, m.arg, m.gen)
          /\ m.arg \in Waiting => m.gen <= broker.gen
      BY <1>4, <1>5, <2>1 DEF Ordered, q
    <3>2. QED
      BY <1>1, <1>6, <1>7, <1>8, <3>1
  <2>2. ~sock[s].auth /\ sock[s].b # "dead" => FALSE
    BY <1>4, <1>5 DEF Ordered, q
  <2>3. QED
    BY <1>3, <1>4, <1>5, <2>1, <2>2 DEF Ordered
<1>10. ASSUME broker'.socket = s PROVE Ready(sock[s])'
  <2>1. Ready(sock[s])
    BY <1>1, <1>10 DEF OnceInv
  <2>2. ASSUME sock[s].b = "open"
        PROVE  /\ Meets(sock[s].down, broker.gen)'
               /\ \A c \in Waiting' : Safe(sock[s].down, c, broker.gen)'
    <3>1. Meets(q, broker.gen) /\ \A c \in Waiting : Safe(q, c, broker.gen)
      BY <1>1, <2>1, <2>2 DEF Ready, q
    <3>2. Meets(sock[s].down, broker.gen)'
      BY <1>1, <1>7, <3>1
    <3>3. ASSUME NEW c \in Waiting' PROVE Safe(sock[s].down, c, broker.gen)'
      BY <1>1, <1>6, <1>8, <3>1
    <3>4. QED
      BY <3>2, <3>3
  <2>3. QED
    BY <1>3, <2>1, <2>2 DEF Ready
<1>11. History'
  <2>1. ExecutedOncePerConnection'
    BY <1>1 DEF OnceInv, History, ExecutedOncePerConnection
  <2>2. QED
    BY <1>1, <1>6, <2>1 DEF OnceInv, History
<1>12. ASSUME NEW r \in Sockets, r # s
       PROVE  Ordered(sock[r])' /\ (broker'.socket = r => Ready(sock[r])')
  BY <1>1, <1>12, OthersSilent
<1>13. QED
  BY <1>9, <1>10, <1>11, <1>12 DEF OnceInv

\* The extension is ordered an operation: it is on the connection the order was sent on and
\* knows what it carried out on it.
LEMMA OnceRuns ==
    ASSUME IInv, OnceInv, NEW s \in Sockets, OnCommand(s)
    PROVE  OnceInv'
<1> DEFINE n == Len(asked)
           q == sock[s].down
<1>0. PICK c, g : c = Head(q).arg /\ g = Head(q).gen
  OBVIOUS
<1> DEFINE runs == g = ext.gen /\ c \notin ext.handled /\ asked[c] \in ext.tabs
<1>1. /\ UNCHANGED <<broker, decisions, asked>> /\ sock' = Heard(s)
      /\ sock[s].e = "open" /\ q # <<>> /\ Head(q).type = "command"
      /\ n \in Nat /\ Good(sock, n) /\ WorkerTyped(ext)
      /\ executed' = IF runs THEN [executed EXCEPT ![c] = Append(@, ext.gen)] ELSE executed
  BY <1>0, Asked DEF OnCommand, Hears, News, IInv, ExtTyped
<1>2. /\ ext'.gen = ext.gen /\ ext.handled \subseteq ext'.handled
      /\ runs => c \in ext'.handled
  BY <1>0, <1>1 DEF OnCommand, News, Handled, WorkerTyped, Fields
<1>3. /\ sock'[s].e = sock[s].e /\ sock'[s].b = sock[s].b /\ sock'[s].auth = sock[s].auth
      /\ sock'[s].down = Tail(q)
  BY <1>1, HeardIs
<1>4. Ordered(sock[s]) /\ q \in Seq(DownMessages(n)) /\ Head(q) \in DownMessages(n)
  BY <1>1, HeadTailProperties DEF OnceInv, Good, Socket
<1>5. /\ Early(Tail(q)) /\ Announced(Tail(q)) = {} /\ Announced(q) = {}
      /\ Orders(Tail(q)) \subseteq Orders(q) /\ Head(q) \in Orders(q)
  BY <1>1, <1>4, OrdersTail DEF Ordered
<1>6. /\ ext.gen = g /\ (g \in Under(c) => c \in ext.handled)
      /\ c \in Waiting => g <= broker.gen
  BY <1>0, <1>4, <1>5 DEF Ordered, Meets, Safe
<1>7. c \in Ids /\ c \in DOMAIN asked /\ g \in Nat
  <2>1. c \in 1..n /\ g \in Nat
    BY <1>0, <1>1, <1>4 DEF DownMessages, Messages
  <2>2. n <= MaxCommands /\ DOMAIN asked = 1..n
    BY Asked DEF OnceInv, History
  <2>3. QED
    BY <1>1, <2>1, <2>2, BoundsAssumption DEF Ids
<1>8. executed \in [Ids -> Seq(Nat)] /\ Waiting' = Waiting
  BY <1>1 DEF OnceInv, History, Waiting
<1> HIDE DEF q, n, runs
<1>9. ASSUME runs
      PROVE  /\ executed' \in [Ids -> Seq(Nat)]
             /\ executed'[c] = Append(executed[c], g) /\ g \notin Under(c)
             /\ \A d \in Ids : d # c => executed'[d] = executed[d]
             /\ Under(c)' = Under(c) \cup {g}
  <2>1. executed' = [executed EXCEPT ![c] = Append(@, g)] /\ executed[c] \in Seq(Nat)
    BY <1>1, <1>6, <1>7, <1>8, <1>9
  <2>2. Append(executed[c], g) \in Seq(Nat)
    BY <1>7, <2>1, AppendProperties
  <2>3. Range(Append(executed[c], g)) = Range(executed[c]) \cup {g}
    BY <1>7, <2>1, RangeAppend
  <2>4. executed'[c] = Append(executed[c], g)
    BY <1>7, <1>8, <2>1
  <2>5. g \notin Under(c)
    BY <1>6, <1>9 DEF runs
  <2>6. QED
    BY <1>7, <1>8, <2>1, <2>2, <2>3, <2>4, <2>5 DEF Under
<1>10. executed' \in [Ids -> Seq(Nat)]
  BY <1>1, <1>8, <1>9
<1>11. ASSUME NEW d \in Ids, NEW h \in Under(d)'
       PROVE  h \in Under(d) \/ (runs /\ d = c /\ h = g)
  <2>1. CASE runs
    BY <1>9, <1>11, <2>1 DEF Under
  <2>2. CASE ~runs
    BY <1>1, <1>11, <2>2 DEF Under
  <2>3. QED
    BY <2>1, <2>2
<1>12. ExecutedOncePerConnection'
  <2>1. ASSUME NEW d \in Ids, NEW i \in DOMAIN executed'[d], NEW j \in DOMAIN executed'[d],
               executed'[d][i] = executed'[d][j]
        PROVE  i = j
    <3>1. CASE executed'[d] = executed[d]
      BY <2>1, <3>1 DEF OnceInv, History, ExecutedOncePerConnection
    <3>2. CASE runs /\ d = c
      <4> DEFINE e == executed[c]
      <4>1. e \in Seq(Nat) /\ g \in Nat /\ executed'[d] = Append(e, g) /\ g \notin Range(e)
        BY <1>7, <1>8, <1>9, <3>2 DEF Under
      <4>2. \A k, l \in DOMAIN e : e[k] = e[l] => k = l
        BY <1>7 DEF OnceInv, History, ExecutedOncePerConnection
      <4> HIDE DEF e
      <4>3. /\ DOMAIN e = 1..Len(e) /\ Len(e) \in Nat
            /\ DOMAIN Append(e, g) = 1..(Len(e) + 1) /\ Append(e, g)[Len(e) + 1] = g
            /\ \A k \in 1..Len(e) : Append(e, g)[k] = e[k]
        BY <4>1, AppendProperties, LenProperties
      <4>4. \A k \in 1..Len(e) : e[k] # g
        BY <4>1, <4>3 DEF Range
      <4>5. QED
        BY <2>1, <4>1, <4>2, <4>3, <4>4
    <3>3. QED
      BY <1>1, <1>9, <3>1, <3>2
  <2>2. QED
    BY <2>1 DEF ExecutedOncePerConnection
<1>13. History'
  <2>1. \A d \in Ids : Under(d)' # {} => d \in DOMAIN asked'
    BY <1>1, <1>7, <1>11 DEF OnceInv, History
  <2>2. \A d \in Waiting' : \A h \in Under(d)' : h <= broker'.gen
    BY <1>1, <1>6, <1>8, <1>11, WaitingAsked DEF OnceInv, History
  <2>3. Len(asked') <= MaxCommands
    BY <1>1 DEF OnceInv, History
  <2>4. QED
    BY <1>10, <1>12, <2>1, <2>2, <2>3 DEF History
<1>14. ASSUME NEW d \in Ids, NEW h, Safe(q, d, h)
       PROVE  Safe(sock[s].down, d, h)'
  <2>1. ASSUME h \in Under(d)' PROVE d \in ext'.handled
    BY <1>2, <1>11, <1>14, <2>1 DEF Safe
  <2>2. QED
    BY <1>3, <1>5, <2>1 DEF Safe
<1>15. ASSUME NEW h, Meets(q, h) PROVE Meets(sock[s].down, h)'
  BY <1>2, <1>3, <1>5, <1>15 DEF Meets
<1>16. Ordered(sock[s])'
  <2>1. ASSUME NEW m \in Orders(Tail(q))
        PROVE  /\ Meets(sock[s].down, m.gen)' /\ Safe(sock[s].down, m.arg, m.gen)'
               /\ m.arg \in Waiting' => m.gen <= broker'.gen
    <3>1. /\ Meets(q, m.gen) /\ Safe(q, m.arg, m.gen)
          /\ m.arg \in Waiting => m.gen <= broker.gen
      BY <1>4, <1>5, <2>1 DEF Ordered, q
    <3>2. m.arg \in Ids
      <4>1. m \in DownMessages(n) /\ m.type = "command"
        BY <1>4, <1>5, <2>1, RangeOfSeq DEF Orders
      <4>2. n <= MaxCommands
        BY DEF OnceInv, History, n
      <4>3. QED
        BY <1>1, <4>1, <4>2, BoundsAssumption DEF DownMessages, Ids
    <3>3. QED
      BY <1>1, <1>8, <1>14, <1>15, <3>1, <3>2
  <2>2. ~sock[s].auth /\ sock[s].b # "dead" => FALSE
    BY <1>4, <1>5 DEF Ordered, q
  <2>3. QED
    BY <1>3, <1>4, <1>5, <2>1, <2>2 DEF Ordered
<1>17. ASSUME broker'.socket = s PROVE Ready(sock[s])'
  <2>1. Ready(sock[s])
    BY <1>1, <1>17 DEF OnceInv
  <2>2. ASSUME sock[s].b = "open"
        PROVE  /\ Meets(sock[s].down, broker.gen)'
               /\ \A d \in Waiting' : Safe(sock[s].down, d, broker.gen)'
    <3>1. Meets(q, broker.gen) /\ \A d \in Waiting : Safe(q, d, broker.gen)
      BY <1>1, <2>1, <2>2 DEF Ready, q
    <3>2. Meets(sock[s].down, broker.gen)'
      BY <1>1, <1>15, <3>1
    <3>3. ASSUME NEW d \in Waiting' PROVE Safe(sock[s].down, d, broker.gen)'
      BY <1>1, <1>8, <1>14, <3>1, WaitingAsked
    <3>4. QED
      BY <3>2, <3>3
  <2>3. QED
    BY <1>3, <2>1, <2>2 DEF Ready
<1>18. ASSUME NEW r \in Sockets, r # s
       PROVE  Ordered(sock[r])' /\ (broker'.socket = r => Ready(sock[r])')
  BY <1>1, <1>18, OthersSilent
<1>19. QED
  BY <1>13, <1>16, <1>17, <1>18 DEF OnceInv

\* The other messages of the broker.
LEMMA OnceHears ==
    ASSUME IInv, OnceInv, NEW s \in Sockets,
           OnPaired(s) \/ OnSnapshotRequest(s) \/ OnError(s) \/ OnClose(s)
    PROVE  OnceInv'
<1> DEFINE n == Len(asked)
<1>1. /\ UNCHANGED <<broker, decisions, asked, executed>>
      /\ n \in Nat /\ Good(sock, n) /\ WorkerTyped(ext)
  BY Asked DEF OnPaired, OnSnapshotRequest, OnError, OnClose, IInv, ExtTyped
<1>2. ext'.gen = ext.gen /\ ext'.handled = ext.handled
  BY <1>1 DEF OnPaired, OnSnapshotRequest, OnError, OnClose, Forgot, Armed,
              WorkerTyped, Fields
<1>3. Waiting' = Waiting
  BY <1>1 DEF Waiting
<1>4. ASSUME \A r \in Sockets : Calm(sock[r], sock'[r]),
             \A r \in Sockets : broker.socket = r => sock'[r].auth
      PROVE  OnceInv'
  BY <1>1, <1>2, <1>3, <1>4, OnceQuiet
<1>5. CASE OnError(s) \/ OnClose(s)
  <2>1. sock' = ExtCloses(sock, s)
    BY <1>5 DEF OnError, OnClose
  <2>2. QED
    BY <1>1, <1>4, <2>1, CalmExtCloses, CloseIsHeard
<1>6. CASE OnPaired(s) \/ OnSnapshotRequest(s)
  <2> DEFINE k == Heard(s)
  <2>1. PICK type : Hears(s, type) /\ type \notin {"authenticated", "command"}
    BY <1>6 DEF OnPaired, OnSnapshotRequest
  <2>2. Good(k, n) /\ \A r \in Sockets : Calm(sock[r], k[r]) /\ k[r].auth = sock[r].auth
    BY <1>1, <2>1, HeardIsGood, CalmHeard
  <2>3. sock' = k \/ \E ms : sock' = Up(k, ms)
    BY <1>6 DEF OnPaired, OnSnapshotRequest
  <2> HIDE DEF k
  <2>4. \A r \in Sockets : Calm(k[r], sock'[r]) /\ sock'[r].auth = k[r].auth
    BY <1>1, <2>2, <2>3, CalmSame, CalmUp
  <2>5. \A r \in Sockets : Calm(sock[r], sock'[r])
    BY <2>2, <2>4, CalmTwice
  <2>6. \A r \in Sockets : broker.socket = r => sock'[r].auth
    BY <2>2, <2>4 DEF OnceInv, Ready
  <2>7. QED
    BY <1>4, <2>5, <2>6
<1>7. QED
  BY <1>5, <1>6

\* Every step keeps the invariant.
LEMMA OnceNext == IInv /\ OnceInv /\ [Next]_vars => OnceInv'
<1> SUFFICES ASSUME IInv, OnceInv, [Next]_vars PROVE OnceInv'
  OBVIOUS
<1>1. CASE BrokerStep
  BY <1>1, OnceBroker
<1>2. CASE ExtStep
  BY <1>2, OnceNews, OnceRuns, OnceHears, OnceExtOwn DEF ExtHears
<1>3. CASE UNCHANGED vars
  <2>1. UNCHANGED <<ext, asked, executed, sock, broker, decisions>>
    BY <1>3 DEF vars
  <2>2. Waiting' = Waiting
    BY <2>1 DEF Waiting
  <2>3. QED
    BY <2>1, <2>2, OnceBrokerOwn
<1>4. QED
  BY <1>1, <1>2, <1>3 DEF Next

\* On one connection an operation is carried out at most once: however many decisions on
\* one approval are under way (the approval is looked up before the body is awaited), and
\* however closes, restarts of either side and renewed connections fall between them.
THEOREM CarriedOutOnce == Spec => []ExecutedOncePerConnection
<1>1. OnceInv => ExecutedOncePerConnection
  BY DEF OnceInv, History
<1>2. IInv /\ OnceInv /\ [Next]_vars => OnceInv'
  BY OnceNext
<1>3. QED
  BY <1>1, <1>2, OnceInit, IInvAlways, PTL DEF Spec

=============================================================================
