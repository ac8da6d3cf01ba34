--------------------------- MODULE BrowserBridge ---------------------------
(***************************************************************************)
(* The browser bridge: the broker in the host process                       *)
(* (browser-bridge/broker/server.mjs), the extension's service worker       *)
(* (browser-bridge/extension/background.mjs) and the WebSockets between     *)
(* them.  The agent asks for operations on a shared tab, a human allows     *)
(* each of them, the extension carries it out and reports.                  *)
(*                                                                         *)
(* One extension origin.  Both sides run to completion between two awaits;  *)
(* chrome.storage answers at once, except in connect, which looks at its    *)
(* socket again after it.  Cached snapshots and screenshots, the audit log  *)
(* and what only the popup shows are left out.                              *)
(***************************************************************************)
EXTENDS Integers, Sequences, FiniteSets, SequencesExt

CONSTANTS
    Tabs,             \* ids of shared tabs; each share draws a fresh one
    FirstTabs,        \* those in chrome.storage when the story begins
    MaxSockets,       \* bound on the WebSockets alive at once
    MaxCommands,      \* bound on the operations asked for
    MaxPosts,         \* bound on the decisions under way on one approval
    MaxSnapshots,     \* bound on the snapshots asked for
    MaxGenerations,   \* bound on the connections made to announce tabs again
    MaxDisturbances   \* bound on restarts, revocations, failures and new URLs

ASSUME TabsAssumption == IsFiniteSet(Tabs) /\ FirstTabs \subseteq Tabs
ASSUME BoundsAssumption == /\ MaxSockets \in Nat /\ MaxCommands \in Nat
                           /\ MaxPosts \in Nat /\ MaxSnapshots \in Nat
                           /\ MaxGenerations \in Nat /\ MaxDisturbances \in Nat

VARIABLES
    broker,      \* the broker's maps and variables
    decisions,   \* POSTs of decisions whose body is being read: how many, by approval
    ext,         \* the service worker's variables
    sock,        \* the WebSockets: their two ends and the messages under way
    asked,       \* the tab of each operation asked for
    executed,    \* history: the generations under which each was carried out
    snapshots,   \* snapshots asked for so far
    disturbed    \* disturbances so far

vars == <<broker, decisions, ext, sock, asked, executed, snapshots, disturbed>>

Ids == 1..MaxCommands
Sockets == 1..MaxSockets
None == 0

\* An end of a WebSocket: not there, opening, open, or closed before the other.
Free == [e |-> "none", b |-> "none", auth |-> FALSE, up |-> <<>>, down |-> <<>>]

NoPost == [open |-> FALSE, socket |-> None]
NoDecisions == [posts |-> [c \in Ids |-> 0], pairing |-> NoPost]

\* Paired, and no connection yet: what load() finds when the browser starts.
Init ==
    /\ broker = [socket |-> None, gen |-> 0, key |-> 1, lastKey |-> 1, tabs |-> {},
                 approvals |-> {}, dispatched |-> [c \in {} |-> 0],
                 snaps |-> {}, requests |-> {}]
    /\ decisions = NoDecisions
    /\ ext = [socket |-> None, gen |-> 0, key |-> 1, tabs |-> FirstTabs, stale |-> {},
              fresh |-> Tabs \ FirstTabs, handled |-> {}, running |-> {},
              snapping |-> {}, announcing |-> 0, armed |-> TRUE,
              retrying |-> 0, replacing |-> 0]
    /\ sock = [s \in Sockets |-> Free]
    /\ asked = <<>>
    /\ executed = [c \in Ids |-> <<>>]
    /\ snapshots = 0
    /\ disturbed = 0

Disturb == disturbed < MaxDisturbances /\ disturbed' = disturbed + 1

-----------------------------------------------------------------------------
(* WebSockets.  The extension hears nothing on a socket it has closed; the    *)
(* broker still hears what was under way on one that it has closed.           *)

Message(type, arg, gen) == [type |-> type, arg |-> arg, gen |-> gen]
Plain(type) == Message(type, None, 0)

\* socket.send by the broker: nothing unless both ends are open.
Down(k, s, m) ==
    IF s # None /\ k[s].e = "open" /\ k[s].b = "open"
    THEN [k EXCEPT ![s].down = Append(@, m)] ELSE k

\* send() by the extension, of some messages: on its current socket, if open.
Up(k, ms) ==
    LET s == ext.socket IN
    IF s # None /\ k[s].e = "open" /\ k[s].b # "dead"
    THEN [k EXCEPT ![s].up = @ \o ms] ELSE k

ForEach(tabs, type) ==
    LET order == SetToSeq(tabs)
    IN  [i \in DOMAIN order |-> Message(type, order[i], 0)]

BrokerCloses(k, s) ==
    IF s # None /\ k[s].b = "open"
    THEN [Down(k, s, Plain("close")) EXCEPT ![s].b = "closing"] ELSE k

\* The extension's end goes, by close() or in answer to the broker's close.
ExtCloses(k, s) ==
    IF s = None THEN k
    ELSE IF k[s].e = "connecting" \/ k[s].b = "dead" THEN [k EXCEPT ![s] = Free]
    ELSE [k EXCEPT ![s].e = "gone", ![s].down = <<>>, ![s].up = Append(@, Plain("close"))]

\* rejectSocket
Rejected(k, s) == BrokerCloses(Down(k, s, Plain("error")), s)

-----------------------------------------------------------------------------
(* The broker: messages of the extension *)

\* What the extension sends of a tab: its id, title and https: origin; the same
\* with an http: origin; or its entry in chrome.storage, browserTabId and all.
TabForms == {"tab_shared", "tab_http", "tab_entry"}

\* validSharedTab: no key but id, origin and title, and an https: origin.
ValidSharedTab(m) == m.type = "tab_shared"

\* The broker takes the next message of socket s.
Takes(s, type) ==
    /\ sock[s].b \in {"open", "closing"}
    /\ sock[s].up # <<>>
    /\ Head(sock[s].up).type = type

Arg(s) == Head(sock[s].up).arg
Taken(s) == [sock EXCEPT ![s].up = Tail(@)]

\* A message that is not expected on this socket.
Refuse(s) ==
    /\ sock' = Rejected(Taken(s), s)
    /\ UNCHANGED broker

\* Seeded bug: the connection there was stays open.
NotReplaced(k) == k

\* extensionSocket?.close(1000, 'replaced')
Replaced(k) == BrokerCloses(k, broker.socket)

\* A valid key replaces the connection there was.
Authenticate(s) ==
    /\ Takes(s, "authenticate")
    /\ IF ~sock[s].auth /\ broker.key # None /\ Arg(s) = broker.key
       THEN /\ broker' = [broker EXCEPT !.socket = s, !.gen = @ + 1]
            /\ sock' = Down([Replaced(Taken(s)) EXCEPT ![s].auth = TRUE],
                            s, Message("authenticated", None, broker.gen + 1))
       ELSE Refuse(s)
    /\ UNCHANGED <<decisions, ext, asked, executed, snapshots, disturbed>>

\* Seeded bug: every request waits for a human.
NeverReissues(key) == FALSE

\* An origin that is paired is told its key again.
Reissues(key) == key # None

\* A paired origin gets its key again; any other waits for a human.
RequestPairing(s) ==
    /\ Takes(s, "request_pairing")
    /\ IF sock[s].auth THEN Refuse(s)
       ELSE IF Reissues(broker.key)
       THEN /\ sock' = Down(Taken(s), s, Message("paired", broker.key, 0))
            /\ UNCHANGED broker
       ELSE /\ sock' = Taken(s)
            /\ broker' = [broker EXCEPT !.requests = @ \cup {s}]
    /\ UNCHANGED <<decisions, ext, asked, executed, snapshots, disturbed>>

Unpair(s) ==
    /\ Takes(s, "unpair")
    /\ IF sock[s].auth
       THEN /\ broker' = [broker EXCEPT !.key = None]
            /\ sock' = BrokerCloses(Taken(s), s)
       ELSE Refuse(s)
    /\ UNCHANGED <<decisions, ext, asked, executed, snapshots, disturbed>>

\* A tab that is not valid costs the connection.
TabShared(s) ==
    /\ \E form \in TabForms : Takes(s, form)
    /\ IF sock[s].auth /\ ValidSharedTab(Head(sock[s].up))
       THEN /\ broker' = [broker EXCEPT !.tabs = @ \cup {Arg(s)}]
            /\ sock' = Taken(s)
       ELSE Refuse(s)
    /\ UNCHANGED <<decisions, ext, asked, executed, snapshots, disturbed>>

\* Seeded bug: the approvals of the tab stay.
WithoutTabOnly(b, t) == [b EXCEPT !.tabs = @ \ {t}]

WithoutTab(b, t) ==
    [b EXCEPT !.tabs = @ \ {t}, !.approvals = {c \in @ : asked[c] # t}]

TabUnshared(s) ==
    /\ Takes(s, "tab_unshared")
    /\ IF sock[s].auth
       THEN /\ broker' = WithoutTab(broker, Arg(s))
            /\ sock' = Taken(s)
       ELSE Refuse(s)
    /\ UNCHANGED <<decisions, ext, asked, executed, snapshots, disturbed>>

\* A snapshot answers whoever waits for one of its tab.
Snapshot(s) ==
    /\ Takes(s, "snapshot")
    /\ IF sock[s].auth /\ Arg(s) \in broker.tabs
       THEN /\ broker' = [broker EXCEPT !.snaps = @ \ {Arg(s)}]
            /\ sock' = Taken(s)
       ELSE Refuse(s)
    /\ UNCHANGED <<decisions, ext, asked, executed, snapshots, disturbed>>

Undispatched(b, c) ==
    [b EXCEPT !.dispatched = [d \in DOMAIN @ \ {c} |-> @[d]]]

\* A result of another generation costs the connection; a late one is dropped.
Result(s) ==
    /\ Takes(s, "result")
    /\ IF ~sock[s].auth \/ /\ Arg(s) \in DOMAIN broker.dispatched
                           /\ broker.dispatched[Arg(s)] # Head(sock[s].up).gen
       THEN Refuse(s)
       ELSE /\ broker' = Undispatched(broker, Arg(s))
            /\ sock' = Taken(s)
    /\ UNCHANGED <<decisions, ext, asked, executed, snapshots, disturbed>>

HeartbeatTaken(s) ==
    /\ Takes(s, "heartbeat")
    /\ IF sock[s].auth THEN sock' = Taken(s) /\ UNCHANGED broker ELSE Refuse(s)
    /\ UNCHANGED <<decisions, ext, asked, executed, snapshots, disturbed>>

\* Seeded bug: the operations dispatched on the connection stay.
DisconnectedKeepsDispatched(b) ==
    [b EXCEPT !.socket = None, !.tabs = {}, !.approvals = {}, !.snaps = {}]

\* What the broker keeps when its connection has closed.
Disconnected(b) ==
    [b EXCEPT !.socket = None, !.tabs = {}, !.approvals = {},
              !.dispatched = [c \in {} |-> 0], !.snaps = {}]

\* A pairing decision outlives the socket of its request.
WithoutSocket(s) ==
    [decisions EXCEPT !.pairing.socket = IF @ = s THEN None ELSE @]

\* Seeded bug: a connection that was replaced clears the maps of the new one.
AnyConnection(s) == sock[s].auth

IsConnection(s) == sock[s].auth /\ broker.socket = s

\* Both close handlers.  The one of a connection that was replaced or revoked
\* leaves the maps alone.
SocketClosed(s) ==
    /\ Takes(s, "close")
    /\ LET b == [broker EXCEPT !.requests = @ \ {s}]
       IN  broker' = IF IsConnection(s) THEN Disconnected(b) ELSE b
    /\ sock' = [sock EXCEPT ![s] = Free]
    /\ decisions' = WithoutSocket(s)
    /\ UNCHANGED <<ext, asked, executed, snapshots, disturbed>>

BrokerTakes(s) ==
    \/ Authenticate(s) \/ RequestPairing(s) \/ Unpair(s) \/ TabShared(s)
    \/ TabUnshared(s) \/ Snapshot(s) \/ Result(s) \/ HeartbeatTaken(s) \/ SocketClosed(s)

-----------------------------------------------------------------------------
(* The broker: timers, and requests of the agent and of the WebUI *)

PairingExpires(s) ==
    /\ s \in broker.requests
    /\ broker' = [broker EXCEPT !.requests = @ \ {s}]
    /\ sock' = Rejected(sock, s)
    /\ UNCHANGED <<decisions, ext, asked, executed, snapshots, disturbed>>

\* The request is looked up, then the body is awaited.
PairingDecisionArrives(s) ==
    /\ ~decisions.pairing.open
    /\ s \in broker.requests
    /\ decisions' = [decisions EXCEPT !.pairing = [open |-> TRUE, socket |-> s]]
    /\ UNCHANGED <<broker, ext, sock, asked, executed, snapshots, disturbed>>

\* A request that is gone by now is granted all the same.
AllowPairing ==
    LET s == decisions.pairing.socket IN
    /\ decisions.pairing.open
    /\ broker' = [broker EXCEPT !.requests = @ \ {s}, !.lastKey = @ + 1,
                               !.key = broker.lastKey + 1]
    /\ sock' = Down(sock, s, Message("paired", broker.lastKey + 1, 0))
    /\ decisions' = [decisions EXCEPT !.pairing = NoPost]
    /\ UNCHANGED <<ext, asked, executed, snapshots, disturbed>>

DenyPairing ==
    LET s == decisions.pairing.socket IN
    /\ decisions.pairing.open
    /\ broker' = [broker EXCEPT !.requests = @ \ {s}]
    /\ sock' = BrokerCloses(sock, s)
    /\ decisions' = [decisions EXCEPT !.pairing = NoPost]
    /\ UNCHANGED <<ext, asked, executed, snapshots, disturbed>>

\* A click, a text, a navigation: all of them wait for an approval.
Ask(t) ==
    /\ Len(asked) < MaxCommands
    /\ broker.socket # None
    /\ t \in broker.tabs
    /\ asked' = Append(asked, t)
    /\ broker' = [broker EXCEPT !.approvals = @ \cup {Len(asked) + 1}]
    /\ UNCHANGED <<decisions, ext, sock, executed, snapshots, disturbed>>

ApprovalExpires(c) ==
    /\ c \in broker.approvals
    /\ broker' = [broker EXCEPT !.approvals = @ \ {c}]
    /\ UNCHANGED <<decisions, ext, sock, asked, executed, snapshots, disturbed>>

\* The approval is looked up, then the body is awaited; it is not looked up again.
DecisionArrives(c) ==
    /\ decisions.posts[c] < MaxPosts
    /\ c \in broker.approvals
    /\ decisions' = [decisions EXCEPT !.posts[c] = @ + 1]
    /\ UNCHANGED <<broker, ext, sock, asked, executed, snapshots, disturbed>>

Dispatchable(c) == broker.socket # None /\ asked[c] \in broker.tabs

Dispatched(b, c) ==
    [b EXCEPT !.dispatched = [d \in DOMAIN @ \cup {c} |-> IF d = c THEN b.gen ELSE @[d]]]

Decide(c) ==
    LET b == [broker EXCEPT !.approvals = @ \ {c}] IN
        /\ decisions.posts[c] > 0
        /\ decisions' = [decisions EXCEPT !.posts[c] = @ - 1]
        /\ \/ /\ Dispatchable(c)
              /\ broker' = Dispatched(b, c)
              /\ sock' = Down(sock, broker.socket, Message("command", c, broker.gen))
           \/ /\ broker' = b     \* denied, or there is nobody to send it to
              /\ UNCHANGED sock
        /\ UNCHANGED <<ext, asked, executed, snapshots, disturbed>>

CommandExpires(c) ==
    /\ c \in DOMAIN broker.dispatched
    /\ broker' = Undispatched(broker, c)
    /\ UNCHANGED <<decisions, ext, sock, asked, executed, snapshots, disturbed>>

\* A second request for the same tab shares the answer of the first.
RequestSnapshot(t) ==
    LET s == broker.socket IN
    /\ s # None
    /\ t \in broker.tabs \ broker.snaps
    /\ snapshots < MaxSnapshots /\ snapshots' = snapshots + 1
    /\ broker' = [broker EXCEPT !.snaps = @ \cup {t}]
    /\ sock' = Down(sock, s, Message("snapshot_request", t, 0))
    /\ UNCHANGED <<decisions, ext, asked, executed, disturbed>>

SnapshotExpires(t) ==
    /\ t \in broker.snaps
    /\ broker' = [broker EXCEPT !.snaps = @ \ {t}]
    /\ UNCHANGED <<decisions, ext, sock, asked, executed, snapshots, disturbed>>

\* The user withdraws the pairing in the WebUI.  Callers of a snapshot go on waiting.
Revoke ==
    LET s == broker.socket
        live == s # None /\ sock[s].b = "open"
    IN  /\ Disturb
        /\ broker' = [broker EXCEPT !.key = None, !.tabs = {}, !.approvals = {},
                                   !.dispatched = [c \in {} |-> 0],
                                   !.socket = IF live THEN None ELSE @]
        /\ sock' = BrokerCloses(sock, s)
        /\ UNCHANGED <<decisions, ext, asked, executed, snapshots>>

\* The host restarts; the pairing is read from its file.
BrokerRestart ==
    /\ Disturb
    /\ broker' = [Disconnected(broker) EXCEPT !.gen = 0, !.requests = {}]
    /\ decisions' = NoDecisions
    /\ sock' = [s \in Sockets |->
                  IF sock[s].e = "gone" THEN Free
                  ELSE IF sock[s].e = "open"
                  THEN [BrokerCloses(sock, s)[s] EXCEPT !.b = "dead", !.auth = FALSE,
                                                        !.up = <<>>]
                  ELSE sock[s]]
    /\ UNCHANGED <<ext, asked, executed, snapshots>>

-----------------------------------------------------------------------------
(* The extension: its connection *)

\* armReconnect
Armed(x) == [x EXCEPT !.armed = TRUE]

\* The backoff of 500 ms and more is longer than what the loopback interface and
\* chrome.tabs take: by its end the broker has seen the closed sockets close.
BackedOff == ext.announcing = 0 /\ \A s \in Sockets : sock[s].e # "gone"

\* The timer fires; connect() waits for its backoff to be stored, unless there
\* is a socket already.  The bound cuts the reconnects that announce a tab again,
\* for the broker refuses them and there is no end to them.
TimerFires ==
    /\ ext.armed
    /\ BackedOff
    /\ ext.tabs = {} \/ broker.gen < MaxGenerations
    /\ ext' = [ext EXCEPT !.armed = FALSE,
                         !.retrying = IF ext.socket = None THEN @ + 1 ELSE @]
    /\ UNCHANGED <<broker, decisions, sock, asked, executed, snapshots, disturbed>>

\* The user sets the broker's URL: connect({ replace: true }).
SetBrokerUrl ==
    /\ Disturb
    /\ ext' = [ext EXCEPT !.armed = FALSE, !.replacing = @ + 1]
    /\ UNCHANGED <<broker, decisions, sock, asked, executed, snapshots>>

\* Seeded bug: the socket that is replaced stays open.
KeptOpen(k) == k

\* The current socket goes before the new one comes.
Cleared(k) == ExtCloses(k, ext.socket)

\* A new socket takes the place of the current one; or its constructor throws.
Open(x) ==
    LET k == Cleared(sock) IN
    \/ \E s \in Sockets :
          /\ k[s] = Free /\ \A r \in Sockets : k[r] = Free => s <= r
          /\ sock' = [k EXCEPT ![s].e = "connecting"]
          /\ ext' = [x EXCEPT !.socket = s]
          /\ UNCHANGED disturbed
    \/ /\ Disturb
       /\ sock' = k
       /\ ext' = Armed([x EXCEPT !.socket = None])

ConnectGoesOn ==
    /\ \/ /\ ext.retrying > 0
          /\ LET x == [ext EXCEPT !.retrying = @ - 1] IN
             IF ext.socket # None
             THEN ext' = x /\ UNCHANGED <<sock, disturbed>>
             ELSE Open(x)
       \/ /\ ext.replacing > 0
          /\ Open([ext EXCEPT !.replacing = @ - 1])
    /\ UNCHANGED <<broker, decisions, asked, executed, snapshots>>

Opened(s) ==
    /\ sock[s].e = "connecting"
    /\ sock' = [sock EXCEPT ![s].e = "open", ![s].b = "open",
                  ![s].up = <<IF ext.key # None THEN Message("authenticate", ext.key, 0)
                              ELSE Plain("request_pairing")>>]
    /\ UNCHANGED <<broker, decisions, ext, asked, executed, snapshots, disturbed>>

ConnectFails(s) ==
    /\ sock[s].e = "connecting"
    /\ Disturb
    /\ sock' = [sock EXCEPT ![s] = Free]
    /\ ext' = Armed([ext EXCEPT !.socket = None])
    /\ UNCHANGED <<broker, decisions, asked, executed, snapshots>>

\* The interval of 20 s is longer than anything else on the loopback interface
\* takes, a human's decision and the timers excepted.
Heartbeat ==
    LET s == ext.socket IN
    /\ s # None
    /\ sock[s].e = "open" /\ sock[s].b = "open"
    /\ sock[s].up = <<>> /\ sock[s].down = <<>>
    /\ sock' = Up(sock, <<Plain("heartbeat")>>)
    /\ UNCHANGED <<broker, decisions, ext, asked, executed, snapshots, disturbed>>

-----------------------------------------------------------------------------
(* The extension: messages of the broker *)

\* The extension takes the next message of socket s.
Hears(s, type) ==
    /\ sock[s].e = "open"
    /\ sock[s].down # <<>>
    /\ Head(sock[s].down).type = type

News(s) == Head(sock[s].down).arg
Heard(s) == [sock EXCEPT ![s].down = Tail(@)]

\* Seeded bug: nothing is remembered.
HandledNothing(c) == {}

\* handledCommandIds after command c.
Handled(c) == ext.handled \cup {c}

\* A new connection: shared tabs are looked at before they are announced.
OnAuthenticated(s) ==
    /\ Hears(s, "authenticated")
    /\ ext' = [ext EXCEPT !.gen = Head(sock[s].down).gen, !.handled = {},
                         !.announcing = @ + 1]
    /\ sock' = Heard(s)
    /\ UNCHANGED <<broker, decisions, asked, executed, snapshots, disturbed>>

OnPaired(s) ==
    /\ Hears(s, "paired")
    /\ ext' = [ext EXCEPT !.key = News(s)]
    /\ sock' = Up(Heard(s), <<Message("authenticate", News(s), 0)>>)
    /\ UNCHANGED <<broker, decisions, asked, executed, snapshots, disturbed>>

OnSnapshotRequest(s) ==
    /\ Hears(s, "snapshot_request")
    /\ ext' = [ext EXCEPT !.snapping = @ \cup ({News(s)} \cap ext.tabs)]
    /\ sock' = Heard(s)
    /\ UNCHANGED <<broker, decisions, asked, executed, snapshots, disturbed>>

\* executeCommand up to its first await.
OnCommand(s) ==
    LET c == News(s)
        new == Head(sock[s].down).gen = ext.gen /\ c \notin ext.handled
        runs == new /\ asked[c] \in ext.tabs
    IN  /\ Hears(s, "command")
        /\ ext' = [ext EXCEPT !.handled = IF new THEN Handled(c) ELSE @,
                             !.running = IF runs THEN @ \cup {c} ELSE @]
        /\ executed' = IF runs THEN [executed EXCEPT ![c] = Append(@, ext.gen)]
                       ELSE executed
        /\ sock' = Heard(s)
        /\ UNCHANGED <<broker, decisions, asked, snapshots, disturbed>>

\* Seeded bug: the pairing is forgotten and nobody connects again.
ForgottenForGood(x) == [x EXCEPT !.socket = None, !.key = None, !.armed = FALSE]

\* forgetPairing
Forgot(x) == Armed([x EXCEPT !.socket = None, !.key = None])

OnError(s) ==
    /\ Hears(s, "error")
    /\ ext' = Forgot(ext)
    /\ sock' = ExtCloses(sock, s)
    /\ UNCHANGED <<broker, decisions, asked, executed, snapshots, disturbed>>

OnClose(s) ==
    /\ Hears(s, "close")
    /\ ext' = Armed([ext EXCEPT !.socket = None])
    /\ sock' = ExtCloses(sock, s)
    /\ UNCHANGED <<broker, decisions, asked, executed, snapshots, disturbed>>

ExtHears(s) ==
    \/ OnAuthenticated(s) \/ OnPaired(s) \/ OnSnapshotRequest(s)
    \/ OnCommand(s) \/ OnError(s) \/ OnClose(s)

-----------------------------------------------------------------------------
(* The extension: what follows an await, and the user *)

\* pruneStaleSharedTabs is through: the tabs that are gone are unshared, the
\* entries of the others announced, on the socket there is by now.
Announce ==
    /\ ext.announcing > 0
    /\ ext' = [ext EXCEPT !.announcing = @ - 1, !.tabs = @ \ ext.stale, !.stale = {}]
    /\ sock' = Up(sock, ForEach(ext.stale, "tab_unshared")
                          \o ForEach(ext.tabs \ ext.stale, "tab_entry"))
    /\ UNCHANGED <<broker, decisions, asked, executed, snapshots, disturbed>>

CollectSnapshot(t) ==
    /\ t \in ext.snapping
    /\ ext' = [ext EXCEPT !.snapping = @ \ {t}]
    /\ \/ sock' = Up(sock, <<Message("snapshot", t, 0)>>)
       \/ sock' = sock     \* the script fails
    /\ UNCHANGED <<broker, decisions, asked, executed, snapshots, disturbed>>

\* The result names the generation of the connection there is by now.
CommandDone(c) ==
    /\ c \in ext.running
    /\ ext' = [ext EXCEPT !.running = @ \ {c}]
    /\ sock' = Up(sock, <<Message("result", c, ext.gen)>>)
    /\ UNCHANGED <<broker, decisions, asked, executed, snapshots, disturbed>>

\* The user shares a tab, or one is shared by itself: https:, or http: on this host.
Share(t) ==
    /\ t \in ext.fresh
    /\ ext' = [ext EXCEPT !.fresh = @ \ {t}, !.tabs = @ \cup {t}]
    /\ \E form \in {"tab_shared", "tab_http"} :
          sock' = Up(sock, <<Message(form, t, 0)>>)
    /\ UNCHANGED <<broker, decisions, asked, executed, snapshots, disturbed>>

\* The user ends the share, closes the tab or goes to another page.
Unshare(t) ==
    /\ t \in ext.tabs
    /\ ext' = [ext EXCEPT !.tabs = @ \ {t}, !.stale = @ \ {t}]
    /\ sock' = Up(sock, <<Message("tab_unshared", t, 0)>>)
    /\ UNCHANGED <<broker, decisions, asked, executed, snapshots, disturbed>>

\* The user withdraws the pairing in the popup.
ExtRevoke ==
    /\ Disturb
    /\ ext' = [ext EXCEPT !.key = None, !.tabs = {}, !.stale = {}, !.socket = None,
                         !.armed = FALSE, !.replacing = @ + 1]
    /\ sock' = ExtCloses(Up(sock, ForEach(ext.tabs, "tab_unshared") \o <<Plain("unpair")>>),
                         ext.socket)
    /\ UNCHANGED <<broker, decisions, asked, executed, snapshots>>

\* The browser stops the service worker and starts it again, or restarts itself:
\* then tabs may be gone that chrome.storage still has.  load() connects at once
\* when the last connection had opened.
WorkerRestart ==
    /\ Disturb
    /\ \E gone \in SUBSET ext.tabs :
          ext' = [ext EXCEPT !.socket = None, !.gen = 0, !.handled = {}, !.running = {},
                           !.snapping = {}, !.announcing = 0, !.armed = FALSE,
                           !.retrying = 1, !.replacing = 0, !.stale = @ \cup gone]
    /\ sock' = ExtCloses(sock, ext.socket)
    /\ UNCHANGED <<broker, decisions, asked, executed, snapshots>>

-----------------------------------------------------------------------------

BrokerStep ==
    \/ \E s \in Sockets : BrokerTakes(s) \/ PairingExpires(s) \/ PairingDecisionArrives(s)
    \/ AllowPairing \/ DenyPairing
    \/ \E t \in Tabs : Ask(t) \/ RequestSnapshot(t) \/ SnapshotExpires(t)
    \/ \E c \in Ids : \/ ApprovalExpires(c) \/ CommandExpires(c)
                      \/ DecisionArrives(c) \/ Decide(c)
    \/ Revoke \/ BrokerRestart

ExtStep ==
    \/ TimerFires \/ SetBrokerUrl \/ ConnectGoesOn \/ Heartbeat
    \/ \E s \in Sockets : Opened(s) \/ ConnectFails(s) \/ ExtHears(s)
    \/ Announce
    \/ \E t \in Tabs : CollectSnapshot(t) \/ Share(t) \/ Unshare(t)
    \/ \E c \in Ids : CommandDone(c)
    \/ ExtRevoke \/ WorkerRestart

Next == BrokerStep \/ ExtStep

Spec == Init /\ [][Next]_vars

\* What happens by itself: messages arrive, connections open, timers fire, and
\* chrome.storage and chrome.tabs answer, whatever else is going on.
Proceeds ==
    \/ TimerFires \/ ConnectGoesOn \/ Announce
    \/ \E s \in Sockets : Opened(s) \/ BrokerTakes(s) \/ ExtHears(s) \/ PairingExpires(s)

LiveSpec == Spec /\ WF_vars(Proceeds) /\ WF_vars(Announce)

-----------------------------------------------------------------------------
(* Properties *)

Ends == {"none", "connecting", "open", "closing", "gone", "dead"}

\* Types, and: only the socket the extension holds is open or opening at its end,
\* only one with both ends left carries messages, and approvals, commands and
\* decisions are about operations that were asked for.
TypeOK ==
    /\ broker.socket \in Sockets \cup {None}
    /\ {broker.gen, broker.key, broker.lastKey, ext.gen, ext.key} \subseteq Nat
    /\ broker.key <= broker.lastKey
    /\ broker.tabs \cup broker.snaps \cup ext.tabs \cup ext.fresh \subseteq Tabs
    /\ ext.tabs \cap ext.fresh = {} /\ ext.stale \subseteq ext.tabs
    /\ broker.approvals \cup DOMAIN broker.dispatched \cup ext.running
          \cup {c \in Ids : decisions.posts[c] > 0} \subseteq DOMAIN asked
    /\ ext.socket \in Sockets \cup {None}
    /\ \A s \in Sockets :
          /\ {sock[s].e, sock[s].b} \subseteq Ends
          /\ sock[s].e \in {"connecting", "open"} <=> ext.socket = s
          /\ sock[s].down # <<>> => sock[s].e = "open"

\* Whatever ends a share ends the approvals that wait for a human on its tab.
ApprovalsOnSharedTabs == \A c \in broker.approvals : asked[c] \in broker.tabs

\* "Broker / extension disconnected: pending operations are not carried out
\* later": without a connection nothing waits to be approved or answered.
DisconnectCancels ==
    broker.socket = None => broker.approvals = {} /\ DOMAIN broker.dispatched = {}

\* At most one connection is open and authenticated: the broker's.
OneConnection ==
    \A s \in Sockets : sock[s].auth /\ sock[s].b = "open" => broker.socket = s

\* On one connection an operation is carried out at most once, however often the
\* windows allow it.
ExecutedOncePerConnection ==
    \A c \in Ids : \A i, j \in DOMAIN executed[c] :
        executed[c][i] = executed[c][j] => i = j

\* The extension is never stuck: without a socket a timer is armed or a connect
\* is under way.
DisconnectedHasRetry ==
    ext.socket = None => ext.armed \/ ext.retrying + ext.replacing > 0

Quiet(s) ==
    /\ sock[s].e = "open" /\ sock[s].b = "open" /\ sock[s].auth
    /\ sock[s].up = <<>> /\ sock[s].down = <<>> /\ ext.announcing = 0

\* On a connection that lasts the broker lists every tab the extension shares.
\* The connections that last are those on which no tab was announced again or
\* shared under http: the broker closes the others.
SharedTabsAreListed ==
    \A s \in Sockets : Quiet(s) => ext.tabs \subseteq broker.tabs

\* A paired extension that has no tab to announce gets a connection that lasts.
\* One that has such a tab is closed, forgets its key, is told it again and
\* announces again, without end.
PairedReconnects ==
    <>[](ext.tabs = {}) => []<>(broker.key = None \/ \E s \in Sockets : Quiet(s))
=============================================================================
