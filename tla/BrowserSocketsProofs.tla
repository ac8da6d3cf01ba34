------------------------ MODULE BrowserSocketsProofs ------------------------
(***************************************************************************)
(* Theorems about BrowserBridge's types and about its WebSockets, for      *)
(* every set of tabs and every bound.                                      *)
(***************************************************************************)
EXTENDS BrowserBridge, FiniteSetTheorems, SequenceTheorems, TLAPS

-----------------------------------------------------------------------------
(* What the sockets carry                                                  *)

Types == {"authenticate", "request_pairing", "unpair", "tab_shared", "tab_http",
          "tab_entry", "tab_unshared", "snapshot", "result", "heartbeat",
          "authenticated", "paired", "command", "snapshot_request", "error", "close"}

Messages == [type : Types, arg : Nat \cup Tabs, gen : Nat]

\* A tab the broker takes is a tab.
UpMessages == {m \in Messages : m.type = "tab_shared" => m.arg \in Tabs}

\* A socket that is not closed at the extension's end carries no close.
LiveMessages == {m \in UpMessages : m.type # "close"}

\* A command is one of the n operations asked for, a key is a number.
DownMessages(n) ==
    {m \in Messages : /\ m.type = "command" => m.arg \in 1..n
                      /\ m.type = "paired" => m.arg \in Nat
                      /\ m.type = "snapshot_request" => m.arg \in Tabs}

Socket(n) == [e : Ends, b : Ends, auth : BOOLEAN,
              up : Seq(UpMessages), down : Seq(DownMessages(n))]

\* A socket that carries messages down is open at the extension's end; one that the
\* broker has or that is authenticated has been.
Good(k, n) ==
    /\ k \in [Sockets -> Socket(n)]
    /\ \A s \in Sockets : /\ k[s].down # <<>> => k[s].e = "open"
                          /\ k[s].auth \/ k[s].b \in {"open", "closing"}
                                => k[s].e \in {"open", "gone"}
                          /\ k[s].e # "gone" => k[s].up \in Seq(LiveMessages)

\* The same ends, but for closes of the broker.
Alike(k, l) ==
    \A s \in Sockets : /\ l[s].e = k[s].e /\ l[s].auth = k[s].auth
                       /\ l[s].b = "open" => k[s].b = "open"

\* None is not a socket.
LEMMA NoneIsNoSocket == None \notin Sockets
  BY DEF None, Sockets

\* Messages without an argument may go where they are sent.
LEMMA PlainMessages ==
    ASSUME NEW n \in Nat
    PROVE  /\ {Plain("unpair"), Plain("request_pairing"), Plain("heartbeat")}
                 \subseteq LiveMessages
           /\ Plain("close") \in UpMessages
           /\ {Plain("close"), Plain("error")} \subseteq DownMessages(n)
<1>1. /\ Plain("unpair") \in LiveMessages /\ Plain("request_pairing") \in LiveMessages
      /\ Plain("heartbeat") \in LiveMessages /\ Plain("close") \in UpMessages
  BY DEF Plain, Message, None, Types, Messages, UpMessages, LiveMessages
<1>2. Plain("close") \in DownMessages(n) /\ Plain("error") \in DownMessages(n)
  BY DEF Plain, Message, None, Types, Messages, DownMessages
<1>3. QED
  BY <1>1, <1>2

\* What the broker sends.
LEMMA DownIsGood ==
    ASSUME NEW k, NEW n \in Nat, Good(k, n), NEW s \in Sockets \cup {None},
           NEW m \in DownMessages(n)
    PROVE  Good(Down(k, s, m), n) /\ Alike(k, Down(k, s, m))
<1>1. CASE s # None /\ k[s].e = "open" /\ k[s].b = "open"
  <2> DEFINE l == [k EXCEPT ![s].down = Append(@, m)]
  <2>1. s \in Sockets /\ k[s] \in Socket(n)
    BY <1>1 DEF Good
  <2>2. Append(k[s].down, m) \in Seq(DownMessages(n))
    BY <2>1, AppendProperties DEF Socket
  <2>3. l[s] \in Socket(n) /\ l[s].e = "open" /\ l[s].b = "open"
        /\ l[s].auth = k[s].auth /\ l[s].up = k[s].up
    BY <1>1, <2>1, <2>2 DEF Good, Socket
  <2>4. l \in [Sockets -> Socket(n)] /\ \A r \in Sockets \ {s} : l[r] = k[r]
    BY <2>1, <2>3 DEF Good
  <2>5. Good(l, n) /\ Alike(k, l)
    BY <1>1, <2>3, <2>4 DEF Good, Alike
  <2>6. QED
    BY <1>1, <2>5 DEF Down
<1>2. QED
  BY <1>1 DEF Down, Alike

\* The broker closes its end.
LEMMA BrokerClosesIsGood ==
    ASSUME NEW k, NEW n \in Nat, Good(k, n), NEW s \in Sockets \cup {None}
    PROVE  /\ Good(BrokerCloses(k, s), n) /\ Alike(k, BrokerCloses(k, s))
           /\ s # None => BrokerCloses(k, s)[s].b # "open"
<1> DEFINE j == Down(k, s, Plain("close"))
           l == [j EXCEPT ![s].b = "closing"]
<1>1. Good(j, n) /\ Alike(k, j)
  <2>1. Plain("close") \in DownMessages(n)
    BY PlainMessages
  <2>2. QED
    BY <2>1, DownIsGood
<1>2. CASE s # None /\ k[s].b = "open"
  <2>1. s \in Sockets /\ j[s] \in Socket(n)
    BY <1>1, <1>2 DEF Good
  <2>2. /\ l[s] \in Socket(n) /\ l[s].e = j[s].e /\ l[s].b = "closing"
        /\ l[s].auth = j[s].auth /\ l[s].down = j[s].down /\ l[s].up = j[s].up
    BY <1>1, <2>1 DEF Good, Socket, Ends
  <2>3. l \in [Sockets -> Socket(n)] /\ \A r \in Sockets \ {s} : l[r] = j[r]
    BY <1>1, <2>1, <2>2 DEF Good
  <2>4. Good(l, n) /\ Alike(k, l) /\ l[s].b # "open"
    BY <1>1, <1>2, <2>2, <2>3 DEF Good, Alike
  <2>5. QED
    BY <1>2, <2>4 DEF BrokerCloses
<1>3. QED
  BY <1>2 DEF BrokerCloses, Alike

\* The broker refuses a message.
LEMMA RejectedIsGood ==
    ASSUME NEW k, NEW n \in Nat, Good(k, n), NEW s \in Sockets \cup {None}
    PROVE  Good(Rejected(k, s), n) /\ Alike(k, Rejected(k, s))
<1>1. Plain("error") \in DownMessages(n)
  BY PlainMessages
<1>2. /\ Good(Down(k, s, Plain("error")), n) /\ Alike(k, Down(k, s, Plain("error")))
  BY <1>1, DownIsGood
<1>3. QED
  BY <1>2, BrokerClosesIsGood DEF Rejected, Alike

\* The broker takes the next message.
LEMMA TakenIsGood ==
    ASSUME NEW n \in Nat, Good(sock, n), NEW s \in Sockets, NEW type, Takes(s, type)
    PROVE  /\ Good(Taken(s), n) /\ Alike(sock, Taken(s))
           /\ Head(sock[s].up) \in UpMessages
<1>1. sock[s] \in Socket(n)
  BY DEF Good
<1>2. Head(sock[s].up) \in UpMessages /\ Tail(sock[s].up) \in Seq(UpMessages)
  BY <1>1, HeadTailProperties DEF Takes, Socket
<1>3. sock[s].e # "gone" => Tail(sock[s].up) \in Seq(LiveMessages)
  BY HeadTailProperties DEF Good, Takes
<1>4. /\ Taken(s)[s] \in Socket(n) /\ Taken(s)[s].e = sock[s].e
      /\ Taken(s)[s].b = sock[s].b /\ Taken(s)[s].auth = sock[s].auth
      /\ Taken(s)[s].down = sock[s].down /\ Taken(s)[s].up = Tail(sock[s].up)
  BY <1>1, <1>2 DEF Taken, Good, Socket
<1>5. /\ Taken(s) \in [Sockets -> Socket(n)]
      /\ \A r \in Sockets \ {s} : Taken(s)[r] = sock[r]
  BY <1>1, <1>4 DEF Taken, Good
<1>6. QED
  BY <1>2, <1>3, <1>4, <1>5 DEF Good, Alike

\* The extension takes the next message.
LEMMA HeardIsGood ==
    ASSUME NEW n \in Nat, Good(sock, n), NEW s \in Sockets, NEW type, Hears(s, type)
    PROVE  /\ Good(Heard(s), n) /\ Alike(sock, Heard(s))
           /\ Head(sock[s].down) \in DownMessages(n)
<1>1. sock[s] \in Socket(n)
  BY DEF Good
<1>2. /\ Head(sock[s].down) \in DownMessages(n)
      /\ Tail(sock[s].down) \in Seq(DownMessages(n))
  BY <1>1, HeadTailProperties DEF Hears, Socket
<1>3. /\ Heard(s)[s] \in Socket(n) /\ Heard(s)[s].e = sock[s].e
      /\ Heard(s)[s].b = sock[s].b /\ Heard(s)[s].auth = sock[s].auth
      /\ Heard(s)[s].up = sock[s].up
  BY <1>1, <1>2 DEF Heard, Good, Socket
<1>4. /\ Heard(s) \in [Sockets -> Socket(n)]
      /\ \A r \in Sockets \ {s} : Heard(s)[r] = sock[r]
  BY <1>1, <1>3 DEF Heard, Good
<1>5. QED
  BY <1>2, <1>3, <1>4 DEF Good, Alike, Hears

\* The extension sends some messages.
LEMMA UpIsGood ==
    ASSUME NEW k, NEW n \in Nat, Good(k, n), ext.socket \in Sockets \cup {None},
           NEW ms \in Seq(LiveMessages)
    PROVE  Good(Up(k, ms), n) /\ Alike(k, Up(k, ms))
<1> DEFINE s == ext.socket
           l == [k EXCEPT ![s].up = @ \o ms]
<1>1. CASE s # None /\ k[s].e = "open" /\ k[s].b # "dead"
  <2>1. s \in Sockets /\ k[s] \in Socket(n)
    BY <1>1 DEF Good
  <2>2. k[s].up \o ms \in Seq(UpMessages) /\ k[s].up \o ms \in Seq(LiveMessages)
    <3>1. k[s].up \in Seq(LiveMessages)
      BY <1>1, <2>1 DEF Good
    <3>2. k[s].up \o ms \in Seq(LiveMessages)
      BY <3>1, ConcatProperties
    <3>3. LiveMessages \subseteq UpMessages
      BY DEF LiveMessages
    <3>4. QED
      BY <3>2, <3>3, SeqMonotonic
  <2>3. /\ l[s] \in Socket(n) /\ l[s].e = k[s].e /\ l[s].b = k[s].b
        /\ l[s].auth = k[s].auth /\ l[s].down = k[s].down /\ l[s].up = k[s].up \o ms
    BY <2>1, <2>2 DEF Good, Socket
  <2>4. l \in [Sockets -> Socket(n)] /\ \A r \in Sockets \ {s} : l[r] = k[r]
    BY <2>1, <2>3 DEF Good
  <2>5. Good(l, n) /\ Alike(k, l)
    BY <2>2, <2>3, <2>4 DEF Good, Alike
  <2>6. QED
    BY <1>1, <2>5 DEF Up
<1>2. QED
  BY <1>1 DEF Up, Alike

\* The extension's end of socket s goes: s is neither open nor opening any more, and
\* the others are as they were.
LEMMA ExtClosesIsGood ==
    ASSUME NEW k, NEW n \in Nat, Good(k, n), NEW s \in Sockets \cup {None}
    PROVE  /\ Good(ExtCloses(k, s), n)
           /\ \A r \in Sockets \ {s} : ExtCloses(k, s)[r] = k[r]
           /\ s # None => /\ ExtCloses(k, s)[s].e \notin {"connecting", "open"}
                          /\ ExtCloses(k, s)[s].auth => /\ k[s].auth
                                                        /\ ExtCloses(k, s)[s].b = k[s].b
<1>1. Free \in Socket(n) /\ {Free.e, Free.b} = {"none"} /\ Free.auth = FALSE
      /\ Free.down = <<>> /\ Free.up = <<>> /\ <<>> \in Seq(LiveMessages)
  BY EmptySeq DEF Free, Socket, Ends
<1>2. CASE s # None /\ (k[s].e = "connecting" \/ k[s].b = "dead")
  <2>1. ExtCloses(k, s) = [k EXCEPT ![s] = Free]
    BY <1>2 DEF ExtCloses
  <2>2. QED
    BY <1>1, <1>2, <2>1 DEF Good
<1>3. CASE s # None /\ ~(k[s].e = "connecting" \/ k[s].b = "dead")
  <2> DEFINE l == [k EXCEPT ![s].e = "gone", ![s].down = <<>>,
                            ![s].up = Append(@, Plain("close"))]
  <2>1. s \in Sockets /\ k[s] \in Socket(n)
    BY <1>3 DEF Good
  <2>2. Append(k[s].up, Plain("close")) \in Seq(UpMessages) /\ <<>> \in Seq(DownMessages(n))
    BY <2>1, PlainMessages, AppendProperties, EmptySeq DEF Socket
  <2>3. /\ l[s] \in Socket(n) /\ l[s].e = "gone" /\ l[s].b = k[s].b
        /\ l[s].auth = k[s].auth /\ l[s].down = <<>>
    BY <2>1, <2>2 DEF Good, Socket, Ends
  <2>4. l \in [Sockets -> Socket(n)] /\ \A r \in Sockets \ {s} : l[r] = k[r]
    BY <2>1, <2>3 DEF Good
  <2>5. Good(l, n)
    BY <2>3, <2>4 DEF Good
  <2>6. ExtCloses(k, s) = l
    BY <1>3 DEF ExtCloses
  <2>7. QED
    BY <2>3, <2>4, <2>5, <2>6
<1>4. CASE s = None
  BY <1>4 DEF ExtCloses
<1>5. QED
  BY <1>2, <1>3, <1>4

\* A message for each of some tabs.
LEMMA ForEachIsGood ==
    ASSUME NEW T \in SUBSET Tabs, NEW type \in Types \ {"close"}
    PROVE  ForEach(T, type) \in Seq(LiveMessages)
<1>1. IsFiniteSet(T)
  BY TabsAssumption, FS_Subset
<1>2. Cardinality(T) \in Nat /\ ExistsBijection(1..Cardinality(T), T)
  BY <1>1, FS_CardinalityType
<1>3. PICK f \in [1..Cardinality(T) -> T] : \A a, b \in DOMAIN f : f[a] = f[b] => a = b
  BY <1>2 DEF ExistsBijection, Bijection, Injection, IsInjective
<1>4. SetToSeq(T) \in [1..Cardinality(T) -> T]
  BY <1>3 DEF SetToSeq, IsInjective
<1>5. \A t \in T : Message(type, t, 0) \in LiveMessages
  BY DEF Message, Messages, UpMessages, LiveMessages
<1> DEFINE each == [i \in 1..Cardinality(T) |-> Message(type, SetToSeq(T)[i], 0)]
<1>6. ForEach(T, type) = each
  BY <1>4 DEF ForEach
<1>7. each \in [1..Cardinality(T) -> LiveMessages]
  BY <1>4, <1>5
<1>8. QED
  BY <1>2, <1>6, <1>7, SeqDef

-----------------------------------------------------------------------------
(* The inductive invariant                                                 *)

\* The broker's record has its fields, and what is in them exists.
BrokerTyped ==
    /\ DOMAIN broker = {"socket", "gen", "key", "lastKey", "tabs", "approvals",
                        "dispatched", "snaps", "requests"}
    /\ broker.socket \in Sockets \cup {None} /\ broker.requests \subseteq Sockets
    /\ broker.gen \in Nat /\ broker.key \in Nat /\ broker.lastKey \in Nat
    /\ broker.key <= broker.lastKey
    /\ broker.tabs \subseteq Tabs /\ broker.snaps \subseteq Tabs
    /\ broker.approvals \subseteq DOMAIN asked
    /\ DOMAIN broker.dispatched \subseteq DOMAIN asked

\* Decisions are about operations that were asked for.
DecisionsTyped ==
    /\ DOMAIN decisions = {"posts", "pairing"}
    /\ decisions.posts \in [Ids -> Nat]
    /\ \A c \in Ids : decisions.posts[c] > 0 => c \in DOMAIN asked
    /\ decisions.pairing \in [open : BOOLEAN, socket : Sockets \cup {None}]

Fields == {"socket", "gen", "key", "tabs", "stale", "fresh", "handled", "running",
           "snapping", "announcing", "armed", "retrying", "replacing"}

\* The fields of the worker's record that are about tabs, sockets and operations.
WorkerTyped(x) ==
    /\ DOMAIN x = Fields
    /\ x.socket \in Sockets \cup {None} /\ x.gen \in Nat /\ x.key \in Nat
    /\ x.tabs \subseteq Tabs /\ x.fresh \subseteq Tabs /\ x.tabs \cap x.fresh = {}
    /\ x.stale \subseteq x.tabs /\ x.snapping \subseteq Tabs
    /\ x.running \subseteq DOMAIN asked

ExtTyped == WorkerTyped(ext)

\* The extension's socket is the one whose end it keeps.
Linked(k, x) == \A s \in Sockets : k[s].e \in {"connecting", "open"} <=> x = s

\* The broker's connection is the only one that is open.
Single(k, x) == \A s \in Sockets : k[s].auth /\ k[s].b = "open" => x = s

IInv ==
    /\ asked \in Seq(Tabs)
    /\ BrokerTyped /\ DecisionsTyped /\ ExtTyped
    /\ Good(sock, Len(asked)) /\ Linked(sock, ext.socket) /\ Single(sock, broker.socket)

\* The inductive invariant implies the two properties.
LEMMA IInvImplies == IInv => TypeOK /\ OneConnection
<1> SUFFICES ASSUME IInv PROVE TypeOK /\ OneConnection
  OBVIOUS
<1>1. \A s \in Sockets : /\ {sock[s].e, sock[s].b} \subseteq Ends
                         /\ sock[s].down # <<>> => sock[s].e = "open"
  BY DEF IInv, Good, Socket
<1>2. \A s \in Sockets : sock[s].e \in {"connecting", "open"} <=> ext.socket = s
  BY DEF IInv, Linked
<1>3. broker.approvals \cup DOMAIN broker.dispatched \cup ext.running
        \cup {c \in Ids : decisions.posts[c] > 0} \subseteq DOMAIN asked
  BY DEF IInv, BrokerTyped, DecisionsTyped, ExtTyped, WorkerTyped
<1>4. /\ {broker.gen, broker.key, broker.lastKey, ext.gen, ext.key} \subseteq Nat
      /\ broker.key <= broker.lastKey
      /\ broker.tabs \cup broker.snaps \cup ext.tabs \cup ext.fresh \subseteq Tabs
      /\ ext.tabs \cap ext.fresh = {} /\ ext.stale \subseteq ext.tabs
      /\ broker.socket \in Sockets \cup {None} /\ ext.socket \in Sockets \cup {None}
  BY DEF IInv, BrokerTyped, ExtTyped, WorkerTyped
<1>5. OneConnection
  BY DEF IInv, Single, OneConnection
<1>6. QED
  BY <1>1, <1>2, <1>3, <1>4, <1>5 DEF TypeOK

\* There is no socket yet.
THEOREM IInvInit == Init => IInv
<1> SUFFICES ASSUME Init PROVE IInv
  OBVIOUS
<1>1. asked = <<>> /\ asked \in Seq(Tabs) /\ Len(asked) = 0
  BY EmptySeq DEF Init
<1>2. Free \in Socket(0) /\ {Free.e, Free.b} = {"none"} /\ Free.auth = FALSE
      /\ Free.down = <<>> /\ Free.up = <<>> /\ <<>> \in Seq(LiveMessages)
  BY EmptySeq DEF Free, Socket, Ends
<1>3. Good(sock, 0) /\ Linked(sock, None) /\ Single(sock, None)
  BY <1>2, NoneIsNoSocket DEF Init, Good, Linked, Single
<1>4. BrokerTyped
  BY DEF Init, BrokerTyped, None
<1>5. DecisionsTyped
  BY DEF Init, DecisionsTyped, NoDecisions, NoPost
<1>6. ExtTyped
  BY TabsAssumption DEF Init, ExtTyped, WorkerTyped, Fields
<1>7. QED
  BY <1>1, <1>3, <1>4, <1>5, <1>6 DEF Init, IInv

-----------------------------------------------------------------------------
(* Steps of the broker                                                     *)

\* A step that sends, takes and closes, and leaves the ends as they are otherwise.
LEMMA Exchange ==
    ASSUME IInv, UNCHANGED asked, Good(sock', Len(asked)), Alike(sock, sock'),
           BrokerTyped', DecisionsTyped', ExtTyped',
           broker'.socket = broker.socket, ext'.socket = ext.socket
    PROVE  IInv'
<1>1. Linked(sock', ext'.socket)
  BY DEF IInv, Linked, Alike
<1>2. Single(sock', broker'.socket)
  BY DEF IInv, Single, Alike
<1>3. QED
  BY <1>1, <1>2 DEF IInv

\* What a step leaves alone keeps its types.
LEMMA Unchanged ==
    ASSUME IInv, UNCHANGED asked
    PROVE  /\ UNCHANGED broker => BrokerTyped' /\ broker'.socket = broker.socket
           /\ UNCHANGED decisions => DecisionsTyped'
           /\ UNCHANGED ext => ExtTyped' /\ ext'.socket = ext.socket
           /\ UNCHANGED sock => Good(sock', Len(asked)) /\ Alike(sock, sock')
  BY DEF IInv, BrokerTyped, DecisionsTyped, ExtTyped, WorkerTyped, Alike

\* There is a number of operations, and it bounds them.
LEMMA Asked == IInv => Len(asked) \in Nat /\ DOMAIN asked = 1..Len(asked)
  BY LenProperties DEF IInv

\* The broker takes a message and may refuse it.
LEMMA TakeOrRefuse ==
    ASSUME IInv, NEW s \in Sockets, NEW type, Takes(s, type),
           sock' = Taken(s) \/ sock' = Rejected(Taken(s), s)
    PROVE  /\ Good(sock', Len(asked)) /\ Alike(sock, sock')
           /\ Head(sock[s].up) \in UpMessages
<1>1. Good(Taken(s), Len(asked)) /\ Alike(sock, Taken(s)) /\ Head(sock[s].up) \in UpMessages
  BY Asked, TakenIsGood DEF IInv
<1>2. Good(Rejected(Taken(s), s), Len(asked)) /\ Alike(Taken(s), Rejected(Taken(s), s))
  BY Asked, <1>1, RejectedIsGood
<1>3. QED
  BY <1>1, <1>2 DEF Alike

\* The new connection closes the one before it.
LEMMA AuthenticateKeeps ==
    ASSUME IInv, NEW s \in Sockets, Authenticate(s)
    PROVE  IInv'
<1> DEFINE n == Len(asked)
           taken == Taken(s)
           replaced == Replaced(taken)
           known == [replaced EXCEPT ![s].auth = TRUE]
<1>1. n \in Nat /\ Good(taken, n) /\ Alike(sock, taken) /\ sock[s].b \in {"open", "closing"}
  BY Asked, TakenIsGood DEF IInv, Authenticate, Takes
<1>2. CASE UNCHANGED broker /\ sock' = Rejected(taken, s)
  BY <1>2, TakeOrRefuse, Exchange, Unchanged DEF Authenticate
<1>3. CASE /\ broker' = [broker EXCEPT !.socket = s, !.gen = @ + 1]
           /\ sock' = Down(known, s, Message("authenticated", None, broker.gen + 1))
  <2>1. /\ Good(replaced, n) /\ Alike(taken, replaced)
        /\ broker.socket # None => replaced[broker.socket].b # "open"
    BY <1>1, BrokerClosesIsGood DEF Replaced, IInv, BrokerTyped
  <2>2. replaced[s] \in Socket(n)
    BY <2>1 DEF Good
  <2>3. s # None /\ replaced[s].e \in {"open", "gone"}
    <3>1. sock[s].e \in {"open", "gone"}
      BY <1>1 DEF IInv, Good
    <3>2. QED
      BY <1>1, <2>1, <3>1, NoneIsNoSocket DEF Alike
  <2>4. /\ known[s] \in Socket(n) /\ known[s].e = replaced[s].e
        /\ known[s].b = replaced[s].b /\ known[s].down = replaced[s].down
        /\ known[s].up = replaced[s].up
    BY <2>1, <2>2 DEF Good, Socket
  <2>5. known \in [Sockets -> Socket(n)] /\ \A r \in Sockets \ {s} : known[r] = replaced[r]
    BY <2>1, <2>4 DEF Good
  <2>6. Good(known, n)
    BY <2>1, <2>3, <2>4, <2>5 DEF Good
  <2>7. Linked(known, ext.socket)
    BY <1>1, <2>1, <2>4, <2>5 DEF IInv, Linked, Alike
  <2>8. Single(known, s)
    BY <1>1, <2>1, <2>5, NoneIsNoSocket DEF IInv, Single, Alike
  <2>9. Message("authenticated", None, broker.gen + 1) \in DownMessages(n)
    BY DEF IInv, BrokerTyped, Message, None, Types, Messages, DownMessages
  <2>10. Good(sock', n) /\ Alike(known, sock')
    BY <1>1, <1>3, <2>6, <2>9, DownIsGood
  <2>11. Linked(sock', ext.socket) /\ Single(sock', s)
    BY <2>7, <2>8, <2>10 DEF Linked, Single, Alike
  <2>12. BrokerTyped' /\ broker'.socket = s
    BY <1>3 DEF IInv, BrokerTyped, Authenticate
  <2>13. UNCHANGED <<asked, decisions, ext>>
    BY DEF Authenticate
  <2>14. QED
    BY <2>10, <2>11, <2>12, <2>13, Unchanged DEF IInv
<1>4. QED
  BY <1>2, <1>3 DEF Authenticate, Refuse

\* A message that the broker takes or refuses, the close and the authentication apart.
LEMMA MessageKeeps ==
    ASSUME IInv, NEW s \in Sockets,
           \/ Unpair(s) \/ TabShared(s) \/ TabUnshared(s)
           \/ Snapshot(s) \/ Result(s) \/ HeartbeatTaken(s)
    PROVE  IInv'
<1>1. UNCHANGED <<asked, decisions, ext>>
  BY DEF Unpair, TabShared, TabUnshared, Snapshot, Result, HeartbeatTaken
<1>2. DecisionsTyped' /\ ExtTyped' /\ ext'.socket = ext.socket
  BY <1>1, Unchanged
<1>3. \E type : Takes(s, type)
  BY DEF Unpair, TabShared, TabUnshared, Snapshot, Result, HeartbeatTaken
<1>4. CASE UNCHANGED broker /\ (sock' = Taken(s) \/ sock' = Rejected(Taken(s), s))
  BY <1>1, <1>2, <1>3, <1>4, TakeOrRefuse, Exchange, Unchanged
<1>5. CASE /\ sock' = Taken(s)
           /\ \/ /\ ValidSharedTab(Head(sock[s].up))
                 /\ broker' = [broker EXCEPT !.tabs = @ \cup {Arg(s)}]
              \/ broker' = WithoutTab(broker, Arg(s))
              \/ broker' = [broker EXCEPT !.snaps = @ \ {Arg(s)}]
              \/ broker' = Undispatched(broker, Arg(s))
  <2>1. /\ Good(sock', Len(asked)) /\ Alike(sock, sock')
        /\ Head(sock[s].up) \in UpMessages
    BY <1>3, <1>5, TakeOrRefuse
  <2>2. CASE /\ ValidSharedTab(Head(sock[s].up))
             /\ broker' = [broker EXCEPT !.tabs = @ \cup {Arg(s)}]
    <3>1. Arg(s) \in Tabs
      BY <2>1, <2>2 DEF ValidSharedTab, Takes, Arg, UpMessages
    <3>2. BrokerTyped' /\ broker'.socket = broker.socket
      BY <1>1, <2>2, <3>1 DEF IInv, BrokerTyped
    <3>3. QED
      BY <1>1, <1>2, <2>1, <3>2, Exchange
  <2>3. CASE \/ broker' = WithoutTab(broker, Arg(s))
             \/ broker' = [broker EXCEPT !.snaps = @ \ {Arg(s)}]
    <3>1. BrokerTyped' /\ broker'.socket = broker.socket
      BY <1>1, <2>3 DEF IInv, BrokerTyped, WithoutTab
    <3>2. QED
      BY <1>1, <1>2, <2>1, <3>1, Exchange
  <2>4. CASE broker' = Undispatched(broker, Arg(s))
    <3>1. BrokerTyped' /\ broker'.socket = broker.socket
      BY <1>1, <2>4 DEF IInv, BrokerTyped, Undispatched
    <3>2. QED
      BY <1>1, <1>2, <2>1, <3>1, Exchange
  <2>5. QED
    BY <1>5, <2>2, <2>3, <2>4
<1>6. CASE /\ broker' = [broker EXCEPT !.key = None]
           /\ sock' = BrokerCloses(Taken(s), s)
  <2>1. Good(Taken(s), Len(asked)) /\ Alike(sock, Taken(s))
    BY <1>3, Asked, TakenIsGood DEF IInv
  <2>2. Good(sock', Len(asked)) /\ Alike(sock, sock')
    BY <1>6, <2>1, Asked, BrokerClosesIsGood DEF Alike
  <2>3. BrokerTyped' /\ broker'.socket = broker.socket
    BY <1>1, <1>6 DEF IInv, BrokerTyped, None
  <2>4. QED
    BY <1>1, <1>2, <2>2, <2>3, Exchange
<1>7. QED
  BY <1>4, <1>5, <1>6
     DEF Unpair, TabShared, TabUnshared, Snapshot, Result, HeartbeatTaken, Refuse

\* A pairing is requested: the key comes again, or a human is asked.
LEMMA RequestPairingKeeps ==
    ASSUME IInv, NEW s \in Sockets, RequestPairing(s)
    PROVE  IInv'
<1>1. UNCHANGED <<asked, decisions, ext>>
  BY DEF RequestPairing
<1>2. DecisionsTyped' /\ ExtTyped' /\ ext'.socket = ext.socket
  BY <1>1, Unchanged
<1>3. Good(Taken(s), Len(asked)) /\ Alike(sock, Taken(s))
  BY Asked, TakenIsGood DEF IInv, RequestPairing
<1>4. CASE Refuse(s)
  BY <1>1, <1>2, <1>4, TakeOrRefuse, Exchange, Unchanged DEF RequestPairing, Refuse
<1>5. CASE UNCHANGED broker /\ sock' = Down(Taken(s), s, Message("paired", broker.key, 0))
  <2>1. Message("paired", broker.key, 0) \in DownMessages(Len(asked))
    BY DEF IInv, BrokerTyped, Message, Types, Messages, DownMessages
  <2>2. Good(sock', Len(asked)) /\ Alike(sock, sock')
    BY <1>3, <1>5, <2>1, Asked, DownIsGood DEF Alike
  <2>3. QED
    BY <1>1, <1>2, <1>5, <2>2, Exchange, Unchanged
<1>6. CASE sock' = Taken(s) /\ broker' = [broker EXCEPT !.requests = @ \cup {s}]
  <2>1. BrokerTyped' /\ broker'.socket = broker.socket
    BY <1>1, <1>6 DEF IInv, BrokerTyped
  <2>2. QED
    BY <1>1, <1>2, <1>3, <1>6, <2>1, Exchange
<1>7. QED
  BY <1>4, <1>5, <1>6 DEF RequestPairing

\* A socket is closed at both ends.
LEMMA SocketClosedKeeps ==
    ASSUME IInv, NEW s \in Sockets, SocketClosed(s)
    PROVE  IInv'
<1>1. UNCHANGED <<asked, ext>> /\ sock' = [sock EXCEPT ![s] = Free]
  BY DEF SocketClosed
<1>2. /\ Free \in Socket(Len(asked)) /\ {Free.e, Free.b} = {"none"}
      /\ Free.auth = FALSE
      /\ Free.down = <<>> /\ Free.up = <<>> /\ <<>> \in Seq(LiveMessages)
  BY EmptySeq DEF Free, Socket, Ends
<1>3. Good(sock', Len(asked))
  BY <1>1, <1>2 DEF IInv, Good
<1>4. sock[s].e = "gone"
  <2>1. sock[s].up # <<>> /\ Head(sock[s].up).type = "close"
    BY DEF SocketClosed, Takes
  <2>2. sock[s].e # "gone" => sock[s].up \in Seq(LiveMessages)
    BY DEF IInv, Good
  <2>3. sock[s].e # "gone" => Head(sock[s].up) \in LiveMessages
    BY <2>1, <2>2, HeadTailProperties
  <2>4. QED
    BY <2>1, <2>3 DEF LiveMessages
<1>5. Linked(sock', ext.socket)
  BY <1>1, <1>2, <1>4 DEF IInv, Linked, Good
<1>6. BrokerTyped' /\ (broker'.socket = broker.socket \/ broker.socket = s)
  BY <1>1 DEF IInv, BrokerTyped, SocketClosed, Disconnected, IsConnection
<1>7. Single(sock', broker'.socket)
  BY <1>1, <1>2, <1>6 DEF IInv, Single, Good
<1>8. DecisionsTyped'
  BY <1>1 DEF IInv, DecisionsTyped, SocketClosed, WithoutSocket
<1>9. QED
  BY <1>1, <1>3, <1>5, <1>6, <1>7, <1>8, Unchanged DEF IInv

\* Timers, snapshots and decisions that come to nothing.
LEMMA BrokerForgets ==
    ASSUME IInv,
           \/ \E c \in Ids : ApprovalExpires(c) \/ CommandExpires(c) \/ DecisionArrives(c)
           \/ \E t \in Tabs : SnapshotExpires(t)
           \/ \E s \in Sockets : PairingDecisionArrives(s)
    PROVE  IInv'
<1>1. UNCHANGED <<asked, ext, sock>>
  BY DEF ApprovalExpires, CommandExpires, DecisionArrives, SnapshotExpires,
         PairingDecisionArrives
<1>2. BrokerTyped' /\ broker'.socket = broker.socket
  <2>1. CASE UNCHANGED broker
    BY <1>1, <2>1, Unchanged
  <2>2. CASE \E c \in Ids : ApprovalExpires(c) \/ CommandExpires(c)
    BY <1>1, <2>2 DEF IInv, BrokerTyped, ApprovalExpires, CommandExpires, Undispatched
  <2>3. CASE \E t \in Tabs : SnapshotExpires(t)
    BY <1>1, <2>3 DEF IInv, BrokerTyped, SnapshotExpires
  <2>4. QED
    BY <2>1, <2>2, <2>3 DEF DecisionArrives, PairingDecisionArrives
<1>3. DecisionsTyped'
  <2>1. CASE UNCHANGED decisions
    BY <1>1, <2>1, Unchanged
  <2>2. CASE \E c \in Ids : DecisionArrives(c)
    BY <1>1, <2>2 DEF IInv, BrokerTyped, DecisionsTyped, DecisionArrives
  <2>3. CASE \E s \in Sockets : PairingDecisionArrives(s)
    BY <1>1, <2>3 DEF IInv, DecisionsTyped, PairingDecisionArrives
  <2>4. QED
    BY <2>1, <2>2, <2>3 DEF ApprovalExpires, CommandExpires, SnapshotExpires
<1>4. QED
  BY <1>1, <1>2, <1>3, Unchanged, Exchange

\* The pairing's expiry and its decision.
LEMMA PairingKeeps ==
    ASSUME IInv, AllowPairing \/ DenyPairing \/ \E s \in Sockets : PairingExpires(s)
    PROVE  IInv'
<1>1. UNCHANGED <<asked, ext>> /\ Good(sock, Len(asked))
  BY DEF AllowPairing, DenyPairing, PairingExpires, IInv
<1>2. CASE AllowPairing
  <2> DEFINE s == decisions.pairing.socket
             m == Message("paired", broker.lastKey + 1, 0)
  <2>1. sock' = Down(sock, s, m) /\ s \in Sockets \cup {None}
    BY <1>2 DEF AllowPairing, IInv, DecisionsTyped
  <2>2. m \in DownMessages(Len(asked))
    BY DEF IInv, BrokerTyped, Message, Types, Messages, DownMessages
  <2>3. Good(sock', Len(asked)) /\ Alike(sock, sock')
    BY <1>1, <2>1, <2>2, Asked, DownIsGood
  <2>4. BrokerTyped' /\ broker'.socket = broker.socket
    BY <1>1, <1>2 DEF IInv, BrokerTyped, AllowPairing
  <2>5. DecisionsTyped'
    BY <1>1, <1>2 DEF IInv, DecisionsTyped, AllowPairing, NoPost
  <2>6. QED
    BY <1>1, <2>3, <2>4, <2>5, Unchanged, Exchange
<1>3. CASE DenyPairing
  <2>1. /\ sock' = BrokerCloses(sock, decisions.pairing.socket)
        /\ decisions.pairing.socket \in Sockets \cup {None}
    BY <1>3 DEF DenyPairing, IInv, DecisionsTyped
  <2>2. Good(sock', Len(asked)) /\ Alike(sock, sock')
    BY <1>1, <2>1, Asked, BrokerClosesIsGood
  <2>3. BrokerTyped' /\ broker'.socket = broker.socket
    BY <1>1, <1>3 DEF IInv, BrokerTyped, DenyPairing
  <2>4. DecisionsTyped'
    BY <1>1, <1>3 DEF IInv, DecisionsTyped, DenyPairing, NoPost
  <2>5. QED
    BY <1>1, <2>2, <2>3, <2>4, Unchanged, Exchange
<1>4. CASE \E s \in Sockets : PairingExpires(s)
  <2>1. PICK s \in Sockets : PairingExpires(s)
    BY <1>4
  <2>2. Good(sock', Len(asked)) /\ Alike(sock, sock')
    BY <1>1, <2>1, Asked, RejectedIsGood DEF PairingExpires
  <2>3. BrokerTyped' /\ broker'.socket = broker.socket
    BY <1>1, <2>1 DEF IInv, BrokerTyped, PairingExpires
  <2>4. DecisionsTyped'
    BY <1>1, <2>1, Unchanged DEF PairingExpires
  <2>5. QED
    BY <1>1, <2>2, <2>3, <2>4, Unchanged, Exchange
<1>5. QED
  BY <1>2, <1>3, <1>4

\* An operation or a snapshot goes to the extension.
LEMMA SendingKeeps ==
    ASSUME IInv, (\E c \in Ids : Decide(c)) \/ (\E t \in Tabs : RequestSnapshot(t))
    PROVE  IInv'
<1>1. UNCHANGED <<asked, ext>> /\ Good(sock, Len(asked))
  BY DEF Decide, RequestSnapshot, IInv
<1>2. broker.socket \in Sockets \cup {None}
  BY DEF IInv, BrokerTyped
<1>3. CASE \E c \in Ids : Decide(c)
  <2>1. PICK c \in Ids : Decide(c)
    BY <1>3
  <2>2. c \in DOMAIN asked
    BY <2>1 DEF IInv, DecisionsTyped, Decide
  <2>3. Message("command", c, broker.gen) \in DownMessages(Len(asked))
    BY <2>2, Asked DEF IInv, BrokerTyped, Ids, Message, Types, Messages, DownMessages
  <2>4. Good(sock', Len(asked)) /\ Alike(sock, sock')
    BY <1>1, <1>2, <2>1, <2>3, Asked, DownIsGood, Unchanged DEF Decide
  <2>5. BrokerTyped' /\ broker'.socket = broker.socket
    <3> DEFINE b == [broker EXCEPT !.approvals = @ \ {c}]
    <3>1. CASE broker' = b
      BY <1>1, <3>1 DEF IInv, BrokerTyped
    <3>2. CASE broker' = Dispatched(b, c)
      BY <1>1, <2>2, <3>2 DEF IInv, BrokerTyped, Dispatched
    <3>3. QED
      BY <2>1, <3>1, <3>2 DEF Decide
  <2>6. DecisionsTyped'
    BY <1>1, <2>1, <2>2 DEF IInv, DecisionsTyped, Decide
  <2>7. QED
    BY <1>1, <2>4, <2>5, <2>6, Unchanged, Exchange
<1>4. CASE \E t \in Tabs : RequestSnapshot(t)
  <2>1. PICK t \in Tabs : RequestSnapshot(t)
    BY <1>4
  <2>2. Message("snapshot_request", t, 0) \in DownMessages(Len(asked))
    BY DEF Message, Types, Messages, DownMessages
  <2>3. Good(sock', Len(asked)) /\ Alike(sock, sock')
    BY <1>1, <1>2, <2>1, <2>2, Asked, DownIsGood DEF RequestSnapshot
  <2>4. BrokerTyped' /\ broker'.socket = broker.socket
    BY <1>1, <2>1 DEF IInv, BrokerTyped, RequestSnapshot
  <2>5. DecisionsTyped'
    BY <1>1, <2>1, Unchanged DEF RequestSnapshot
  <2>6. QED
    BY <1>1, <2>3, <2>4, <2>5, Unchanged, Exchange
<1>5. QED
  BY <1>3, <1>4

\* The agent asks for one more operation.
LEMMA AskKeeps ==
    ASSUME IInv, NEW t \in Tabs, Ask(t)
    PROVE  IInv'
<1> DEFINE n == Len(asked)
<1>1. /\ asked' = Append(asked, t) /\ UNCHANGED <<decisions, ext, sock>>
      /\ broker' = [broker EXCEPT !.approvals = @ \cup {n + 1}]
  BY DEF Ask
<1>2. /\ asked' \in Seq(Tabs) /\ n \in Nat /\ Len(asked') = n + 1
      /\ DOMAIN asked = 1..n /\ DOMAIN asked' = 1..(n + 1)
  BY <1>1, AppendProperties, LenProperties DEF IInv
<1>3. DownMessages(n) \subseteq DownMessages(n + 1)
  BY <1>2 DEF DownMessages
<1>4. Socket(n) \subseteq Socket(n + 1)
  BY <1>3, SeqMonotonic DEF Socket
<1>5. Good(sock', Len(asked'))
  BY <1>1, <1>2, <1>4 DEF IInv, Good
<1>6. BrokerTyped' /\ DecisionsTyped' /\ ExtTyped'
  BY <1>1, <1>2 DEF IInv, BrokerTyped, DecisionsTyped, ExtTyped, WorkerTyped
<1>7. broker'.socket = broker.socket
  BY <1>1 DEF IInv, BrokerTyped
<1>8. QED
  BY <1>1, <1>2, <1>5, <1>6, <1>7 DEF IInv

\* The pairing is withdrawn and its connection closed.
LEMMA RevokeKeeps ==
    ASSUME IInv, Revoke
    PROVE  IInv'
<1>1. /\ UNCHANGED <<asked, ext, decisions>> /\ sock' = BrokerCloses(sock, broker.socket)
      /\ broker.socket \in Sockets \cup {None}
  BY DEF Revoke, IInv, BrokerTyped
<1>2. /\ Good(sock', Len(asked)) /\ Alike(sock, sock')
      /\ broker.socket # None => sock'[broker.socket].b # "open"
  BY <1>1, Asked, BrokerClosesIsGood DEF IInv
<1>3. BrokerTyped'
  BY <1>1 DEF IInv, BrokerTyped, Revoke, None
<1>4. Linked(sock', ext.socket)
  BY <1>2 DEF IInv, Linked, Alike
<1>5. Single(sock', broker'.socket)
  BY <1>2, NoneIsNoSocket DEF IInv, Single, Alike
<1>6. QED
  BY <1>1, <1>2, <1>3, <1>4, <1>5, Unchanged DEF IInv

\* The broker starts again without a connection.
LEMMA BrokerRestartKeeps ==
    ASSUME IInv, BrokerRestart
    PROVE  IInv'
<1> DEFINE n == Len(asked)
           dead(s) == [BrokerCloses(sock, s)[s] EXCEPT !.b = "dead", !.auth = FALSE, !.up = <<>>]
<1>1. UNCHANGED <<asked, ext>> /\ decisions' = NoDecisions
  BY DEF BrokerRestart
<1>2. /\ Free \in Socket(n) /\ {Free.e, Free.b} = {"none"}
      /\ Free.auth = FALSE /\ Free.down = <<>> /\ Free.up = <<>>
      /\ <<>> \in Seq(LiveMessages) /\ <<>> \in Seq(UpMessages)
  BY EmptySeq DEF Free, Socket, Ends
<1>3. ASSUME NEW s \in Sockets, sock[s].e = "open"
      PROVE  /\ dead(s) \in Socket(n) /\ dead(s).e = "open" /\ dead(s).b = "dead"
             /\ dead(s).auth = FALSE /\ dead(s).up = <<>>
  <2>1. Good(BrokerCloses(sock, s), n) /\ Alike(sock, BrokerCloses(sock, s))
    BY Asked, BrokerClosesIsGood DEF IInv
  <2>2. BrokerCloses(sock, s)[s] \in Socket(n) /\ BrokerCloses(sock, s)[s].e = "open"
    BY <1>3, <2>1 DEF Good, Alike
  <2>3. QED
    BY <1>2, <2>2 DEF Socket, Ends
<1>4. ASSUME NEW s \in Sockets
      PROVE  sock'[s] = IF sock[s].e = "gone" THEN Free
                        ELSE IF sock[s].e = "open" THEN dead(s) ELSE sock[s]
  BY DEF BrokerRestart
<1>5. sock' \in [Sockets -> Socket(n)]
  <2>1. \A s \in Sockets : sock'[s] \in Socket(n)
    BY <1>2, <1>3, <1>4 DEF IInv, Good
  <2>2. QED
    BY <2>1 DEF BrokerRestart
<1> HIDE DEF dead
<1>6. Good(sock', n)
  BY <1>2, <1>3, <1>4, <1>5 DEF IInv, Good
<1>7. Linked(sock', ext.socket)
  <2>1. \A s \in Sockets :
           sock'[s].e = IF sock[s].e = "gone" THEN "none" ELSE sock[s].e
    BY <1>2, <1>3, <1>4
  <2>2. QED
    BY <2>1 DEF IInv, Linked
<1>8. Single(sock', None)
  BY <1>2, <1>3, <1>4 DEF IInv, Good, Single
<1>9. BrokerTyped' /\ broker'.socket = None
  BY <1>1 DEF IInv, BrokerTyped, BrokerRestart, Disconnected
<1>10. DecisionsTyped'
  BY <1>1 DEF DecisionsTyped, NoDecisions, NoPost
<1>11. QED
  BY <1>1, <1>6, <1>7, <1>8, <1>9, <1>10, Unchanged DEF IInv

\* Every step of the broker keeps the invariant.
LEMMA BrokerKeeps == IInv /\ BrokerStep => IInv'
  BY AuthenticateKeeps, RequestPairingKeeps, MessageKeeps, SocketClosedKeeps, BrokerForgets,
     PairingKeeps, SendingKeeps, AskKeeps, RevokeKeeps, BrokerRestartKeeps
     DEF BrokerStep, BrokerTakes

-----------------------------------------------------------------------------
(* Steps of the extension                                                  *)

\* A step of the extension that sends on its socket and keeps it.
LEMMA Sends ==
    ASSUME IInv, UNCHANGED <<asked, broker, decisions>>,
           ExtTyped', ext'.socket = ext.socket,
           NEW k, Good(k, Len(asked)), Alike(sock, k),
           NEW ms \in Seq(LiveMessages), sock' = k \/ sock' = Up(k, ms)
    PROVE  IInv'
<1>1. ext.socket \in Sockets \cup {None}
  BY DEF IInv, ExtTyped, WorkerTyped
<1>2. Good(sock', Len(asked)) /\ Alike(k, sock')
  BY <1>1, Asked, UpIsGood DEF Alike
<1>3. Alike(sock, sock')
  BY <1>2 DEF Alike
<1>4. QED
  BY <1>2, <1>3, Unchanged, Exchange

\* A step of the extension that gives its socket up.
LEMMA GivesUp ==
    ASSUME IInv, UNCHANGED <<asked, broker, decisions>>, ExtTyped', ext'.socket = None,
           NEW k, Good(k, Len(asked)), Alike(sock, k), sock' = ExtCloses(k, ext.socket)
    PROVE  IInv'
<1>1. ext.socket \in Sockets \cup {None}
  BY DEF IInv, ExtTyped, WorkerTyped
<1>2. /\ Good(sock', Len(asked)) /\ \A r \in Sockets \ {ext.socket} : sock'[r] = k[r]
      /\ ext.socket # None =>
            /\ sock'[ext.socket].e \notin {"connecting", "open"}
            /\ sock'[ext.socket].auth => k[ext.socket].auth
            /\ sock'[ext.socket].auth => sock'[ext.socket].b = k[ext.socket].b
  BY <1>1, Asked, ExtClosesIsGood
<1>3. Linked(sock', None)
  BY <1>1, <1>2, NoneIsNoSocket DEF IInv, Linked, Alike
<1>4. Single(sock', broker.socket)
  BY <1>1, <1>2, NoneIsNoSocket DEF IInv, Single, Alike
<1>5. BrokerTyped' /\ DecisionsTyped' /\ broker'.socket = broker.socket
  BY Unchanged
<1>6. QED
  BY <1>2, <1>3, <1>4, <1>5 DEF IInv

\* One message of a kind that is not a close is a sequence of live ones.
LEMMA OneMessage ==
    ASSUME NEW type \in Types \ {"close"}, NEW arg \in Nat \cup Tabs, NEW gen \in Nat,
           type = "tab_shared" => arg \in Tabs
    PROVE  <<Message(type, arg, gen)>> \in Seq(LiveMessages)
<1>1. Message(type, arg, gen) \in LiveMessages
  BY DEF Message, Messages, UpMessages, LiveMessages
<1>2. QED
  BY <1>1

\* Messages of the broker that keep the socket.
LEMMA HearsKeeps ==
    ASSUME IInv, NEW s \in Sockets,
           OnAuthenticated(s) \/ OnPaired(s) \/ OnSnapshotRequest(s) \/ OnCommand(s)
    PROVE  IInv'
<1>1. UNCHANGED <<asked, broker, decisions>>
  BY DEF OnAuthenticated, OnPaired, OnSnapshotRequest, OnCommand
<1>2. PICK type : Hears(s, type)
  BY DEF OnAuthenticated, OnPaired, OnSnapshotRequest, OnCommand
<1>3. /\ Good(Heard(s), Len(asked)) /\ Alike(sock, Heard(s))
      /\ Head(sock[s].down) \in DownMessages(Len(asked))
  BY <1>2, Asked, HeardIsGood DEF IInv
<1>4. <<>> \in Seq(LiveMessages)
  BY EmptySeq
<1>5. CASE OnAuthenticated(s)
  <2>1. ExtTyped' /\ ext'.socket = ext.socket
    BY <1>1, <1>3, <1>5
       DEF IInv, ExtTyped, WorkerTyped, Fields, OnAuthenticated, DownMessages, Messages
  <2>2. QED
    BY <1>1, <1>3, <1>4, <1>5, <2>1, Sends DEF OnAuthenticated
<1>6. CASE OnPaired(s)
  <2>1. News(s) \in Nat
    BY <1>3, <1>6 DEF OnPaired, Hears, News, DownMessages
  <2>2. ExtTyped' /\ ext'.socket = ext.socket
    BY <1>1, <1>6, <2>1 DEF IInv, ExtTyped, WorkerTyped, Fields, OnPaired
  <2>3. <<Message("authenticate", News(s), 0)>> \in Seq(LiveMessages)
    BY <2>1, OneMessage DEF Types
  <2>4. QED
    BY <1>1, <1>3, <1>6, <2>2, <2>3, Sends DEF OnPaired
<1>7. CASE OnSnapshotRequest(s)
  <2>1. ExtTyped' /\ ext'.socket = ext.socket
    BY <1>1, <1>7 DEF IInv, ExtTyped, WorkerTyped, Fields, OnSnapshotRequest
  <2>2. QED
    BY <1>1, <1>3, <1>4, <1>7, <2>1, Sends DEF OnSnapshotRequest
<1>8. CASE OnCommand(s)
  <2>1. News(s) \in DOMAIN asked
    BY <1>3, <1>8, Asked DEF OnCommand, Hears, News, DownMessages
  <2>2. ExtTyped' /\ ext'.socket = ext.socket
    BY <1>1, <1>8, <2>1 DEF IInv, ExtTyped, WorkerTyped, Fields, OnCommand
  <2>3. QED
    BY <1>1, <1>3, <1>4, <1>8, <2>2, Sends DEF OnCommand
<1>9. QED
  BY <1>5, <1>6, <1>7, <1>8

\* The connection is refused or closed by the broker.
LEMMA LosesSocket ==
    ASSUME IInv, NEW s \in Sockets, OnError(s) \/ OnClose(s)
    PROVE  IInv'
<1>1. /\ UNCHANGED <<asked, broker, decisions>> /\ sock' = ExtCloses(sock, s)
      /\ sock[s].e = "open"
  BY DEF OnError, OnClose, Hears
<1>2. ext.socket = s
  BY <1>1 DEF IInv, Linked
<1>3. ExtTyped' /\ ext'.socket = None
  <2>1. CASE OnError(s)
    BY <1>1, <2>1 DEF IInv, ExtTyped, WorkerTyped, Fields, OnError, Forgot, Armed, None
  <2>2. CASE OnClose(s)
    BY <1>1, <2>2 DEF IInv, ExtTyped, WorkerTyped, Fields, OnClose, Armed
  <2>3. QED
    BY <2>1, <2>2
<1>4. QED
  BY <1>1, <1>2, <1>3, GivesUp DEF IInv, Alike

\* What the extension sends by itself or for its user.
LEMMA OwnKeeps ==
    ASSUME IInv,
           \/ Heartbeat \/ Announce
           \/ \E t \in Tabs : CollectSnapshot(t) \/ Share(t) \/ Unshare(t)
           \/ \E c \in Ids : CommandDone(c)
    PROVE  IInv'
<1>1. UNCHANGED <<asked, broker, decisions>> /\ Good(sock, Len(asked)) /\ Alike(sock, sock)
  BY DEF Heartbeat, Announce, CollectSnapshot, Share, Unshare, CommandDone, IInv, Alike
<1>2. CASE Heartbeat
  <2>1. <<Plain("heartbeat")>> \in Seq(LiveMessages)
    BY PlainMessages, Asked
  <2>2. ExtTyped' /\ ext'.socket = ext.socket
    BY <1>1, <1>2, Unchanged DEF Heartbeat
  <2>3. QED
    BY <1>1, <1>2, <2>1, <2>2, Sends DEF Heartbeat
<1>3. CASE Announce
  <2>1. ext.stale \subseteq Tabs /\ ext.tabs \ ext.stale \subseteq Tabs
    BY DEF IInv, ExtTyped, WorkerTyped
  <2>2. /\ ForEach(ext.stale, "tab_unshared") \in Seq(LiveMessages)
        /\ ForEach(ext.tabs \ ext.stale, "tab_entry") \in Seq(LiveMessages)
    BY <2>1, ForEachIsGood DEF Types
  <2>3. ForEach(ext.stale, "tab_unshared") \o ForEach(ext.tabs \ ext.stale, "tab_entry")
            \in Seq(LiveMessages)
    BY <2>2, ConcatProperties
  <2>4. ExtTyped' /\ ext'.socket = ext.socket
    BY <1>1, <1>3 DEF IInv, ExtTyped, WorkerTyped, Fields, Announce
  <2>5. QED
    BY <1>1, <1>3, <2>3, <2>4, Sends DEF Announce
<1>4. CASE \E t \in Tabs : CollectSnapshot(t) \/ Share(t) \/ Unshare(t)
  <2>1. PICK t \in Tabs : CollectSnapshot(t) \/ Share(t) \/ Unshare(t)
    BY <1>4
  <2>2. \A type \in {"snapshot", "tab_shared", "tab_http", "tab_unshared"} :
            <<Message(type, t, 0)>> \in Seq(LiveMessages)
    BY OneMessage DEF Types
  <2>3. ExtTyped' /\ ext'.socket = ext.socket
    <3>1. CASE CollectSnapshot(t)
      BY <1>1, <3>1 DEF IInv, ExtTyped, WorkerTyped, Fields, CollectSnapshot
    <3>2. CASE Share(t)
      BY <1>1, <3>2 DEF IInv, ExtTyped, WorkerTyped, Fields, Share
    <3>3. CASE Unshare(t)
      BY <1>1, <3>3 DEF IInv, ExtTyped, WorkerTyped, Fields, Unshare
    <3>4. QED
      BY <2>1, <3>1, <3>2, <3>3
  <2>4. QED
    BY <1>1, <2>1, <2>2, <2>3, Sends DEF CollectSnapshot, Share, Unshare
<1>5. CASE \E c \in Ids : CommandDone(c)
  <2>1. PICK c \in Ids : CommandDone(c)
    BY <1>5
  <2>2. <<Message("result", c, ext.gen)>> \in Seq(LiveMessages)
    BY OneMessage DEF Types, Ids, IInv, ExtTyped, WorkerTyped
  <2>3. ExtTyped' /\ ext'.socket = ext.socket
    BY <1>1, <2>1 DEF IInv, ExtTyped, WorkerTyped, Fields, CommandDone
  <2>4. QED
    BY <1>1, <2>1, <2>2, <2>3, Sends DEF CommandDone
<1>6. QED
  BY <1>2, <1>3, <1>4, <1>5

\* The timer fires, or the user sets the broker's URL.
LEMMA TimerKeeps ==
    ASSUME IInv, TimerFires \/ SetBrokerUrl
    PROVE  IInv'
<1>1. UNCHANGED <<asked, broker, decisions, sock>>
  BY DEF TimerFires, SetBrokerUrl
<1>2. ExtTyped' /\ ext'.socket = ext.socket
  BY <1>1 DEF IInv, ExtTyped, WorkerTyped, Fields, TimerFires, SetBrokerUrl
<1>3. QED
  BY <1>1, <1>2, Unchanged, Exchange

\* A connection opens at both ends.
LEMMA OpenedKeeps ==
    ASSUME IInv, NEW s \in Sockets, Opened(s)
    PROVE  IInv'
<1> DEFINE n == Len(asked)
           hello == IF ext.key # None THEN Message("authenticate", ext.key, 0)
                    ELSE Plain("request_pairing")
           l == [sock EXCEPT ![s].e = "open", ![s].b = "open", ![s].up = <<hello>>]
<1>1. UNCHANGED <<asked, broker, decisions, ext>> /\ sock' = l
  BY DEF Opened
<1>2. <<hello>> \in Seq(LiveMessages) /\ <<hello>> \in Seq(UpMessages)
  <2>1. <<Message("authenticate", ext.key, 0)>> \in Seq(LiveMessages)
    BY OneMessage DEF Types, IInv, ExtTyped, WorkerTyped
  <2>2. <<hello>> \in Seq(LiveMessages)
    BY <2>1, PlainMessages, Asked
  <2>3. LiveMessages \subseteq UpMessages
    BY DEF LiveMessages
  <2>4. QED
    BY <2>2, <2>3, SeqMonotonic
<1> HIDE DEF hello
<1>3. sock[s] \in Socket(n) /\ sock[s].e = "connecting" /\ sock[s].auth = FALSE
  BY DEF IInv, Good, Opened, Socket
<1>4. /\ l[s] \in Socket(n) /\ l[s].e = "open" /\ l[s].b = "open"
      /\ l[s].auth = FALSE /\ l[s].up = <<hello>>
  BY <1>2, <1>3 DEF IInv, Good, Socket, Ends
<1>5. l \in [Sockets -> Socket(n)] /\ \A r \in Sockets \ {s} : l[r] = sock[r]
  BY <1>3, <1>4 DEF IInv, Good
<1> HIDE DEF l
<1>6. Good(l, n)
  BY <1>2, <1>4, <1>5 DEF IInv, Good
<1>7. Linked(l, ext.socket)
  BY <1>3, <1>4, <1>5 DEF IInv, Linked
<1>8. Single(l, broker.socket)
  BY <1>4, <1>5 DEF IInv, Single
<1>9. QED
  BY <1>1, <1>6, <1>7, <1>8, Unchanged DEF IInv

\* An attempt to connect fails.
LEMMA ConnectFailsKeeps ==
    ASSUME IInv, NEW s \in Sockets, ConnectFails(s)
    PROVE  IInv'
<1>1. /\ UNCHANGED <<asked, broker, decisions>> /\ sock[s].e = "connecting"
      /\ sock' = [sock EXCEPT ![s] = Free]
  BY DEF ConnectFails
<1>2. ext.socket = s /\ s # None
  BY <1>1, NoneIsNoSocket DEF IInv, Linked
<1>3. sock' = ExtCloses(sock, ext.socket)
  BY <1>1, <1>2 DEF ExtCloses
<1>4. ExtTyped' /\ ext'.socket = None
  BY <1>1 DEF IInv, ExtTyped, WorkerTyped, Fields, ConnectFails, Armed
<1>5. QED
  BY <1>1, <1>3, <1>4, GivesUp DEF IInv, Alike

\* A connect goes on: a new socket takes the place of the current one, or none does.
LEMMA OpenKeeps ==
    ASSUME IInv, UNCHANGED <<asked, broker, decisions>>,
           NEW x, WorkerTyped(x), Open(x)
    PROVE  IInv'
<1> DEFINE n == Len(asked)
           k == Cleared(sock)
<1>1. ext.socket \in Sockets \cup {None} /\ Good(sock, n)
  BY DEF IInv, ExtTyped, WorkerTyped
<1>2. CASE sock' = k /\ ext' = Armed([x EXCEPT !.socket = None])
  <2>1. ExtTyped' /\ ext'.socket = None
    BY <1>2 DEF ExtTyped, WorkerTyped, Fields, Armed
  <2>2. QED
    BY <1>1, <1>2, <2>1, GivesUp DEF Cleared, Alike
<1>3. ASSUME NEW s \in Sockets, k[s] = Free, ext' = [x EXCEPT !.socket = s],
             sock' = [k EXCEPT ![s].e = "connecting"]
      PROVE  IInv'
  <2>1. /\ Good(k, n) /\ \A r \in Sockets \ {ext.socket} : k[r] = sock[r]
        /\ ext.socket # None =>
              /\ k[ext.socket].e \notin {"connecting", "open"}
              /\ k[ext.socket].auth => sock[ext.socket].auth
              /\ k[ext.socket].auth => k[ext.socket].b = sock[ext.socket].b
    BY <1>1, Asked, ExtClosesIsGood DEF Cleared
  <2> HIDE DEF k
  <2>2. \A r \in Sockets : k[r].e \notin {"connecting", "open"}
    BY <1>1, <2>1, NoneIsNoSocket DEF IInv, Linked
  <2>3. Single(k, broker.socket)
    BY <1>1, <2>1, NoneIsNoSocket DEF IInv, Single
  <2>4. /\ k[s] \in Socket(n) /\ k[s].b = "none" /\ k[s].auth = FALSE
        /\ k[s].down = <<>> /\ k[s].up = <<>> /\ <<>> \in Seq(LiveMessages)
    <3>1. k[s] \in Socket(n)
      BY <2>1 DEF Good
    <3>2. k[s].b = "none" /\ k[s].auth = FALSE /\ k[s].down = <<>> /\ k[s].up = <<>>
      BY <1>3 DEF Free
    <3>3. <<>> \in Seq(LiveMessages)
      BY EmptySeq
    <3>4. QED
      BY <3>1, <3>2, <3>3
  <2>5. /\ sock'[s] \in Socket(n) /\ sock'[s].e = "connecting"
        /\ sock'[s].b = "none" /\ sock'[s].auth = FALSE
        /\ sock'[s].down = <<>> /\ sock'[s].up = <<>>
    BY <1>3, <2>1, <2>4 DEF Good, Socket, Ends
  <2>6. sock' \in [Sockets -> Socket(n)] /\ \A r \in Sockets \ {s} : sock'[r] = k[r]
    BY <1>3, <2>1, <2>5 DEF Good
  <2>7. Good(sock', n)
    BY <2>1, <2>4, <2>5, <2>6 DEF Good
  <2>8. Linked(sock', s)
    BY <2>2, <2>5, <2>6 DEF Linked
  <2>9. Single(sock', broker.socket)
    BY <2>3, <2>5, <2>6 DEF Single
  <2>10. ExtTyped' /\ ext'.socket = s
    BY <1>3 DEF ExtTyped, WorkerTyped, Fields
  <2>11. QED
    BY <2>7, <2>8, <2>9, <2>10, Unchanged DEF IInv
<1>4. QED
  BY <1>2, <1>3 DEF Open

\* A connect goes on, or finds a socket there.
LEMMA ConnectGoesOnKeeps ==
    ASSUME IInv, ConnectGoesOn
    PROVE  IInv'
<1>1. UNCHANGED <<asked, broker, decisions>>
  BY DEF ConnectGoesOn
<1>2. /\ WorkerTyped([ext EXCEPT !.retrying = @ - 1])
      /\ WorkerTyped([ext EXCEPT !.replacing = @ - 1])
  BY DEF IInv, ExtTyped, WorkerTyped, Fields
<1>3. CASE ext' = [ext EXCEPT !.retrying = @ - 1] /\ UNCHANGED sock
  <2>1. ExtTyped' /\ ext'.socket = ext.socket
    BY <1>1, <1>3 DEF IInv, ExtTyped, WorkerTyped, Fields
  <2>2. QED
    BY <1>1, <1>3, <2>1, Unchanged, Exchange
<1>4. QED
  BY <1>1, <1>2, <1>3, OpenKeeps DEF ConnectGoesOn

\* The user withdraws the pairing in the popup.
LEMMA ExtRevokeKeeps ==
    ASSUME IInv, ExtRevoke
    PROVE  IInv'
<1> DEFINE ms == ForEach(ext.tabs, "tab_unshared") \o <<Plain("unpair")>>
<1>1. /\ UNCHANGED <<asked, broker, decisions>> /\ Good(sock, Len(asked))
      /\ ext.tabs \subseteq Tabs /\ ext.socket \in Sockets \cup {None}
      /\ sock' = ExtCloses(Up(sock, ms), ext.socket)
  BY DEF ExtRevoke, IInv, ExtTyped, WorkerTyped
<1>2. ms \in Seq(LiveMessages)
  <2>1. ForEach(ext.tabs, "tab_unshared") \in Seq(LiveMessages)
    BY <1>1, ForEachIsGood DEF Types
  <2>2. <<Plain("unpair")>> \in Seq(LiveMessages)
    BY PlainMessages, Asked
  <2>3. QED
    BY <2>1, <2>2, ConcatProperties
<1>3. Good(Up(sock, ms), Len(asked)) /\ Alike(sock, Up(sock, ms))
  BY <1>1, <1>2, Asked, UpIsGood
<1>4. ExtTyped' /\ ext'.socket = None
  BY <1>1 DEF IInv, ExtTyped, WorkerTyped, Fields, ExtRevoke, None
<1>5. QED
  BY <1>1, <1>3, <1>4, GivesUp

\* The worker starts again.
LEMMA WorkerRestartKeeps ==
    ASSUME IInv, WorkerRestart
    PROVE  IInv'
<1>1. /\ UNCHANGED <<asked, broker, decisions>> /\ Good(sock, Len(asked))
      /\ sock' = ExtCloses(sock, ext.socket)
  BY DEF WorkerRestart, IInv
<1>2. PICK gone \in SUBSET ext.tabs :
          ext' = [ext EXCEPT !.socket = None, !.gen = 0, !.handled = {}, !.running = {},
                           !.snapping = {}, !.announcing = 0, !.armed = FALSE,
                           !.retrying = 1, !.replacing = 0, !.stale = @ \cup gone]
  BY DEF WorkerRestart
<1>3. DOMAIN ext' = DOMAIN ext
  BY <1>2, Zenon
<1>4. /\ ext'.socket = None /\ ext'.gen = 0 /\ ext'.running = {} /\ ext'.snapping = {}
  BY <1>2 DEF IInv, ExtTyped, WorkerTyped, Fields
<1>5. /\ ext'.key = ext.key /\ ext'.tabs = ext.tabs /\ ext'.fresh = ext.fresh
  BY <1>2 DEF IInv, ExtTyped, WorkerTyped, Fields
<1>6. ext'.stale = ext.stale \cup gone
  BY <1>2 DEF IInv, ExtTyped, WorkerTyped, Fields
<1>7. ExtTyped'
  BY <1>1, <1>3, <1>4, <1>5, <1>6 DEF IInv, ExtTyped, WorkerTyped
<1>8. QED
  BY <1>1, <1>4, <1>7, GivesUp DEF Alike

\* Every step of the extension keeps the invariant.
LEMMA ExtKeeps == IInv /\ ExtStep => IInv'
  BY TimerKeeps, ConnectGoesOnKeeps, OwnKeeps, OpenedKeeps, ConnectFailsKeeps, HearsKeeps,
     LosesSocket, ExtRevokeKeeps, WorkerRestartKeeps
     DEF ExtStep, ExtHears

\* The invariant is inductive.
THEOREM IInvNext == IInv /\ [Next]_vars => IInv'
<1> SUFFICES ASSUME IInv, [Next]_vars PROVE IInv'
  OBVIOUS
<1>1. CASE UNCHANGED vars
  <2>1. UNCHANGED <<asked, broker, decisions, ext, sock>>
    BY <1>1 DEF vars
  <2>2. QED
    BY <2>1, Unchanged, Exchange
<1>2. QED
  BY <1>1, BrokerKeeps, ExtKeeps DEF Next

\* The inductive invariant holds throughout.
LEMMA IInvAlways == Spec => []IInv
  BY IInvInit, IInvNext, PTL DEF Spec

\* The types of the maps, of the worker's variables and of the sockets, and what they say
\* of each other, hold for every number of tabs, sockets, operations and disturbances.
THEOREM TypeCorrect == Spec => []TypeOK
  BY IInvAlways, IInvImplies, PTL

\* However sockets are replaced, closed and lost, no two are open and authenticated, and
\* the one that is, is the broker's connection.
THEOREM ConnectionIsOne == Spec => []OneConnection
  BY IInvAlways, IInvImplies, PTL
=============================================================================
