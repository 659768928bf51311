-------------------------- MODULE SyncServerProofs --------------------------
(***************************************************************************)
(* Theorems about SyncServer.tla, for any sessions, clients, documents and *)
(* bounds.  They rest on four inductive invariants, the first three proved *)
(* together and the fourth from them:                                      *)
(*   Typing    every operation in a queue was typed by a session,          *)
(*   Registry  the server's maps agree with its connections,               *)
(*   Stages    the states of the two ends of a connection,                 *)
(*   Cursors   where the position of a cursor is on its way to the peers.  *)
(* The second part of the module is about what the queues between the two  *)
(* carry.                                                                  *)
(***************************************************************************)
EXTENDS SyncServer, FiniteSetTheorems, TLAPS

ConnState == {"NONE", "UNREGISTERED", "REGISTERED", "SYNCING", "LIVE",
              "DISCONNECTED"}

NetState == {"NEW", "DISCONNECTED", "CONNECTING", "REGISTERING", "REGISTERED",
             "SYNCING", "LIVE"}

\* The messages with operations in a set T.
UpMessage(T) ==
    [type : {"HELLO", "SYNC_COMPLETE"}]
       \cup [type : {"OPEN_DOCUMENT"}, document : DocumentID]
       \cup [type : {"OPERATION"}, op : T]
       \cup [type : {"CURSOR_UPDATE"}, position : T \cup {Start}]

DownMessage(T) ==
    [type : {"HELLO_ACK"}]
       \cup [type : {"SYNC_RESPONSE", "OPERATION"}, ops : SUBSET T]
       \cup [type : {"CURSOR_UPDATE"}, sender : Client, position : T \cup {Start}]

(***************************************************************************)
(* TypeOK with the operations typed so far in the place of all that the    *)
(* bounds admit.                                                           *)
(***************************************************************************)
ServerTyping ==
    /\ conn \in [Session -> ConnState]
    /\ current_document \in [Session -> DocumentID \cup {None}]
    /\ clients \in [DOMAIN clients -> Session]
    /\ DOMAIN clients \subseteq Client
    /\ DOMAIN pending_sync_operations \subseteq Client
    /\ \A c \in DOMAIN pending_sync_operations :
          pending_sync_operations[c] \in Seq(Typed)
    /\ presence \in [DOMAIN presence -> Typed \cup {Start}]
    /\ DOMAIN presence \subseteq Client
    /\ DOMAIN rows \subseteq DocumentID
    /\ \A d \in DOMAIN rows : rows[d] \in Seq(Typed)

ChannelTyping ==
    /\ toServer \in [Session -> Seq(UpMessage(Typed))]
    /\ toClient \in [Session -> Seq(DownMessage(Typed))]

ClientTyping ==
    /\ net \in [Session -> NetState]
    /\ known \in [Session -> SUBSET Typed]
    /\ cursor \in [Session -> Typed \cup {Start}]
    /\ cursor_due \in [Session -> BOOLEAN]
    /\ remote_cursors \in [Session -> [Client -> Typed \cup {Start, None}]]
    /\ incoming \in [Session -> Seq(DownMessage(Typed))]
    /\ outgoing \in [Session -> Seq(UpMessage(Typed))]

HistoryTyping ==
    /\ dropped \subseteq Typed
    /\ Typed \subseteq Op
    /\ \A op \in Typed : past[op] \subseteq Typed
    /\ {moves, drops} \subseteq Nat

Typing == ServerTyping /\ ChannelTyping /\ ClientTyping /\ HistoryTyping

-----------------------------------------------------------------------------
\* The server's maps.
Registry ==
    /\ \A s \in Session : IsRegistered(s) => Owns(s)
    /\ \A c \in DOMAIN clients : /\ ClientOf[clients[c]] = c
                                 /\ IsRegistered(clients[c])
    /\ DOMAIN presence = DOMAIN clients
    /\ DOMAIN pending_sync_operations =
          {c \in DOMAIN clients : ~IsLive(clients[c])}
    /\ \A s \in Session :
          /\ IsSyncing(s) \/ IsLive(s) => current_document[s] \in DOMAIN rows
          /\ conn[s] \in {"NONE", "UNREGISTERED", "REGISTERED"} =>
                ~HasDocument(s)

-----------------------------------------------------------------------------
\* The states of the two ends of a connection, and what is between them.
Ack == [type |-> "HELLO_ACK"]

Stage(s) ==
    /\ net[s] # "LIVE"
    /\ net[s] \in {"NEW", "CONNECTING"} => conn[s] = "NONE"
    /\ conn[s] = "NONE" => ~IsConnected(s) /\ toServer[s] = <<>>
    /\ net[s] \in {"NEW", "CONNECTING", "DISCONNECTED", "REGISTERED"} =>
          toClient[s] = <<>>
    /\ net[s] = "REGISTERING" => toClient[s] \in {<<>>, <<Ack>>}
    /\ net[s] = "SYNCING" =>
          \A i \in DOMAIN toClient[s] : toClient[s][i].type # "HELLO_ACK"
    /\ conn[s] = "UNREGISTERED" =>
          net[s] \in {"REGISTERING", "DISCONNECTED"} /\ toClient[s] = <<>>
    /\ conn[s] = "REGISTERED" /\ net[s] = "SYNCING" => toClient[s] = <<>>
    /\ conn[s] \in {"SYNCING", "LIVE"} => net[s] \in {"SYNCING", "DISCONNECTED"}
    /\ \A i \in DOMAIN toServer[s] :
          toServer[s][i].type = "OPEN_DOCUMENT" =>
             /\ net[s] \in {"SYNCING", "DISCONNECTED"}
             /\ toServer[s][i].document = WantedDocument[s]
    /\ \A i \in DOMAIN outgoing[s] :
          outgoing[s][i].type \notin {"HELLO", "OPEN_DOCUMENT"}
    /\ HasDocument(s) => current_document[s] = WantedDocument[s]
    /\ net[s] \in {"NEW", "CONNECTING", "REGISTERING", "REGISTERED"} =>
          incoming[s] = <<>>
    /\ \A i \in DOMAIN incoming[s] : incoming[s][i].type # "HELLO_ACK"

Stages == \A s \in Session : Stage(s)

-----------------------------------------------------------------------------
(***************************************************************************)
(* Sequences and messages.                                                 *)
(***************************************************************************)
LEMMA SeqGrows ==
    ASSUME NEW S, NEW T, S \subseteq T, NEW q \in Seq(S)
    PROVE  q \in Seq(T)
OBVIOUS

LEMMA HeadAndTail ==
    ASSUME NEW S, NEW q \in Seq(S), q # <<>>
    PROVE  /\ Head(q) \in S /\ Head(q) = q[1]
           /\ Tail(q) \in Seq(S)
           /\ Len(q) \in Nat \ {0} /\ Len(Tail(q)) = Len(q) - 1
           /\ DOMAIN q = 1..Len(q) /\ DOMAIN Tail(q) = 1..Len(q) - 1
           /\ \A i \in 1..Len(q) - 1 : Tail(q)[i] = q[i + 1]
OBVIOUS

LEMMA Appended ==
    ASSUME NEW S, NEW q \in Seq(S), NEW m \in S
    PROVE  /\ Append(q, m) \in Seq(S)
           /\ Len(q) \in Nat /\ Len(Append(q, m)) = Len(q) + 1
           /\ DOMAIN q = 1..Len(q)
           /\ DOMAIN Append(q, m) = 1..Len(q) + 1
           /\ \A i \in 1..Len(q) : Append(q, m)[i] = q[i]
           /\ Append(q, m)[Len(q) + 1] = m
OBVIOUS

LEMMA Joined ==
    ASSUME NEW S, NEW p \in Seq(S), NEW q \in Seq(S)
    PROVE  /\ p \o q \in Seq(S)
           /\ Len(p) \in Nat /\ Len(q) \in Nat
           /\ Len(p \o q) = Len(p) + Len(q)
           /\ DOMAIN p = 1..Len(p) /\ DOMAIN q = 1..Len(q)
           /\ DOMAIN (p \o q) = 1..Len(p) + Len(q)
           /\ \A i \in 1..Len(p) : (p \o q)[i] = p[i]
           /\ \A i \in 1..Len(q) : (p \o q)[Len(p) + i] = q[i]
OBVIOUS

LEMMA FirstOnes ==
    ASSUME NEW S, NEW q \in Seq(S), NEW n \in 0..Len(q)
    PROVE  /\ SubSeq(q, 1, n) \in Seq(S)
           /\ Len(SubSeq(q, 1, n)) = n
           /\ DOMAIN SubSeq(q, 1, n) = 1..n
           /\ \A i \in 1..n : SubSeq(q, 1, n)[i] = q[i]
OBVIOUS

LEMMA WholeSequence ==
    ASSUME NEW S, NEW q \in Seq(S)
    PROVE  SubSeq(q, 1, Len(q)) = q
OBVIOUS

LEMMA ToSets ==
    ASSUME NEW S, NEW q \in Seq(S)
    PROVE  /\ ToSet(q) \subseteq S
           /\ ToSet(q) = {q[i] : i \in 1..Len(q)}
BY DEF ToSet

LEMMA EmptyQueue ==
    /\ \A S : <<>> \in Seq(S)
    /\ Len(<<>>) = 0 /\ DOMAIN <<>> = {}
OBVIOUS

LEMMA OneMessage ==
    ASSUME NEW S, NEW m \in S
    PROVE  /\ <<m>> \in Seq(S) /\ Len(<<m>>) = 1 /\ <<m>>[1] = m
           /\ <<m>> # <<>> /\ DOMAIN <<m>> = 1..1
OBVIOUS

LEMMA SequenceOfSet ==
    ASSUME NEW S, IsFiniteSet(S)
    PROVE  /\ SetToSeq(S) \in [1..Cardinality(S) -> S]
           /\ SetToSeq(S) \in Seq(S)
           /\ Cardinality(S) \in Nat
           /\ \A x \in S : \E i \in 1..Cardinality(S) : SetToSeq(S)[i] = x
<1>1. Cardinality(S) \in Nat /\ ExistsBijection(1..Cardinality(S), S)
  BY FS_CardinalityType
<1>2. \E f \in [1..Cardinality(S) -> S] : IsInjective(f)
  <2>1. PICK f \in Bijection(1..Cardinality(S), S) : TRUE
    BY <1>1 DEF ExistsBijection
  <2>2. f \in [1..Cardinality(S) -> S] /\ IsInjective(f)
    BY <2>1 DEF Bijection, Injection, IsInjective
  <2> QED  BY <2>2
<1>3. SetToSeq(S) \in [1..Cardinality(S) -> S] /\ IsInjective(SetToSeq(S))
  BY <1>2 DEF SetToSeq
<1>4. SetToSeq(S) \in Injection(1..Cardinality(S), S)
  BY <1>3 DEF Injection, IsInjective
<1>5. Cardinality(1..Cardinality(S)) = Cardinality(S)
  <2>1. IsFiniteSet(1..Cardinality(S))
    BY <1>1, FS_Interval
  <2> QED  BY <1>1, <2>1, FS_Bijection
<1>6. SetToSeq(S) \in Surjection(1..Cardinality(S), S)
  BY <1>4, <1>5, FS_Injection
<1> QED  BY <1>1, <1>3, <1>6 DEF Surjection

LEMMA UpMessages ==
    ASSUME NEW T, NEW m \in UpMessage(T)
    PROVE  /\ m.type \in {"HELLO", "SYNC_COMPLETE", "OPEN_DOCUMENT",
                          "OPERATION", "CURSOR_UPDATE"}
           /\ m.type = "OPEN_DOCUMENT" => m.document \in DocumentID
           /\ m.type = "OPERATION" => m.op \in T
           /\ m.type = "CURSOR_UPDATE" => m.position \in T \cup {Start}
BY DEF UpMessage

LEMMA DownMessages ==
    ASSUME NEW T, NEW m \in DownMessage(T)
    PROVE  /\ m.type \in {"HELLO_ACK", "SYNC_RESPONSE", "OPERATION",
                          "CURSOR_UPDATE"}
           /\ m.type \in {"SYNC_RESPONSE", "OPERATION"} => m.ops \subseteq T
           /\ m.type = "CURSOR_UPDATE" => /\ m.sender \in Client
                                          /\ m.position \in T \cup {Start}
           /\ m.type = "HELLO_ACK" => m = Ack
BY DEF DownMessage, Ack

LEMMA MessagesGrow ==
    ASSUME NEW T, NEW U, T \subseteq U
    PROVE  UpMessage(T) \subseteq UpMessage(U) /\ DownMessage(T) \subseteq DownMessage(U)
BY DEF UpMessage, DownMessage

LEMMA UpFrom ==
    ASSUME NEW T
    PROVE  /\ [type |-> "HELLO"] \in UpMessage(T)
           /\ [type |-> "SYNC_COMPLETE"] \in UpMessage(T)
           /\ \A d \in DocumentID :
                 [type |-> "OPEN_DOCUMENT", document |-> d] \in UpMessage(T)
           /\ \A op \in T : [type |-> "OPERATION", op |-> op] \in UpMessage(T)
           /\ \A p \in T \cup {Start} :
                 [type |-> "CURSOR_UPDATE", position |-> p] \in UpMessage(T)
BY DEF UpMessage

LEMMA DownFrom ==
    ASSUME NEW T
    PROVE  /\ Ack \in DownMessage(T)
           /\ \A O \in SUBSET T :
                 /\ [type |-> "SYNC_RESPONSE", ops |-> O] \in DownMessage(T)
                 /\ [type |-> "OPERATION", ops |-> O] \in DownMessage(T)
           /\ \A c \in Client : \A p \in T \cup {Start} :
                 [type |-> "CURSOR_UPDATE", sender |-> c, position |-> p]
                    \in DownMessage(T)
BY DEF DownMessage, Ack

LEMMA StoredRows ==
    ASSUME ServerTyping, NEW d
    PROVE  /\ Stored(d) \subseteq Typed
           /\ d \in DOMAIN rows => /\ Stored(d) = {rows[d][i] : i \in 1..Len(rows[d])}
                                   /\ DOMAIN rows[d] = 1..Len(rows[d])
                                   /\ Len(rows[d]) \in Nat
BY DEF Stored, ToSet, ServerTyping

-----------------------------------------------------------------------------
(***************************************************************************)
(* Typing is an invariant.                                                 *)
(***************************************************************************)
LEMMA ReceiveCases ==
    ASSUME NEW s \in Session, ChannelTyping, ReceiveMessage(s)
    PROVE  LET m == Head(toServer[s])
           IN  /\ IsOpen(s) /\ toServer[s] # <<>> /\ m \in UpMessage(Typed)
               /\ UNCHANGED <<net, ui, queues, history>>
               /\ \/ /\ m.type = "HELLO" /\ Hello(s)
                     /\ ~IsRegistered(s) /\ ClientOf[s] \notin DOMAIN clients
                  \/ /\ m.type = "OPEN_DOCUMENT" /\ OpenDocument(s, m.document)
                     /\ IsRegistered(s) /\ ~HasDocument(s)
                  \/ /\ m.type = "OPERATION" /\ Operation(s, m.op)
                     /\ IsLive(s) /\ HasDocument(s)
                  \/ /\ m.type = "SYNC_COMPLETE" /\ SyncComplete(s)
                     /\ IsSyncing(s)
                  \/ /\ m.type = "CURSOR_UPDATE" /\ CursorUpdate(s, m.position)
                     /\ IsLive(s)
                  \/ Disconnect(s)
<1> DEFINE m == Head(toServer[s])
<1>1. toServer[s] \in Seq(UpMessage(Typed)) /\ toServer[s] # <<>>
  BY DEF ChannelTyping, ReceiveMessage
<1>2. m \in UpMessage(Typed)
  BY <1>1, HeadAndTail
<1>3. /\ IsOpen(s) /\ UNCHANGED <<net, ui, queues, history>>
      /\ \/ /\ Accepts(s, m)
            /\ \/ m.type = "HELLO" /\ Hello(s)
               \/ m.type = "OPEN_DOCUMENT" /\ OpenDocument(s, m.document)
               \/ m.type = "OPERATION" /\ Operation(s, m.op)
               \/ m.type = "SYNC_COMPLETE" /\ SyncComplete(s)
               \/ m.type = "CURSOR_UPDATE" /\ CursorUpdate(s, m.position)
         \/ ~Accepts(s, m) /\ Disconnect(s)
  BY DEF ReceiveMessage
<1> HIDE DEF m
<1>4. ASSUME Accepts(s, m)
      PROVE  /\ m.type = "HELLO" => ~IsRegistered(s)
                                       /\ ClientOf[s] \notin DOMAIN clients
             /\ m.type = "OPEN_DOCUMENT" => IsRegistered(s) /\ ~HasDocument(s)
             /\ m.type = "OPERATION" => IsLive(s) /\ HasDocument(s)
             /\ m.type = "SYNC_COMPLETE" => IsSyncing(s)
             /\ m.type = "CURSOR_UPDATE" => IsLive(s)
  BY <1>4 DEF Accepts
<1>5. \/ /\ m.type = "HELLO" /\ Hello(s)
         /\ ~IsRegistered(s) /\ ClientOf[s] \notin DOMAIN clients
      \/ /\ m.type = "OPEN_DOCUMENT" /\ OpenDocument(s, m.document)
         /\ IsRegistered(s) /\ ~HasDocument(s)
      \/ /\ m.type = "OPERATION" /\ Operation(s, m.op)
         /\ IsLive(s) /\ HasDocument(s)
      \/ /\ m.type = "SYNC_COMPLETE" /\ SyncComplete(s)
         /\ IsSyncing(s)
      \/ /\ m.type = "CURSOR_UPDATE" /\ CursorUpdate(s, m.position)
         /\ IsLive(s)
      \/ Disconnect(s)
  BY <1>3, <1>4
<1> QED  BY <1>1, <1>2, <1>3, <1>5 DEF m

\* What is sent arrives behind what is on its way.
LEMMA Sent ==
    ASSUME ChannelTyping, NEW messages \in [Session -> Seq(DownMessage(Typed))],
           Send(messages)
    PROVE  /\ toClient' \in [Session -> Seq(DownMessage(Typed))]
           /\ \A t \in Session : toClient'[t] = IF net[t] = "DISCONNECTED"
                                               THEN toClient[t]
                                               ELSE toClient[t] \o messages[t]
<1>1. \A t \in Session : /\ toClient[t] \in Seq(DownMessage(Typed))
                         /\ messages[t] \in Seq(DownMessage(Typed))
  BY DEF ChannelTyping
<1>2. \A t \in Session : toClient[t] \o messages[t] \in Seq(DownMessage(Typed))
  BY <1>1, Joined
<1>3. toClient' = [t \in Session |-> IF net[t] = "DISCONNECTED"
                                     THEN toClient[t]
                                     ELSE toClient[t] \o messages[t]]
  BY DEF Send
<1> QED  BY <1>1, <1>2, <1>3

LEMMA SentTo ==
    ASSUME ChannelTyping, NEW s \in Session,
           NEW messages \in Seq(DownMessage(Typed)), SendTo(s, messages)
    PROVE  /\ toClient' \in [Session -> Seq(DownMessage(Typed))]
           /\ \A t \in Session \ {s} : toClient'[t] = toClient[t]
           /\ net[s] = "DISCONNECTED" => toClient'[s] = toClient[s]
           /\ net[s] # "DISCONNECTED" => toClient'[s] = toClient[s] \o messages
<1> DEFINE all == [t \in Session |-> IF t = s THEN messages ELSE <<>>]
<1>1. all \in [Session -> Seq(DownMessage(Typed))]
  BY EmptyQueue
<1>2. /\ toClient' \in [Session -> Seq(DownMessage(Typed))]
      /\ \A t \in Session : toClient'[t] = IF net[t] = "DISCONNECTED"
                                           THEN toClient[t]
                                           ELSE toClient[t] \o all[t]
  BY <1>1, Sent DEF SendTo
<1>3. all[s] = messages /\ \A t \in Session \ {s} : all[t] = <<>>
  OBVIOUS
<1> HIDE DEF all
<1>4. \A t \in Session : /\ toClient[t] \in Seq(DownMessage(Typed))
                         /\ toClient[t] \o <<>> = toClient[t]
  BY DEF ChannelTyping
<1> QED  BY <1>2, <1>3, <1>4

LEMMA FiniteImage ==
    ASSUME NEW S, IsFiniteSet(S), NEW f
    PROVE  IsFiniteSet({f[x] : x \in S})
<1> DEFINE g == [x \in S |-> f[x]]
           T == {f[x] : x \in S}
<1>1. g \in Surjection(S, T)
  BY DEF Surjection
<1> HIDE DEF g, T
<1>2. IsFiniteSet(T)
  BY <1>1, FS_Surjection
<1> QED  BY <1>2 DEF T

LEMMA FinitelyManyClients ==
    ASSUME Typing, Registry
    PROVE  IsFiniteSet(DOMAIN clients)
<1> DEFINE T == {ClientOf[s] : s \in Session}
<1>1. IsFiniteSet(T)
  BY FiniteImage, SessionAssumption
<1>2. DOMAIN clients \subseteq T
  BY DEF Typing, ServerTyping, Registry
<1> QED  BY <1>1, <1>2, FS_Subset

\* What finish_sync sends.
LEMMA CatchUpMessages ==
    ASSUME Typing, Registry, NEW s \in Session, IsSyncing(s)
    PROVE  /\ WaitingFor(s) \in Seq(DownMessage(Typed))
           /\ PresenceFor(s) \in Seq(DownMessage(Typed))
           /\ \A i \in DOMAIN PresenceFor(s) :
                \E c \in DOMAIN clients \ {ClientOf[s]} :
                   /\ PresenceFor(s)[i] =
                         [type |-> "CURSOR_UPDATE", sender |-> c,
                          position |-> presence[c]]
                   /\ IsLive(clients[c]) /\ HasDocument(clients[c])
                   /\ current_document[clients[c]] = current_document[s]
           /\ \A c \in DOMAIN clients \ {ClientOf[s]} :
                /\ IsLive(clients[c]) /\ HasDocument(clients[c])
                /\ current_document[clients[c]] = current_document[s]
                => \E i \in DOMAIN PresenceFor(s) :
                      PresenceFor(s)[i] =
                         [type |-> "CURSOR_UPDATE", sender |-> c,
                          position |-> presence[c]]
<1> DEFINE waiting == pending_sync_operations[ClientOf[s]]
           others == {c \in DOMAIN presence \ {ClientOf[s]} :
                        /\ c \in DOMAIN clients
                        /\ IsLive(clients[c])
                        /\ HasDocument(clients[c])
                        /\ current_document[clients[c]] = current_document[s]}
           update == [c \in DOMAIN presence |->
                         [type |-> "CURSOR_UPDATE", sender |-> c,
                          position |-> presence[c]]]
           updates == {update[c] : c \in others}
<1>1. WaitingFor(s) \in Seq(DownMessage(Typed))
  <2>1. Owns(s) /\ ~IsLive(s)
    BY DEF Registry, IsRegistered, IsSyncing, IsLive
  <2>2. ClientOf[s] \in DOMAIN pending_sync_operations
    BY <2>1 DEF Registry, Owns
  <2>3. waiting \in Seq(Typed)
    BY <2>2 DEF Typing, ServerTyping
  <2>4. WaitingFor(s) = [i \in 1..Len(waiting) |->
                           [type |-> "OPERATION", ops |-> {waiting[i]}]]
    BY <2>3 DEF WaitingFor
  <2> HIDE DEF waiting
  <2>5. \A i \in 1..Len(waiting) : {waiting[i]} \in SUBSET Typed
    BY <2>3
  <2>6. \A i \in 1..Len(waiting) :
           [type |-> "OPERATION", ops |-> {waiting[i]}] \in DownMessage(Typed)
    BY <2>5, DownFrom
  <2> QED  BY <2>3, <2>4, <2>6
<1>2. \A c \in others : /\ update[c] \in DownMessage(Typed)
                        /\ update[c] = [type |-> "CURSOR_UPDATE", sender |-> c,
                                        position |-> presence[c]]
  <2> SUFFICES ASSUME NEW c \in others
               PROVE  update[c] \in DownMessage(Typed)
    OBVIOUS
  <2>1. c \in Client /\ presence[c] \in Typed \cup {Start}
    BY DEF Typing, ServerTyping
  <2>2. update[c] = [type |-> "CURSOR_UPDATE", sender |-> c,
                     position |-> presence[c]]
    OBVIOUS
  <2> QED  BY <2>1, <2>2, DownFrom
<1>3. PresenceFor(s) = SetToSeq(updates)
  <2>1. updates = {[type |-> "CURSOR_UPDATE", sender |-> c,
                    position |-> presence[c]] : c \in others}
    BY <1>2
  <2> QED  BY <2>1 DEF PresenceFor
<1>4. IsFiniteSet(updates)
  <2>1. others \subseteq DOMAIN clients
    OBVIOUS
  <2>2. IsFiniteSet(others)
    BY <2>1, FinitelyManyClients, FS_Subset
  <2> HIDE DEF others, update
  <2> QED  BY <2>2, FiniteImage
<1>5. /\ PresenceFor(s) \in Seq(updates)
      /\ \A i \in DOMAIN PresenceFor(s) : PresenceFor(s)[i] \in updates
      /\ \A u \in updates : \E i \in DOMAIN PresenceFor(s) : PresenceFor(s)[i] = u
  <2> HIDE DEF updates
  <2>1. /\ SetToSeq(updates) \in [1..Cardinality(updates) -> updates]
        /\ SetToSeq(updates) \in Seq(updates)
        /\ \A u \in updates : \E i \in 1..Cardinality(updates) :
              SetToSeq(updates)[i] = u
    BY <1>4, SequenceOfSet
  <2> QED  BY <1>3, <2>1
<1>6. updates \subseteq DownMessage(Typed)
  BY <1>2
<1>7. PresenceFor(s) \in Seq(DownMessage(Typed))
  <2> HIDE DEF updates
  <2> QED  BY <1>5, <1>6, SeqGrows
<1>8. ASSUME NEW i \in DOMAIN PresenceFor(s)
      PROVE  \E c \in others :
                PresenceFor(s)[i] = [type |-> "CURSOR_UPDATE", sender |-> c,
                                     position |-> presence[c]]
  <2>1. PresenceFor(s)[i] \in updates
    BY <1>5
  <2> QED  BY <1>2, <2>1
<1>9. ASSUME NEW c \in others
      PROVE  \E i \in DOMAIN PresenceFor(s) :
                PresenceFor(s)[i] = [type |-> "CURSOR_UPDATE", sender |-> c,
                                     position |-> presence[c]]
  <2>1. update[c] \in updates
    OBVIOUS
  <2> HIDE DEF updates, update
  <2> QED  BY <1>2, <1>5, <2>1
<1>10. DOMAIN presence = DOMAIN clients
  BY DEF Registry
<1> QED  BY <1>1, <1>7, <1>8, <1>9, <1>10

\* What a routed message does to the channels.
LEMMA Routed ==
    ASSUME Typing, NEW s \in Session, NEW m \in DownMessage(Typed),
           Send(ToLivePeers(s, m))
    PROVE  /\ toClient' \in [Session -> Seq(DownMessage(Typed))]
           /\ \A t \in Session :
                toClient'[t] =
                   IF net[t] # "DISCONNECTED" /\ IsLive(t)
                         /\ \E c \in Peers(s) : clients[c] = t
                   THEN Append(toClient[t], m) ELSE toClient[t]
<1> DEFINE all == ToLivePeers(s, m)
<1>1. \A t \in Session : all[t] = IF \E c \in Peers(s) : clients[c] = t /\ IsLive(t)
                                  THEN <<m>> ELSE <<>>
  BY DEF ToLivePeers
<1>2. all \in [Session -> Seq(DownMessage(Typed))]
  BY EmptyQueue, OneMessage DEF ToLivePeers
<1> HIDE DEF all
<1>3. /\ toClient' \in [Session -> Seq(DownMessage(Typed))]
      /\ \A t \in Session : toClient'[t] = IF net[t] = "DISCONNECTED"
                                           THEN toClient[t]
                                           ELSE toClient[t] \o all[t]
  BY <1>2, Sent DEF Typing, all
<1>4. \A t \in Session : /\ toClient[t] \in Seq(DownMessage(Typed))
                         /\ toClient[t] \o <<>> = toClient[t]
                         /\ toClient[t] \o <<m>> = Append(toClient[t], m)
  BY DEF Typing, ChannelTyping
<1> QED  BY <1>1, <1>3, <1>4

-----------------------------------------------------------------------------
(***************************************************************************)
(* Typing and Registry are invariants: the server's handlers.              *)
(***************************************************************************)
LEMMA ClientSideStays ==
    ASSUME Typing, UNCHANGED <<net, ui, queues, dropped, past, moves>>,
           drops' \in Nat
    PROVE  ClientTyping' /\ HistoryTyping' /\ Typed' = Typed
BY DEF Typing, ClientTyping, HistoryTyping, ui, queues, Typed

LEMMA ReadTyped ==
    ASSUME Typing, NEW s \in Session, toServer[s] # <<>>, Read(s)
    PROVE  /\ toServer' \in [Session -> Seq(UpMessage(Typed))]
           /\ \A t \in Session : toServer'[t] = IF t = s THEN Tail(toServer[t])
                                                ELSE toServer[t]
<1>1. toServer \in [Session -> Seq(UpMessage(Typed))]
  BY DEF Typing, ChannelTyping
<1>2. Tail(toServer[s]) \in Seq(UpMessage(Typed))
  BY <1>1, HeadAndTail
<1> QED  BY <1>1, <1>2 DEF Read

\* Registry when neither the registered sessions nor the maps' domains change.
LEMMA RegistryStays ==
    ASSUME Typing, Registry, UNCHANGED <<conn, current_document, clients>>,
           DOMAIN presence' = DOMAIN presence,
           DOMAIN pending_sync_operations' = DOMAIN pending_sync_operations,
           DOMAIN rows \subseteq DOMAIN rows'
    PROVE  Registry'
BY DEF Registry, IsRegistered, IsLive, IsSyncing, HasDocument, Owns

LEMMA HelloBase ==
    ASSUME Typing, Registry, NEW s \in Session, toServer[s] # <<>>,
           UNCHANGED <<net, ui, queues, history>>, IsOpen(s),
           Hello(s), ~IsRegistered(s), ClientOf[s] \notin DOMAIN clients
    PROVE  Typing' /\ Registry'
<1> DEFINE c == ClientOf[s]
<1>1. c \in Client
  BY SessionAssumption
<1>2. ClientTyping' /\ HistoryTyping' /\ Typed' = Typed
  BY ClientSideStays DEF history, Typing, HistoryTyping
<1>3. /\ Read(s) /\ SendTo(s, <<Ack>>)
      /\ conn' = [conn EXCEPT ![s] = "REGISTERED"]
      /\ clients' = Put(clients, c, s)
      /\ pending_sync_operations' = Put(pending_sync_operations, c, <<>>)
      /\ presence' = Put(presence, c, Start)
      /\ UNCHANGED <<current_document, rows>>
  BY DEF Hello, Ack
<1> HIDE DEF c
<1>4. ChannelTyping'
  <2>1. <<Ack>> \in Seq(DownMessage(Typed))
    BY DownFrom, OneMessage
  <2> QED  BY <1>2, <1>3, <2>1, ReadTyped, SentTo DEF ChannelTyping, Typing
<1>5. /\ DOMAIN clients' = DOMAIN clients \cup {c}
      /\ clients'[c] = s
      /\ \A x \in DOMAIN clients \ {c} : clients'[x] = clients[x]
      /\ clients' = [x \in DOMAIN clients \cup {c} |-> clients'[x]]
  BY <1>3 DEF Put
<1>6. /\ DOMAIN pending_sync_operations' = DOMAIN pending_sync_operations \cup {c}
      /\ pending_sync_operations'[c] = <<>>
      /\ \A x \in DOMAIN pending_sync_operations \ {c} :
            pending_sync_operations'[x] = pending_sync_operations[x]
  BY <1>3 DEF Put
<1>7. /\ DOMAIN presence' = DOMAIN presence \cup {c}
      /\ presence'[c] = Start
      /\ \A x \in DOMAIN presence \ {c} : presence'[x] = presence[x]
      /\ presence' = [x \in DOMAIN presence \cup {c} |-> presence'[x]]
  BY <1>3 DEF Put
<1>8. ServerTyping'
  <2>1. conn' \in [Session -> ConnState]
    BY <1>3 DEF Typing, ServerTyping, ConnState
  <2>2. clients' \in [DOMAIN clients' -> Session] /\ DOMAIN clients' \subseteq Client
    BY <1>1, <1>5 DEF Typing, ServerTyping
  <2>3. /\ DOMAIN pending_sync_operations' \subseteq Client
        /\ \A x \in DOMAIN pending_sync_operations' :
              pending_sync_operations'[x] \in Seq(Typed)
    BY <1>1, <1>6, EmptyQueue DEF Typing, ServerTyping
  <2>4. /\ presence' \in [DOMAIN presence' -> Typed \cup {Start}]
        /\ DOMAIN presence' \subseteq Client
    BY <1>1, <1>7 DEF Typing, ServerTyping
  <2>5. /\ current_document' \in [Session -> DocumentID \cup {None}]
        /\ DOMAIN rows' \subseteq DocumentID
        /\ \A d \in DOMAIN rows' : rows'[d] \in Seq(Typed)
    BY <1>3 DEF Typing, ServerTyping
  <2> QED  BY <1>2, <2>1, <2>2, <2>3, <2>4, <2>5 DEF ServerTyping
<1>9. Registry'
  <2>1. \A t \in Session : conn'[t] = IF t = s THEN "REGISTERED" ELSE conn[t]
    BY <1>3 DEF Typing, ServerTyping
  <2>2. c \notin DOMAIN clients /\ conn[s] \notin {"REGISTERED", "SYNCING", "LIVE"}
    BY DEF c, IsRegistered
  <2>3. ASSUME NEW t \in Session, IsRegistered(t)'
        PROVE  Owns(t)'
    BY <1>5, <2>1, <2>2, <2>3 DEF Registry, IsRegistered, Owns, c
  <2>4. ASSUME NEW x \in DOMAIN clients'
        PROVE  ClientOf[clients'[x]] = x /\ IsRegistered(clients[x])'
    <3>1. CASE x = c
      BY <1>5, <2>1, <3>1 DEF IsRegistered, c
    <3>2. CASE x # c
      <4>1. x \in DOMAIN clients /\ clients'[x] = clients[x] /\ clients[x] \in Session
        BY <1>5, <2>4, <3>2 DEF Typing, ServerTyping
      <4> QED  BY <2>1, <2>2, <4>1 DEF Registry, IsRegistered
    <3> QED  BY <3>1, <3>2
  <2>5. DOMAIN presence' = DOMAIN clients'
    BY <1>5, <1>7 DEF Registry
  <2>6. DOMAIN pending_sync_operations' =
           {x \in DOMAIN clients' : ~IsLive(clients[x])'}
    <3>1. \A x \in DOMAIN clients : /\ x # c /\ clients'[x] = clients[x]
                                    /\ clients[x] \in Session
                                    /\ clients[x] # s
      BY <1>5, <2>2 DEF Typing, ServerTyping, Registry, IsRegistered
    <3>2. \A x \in DOMAIN clients : IsLive(clients[x])' <=> IsLive(clients[x])
      BY <2>1, <3>1 DEF IsLive
    <3>3. ~IsLive(clients[c])'
      BY <1>5, <2>1 DEF IsLive
    <3> QED  BY <1>5, <1>6, <3>2, <3>3 DEF Registry
  <2>7. \A t \in Session :
           /\ (IsSyncing(t) \/ IsLive(t))' => current_document'[t] \in DOMAIN rows'
           /\ conn'[t] \in {"NONE", "UNREGISTERED", "REGISTERED"} =>
                 ~HasDocument(t)'
    <3>1. conn[s] \in {"NONE", "UNREGISTERED"}
      BY <2>2 DEF IsOpen, Typing, ServerTyping, ConnState
    <3> QED  BY <1>3, <2>1, <3>1 DEF Registry, IsSyncing, IsLive, HasDocument
  <2> QED  BY <2>3, <2>4, <2>5, <2>6, <2>7 DEF Registry
<1> QED  BY <1>2, <1>4, <1>8, <1>9 DEF Typing

LEMMA OpenDocumentBase ==
    ASSUME Typing, Registry, NEW s \in Session, toServer[s] # <<>>,
           UNCHANGED <<net, ui, queues, history>>, NEW d \in DocumentID,
           OpenDocument(s, d), IsRegistered(s), ~HasDocument(s)
    PROVE  Typing' /\ Registry'
<1>1. ClientTyping' /\ HistoryTyping' /\ Typed' = Typed
  BY ClientSideStays DEF history, Typing, HistoryTyping
<1>2. /\ Read(s)
      /\ SendTo(s, <<[type |-> "SYNC_RESPONSE", ops |-> Stored(d)]>>)
      /\ rows' = IF d \in DOMAIN rows THEN rows ELSE Put(rows, d, <<>>)
      /\ current_document' = [current_document EXCEPT ![s] = d]
      /\ conn' = [conn EXCEPT ![s] = "SYNCING"]
      /\ UNCHANGED <<clients, pending_sync_operations, presence>>
  BY DEF OpenDocument
<1>3. ChannelTyping'
  <2>1. Stored(d) \in SUBSET Typed
    BY StoredRows DEF Typing
  <2>2. <<[type |-> "SYNC_RESPONSE", ops |-> Stored(d)]>>
           \in Seq(DownMessage(Typed))
    BY <2>1, DownFrom, OneMessage
  <2> QED  BY <1>1, <1>2, <2>2, ReadTyped, SentTo DEF ChannelTyping, Typing
<1>4. /\ DOMAIN rows' = DOMAIN rows \cup {d}
      /\ \A e \in DOMAIN rows : rows'[e] = rows[e]
      /\ d \notin DOMAIN rows => rows'[d] = <<>>
  BY <1>2 DEF Put
<1>5. ServerTyping'
  <2>1. conn' \in [Session -> ConnState]
        /\ current_document' \in [Session -> DocumentID \cup {None}]
    BY <1>2 DEF Typing, ServerTyping, ConnState
  <2>2. /\ DOMAIN rows' \subseteq DocumentID
        /\ \A e \in DOMAIN rows' : rows'[e] \in Seq(Typed)
    BY <1>4, EmptyQueue DEF Typing, ServerTyping
  <2> QED  BY <1>1, <1>2, <2>1, <2>2 DEF Typing, ServerTyping
<1>6. Registry'
  <2>1. /\ \A t \in Session : conn'[t] = IF t = s THEN "SYNCING" ELSE conn[t]
        /\ \A t \in Session : current_document'[t] =
                                 IF t = s THEN d ELSE current_document[t]
    BY <1>2 DEF Typing, ServerTyping
  <2>2. conn[s] = "REGISTERED"
    BY NoneAssumption
    DEF Registry, IsRegistered, IsSyncing, IsLive, HasDocument, Typing, ServerTyping
  <2>3. \A t \in Session : /\ IsRegistered(t)' <=> IsRegistered(t)
                           /\ IsLive(t)' <=> IsLive(t)
                           /\ Owns(t)' <=> Owns(t)
    BY <1>2, <2>1, <2>2 DEF IsRegistered, IsLive, Owns
  <2>4. \A t \in Session :
           /\ (IsSyncing(t) \/ IsLive(t))' => current_document'[t] \in DOMAIN rows'
           /\ conn'[t] \in {"NONE", "UNREGISTERED", "REGISTERED"} =>
                 ~HasDocument(t)'
    BY <1>4, <2>1 DEF Registry, IsSyncing, IsLive, HasDocument
  <2>5. \A c \in DOMAIN clients : clients[c] \in Session
    BY DEF Typing, ServerTyping
  <2>6. \A c \in DOMAIN clients : /\ ClientOf[clients[c]] = c
                                  /\ IsRegistered(clients[c])'
                                  /\ IsLive(clients[c])' <=> IsLive(clients[c])
    BY <2>3, <2>5, <1>2 DEF Registry
  <2> QED  BY <1>2, <2>3, <2>4, <2>6 DEF Registry
<1> QED  BY <1>1, <1>3, <1>5, <1>6 DEF Typing

LEMMA OperationBase ==
    ASSUME Typing, Registry, NEW s \in Session, toServer[s] # <<>>,
           UNCHANGED <<net, ui, queues, history>>, NEW op \in Typed,
           Operation(s, op), IsLive(s)
    PROVE  Typing' /\ Registry'
<1> DEFINE d == current_document[s]
           P  == pending_sync_operations
<1>1. ClientTyping' /\ HistoryTyping' /\ Typed' = Typed
  BY ClientSideStays DEF history, Typing, HistoryTyping
<1>2. /\ Read(s)
      /\ Send(ToLivePeers(s, [type |-> "OPERATION", ops |-> {op}]))
      /\ rows' = IF op \in Stored(d) THEN rows
                 ELSE [rows EXCEPT ![d] = Append(@, op)]
      /\ pending_sync_operations' = Collect(s, op)
      /\ UNCHANGED <<conn, current_document, clients, presence>>
  BY DEF Operation
<1>3. d \in DOMAIN rows
  BY DEF Registry, IsLive
<1>4. ChannelTyping'
  <2>1. [type |-> "OPERATION", ops |-> {op}] \in DownMessage(Typed)
    BY DownFrom
  <2>2. toServer' \in [Session -> Seq(UpMessage(Typed))]
    BY <1>2, ReadTyped
  <2>3. toClient' \in [Session -> Seq(DownMessage(Typed))]
    BY <1>2, <2>1, Routed
  <2> QED  BY <1>1, <2>2, <2>3 DEF ChannelTyping
<1>5. /\ DOMAIN rows' = DOMAIN rows
      /\ \A e \in DOMAIN rows : rows'[e] \in Seq(Typed)
  <2>1. \A e \in DOMAIN rows : rows[e] \in Seq(Typed)
    BY DEF Typing, ServerTyping
  <2>2. Append(rows[d], op) \in Seq(Typed)
    BY <1>3, <2>1, Appended
  <2> HIDE DEF d
  <2> QED  BY <1>2, <2>1, <2>2
<1>6. /\ DOMAIN Collect(s, op) = DOMAIN P
      /\ \A c \in DOMAIN P : Collect(s, op)[c] \in Seq(Typed)
  <2>1. {p \in Peers(s) : IsSyncing(clients[p])} \subseteq DOMAIN P
    BY DEF Peers, Registry, IsSyncing, IsLive
  <2>2. \A c \in DOMAIN P : P[c] \in Seq(Typed)
    BY DEF Typing, ServerTyping
  <2>3. \A c \in DOMAIN P : Append(P[c], op) \in Seq(Typed)
    BY <2>2, Appended
  <2>4. DOMAIN P \cup {p \in Peers(s) : IsSyncing(clients[p])} = DOMAIN P
    BY <2>1
  <2>5. Collect(s, op) = [c \in DOMAIN P |->
                             IF c \in Peers(s) /\ IsSyncing(clients[c])
                             THEN Append(P[c], op) ELSE P[c]]
    BY <2>4 DEF Collect
  <2> HIDE DEF P
  <2> QED  BY <2>2, <2>3, <2>5
<1>7. ServerTyping'
  <2> HIDE DEF d, P
  <2>1. /\ DOMAIN pending_sync_operations' \subseteq Client
        /\ \A c \in DOMAIN pending_sync_operations' :
              pending_sync_operations'[c] \in Seq(Typed)
    BY <1>2, <1>6 DEF Typing, ServerTyping, P
  <2> QED  BY <1>1, <1>2, <1>5, <2>1 DEF Typing, ServerTyping
<1> HIDE DEF d, P
<1> QED  BY <1>1, <1>2, <1>4, <1>5, <1>6, <1>7, RegistryStays DEF Typing, P

LEMMA CursorUpdateBase ==
    ASSUME Typing, Registry, NEW s \in Session, toServer[s] # <<>>,
           UNCHANGED <<net, ui, queues, history>>,
           NEW position \in Typed \cup {Start},
           CursorUpdate(s, position), IsLive(s)
    PROVE  Typing' /\ Registry'
<1>1. ClientTyping' /\ HistoryTyping' /\ Typed' = Typed
  BY ClientSideStays DEF history, Typing, HistoryTyping
<1>2. /\ Read(s)
      /\ Send(ToLivePeers(s, [type |-> "CURSOR_UPDATE", sender |-> ClientOf[s],
                              position |-> position]))
      /\ presence' = [presence EXCEPT ![ClientOf[s]] = position]
      /\ UNCHANGED <<conn, current_document, clients, pending_sync_operations,
                     rows>>
  BY DEF CursorUpdate
<1>3. ChannelTyping'
  <2>1. [type |-> "CURSOR_UPDATE", sender |-> ClientOf[s],
         position |-> position] \in DownMessage(Typed)
    BY DownFrom, SessionAssumption
  <2>2. toServer' \in [Session -> Seq(UpMessage(Typed))]
    BY <1>2, ReadTyped
  <2>3. toClient' \in [Session -> Seq(DownMessage(Typed))]
    BY <1>2, <2>1, Routed
  <2> QED  BY <1>1, <2>2, <2>3 DEF ChannelTyping
<1>4. presence' \in [DOMAIN presence -> Typed \cup {Start}]
      /\ DOMAIN presence' = DOMAIN presence
  BY <1>2 DEF Typing, ServerTyping
<1>5. ServerTyping'
  BY <1>1, <1>2, <1>4 DEF Typing, ServerTyping
<1> QED  BY <1>1, <1>2, <1>3, <1>4, <1>5, RegistryStays DEF Typing

LEMMA SyncCompleteBase ==
    ASSUME Typing, Registry, NEW s \in Session, toServer[s] # <<>>,
           UNCHANGED <<net, ui, queues, history>>,
           SyncComplete(s), IsSyncing(s)
    PROVE  Typing' /\ Registry'
<1> DEFINE c == ClientOf[s]
           P == pending_sync_operations
<1>1. ClientTyping' /\ HistoryTyping' /\ Typed' = Typed
  BY ClientSideStays DEF history, Typing, HistoryTyping
<1>2. /\ Read(s)
      /\ SendTo(s, CatchUp(s))
      /\ pending_sync_operations' = Erase(P, c)
      /\ conn' = [conn EXCEPT ![s] = "LIVE"]
      /\ UNCHANGED <<current_document, clients, presence, rows>>
  BY DEF SyncComplete
<1>3. ChannelTyping'
  <2>1. CatchUp(s) \in Seq(DownMessage(Typed))
    BY CatchUpMessages, Joined DEF CatchUp
  <2> QED  BY <1>1, <1>2, <2>1, ReadTyped, SentTo DEF ChannelTyping, Typing
<1>4. /\ DOMAIN pending_sync_operations' = DOMAIN P \ {c}
      /\ \A x \in DOMAIN P \ {c} : pending_sync_operations'[x] = P[x]
  BY <1>2 DEF Erase
<1>5. ServerTyping'
  <2>1. conn' \in [Session -> ConnState]
    BY <1>2 DEF Typing, ServerTyping, ConnState
  <2>2. /\ DOMAIN pending_sync_operations' \subseteq Client
        /\ \A x \in DOMAIN pending_sync_operations' :
              pending_sync_operations'[x] \in Seq(Typed)
    BY <1>4 DEF Typing, ServerTyping
  <2> QED  BY <1>1, <1>2, <2>1, <2>2 DEF Typing, ServerTyping
<1>6. Registry'
  <2>1. \A t \in Session : conn'[t] = IF t = s THEN "LIVE" ELSE conn[t]
    BY <1>2 DEF Typing, ServerTyping
  <2>2. conn[s] = "SYNCING" /\ Owns(s)
    BY DEF Registry, IsRegistered, IsSyncing
  <2>3. \A t \in Session : /\ IsRegistered(t)' <=> IsRegistered(t)
                           /\ IsLive(t)' <=> IsLive(t) \/ t = s
                           /\ Owns(t)' <=> Owns(t)
    BY <1>2, <2>1, <2>2 DEF IsRegistered, IsLive, Owns
  <2>4. \A t \in Session :
           /\ (IsSyncing(t) \/ IsLive(t))' => current_document'[t] \in DOMAIN rows'
           /\ conn'[t] \in {"NONE", "UNREGISTERED", "REGISTERED"} =>
                 ~HasDocument(t)'
    BY <1>2, <2>1, <2>2 DEF Registry, IsSyncing, IsLive, HasDocument
  <2>5. \A x \in DOMAIN clients : /\ clients[x] \in Session
                                  /\ clients[x] = s <=> x = c
    BY <2>2 DEF Typing, ServerTyping, Registry, Owns
  <2>6. \A x \in DOMAIN clients :
           /\ ClientOf[clients[x]] = x
           /\ IsRegistered(clients[x])'
           /\ IsLive(clients[x])' <=> IsLive(clients[x]) \/ x = c
    BY <2>3, <2>5, <1>2 DEF Registry
  <2>7. DOMAIN pending_sync_operations' =
           {x \in DOMAIN clients : ~IsLive(clients[x])'}
    BY <1>4, <2>6 DEF Registry
  <2> QED  BY <1>2, <2>3, <2>4, <2>6, <2>7 DEF Registry
<1> QED  BY <1>1, <1>3, <1>5, <1>6 DEF Typing

\* What Disconnect does, in every case where it is called.
LEMMA Disconnected ==
    ASSUME Typing, Registry, NEW s \in Session, Disconnect(s)
    PROVE  /\ \A t \in Session : conn'[t] = IF t = s THEN "DISCONNECTED" ELSE conn[t]
           /\ DOMAIN clients' = DOMAIN clients \ {x \in {ClientOf[s]} : Owns(s)}
           /\ clients' = [x \in DOMAIN clients' |-> clients[x]]
           /\ DOMAIN presence' = DOMAIN clients'
           /\ presence' = [x \in DOMAIN presence' |-> presence[x]]
           /\ DOMAIN pending_sync_operations' =
                 DOMAIN pending_sync_operations \ {x \in {ClientOf[s]} : Owns(s)}
           /\ \A x \in DOMAIN pending_sync_operations' :
                 pending_sync_operations'[x] = pending_sync_operations[x]
           /\ UNCHANGED <<current_document, rows>>
           /\ \A t \in Session : toServer'[t] = IF t = s THEN <<>> ELSE toServer[t]
           /\ \E n \in 0..Len(toClient[s]) :
                 \A t \in Session : toClient'[t] = IF t = s
                                                   THEN SubSeq(toClient[s], 1, n)
                                                   ELSE toClient[t]
           /\ conn' \in [Session -> ConnState]
           /\ toServer' \in [Session -> Seq(UpMessage(Typed))]
           /\ toClient' \in [Session -> Seq(DownMessage(Typed))]
<1> DEFINE c == ClientOf[s]
<1>1. /\ conn' = [conn EXCEPT ![s] = "DISCONNECTED"]
      /\ clients' = IF Owns(s) THEN Erase(clients, c) ELSE clients
      /\ pending_sync_operations' =
            IF Owns(s) THEN Erase(pending_sync_operations, c)
            ELSE pending_sync_operations
      /\ presence' = IF Owns(s) THEN Erase(presence, c) ELSE presence
      /\ \E n \in 0..Len(toClient[s]) :
            toClient' = [toClient EXCEPT ![s] = SubSeq(@, 1, n)]
      /\ toServer' = [toServer EXCEPT ![s] = <<>>]
      /\ UNCHANGED <<current_document, rows>>
  BY DEF Disconnect
<1> HIDE DEF c
<1>2. /\ \A t \in Session : conn'[t] = IF t = s THEN "DISCONNECTED" ELSE conn[t]
      /\ conn' \in [Session -> ConnState]
  BY <1>1 DEF Typing, ServerTyping, ConnState
<1>3. /\ DOMAIN clients' = DOMAIN clients \ {x \in {c} : Owns(s)}
      /\ clients' = [x \in DOMAIN clients' |-> clients[x]]
  <2>1. clients = [x \in DOMAIN clients |-> clients[x]]
    BY DEF Typing, ServerTyping
  <2> QED  BY <1>1, <2>1 DEF Erase
<1>4. /\ DOMAIN presence' = DOMAIN presence \ {x \in {c} : Owns(s)}
      /\ presence' = [x \in DOMAIN presence' |-> presence[x]]
  <2>1. presence = [x \in DOMAIN presence |-> presence[x]]
    BY DEF Typing, ServerTyping
  <2> QED  BY <1>1, <2>1 DEF Erase
<1>5. DOMAIN presence' = DOMAIN clients'
  BY <1>3, <1>4 DEF Registry
<1>6. /\ DOMAIN pending_sync_operations' =
            DOMAIN pending_sync_operations \ {x \in {c} : Owns(s)}
      /\ \A x \in DOMAIN pending_sync_operations' :
            pending_sync_operations'[x] = pending_sync_operations[x]
  BY <1>1 DEF Erase
<1>7. /\ \A t \in Session : toServer'[t] = IF t = s THEN <<>> ELSE toServer[t]
      /\ toServer' \in [Session -> Seq(UpMessage(Typed))]
  BY <1>1, EmptyQueue DEF Typing, ChannelTyping
<1>8. PICK n \in 0..Len(toClient[s]) :
         toClient' = [toClient EXCEPT ![s] = SubSeq(@, 1, n)]
  BY <1>1
<1>9. toClient \in [Session -> Seq(DownMessage(Typed))]
  BY DEF Typing, ChannelTyping
<1>10. SubSeq(toClient[s], 1, n) \in Seq(DownMessage(Typed))
  BY <1>9, FirstOnes
<1>11. /\ \A t \in Session : toClient'[t] = IF t = s THEN SubSeq(toClient[s], 1, n)
                                           ELSE toClient[t]
       /\ toClient' \in [Session -> Seq(DownMessage(Typed))]
  BY <1>8, <1>9, <1>10
<1> QED  BY <1>1, <1>2, <1>3, <1>4, <1>5, <1>6, <1>7, <1>11 DEF c

LEMMA DisconnectBase ==
    ASSUME Typing, Registry, NEW s \in Session, Disconnect(s), IsOpen(s),
           UNCHANGED <<net, ui, queues, dropped, past, moves>>, drops' \in Nat
    PROVE  Typing' /\ Registry'
<1>1. ClientTyping' /\ HistoryTyping' /\ Typed' = Typed
  BY ClientSideStays
<1> DEFINE gone == {x \in {ClientOf[s]} : Owns(s)}
<1>2. /\ \A t \in Session : conn'[t] = IF t = s THEN "DISCONNECTED" ELSE conn[t]
      /\ DOMAIN clients' = DOMAIN clients \ gone
      /\ clients' = [x \in DOMAIN clients' |-> clients[x]]
      /\ DOMAIN presence' = DOMAIN clients'
      /\ presence' = [x \in DOMAIN presence' |-> presence[x]]
      /\ DOMAIN pending_sync_operations' =
            DOMAIN pending_sync_operations \ gone
      /\ \A x \in DOMAIN pending_sync_operations' :
            pending_sync_operations'[x] = pending_sync_operations[x]
      /\ UNCHANGED <<current_document, rows>>
      /\ conn' \in [Session -> ConnState]
      /\ toServer' \in [Session -> Seq(UpMessage(Typed))]
      /\ toClient' \in [Session -> Seq(DownMessage(Typed))]
  BY Disconnected
<1> HIDE DEF gone
<1>3. ChannelTyping'
  BY <1>1, <1>2 DEF ChannelTyping
<1>4. ServerTyping'
  <2>1. clients' \in [DOMAIN clients' -> Session] /\ DOMAIN clients' \subseteq Client
    BY <1>2 DEF Typing, ServerTyping
  <2>2. /\ presence' \in [DOMAIN presence' -> Typed \cup {Start}]
        /\ DOMAIN presence' \subseteq Client
    BY <1>2, <2>1 DEF Typing, ServerTyping, Registry
  <2>3. /\ DOMAIN pending_sync_operations' \subseteq Client
        /\ \A x \in DOMAIN pending_sync_operations' :
              pending_sync_operations'[x] \in Seq(Typed)
    BY <1>2 DEF Typing, ServerTyping
  <2> QED  BY <1>1, <1>2, <2>1, <2>2, <2>3 DEF Typing, ServerTyping
<1>5. \A x \in DOMAIN clients' :
         /\ x \in DOMAIN clients /\ clients'[x] = clients[x]
         /\ clients[x] \in Session /\ ClientOf[clients[x]] = x
         /\ clients[x] # s
  BY <1>2 DEF Typing, ServerTyping, Registry, gone, Owns
<1>6. Registry'
  <2>1. ASSUME NEW t \in Session, IsRegistered(t)'
        PROVE  Owns(t)'
    <3>1. t # s /\ Owns(t)
      BY <1>2, <2>1 DEF Registry, IsRegistered
    <3>2. ClientOf[t] \notin gone
      BY <3>1 DEF gone, Owns
    <3> QED  BY <1>2, <1>5, <3>1, <3>2 DEF Owns
  <2>2. \A x \in DOMAIN clients' : /\ ClientOf[clients'[x]] = x
                                   /\ IsRegistered(clients[x])'
                                   /\ IsLive(clients[x])' <=> IsLive(clients[x])
    BY <1>2, <1>5 DEF Registry, IsRegistered, IsLive
  <2>3. DOMAIN pending_sync_operations' =
           {x \in DOMAIN clients' : ~IsLive(clients[x])'}
    BY <1>2, <2>2, <1>5 DEF Registry
  <2>4. \A t \in Session :
           /\ (IsSyncing(t) \/ IsLive(t))' => current_document'[t] \in DOMAIN rows'
           /\ conn'[t] \in {"NONE", "UNREGISTERED", "REGISTERED"} =>
                 ~HasDocument(t)'
    BY <1>2 DEF Registry, IsSyncing, IsLive, HasDocument
  <2> QED  BY <1>2, <2>1, <2>2, <2>3, <2>4 DEF Registry
<1> QED  BY <1>1, <1>3, <1>4, <1>6 DEF Typing

-----------------------------------------------------------------------------
(***************************************************************************)
(* Typing and Registry are invariants: the client's handlers.              *)
(***************************************************************************)
LEMMA ServerSideStays ==
    ASSUME Typing, Registry, UNCHANGED server, Typed \subseteq Typed'
    PROVE  ServerTyping' /\ Registry'
<1>1. UNCHANGED <<conn, current_document, clients, pending_sync_operations,
                  presence, rows>>
  BY DEF server
<1>2. ServerTyping'
  <2>1. \A q \in Seq(Typed) : q \in Seq(Typed')
    BY SeqGrows
  <2>2. /\ \A c \in DOMAIN pending_sync_operations :
              pending_sync_operations[c] \in Seq(Typed')
        /\ \A d \in DOMAIN rows : rows[d] \in Seq(Typed')
        /\ presence \in [DOMAIN presence -> Typed' \cup {Start}]
    BY <2>1 DEF Typing, ServerTyping
  <2> QED  BY <1>1, <2>2 DEF Typing, ServerTyping
<1>3. Registry'
  BY <1>1, RegistryStays
<1> QED  BY <1>2, <1>3

LEMMA Closed ==
    ASSUME Typing, NEW s \in Session, Close(s)
    PROVE  /\ net' \in [Session -> NetState]
           /\ \A t \in Session : net'[t] = IF t = s THEN "DISCONNECTED" ELSE net[t]
           /\ toClient' \in [Session -> Seq(DownMessage(Typed))]
           /\ \A t \in Session : toClient'[t] = IF t = s THEN <<>> ELSE toClient[t]
           /\ toServer' \in [Session -> Seq(UpMessage(Typed))]
           /\ \E n \in 0..Len(toServer[s]) :
                 \A t \in Session : toServer'[t] = IF t = s
                                                   THEN SubSeq(toServer[s], 1, n)
                                                   ELSE toServer[t]
<1>1. /\ toClient \in [Session -> Seq(DownMessage(Typed))]
      /\ toServer \in [Session -> Seq(UpMessage(Typed))]
      /\ net \in [Session -> NetState]
  BY DEF Typing, ChannelTyping, ClientTyping
<1>2. PICK n \in 0..Len(toServer[s]) :
         toServer' = [toServer EXCEPT ![s] = SubSeq(@, 1, n)]
  BY DEF Close
<1>3. SubSeq(toServer[s], 1, n) \in Seq(UpMessage(Typed))
  BY <1>1, FirstOnes
<1>4. /\ toServer' \in [Session -> Seq(UpMessage(Typed))]
      /\ \A t \in Session : toServer'[t] = IF t = s THEN SubSeq(toServer[s], 1, n)
                                           ELSE toServer[t]
  BY <1>1, <1>2, <1>3
<1>5. /\ toClient' \in [Session -> Seq(DownMessage(Typed))]
      /\ \A t \in Session : toClient'[t] = IF t = s THEN <<>> ELSE toClient[t]
  BY <1>1, EmptyQueue DEF Close
<1>6. /\ net' \in [Session -> NetState]
      /\ \A t \in Session : net'[t] = IF t = s THEN "DISCONNECTED" ELSE net[t]
  BY <1>1 DEF Close, NetState
<1> QED  BY <1>4, <1>5, <1>6

LEMMA ClosedBase ==
    ASSUME Typing, Registry, NEW s \in Session, Close(s),
           UNCHANGED <<server, ui, outgoing, dropped, past, moves>>,
           drops' \in Nat, UNCHANGED incoming
    PROVE  Typing' /\ Registry'
<1>1. Typed' = Typed
  BY DEF Typed
<1>2. ServerTyping' /\ Registry'
  BY <1>1, ServerSideStays
<1>3. ChannelTyping'
  BY <1>1, Closed DEF ChannelTyping
<1>4. ClientTyping'
  BY <1>1, Closed DEF Typing, ClientTyping, ui
<1>5. HistoryTyping'
  BY <1>1 DEF Typing, HistoryTyping
<1> QED  BY <1>2, <1>3, <1>4, <1>5 DEF Typing

LEMMA ConnectBase ==
    ASSUME Typing, Registry, NEW s \in Session, Connect(s) \/ ConnectFails(s)
    PROVE  Typing' /\ Registry'
<1>1. /\ UNCHANGED <<server, channels, ui, queues, dropped, past, moves>>
      /\ drops' \in {drops, drops + 1}
      /\ net' \in [Session -> NetState]
  BY DEF Connect, ConnectFails, history, Typing, ClientTyping, NetState
<1>2. Typed' = Typed
  BY <1>1 DEF Typed
<1>3. ServerTyping' /\ Registry'
  BY <1>1, <1>2, ServerSideStays
<1>4. ChannelTyping'
  BY <1>1, <1>2 DEF Typing, ChannelTyping, channels
<1>5. ClientTyping'
  BY <1>1, <1>2 DEF Typing, ClientTyping, ui, queues
<1>6. HistoryTyping'
  BY <1>1, <1>2 DEF Typing, HistoryTyping
<1> QED  BY <1>3, <1>4, <1>5, <1>6 DEF Typing

LEMMA ConnectedBase ==
    ASSUME Typing, Registry, NEW s \in Session, Connected(s), conn[s] = "NONE"
    PROVE  Typing' /\ Registry'
<1>1. /\ net' = [net EXCEPT ![s] = "REGISTERING"]
      /\ conn' = [conn EXCEPT ![s] = "UNREGISTERED"]
      /\ toServer' = [toServer EXCEPT ![s] = <<[type |-> "HELLO"]>>]
      /\ UNCHANGED <<current_document, clients, pending_sync_operations,
                     presence, rows, toClient, ui, queues, history>>
  BY DEF Connected
<1>2. Typed' = Typed
  BY <1>1 DEF Typed, history
<1>3. ServerTyping'
  BY <1>1, <1>2 DEF Typing, ServerTyping, ConnState
<1>4. ChannelTyping'
  <2>1. <<[type |-> "HELLO"]>> \in Seq(UpMessage(Typed))
    BY UpFrom, OneMessage
  <2>2. toServer' \in [Session -> Seq(UpMessage(Typed))]
    BY <1>1, <2>1 DEF Typing, ChannelTyping
  <2> QED  BY <1>1, <1>2, <2>2 DEF Typing, ChannelTyping
<1>5. ClientTyping'
  BY <1>1, <1>2 DEF Typing, ClientTyping, ui, queues, NetState
<1>6. HistoryTyping'
  BY <1>1, <1>2 DEF Typing, HistoryTyping, history
<1>7. Registry'
  <2>1. \A t \in Session : conn'[t] = IF t = s THEN "UNREGISTERED" ELSE conn[t]
    BY <1>1 DEF Typing, ServerTyping
  <2>2. \A t \in Session : /\ IsRegistered(t)' <=> IsRegistered(t)
                           /\ IsLive(t)' <=> IsLive(t)
                           /\ IsSyncing(t)' <=> IsSyncing(t)
                           /\ Owns(t)' <=> Owns(t)
                           /\ HasDocument(t)' <=> HasDocument(t)
    BY <1>1, <2>1 DEF IsRegistered, IsLive, IsSyncing, Owns, HasDocument
  <2>3. \A c \in DOMAIN clients : /\ clients[c] \in Session
                                  /\ IsRegistered(clients[c])' <=> IsRegistered(clients[c])
                                  /\ IsLive(clients[c])' <=> IsLive(clients[c])
    BY <2>2, <1>1 DEF Typing, ServerTyping
  <2> QED  BY <1>1, <2>1, <2>2, <2>3 DEF Registry
<1> QED  BY <1>3, <1>4, <1>5, <1>6, <1>7 DEF Typing

LEMMA SendOpenDocumentBase ==
    ASSUME Typing, Registry, NEW s \in Session, SendOpenDocument(s)
    PROVE  Typing' /\ Registry'
<1> DEFINE m == [type |-> "OPEN_DOCUMENT", document |-> WantedDocument[s]]
<1>1. /\ net' = [net EXCEPT ![s] = "SYNCING"]
      /\ toServer' = [toServer EXCEPT ![s] = Append(@, m)]
      /\ UNCHANGED <<server, toClient, ui, queues, history>>
  BY DEF SendOpenDocument
<1>2. Typed' = Typed
  BY <1>1 DEF Typed, history
<1>3. ServerTyping' /\ Registry'
  BY <1>1, <1>2, ServerSideStays
<1>4. ChannelTyping'
  <2>1. m \in UpMessage(Typed)
    BY UpFrom, SessionAssumption
  <2>2. toServer[s] \in Seq(UpMessage(Typed))
    BY DEF Typing, ChannelTyping
  <2> HIDE DEF m
  <2>3. Append(toServer[s], m) \in Seq(UpMessage(Typed))
    BY <2>1, <2>2, Appended
  <2> QED  BY <1>1, <1>2, <2>3 DEF Typing, ChannelTyping
<1>5. ClientTyping'
  BY <1>1, <1>2 DEF Typing, ClientTyping, ui, queues, NetState
<1>6. HistoryTyping'
  BY <1>1, <1>2 DEF Typing, HistoryTyping, history
<1> QED  BY <1>3, <1>4, <1>5, <1>6 DEF Typing

\* The two outcomes of handle_message for a message it expects.
LEMMA HandleCases ==
    ASSUME Typing, NEW s \in Session, HandleMessage(s)
    PROVE  LET m == Head(toClient[s])
           IN  /\ IsConnected(s) /\ toClient[s] # <<>>
               /\ m \in DownMessage(Typed) /\ m = toClient[s][1]
               /\ UNCHANGED <<server, ui, outgoing, history>>
               /\ \/ /\ Expects(s, m) /\ m.type = "HELLO_ACK"
                     /\ toClient' = [toClient EXCEPT ![s] = Tail(@)]
                     /\ net' = [net EXCEPT ![s] = "REGISTERED"]
                     /\ UNCHANGED <<incoming, toServer>>
                  \/ /\ Expects(s, m) /\ m.type # "HELLO_ACK"
                     /\ toClient' = [toClient EXCEPT ![s] = Tail(@)]
                     /\ incoming' = [incoming EXCEPT ![s] = Append(@, m)]
                     /\ UNCHANGED <<net, toServer>>
                  \/ ~Expects(s, m) /\ Close(s) /\ UNCHANGED incoming
<1>1. toClient[s] \in Seq(DownMessage(Typed)) /\ toClient[s] # <<>>
  BY DEF Typing, ChannelTyping, HandleMessage
<1>2. Head(toClient[s]) \in DownMessage(Typed) /\ Head(toClient[s]) = toClient[s][1]
  BY <1>1, HeadAndTail
<1> QED  BY <1>1, <1>2 DEF HandleMessage

LEMMA HandleMessageBase ==
    ASSUME Typing, Registry, NEW s \in Session, HandleMessage(s)
    PROVE  Typing' /\ Registry'
<1> DEFINE m == Head(toClient[s])
<1>1. /\ toClient[s] # <<>> /\ m \in DownMessage(Typed)
      /\ UNCHANGED <<server, ui, outgoing, history>>
      /\ \/ /\ toClient' = [toClient EXCEPT ![s] = Tail(@)]
            /\ net' = [net EXCEPT ![s] = "REGISTERED"]
            /\ UNCHANGED <<incoming, toServer>>
         \/ /\ toClient' = [toClient EXCEPT ![s] = Tail(@)]
            /\ incoming' = [incoming EXCEPT ![s] = Append(@, m)]
            /\ UNCHANGED <<net, toServer>>
         \/ Close(s) /\ UNCHANGED incoming
  BY HandleCases
<1>2. Typed' = Typed
  BY <1>1 DEF Typed, history
<1>3. ServerTyping' /\ Registry'
  BY <1>1, <1>2, ServerSideStays
<1>4. /\ toClient \in [Session -> Seq(DownMessage(Typed))]
      /\ incoming \in [Session -> Seq(DownMessage(Typed))]
      /\ net \in [Session -> NetState]
  BY DEF Typing, ChannelTyping, ClientTyping
<1> HIDE DEF m
<1>5. /\ Tail(toClient[s]) \in Seq(DownMessage(Typed))
      /\ Append(incoming[s], m) \in Seq(DownMessage(Typed))
  BY <1>1, <1>4, HeadAndTail, Appended
<1>6. CASE Close(s) /\ UNCHANGED incoming
  <2>1. drops' \in Nat
    BY <1>1 DEF history, Typing, HistoryTyping
  <2> QED  BY <1>1, <1>6, <2>1, ClosedBase DEF history
<1>7. CASE /\ toClient' = [toClient EXCEPT ![s] = Tail(@)] /\ UNCHANGED toServer
           /\ net' = [net EXCEPT ![s] = "REGISTERED"] \/ UNCHANGED net
           /\ incoming' = [incoming EXCEPT ![s] = Append(@, m)]
                 \/ UNCHANGED incoming
  <2>1. ChannelTyping'
    BY <1>2, <1>4, <1>5, <1>7 DEF Typing, ChannelTyping
  <2>2. net' \in [Session -> NetState]
    BY <1>4, <1>7 DEF NetState
  <2>3. incoming' \in [Session -> Seq(DownMessage(Typed))]
    BY <1>4, <1>5, <1>7
  <2>4. ClientTyping'
    BY <1>1, <1>2, <2>2, <2>3 DEF Typing, ClientTyping, ui
  <2>5. HistoryTyping'
    BY <1>1, <1>2 DEF Typing, HistoryTyping, history
  <2> QED  BY <1>3, <2>1, <2>4, <2>5 DEF Typing
<1> QED  BY <1>1, <1>6, <1>7

LEMMA ProcessOutgoingBase ==
    ASSUME Typing, Registry, NEW s \in Session, ProcessOutgoing(s)
    PROVE  Typing' /\ Registry'
<1>1. /\ outgoing' = [outgoing EXCEPT ![s] = <<>>]
      /\ UNCHANGED <<server, toClient, net, ui, incoming, past, moves, drops>>
  BY DEF ProcessOutgoing
<1>2. Typed' = Typed
  BY <1>1 DEF Typed
<1>3. ServerTyping' /\ Registry'
  BY <1>1, <1>2, ServerSideStays
<1>4. /\ toServer \in [Session -> Seq(UpMessage(Typed))]
      /\ outgoing \in [Session -> Seq(UpMessage(Typed))]
  BY DEF Typing, ChannelTyping, ClientTyping
<1>5. toServer[s] \o outgoing[s] \in Seq(UpMessage(Typed))
  BY <1>4, Joined
<1>6. \/ /\ toServer' = [toServer EXCEPT ![s] =
                           IF conn[s] = "DISCONNECTED" THEN @
                           ELSE @ \o outgoing[s]]
         /\ UNCHANGED dropped
      \/ /\ dropped' = dropped \cup
               {m.op : m \in {x \in ToSet(outgoing[s]) : x.type = "OPERATION"}}
         /\ UNCHANGED toServer
  BY DEF ProcessOutgoing, TakeAll
<1>7. toServer' \in [Session -> Seq(UpMessage(Typed))]
  BY <1>4, <1>5, <1>6
<1>8. dropped' \subseteq Typed
  <2>1. ToSet(outgoing[s]) \subseteq UpMessage(Typed)
    BY <1>4, ToSets
  <2>2. \A m \in ToSet(outgoing[s]) : m.type = "OPERATION" => m.op \in Typed
    BY <2>1, UpMessages
  <2>3. {m.op : m \in {x \in ToSet(outgoing[s]) : x.type = "OPERATION"}}
           \subseteq Typed
    BY <2>2
  <2> QED  BY <1>6, <2>3 DEF Typing, HistoryTyping
<1>9. ChannelTyping'
  BY <1>1, <1>2, <1>7 DEF Typing, ChannelTyping
<1>10. ClientTyping'
  <2>1. outgoing' \in [Session -> Seq(UpMessage(Typed))]
    BY <1>1, <1>4, EmptyQueue
  <2> QED  BY <1>1, <1>2, <2>1 DEF Typing, ClientTyping, ui
<1>11. HistoryTyping'
  BY <1>1, <1>2, <1>8 DEF Typing, HistoryTyping
<1> QED  BY <1>3, <1>9, <1>10, <1>11 DEF Typing

LEMMA OwnOpsFinite ==
    ASSUME Typing, NEW s \in Session
    PROVE  /\ IsFiniteSet(Typed) /\ IsFiniteSet(OwnOps(s))
           /\ Cardinality(OwnOps(s)) \in Nat /\ Cardinality(Typed) \in Nat
           /\ Cardinality(OwnOps(s)) <= Cardinality(Typed)
           /\ OwnOps(s) \subseteq Typed
<1>1. MaxOps \in Int
  BY LimitAssumption
<1>2. IsFiniteSet(Op)
  <2>1. IsFiniteSet(1..MaxOps)
    BY <1>1, FS_Interval
  <2> QED  BY <2>1, FS_Product, SessionAssumption DEF Op
<1>3. IsFiniteSet(Typed)
  BY <1>2, FS_Subset DEF Typing, HistoryTyping
<1>4. OwnOps(s) \subseteq Typed
  BY DEF OwnOps, Typing, ClientTyping
<1> QED  BY <1>3, <1>4, FS_Subset, FS_CardinalityType

LEMMA TypeKeyBase ==
    ASSUME Typing, Registry, NEW s \in Session, TypeKey(s)
    PROVE  Typing' /\ Registry'
<1> DEFINE op == NextOp(s)
           m  == [type |-> "OPERATION", op |-> op]
<1>1. /\ Cardinality(Typed) < MaxOps
      /\ known' = [known EXCEPT ![s] = @ \cup {op}]
      /\ past' = Put(past, op, known[s])
      /\ cursor' = [cursor EXCEPT ![s] = op]
      /\ outgoing' = [outgoing EXCEPT ![s] = Append(@, m)]
      /\ cursor_due' = [cursor_due EXCEPT ![s] = TRUE]
      /\ UNCHANGED <<server, channels, net, remote_cursors, incoming, dropped,
                     moves, drops>>
  BY DEF TypeKey
<1>2. op \in Op
  <2>1. Cardinality(OwnOps(s)) + 1 \in 1..MaxOps
    BY <1>1, OwnOpsFinite, LimitAssumption
  <2> QED  BY <2>1 DEF NextOp, Op
<1> HIDE DEF op
<1>3. /\ Typed' = Typed \cup {op}
      /\ past'[op] = known[s]
      /\ \A e \in Typed \ {op} : past'[e] = past[e]
  BY <1>1 DEF Put, Typed
<1>4. ServerTyping' /\ Registry'
  BY <1>1, <1>3, ServerSideStays
<1>5. /\ UpMessage(Typed) \subseteq UpMessage(Typed')
      /\ DownMessage(Typed) \subseteq DownMessage(Typed')
  BY <1>3, MessagesGrow
<1>6. /\ \A q \in Seq(UpMessage(Typed)) : q \in Seq(UpMessage(Typed'))
      /\ \A q \in Seq(DownMessage(Typed)) : q \in Seq(DownMessage(Typed'))
  BY <1>5, SeqGrows
<1>7. /\ toServer' \in [Session -> Seq(UpMessage(Typed'))]
      /\ toClient' \in [Session -> Seq(DownMessage(Typed'))]
      /\ incoming' \in [Session -> Seq(DownMessage(Typed'))]
      /\ outgoing \in [Session -> Seq(UpMessage(Typed'))]
  <2>1. UNCHANGED <<toServer, toClient, incoming>>
    BY <1>1 DEF channels
  <2> HIDE DEF UpMessage, DownMessage, Typed
  <2>2. /\ toServer \in [Session -> Seq(UpMessage(Typed))]
        /\ toClient \in [Session -> Seq(DownMessage(Typed))]
        /\ incoming \in [Session -> Seq(DownMessage(Typed))]
        /\ outgoing \in [Session -> Seq(UpMessage(Typed))]
    BY DEF Typing, ChannelTyping, ClientTyping
  <2> QED  BY <1>6, <2>1, <2>2
<1>8. outgoing' \in [Session -> Seq(UpMessage(Typed'))]
  <2>1. m \in UpMessage(Typed')
    BY <1>3, UpFrom
  <2> HIDE DEF m
  <2>2. Append(outgoing[s], m) \in Seq(UpMessage(Typed'))
    BY <1>7, <2>1, Appended
  <2> QED  BY <1>1, <1>7, <2>2
<1>9. ClientTyping'
  <2>1. /\ known' \in [Session -> SUBSET Typed']
        /\ cursor' \in [Session -> Typed' \cup {Start}]
        /\ cursor_due' \in [Session -> BOOLEAN]
    BY <1>1, <1>3 DEF Typing, ClientTyping
  <2>2. remote_cursors' \in [Session -> [Client -> Typed' \cup {Start, None}]]
    <3>1. \A f \in [Client -> Typed \cup {Start, None}] :
             f \in [Client -> Typed' \cup {Start, None}]
      BY <1>3
    <3> QED  BY <1>1, <3>1 DEF Typing, ClientTyping
  <2> QED  BY <1>1, <1>7, <1>8, <2>1, <2>2 DEF Typing, ClientTyping
<1>10. HistoryTyping'
  BY <1>1, <1>2, <1>3 DEF Typing, HistoryTyping, ClientTyping
<1> QED  BY <1>4, <1>7, <1>9, <1>10 DEF Typing, ChannelTyping

LEMMA MoveCursorBase ==
    ASSUME Typing, Registry, NEW s \in Session, MoveCursor(s)
    PROVE  Typing' /\ Registry'
<1>1. /\ moves' = moves + 1
      /\ \E position \in known[s] \cup {Start} :
            cursor' = [cursor EXCEPT ![s] = position]
      /\ cursor_due' = [cursor_due EXCEPT ![s] = TRUE]
      /\ UNCHANGED <<server, channels, net, known, remote_cursors, queues,
                     dropped, past, drops>>
  BY DEF MoveCursor
<1>2. Typed' = Typed
  BY <1>1 DEF Typed
<1>3. ServerTyping' /\ Registry'
  BY <1>1, <1>2, ServerSideStays
<1>4. ChannelTyping'
  BY <1>1, <1>2 DEF Typing, ChannelTyping, channels
<1>5. ClientTyping'
  BY <1>1, <1>2 DEF Typing, ClientTyping, queues
<1>6. HistoryTyping'
  BY <1>1, <1>2 DEF Typing, HistoryTyping
<1> QED  BY <1>3, <1>4, <1>5, <1>6 DEF Typing

LEMMA QueueCursorUpdateBase ==
    ASSUME Typing, Registry, NEW s \in Session, QueueCursorUpdate(s)
    PROVE  Typing' /\ Registry'
<1> DEFINE m == [type |-> "CURSOR_UPDATE", position |-> cursor[s]]
<1>1. /\ outgoing' = [outgoing EXCEPT ![s] = Append(@, m)]
      /\ cursor_due' = [cursor_due EXCEPT ![s] = FALSE]
      /\ UNCHANGED <<server, channels, net, known, cursor, remote_cursors,
                     incoming, history>>
  BY DEF QueueCursorUpdate
<1>2. Typed' = Typed
  BY <1>1 DEF Typed, history
<1>3. ServerTyping' /\ Registry'
  BY <1>1, <1>2, ServerSideStays
<1>4. ChannelTyping'
  BY <1>1, <1>2 DEF Typing, ChannelTyping, channels
<1>5. outgoing' \in [Session -> Seq(UpMessage(Typed))]
  <2>1. outgoing \in [Session -> Seq(UpMessage(Typed))]
        /\ cursor[s] \in Typed \cup {Start}
    BY DEF Typing, ClientTyping
  <2>2. m \in UpMessage(Typed)
    BY <2>1, UpFrom
  <2> HIDE DEF m
  <2>3. Append(outgoing[s], m) \in Seq(UpMessage(Typed))
    BY <2>1, <2>2, Appended
  <2> QED  BY <1>1, <2>1, <2>3
<1>6. ClientTyping'
  BY <1>1, <1>2, <1>5 DEF Typing, ClientTyping
<1>7. HistoryTyping'
  BY <1>1, <1>2 DEF Typing, HistoryTyping, history
<1> QED  BY <1>3, <1>4, <1>6, <1>7 DEF Typing

\* A set of positions in a sequence has a last one.
LEMMA LastPlace ==
    ASSUME NEW n \in Nat, NEW P \in SUBSET (1..n), P # {}
    PROVE  Max(P) \in P /\ \A y \in P : y <= Max(P)
<1> DEFINE T == {k \in Nat : \A y \in P : y <= k}
<1>1. n \in T
  OBVIOUS
<1>2. PICK k \in T : \A j \in T : ~(<<j, k>> \in OpToRel(<, Nat))
  BY <1>1, WFMin, NatLessThanWellFounded
<1>3. k \in Nat /\ (\A y \in P : y <= k) /\ \A j \in T : ~(j < k)
  BY <1>2 DEF OpToRel
<1>4. k \in P
  <2> SUFFICES ASSUME k \notin P PROVE FALSE
    OBVIOUS
  <2>1. \A y \in P : y \in 1..n /\ y <= k /\ y # k
    BY <1>3
  <2>2. k - 1 \in Nat /\ \A y \in P : y <= k - 1
    <3>1. PICK y \in P : TRUE
      OBVIOUS
    <3>2. k >= 1
      BY <1>3, <2>1, <3>1
    <3> QED  BY <1>3, <2>1, <3>2
  <2>3. k - 1 \in T /\ k - 1 < k
    BY <1>3, <2>2
  <2> QED  BY <1>3, <2>3
<1>5. \E x \in P : \A y \in P : x >= y
  BY <1>3, <1>4
<1>6. Max(P) \in P /\ \A y \in P : Max(P) >= y
  BY <1>5 DEF Max
<1> QED  BY <1>6

LEMMA LastCursorIn ==
    ASSUME NEW q \in Seq(DownMessage(Typed)), NEW c, NEW default
    PROVE  \/ LastCursor(q, c, default) = default
           \/ \E i \in DOMAIN q : /\ q[i].type = "CURSOR_UPDATE"
                                  /\ LastCursor(q, c, default) = q[i].position
<1> DEFINE P == {i \in DOMAIN q : /\ q[i].type = "CURSOR_UPDATE"
                                  /\ q[i].sender = c}
<1>1. P \in SUBSET (1..Len(q)) /\ Len(q) \in Nat
  OBVIOUS
<1>2. LastCursor(q, c, default) =
         IF P = {} THEN default ELSE q[Max(P)].position
  BY DEF LastCursor, PositionAt
<1>3. \A i \in P : i \in DOMAIN q /\ q[i].type = "CURSOR_UPDATE"
  OBVIOUS
<1> HIDE DEF P
<1>4. P # {} => Max(P) \in P
  BY <1>1, LastPlace
<1> QED  BY <1>2, <1>3, <1>4

\* The operations a message to a client carries, and the first i of them.
Carried(m) == IF m.type \in {"OPERATION", "SYNC_RESPONSE"} THEN m.ops ELSE {}

CarriedBy(q, i) == UNION {Carried(q[j]) : j \in 1..i}

LEMMA CarriedOps ==
    ASSUME NEW q \in Seq(DownMessage(Typed))
    PROVE  /\ OpsIn(q) = CarriedBy(q, Len(q))
           /\ OpsIn(q) \subseteq Typed
<1>1. ToSet(q) = {q[i] : i \in 1..Len(q)} /\ ToSet(q) \subseteq DownMessage(Typed)
  BY ToSets
<1>2. OpsIn(q) = CarriedBy(q, Len(q))
  BY <1>1 DEF OpsIn, CarriedBy, Carried
<1>3. \A m \in ToSet(q) : m.type \in {"OPERATION", "SYNC_RESPONSE"} =>
                             m.ops \subseteq Typed
  BY <1>1, DownMessages
<1> QED  BY <1>2, <1>3 DEF OpsIn

LEMMA FlushIncomingBase ==
    ASSUME Typing, Registry, NEW s \in Session, FlushIncoming(s)
    PROVE  Typing' /\ Registry'
<1> DEFINE q == incoming[s]
           synced == HoldHistory(q)
           m == [type |-> "SYNC_COMPLETE"]
           heard == [c \in Client |-> LastCursor(q, c, remote_cursors[s][c])]
<1>1. /\ known' = [known EXCEPT ![s] = @ \cup OpsIn(q)]
      /\ remote_cursors' = [remote_cursors EXCEPT ![s] = heard]
      /\ outgoing' = IF synced THEN [outgoing EXCEPT ![s] = Append(@, m)]
                     ELSE outgoing
      /\ cursor_due' = [cursor_due EXCEPT ![s] = synced]
      /\ incoming' = [incoming EXCEPT ![s] = <<>>]
      /\ UNCHANGED <<server, channels, net, cursor, history>>
  BY DEF FlushIncoming
<1>2. Typed' = Typed
  BY <1>1 DEF Typed, history
<1>3. ServerTyping' /\ Registry'
  BY <1>1, <1>2, ServerSideStays
<1>4. ChannelTyping'
  BY <1>1, <1>2 DEF Typing, ChannelTyping, channels
<1>5. /\ incoming \in [Session -> Seq(DownMessage(Typed))]
      /\ outgoing \in [Session -> Seq(UpMessage(Typed))]
      /\ known \in [Session -> SUBSET Typed]
      /\ remote_cursors \in [Session -> [Client -> Typed \cup {Start, None}]]
      /\ cursor_due \in [Session -> BOOLEAN]
  BY DEF Typing, ClientTyping
<1>6. q \in Seq(DownMessage(Typed))
  BY <1>5
<1>7. \A i \in DOMAIN q : q[i].type = "CURSOR_UPDATE" =>
                             q[i].position \in Typed \cup {Start}
  BY <1>6, DownMessages
<1>8. \A c \in Client : LastCursor(q, c, remote_cursors[s][c])
                           \in Typed \cup {Start, None}
  <2> SUFFICES ASSUME NEW c \in Client
               PROVE  LastCursor(q, c, remote_cursors[s][c])
                         \in Typed \cup {Start, None}
    OBVIOUS
  <2> DEFINE old == remote_cursors[s][c]
             new == LastCursor(q, c, old)
  <2>1. old \in Typed \cup {Start, None}
    BY <1>5
  <2> HIDE DEF q, old
  <2>2. \/ new = old
        \/ \E i \in DOMAIN q : q[i].type = "CURSOR_UPDATE" /\ new = q[i].position
    BY <1>6, LastCursorIn
  <2>3. new \in Typed \cup {Start, None}
    BY <1>7, <2>1, <2>2
  <2> QED  BY <2>3 DEF old
<1>9. heard \in [Client -> Typed \cup {Start, None}]
  BY <1>8
<1>10. OpsIn(q) \subseteq Typed
  BY <1>6, CarriedOps
<1>11. m \in UpMessage(Typed)
  BY UpFrom
<1>12. synced \in BOOLEAN
  BY DEF HoldHistory
<1> HIDE DEF q, m, heard, synced
<1>13. Append(outgoing[s], m) \in Seq(UpMessage(Typed))
  BY <1>5, <1>11, Appended
<1>14. /\ known' \in [Session -> SUBSET Typed]
       /\ remote_cursors' \in [Session -> [Client -> Typed \cup {Start, None}]]
       /\ outgoing' \in [Session -> Seq(UpMessage(Typed))]
       /\ cursor_due' \in [Session -> BOOLEAN]
       /\ incoming' \in [Session -> Seq(DownMessage(Typed))]
  BY <1>1, <1>5, <1>9, <1>10, <1>12, <1>13, EmptyQueue
<1>15. ClientTyping'
  BY <1>1, <1>2, <1>14 DEF Typing, ClientTyping
<1>16. HistoryTyping'
  BY <1>1, <1>2 DEF Typing, HistoryTyping, history
<1> QED  BY <1>3, <1>4, <1>15, <1>16 DEF Typing

-----------------------------------------------------------------------------
(***************************************************************************)
(* Stages is an invariant.                                                 *)
(***************************************************************************)
LEMMA StageStays ==
    ASSUME NEW t \in Session, Stage(t), conn'[t] = conn[t], net'[t] = net[t],
           toServer'[t] = toServer[t], toClient'[t] = toClient[t],
           outgoing'[t] = outgoing[t], incoming'[t] = incoming[t],
           current_document'[t] = current_document[t]
    PROVE  Stage(t)'
BY DEF Stage, IsConnected, HasDocument

\* A message taken from the sequence to the server.
LEMMA OpenInTail ==
    ASSUME Typing, NEW s \in Session, Stage(s), toServer[s] # <<>>,
           toServer'[s] = Tail(toServer[s])
    PROVE  \A i \in DOMAIN toServer'[s] :
              toServer'[s][i].type = "OPEN_DOCUMENT" =>
                 /\ net[s] \in {"SYNCING", "DISCONNECTED"}
                 /\ toServer'[s][i].document = WantedDocument[s]
<1>1. toServer[s] \in Seq(UpMessage(Typed))
  BY DEF Typing, ChannelTyping
<1>2. \A i \in DOMAIN toServer'[s] : /\ i + 1 \in DOMAIN toServer[s]
                                     /\ toServer'[s][i] = toServer[s][i + 1]
  BY <1>1, HeadAndTail
<1> QED  BY <1>2 DEF Stage

LEMMA HelloStages ==
    ASSUME Typing, Registry, Stages, NEW s \in Session, toServer[s] # <<>>,
           UNCHANGED <<net, ui, queues, history>>, IsOpen(s),
           Hello(s), ~IsRegistered(s)
    PROVE  Stages'
<1>1. /\ Read(s) /\ SendTo(s, <<Ack>>)
      /\ conn' = [conn EXCEPT ![s] = "REGISTERED"]
      /\ UNCHANGED <<current_document, net, incoming, outgoing>>
  BY DEF Hello, Ack, queues
<1>2. \A t \in Session : conn'[t] = IF t = s THEN "REGISTERED" ELSE conn[t]
  BY <1>1 DEF Typing, ServerTyping
<1>3. \A t \in Session : toServer'[t] = IF t = s THEN Tail(toServer[t])
                                        ELSE toServer[t]
  BY <1>1, ReadTyped
<1>4. <<Ack>> \in Seq(DownMessage(Typed))
  BY DownFrom, OneMessage
<1>5. /\ \A t \in Session \ {s} : toClient'[t] = toClient[t]
      /\ net[s] = "DISCONNECTED" => toClient'[s] = toClient[s]
      /\ net[s] # "DISCONNECTED" => toClient'[s] = toClient[s] \o <<Ack>>
  BY <1>1, <1>4, SentTo DEF Typing
<1>6. \A t \in Session \ {s} : Stage(t)'
  BY <1>1, <1>2, <1>3, <1>5, StageStays DEF Stages
<1>7. conn[s] = "UNREGISTERED"
  BY DEF IsOpen, IsRegistered, Typing, ServerTyping, ConnState
<1>8. /\ net[s] \in {"REGISTERING", "DISCONNECTED"} /\ toClient[s] = <<>>
      /\ Stage(s)
  BY <1>7 DEF Stages, Stage
<1>9. <<>> \o <<Ack>> = <<Ack>>
  BY <1>4
<1>10. /\ net[s] = "REGISTERING" => toClient'[s] = <<Ack>>
       /\ net[s] = "DISCONNECTED" => toClient'[s] = <<>>
  BY <1>5, <1>8, <1>9
<1>11. Stage(s)'
  BY <1>1, <1>2, <1>3, <1>8, <1>10, OpenInTail DEF Stage, IsConnected, HasDocument
<1> QED  BY <1>6, <1>11 DEF Stages

LEMMA OpenDocumentStages ==
    ASSUME Typing, Registry, Stages, NEW s \in Session, toServer[s] # <<>>,
           UNCHANGED <<net, ui, queues, history>>,
           NEW m, m = Head(toServer[s]), m.type = "OPEN_DOCUMENT",
           OpenDocument(s, m.document), IsRegistered(s), ~HasDocument(s)
    PROVE  Stages'
<1> DEFINE d == m.document
           r == [type |-> "SYNC_RESPONSE", ops |-> Stored(d)]
<1>1. /\ Read(s) /\ SendTo(s, <<r>>)
      /\ conn' = [conn EXCEPT ![s] = "SYNCING"]
      /\ current_document' = [current_document EXCEPT ![s] = d]
      /\ UNCHANGED <<net, incoming, outgoing>>
  BY DEF OpenDocument, queues
<1>2. \A t \in Session :
         /\ conn'[t] = IF t = s THEN "SYNCING" ELSE conn[t]
         /\ current_document'[t] = IF t = s THEN d ELSE current_document[t]
  BY <1>1 DEF Typing, ServerTyping
<1>3. \A t \in Session : toServer'[t] = IF t = s THEN Tail(toServer[t])
                                        ELSE toServer[t]
  BY <1>1, ReadTyped
<1>4. r \in DownMessage(Typed) /\ r.type = "SYNC_RESPONSE"
  <2>1. Stored(d) \in SUBSET Typed
    BY StoredRows DEF Typing
  <2> QED  BY <2>1, DownFrom
<1> HIDE DEF r
<1>5. <<r>> \in Seq(DownMessage(Typed)) /\ DOMAIN <<r>> = 1..1 /\ <<r>>[1] = r
  BY <1>4, OneMessage
<1>6. /\ \A t \in Session \ {s} : toClient'[t] = toClient[t]
      /\ net[s] = "DISCONNECTED" => toClient'[s] = toClient[s]
      /\ net[s] # "DISCONNECTED" => toClient'[s] = toClient[s] \o <<r>>
  BY <1>1, <1>5, SentTo DEF Typing
<1>7. \A t \in Session \ {s} : Stage(t)'
  BY <1>1, <1>2, <1>3, <1>6, StageStays DEF Stages
<1>8. m = toServer[s][1] /\ 1 \in DOMAIN toServer[s]
  BY HeadAndTail DEF Typing, ChannelTyping
<1>9. net[s] \in {"SYNCING", "DISCONNECTED"} /\ d = WantedDocument[s] /\ Stage(s)
  BY <1>8 DEF Stages, Stage
<1>10. conn[s] = "REGISTERED"
  BY NoneAssumption
  DEF Registry, IsRegistered, IsSyncing, IsLive, HasDocument, Typing, ServerTyping
<1>11. /\ net[s] = "SYNCING" => toClient'[s] = <<r>>
       /\ net[s] = "DISCONNECTED" => toClient'[s] = <<>>
  <2>1. toClient[s] = <<>>
    BY <1>9, <1>10 DEF Stage
  <2>2. <<>> \o <<r>> = <<r>>
    BY <1>5
  <2> QED  BY <1>6, <2>1, <2>2
<1> HIDE DEF d
<1>12. Stage(s)'
  BY <1>1, <1>2, <1>3, <1>4, <1>5, <1>9, <1>11, OpenInTail
  DEF Stage, IsConnected, HasDocument
<1> QED  BY <1>7, <1>12 DEF Stages

\* A message that the server passes on.
LEMMA RoutedStages ==
    ASSUME Typing, Registry, Stages, NEW s \in Session, toServer[s] # <<>>,
           NEW m \in DownMessage(Typed), m.type # "HELLO_ACK",
           Read(s), Send(ToLivePeers(s, m)),
           UNCHANGED <<net, queues, conn, current_document>>
    PROVE  Stages'
<1>1. UNCHANGED <<incoming, outgoing>>
  BY DEF queues
<1>2. \A t \in Session : toServer'[t] = IF t = s THEN Tail(toServer[t])
                                        ELSE toServer[t]
  BY ReadTyped
<1> SUFFICES ASSUME NEW t \in Session
             PROVE  Stage(t)'
  BY DEF Stages
<1>3. \/ toClient'[t] = toClient[t]
      \/ /\ toClient'[t] = Append(toClient[t], m)
         /\ net[t] # "DISCONNECTED" /\ conn[t] = "LIVE"
  BY Routed DEF IsLive
<1>4. Stage(t) /\ Stage(s)
  BY DEF Stages
<1>5. \A i \in DOMAIN toServer'[t] :
         toServer'[t][i].type = "OPEN_DOCUMENT" =>
            /\ net[t] \in {"SYNCING", "DISCONNECTED"}
            /\ toServer'[t][i].document = WantedDocument[t]
  <2>1. CASE t = s
    BY <1>2, <1>4, <2>1, OpenInTail
  <2>2. CASE t # s
    BY <1>2, <1>4, <2>2 DEF Stage
  <2> QED  BY <2>1, <2>2
<1>6. conn[t] = "NONE" => toServer'[t] = <<>>
  <2>1. conn[s] = "NONE" => toServer[s] = <<>>
    BY <1>4 DEF Stage
  <2> QED  BY <1>2, <1>4, <2>1 DEF Stage
<1>7. CASE toClient'[t] = toClient[t]
  BY <1>1, <1>4, <1>5, <1>6, <1>7 DEF Stage, IsConnected, HasDocument
<1>8. CASE /\ toClient'[t] = Append(toClient[t], m)
           /\ net[t] # "DISCONNECTED" /\ conn[t] = "LIVE"
  <2>1. net[t] = "SYNCING"
    BY <1>4, <1>8 DEF Stage
  <2>2. toClient[t] \in Seq(DownMessage(Typed))
    BY DEF Typing, ChannelTyping
  <2>3. \A i \in DOMAIN toClient'[t] : toClient'[t][i].type # "HELLO_ACK"
    <3>1. /\ DOMAIN toClient[t] = 1..Len(toClient[t]) /\ Len(toClient[t]) \in Nat
          /\ DOMAIN toClient'[t] = 1..Len(toClient[t]) + 1
          /\ \A i \in 1..Len(toClient[t]) : toClient'[t][i] = toClient[t][i]
          /\ toClient'[t][Len(toClient[t]) + 1] = m
      BY <1>8, <2>2, Appended
    <3>2. \A i \in DOMAIN toClient[t] : toClient[t][i].type # "HELLO_ACK"
      BY <1>4, <2>1 DEF Stage
    <3> QED  BY <3>1, <3>2
  <2> QED  BY <1>1, <1>4, <1>5, <1>8, <2>1, <2>3 DEF Stage, IsConnected, HasDocument
<1> QED  BY <1>3, <1>7, <1>8

LEMMA SyncCompleteStages ==
    ASSUME Typing, Registry, Stages, NEW s \in Session, toServer[s] # <<>>,
           UNCHANGED <<net, ui, queues, history>>,
           SyncComplete(s), IsSyncing(s)
    PROVE  Stages'
<1>1. /\ Read(s) /\ SendTo(s, CatchUp(s))
      /\ conn' = [conn EXCEPT ![s] = "LIVE"]
      /\ UNCHANGED <<current_document, net, incoming, outgoing>>
  BY DEF SyncComplete, queues
<1>2. \A t \in Session : conn'[t] = IF t = s THEN "LIVE" ELSE conn[t]
  BY <1>1 DEF Typing, ServerTyping
<1>3. \A t \in Session : toServer'[t] = IF t = s THEN Tail(toServer[t])
                                        ELSE toServer[t]
  BY <1>1, ReadTyped
<1>4. /\ CatchUp(s) \in Seq(DownMessage(Typed))
      /\ \A i \in DOMAIN CatchUp(s) : CatchUp(s)[i].type # "HELLO_ACK"
  <2>1. /\ WaitingFor(s) \in Seq(DownMessage(Typed))
        /\ PresenceFor(s) \in Seq(DownMessage(Typed))
        /\ \A i \in DOMAIN PresenceFor(s) :
              PresenceFor(s)[i].type = "CURSOR_UPDATE"
    BY CatchUpMessages
  <2>2. \A i \in DOMAIN WaitingFor(s) : WaitingFor(s)[i].type = "OPERATION"
    BY DEF WaitingFor
  <2>3. /\ CatchUp(s) \in Seq(DownMessage(Typed))
        /\ Len(WaitingFor(s)) \in Nat /\ Len(PresenceFor(s)) \in Nat
        /\ DOMAIN CatchUp(s) = 1..Len(WaitingFor(s)) + Len(PresenceFor(s))
        /\ \A i \in 1..Len(WaitingFor(s)) : CatchUp(s)[i] = WaitingFor(s)[i]
        /\ \A i \in 1..Len(PresenceFor(s)) :
              CatchUp(s)[Len(WaitingFor(s)) + i] = PresenceFor(s)[i]
        /\ DOMAIN WaitingFor(s) = 1..Len(WaitingFor(s))
        /\ DOMAIN PresenceFor(s) = 1..Len(PresenceFor(s))
    BY <2>1, Joined DEF CatchUp
  <2>4. ASSUME NEW i \in DOMAIN CatchUp(s)
        PROVE  CatchUp(s)[i].type # "HELLO_ACK"
    <3>1. CASE i \in 1..Len(WaitingFor(s))
      BY <2>2, <2>3, <3>1
    <3>2. CASE i \notin 1..Len(WaitingFor(s))
      <4>1. i - Len(WaitingFor(s)) \in 1..Len(PresenceFor(s))
        BY <2>3, <3>2
      <4>2. CatchUp(s)[Len(WaitingFor(s)) + (i - Len(WaitingFor(s)))]
               = PresenceFor(s)[i - Len(WaitingFor(s))]
        BY <2>3, <4>1
      <4>3. Len(WaitingFor(s)) + (i - Len(WaitingFor(s))) = i
        BY <2>3
      <4> QED  BY <2>1, <2>3, <4>1, <4>2, <4>3
    <3> QED  BY <3>1, <3>2
  <2> QED  BY <2>3, <2>4
<1>5. /\ \A t \in Session \ {s} : toClient'[t] = toClient[t]
      /\ net[s] = "DISCONNECTED" => toClient'[s] = toClient[s]
      /\ net[s] # "DISCONNECTED" => toClient'[s] = toClient[s] \o CatchUp(s)
  BY <1>1, <1>4, SentTo DEF Typing
<1>6. \A t \in Session \ {s} : Stage(t)'
  BY <1>1, <1>2, <1>3, <1>5, StageStays DEF Stages
<1>7. net[s] \in {"SYNCING", "DISCONNECTED"} /\ Stage(s)
  BY DEF Stages, Stage, IsSyncing
<1>8. net[s] = "SYNCING" =>
         \A i \in DOMAIN toClient'[s] : toClient'[s][i].type # "HELLO_ACK"
  <2> SUFFICES ASSUME net[s] = "SYNCING", NEW i \in DOMAIN toClient'[s]
               PROVE  toClient'[s][i].type # "HELLO_ACK"
    OBVIOUS
  <2> DEFINE p == toClient[s]
             q == CatchUp(s)
  <2>1. p \in Seq(DownMessage(Typed)) /\ q \in Seq(DownMessage(Typed))
    BY <1>4 DEF Typing, ChannelTyping
  <2>2. \A j \in DOMAIN p : p[j].type # "HELLO_ACK"
    BY <1>7 DEF Stage
  <2>3. toClient'[s] = p \o q
    BY <1>5
  <2>4. \A j \in DOMAIN q : q[j].type # "HELLO_ACK"
    BY <1>4
  <2> HIDE DEF p, q
  <2>5. i \in 1..Len(p) \/ (i - Len(p) \in 1..Len(q) /\ i = Len(p) + (i - Len(p)))
    BY <2>1, <2>3, Joined
  <2> QED  BY <2>1, <2>2, <2>3, <2>4, <2>5, Joined
<1>9. Stage(s)'
  BY <1>1, <1>2, <1>3, <1>5, <1>7, <1>8, OpenInTail DEF Stage, IsConnected, HasDocument
<1> QED  BY <1>6, <1>9 DEF Stages

LEMMA DisconnectStages ==
    ASSUME Typing, Registry, Stages, NEW s \in Session, Disconnect(s), IsOpen(s),
           UNCHANGED <<net, queues>>
    PROVE  Stages'
<1>1. /\ \A t \in Session : conn'[t] = IF t = s THEN "DISCONNECTED" ELSE conn[t]
      /\ \A t \in Session : toServer'[t] = IF t = s THEN <<>> ELSE toServer[t]
      /\ UNCHANGED <<current_document, net, incoming, outgoing>>
  BY Disconnected DEF queues
<1>2. PICK n \in 0..Len(toClient[s]) :
         \A t \in Session : toClient'[t] = IF t = s THEN SubSeq(toClient[s], 1, n)
                                           ELSE toClient[t]
  BY Disconnected
<1>3. \A t \in Session \ {s} : Stage(t)'
  BY <1>1, <1>2, StageStays DEF Stages
<1>4. /\ toClient[s] \in Seq(DownMessage(Typed)) /\ Stage(s)
      /\ toClient'[s] = SubSeq(toClient[s], 1, n)
  BY <1>2 DEF Typing, ChannelTyping, Stages
<1>5. /\ DOMAIN toClient[s] = 1..Len(toClient[s])
      /\ DOMAIN toClient'[s] = 1..n
      /\ \A i \in 1..n : toClient'[s][i] = toClient[s][i]
  BY <1>4, FirstOnes
<1>6. toClient[s] = <<>> => toClient'[s] = <<>>
  BY <1>4
<1>7. toClient[s] = <<Ack>> => toClient'[s] \in {<<>>, <<Ack>>}
  <2> SUFFICES ASSUME toClient[s] = <<Ack>>
               PROVE  toClient'[s] \in {<<>>, <<Ack>>}
    OBVIOUS
  <2>1. n \in 0..1
    BY DEF Ack
  <2>2. n = 0 => toClient'[s] = <<>>
    BY <1>4, EmptyQueue
  <2>3. n = 1 => toClient'[s] = toClient[s]
    <3>1. Len(toClient[s]) = 1
      BY DEF Ack
    <3>2. SubSeq(toClient[s], 1, Len(toClient[s])) = toClient[s]
      BY <1>4, WholeSequence
    <3>3. SubSeq(toClient[s], 1, 1) = toClient[s]
      BY <3>1, <3>2
    <3> QED  BY <1>4, <3>3
  <2>4. n = 0 \/ n = 1
    BY <2>1
  <2> QED  BY <2>2, <2>3, <2>4
<1>8. Stage(s)'
  <2>1. \A i \in DOMAIN toClient'[s] : /\ i \in DOMAIN toClient[s]
                                       /\ toClient'[s][i] = toClient[s][i]
    BY <1>5
  <2>2. /\ conn'[s] = "DISCONNECTED" /\ toServer'[s] = <<>>
        /\ DOMAIN toServer'[s] = {}
    BY <1>1
  <2>3. net[s] = "SYNCING" =>
           \A i \in DOMAIN toClient'[s] : toClient'[s][i].type # "HELLO_ACK"
    BY <1>4, <2>1 DEF Stage
  <2>4. net[s] = "REGISTERING" => toClient'[s] \in {<<>>, <<Ack>>}
    BY <1>4, <1>6, <1>7 DEF Stage
  <2>5. /\ net'[s] = net[s] /\ current_document'[s] = current_document[s]
        /\ incoming'[s] = incoming[s] /\ outgoing'[s] = outgoing[s]
    BY <1>1
  <2>6. /\ net'[s] # "LIVE"
        /\ net'[s] \in {"NEW", "CONNECTING"} => conn'[s] = "NONE"
        /\ net'[s] \in {"NEW", "CONNECTING", "DISCONNECTED", "REGISTERED"} =>
              toClient'[s] = <<>>
    BY <1>4, <1>6, <2>2, <2>5 DEF Stage, IsOpen
  <2> QED  BY <1>4, <2>2, <2>3, <2>4, <2>5, <2>6
           DEF Stage, IsConnected, HasDocument
<1> QED  BY <1>3, <1>8 DEF Stages

LEMMA ClosedStages ==
    ASSUME Typing, Stages, NEW s \in Session, IsConnected(s), Close(s),
           UNCHANGED <<conn, current_document, incoming, outgoing>>
    PROVE  Stages'
<1>1. PICK n \in 0..Len(toServer[s]) :
         \A t \in Session : toServer'[t] = IF t = s THEN SubSeq(toServer[s], 1, n)
                                           ELSE toServer[t]
  BY Closed
<1>2. /\ \A t \in Session : net'[t] = IF t = s THEN "DISCONNECTED" ELSE net[t]
      /\ \A t \in Session : toClient'[t] = IF t = s THEN <<>> ELSE toClient[t]
  BY Closed
<1>3. \A t \in Session \ {s} : Stage(t)'
  BY <1>1, <1>2, StageStays DEF Stages
<1>4. toServer[s] \in Seq(UpMessage(Typed)) /\ Stage(s)
  BY DEF Typing, ChannelTyping, Stages
<1>5. \A i \in DOMAIN toServer'[s] : /\ i \in DOMAIN toServer[s]
                                     /\ toServer'[s][i] = toServer[s][i]
  <2>1. toServer'[s] = SubSeq(toServer[s], 1, n)
    BY <1>1
  <2>2. /\ DOMAIN toServer[s] = 1..Len(toServer[s])
        /\ DOMAIN toServer'[s] = 1..n
        /\ \A i \in 1..n : toServer'[s][i] = toServer[s][i]
    BY <1>4, <2>1, FirstOnes
  <2> QED  BY <2>2
<1>6. \A i \in DOMAIN toServer'[s] :
         toServer'[s][i].type = "OPEN_DOCUMENT" =>
            toServer'[s][i].document = WantedDocument[s]
  BY <1>4, <1>5 DEF Stage
<1>7. net'[s] = "DISCONNECTED" /\ toClient'[s] = <<>> /\ conn[s] # "NONE"
  BY <1>2, <1>4 DEF Stage
<1>8. Stage(s)'
  BY <1>4, <1>6, <1>7 DEF Stage, IsConnected, HasDocument
<1> QED  BY <1>3, <1>8 DEF Stages

LEMMA ConnectStages ==
    ASSUME Typing, Stages, NEW s \in Session, Connect(s) \/ ConnectFails(s)
    PROVE  Stages'
<1>1. UNCHANGED <<conn, current_document, toServer, toClient, incoming, outgoing>>
  BY DEF Connect, ConnectFails, server, channels, queues
<1>2. \A t \in Session : t # s => net'[t] = net[t]
  BY DEF Connect, ConnectFails, Typing, ClientTyping
<1>3. /\ net[s] \in {"NEW", "CONNECTING"} /\ conn[s] = "NONE"
      /\ net'[s] \in {"CONNECTING", "DISCONNECTED"}
  BY DEF Connect, ConnectFails, Typing, ClientTyping, Stages, Stage
<1>4. \A t \in Session \ {s} : Stage(t)'
  BY <1>1, <1>2, StageStays DEF Stages
<1>5. Stage(s)'
  BY <1>1, <1>3 DEF Stages, Stage, IsConnected, HasDocument
<1> QED  BY <1>4, <1>5 DEF Stages

LEMMA ConnectedStages ==
    ASSUME Typing, Registry, Stages, NEW s \in Session, Connected(s)
    PROVE  Stages'
<1>1. /\ net[s] = "CONNECTING"
      /\ \A t \in Session :
           /\ net'[t] = IF t = s THEN "REGISTERING" ELSE net[t]
           /\ conn'[t] = IF t = s THEN "UNREGISTERED" ELSE conn[t]
           /\ toServer'[t] = IF t = s THEN <<[type |-> "HELLO"]>> ELSE toServer[t]
      /\ UNCHANGED <<current_document, toClient, incoming, outgoing>>
  BY DEF Connected, queues, Typing, ServerTyping, ChannelTyping, ClientTyping
<1>2. \A t \in Session \ {s} : Stage(t)'
  BY <1>1, StageStays DEF Stages
<1>3. /\ DOMAIN toServer'[s] = 1..1
      /\ \A i \in DOMAIN toServer'[s] : toServer'[s][i] = [type |-> "HELLO"]
  BY <1>1
<1>4. \A i \in DOMAIN toServer'[s] : toServer'[s][i].type # "OPEN_DOCUMENT"
  BY <1>3
<1>5. Stage(s) /\ conn[s] = "NONE" /\ ~HasDocument(s)
  BY <1>1 DEF Stages, Stage, Registry
<1>6. Stage(s)'
  BY <1>1, <1>4, <1>5 DEF Stage, IsConnected, HasDocument
<1> QED  BY <1>2, <1>6 DEF Stages

LEMMA SendOpenDocumentStages ==
    ASSUME Typing, Stages, NEW s \in Session, SendOpenDocument(s)
    PROVE  Stages'
<1> DEFINE m == [type |-> "OPEN_DOCUMENT", document |-> WantedDocument[s]]
           q == toServer[s]
<1>1. /\ net[s] = "REGISTERED"
      /\ \A t \in Session :
           /\ net'[t] = IF t = s THEN "SYNCING" ELSE net[t]
           /\ toServer'[t] = IF t = s THEN Append(q, m) ELSE toServer[t]
      /\ UNCHANGED <<conn, current_document, toClient, incoming, outgoing>>
  BY DEF SendOpenDocument, server, queues, Typing, ChannelTyping, ClientTyping
<1>2. \A t \in Session \ {s} : Stage(t)'
  BY <1>1, StageStays DEF Stages
<1>3. q \in Seq(UpMessage(Typed)) /\ m \in UpMessage(Typed)
  BY UpFrom, SessionAssumption DEF Typing, ChannelTyping
<1>4. m.document = WantedDocument[s]
  OBVIOUS
<1>5. Stage(s) /\ toClient[s] = <<>>
  BY <1>1 DEF Stages, Stage
<1>6. \A i \in DOMAIN q : q[i].type # "OPEN_DOCUMENT"
  BY <1>1, <1>5 DEF Stage
<1> HIDE DEF m, q
<1>7. \A i \in DOMAIN toServer'[s] :
         (i \in DOMAIN q /\ toServer'[s][i] = q[i]) \/ toServer'[s][i] = m
  <2>1. toServer'[s] = Append(q, m)
    BY <1>1
  <2>2. /\ DOMAIN q = 1..Len(q) /\ Len(q) \in Nat
        /\ DOMAIN toServer'[s] = 1..Len(q) + 1
        /\ \A i \in 1..Len(q) : toServer'[s][i] = q[i]
        /\ toServer'[s][Len(q) + 1] = m
    BY <1>3, <2>1, Appended
  <2> QED  BY <2>2
<1>8. \A i \in DOMAIN toServer'[s] : toServer'[s][i].type = "OPEN_DOCUMENT" =>
                                       toServer'[s][i].document = WantedDocument[s]
  BY <1>4, <1>6, <1>7
<1>9. net'[s] = "SYNCING" /\ conn'[s] \notin {"NONE", "UNREGISTERED"}
  BY <1>1, <1>5 DEF Stage, IsConnected
<1>10. DOMAIN toClient'[s] = {}
  BY <1>1, <1>5
<1>11. Stage(s)'
  BY <1>1, <1>5, <1>8, <1>9, <1>10 DEF Stage, IsConnected, HasDocument
<1> QED  BY <1>2, <1>11 DEF Stages

\* The places of a sequence that grows, or shrinks.
LEMMA PlacesAppended ==
    ASSUME NEW S, NEW q \in Seq(S), NEW m \in S
    PROVE  \A i \in DOMAIN Append(q, m) :
              \/ i \in DOMAIN q /\ Append(q, m)[i] = q[i]
              \/ i = Len(q) + 1 /\ Append(q, m)[i] = m
OBVIOUS

LEMMA PlacesJoined ==
    ASSUME NEW S, NEW p \in Seq(S), NEW q \in Seq(S)
    PROVE  \A i \in DOMAIN (p \o q) :
              \/ i \in DOMAIN p /\ (p \o q)[i] = p[i]
              \/ i - Len(p) \in DOMAIN q /\ (p \o q)[i] = q[i - Len(p)]
<1>1. \A i \in 1..Len(p) + Len(q) :
         i \notin 1..Len(p) =>
            i - Len(p) \in 1..Len(q) /\ Len(p) + (i - Len(p)) = i
  OBVIOUS
<1> QED  BY <1>1, Joined

LEMMA HandleMessageStages ==
    ASSUME Typing, Stages, NEW s \in Session, HandleMessage(s)
    PROVE  Stages'
<1> DEFINE m == Head(toClient[s])
<1>1. /\ IsConnected(s) /\ toClient[s] # <<>>
      /\ m \in DownMessage(Typed) /\ m = toClient[s][1]
      /\ UNCHANGED <<conn, current_document, outgoing>>
      /\ \/ /\ Expects(s, m) /\ m.type = "HELLO_ACK"
            /\ toClient' = [toClient EXCEPT ![s] = Tail(@)]
            /\ net' = [net EXCEPT ![s] = "REGISTERED"]
            /\ UNCHANGED <<incoming, toServer>>
         \/ /\ Expects(s, m) /\ m.type # "HELLO_ACK"
            /\ toClient' = [toClient EXCEPT ![s] = Tail(@)]
            /\ incoming' = [incoming EXCEPT ![s] = Append(@, m)]
            /\ UNCHANGED <<net, toServer>>
         \/ ~Expects(s, m) /\ Close(s) /\ UNCHANGED incoming
  BY HandleCases DEF server
<1> HIDE DEF m
<1>2. CASE Close(s) /\ UNCHANGED incoming
  BY <1>1, <1>2, ClosedStages
<1>3. /\ toClient[s] \in Seq(DownMessage(Typed)) /\ Stage(s) /\ incoming[s] \in Seq(DownMessage(Typed))
      /\ \A t \in Session : toClient[t] \in Seq(DownMessage(Typed))
  BY DEF Typing, ChannelTyping, ClientTyping, Stages
<1>4. CASE /\ Expects(s, m) /\ m.type = "HELLO_ACK"
           /\ toClient' = [toClient EXCEPT ![s] = Tail(@)]
           /\ net' = [net EXCEPT ![s] = "REGISTERED"]
           /\ UNCHANGED <<incoming, toServer>>
  <2>1. net[s] = "REGISTERING"
    BY <1>4 DEF Expects
  <2>2. \A t \in Session : /\ net'[t] = IF t = s THEN "REGISTERED" ELSE net[t]
                           /\ toClient'[t] = IF t = s THEN Tail(toClient[s])
                                             ELSE toClient[t]
    BY <1>4 DEF Typing, ClientTyping, ChannelTyping
  <2>3. toClient[s] = <<Ack>>
    BY <1>1, <1>3, <2>1 DEF Stage
  <2>4. Tail(<<Ack>>) = <<>>
    OBVIOUS
  <2>5. toClient'[s] = <<>>
    BY <2>2, <2>3, <2>4
  <2>6. conn[s] \notin {"NONE", "UNREGISTERED", "SYNCING", "LIVE"}
    BY <1>1, <1>3, <2>1 DEF Stage
  <2>7. \A t \in Session \ {s} : Stage(t)'
    BY <1>1, <1>4, <2>2, StageStays DEF Stages
  <2>8. \A i \in DOMAIN toServer[s] : toServer[s][i].type # "OPEN_DOCUMENT"
    BY <1>3, <2>1 DEF Stage
  <2>9. net'[s] = "REGISTERED" /\ incoming[s] = <<>>
    BY <1>3, <2>1, <2>2 DEF Stage
  <2>10. Stage(s)'
    BY <1>1, <1>3, <1>4, <2>5, <2>6, <2>8, <2>9 DEF Stage, IsConnected, HasDocument
  <2> QED  BY <2>7, <2>10 DEF Stages
<1>5. CASE /\ Expects(s, m) /\ m.type # "HELLO_ACK"
           /\ toClient' = [toClient EXCEPT ![s] = Tail(@)]
           /\ incoming' = [incoming EXCEPT ![s] = Append(@, m)]
           /\ UNCHANGED <<net, toServer>>
  <2>1. net[s] = "SYNCING"
    BY <1>3, <1>5 DEF Expects, Stage
  <2>2. \A t \in Session : /\ incoming'[t] = IF t = s THEN Append(incoming[s], m)
                                             ELSE incoming[t]
                           /\ toClient'[t] = IF t = s THEN Tail(toClient[s])
                                             ELSE toClient[t]
    BY <1>5 DEF Typing, ClientTyping, ChannelTyping
  <2>3. \A t \in Session \ {s} : Stage(t)'
    BY <1>1, <1>5, <2>2, StageStays DEF Stages
  <2>4. \A i \in DOMAIN toClient'[s] : /\ i + 1 \in DOMAIN toClient[s]
                                       /\ toClient'[s][i] = toClient[s][i + 1]
    <3>1. toClient'[s] = Tail(toClient[s])
      BY <2>2
    <3>2. /\ DOMAIN toClient'[s] = 1..Len(toClient[s]) - 1
          /\ DOMAIN toClient[s] = 1..Len(toClient[s]) /\ Len(toClient[s]) \in Nat
          /\ \A i \in 1..Len(toClient[s]) - 1 : toClient'[s][i] = toClient[s][i + 1]
      BY <1>1, <1>3, <3>1, HeadAndTail
    <3> QED  BY <3>2
  <2>5. \A i \in DOMAIN toClient'[s] : toClient'[s][i].type # "HELLO_ACK"
    BY <1>3, <2>1, <2>4 DEF Stage
  <2>6. \A i \in DOMAIN incoming'[s] : incoming'[s][i].type # "HELLO_ACK"
    <3>1. incoming'[s] = Append(incoming[s], m)
      BY <2>2
    <3>2. \A i \in DOMAIN incoming'[s] :
             \/ i \in DOMAIN incoming[s] /\ incoming'[s][i] = incoming[s][i]
             \/ incoming'[s][i] = m
      BY <1>1, <1>3, <3>1, PlacesAppended
    <3>3. \A i \in DOMAIN incoming[s] : incoming[s][i].type # "HELLO_ACK"
      BY <1>3 DEF Stage
    <3> QED  BY <1>5, <3>2, <3>3
  <2>7. conn[s] \notin {"REGISTERED", "UNREGISTERED", "NONE"}
    BY <1>1, <1>3, <2>1 DEF Stage
  <2>8. Stage(s)'
    BY <1>1, <1>3, <1>5, <2>1, <2>5, <2>6, <2>7 DEF Stage, IsConnected, HasDocument
  <2> QED  BY <2>3, <2>8 DEF Stages
<1> QED  BY <1>1, <1>2, <1>4, <1>5

LEMMA ProcessOutgoingStages ==
    ASSUME Typing, Stages, NEW s \in Session, ProcessOutgoing(s)
    PROVE  Stages'
<1>1. /\ outgoing' = [outgoing EXCEPT ![s] = <<>>]
      /\ UNCHANGED <<conn, current_document, toClient, net, incoming>>
      /\ \/ /\ IsConnected(s)
            /\ toServer' = [toServer EXCEPT ![s] =
                              IF conn[s] = "DISCONNECTED" THEN @
                              ELSE @ \o outgoing[s]]
         \/ UNCHANGED toServer
  BY DEF ProcessOutgoing, TakeAll, server
<1>2. \A t \in Session : /\ outgoing'[t] = IF t = s THEN <<>> ELSE outgoing[t]
                         /\ t # s => toServer'[t] = toServer[t]
  BY <1>1 DEF Typing, ChannelTyping, ClientTyping
<1>3. /\ toServer[s] \in Seq(UpMessage(Typed)) /\ outgoing[s] \in Seq(UpMessage(Typed))
      /\ Stage(s)
  BY DEF Typing, ChannelTyping, ClientTyping, Stages
<1>4. \A t \in Session \ {s} : Stage(t)'
  BY <1>1, <1>2, StageStays DEF Stages
<1>5. \/ toServer'[s] = toServer[s]
      \/ toServer'[s] = toServer[s] \o outgoing[s] /\ IsConnected(s)
  BY <1>1 DEF Typing, ChannelTyping
<1>6. \A i \in DOMAIN toServer'[s] :
         toServer'[s][i].type = "OPEN_DOCUMENT" =>
            /\ net[s] \in {"SYNCING", "DISCONNECTED"}
            /\ toServer'[s][i].document = WantedDocument[s]
  <2>1. /\ \A i \in DOMAIN toServer[s] :
             toServer[s][i].type = "OPEN_DOCUMENT" =>
                /\ net[s] \in {"SYNCING", "DISCONNECTED"}
                /\ toServer[s][i].document = WantedDocument[s]
        /\ \A i \in DOMAIN outgoing[s] : outgoing[s][i].type # "OPEN_DOCUMENT"
    BY <1>3 DEF Stage
  <2>2. CASE toServer'[s] = toServer[s]
    BY <2>1, <2>2
  <2>3. CASE toServer'[s] = toServer[s] \o outgoing[s]
    <3>1. \A i \in DOMAIN toServer'[s] :
             \/ i \in DOMAIN toServer[s] /\ toServer'[s][i] = toServer[s][i]
             \/ /\ i - Len(toServer[s]) \in DOMAIN outgoing[s]
                /\ toServer'[s][i] = outgoing[s][i - Len(toServer[s])]
      <4> DEFINE p == toServer[s]
                 q == outgoing[s]
      <4>1. p \in Seq(UpMessage(Typed)) /\ q \in Seq(UpMessage(Typed))
        BY <1>3
      <4> HIDE DEF p, q
      <4>2. \A i \in DOMAIN (p \o q) :
               \/ i \in DOMAIN p /\ (p \o q)[i] = p[i]
               \/ i - Len(p) \in DOMAIN q /\ (p \o q)[i] = q[i - Len(p)]
        BY <4>1, PlacesJoined
      <4> QED  BY <2>3, <4>2 DEF p, q
    <3> QED  BY <2>1, <3>1
  <2> QED  BY <1>5, <2>2, <2>3
<1>7. conn[s] = "NONE" => toServer'[s] = <<>>
  BY <1>3, <1>5 DEF Stage
<1>8. outgoing'[s] = <<>>
  BY <1>2
<1>9. Stage(s)'
  BY <1>1, <1>3, <1>6, <1>7, <1>8, EmptyQueue DEF Stage, IsConnected, HasDocument
<1> QED  BY <1>4, <1>9 DEF Stages

\* What the user interface puts into its queue.
LEMMA QueuedStages ==
    ASSUME Typing, Stages, NEW s \in Session,
           UNCHANGED <<conn, current_document, channels, net>>,
           NEW m \in UpMessage(Typed'), Typed \subseteq Typed',
           m.type \notin {"HELLO", "OPEN_DOCUMENT"},
           \/ outgoing' = outgoing
           \/ outgoing' = [outgoing EXCEPT ![s] = Append(@, m)],
           incoming' = incoming \/ incoming' = [incoming EXCEPT ![s] = <<>>]
    PROVE  Stages'
<1>1. UNCHANGED <<toServer, toClient>>
  BY DEF channels
<1>2. \A t \in Session \ {s} : outgoing'[t] = outgoing[t] /\ incoming'[t] = incoming[t]
  BY DEF Typing, ClientTyping
<1>3. \A t \in Session \ {s} : Stage(t)'
  BY <1>1, <1>2, StageStays DEF Stages
<1>4. outgoing[s] \in Seq(UpMessage(Typed')) /\ Stage(s)
  <2>1. outgoing[s] \in Seq(UpMessage(Typed))
    BY DEF Typing, ClientTyping
  <2>2. UpMessage(Typed) \subseteq UpMessage(Typed')
    BY MessagesGrow
  <2> QED  BY <2>1, <2>2, SeqGrows DEF Stages
<1>5. \A i \in DOMAIN outgoing'[s] :
         outgoing'[s][i].type \notin {"HELLO", "OPEN_DOCUMENT"}
  <2>1. \A i \in DOMAIN outgoing[s] :
           outgoing[s][i].type \notin {"HELLO", "OPEN_DOCUMENT"}
    BY <1>4 DEF Stage
  <2>2. CASE outgoing' = outgoing
    BY <2>1, <2>2
  <2>3. CASE outgoing' = [outgoing EXCEPT ![s] = Append(@, m)]
    <3>1. outgoing'[s] = Append(outgoing[s], m)
      BY <2>3 DEF Typing, ClientTyping
    <3>2. \A i \in DOMAIN outgoing'[s] :
             \/ i \in DOMAIN outgoing[s] /\ outgoing'[s][i] = outgoing[s][i]
             \/ outgoing'[s][i] = m
      BY <1>4, <3>1, PlacesAppended
    <3> QED  BY <2>1, <3>2
  <2> QED  BY <2>2, <2>3
<1>6. incoming'[s] = incoming[s] \/ incoming'[s] = <<>>
  BY DEF Typing, ClientTyping
<1>7. Stage(s)'
  BY <1>1, <1>4, <1>5, <1>6, EmptyQueue DEF Stage, IsConnected, HasDocument
<1> QED  BY <1>3, <1>7 DEF Stages

LEMMA UserInterfaceStages ==
    ASSUME Typing, Typing', Stages, NEW s \in Session,
           TypeKey(s) \/ MoveCursor(s) \/ QueueCursorUpdate(s) \/ FlushIncoming(s)
    PROVE  Stages'
<1>1. CASE TypeKey(s)
  <2>1. /\ past' = Put(past, NextOp(s), known[s])
        /\ outgoing' = [outgoing EXCEPT ![s] =
                           Append(@, [type |-> "OPERATION", op |-> NextOp(s)])]
        /\ UNCHANGED <<server, channels, net, incoming>>
    BY <1>1 DEF TypeKey
  <2>2. Typed \subseteq Typed' /\ NextOp(s) \in Typed'
    BY <2>1 DEF Put, Typed
  <2>3. [type |-> "OPERATION", op |-> NextOp(s)] \in UpMessage(Typed')
    BY <2>2, UpFrom
  <2> QED  BY <2>1, <2>2, <2>3, QueuedStages DEF server
<1>2. CASE MoveCursor(s)
  <2>1. UNCHANGED <<server, channels, net, queues, past>>
    BY <1>2 DEF MoveCursor
  <2>2. Typed' = Typed /\ [type |-> "SYNC_COMPLETE"] \in UpMessage(Typed')
    BY <2>1, UpFrom DEF Typed
  <2> QED  BY <2>1, <2>2, QueuedStages DEF server, queues
<1>3. CASE QueueCursorUpdate(s)
  <2>1. /\ outgoing' = [outgoing EXCEPT ![s] =
                           Append(@, [type |-> "CURSOR_UPDATE",
                                      position |-> cursor[s]])]
        /\ UNCHANGED <<server, channels, net, incoming, past>>
    BY <1>3 DEF QueueCursorUpdate, history
  <2>2. Typed' = Typed /\ cursor[s] \in Typed \cup {Start}
    BY <2>1 DEF Typed, Typing, ClientTyping
  <2>3. [type |-> "CURSOR_UPDATE", position |-> cursor[s]] \in UpMessage(Typed')
    BY <2>2, UpFrom
  <2> QED  BY <2>1, <2>2, <2>3, QueuedStages DEF server
<1>4. CASE FlushIncoming(s)
  <2>1. /\ \/ outgoing' = outgoing
           \/ outgoing' = [outgoing EXCEPT ![s] =
                              Append(@, [type |-> "SYNC_COMPLETE"])]
        /\ incoming' = [incoming EXCEPT ![s] = <<>>]
        /\ UNCHANGED <<server, channels, net, past>>
    BY <1>4 DEF FlushIncoming, history
  <2>2. Typed' = Typed /\ [type |-> "SYNC_COMPLETE"] \in UpMessage(Typed')
    BY <2>1, UpFrom DEF Typed
  <2> QED  BY <2>1, <2>2, QueuedStages DEF server
<1> QED  BY <1>1, <1>2, <1>3, <1>4

-----------------------------------------------------------------------------
(***************************************************************************)
(* The three invariants hold, and with them what SyncServer.tla says of    *)
(* types, of the server's maps and of the messages a client can expect.    *)
(***************************************************************************)
Base == Typing /\ Registry /\ Stages

LEMMA BaseInit ==
    ASSUME Init
    PROVE  Base
<1>1. Typed = {} /\ DOMAIN rows = {} /\ DOMAIN clients = {}
      /\ DOMAIN presence = {} /\ DOMAIN pending_sync_operations = {}
  BY DEF Init, EmptyMap, Typed
<1>2. ServerTyping
  BY <1>1 DEF Init, ServerTyping, ConnState, EmptyMap
<1>3. ChannelTyping
  BY EmptyQueue DEF Init, ChannelTyping
<1>4. ClientTyping
  BY EmptyQueue DEF Init, ClientTyping, NetState
<1>5. HistoryTyping
  BY <1>1 DEF Init, HistoryTyping
<1>6. Registry
  BY <1>1 DEF Init, Registry, IsRegistered, IsSyncing, IsLive, HasDocument
<1>7. Stages
  BY EmptyQueue DEF Init, Stages, Stage, IsConnected, HasDocument
<1> QED  BY <1>2, <1>3, <1>4, <1>5, <1>6, <1>7 DEF Base, Typing

LEMMA ReceiveBase ==
    ASSUME Base, NEW s \in Session, ReceiveMessage(s)
    PROVE  Base'
<1> DEFINE m == Head(toServer[s])
<1>1. Typing /\ Registry /\ Stages /\ ChannelTyping
  BY DEF Base, Typing
<1>2. /\ IsOpen(s) /\ toServer[s] # <<>> /\ m \in UpMessage(Typed)
      /\ UNCHANGED <<net, ui, queues, history>>
      /\ \/ /\ m.type = "HELLO" /\ Hello(s)
            /\ ~IsRegistered(s) /\ ClientOf[s] \notin DOMAIN clients
         \/ /\ m.type = "OPEN_DOCUMENT" /\ OpenDocument(s, m.document)
            /\ IsRegistered(s) /\ ~HasDocument(s)
         \/ /\ m.type = "OPERATION" /\ Operation(s, m.op)
            /\ IsLive(s) /\ HasDocument(s)
         \/ /\ m.type = "SYNC_COMPLETE" /\ SyncComplete(s)
            /\ IsSyncing(s)
         \/ /\ m.type = "CURSOR_UPDATE" /\ CursorUpdate(s, m.position)
            /\ IsLive(s)
         \/ Disconnect(s)
  BY <1>1, ReceiveCases
<1>3. /\ m.type = "OPEN_DOCUMENT" => m.document \in DocumentID
      /\ m.type = "OPERATION" => m.op \in Typed
      /\ m.type = "CURSOR_UPDATE" => m.position \in Typed \cup {Start}
  BY <1>2, UpMessages
<1>4. m = Head(toServer[s])
  OBVIOUS
<1> HIDE DEF m
<1>5. CASE Hello(s) /\ ~IsRegistered(s) /\ ClientOf[s] \notin DOMAIN clients
  BY <1>1, <1>2, <1>5, HelloBase, HelloStages DEF Base
<1>6. CASE /\ m.type = "OPEN_DOCUMENT" /\ OpenDocument(s, m.document)
           /\ IsRegistered(s) /\ ~HasDocument(s)
  <2>1. Typing' /\ Registry'
    BY <1>1, <1>2, <1>3, <1>6, OpenDocumentBase
  <2>2. Stages'
    BY <1>1, <1>2, <1>4, <1>6, OpenDocumentStages
  <2> QED  BY <2>1, <2>2 DEF Base
<1>7. CASE /\ m.type = "OPERATION" /\ Operation(s, m.op)
           /\ IsLive(s) /\ HasDocument(s)
  <2> DEFINE r == [type |-> "OPERATION", ops |-> {m.op}]
  <2>1. Typing' /\ Registry'
    BY <1>1, <1>2, <1>3, <1>7, OperationBase
  <2>2. r \in DownMessage(Typed) /\ r.type # "HELLO_ACK"
    BY <1>3, <1>7, DownFrom
  <2>3. /\ Read(s) /\ Send(ToLivePeers(s, r))
        /\ UNCHANGED <<net, queues, conn, current_document>>
    BY <1>2, <1>7 DEF Operation
  <2> HIDE DEF r
  <2>4. Stages'
    BY <1>1, <1>2, <2>2, <2>3, RoutedStages
  <2> QED  BY <2>1, <2>4 DEF Base
<1>8. CASE SyncComplete(s) /\ IsSyncing(s)
  BY <1>1, <1>2, <1>8, SyncCompleteBase, SyncCompleteStages DEF Base
<1>9. CASE /\ m.type = "CURSOR_UPDATE" /\ CursorUpdate(s, m.position)
           /\ IsLive(s)
  <2> DEFINE r == [type |-> "CURSOR_UPDATE", sender |-> ClientOf[s],
                   position |-> m.position]
  <2>1. Typing' /\ Registry'
    BY <1>1, <1>2, <1>3, <1>9, CursorUpdateBase
  <2>2. r \in DownMessage(Typed) /\ r.type # "HELLO_ACK"
    BY <1>3, <1>9, DownFrom, SessionAssumption
  <2>3. /\ Read(s) /\ Send(ToLivePeers(s, r))
        /\ UNCHANGED <<net, queues, conn, current_document>>
    BY <1>2, <1>9 DEF CursorUpdate
  <2> HIDE DEF r
  <2>4. Stages'
    BY <1>1, <1>2, <2>2, <2>3, RoutedStages
  <2> QED  BY <2>1, <2>4 DEF Base
<1>10. CASE Disconnect(s)
  <2>1. UNCHANGED <<net, ui, queues, dropped, past, moves>> /\ drops' \in Nat
    BY <1>1, <1>2 DEF history, Typing, HistoryTyping
  <2>2. UNCHANGED <<net, queues>>
    BY <1>2
  <2> QED  BY <1>1, <1>2, <1>10, <2>1, <2>2, DisconnectBase, DisconnectStages DEF Base
<1> QED  BY <1>2, <1>5, <1>6, <1>7, <1>8, <1>9, <1>10

LEMMA BaseStep ==
    ASSUME Base, [Next]_vars
    PROVE  Base'
<1>1. Typing /\ Registry /\ Stages
  BY DEF Base
<1>2. CASE UNCHANGED vars
  BY <1>1, <1>2
  DEF Base, Typing, ServerTyping, ChannelTyping, ClientTyping, HistoryTyping,
      Typed, Registry, IsRegistered, IsSyncing, IsLive, HasDocument, Owns, Stages,
      Stage, IsConnected, vars, server, channels, ui, queues, history
<1>3. ASSUME NEW s \in Session, LoopStep(s) \/ OutsideStep(s)
      PROVE  Base'
  <2>1. CASE ReceiveMessage(s)
    BY <2>1, ReceiveBase
  <2>2. CASE ServerReadsEnd(s) \/ ServerLosesConnection(s)
    <3>1. /\ IsOpen(s) /\ Disconnect(s) /\ drops' \in {drops, drops + 1}
          /\ UNCHANGED <<net, ui, queues, dropped, past, moves>>
      BY <2>2 DEF ServerReadsEnd, ServerLosesConnection, history
    <3>2. drops' \in Nat /\ UNCHANGED <<net, queues>>
      BY <1>1, <3>1 DEF Typing, HistoryTyping
    <3> QED  BY <1>1, <3>1, <3>2, DisconnectBase, DisconnectStages DEF Base
  <2>3. CASE Connected(s)
    <3>1. conn[s] = "NONE"
      BY <1>1, <2>3 DEF Connected, Stages, Stage
    <3> QED  BY <1>1, <2>3, <3>1, ConnectedBase, ConnectedStages DEF Base
  <2>4. CASE SendOpenDocument(s)
    BY <1>1, <2>4, SendOpenDocumentBase, SendOpenDocumentStages DEF Base
  <2>5. CASE HandleMessage(s)
    BY <1>1, <2>5, HandleMessageBase, HandleMessageStages DEF Base
  <2>6. CASE ClientReadsEnd(s) \/ ClientLosesConnection(s)
    <3>1. /\ IsConnected(s) /\ Close(s) /\ drops' \in {drops, drops + 1}
          /\ UNCHANGED <<server, ui, outgoing, incoming, dropped, past, moves>>
      BY <2>6 DEF ClientReadsEnd, ClientLosesConnection, history, queues
    <3>2. drops' \in Nat /\ UNCHANGED <<conn, current_document, incoming, outgoing>>
      BY <1>1, <3>1 DEF Typing, HistoryTyping, server
    <3> QED  BY <1>1, <3>1, <3>2, ClosedBase, ClosedStages DEF Base
  <2>7. CASE ProcessOutgoing(s)
    BY <1>1, <2>7, ProcessOutgoingBase, ProcessOutgoingStages DEF Base
  <2>8. CASE TypeKey(s) \/ MoveCursor(s) \/ QueueCursorUpdate(s) \/ FlushIncoming(s)
    <3>1. Typing' /\ Registry'
      BY <1>1, <2>8, TypeKeyBase, MoveCursorBase, QueueCursorUpdateBase,
         FlushIncomingBase
    <3> QED  BY <1>1, <2>8, <3>1, UserInterfaceStages DEF Base
  <2>9. CASE Connect(s) \/ ConnectFails(s)
    BY <1>1, <2>9, ConnectBase, ConnectStages DEF Base
  <2> QED  BY <1>3, <2>1, <2>2, <2>3, <2>4, <2>5, <2>6, <2>7, <2>8, <2>9
           DEF LoopStep, OutsideStep
<1> QED  BY <1>2, <1>3 DEF Next

LEMMA BaseHolds == Spec => []Base
BY BaseInit, BaseStep, PTL DEF Spec

LEMMA TypingImpliesTypeOK == Typing => TypeOK
<1> SUFFICES ASSUME Typing PROVE TypeOK
  OBVIOUS
<1>1. Typed \subseteq Op /\ Typed \cup {Start} \subseteq Position
  BY DEF Typing, HistoryTyping, Position
<1>2. /\ UpMessage(Typed) \subseteq ToServerMessage
      /\ DownMessage(Typed) \subseteq ToClientMessage
  BY <1>1 DEF UpMessage, DownMessage, ToServerMessage, ToClientMessage, Position
<1>3. /\ \A q \in Seq(Typed) : q \in Seq(Op)
      /\ \A q \in Seq(UpMessage(Typed)) : q \in Seq(ToServerMessage)
      /\ \A q \in Seq(DownMessage(Typed)) : q \in Seq(ToClientMessage)
  BY <1>1, <1>2, SeqGrows
<1> HIDE DEF UpMessage, DownMessage, ToServerMessage, ToClientMessage, Typed, Op,
              Position
<1>4. /\ conn \in [Session -> ConnState]
      /\ current_document \in [Session -> DocumentID \cup {None}]
      /\ DOMAIN pending_sync_operations \subseteq Client
      /\ \A c \in DOMAIN pending_sync_operations :
            pending_sync_operations[c] \in Seq(Op)
      /\ DOMAIN rows \subseteq DocumentID
      /\ \A d \in DOMAIN rows : rows[d] \in Seq(Op)
  BY <1>3 DEF Typing, ServerTyping
<1>5. clients \in UNION {[C -> Session] : C \in SUBSET Client}
  BY DEF Typing, ServerTyping
<1>6. presence \in UNION {[C -> Position] : C \in SUBSET Client}
  <2>1. presence \in [DOMAIN presence -> Position] /\ DOMAIN presence \in SUBSET Client
    BY <1>1 DEF Typing, ServerTyping
  <2> QED  BY <2>1
<1>7. /\ toServer \in [Session -> Seq(ToServerMessage)]
      /\ toClient \in [Session -> Seq(ToClientMessage)]
      /\ incoming \in [Session -> Seq(ToClientMessage)]
      /\ outgoing \in [Session -> Seq(ToServerMessage)]
  BY <1>3 DEF Typing, ChannelTyping, ClientTyping
<1>8. /\ net \in [Session -> NetState]
      /\ known \in [Session -> SUBSET Op]
      /\ cursor \in [Session -> Position]
      /\ cursor_due \in [Session -> BOOLEAN]
  BY <1>1 DEF Typing, ClientTyping
<1>9. remote_cursors \in [Session -> [Client -> Position \cup {None}]]
  <2>1. \A f \in [Client -> Typed \cup {Start, None}] :
           f \in [Client -> Position \cup {None}]
    BY <1>1
  <2> QED  BY <2>1 DEF Typing, ClientTyping
<1>10. /\ dropped \subseteq Op /\ Typed \subseteq Op
       /\ \A op \in Typed : past[op] \subseteq Op
       /\ {moves, drops} \subseteq Nat
  BY <1>1 DEF Typing, HistoryTyping
<1> QED  BY <1>4, <1>5, <1>6, <1>7, <1>8, <1>9, <1>10
         DEF TypeOK, ConnState, NetState

(***************************************************************************)
(* Every variable keeps its type: in particular a position or an operation *)
(* in a message, a map or a queue is always one that some session typed,   *)
(* and within the bound.                                                   *)
(***************************************************************************)
THEOREM TypeCorrectness == Spec => []TypeOK
<1>1. Base => TypeOK
  BY TypingImpliesTypeOK DEF Base
<1> QED  BY <1>1, BaseHolds, PTL

LEMMA RegistryImpliesAgreement == Typing /\ Registry => RegistryAgrees
<1> SUFFICES ASSUME Typing, Registry PROVE RegistryAgrees
  OBVIOUS
<1>1. \A s \in Session :
         IsRegistered(s) <=> /\ ClientOf[s] \in DOMAIN clients
                             /\ clients[ClientOf[s]] = s
  BY DEF Registry, Owns
<1>2. \A s \in Session :
         IsSyncing(s) \/ IsLive(s) => current_document[s] \in DOMAIN rows
  BY DEF Registry
<1> QED  BY <1>1, <1>2 DEF Registry, RegistryAgrees

(***************************************************************************)
(* Server::clients, presence and pending_sync_operations agree with the    *)
(* states of the connections, whatever sessions share a client id and      *)
(* however late the server learns that one of them has gone: no lookup of  *)
(* receive_message finds an entry missing, and unregister_client never     *)
(* takes another connection's entry.                                       *)
(***************************************************************************)
THEOREM MapsAgree == Spec => []RegistryAgrees
<1>1. Base => RegistryAgrees
  BY RegistryImpliesAgreement DEF Base
<1> QED  BY <1>1, BaseHolds, PTL

LEMMA StagesImplyExpected == Typing /\ Stages => ServerIsExpected
<1> SUFFICES ASSUME Typing, Stages, NEW s \in Session,
                    IsConnected(s), toClient[s] # <<>>
             PROVE  Expects(s, Head(toClient[s]))
  BY DEF ServerIsExpected
<1>1. toClient[s] \in Seq(DownMessage(Typed)) /\ Stage(s) /\ net[s] \in NetState
  BY DEF Typing, ChannelTyping, ClientTyping, Stages
<1>2. /\ Head(toClient[s]) = toClient[s][1] /\ 1 \in DOMAIN toClient[s]
      /\ Head(toClient[s]) \in DownMessage(Typed)
  BY <1>1, HeadAndTail
<1>3. net[s] \in {"REGISTERING", "SYNCING"}
  BY <1>1 DEF Stage, IsConnected, NetState
<1>4. CASE net[s] = "REGISTERING"
  <2>1. toClient[s] = <<Ack>>
    BY <1>1, <1>4 DEF Stage
  <2>2. toClient[s][1].type = "HELLO_ACK"
    BY <2>1 DEF Ack
  <2> QED  BY <1>2, <1>4, <2>2 DEF Expects
<1>5. CASE net[s] = "SYNCING"
  <2>1. toClient[s][1].type # "HELLO_ACK"
    BY <1>1, <1>2, <1>5 DEF Stage
  <2> QED  BY <1>2, <1>5, <2>1 DEF Expects
<1> QED  BY <1>3, <1>4, <1>5

(***************************************************************************)
(* No message of the server is ever one that handle_message treats as an   *)
(* error: what the two ends think of the protocol differs while messages   *)
(* are on their way, but never so that the server runs ahead.              *)
(***************************************************************************)
THEOREM ServerStaysExpected == Spec => []ServerIsExpected
<1>1. Base => ServerIsExpected
  BY StagesImplyExpected DEF Base
<1> QED  BY <1>1, BaseHolds, PTL

-----------------------------------------------------------------------------
(***************************************************************************)
(* Cursors.  Of a session's cursor a peer is told by presence and by the   *)
(* updates on their way, so the invariant follows a position from the      *)
(* session that has it to the session that draws it.                       *)
(***************************************************************************)
Leaving(s) == toServer[s] \o outgoing[s]

Holds(q, type) == \E i \in DOMAIN q : q[i].type = type

\* The position in the last cursor update of q.
LastSent(q, default) ==
    PositionAt(q, {i \in DOMAIN q : q[i].type = "CURSOR_UPDATE"}, default)

\* What s shows for client c once what is on its way has arrived.
Overheard(s, c) == LastCursor(Arriving(s), c, remote_cursors[s][c])

\* A session sends no SYNC_COMPLETE before it has asked for a history.
Unanswered(s) ==
    net[s] \in {"NEW", "CONNECTING", "REGISTERING", "REGISTERED"} =>
        ~Holds(Leaving(s), "SYNC_COMPLETE")

\* Behind its SYNC_COMPLETE a session sends where its cursor is, and keeps the
\* server informed.
Announced(s) ==
    /\ IsConnected(s) /\ IsOpen(s)
    /\ IsLive(s) \/ Holds(Leaving(s), "SYNC_COMPLETE")
    =>
    \/ cursor_due[s]
    \/ IF IsLive(s) THEN cursor[s] = LastSent(Leaving(s), presence[ClientOf[s]])
       ELSE /\ Holds(Leaving(s), "CURSOR_UPDATE")
            /\ cursor[s] = LastSent(Leaving(s), Start)

InTouch(s, t) ==
    /\ s # t /\ IsLive(s) /\ IsLive(t) /\ IsConnected(s) /\ IsConnected(t)
    /\ current_document[s] = current_document[t]

\* What s hears of t is what the server holds, or t is about to tell both.
Informed(s, t) ==
    InTouch(s, t) =>
        \/ Overheard(s, ClientOf[t]) = presence[ClientOf[t]]
        \/ cursor_due[t]
        \/ Holds(Leaving(t), "CURSOR_UPDATE")

Cursors ==
    /\ \A s \in Session : Unanswered(s) /\ Announced(s)
    /\ \A s, t \in Session : Informed(s, t)

LEMMA PositionJoined ==
    ASSUME NEW M, NEW p \in Seq(M), NEW q \in Seq(M), NEW default,
           NEW P \in SUBSET (1..Len(p)), NEW Q \in SUBSET (1..Len(q)),
           NEW R \in SUBSET (1..Len(p \o q)),
           \A i \in 1..Len(p) : i \in R <=> i \in P,
           \A i \in 1..Len(q) : Len(p) + i \in R <=> i \in Q
    PROVE  PositionAt(p \o q, R, default) =
              PositionAt(q, Q, PositionAt(p, P, default))
<1>1. /\ Len(p) \in Nat /\ Len(q) \in Nat
      /\ Len(p \o q) \in Nat /\ Len(p \o q) = Len(p) + Len(q)
      /\ \A i \in 1..Len(p) : (p \o q)[i] = p[i]
      /\ \A i \in 1..Len(q) : (p \o q)[Len(p) + i] = q[i]
  BY Joined
<1>2. \A i \in R : i \in 1..Len(p) \/ \E j \in 1..Len(q) : i = Len(p) + j
  <2> SUFFICES ASSUME NEW i \in R, i \notin 1..Len(p)
               PROVE  \E j \in 1..Len(q) : i = Len(p) + j
    OBVIOUS
  <2>1. i - Len(p) \in 1..Len(q) /\ i = Len(p) + (i - Len(p))
    BY <1>1
  <2> QED  BY <2>1
<1>3. CASE Q # {}
  <2> DEFINE k == Max(Q)
             l == Max(R)
  <2>1. k \in Q /\ k \in 1..Len(q) /\ \A y \in Q : y <= k
    BY <1>1, <1>3, LastPlace
  <2>2. Len(p) + k \in R
    BY <2>1
  <2>3. l \in R /\ \A y \in R : y <= l
    <3> HIDE DEF k
    <3> QED  BY <1>1, <2>2, LastPlace
  <2> HIDE DEF k, l
  <2>4. PICK j \in 1..Len(q) : l = Len(p) + j
    <3>1. Len(p) + k <= l
      BY <2>2, <2>3
    <3> QED  BY <1>1, <1>2, <2>1, <2>3, <3>1
  <2>5. j \in Q
    BY <2>3, <2>4
  <2>6. j = k
    BY <1>1, <2>1, <2>2, <2>3, <2>4, <2>5
  <2> QED  BY <1>1, <1>3, <2>2, <2>4, <2>6 DEF PositionAt, k, l
<1>4. CASE Q = {}
  <2>1. R = P
    BY <1>1, <1>2, <1>4
  <2>2. P # {} => Max(P) \in 1..Len(p)
    BY <1>1, LastPlace
  <2> QED  BY <1>1, <1>4, <2>1, <2>2 DEF PositionAt
<1> QED  BY <1>3, <1>4

LEMMA LastSentJoined ==
    ASSUME NEW M, NEW p \in Seq(M), NEW q \in Seq(M), NEW default
    PROVE  LastSent(p \o q, default) = LastSent(q, LastSent(p, default))
<1> DEFINE Places(x) == {i \in DOMAIN x : x[i].type = "CURSOR_UPDATE"}
<1>1. /\ Places(p) \in SUBSET (1..Len(p)) /\ Places(q) \in SUBSET (1..Len(q))
      /\ Places(p \o q) \in SUBSET (1..Len(p \o q))
      /\ \A i \in 1..Len(p) : i \in Places(p \o q) <=> i \in Places(p)
      /\ \A i \in 1..Len(q) : Len(p) + i \in Places(p \o q) <=> i \in Places(q)
  BY Joined
<1> HIDE DEF Places
<1>2. PositionAt(p \o q, Places(p \o q), default) =
         PositionAt(q, Places(q), PositionAt(p, Places(p), default))
  BY <1>1, PositionJoined
<1> QED  BY <1>2 DEF LastSent, Places

LEMMA LastCursorJoined ==
    ASSUME NEW M, NEW p \in Seq(M), NEW q \in Seq(M), NEW c, NEW default
    PROVE  LastCursor(p \o q, c, default) =
              LastCursor(q, c, LastCursor(p, c, default))
<1> DEFINE Places(x) == {i \in DOMAIN x : /\ x[i].type = "CURSOR_UPDATE"
                                          /\ x[i].sender = c}
<1>1. /\ Places(p) \in SUBSET (1..Len(p)) /\ Places(q) \in SUBSET (1..Len(q))
      /\ Places(p \o q) \in SUBSET (1..Len(p \o q))
      /\ \A i \in 1..Len(p) : i \in Places(p \o q) <=> i \in Places(p)
      /\ \A i \in 1..Len(q) : Len(p) + i \in Places(p \o q) <=> i \in Places(q)
  BY Joined
<1> HIDE DEF Places
<1>2. PositionAt(p \o q, Places(p \o q), default) =
         PositionAt(q, Places(q), PositionAt(p, Places(p), default))
  BY <1>1, PositionJoined
<1> QED  BY <1>2 DEF LastCursor, Places

LEMMA OnePlace == Max({1}) = 1
<1>1. 1 \in Nat /\ {1} \in SUBSET (1..1) /\ {1} # {}
  OBVIOUS
<1> QED  BY <1>1, LastPlace

LEMMA OneSent ==
    ASSUME NEW m, NEW default
    PROVE  LastSent(<<m>>, default) =
              IF m.type = "CURSOR_UPDATE" THEN m.position ELSE default
<1>1. {i \in DOMAIN <<m>> : <<m>>[i].type = "CURSOR_UPDATE"} =
         IF m.type = "CURSOR_UPDATE" THEN {1} ELSE {}
  OBVIOUS
<1> QED  BY <1>1, OnePlace DEF LastSent, PositionAt

LEMMA OneCursor ==
    ASSUME NEW m, NEW c, NEW default
    PROVE  LastCursor(<<m>>, c, default) =
              IF m.type = "CURSOR_UPDATE" /\ m.sender = c THEN m.position
              ELSE default
<1>1. {i \in DOMAIN <<m>> : <<m>>[i].type = "CURSOR_UPDATE" /\ <<m>>[i].sender = c} =
         IF m.type = "CURSOR_UPDATE" /\ m.sender = c THEN {1} ELSE {}
  OBVIOUS
<1> QED  BY <1>1, OnePlace DEF LastCursor, PositionAt

LEMMA SomeSent ==
    ASSUME NEW q, Holds(q, "CURSOR_UPDATE"), NEW d, NEW e
    PROVE  LastSent(q, d) = LastSent(q, e)
BY DEF LastSent, PositionAt, Holds

LEMMA Beyond ==
    ASSUME NEW a \in Nat, NEW b \in Nat, NEW i \in 1..a + b, i \notin 1..a
    PROVE  i - a \in 1..b /\ i = a + (i - a)
OBVIOUS

LEMMA HoldsJoined ==
    ASSUME NEW M, NEW p \in Seq(M), NEW q \in Seq(M), NEW type
    PROVE  Holds(p \o q, type) <=> Holds(p, type) \/ Holds(q, type)
<1>1. /\ Len(p) \in Nat /\ Len(q) \in Nat
      /\ DOMAIN p = 1..Len(p) /\ DOMAIN q = 1..Len(q)
      /\ DOMAIN (p \o q) = 1..Len(p) + Len(q)
      /\ \A i \in 1..Len(p) : (p \o q)[i] = p[i]
      /\ \A i \in 1..Len(q) : (p \o q)[Len(p) + i] = q[i]
  BY Joined
<1>2. ASSUME NEW i \in DOMAIN (p \o q), i \notin 1..Len(p)
      PROVE  i - Len(p) \in 1..Len(q) /\ i = Len(p) + (i - Len(p))
  BY <1>1, <1>2, Beyond
<1>3. ASSUME NEW i \in 1..Len(q)
      PROVE  Len(p) + i \in DOMAIN (p \o q)
  BY <1>1
<1>4. \A i \in 1..Len(p) : i \in DOMAIN (p \o q)
  BY <1>1
<1> QED  BY <1>1, <1>2, <1>3, <1>4 DEF Holds

LEMMA HoldsOne ==
    ASSUME NEW m, NEW type
    PROVE  Holds(<<m>>, type) <=> m.type = type
BY DEF Holds

LEMMA Queues ==
    ASSUME Typing, NEW s \in Session
    PROVE  /\ toServer[s] \in Seq(UpMessage(Typed))
           /\ outgoing[s] \in Seq(UpMessage(Typed))
           /\ Leaving(s) \in Seq(UpMessage(Typed))
           /\ toClient[s] \in Seq(DownMessage(Typed))
           /\ incoming[s] \in Seq(DownMessage(Typed))
           /\ Arriving(s) \in Seq(DownMessage(Typed))
<1>1. /\ toServer[s] \in Seq(UpMessage(Typed))
      /\ outgoing[s] \in Seq(UpMessage(Typed))
      /\ toClient[s] \in Seq(DownMessage(Typed))
      /\ incoming[s] \in Seq(DownMessage(Typed))
  BY DEF Typing, ChannelTyping, ClientTyping
<1> QED  BY <1>1, Joined DEF Leaving, Arriving

LEMMA HeadJoined ==
    ASSUME NEW M, NEW p \in Seq(M), NEW q \in Seq(M), p # <<>>
    PROVE  /\ <<Head(p)>> \in Seq(M) /\ Tail(p) \o q \in Seq(M)
           /\ p \o q = <<Head(p)>> \o (Tail(p) \o q)
OBVIOUS

LEMMA AppendJoined ==
    ASSUME NEW M, NEW p \in Seq(M), NEW q \in Seq(M), NEW m \in M
    PROVE  /\ <<m>> \in Seq(M)
           /\ p \o Append(q, m) = (p \o q) \o <<m>>
           /\ Append(p, m) = p \o <<m>>
OBVIOUS

LEMMA HeadMoves ==
    ASSUME NEW M, NEW p \in Seq(M), NEW q \in Seq(M), q # <<>>
    PROVE  Append(p, Head(q)) \o Tail(q) = p \o q
OBVIOUS

\* The server reads the first of the messages that s sends.
LEMMA LeavingRead ==
    ASSUME Typing, NEW s \in Session, toServer[s] # <<>>,
           toServer'[s] = Tail(toServer[s]), outgoing'[s] = outgoing[s]
    PROVE  LET m == Head(toServer[s])
           IN  /\ \A d : LastSent(Leaving(s), d) =
                            LastSent(Leaving(s)',
                                     IF m.type = "CURSOR_UPDATE" THEN m.position
                                     ELSE d)
               /\ \A type : Holds(Leaving(s), type) <=>
                               m.type = type \/ Holds(Leaving(s)', type)
<1> DEFINE p == toServer[s]
           q == outgoing[s]
           m == Head(p)
           u == <<m>>
           r == Tail(p) \o q
<1>1. p \in Seq(UpMessage(Typed)) /\ q \in Seq(UpMessage(Typed)) /\ p # <<>>
  BY Queues
<1>2. Leaving(s) = p \o q /\ Leaving(s)' = r
  BY DEF Leaving
<1> HIDE DEF p, q
<1>3. /\ u \in Seq(UpMessage(Typed)) /\ r \in Seq(UpMessage(Typed))
      /\ p \o q = u \o r
  BY <1>1, HeadJoined
<1> HIDE DEF m, r
<1>6. \A d : LastSent(u, d) = IF m.type = "CURSOR_UPDATE" THEN m.position ELSE d
  BY OneSent
<1>7. \A type : Holds(u, type) <=> m.type = type
  BY HoldsOne
<1> HIDE DEF u
<1>4. \A d : LastSent(u \o r, d) = LastSent(r, LastSent(u, d))
  BY <1>3, LastSentJoined
<1>5. \A type : Holds(u \o r, type) <=> Holds(u, type) \/ Holds(r, type)
  BY <1>3, HoldsJoined
<1>8. Leaving(s) = u \o r
  BY <1>2, <1>3
<1>9. /\ \A d : LastSent(Leaving(s), d) =
                   LastSent(Leaving(s)', IF m.type = "CURSOR_UPDATE"
                                         THEN m.position ELSE d)
      /\ \A type : Holds(Leaving(s), type) <=>
                      m.type = type \/ Holds(Leaving(s)', type)
  BY <1>2, <1>4, <1>5, <1>6, <1>7, <1>8
<1> QED  BY <1>9 DEF m, p

\* A handler of the user interface queues a message.
LEMMA LeavingQueued ==
    ASSUME NEW s \in Session, NEW M, NEW m \in M,
           toServer[s] \in Seq(M), outgoing[s] \in Seq(M),
           toServer'[s] = toServer[s], outgoing'[s] = Append(outgoing[s], m)
    PROVE  /\ \A d : LastSent(Leaving(s)', d) =
                        IF m.type = "CURSOR_UPDATE" THEN m.position
                        ELSE LastSent(Leaving(s), d)
           /\ \A type : Holds(Leaving(s)', type) <=>
                           Holds(Leaving(s), type) \/ m.type = type
<1> DEFINE x == toServer[s]
           y == outgoing[s]
           q == x \o y
           u == <<m>>
<1>1. x \in Seq(M) /\ y \in Seq(M)
  OBVIOUS
<1>2. Leaving(s) = q /\ Leaving(s)' = x \o Append(y, m)
  BY DEF Leaving
<1> HIDE DEF x, y
<1>3. q \in Seq(M)
  BY <1>1, Joined
<1>4. u \in Seq(M) /\ x \o Append(y, m) = q \o u
  BY <1>1, AppendJoined
<1>5. \A d : LastSent(u, d) = IF m.type = "CURSOR_UPDATE" THEN m.position ELSE d
  BY OneSent
<1>6. \A type : Holds(u, type) <=> m.type = type
  BY HoldsOne
<1> HIDE DEF q, u
<1>7. \A d : LastSent(q \o u, d) = LastSent(u, LastSent(q, d))
  BY <1>3, <1>4, LastSentJoined
<1>8. \A type : Holds(q \o u, type) <=> Holds(q, type) \/ Holds(u, type)
  BY <1>3, <1>4, HoldsJoined
<1>9. Leaving(s)' = q \o u
  BY <1>2, <1>4
<1> QED  BY <1>2, <1>5, <1>6, <1>7, <1>8, <1>9

\* A message is written to the client of s.
LEMMA OverheardMore ==
    ASSUME Typing, NEW s \in Session, NEW m \in DownMessage(Typed), NEW c,
           toClient'[s] = Append(toClient[s], m),
           incoming'[s] = incoming[s], remote_cursors'[s] = remote_cursors[s]
    PROVE  Overheard(s, c)' = IF m.type = "CURSOR_UPDATE" /\ m.sender = c
                              THEN m.position ELSE Overheard(s, c)
<1> DEFINE x == incoming[s]
           y == toClient[s]
           q == x \o y
           u == <<m>>
           d == remote_cursors[s][c]
<1>1. /\ x \in Seq(DownMessage(Typed)) /\ y \in Seq(DownMessage(Typed))
      /\ q \in Seq(DownMessage(Typed))
  BY Queues DEF Arriving
<1>2. Arriving(s) = q /\ Arriving(s)' = x \o Append(y, m)
  BY DEF Arriving
<1> HIDE DEF x, y
<1>3. u \in Seq(DownMessage(Typed)) /\ x \o Append(y, m) = q \o u
  BY <1>1, AppendJoined
<1>4. \A e : LastCursor(u, c, e) =
                IF m.type = "CURSOR_UPDATE" /\ m.sender = c THEN m.position ELSE e
  BY OneCursor
<1> HIDE DEF q, u
<1>5. LastCursor(q \o u, c, d) = LastCursor(u, c, LastCursor(q, c, d))
  BY <1>1, <1>3, LastCursorJoined
<1>6. Arriving(s)' = q \o u
  BY <1>2, <1>3
<1>7. Overheard(s, c)' = LastCursor(q \o u, c, d)
  BY <1>6 DEF Overheard
<1>8. Overheard(s, c) = LastCursor(q, c, d)
  BY <1>2 DEF Overheard
<1> QED  BY <1>4, <1>5, <1>7, <1>8

LEMMA OverheardSame ==
    ASSUME NEW s \in Session, NEW c, toClient'[s] = toClient[s],
           incoming'[s] = incoming[s], remote_cursors'[s] = remote_cursors[s]
    PROVE  Overheard(s, c)' = Overheard(s, c)
BY DEF Overheard, Arriving

LEMMA UnansweredStays ==
    ASSUME NEW t \in Session, Unanswered(t),
           net'[t] \in {"NEW", "CONNECTING", "REGISTERING", "REGISTERED"} =>
              net[t] \in {"NEW", "CONNECTING", "REGISTERING", "REGISTERED"},
           Holds(Leaving(t)', "SYNC_COMPLETE") => Holds(Leaving(t), "SYNC_COMPLETE")
    PROVE  Unanswered(t)'
BY DEF Unanswered

LEMMA AnnouncedStays ==
    ASSUME NEW t \in Session, Announced(t),
           (IsConnected(t) /\ IsOpen(t))' =>
              /\ IsConnected(t) /\ conn'[t] = conn[t]
              /\ Leaving(t)' = Leaving(t)
              /\ cursor'[t] = cursor[t] /\ cursor_due'[t] = cursor_due[t]
              /\ IsLive(t) => presence'[ClientOf[t]] = presence[ClientOf[t]]
    PROVE  Announced(t)'
BY DEF Announced, IsOpen, IsLive

LEMMA InformedStays ==
    ASSUME NEW s \in Session, NEW t \in Session, Informed(s, t),
           InTouch(s, t)' =>
              /\ InTouch(s, t)
              /\ Overheard(s, ClientOf[t])' = Overheard(s, ClientOf[t])
              /\ presence'[ClientOf[t]] = presence[ClientOf[t]]
              /\ cursor_due[t] \/ Holds(Leaving(t), "CURSOR_UPDATE") =>
                    cursor_due'[t] \/ Holds(Leaving(t)', "CURSOR_UPDATE")
    PROVE  Informed(s, t)'
BY DEF Informed

\* What a step of session s has to show.
LEMMA CursorsKept ==
    ASSUME Cursors, NEW s \in Session,
           \A t \in Session \ {s} :
              /\ conn'[t] = conn[t] /\ net'[t] = net[t]
              /\ current_document'[t] = current_document[t]
              /\ toServer'[t] = toServer[t] /\ outgoing'[t] = outgoing[t]
              /\ cursor'[t] = cursor[t] /\ cursor_due'[t] = cursor_due[t]
              /\ IsLive(t) => presence'[ClientOf[t]] = presence[ClientOf[t]],
           \A t, u \in Session \ {s} : InTouch(t, u) =>
              Overheard(t, ClientOf[u])' = Overheard(t, ClientOf[u]),
           Unanswered(s)', Announced(s)',
           \A t \in Session \ {s} : Informed(s, t)' /\ Informed(t, s)'
    PROVE  Cursors'
<1>1. \A t \in Session \ {s} : Leaving(t)' = Leaving(t)
  BY DEF Leaving
<1>2. ASSUME NEW t \in Session \ {s}
      PROVE  Unanswered(t)' /\ Announced(t)'
  <2>1. Unanswered(t)'
    BY <1>1, UnansweredStays DEF Cursors
  <2>2. IsConnected(t)' <=> IsConnected(t)
    BY DEF IsConnected
  <2>3. Announced(t)'
    BY <1>1, <2>2, AnnouncedStays DEF Cursors
  <2> QED  BY <2>1, <2>3
<1>3. ASSUME NEW t \in Session \ {s}, NEW u \in Session \ {s}
      PROVE  Informed(t, u)'
  <2>1. InTouch(t, u)' <=> InTouch(t, u)
    BY DEF InTouch, IsLive, IsConnected
  <2>2. InTouch(t, u) => IsLive(u)
    BY DEF InTouch
  <2> QED  BY <1>1, <2>1, <2>2, InformedStays DEF Cursors
<1>4. Informed(s, s)'
  BY DEF Informed, InTouch
<1> QED  BY <1>2, <1>3, <1>4 DEF Cursors

\* A step of the client's threads.
LEMMA SessionCursors ==
    ASSUME Cursors, NEW s \in Session, UNCHANGED server,
           \A t \in Session \ {s} :
              /\ net'[t] = net[t] /\ toClient'[t] = toClient[t]
              /\ toServer'[t] = toServer[t] /\ outgoing'[t] = outgoing[t]
              /\ cursor'[t] = cursor[t] /\ cursor_due'[t] = cursor_due[t]
              /\ incoming'[t] = incoming[t]
              /\ remote_cursors'[t] = remote_cursors[t],
           Unanswered(s)', Announced(s)',
           IsLive(s) /\ IsConnected(s)' =>
              /\ IsConnected(s)
              /\ \A c \in Client : Overheard(s, c)' = Overheard(s, c)
              /\ cursor_due[s] \/ Holds(Leaving(s), "CURSOR_UPDATE") =>
                    cursor_due'[s] \/ Holds(Leaving(s)', "CURSOR_UPDATE")
    PROVE  Cursors'
<1>1. UNCHANGED <<conn, current_document, presence>>
  BY DEF server
<1>2. \A t \in Session : IsLive(t)' <=> IsLive(t)
  BY <1>1 DEF IsLive
<1>3. \A t \in Session \ {s} : /\ IsConnected(t)' <=> IsConnected(t)
                               /\ Leaving(t)' = Leaving(t)
  BY DEF IsConnected, Leaving
<1>4. \A t \in Session \ {s} : \A c : Overheard(t, c)' = Overheard(t, c)
  BY OverheardSame
<1>5. ASSUME NEW t \in Session \ {s}
      PROVE  Informed(s, t)' /\ Informed(t, s)'
  <2>1. InTouch(s, t)' => InTouch(s, t) /\ IsLive(s) /\ IsConnected(s)'
    BY <1>1, <1>2, <1>3 DEF InTouch
  <2>2. InTouch(t, s)' => InTouch(t, s) /\ IsLive(s) /\ IsConnected(s)'
    BY <1>1, <1>2, <1>3 DEF InTouch
  <2>3. ClientOf[t] \in Client
    BY SessionAssumption
  <2>4. Informed(s, t)'
    BY <1>1, <1>3, <2>1, <2>3, InformedStays DEF Cursors
  <2>5. Informed(t, s)'
    BY <1>1, <1>4, <2>2, InformedStays DEF Cursors
  <2> QED  BY <2>4, <2>5
<1> QED  BY <1>1, <1>4, <1>5, CursorsKept

LEMMA ConnectCursors ==
    ASSUME Base, Cursors, NEW s \in Session, Connect(s) \/ ConnectFails(s)
    PROVE  Cursors'
<1>1. /\ net[s] \in {"NEW", "CONNECTING"}
      /\ UNCHANGED <<server, channels, ui, queues>>
      /\ \/ net[s] = "NEW" /\ net' = [net EXCEPT ![s] = "CONNECTING"]
         \/ net' = [net EXCEPT ![s] = "DISCONNECTED"]
  BY DEF Connect, ConnectFails, history
<1>2. UNCHANGED <<toServer, toClient, cursor, cursor_due, remote_cursors,
                  incoming, outgoing>>
  BY <1>1 DEF channels, ui, queues
<1>3. net \in [Session -> NetState]
  BY DEF Base, Typing, ClientTyping
<1>4. /\ net'[s] \in {"CONNECTING", "DISCONNECTED"}
      /\ \A t \in Session \ {s} : net'[t] = net[t]
  BY <1>1, <1>3
<1>5. Leaving(s)' = Leaving(s)
  BY <1>2 DEF Leaving
<1>6. Unanswered(s)'
  BY <1>1, <1>5, UnansweredStays DEF Cursors
<1>7. ~IsConnected(s)'
  BY <1>4 DEF IsConnected
<1>8. Announced(s)'
  BY <1>7 DEF Announced
<1> QED  BY <1>1, <1>2, <1>4, <1>6, <1>7, <1>8, SessionCursors

LEMMA ConnectedCursors ==
    ASSUME Base, Cursors, NEW s \in Session, Connected(s)
    PROVE  Cursors'
<1> DEFINE hello == [type |-> "HELLO"]
<1>1. /\ net[s] = "CONNECTING"
      /\ net' = [net EXCEPT ![s] = "REGISTERING"]
      /\ conn' = [conn EXCEPT ![s] = "UNREGISTERED"]
      /\ toServer' = [toServer EXCEPT ![s] = <<hello>>]
      /\ UNCHANGED <<current_document, presence, toClient, cursor, cursor_due,
                     remote_cursors, incoming, outgoing>>
  BY DEF Connected, ui, queues
<1>2. /\ conn \in [Session -> ConnState] /\ net \in [Session -> NetState]
      /\ toServer \in [Session -> Seq(UpMessage(Typed))]
      /\ outgoing[s] \in Seq(UpMessage(Typed))
      /\ toServer[s] \in Seq(UpMessage(Typed))
  BY DEF Base, Typing, ServerTyping, ClientTyping, ChannelTyping
<1>3. /\ conn'[s] = "UNREGISTERED" /\ net'[s] = "REGISTERING"
      /\ toServer'[s] = <<hello>>
      /\ \A t \in Session \ {s} : /\ conn'[t] = conn[t] /\ net'[t] = net[t]
                                  /\ toServer'[t] = toServer[t]
  BY <1>1, <1>2
<1>4. ~Holds(outgoing[s], "SYNC_COMPLETE")
  <2>1. ~Holds(Leaving(s), "SYNC_COMPLETE")
    BY <1>1 DEF Cursors, Unanswered
  <2> QED  BY <1>2, <2>1, HoldsJoined DEF Leaving
<1>5. ~Holds(Leaving(s)', "SYNC_COMPLETE")
  <2> DEFINE p == <<hello>>
             q == outgoing[s]
  <2>1. p \in Seq(UpMessage(Typed))
    BY UpFrom
  <2>2. ~Holds(p, "SYNC_COMPLETE")
    BY HoldsOne
  <2>3. Leaving(s)' = p \o q
    BY <1>1, <1>3 DEF Leaving
  <2> HIDE DEF p, q
  <2>4. q \in Seq(UpMessage(Typed)) /\ ~Holds(q, "SYNC_COMPLETE")
    BY <1>2, <1>4 DEF q
  <2>5. ~Holds(p \o q, "SYNC_COMPLETE")
    BY <2>1, <2>2, <2>4, HoldsJoined
  <2> QED  BY <2>3, <2>5
<1>6. Unanswered(s)'
  BY <1>5 DEF Unanswered
<1>7. ~IsLive(s)'
  BY <1>3 DEF IsLive
<1>8. Announced(s)'
  BY <1>5, <1>7 DEF Announced
<1>9. \A t, u \in Session \ {s} : Overheard(t, ClientOf[u])' = Overheard(t, ClientOf[u])
  BY <1>1, OverheardSame
<1>10. \A t \in Session \ {s} : Informed(s, t)' /\ Informed(t, s)'
  BY <1>7 DEF Informed, InTouch
<1> QED  BY <1>1, <1>3, <1>6, <1>8, <1>9, <1>10, CursorsKept

LEMMA SendOpenDocumentCursors ==
    ASSUME Base, Cursors, NEW s \in Session, SendOpenDocument(s)
    PROVE  Cursors'
<1> DEFINE m == [type |-> "OPEN_DOCUMENT", document |-> WantedDocument[s]]
           p == toServer[s]
           q == outgoing[s]
           u == <<m>>
           w == Append(p, m)
<1>1. /\ net[s] = "REGISTERED"
      /\ net' = [net EXCEPT ![s] = "SYNCING"]
      /\ toServer' = [toServer EXCEPT ![s] = Append(@, m)]
      /\ UNCHANGED <<server, toClient, cursor, cursor_due, remote_cursors,
                     incoming, outgoing>>
  BY DEF SendOpenDocument, ui, queues
<1>2. /\ net \in [Session -> NetState]
      /\ toServer \in [Session -> Seq(UpMessage(Typed))]
      /\ p \in Seq(UpMessage(Typed)) /\ q \in Seq(UpMessage(Typed))
  BY DEF Base, Typing, ClientTyping, ChannelTyping
<1>3. /\ net'[s] = "SYNCING" /\ toServer'[s] = Append(p, m)
      /\ \A t \in Session \ {s} : net'[t] = net[t] /\ toServer'[t] = toServer[t]
  BY <1>1, <1>2
<1>4. ~Holds(Leaving(s), "SYNC_COMPLETE")
  BY <1>1 DEF Cursors, Unanswered
<1>5. ~Holds(p, "SYNC_COMPLETE") /\ ~Holds(q, "SYNC_COMPLETE")
  BY <1>2, <1>4, HoldsJoined DEF Leaving
<1>6. m \in UpMessage(Typed) /\ m.type # "SYNC_COMPLETE"
  BY UpFrom, SessionAssumption
<1>7. ~Holds(u, "SYNC_COMPLETE")
  BY HoldsOne
<1>8. Leaving(s)' = w \o q
  BY <1>1, <1>3 DEF Leaving
<1> HIDE DEF m, p, q
<1>9. /\ u \in Seq(UpMessage(Typed)) /\ w = p \o u
      /\ w \in Seq(UpMessage(Typed))
  BY <1>2, <1>6, AppendJoined, Appended
<1> HIDE DEF u, w
<1>10. ~Holds(w, "SYNC_COMPLETE")
  BY <1>2, <1>5, <1>7, <1>9, HoldsJoined
<1>11. ~Holds(Leaving(s)', "SYNC_COMPLETE")
  <2>1. /\ w \in Seq(UpMessage(Typed)) /\ q \in Seq(UpMessage(Typed))
        /\ ~Holds(q, "SYNC_COMPLETE")
    BY <1>2, <1>5, <1>9
  <2>2. ~Holds(w \o q, "SYNC_COMPLETE")
    BY <1>10, <2>1, HoldsJoined
  <2> QED  BY <1>8, <2>2
<1>12. ~IsLive(s)
  BY <1>1 DEF Base, Stages, Stage, IsLive
<1>13. Unanswered(s)'
  BY <1>11 DEF Unanswered
<1>14. Announced(s)'
  BY <1>1, <1>11, <1>12 DEF Announced, IsLive, server
<1> QED  BY <1>1, <1>3, <1>12, <1>13, <1>14, SessionCursors

\* A client gives up its connection.
LEMMA ClosedCursors ==
    ASSUME Base, Cursors, NEW s \in Session, Close(s),
           UNCHANGED <<server, cursor, cursor_due, remote_cursors, incoming, outgoing>>
    PROVE  Cursors'
<1>1. /\ \A t \in Session : net'[t] = IF t = s THEN "DISCONNECTED" ELSE net[t]
      /\ \A t \in Session : toClient'[t] = IF t = s THEN <<>> ELSE toClient[t]
      /\ \A t \in Session \ {s} : toServer'[t] = toServer[t]
  BY Closed DEF Base
<1>2. ~IsConnected(s)' /\ Unanswered(s)'
  BY <1>1 DEF IsConnected, Unanswered
<1>3. Announced(s)'
  BY <1>2 DEF Announced
<1> QED  BY <1>1, <1>2, <1>3, SessionCursors

LEMMA HandleMessageCursors ==
    ASSUME Base, Cursors, NEW s \in Session, HandleMessage(s)
    PROVE  Cursors'
<1> DEFINE m == Head(toClient[s])
<1>1. /\ IsConnected(s) /\ toClient[s] # <<>>
      /\ m \in DownMessage(Typed)
      /\ UNCHANGED <<server, ui, outgoing, history>>
      /\ \/ /\ Expects(s, m) /\ m.type = "HELLO_ACK"
            /\ toClient' = [toClient EXCEPT ![s] = Tail(@)]
            /\ net' = [net EXCEPT ![s] = "REGISTERED"]
            /\ UNCHANGED <<incoming, toServer>>
         \/ /\ Expects(s, m) /\ m.type # "HELLO_ACK"
            /\ toClient' = [toClient EXCEPT ![s] = Tail(@)]
            /\ incoming' = [incoming EXCEPT ![s] = Append(@, m)]
            /\ UNCHANGED <<net, toServer>>
         \/ ~Expects(s, m) /\ Close(s) /\ UNCHANGED incoming
  BY HandleCases DEF Base
<1>2. UNCHANGED <<cursor, cursor_due, remote_cursors, outgoing>>
  BY <1>1 DEF ui
<1>3. /\ net \in [Session -> NetState]
      /\ toClient \in [Session -> Seq(DownMessage(Typed))]
      /\ incoming \in [Session -> Seq(DownMessage(Typed))]
  BY DEF Base, Typing, ClientTyping, ChannelTyping
<1>4. CASE /\ Expects(s, m) /\ m.type = "HELLO_ACK"
           /\ toClient' = [toClient EXCEPT ![s] = Tail(@)]
           /\ net' = [net EXCEPT ![s] = "REGISTERED"]
           /\ UNCHANGED <<incoming, toServer>>
  <2>1. net[s] = "REGISTERING"
    BY <1>4 DEF Expects
  <2>2. /\ net'[s] = "REGISTERED"
        /\ \A t \in Session \ {s} : net'[t] = net[t] /\ toClient'[t] = toClient[t]
    BY <1>3, <1>4
  <2>3. ~IsLive(s)
    BY <2>1 DEF Base, Stages, Stage, IsLive
  <2>4. Leaving(s)' = Leaving(s)
    BY <1>2, <1>4 DEF Leaving
  <2>5. Unanswered(s)'
    BY <2>1, <2>4, UnansweredStays DEF Cursors
  <2>6. Announced(s)'
    BY <1>1, <1>2, <2>3, <2>4, AnnouncedStays DEF Cursors, server
  <2> QED  BY <1>1, <1>2, <1>4, <2>2, <2>3, <2>5, <2>6, SessionCursors
<1>5. CASE /\ Expects(s, m) /\ m.type # "HELLO_ACK"
           /\ toClient' = [toClient EXCEPT ![s] = Tail(@)]
           /\ incoming' = [incoming EXCEPT ![s] = Append(@, m)]
           /\ UNCHANGED <<net, toServer>>
  <2>1. Leaving(s)' = Leaving(s) /\ (IsConnected(s)' <=> IsConnected(s))
    BY <1>2, <1>5 DEF Leaving, IsConnected
  <2>2. /\ incoming'[s] = Append(incoming[s], m) /\ toClient'[s] = Tail(toClient[s])
        /\ \A t \in Session \ {s} : /\ toClient'[t] = toClient[t]
                                    /\ incoming'[t] = incoming[t]
    BY <1>3, <1>5
  <2>3. Append(incoming[s], m) \o Tail(toClient[s]) = incoming[s] \o toClient[s]
    BY <1>1, <1>3, HeadMoves
  <2>4. Arriving(s)' = Arriving(s)
    BY <2>2, <2>3 DEF Arriving
  <2>5. \A c \in Client : Overheard(s, c)' = Overheard(s, c)
    BY <1>2, <2>4 DEF Overheard
  <2>6. Unanswered(s)'
    BY <1>5, <2>1, UnansweredStays DEF Cursors
  <2>7. Announced(s)'
    BY <1>1, <1>2, <2>1, AnnouncedStays DEF Cursors, server
  <2> QED  BY <1>1, <1>2, <1>5, <2>1, <2>2, <2>5, <2>6, <2>7, SessionCursors
<1>6. CASE ~Expects(s, m) /\ Close(s) /\ UNCHANGED incoming
  BY <1>1, <1>2, <1>6, ClosedCursors
<1> QED  BY <1>1, <1>4, <1>5, <1>6

LEMMA ProcessOutgoingCursors ==
    ASSUME Base, Cursors, NEW s \in Session, ProcessOutgoing(s)
    PROVE  Cursors'
<1>1. /\ outgoing' = [outgoing EXCEPT ![s] = <<>>]
      /\ UNCHANGED <<server, toClient, net, cursor, cursor_due, remote_cursors,
                     incoming>>
      /\ \/ /\ IsConnected(s)
            /\ toServer' = [toServer EXCEPT ![s] =
                               IF conn[s] = "DISCONNECTED" THEN @
                               ELSE @ \o outgoing[s]]
         \/ ~IsConnected(s) /\ UNCHANGED toServer
  BY DEF ProcessOutgoing, TakeAll, ui
<1>2. /\ toServer \in [Session -> Seq(UpMessage(Typed))]
      /\ outgoing \in [Session -> Seq(UpMessage(Typed))]
  BY DEF Base, Typing, ClientTyping, ChannelTyping
<1> DEFINE p == toServer[s]
           q == outgoing[s]
<1>3. p \in Seq(UpMessage(Typed)) /\ q \in Seq(UpMessage(Typed))
  BY <1>2
<1>4. /\ outgoing'[s] = <<>>
      /\ toServer'[s] = IF IsConnected(s) /\ conn[s] # "DISCONNECTED"
                        THEN p \o q ELSE p
      /\ \A t \in Session \ {s} : /\ outgoing'[t] = outgoing[t]
                                  /\ toServer'[t] = toServer[t]
  BY <1>1, <1>2
<1>5. Leaving(s) = p \o q /\ Leaving(s)' = toServer'[s] \o <<>>
  BY <1>4 DEF Leaving
<1> HIDE DEF p, q
<1>6. p \o <<>> = p /\ (p \o q) \o <<>> = p \o q
  BY <1>3
<1>7. CASE IsConnected(s) /\ conn[s] # "DISCONNECTED"
  <2>1. Leaving(s)' = Leaving(s)
    BY <1>4, <1>5, <1>6, <1>7
  <2>2. Unanswered(s)'
    BY <1>1, <2>1, UnansweredStays DEF Cursors
  <2>3. Announced(s)'
    BY <1>1, <1>7, <2>1, AnnouncedStays DEF Cursors, server
  <2>4. \A c \in Client : Overheard(s, c)' = Overheard(s, c)
    BY <1>1, OverheardSame
  <2> QED  BY <1>1, <1>4, <1>7, <2>1, <2>2, <2>3, <2>4, SessionCursors
<1>8. CASE ~(IsConnected(s) /\ conn[s] # "DISCONNECTED")
  <2>1. Leaving(s)' = p
    BY <1>4, <1>5, <1>6, <1>8
  <2>2. Holds(p, "SYNC_COMPLETE") => Holds(Leaving(s), "SYNC_COMPLETE")
    BY <1>3, <1>5, HoldsJoined
  <2>3. Unanswered(s)'
    BY <1>1, <2>1, <2>2, UnansweredStays DEF Cursors
  <2>4. ~(IsConnected(s) /\ IsOpen(s))' /\ ~(IsLive(s) /\ IsConnected(s)')
    BY <1>1, <1>8 DEF IsConnected, IsOpen, IsLive, server
  <2>5. Announced(s)'
    BY <2>4 DEF Announced
  <2> QED  BY <1>1, <1>4, <2>3, <2>4, <2>5, SessionCursors
<1> QED  BY <1>7, <1>8

LEMMA TypeKeyCursors ==
    ASSUME Base, Base', Cursors, NEW s \in Session, TypeKey(s)
    PROVE  Cursors'
<1> DEFINE m == [type |-> "OPERATION", op |-> NextOp(s)]
<1>1. /\ UNCHANGED <<server, net, toServer, toClient, remote_cursors, incoming>>
      /\ cursor' = [cursor EXCEPT ![s] = NextOp(s)]
      /\ outgoing' = [outgoing EXCEPT ![s] = Append(@, m)]
      /\ cursor_due' = [cursor_due EXCEPT ![s] = TRUE]
      /\ past' = Put(past, NextOp(s), known[s])
  BY DEF TypeKey, channels
<1>2. /\ cursor_due \in [Session -> BOOLEAN]
      /\ cursor \in [Session -> Typed \cup {Start}]
      /\ outgoing \in [Session -> Seq(UpMessage(Typed))]
      /\ toServer[s] \in Seq(UpMessage(Typed))
  BY DEF Base, Typing, ClientTyping, ChannelTyping
<1>3. /\ cursor_due'[s] /\ outgoing'[s] = Append(outgoing[s], m)
      /\ \A t \in Session \ {s} : /\ cursor'[t] = cursor[t]
                                  /\ cursor_due'[t] = cursor_due[t]
                                  /\ outgoing'[t] = outgoing[t]
  BY <1>1, <1>2
<1>4. NextOp(s) \in Typed' /\ Typed \subseteq Typed'
  BY <1>1 DEF Typed, Put
<1>5. m \in UpMessage(Typed')
  BY <1>4, UpFrom
<1>6. /\ toServer[s] \in Seq(UpMessage(Typed'))
      /\ outgoing[s] \in Seq(UpMessage(Typed'))
  BY <1>2, <1>4, MessagesGrow, SeqGrows
<1>7. m.type # "SYNC_COMPLETE"
  OBVIOUS
<1> HIDE DEF m
<1>8. Holds(Leaving(s)', "SYNC_COMPLETE") => Holds(Leaving(s), "SYNC_COMPLETE")
  BY <1>1, <1>3, <1>5, <1>6, <1>7, LeavingQueued
<1>9. Unanswered(s)'
  BY <1>1, <1>8, UnansweredStays DEF Cursors
<1>10. Announced(s)'
  BY <1>3 DEF Announced
<1>11. \A c \in Client : Overheard(s, c)' = Overheard(s, c)
  BY <1>1, OverheardSame
<1>12. IsConnected(s)' <=> IsConnected(s)
  BY <1>1 DEF IsConnected
<1> QED  BY <1>1, <1>3, <1>9, <1>10, <1>11, <1>12, SessionCursors

LEMMA MoveCursorCursors ==
    ASSUME Base, Cursors, NEW s \in Session, MoveCursor(s)
    PROVE  Cursors'
<1>1. /\ UNCHANGED <<server, net, toServer, toClient, remote_cursors, incoming,
                     outgoing>>
      /\ \E position : cursor' = [cursor EXCEPT ![s] = position]
      /\ cursor_due' = [cursor_due EXCEPT ![s] = TRUE]
  BY DEF MoveCursor, channels, queues
<1>2. /\ cursor_due \in [Session -> BOOLEAN]
      /\ cursor \in [Session -> Typed \cup {Start}]
  BY DEF Base, Typing, ClientTyping
<1>3. /\ cursor_due'[s]
      /\ \A t \in Session \ {s} : /\ cursor'[t] = cursor[t]
                                  /\ cursor_due'[t] = cursor_due[t]
  BY <1>1, <1>2
<1>4. Leaving(s)' = Leaving(s) /\ (IsConnected(s)' <=> IsConnected(s))
  BY <1>1 DEF Leaving, IsConnected
<1>5. Unanswered(s)'
  BY <1>1, <1>4, UnansweredStays DEF Cursors
<1>6. Announced(s)'
  BY <1>3 DEF Announced
<1>7. \A c \in Client : Overheard(s, c)' = Overheard(s, c)
  BY <1>1, OverheardSame
<1> QED  BY <1>1, <1>3, <1>4, <1>5, <1>6, <1>7, SessionCursors

LEMMA QueueCursorUpdateCursors ==
    ASSUME Base, Cursors, NEW s \in Session, QueueCursorUpdate(s)
    PROVE  Cursors'
<1> DEFINE m == [type |-> "CURSOR_UPDATE", position |-> cursor[s]]
<1>1. /\ UNCHANGED <<server, net, toServer, toClient, cursor, remote_cursors,
                     incoming>>
      /\ outgoing' = [outgoing EXCEPT ![s] = Append(@, m)]
      /\ cursor_due' = [cursor_due EXCEPT ![s] = FALSE]
  BY DEF QueueCursorUpdate, channels
<1>2. /\ cursor_due \in [Session -> BOOLEAN]
      /\ cursor[s] \in Typed \cup {Start}
      /\ outgoing \in [Session -> Seq(UpMessage(Typed))]
      /\ outgoing[s] \in Seq(UpMessage(Typed))
      /\ toServer[s] \in Seq(UpMessage(Typed))
  BY DEF Base, Typing, ClientTyping, ChannelTyping
<1>3. /\ outgoing'[s] = Append(outgoing[s], m)
      /\ \A t \in Session \ {s} : /\ cursor_due'[t] = cursor_due[t]
                                  /\ outgoing'[t] = outgoing[t]
  BY <1>1, <1>2
<1>4. m \in UpMessage(Typed)
  BY <1>2, UpFrom
<1>5. m.type = "CURSOR_UPDATE" /\ m.position = cursor[s]
  OBVIOUS
<1> HIDE DEF m
<1>6. /\ \A d : LastSent(Leaving(s)', d) = cursor[s]
      /\ \A type : Holds(Leaving(s)', type) <=>
                      Holds(Leaving(s), type) \/ type = "CURSOR_UPDATE"
  BY <1>1, <1>2, <1>3, <1>4, <1>5, LeavingQueued
<1>7. Holds(Leaving(s)', "SYNC_COMPLETE") => Holds(Leaving(s), "SYNC_COMPLETE")
  BY <1>6
<1>8. Unanswered(s)'
  BY <1>1, <1>7, UnansweredStays DEF Cursors
<1>9. Announced(s)'
  BY <1>1, <1>6 DEF Announced
<1>10. \A c \in Client : Overheard(s, c)' = Overheard(s, c)
  BY <1>1, OverheardSame
<1>11. IsConnected(s)' <=> IsConnected(s)
  BY <1>1 DEF IsConnected
<1> QED  BY <1>1, <1>3, <1>6, <1>8, <1>9, <1>10, <1>11, SessionCursors

LEMMA FlushIncomingCursors ==
    ASSUME Base, Cursors, NEW s \in Session, FlushIncoming(s)
    PROVE  Cursors'
<1> DEFINE q == incoming[s]
           m == [type |-> "SYNC_COMPLETE"]
<1>1. /\ UNCHANGED <<server, net, toServer, toClient, cursor>>
      /\ ~cursor_due[s]
      /\ remote_cursors' = [remote_cursors EXCEPT ![s] =
            [c \in Client |-> LastCursor(q, c, remote_cursors[s][c])]]
      /\ outgoing' = IF HoldHistory(q)
                     THEN [outgoing EXCEPT ![s] = Append(@, m)] ELSE outgoing
      /\ cursor_due' = [cursor_due EXCEPT ![s] = HoldHistory(q)]
      /\ incoming' = [incoming EXCEPT ![s] = <<>>]
  BY DEF FlushIncoming, channels, IsIdle
<1>2. /\ cursor_due \in [Session -> BOOLEAN]
      /\ outgoing \in [Session -> Seq(UpMessage(Typed))]
      /\ outgoing[s] \in Seq(UpMessage(Typed))
      /\ toServer[s] \in Seq(UpMessage(Typed))
      /\ toClient[s] \in Seq(DownMessage(Typed))
      /\ q \in Seq(DownMessage(Typed))
      /\ incoming \in [Session -> Seq(DownMessage(Typed))]
      /\ DOMAIN remote_cursors = Session
  BY DEF Base, Typing, ClientTyping, ChannelTyping
<1>3. /\ \A t \in Session \ {s} : /\ cursor_due'[t] = cursor_due[t]
                                  /\ outgoing'[t] = outgoing[t]
                                  /\ incoming'[t] = incoming[t]
                                  /\ remote_cursors'[t] = remote_cursors[t]
      /\ incoming'[s] = <<>> /\ cursor_due'[s] = HoldHistory(q)
      /\ \A c \in Client :
            remote_cursors'[s][c] = LastCursor(q, c, remote_cursors[s][c])
      /\ outgoing'[s] = IF HoldHistory(q) THEN Append(outgoing[s], m)
                        ELSE outgoing[s]
  <2> HIDE DEF q, m
  <2> QED  BY <1>1, <1>2
<1>5. net[s] \in {"NEW", "CONNECTING", "REGISTERING", "REGISTERED"} => ~HoldHistory(q)
  <2> SUFFICES ASSUME net[s] \in {"NEW", "CONNECTING", "REGISTERING", "REGISTERED"}
               PROVE  ~HoldHistory(q)
    OBVIOUS
  <2>1. q = <<>>
    BY DEF Base, Stages, Stage
  <2>2. ToSet(q) = {}
    BY <2>1, EmptyQueue DEF ToSet
  <2> QED  BY <2>2 DEF HoldHistory
<1>6. ASSUME NEW c \in Client
      PROVE  Overheard(s, c)' = Overheard(s, c)
  <2> DEFINE r == toClient[s]
             d == remote_cursors[s][c]
  <2>1. <<>> \o r = r
    BY <1>2
  <2>2. Arriving(s)' = <<>> \o r /\ Arriving(s) = q \o r
    BY <1>1, <1>3 DEF Arriving
  <2>3. Overheard(s, c)' = LastCursor(r, c, LastCursor(q, c, d))
    BY <1>3, <2>1, <2>2 DEF Overheard
  <2>4. Overheard(s, c) = LastCursor(q \o r, c, d)
    BY <2>2 DEF Overheard
  <2> HIDE DEF q, d
  <2>5. LastCursor(q \o r, c, d) = LastCursor(r, c, LastCursor(q, c, d))
    BY <1>2, LastCursorJoined
  <2> QED  BY <2>3, <2>4, <2>5
<1> HIDE DEF q, m
<1>7. CASE HoldHistory(q)
  <2>1. Unanswered(s)'
    BY <1>1, <1>5, <1>7 DEF Unanswered
  <2>2. Announced(s)'
    BY <1>3, <1>7 DEF Announced
  <2>3. IsConnected(s)' <=> IsConnected(s)
    BY <1>1 DEF IsConnected
  <2> QED  BY <1>1, <1>3, <1>6, <1>7, <2>1, <2>2, <2>3, SessionCursors
<1>8. CASE ~HoldHistory(q)
  <2>1. Leaving(s)' = Leaving(s) /\ (IsConnected(s)' <=> IsConnected(s))
    BY <1>1, <1>3, <1>8 DEF Leaving, IsConnected
  <2>2. cursor_due'[s] = cursor_due[s]
    BY <1>1, <1>2, <1>3, <1>8 DEF HoldHistory
  <2>3. Unanswered(s)'
    BY <1>1, <2>1, UnansweredStays DEF Cursors
  <2>4. Announced(s)'
    BY <1>1, <2>1, <2>2, AnnouncedStays DEF Cursors, server
  <2> QED  BY <1>1, <1>3, <1>6, <2>1, <2>2, <2>3, <2>4, SessionCursors
<1> QED  BY <1>7, <1>8

\* The server.  A live session has its client's entries to itself.
LEMMA LiveOwner ==
    ASSUME Base, NEW s \in Session, NEW t \in Session, s # t,
           Owns(s), IsRegistered(t)
    PROVE  ClientOf[t] # ClientOf[s]
BY DEF Base, Registry, Owns

\* A session that is not live after a handler of the server.
LEMMA NotLiveCursors ==
    ASSUME Base, Cursors, NEW s \in Session,
           UNCHANGED <<net, ui, queues>>, ~IsLive(s)',
           \A t \in Session \ {s} :
              /\ conn'[t] = conn[t] /\ current_document'[t] = current_document[t]
              /\ toServer'[t] = toServer[t] /\ toClient'[t] = toClient[t]
              /\ IsLive(t) => presence'[ClientOf[t]] = presence[ClientOf[t]],
           \A type : Holds(Leaving(s)', type) => Holds(Leaving(s), type),
           Announced(s)'
    PROVE  Cursors'
<1>1. UNCHANGED <<cursor, cursor_due, remote_cursors, incoming, outgoing>>
  BY DEF ui, queues
<1>2. Unanswered(s)'
  BY UnansweredStays DEF Cursors
<1>3. \A t, u \in Session \ {s} : Overheard(t, ClientOf[u])' = Overheard(t, ClientOf[u])
  BY <1>1, OverheardSame
<1>4. \A t \in Session \ {s} : Informed(s, t)' /\ Informed(t, s)'
  BY DEF Informed, InTouch
<1> QED  BY <1>1, <1>2, <1>3, <1>4, CursorsKept

\* What such a session has announced when the server reads another message.
LEMMA ReadAnnounced ==
    ASSUME Base, Cursors, NEW s \in Session, toServer[s] # <<>>,
           Head(toServer[s]).type # "CURSOR_UPDATE",
           toServer'[s] = Tail(toServer[s]), UNCHANGED <<net, ui, queues>>,
           IsOpen(s), ~IsLive(s), ~IsLive(s)'
    PROVE  Announced(s)'
<1>1. /\ UNCHANGED <<cursor, cursor_due, outgoing>>
      /\ IsConnected(s)' <=> IsConnected(s)
  BY DEF ui, queues, IsConnected
<1>2. /\ \A d : LastSent(Leaving(s), d) = LastSent(Leaving(s)', d)
      /\ \A type : Holds(Leaving(s)', type) => Holds(Leaving(s), type)
      /\ Holds(Leaving(s), "CURSOR_UPDATE") => Holds(Leaving(s)', "CURSOR_UPDATE")
  BY <1>1, LeavingRead DEF Base
<1>3. Announced(s)
  BY DEF Cursors
<1> QED  BY <1>1, <1>2, <1>3 DEF Announced

LEMMA HelloCursors ==
    ASSUME Base, Cursors, NEW s \in Session, toServer[s] # <<>>,
           Head(toServer[s]).type = "HELLO", IsOpen(s), ~IsRegistered(s),
           ClientOf[s] \notin DOMAIN clients, Hello(s),
           UNCHANGED <<net, ui, queues>>
    PROVE  Cursors'
<1>1. /\ Read(s)
      /\ conn' = [conn EXCEPT ![s] = "REGISTERED"]
      /\ presence' = Put(presence, ClientOf[s], Start)
      /\ SendTo(s, <<[type |-> "HELLO_ACK"]>>)
      /\ UNCHANGED current_document
  BY DEF Hello
<1>2. \A t \in Session : conn'[t] = IF t = s THEN "REGISTERED" ELSE conn[t]
  BY <1>1 DEF Base, Typing, ServerTyping
<1>3. \A t \in Session : toServer'[t] = IF t = s THEN Tail(toServer[t]) ELSE toServer[t]
  BY <1>1, ReadTyped DEF Base
<1>4. \A t \in Session \ {s} : toClient'[t] = toClient[t]
  <2>1. <<[type |-> "HELLO_ACK"]>> \in Seq(DownMessage(Typed))
    BY DownFrom, OneMessage DEF Ack
  <2> QED  BY <1>1, <2>1, SentTo DEF Base, Typing
<1>5. ASSUME NEW t \in Session \ {s}, IsLive(t)
      PROVE  presence'[ClientOf[t]] = presence[ClientOf[t]]
  <2>1. ClientOf[t] \in DOMAIN clients /\ DOMAIN clients = DOMAIN presence
    BY <1>5 DEF Base, Registry, IsRegistered, IsLive, Owns
  <2> QED  BY <1>1, <2>1 DEF Put
<1>6. ~IsLive(s) /\ ~IsLive(s)'
  BY <1>2 DEF IsLive, IsRegistered
<1>7. Announced(s)'
  BY <1>3, <1>6, ReadAnnounced
<1>8. \A type : Holds(Leaving(s)', type) => Holds(Leaving(s), type)
  BY <1>3, LeavingRead DEF Base, queues
<1> QED  BY <1>1, <1>2, <1>3, <1>4, <1>5, <1>6, <1>7, <1>8, NotLiveCursors

LEMMA OpenDocumentCursors ==
    ASSUME Base, Cursors, NEW s \in Session, NEW d, toServer[s] # <<>>,
           Head(toServer[s]).type = "OPEN_DOCUMENT", IsOpen(s), IsRegistered(s),
           ~HasDocument(s), OpenDocument(s, d), UNCHANGED <<net, ui, queues>>
    PROVE  Cursors'
<1>1. /\ Read(s)
      /\ current_document' = [current_document EXCEPT ![s] = d]
      /\ conn' = [conn EXCEPT ![s] = "SYNCING"]
      /\ SendTo(s, <<[type |-> "SYNC_RESPONSE", ops |-> Stored(d)]>>)
      /\ UNCHANGED presence
  BY DEF OpenDocument
<1>2. \A t \in Session :
         /\ conn'[t] = IF t = s THEN "SYNCING" ELSE conn[t]
         /\ current_document'[t] = IF t = s THEN d ELSE current_document[t]
  BY <1>1 DEF Base, Typing, ServerTyping
<1>3. \A t \in Session : toServer'[t] = IF t = s THEN Tail(toServer[t]) ELSE toServer[t]
  BY <1>1, ReadTyped DEF Base
<1>4. \A t \in Session \ {s} : toClient'[t] = toClient[t]
  <2>1. [type |-> "SYNC_RESPONSE", ops |-> Stored(d)] \in DownMessage(Typed)
    BY StoredRows, DownFrom DEF Base, Typing
  <2>2. <<[type |-> "SYNC_RESPONSE", ops |-> Stored(d)]>> \in Seq(DownMessage(Typed))
    BY <2>1, OneMessage
  <2> QED  BY <1>1, <2>2, SentTo DEF Base, Typing
<1>5. ~IsLive(s) /\ ~IsLive(s)'
  <2>1. conn[s] \in {"REGISTERED"}
    <3>1. IsSyncing(s) \/ IsLive(s) => current_document[s] \in DOMAIN rows
      BY DEF Base, Registry
    <3>2. DOMAIN rows \subseteq DocumentID
      BY DEF Base, Typing, ServerTyping
    <3> QED  BY <3>1, <3>2, NoneAssumption
             DEF IsRegistered, HasDocument, IsSyncing, IsLive
  <2> QED  BY <1>2, <2>1 DEF IsLive
<1>6. Announced(s)'
  BY <1>3, <1>5, ReadAnnounced
<1>7. \A type : Holds(Leaving(s)', type) => Holds(Leaving(s), type)
  BY <1>3, LeavingRead DEF Base, queues
<1> QED  BY <1>1, <1>2, <1>3, <1>4, <1>5, <1>6, <1>7, NotLiveCursors

LEMMA DisconnectCursors ==
    ASSUME Base, Cursors, NEW s \in Session, Disconnect(s),
           UNCHANGED <<net, ui, queues>>
    PROVE  Cursors'
<1>1. /\ \A t \in Session : conn'[t] = IF t = s THEN "DISCONNECTED" ELSE conn[t]
      /\ DOMAIN clients' = DOMAIN clients \ {x \in {ClientOf[s]} : Owns(s)}
      /\ DOMAIN presence' = DOMAIN clients'
      /\ presence' = [x \in DOMAIN presence' |-> presence[x]]
      /\ UNCHANGED current_document
      /\ \A t \in Session : toServer'[t] = IF t = s THEN <<>> ELSE toServer[t]
      /\ \A t \in Session \ {s} : toClient'[t] = toClient[t]
  BY Disconnected DEF Base
<1>2. ASSUME NEW t \in Session \ {s}, IsLive(t)
      PROVE  presence'[ClientOf[t]] = presence[ClientOf[t]]
  <2>1. IsRegistered(t) /\ ClientOf[t] \in DOMAIN clients
    BY <1>2 DEF Base, Registry, IsRegistered, IsLive, Owns
  <2>2. Owns(s) => ClientOf[t] # ClientOf[s]
    BY <2>1, LiveOwner
  <2> QED  BY <1>1, <2>1, <2>2
<1>3. ~IsLive(s)' /\ ~IsOpen(s)'
  BY <1>1 DEF IsLive, IsOpen
<1>4. Announced(s)'
  BY <1>3 DEF Announced
<1>5. ASSUME NEW type, Holds(Leaving(s)', type) PROVE Holds(Leaving(s), type)
  <2> DEFINE p == toServer[s]
             q == outgoing[s]
  <2>1. p \in Seq(UpMessage(Typed)) /\ q \in Seq(UpMessage(Typed))
    BY Queues DEF Base
  <2>2. Leaving(s) = p \o q /\ Leaving(s)' = <<>> \o q
    BY <1>1 DEF Leaving, queues
  <2> HIDE DEF p, q
  <2>3. <<>> \o q = q
    BY <2>1
  <2>4. Holds(q, type)
    BY <1>5, <2>2, <2>3
  <2> QED  BY <2>1, <2>2, <2>4, HoldsJoined
<1> QED  BY <1>1, <1>2, <1>3, <1>4, <1>5, NotLiveCursors

\* A live session's operation changes nobody's cursor.
LEMMA OperationCursors ==
    ASSUME Base, Cursors, NEW s \in Session, NEW op \in Typed, toServer[s] # <<>>,
           Head(toServer[s]).type = "OPERATION", IsLive(s), Operation(s, op),
           UNCHANGED <<net, ui, queues>>
    PROVE  Cursors'
<1> DEFINE m == [type |-> "OPERATION", ops |-> {op}]
<1>1. /\ Read(s) /\ Send(ToLivePeers(s, m))
      /\ UNCHANGED <<conn, current_document, presence>>
      /\ UNCHANGED <<net, cursor, cursor_due, remote_cursors, incoming, outgoing>>
  BY DEF Operation, ui, queues
<1>2. m \in DownMessage(Typed) /\ m.type # "CURSOR_UPDATE"
  BY DownFrom
<1> HIDE DEF m
<1>3. \A t \in Session : toServer'[t] = IF t = s THEN Tail(toServer[t]) ELSE toServer[t]
  BY <1>1, ReadTyped DEF Base
<1>4. \A t \in Session : toClient'[t] \in {toClient[t], Append(toClient[t], m)}
  BY <1>1, <1>2, Routed DEF Base
<1>5. \A t \in Session : \A c : Overheard(t, c)' = Overheard(t, c)
  BY <1>1, <1>2, <1>4, OverheardSame, OverheardMore DEF Base
<1>6. /\ \A d : LastSent(Leaving(s), d) = LastSent(Leaving(s)', d)
      /\ \A type : Holds(Leaving(s)', type) => Holds(Leaving(s), type)
      /\ Holds(Leaving(s), "CURSOR_UPDATE") => Holds(Leaving(s)', "CURSOR_UPDATE")
  BY <1>1, <1>3, LeavingRead DEF Base
<1>7. Unanswered(s)'
  BY <1>1, <1>6, UnansweredStays DEF Cursors
<1>8. \A t \in Session : /\ IsLive(t)' <=> IsLive(t)
                         /\ IsOpen(t)' <=> IsOpen(t)
                         /\ IsConnected(t)' <=> IsConnected(t)
  BY <1>1 DEF IsLive, IsOpen, IsConnected
<1>9. Announced(s)'
  <2>1. Announced(s)
    BY DEF Cursors
  <2> QED  BY <1>1, <1>6, <1>8, <2>1 DEF Announced
<1>10. ASSUME NEW t \in Session \ {s}
       PROVE  Informed(s, t)' /\ Informed(t, s)'
  <2>1. /\ InTouch(s, t)' => InTouch(s, t)
        /\ InTouch(t, s)' => InTouch(t, s)
    BY <1>1, <1>8 DEF InTouch
  <2>2. Leaving(t)' = Leaving(t)
    BY <1>1, <1>3 DEF Leaving
  <2> QED  BY <1>1, <1>5, <1>6, <2>1, <2>2, InformedStays DEF Cursors
<1> QED  BY <1>1, <1>3, <1>5, <1>7, <1>9, <1>10, CursorsKept

LEMMA LiveHasDocument ==
    ASSUME Base, NEW t \in Session, IsLive(t)
    PROVE  /\ HasDocument(t) /\ Owns(t) /\ IsRegistered(t)
           /\ ClientOf[t] \in DOMAIN clients /\ clients[ClientOf[t]] = t
<1>1. current_document[t] \in DOMAIN rows /\ DOMAIN rows \subseteq DocumentID
  BY DEF Base, Registry, Typing, ServerTyping
<1>2. IsRegistered(t)
  BY DEF IsRegistered, IsLive
<1> QED  BY <1>1, <1>2, NoneAssumption DEF HasDocument, Base, Registry, Owns

LEMMA CursorUpdateCursors ==
    ASSUME Base, Cursors, NEW s \in Session, toServer[s] # <<>>,
           Head(toServer[s]).type = "CURSOR_UPDATE",
           NEW position \in Typed \cup {Start}, Head(toServer[s]).position = position,
           IsLive(s), CursorUpdate(s, position), UNCHANGED <<net, ui, queues>>
    PROVE  Cursors'
<1> DEFINE c == ClientOf[s]
           m == [type |-> "CURSOR_UPDATE", sender |-> c, position |-> position]
<1>1. /\ Read(s) /\ Send(ToLivePeers(s, m))
      /\ presence' = [presence EXCEPT ![c] = position]
      /\ UNCHANGED <<conn, current_document>>
      /\ UNCHANGED <<net, cursor, cursor_due, remote_cursors, incoming, outgoing>>
  BY DEF CursorUpdate, ui, queues
<1>2. /\ m \in DownMessage(Typed)
      /\ m.type = "CURSOR_UPDATE" /\ m.sender = c /\ m.position = position
  BY DownFrom, SessionAssumption
<1> HIDE DEF m
<1>3. \A t \in Session : toServer'[t] = IF t = s THEN Tail(toServer[t]) ELSE toServer[t]
  BY <1>1, ReadTyped DEF Base
<1>4. \A t \in Session :
         toClient'[t] = IF net[t] # "DISCONNECTED" /\ IsLive(t)
                              /\ \E p \in Peers(s) : clients[p] = t
                        THEN Append(toClient[t], m) ELSE toClient[t]
  BY <1>1, <1>2, Routed DEF Base
<1>5. \A t \in Session : \A d :
         d # c => Overheard(t, d)' = Overheard(t, d)
  <2> SUFFICES ASSUME NEW t \in Session, NEW d, d # c
               PROVE  Overheard(t, d)' = Overheard(t, d)
    OBVIOUS
  <2>1. CASE toClient'[t] = toClient[t]
    BY <1>1, <2>1, OverheardSame
  <2>2. CASE toClient'[t] = Append(toClient[t], m)
    BY <1>1, <1>2, <2>2, OverheardMore DEF Base
  <2> QED  BY <1>4, <2>1, <2>2
<1>6. ASSUME NEW t \in Session \ {s}, IsLive(t)
      PROVE  ClientOf[t] # c /\ presence'[ClientOf[t]] = presence[ClientOf[t]]
  <2>1. ClientOf[t] # c
    BY <1>6, LiveHasDocument, LiveOwner
  <2>2. presence = [x \in DOMAIN presence |-> presence[x]]
        /\ ClientOf[t] \in DOMAIN presence
    BY <1>6, LiveHasDocument DEF Base, Typing, ServerTyping, Registry
  <2> QED  BY <1>1, <2>1, <2>2
<1>7. presence'[c] = position
  <2>1. presence = [x \in DOMAIN presence |-> presence[x]] /\ c \in DOMAIN presence
    BY LiveHasDocument DEF Base, Typing, ServerTyping, Registry
  <2> QED  BY <1>1, <2>1
<1>8. /\ \A d : LastSent(Leaving(s), d) = LastSent(Leaving(s)', position)
      /\ \A type : Holds(Leaving(s)', type) => Holds(Leaving(s), type)
  BY <1>1, <1>3, LeavingRead DEF Base
<1>9. \A t \in Session : /\ IsLive(t)' <=> IsLive(t)
                         /\ IsOpen(t)' <=> IsOpen(t)
                         /\ IsConnected(t)' <=> IsConnected(t)
  BY <1>1 DEF IsLive, IsOpen, IsConnected
<1>10. Unanswered(s)'
  BY <1>1, <1>8, UnansweredStays DEF Cursors
<1>11. Announced(s)'
  <2>1. Announced(s)
    BY DEF Cursors
  <2> QED  BY <1>1, <1>7, <1>8, <1>9, <2>1 DEF Announced
<1>12. \A t, u \in Session \ {s} : InTouch(t, u) =>
          Overheard(t, ClientOf[u])' = Overheard(t, ClientOf[u])
  BY <1>5, <1>6 DEF InTouch
<1>13. ASSUME NEW t \in Session \ {s}
       PROVE  Informed(s, t)' /\ Informed(t, s)'
  <2>1. /\ InTouch(s, t)' => InTouch(s, t)
        /\ InTouch(t, s)' => InTouch(t, s)
    BY <1>1, <1>9 DEF InTouch
  <2>2. Leaving(t)' = Leaving(t)
    BY <1>1, <1>3 DEF Leaving
  <2>3. InTouch(s, t) => Overheard(s, ClientOf[t])' = Overheard(s, ClientOf[t])
    BY <1>5, <1>6 DEF InTouch
  <2>4. Informed(s, t)'
    BY <1>1, <1>6, <2>1, <2>2, <2>3, InformedStays DEF Cursors, InTouch
  <2>5. InTouch(t, s) => Overheard(t, c)' = position
    <3> SUFFICES ASSUME InTouch(t, s) PROVE Overheard(t, c)' = position
      OBVIOUS
    <3>1. /\ IsLive(t) /\ net[t] # "DISCONNECTED"
          /\ current_document[t] = current_document[s]
      BY DEF InTouch, IsConnected
    <3>2. ClientOf[t] \in Peers(s) /\ clients[ClientOf[t]] = t
      BY <3>1, LiveHasDocument DEF Peers
    <3>3. toClient'[t] = Append(toClient[t], m)
      BY <1>4, <3>1, <3>2
    <3> QED  BY <1>1, <1>2, <3>3, OverheardMore DEF Base
  <2>6. Informed(t, s)'
    BY <1>7, <2>1, <2>5 DEF Informed
  <2> QED  BY <2>4, <2>6
<1> QED  BY <1>1, <1>3, <1>6, <1>10, <1>11, <1>12, <1>13, CursorsKept

\* The last cursor of a client in q comes from one of its updates there.
LEMMA SomeCursor ==
    ASSUME NEW q \in Seq(DownMessage(Typed)), NEW c, NEW default,
           NEW k \in DOMAIN q, q[k].type = "CURSOR_UPDATE", q[k].sender = c
    PROVE  \E i \in DOMAIN q : /\ q[i].type = "CURSOR_UPDATE" /\ q[i].sender = c
                               /\ LastCursor(q, c, default) = q[i].position
<1> DEFINE P == {i \in DOMAIN q : /\ q[i].type = "CURSOR_UPDATE"
                                  /\ q[i].sender = c}
<1>1. P \in SUBSET (1..Len(q)) /\ Len(q) \in Nat /\ P # {}
  OBVIOUS
<1>2. LastCursor(q, c, default) =
         IF P = {} THEN default ELSE q[Max(P)].position
  BY DEF LastCursor, PositionAt
<1>3. \A i \in P : i \in DOMAIN q /\ q[i].type = "CURSOR_UPDATE" /\ q[i].sender = c
  OBVIOUS
<1> HIDE DEF P
<1>4. Max(P) \in P
  BY <1>1, LastPlace
<1> QED  BY <1>1, <1>2, <1>3, <1>4

\* A client that goes live is told where the cursors of the others are.
LEMMA PresenceIsTold ==
    ASSUME Base, NEW s \in Session, NEW t \in Session, s # t,
           IsSyncing(s), IsLive(t), current_document[s] = current_document[t],
           NEW default
    PROVE  LastCursor(CatchUp(s), ClientOf[t], default) = presence[ClientOf[t]]
<1> DEFINE c == ClientOf[t]
           p == WaitingFor(s)
           q == PresenceFor(s)
<1>1. /\ p \in Seq(DownMessage(Typed)) /\ q \in Seq(DownMessage(Typed))
      /\ \A i \in DOMAIN q : \E x \in DOMAIN clients \ {ClientOf[s]} :
            q[i] = [type |-> "CURSOR_UPDATE", sender |-> x, position |-> presence[x]]
      /\ \A x \in DOMAIN clients \ {ClientOf[s]} :
            /\ IsLive(clients[x]) /\ HasDocument(clients[x])
            /\ current_document[clients[x]] = current_document[s]
            => \E i \in DOMAIN q :
                  q[i] = [type |-> "CURSOR_UPDATE", sender |-> x,
                          position |-> presence[x]]
  BY CatchUpMessages DEF Base
<1>2. c \in DOMAIN clients \ {ClientOf[s]} /\ clients[c] = t /\ HasDocument(t)
  <2>1. Owns(s)
    BY DEF Base, Registry, IsRegistered, IsSyncing
  <2> QED  BY <2>1, LiveHasDocument, LiveOwner
<1> HIDE DEF c, p, q
<1>3. PICK i \in DOMAIN q :
         q[i] = [type |-> "CURSOR_UPDATE", sender |-> c, position |-> presence[c]]
  BY <1>1, <1>2
<1>4. q[i].type = "CURSOR_UPDATE" /\ q[i].sender = c
  BY <1>3
<1>5. ASSUME NEW j \in DOMAIN q, q[j].sender = c
      PROVE  q[j].position = presence[c]
  <2>1. PICK x \in DOMAIN clients \ {ClientOf[s]} :
           q[j] = [type |-> "CURSOR_UPDATE", sender |-> x, position |-> presence[x]]
    BY <1>1
  <2>2. q[j].sender = x /\ q[j].position = presence[x]
    BY <2>1
  <2> QED  BY <1>5, <2>2
<1>6. \A d : LastCursor(q, c, d) = presence[c]
  <2> SUFFICES ASSUME NEW d PROVE LastCursor(q, c, d) = presence[c]
    OBVIOUS
  <2>1. q \in Seq(DownMessage(Typed))
    BY <1>1
  <2>2. PICK j \in DOMAIN q : /\ q[j].type = "CURSOR_UPDATE" /\ q[j].sender = c
                              /\ LastCursor(q, c, d) = q[j].position
    BY <1>4, <2>1, SomeCursor
  <2> QED  BY <1>5, <2>2
<1>7. LastCursor(p \o q, c, default) = LastCursor(q, c, LastCursor(p, c, default))
  BY <1>1, LastCursorJoined
<1>8. CatchUp(s) = p \o q
  BY DEF CatchUp, p, q
<1> QED  BY <1>6, <1>7, <1>8 DEF c

LEMMA SyncCompleteCursors ==
    ASSUME Base, Cursors, NEW s \in Session, toServer[s] # <<>>,
           Head(toServer[s]).type = "SYNC_COMPLETE", IsSyncing(s), SyncComplete(s),
           UNCHANGED <<net, ui, queues>>
    PROVE  Cursors'
<1>1. /\ Read(s) /\ SendTo(s, CatchUp(s))
      /\ conn' = [conn EXCEPT ![s] = "LIVE"]
      /\ UNCHANGED <<current_document, presence>>
      /\ UNCHANGED <<net, cursor, cursor_due, remote_cursors, incoming, outgoing>>
  BY DEF SyncComplete, ui, queues
<1>2. \A t \in Session : conn'[t] = IF t = s THEN "LIVE" ELSE conn[t]
  BY <1>1 DEF Base, Typing, ServerTyping
<1>3. \A t \in Session : toServer'[t] = IF t = s THEN Tail(toServer[t]) ELSE toServer[t]
  BY <1>1, ReadTyped DEF Base
<1>4. CatchUp(s) \in Seq(DownMessage(Typed))
  BY CatchUpMessages, Joined DEF Base, CatchUp
<1>5. /\ \A t \in Session \ {s} : toClient'[t] = toClient[t]
      /\ net[s] # "DISCONNECTED" => toClient'[s] = toClient[s] \o CatchUp(s)
  BY <1>1, <1>4, SentTo DEF Base, Typing
<1>6. /\ \A d : LastSent(Leaving(s), d) = LastSent(Leaving(s)', d)
      /\ \A type : Holds(Leaving(s)', type) => Holds(Leaving(s), type)
      /\ Holds(Leaving(s), "CURSOR_UPDATE") => Holds(Leaving(s)', "CURSOR_UPDATE")
      /\ Holds(Leaving(s), "SYNC_COMPLETE")
  BY <1>1, <1>3, LeavingRead DEF Base
<1>7. Unanswered(s)'
  BY <1>1, <1>6, UnansweredStays DEF Cursors
<1>8. IsConnected(s)' =>
         \/ cursor_due[s]
         \/ /\ Holds(Leaving(s)', "CURSOR_UPDATE")
            /\ cursor[s] = LastSent(Leaving(s)', Start)
  <2>1. Announced(s) /\ ~IsLive(s) /\ IsOpen(s)
    BY DEF Cursors, IsSyncing, IsLive, IsOpen
  <2>2. IsConnected(s)' <=> IsConnected(s)
    BY <1>1 DEF IsConnected
  <2> QED  BY <1>6, <2>1, <2>2 DEF Announced
<1>9. Announced(s)'
  <2>1. Holds(Leaving(s)', "CURSOR_UPDATE") =>
           \A d : LastSent(Leaving(s)', Start) = LastSent(Leaving(s)', d)
    BY SomeSent
  <2>2. IsLive(s)'
    BY <1>2 DEF IsLive
  <2> QED  BY <1>1, <1>8, <2>1, <2>2 DEF Announced
<1>10. \A t, u \in Session \ {s} : Overheard(t, ClientOf[u])' = Overheard(t, ClientOf[u])
  BY <1>1, <1>5, OverheardSame
<1>11. ASSUME NEW t \in Session \ {s}
       PROVE  Informed(s, t)'
  <2> SUFFICES ASSUME InTouch(s, t)'
               PROVE  Overheard(s, ClientOf[t])' = presence[ClientOf[t]]
    BY <1>1 DEF Informed
  <2> DEFINE c == ClientOf[t]
             x == incoming[s]
             y == toClient[s]
             z == CatchUp(s)
             w == y \o z
             d == remote_cursors[s][c]
  <2>1. /\ IsLive(t) /\ net[s] # "DISCONNECTED"
        /\ current_document[s] = current_document[t]
    BY <1>1, <1>2 DEF InTouch, IsLive, IsConnected
  <2>2. \A e : LastCursor(z, c, e) = presence[c]
    BY <2>1, PresenceIsTold
  <2>3. x \in Seq(DownMessage(Typed)) /\ y \in Seq(DownMessage(Typed))
    BY Queues DEF Base
  <2>4. Arriving(s)' = x \o w
    BY <1>1, <1>5, <2>1 DEF Arriving
  <2>5. Overheard(s, c)' = LastCursor(x \o w, c, d)
    BY <1>1, <2>4 DEF Overheard
  <2> HIDE DEF c, x, y, z, w, d
  <2>6. z \in Seq(DownMessage(Typed)) /\ w \in Seq(DownMessage(Typed))
    BY <1>4, <2>3, Joined DEF z, w
  <2>7. LastCursor(x \o w, c, d) = LastCursor(w, c, LastCursor(x, c, d))
    BY <2>3, <2>6, LastCursorJoined
  <2>8. \A e : LastCursor(w, c, e) = LastCursor(z, c, LastCursor(y, c, e))
    BY <2>3, <2>6, LastCursorJoined DEF w
  <2>9. Overheard(s, c)' = presence[c]
    BY <2>2, <2>5, <2>7, <2>8
  <2> QED  BY <2>9 DEF c
<1>12. \A t \in Session \ {s} : Informed(t, s)'
  BY <1>1, <1>8 DEF Informed, InTouch
<1> QED  BY <1>1, <1>2, <1>3, <1>7, <1>9, <1>10, <1>11, <1>12, CursorsKept

LEMMA CursorsInit ==
    ASSUME Init
    PROVE  Cursors
<1>1. /\ \A s \in Session : conn[s] = "NONE"
      /\ \A s \in Session : Leaving(s) = <<>>
  BY EmptyQueue DEF Init, Leaving
<1>2. \A s \in Session : ~IsLive(s) /\ ~IsOpen(s)
  BY <1>1 DEF IsLive, IsOpen
<1>3. \A s \in Session : Unanswered(s) /\ Announced(s)
  BY <1>1, <1>2 DEF Unanswered, Announced, Holds
<1>4. \A s, t \in Session : Informed(s, t)
  BY <1>2 DEF Informed, InTouch
<1> QED  BY <1>3, <1>4 DEF Cursors

LEMMA ReceiveCursors ==
    ASSUME Base, Cursors, NEW s \in Session, ReceiveMessage(s)
    PROVE  Cursors'
<1> DEFINE m == Head(toServer[s])
<1>1. Typing /\ ChannelTyping
  BY DEF Base, Typing
<1>2. /\ IsOpen(s) /\ toServer[s] # <<>> /\ m \in UpMessage(Typed)
      /\ UNCHANGED <<net, ui, queues, history>>
      /\ \/ /\ m.type = "HELLO" /\ Hello(s)
            /\ ~IsRegistered(s) /\ ClientOf[s] \notin DOMAIN clients
         \/ /\ m.type = "OPEN_DOCUMENT" /\ OpenDocument(s, m.document)
            /\ IsRegistered(s) /\ ~HasDocument(s)
         \/ /\ m.type = "OPERATION" /\ Operation(s, m.op)
            /\ IsLive(s) /\ HasDocument(s)
         \/ /\ m.type = "SYNC_COMPLETE" /\ SyncComplete(s)
            /\ IsSyncing(s)
         \/ /\ m.type = "CURSOR_UPDATE" /\ CursorUpdate(s, m.position)
            /\ IsLive(s)
         \/ Disconnect(s)
  BY <1>1, ReceiveCases
<1>3. /\ m.type = "OPERATION" => m.op \in Typed
      /\ m.type = "CURSOR_UPDATE" => m.position \in Typed \cup {Start}
  BY <1>2, UpMessages
<1>4. UNCHANGED <<net, ui, queues>>
  BY <1>2
<1>5. m = Head(toServer[s])
  OBVIOUS
<1> HIDE DEF m
<1>6. CASE /\ m.type = "HELLO" /\ Hello(s)
           /\ ~IsRegistered(s) /\ ClientOf[s] \notin DOMAIN clients
  BY <1>2, <1>4, <1>5, <1>6, HelloCursors
<1>7. CASE /\ m.type = "OPEN_DOCUMENT" /\ OpenDocument(s, m.document)
           /\ IsRegistered(s) /\ ~HasDocument(s)
  BY <1>2, <1>4, <1>5, <1>7, OpenDocumentCursors
<1>8. CASE m.type = "OPERATION" /\ Operation(s, m.op) /\ IsLive(s)
  BY <1>2, <1>3, <1>4, <1>5, <1>8, OperationCursors
<1>9. CASE m.type = "SYNC_COMPLETE" /\ SyncComplete(s) /\ IsSyncing(s)
  BY <1>2, <1>4, <1>5, <1>9, SyncCompleteCursors
<1>10. CASE m.type = "CURSOR_UPDATE" /\ CursorUpdate(s, m.position) /\ IsLive(s)
  BY <1>2, <1>3, <1>4, <1>5, <1>10, CursorUpdateCursors
<1>11. CASE Disconnect(s)
  BY <1>4, <1>11, DisconnectCursors
<1> QED  BY <1>2, <1>6, <1>7, <1>8, <1>9, <1>10, <1>11

LEMMA CursorsStep ==
    ASSUME Base, Base', Cursors, [Next]_vars
    PROVE  Cursors'
<1>1. CASE UNCHANGED vars
  BY <1>1
  DEF Cursors, Unanswered, Announced, Informed, InTouch, Holds, Leaving, Overheard,
      Arriving, IsConnected, IsOpen, IsLive, vars, server, channels, ui, queues
<1>2. ASSUME NEW s \in Session, LoopStep(s) \/ OutsideStep(s)
      PROVE  Cursors'
  <2>1. CASE ReceiveMessage(s)
    BY <2>1, ReceiveCursors
  <2>2. CASE ServerReadsEnd(s) \/ ServerLosesConnection(s)
    <3>1. Disconnect(s) /\ UNCHANGED <<net, ui, queues>>
      BY <2>2 DEF ServerReadsEnd, ServerLosesConnection
    <3> QED  BY <3>1, DisconnectCursors
  <2>3. CASE Connected(s) \/ SendOpenDocument(s)
    BY <2>3, ConnectedCursors, SendOpenDocumentCursors
  <2>4. CASE HandleMessage(s) \/ ProcessOutgoing(s)
    BY <2>4, HandleMessageCursors, ProcessOutgoingCursors
  <2>5. CASE ClientReadsEnd(s) \/ ClientLosesConnection(s)
    <3>1. /\ Close(s)
          /\ UNCHANGED <<server, cursor, cursor_due, remote_cursors, incoming,
                         outgoing>>
      BY <2>5 DEF ClientReadsEnd, ClientLosesConnection, ui, queues
    <3> QED  BY <3>1, ClosedCursors
  <2>6. CASE TypeKey(s) \/ MoveCursor(s)
    BY <2>6, TypeKeyCursors, MoveCursorCursors
  <2>7. CASE QueueCursorUpdate(s) \/ FlushIncoming(s)
    BY <2>7, QueueCursorUpdateCursors, FlushIncomingCursors
  <2>8. CASE Connect(s) \/ ConnectFails(s)
    BY <2>8, ConnectCursors
  <2> QED  BY <1>2, <2>1, <2>2, <2>3, <2>4, <2>5, <2>6, <2>7, <2>8
           DEF LoopStep, OutsideStep
<1> QED  BY <1>1, <1>2 DEF Next

LEMMA CursorsHold == Spec => []Cursors
<1>1. Init => Cursors
  BY CursorsInit
<1>2. Base /\ Base' /\ Cursors /\ [Next]_vars => Cursors'
  BY CursorsStep
<1> QED  BY <1>1, <1>2, BaseHolds, PTL DEF Spec

LEMMA CursorsImplyFollow == Cursors => CursorsFollow
<1> SUFFICES ASSUME Cursors, NEW s \in Session, NEW t \in Session, InTouch(s, t)
             PROVE  \/ cursor_due[t]
                    \/ cursor[t] = LastSent(Leaving(t), Overheard(s, ClientOf[t]))
  BY DEF CursorsFollow, InTouch, Leaving, LastSent, Overheard
<1>1. \/ cursor_due[t]
      \/ cursor[t] = LastSent(Leaving(t), presence[ClientOf[t]])
  BY DEF Cursors, Announced, InTouch, IsLive, IsOpen
<1>2. \/ Overheard(s, ClientOf[t]) = presence[ClientOf[t]]
      \/ cursor_due[t]
      \/ Holds(Leaving(t), "CURSOR_UPDATE")
  BY DEF Cursors, Informed
<1>3. Holds(Leaving(t), "CURSOR_UPDATE") =>
         LastSent(Leaving(t), Overheard(s, ClientOf[t])) =
            LastSent(Leaving(t), presence[ClientOf[t]])
  BY SomeSent
<1> QED  BY <1>1, <1>2, <1>3

(***************************************************************************)
(* Cursors reach the others: whatever clients connect, leave, lose their   *)
(* connection and send, of two live sessions of one document each shows,   *)
(* once what is on its way has arrived, where the other put its cursor.    *)
(***************************************************************************)
THEOREM CursorsAreFollowed == Spec => []CursorsFollow
BY CursorsHold, CursorsImplyFollow, PTL

-----------------------------------------------------------------------------
(***************************************************************************)
(* That the sessions of a document read one shared log, for any sessions,  *)
(* clients, documents and bounds: the operations on their way through the  *)
(* queues of SyncServer.tla, in both directions.                           *)
(*                                                                         *)
(* A session's operations pass through three places before they are        *)
(* stored: past, toServer and outgoing, read from the server's end.        *)
(* What it is told passes through three as well: incoming, toClient and    *)
(* the list of operations collected while it syncs.  The invariants say of *)
(* each place what it holds, given all that is ahead of it.                *)
(***************************************************************************)

\* The operations that the first i messages to the server bring.
OpOf(m) == IF m.type = "OPERATION" THEN {m.op} ELSE {}

OpsUpTo(q, i) == UNION {OpOf(q[j]) : j \in 1..i}

OpsUp(q) == OpsUpTo(q, Len(q))

(***************************************************************************)
(* A message of session s rests on what is in B, and its number is above   *)
(* those of the operations in S.  P is the history variable past.          *)
(***************************************************************************)
Fits(s, m, P, B, S) ==
    /\ m.type = "OPERATION" => /\ m.op[1] = s
                               /\ P[m.op] \subseteq B
                               /\ \A e \in S : e[1] = s => e[2] < m.op[2]
    /\ m.type = "CURSOR_UPDATE" => m.position \in B \cup {Start}

InOrder(s, q, P, B, S) ==
    \A i \in DOMAIN q :
       Fits(s, q[i], P, B \cup OpsUpTo(q, i - 1), S \cup OpsUpTo(q, i - 1))

\* What a session can rest on without sending it.
Settled(s) == dropped \cup Stored(WantedDocument[s])

Upstream(s) ==
    conn[s] # "DISCONNECTED" =>
       LET B == Settled(s)
           S == Stored(WantedDocument[s])
           W == OpsUp(toServer[s])
       IN  /\ InOrder(s, toServer[s], past, B, S)
           /\ net[s] # "DISCONNECTED" =>
                 /\ InOrder(s, outgoing[s], past, B \cup W, S \cup W)
                 /\ known[s] \subseteq B \cup W \cup OpsUp(outgoing[s])

\* The operations of a session are numbered from 1.
Numbered(s) ==
    /\ \A op \in Typed : op[1] = s => op \in known[s] /\ past[op] \subseteq known[s]
    /\ OwnOps(s) = {<<s, n>> : n \in 1..Cardinality(OwnOps(s))}
    /\ cursor[s] \in known[s] \cup {Start}

-----------------------------------------------------------------------------
\* The document's log, and its first n operations.
LogOf(s) == IF WantedDocument[s] \in DOMAIN rows THEN rows[WantedDocument[s]]
            ELSE <<>>

FirstOf(L, n) == {L[j] : j \in 1..n}

\* What a session knows: its own operations O, and a prefix of the log L.
Reads(K, O, L) == \E n \in 0..Len(L) : K = O \cup FirstOf(L, n)

OpsDown(q) == CarriedBy(q, Len(q))

(***************************************************************************)
(* Messages q to a session that knows K when it reads the first of them:   *)
(* none brings an operation it has, after each it still knows a prefix of  *)
(* the log, and it knows the place of each cursor.                         *)
(***************************************************************************)
Disjoint(q, K) ==
    \A i \in DOMAIN q : Carried(q[i]) \cap (K \cup CarriedBy(q, i - 1)) = {}

Lands(m, K, X, O, L) ==
    /\ Reads(K \cup Carried(m), O, L)
    /\ m.type = "CURSOR_UPDATE" => m.position \in K \cup X

Follows(q, K, X, O, L) ==
    \A i \in DOMAIN q : Lands(q[i], K \cup CarriedBy(q, i - 1), X, O, L)

\* What is collected for a session that syncs.
Waiting(s) == IF IsSyncing(s) THEN WaitingFor(s) ELSE <<>>

Told(s)    == known[s] \cup OpsDown(incoming[s])
Written(s) == Told(s) \cup OpsDown(toClient[s])

Places == dropped \cup {Start}

Downstream(s) ==
    LET O == OwnOps(s)
        L == LogOf(s)
        D == Stored(WantedDocument[s])
    IN  /\ Reads(known[s], O, L)
        /\ Disjoint(incoming[s], known[s])
        /\ Follows(incoming[s], known[s], Places, O, L)
        /\ Disjoint(toClient[s], Told(s))
        /\ Follows(toClient[s], Told(s), Places, O, L)
        /\ Disjoint(Waiting(s), Written(s)) /\ OpsDown(Waiting(s)) \subseteq D
        /\ IsConnected(s) => Follows(Waiting(s), Written(s), Places, O, L)
        /\ IsConnected(s) /\ (IsSyncing(s) \/ IsLive(s)) =>
              D \subseteq Written(s) \cup OpsDown(Waiting(s))
        /\ \A c \in Client : remote_cursors[s][c] \in known[s] \cup Places \cup {None}

\* Before it opens a document, and before it goes live.
Fresh(s) ==
    /\ conn[s] \in {"NONE", "UNREGISTERED", "REGISTERED"} =>
          incoming[s] = <<>> /\ known[s] = OwnOps(s)
    /\ conn[s] = "REGISTERED" => pending_sync_operations[ClientOf[s]] = <<>>
    /\ conn[s] \notin {"LIVE", "DISCONNECTED"} =>
          \A d \in DOMAIN rows : \A op \in Stored(d) : op[1] # s

LogInv ==
    /\ \A d \in DOMAIN rows : \A i \in DOMAIN rows[d] :
          /\ WantedDocument[rows[d][i][1]] = d
          /\ past[rows[d][i]] \subseteq dropped \cup FirstOf(rows[d], i - 1)
    /\ \A c \in DOMAIN presence :
          presence[c] \in Places \cup Stored(WantedDocument[clients[c]])

-----------------------------------------------------------------------------
(***************************************************************************)
(* Sequences taken apart: what holds of the whole, by its parts.           *)
(***************************************************************************)
LEMMA SameSequence ==
    ASSUME NEW S, NEW p \in Seq(S), NEW q \in Seq(S), Len(p) = Len(q),
           \A i \in 1..Len(p) : p[i] = q[i]
    PROVE  p = q
<1>1. p \in [1..Len(p) -> S] /\ q \in [1..Len(p) -> S]
  OBVIOUS
<1> QED  BY <1>1

LEMMA OneMore ==
    ASSUME NEW S, NEW q \in Seq(S), NEW m \in S
    PROVE  <<m>> \in Seq(S) /\ Append(q, m) = q \o <<m>>
OBVIOUS

LEMMA FirstAndRest ==
    ASSUME NEW S, NEW q \in Seq(S), q # <<>>
    PROVE  /\ Head(q) \in S /\ <<Head(q)>> \in Seq(S)
           /\ Tail(q) \in Seq(S) /\ q = <<Head(q)>> \o Tail(q)
OBVIOUS

LEMMA Beginning ==
    ASSUME NEW S, NEW q \in Seq(S), NEW n \in 0..Len(q)
    PROVE  /\ SubSeq(q, 1, n) \in Seq(S) /\ SubSeq(q, n + 1, Len(q)) \in Seq(S)
           /\ q = SubSeq(q, 1, n) \o SubSeq(q, n + 1, Len(q))
<1> DEFINE p == SubSeq(q, 1, n)
           r == SubSeq(q, n + 1, Len(q))
<1>1. /\ r \in Seq(S) /\ Len(r) = Len(q) - n
      /\ \A i \in 1..Len(q) - n : r[i] = q[n + i]
  OBVIOUS
<1>2. q = p \o r
  <2>1. /\ p \in Seq(S) /\ Len(p) = n
        /\ \A i \in 1..n : p[i] = q[i]
    BY FirstOnes
  <2> HIDE DEF p, r
  <2>2. /\ p \o r \in Seq(S) /\ Len(p \o r) = Len(q)
        /\ \A i \in 1..n : (p \o r)[i] = q[i]
        /\ \A i \in 1..Len(q) - n : (p \o r)[n + i] = q[n + i]
    BY <1>1, <2>1, Joined
  <2>3. ASSUME NEW i \in 1..Len(q), i \notin 1..n
        PROVE  i - n \in 1..Len(q) - n /\ i = n + (i - n)
    BY <2>3
  <2>4. \A i \in 1..Len(q) : (p \o r)[i] = q[i]
    BY <2>2, <2>3
  <2> QED  BY <2>2, <2>4, SameSequence
<1> QED  BY <1>1, <1>2, FirstOnes

LEMMA UpToJoined ==
    ASSUME NEW S, NEW p \in Seq(S), NEW q \in Seq(S)
    PROVE  /\ \A i \in 0..Len(p) : OpsUpTo(p \o q, i) = OpsUpTo(p, i)
           /\ \A i \in 0..Len(q) :
                 OpsUpTo(p \o q, Len(p) + i) = OpsUp(p) \cup OpsUpTo(q, i)
           /\ OpsUp(p \o q) = OpsUp(p) \cup OpsUp(q)
<1>1. \A i \in 0..Len(p) : OpsUpTo(p \o q, i) = OpsUpTo(p, i)
  BY Joined DEF OpsUpTo
<1>2. ASSUME NEW i \in 0..Len(q)
      PROVE  OpsUpTo(p \o q, Len(p) + i) = OpsUp(p) \cup OpsUpTo(q, i)
  <2>1. ASSUME NEW e \in OpsUpTo(p \o q, Len(p) + i)
        PROVE  e \in OpsUp(p) \cup OpsUpTo(q, i)
    <3>1. PICK j \in 1..Len(p) + i : e \in OpOf((p \o q)[j])
      BY DEF OpsUpTo
    <3>2. CASE j \in 1..Len(p)
      BY <3>1, <3>2, Joined DEF OpsUp, OpsUpTo
    <3>3. CASE j \notin 1..Len(p)
      <4>1. j - Len(p) \in 1..i /\ j = Len(p) + (j - Len(p))
        BY <3>3
      <4>2. (p \o q)[j] = q[j - Len(p)]
        BY <4>1, Joined
      <4> QED  BY <3>1, <4>1, <4>2 DEF OpsUpTo
    <3> QED  BY <3>2, <3>3
  <2>2. ASSUME NEW e \in OpsUp(p) \cup OpsUpTo(q, i)
        PROVE  e \in OpsUpTo(p \o q, Len(p) + i)
    <3>1. CASE e \in OpsUp(p)
      <4>1. PICK j \in 1..Len(p) : e \in OpOf(p[j])
        BY <3>1 DEF OpsUp, OpsUpTo
      <4>2. (p \o q)[j] = p[j] /\ j \in 1..Len(p) + i
        BY Joined
      <4> QED  BY <4>1, <4>2 DEF OpsUpTo
    <3>2. CASE e \in OpsUpTo(q, i)
      <4>1. PICK j \in 1..i : e \in OpOf(q[j])
        BY <3>2 DEF OpsUpTo
      <4>2. (p \o q)[Len(p) + j] = q[j] /\ Len(p) + j \in 1..Len(p) + i
        BY Joined
      <4> QED  BY <4>1, <4>2 DEF OpsUpTo
    <3> QED  BY <3>1, <3>2, <2>2
  <2> QED  BY <2>1, <2>2
<1>3. OpsUp(p \o q) = OpsUp(p) \cup OpsUp(q)
  <2>1. Len(p \o q) = Len(p) + Len(q) /\ Len(q) \in 0..Len(q)
    BY Joined
  <2> QED  BY <1>2, <2>1 DEF OpsUp
<1> QED  BY <1>1, <1>2, <1>3

LEMMA UpToOne ==
    ASSUME NEW S, NEW m \in S
    PROVE  /\ OpsUp(<<m>>) = OpOf(m) /\ OpsUpTo(<<m>>, 0) = {}
           /\ OpsUp(<<>>) = {} /\ \A q : OpsUpTo(q, 0) = {}
<1>1. /\ OpsUpTo(<<m>>, 0) = {} /\ OpsUpTo(<<>>, 0) = {}
      /\ \A q : OpsUpTo(q, 0) = {}
  BY DEF OpsUpTo
<1>2. Len(<<m>>) = 1 /\ <<m>>[1] = m /\ Len(<<>>) = 0
  OBVIOUS
<1>3. OpsUpTo(<<m>>, 1) = OpOf(<<m>>[1])
  BY DEF OpsUpTo
<1> QED  BY <1>1, <1>2, <1>3 DEF OpsUp

LEMMA InOrderJoined ==
    ASSUME NEW T, NEW p \in Seq(T), NEW q \in Seq(T), NEW s, NEW P, NEW B, NEW S
    PROVE  InOrder(s, p \o q, P, B, S) <=>
              /\ InOrder(s, p, P, B, S)
              /\ InOrder(s, q, P, B \cup OpsUp(p), S \cup OpsUp(p))
<1>1. ASSUME NEW i \in 1..Len(p)
      PROVE  (p \o q)[i] = p[i] /\ OpsUpTo(p \o q, i - 1) = OpsUpTo(p, i - 1)
  <2>1. i - 1 \in 0..Len(p)
    OBVIOUS
  <2> QED  BY <2>1, Joined, UpToJoined
<1>2. ASSUME NEW i \in 1..Len(q)
      PROVE  /\ (p \o q)[Len(p) + i] = q[i]
             /\ B \cup OpsUpTo(p \o q, (Len(p) + i) - 1)
                   = (B \cup OpsUp(p)) \cup OpsUpTo(q, i - 1)
             /\ S \cup OpsUpTo(p \o q, (Len(p) + i) - 1)
                   = (S \cup OpsUp(p)) \cup OpsUpTo(q, i - 1)
  <2>1. i - 1 \in 0..Len(q) /\ (Len(p) + i) - 1 = Len(p) + (i - 1)
    OBVIOUS
  <2>2. OpsUpTo(p \o q, Len(p) + (i - 1)) = OpsUp(p) \cup OpsUpTo(q, i - 1)
    <3>1. \A k \in 0..Len(q) :
             OpsUpTo(p \o q, Len(p) + k) = OpsUp(p) \cup OpsUpTo(q, k)
      BY UpToJoined
    <3> QED  BY <2>1, <3>1
  <2>3. OpsUpTo(p \o q, (Len(p) + i) - 1) = OpsUp(p) \cup OpsUpTo(q, i - 1)
    BY <2>1, <2>2
  <2> QED  BY <2>3, Joined
<1>3. /\ DOMAIN p = 1..Len(p) /\ DOMAIN q = 1..Len(q)
      /\ DOMAIN (p \o q) = 1..Len(p) + Len(q) /\ Len(p) \in Nat /\ Len(q) \in Nat
  BY Joined
<1>4. /\ \A i \in 1..Len(p) : i \in 1..Len(p) + Len(q)
      /\ \A i \in 1..Len(q) : Len(p) + i \in 1..Len(p) + Len(q)
      /\ \A i \in 1..Len(p) + Len(q) :
            i \in 1..Len(p) \/ \E j \in 1..Len(q) : i = Len(p) + j
  <2>1. ASSUME NEW i \in 1..Len(p) + Len(q), i \notin 1..Len(p)
        PROVE  \E j \in 1..Len(q) : i = Len(p) + j
    <3>1. i - Len(p) \in 1..Len(q) /\ i = Len(p) + (i - Len(p))
      BY <1>3, <2>1
    <3> QED  BY <3>1
  <2> QED  BY <1>3, <2>1
<1>5. ASSUME InOrder(s, p \o q, P, B, S)
      PROVE  /\ InOrder(s, p, P, B, S)
             /\ InOrder(s, q, P, B \cup OpsUp(p), S \cup OpsUp(p))
  BY <1>1, <1>2, <1>3, <1>4, <1>5 DEF InOrder
<1>6. ASSUME InOrder(s, p, P, B, S), InOrder(s, q, P, B \cup OpsUp(p), S \cup OpsUp(p))
      PROVE  InOrder(s, p \o q, P, B, S)
  <2> SUFFICES ASSUME NEW i \in 1..Len(p) + Len(q)
               PROVE  Fits(s, (p \o q)[i], P, B \cup OpsUpTo(p \o q, i - 1),
                           S \cup OpsUpTo(p \o q, i - 1))
    BY <1>3 DEF InOrder
  <2>1. CASE i \in 1..Len(p)
    BY <1>1, <1>3, <1>6, <2>1 DEF InOrder
  <2>2. ASSUME NEW j \in 1..Len(q), i = Len(p) + j
        PROVE  Fits(s, (p \o q)[i], P, B \cup OpsUpTo(p \o q, i - 1),
                    S \cup OpsUpTo(p \o q, i - 1))
    BY <1>2, <1>3, <1>6, <2>2 DEF InOrder
  <2> QED  BY <1>4, <2>1, <2>2
<1> QED  BY <1>5, <1>6

LEMMA InOrderOne ==
    ASSUME NEW s, NEW P, NEW B, NEW S, NEW T, NEW m \in T
    PROVE  /\ InOrder(s, <<m>>, P, B, S) <=> Fits(s, m, P, B, S)
           /\ InOrder(s, <<>>, P, B, S)
<1>1. /\ DOMAIN <<m>> = {1} /\ <<m>>[1] = m /\ DOMAIN <<>> = {}
      /\ OpsUpTo(<<m>>, 1 - 1) = {}
  BY UpToOne
<1>2. InOrder(s, <<m>>, P, B, S) <=> Fits(s, m, P, B \cup {}, S \cup {})
  BY <1>1 DEF InOrder
<1>3. B \cup {} = B /\ S \cup {} = S
  OBVIOUS
<1> QED  BY <1>1, <1>2, <1>3 DEF InOrder

LEMMA CarriedJoined ==
    ASSUME NEW S, NEW p \in Seq(S), NEW q \in Seq(S)
    PROVE  /\ \A i \in 0..Len(p) : CarriedBy(p \o q, i) = CarriedBy(p, i)
           /\ \A i \in 0..Len(q) :
                 CarriedBy(p \o q, Len(p) + i) = OpsDown(p) \cup CarriedBy(q, i)
           /\ OpsDown(p \o q) = OpsDown(p) \cup OpsDown(q)
<1>1. \A i \in 0..Len(p) : CarriedBy(p \o q, i) = CarriedBy(p, i)
  BY Joined DEF CarriedBy
<1>2. ASSUME NEW i \in 0..Len(q)
      PROVE  CarriedBy(p \o q, Len(p) + i) = OpsDown(p) \cup CarriedBy(q, i)
  <2>1. ASSUME NEW e \in CarriedBy(p \o q, Len(p) + i)
        PROVE  e \in OpsDown(p) \cup CarriedBy(q, i)
    <3>1. PICK j \in 1..Len(p) + i : e \in Carried((p \o q)[j])
      BY DEF CarriedBy
    <3>2. CASE j \in 1..Len(p)
      BY <3>1, <3>2, Joined DEF OpsDown, CarriedBy
    <3>3. CASE j \notin 1..Len(p)
      <4>1. j - Len(p) \in 1..i /\ j = Len(p) + (j - Len(p))
        BY <3>3
      <4>2. (p \o q)[j] = q[j - Len(p)]
        BY <4>1, Joined
      <4> QED  BY <3>1, <4>1, <4>2 DEF CarriedBy
    <3> QED  BY <3>2, <3>3
  <2>2. ASSUME NEW e \in OpsDown(p) \cup CarriedBy(q, i)
        PROVE  e \in CarriedBy(p \o q, Len(p) + i)
    <3>1. CASE e \in OpsDown(p)
      <4>1. PICK j \in 1..Len(p) : e \in Carried(p[j])
        BY <3>1 DEF OpsDown, CarriedBy
      <4>2. (p \o q)[j] = p[j] /\ j \in 1..Len(p) + i
        BY Joined
      <4> QED  BY <4>1, <4>2 DEF CarriedBy
    <3>2. CASE e \in CarriedBy(q, i)
      <4>1. PICK j \in 1..i : e \in Carried(q[j])
        BY <3>2 DEF CarriedBy
      <4>2. (p \o q)[Len(p) + j] = q[j] /\ Len(p) + j \in 1..Len(p) + i
        BY Joined
      <4> QED  BY <4>1, <4>2 DEF CarriedBy
    <3> QED  BY <3>1, <3>2, <2>2
  <2> QED  BY <2>1, <2>2
<1>3. OpsDown(p \o q) = OpsDown(p) \cup OpsDown(q)
  <2>1. Len(p \o q) = Len(p) + Len(q) /\ Len(q) \in 0..Len(q)
    BY Joined
  <2> QED  BY <1>2, <2>1 DEF OpsDown
<1> QED  BY <1>1, <1>2, <1>3

LEMMA CarriedOne ==
    ASSUME NEW S, NEW m \in S
    PROVE  /\ OpsDown(<<m>>) = Carried(m) /\ CarriedBy(<<m>>, 0) = {}
           /\ OpsDown(<<>>) = {} /\ \A q : CarriedBy(q, 0) = {}
<1>1. /\ CarriedBy(<<m>>, 0) = {} /\ CarriedBy(<<>>, 0) = {}
      /\ \A q : CarriedBy(q, 0) = {}
  BY DEF CarriedBy
<1>2. Len(<<m>>) = 1 /\ <<m>>[1] = m /\ Len(<<>>) = 0
  OBVIOUS
<1>3. CarriedBy(<<m>>, 1) = Carried(<<m>>[1])
  BY DEF CarriedBy
<1> QED  BY <1>1, <1>2, <1>3 DEF OpsDown

LEMMA FollowsJoined ==
    ASSUME NEW T, NEW p \in Seq(T), NEW q \in Seq(T), NEW K, NEW X, NEW O, NEW L
    PROVE  /\ Follows(p \o q, K, X, O, L) <=>
                 /\ Follows(p, K, X, O, L)
                 /\ Follows(q, K \cup OpsDown(p), X, O, L)
           /\ Disjoint(p \o q, K) <=>
                 /\ Disjoint(p, K)
                 /\ Disjoint(q, K \cup OpsDown(p))
<1>1. ASSUME NEW i \in 1..Len(p)
      PROVE  (p \o q)[i] = p[i] /\ CarriedBy(p \o q, i - 1) = CarriedBy(p, i - 1)
  <2>1. i - 1 \in 0..Len(p)
    OBVIOUS
  <2> QED  BY <2>1, Joined, CarriedJoined
<1>2. ASSUME NEW i \in 1..Len(q)
      PROVE  /\ (p \o q)[Len(p) + i] = q[i]
             /\ K \cup CarriedBy(p \o q, (Len(p) + i) - 1)
                   = (K \cup OpsDown(p)) \cup CarriedBy(q, i - 1)
  <2>1. i - 1 \in 0..Len(q) /\ (Len(p) + i) - 1 = Len(p) + (i - 1)
    OBVIOUS
  <2>2. CarriedBy(p \o q, Len(p) + (i - 1)) = OpsDown(p) \cup CarriedBy(q, i - 1)
    <3>1. \A k \in 0..Len(q) :
             CarriedBy(p \o q, Len(p) + k) = OpsDown(p) \cup CarriedBy(q, k)
      BY CarriedJoined
    <3> QED  BY <2>1, <3>1
  <2>3. CarriedBy(p \o q, (Len(p) + i) - 1) = OpsDown(p) \cup CarriedBy(q, i - 1)
    BY <2>1, <2>2
  <2> QED  BY <2>3, Joined
<1>3. /\ DOMAIN p = 1..Len(p) /\ DOMAIN q = 1..Len(q)
      /\ DOMAIN (p \o q) = 1..Len(p) + Len(q) /\ Len(p) \in Nat /\ Len(q) \in Nat
  BY Joined
<1>4. /\ \A i \in 1..Len(p) : i \in 1..Len(p) + Len(q)
      /\ \A i \in 1..Len(q) : Len(p) + i \in 1..Len(p) + Len(q)
      /\ \A i \in 1..Len(p) + Len(q) :
            i \in 1..Len(p) \/ \E j \in 1..Len(q) : i = Len(p) + j
  <2>1. ASSUME NEW i \in 1..Len(p) + Len(q), i \notin 1..Len(p)
        PROVE  \E j \in 1..Len(q) : i = Len(p) + j
    <3>1. i - Len(p) \in 1..Len(q) /\ i = Len(p) + (i - Len(p))
      BY <1>3, <2>1
    <3> QED  BY <3>1
  <2> QED  BY <1>3, <2>1
<1>5. ASSUME Follows(p \o q, K, X, O, L)
      PROVE  /\ Follows(p, K, X, O, L)
             /\ Follows(q, K \cup OpsDown(p), X, O, L)
  BY <1>1, <1>2, <1>3, <1>4, <1>5 DEF Follows
<1>6. ASSUME Follows(p, K, X, O, L), Follows(q, K \cup OpsDown(p), X, O, L)
      PROVE  Follows(p \o q, K, X, O, L)
  <2> SUFFICES ASSUME NEW i \in 1..Len(p) + Len(q)
               PROVE  Lands((p \o q)[i], K \cup CarriedBy(p \o q, i - 1), X, O, L)
    BY <1>3 DEF Follows
  <2>1. CASE i \in 1..Len(p)
    BY <1>1, <1>3, <1>6, <2>1 DEF Follows
  <2>2. ASSUME NEW j \in 1..Len(q), i = Len(p) + j
        PROVE  Lands((p \o q)[i], K \cup CarriedBy(p \o q, i - 1), X, O, L)
    BY <1>2, <1>3, <1>6, <2>2 DEF Follows
  <2> QED  BY <1>4, <2>1, <2>2
<1>7. ASSUME Disjoint(p \o q, K)
      PROVE  /\ Disjoint(p, K)
             /\ Disjoint(q, K \cup OpsDown(p))
  BY <1>1, <1>2, <1>3, <1>4, <1>7 DEF Disjoint
<1>8. ASSUME Disjoint(p, K), Disjoint(q, K \cup OpsDown(p))
      PROVE  Disjoint(p \o q, K)
  <2> SUFFICES ASSUME NEW i \in 1..Len(p) + Len(q)
               PROVE  Carried((p \o q)[i]) \cap (K \cup CarriedBy(p \o q, i - 1)) = {}
    BY <1>3 DEF Disjoint
  <2>1. CASE i \in 1..Len(p)
    BY <1>1, <1>3, <1>8, <2>1 DEF Disjoint
  <2>2. ASSUME NEW j \in 1..Len(q), i = Len(p) + j
        PROVE  Carried((p \o q)[i]) \cap (K \cup CarriedBy(p \o q, i - 1)) = {}
    BY <1>2, <1>3, <1>8, <2>2 DEF Disjoint
  <2> QED  BY <1>4, <2>1, <2>2
<1> QED  BY <1>5, <1>6, <1>7, <1>8

LEMMA FollowsOne ==
    ASSUME NEW K, NEW X, NEW O, NEW L, NEW T, NEW m \in T
    PROVE  /\ Follows(<<m>>, K, X, O, L) <=> Lands(m, K, X, O, L)
           /\ Follows(<<>>, K, X, O, L)
           /\ Disjoint(<<m>>, K) <=> Carried(m) \cap K = {}
           /\ Disjoint(<<>>, K)
<1>1. /\ DOMAIN <<m>> = {1} /\ <<m>>[1] = m /\ DOMAIN <<>> = {}
      /\ CarriedBy(<<m>>, 1 - 1) = {}
  BY CarriedOne
<1>2. /\ Follows(<<m>>, K, X, O, L) <=> Lands(m, K \cup {}, X, O, L)
      /\ Disjoint(<<m>>, K) <=> Carried(m) \cap (K \cup {}) = {}
  BY <1>1 DEF Follows, Disjoint
<1>3. K \cup {} = K
  OBVIOUS
<1> QED  BY <1>1, <1>2, <1>3 DEF Follows, Disjoint

-----------------------------------------------------------------------------
(***************************************************************************)
(* What the handlers do to the queues: a message is appended, the first    *)
(* one is taken, or only some of the first ones arrive.                    *)
(***************************************************************************)
LEMMA UpOneMore ==
    ASSUME NEW T, NEW q \in Seq(T), NEW m \in T
    PROVE  OpsUp(Append(q, m)) = OpsUp(q) \cup OpOf(m)
<1> DEFINE p == <<m>>
<1>1. p \in Seq(T) /\ Append(q, m) = q \o p
  BY OneMore
<1>2. OpsUp(p) = OpOf(m)
  BY UpToOne
<1> HIDE DEF p
<1>3. OpsUp(q \o p) = OpsUp(q) \cup OpsUp(p)
  BY <1>1, UpToJoined
<1> QED  BY <1>1, <1>2, <1>3

LEMMA UpAppended ==
    ASSUME NEW T, NEW q \in Seq(T), NEW m \in T, NEW s, NEW P, NEW B, NEW S,
           InOrder(s, q, P, B, S), Fits(s, m, P, B \cup OpsUp(q), S \cup OpsUp(q))
    PROVE  InOrder(s, Append(q, m), P, B, S)
<1> DEFINE p == <<m>>
<1>1. p \in Seq(T) /\ Append(q, m) = q \o p
  BY OneMore
<1>2. InOrder(s, p, P, B \cup OpsUp(q), S \cup OpsUp(q))
  BY InOrderOne
<1> HIDE DEF p
<1>3. InOrder(s, q \o p, P, B, S)
  BY <1>1, <1>2, InOrderJoined
<1> QED  BY <1>1, <1>3

LEMMA UpTail ==
    ASSUME NEW T, NEW q \in Seq(T), q # <<>>, NEW s, NEW P, NEW B, NEW S,
           InOrder(s, q, P, B, S)
    PROVE  /\ Fits(s, Head(q), P, B, S)
           /\ InOrder(s, Tail(q), P, B \cup OpOf(Head(q)), S \cup OpOf(Head(q)))
           /\ OpsUp(q) = OpOf(Head(q)) \cup OpsUp(Tail(q))
<1>1. /\ Head(q) \in T /\ <<Head(q)>> \in Seq(T)
      /\ Tail(q) \in Seq(T) /\ q = <<Head(q)>> \o Tail(q)
  BY FirstAndRest
<1> DEFINE p == <<Head(q)>>
           r == Tail(q)
<1>2. OpsUp(p) = OpOf(Head(q))
  BY <1>1, UpToOne
<1>3. InOrder(s, p, P, B, S) <=> Fits(s, Head(q), P, B, S)
  BY <1>1, InOrderOne
<1> HIDE DEF p, r
<1>4. p \in Seq(T) /\ r \in Seq(T) /\ InOrder(s, p \o r, P, B, S) /\ q = p \o r
  BY <1>1 DEF p, r
<1>5. InOrder(s, p, P, B, S) /\ InOrder(s, r, P, B \cup OpsUp(p), S \cup OpsUp(p))
  BY <1>4, InOrderJoined
<1>6. OpsUp(p \o r) = OpsUp(p) \cup OpsUp(r)
  BY <1>4, UpToJoined
<1> QED  BY <1>2, <1>3, <1>4, <1>5, <1>6 DEF r

LEMMA UpPrefix ==
    ASSUME NEW T, NEW q \in Seq(T), NEW n \in 0..Len(q), NEW s, NEW P, NEW B,
           NEW S, InOrder(s, q, P, B, S)
    PROVE  InOrder(s, SubSeq(q, 1, n), P, B, S)
<1> DEFINE p == SubSeq(q, 1, n)
           r == SubSeq(q, n + 1, Len(q))
<1>1. p \in Seq(T) /\ r \in Seq(T) /\ q = p \o r
  BY Beginning
<1> HIDE DEF p, r
<1>3. InOrder(s, p \o r, P, B, S)
  BY <1>1
<1>4. InOrder(s, p, P, B, S)
  BY <1>1, <1>3, InOrderJoined
<1> QED  BY <1>4 DEF p

LEMMA UpMore ==
    ASSUME NEW T, NEW q \in Seq(UpMessage(T)), NEW s, NEW P, NEW B, NEW S,
           NEW Q, \A op \in T : Q[op] = P[op],
           NEW C, B \subseteq C, NEW R, \A e \in R : e[1] = s => e \in S,
           InOrder(s, q, P, B, S)
    PROVE  InOrder(s, q, Q, C, R)
<1> SUFFICES ASSUME NEW i \in DOMAIN q
             PROVE  Fits(s, q[i], Q, C \cup OpsUpTo(q, i - 1), R \cup OpsUpTo(q, i - 1))
  BY DEF InOrder
<1>1. q[i] \in UpMessage(T)
  OBVIOUS
<1>2. q[i].type = "OPERATION" => q[i].op \in T
  BY <1>1, UpMessages
<1>3. Fits(s, q[i], P, B \cup OpsUpTo(q, i - 1), S \cup OpsUpTo(q, i - 1))
  BY DEF InOrder
<1> QED  BY <1>2, <1>3 DEF Fits

LEMMA UpOps ==
    ASSUME NEW T, NEW q \in Seq(UpMessage(T))
    PROVE  OpsUp(q) \subseteq T /\ OpsUp(q) = OpsToServer(q)
<1>1. /\ DOMAIN q = 1..Len(q) /\ ToSet(q) = {q[i] : i \in 1..Len(q)}
      /\ \A i \in 1..Len(q) : q[i] \in UpMessage(T)
  BY ToSets
<1>2. \A i \in 1..Len(q) : q[i].type = "OPERATION" => q[i].op \in T
  BY <1>1, UpMessages
<1> QED  BY <1>1, <1>2 DEF OpsUp, OpsUpTo, OpOf, OpsToServer

LEMMA DownOneMore ==
    ASSUME NEW T, NEW q \in Seq(T), NEW m \in T
    PROVE  OpsDown(Append(q, m)) = OpsDown(q) \cup Carried(m)
<1> DEFINE p == <<m>>
<1>1. p \in Seq(T) /\ Append(q, m) = q \o p
  BY OneMore
<1>2. OpsDown(p) = Carried(m)
  BY CarriedOne
<1> HIDE DEF p
<1>3. OpsDown(q \o p) = OpsDown(q) \cup OpsDown(p)
  BY <1>1, CarriedJoined
<1> QED  BY <1>1, <1>2, <1>3

LEMMA DownAppended ==
    ASSUME NEW T, NEW q \in Seq(T), NEW m \in T, NEW K
    PROVE  /\ \A X, O, L : Follows(q, K, X, O, L)
                              /\ Lands(m, K \cup OpsDown(q), X, O, L)
                           => Follows(Append(q, m), K, X, O, L)
           /\ Disjoint(q, K) /\ Carried(m) \cap (K \cup OpsDown(q)) = {}
                           => Disjoint(Append(q, m), K)
           /\ OpsDown(Append(q, m)) = OpsDown(q) \cup Carried(m)
<1> DEFINE p == <<m>>
<1>1. p \in Seq(T) /\ Append(q, m) = q \o p
  BY OneMore
<1>2. OpsDown(p) = Carried(m)
  BY CarriedOne
<1>9. /\ \A J, X, O, L : Lands(m, J, X, O, L) => Follows(p, J, X, O, L)
      /\ \A J : Carried(m) \cap J = {} => Disjoint(p, J)
  BY FollowsOne
<1> HIDE DEF p
<1>3. OpsDown(q \o p) = OpsDown(q) \cup OpsDown(p)
  BY <1>1, CarriedJoined
<1>4. ASSUME NEW X, NEW O, NEW L, Follows(q, K, X, O, L),
             Lands(m, K \cup OpsDown(q), X, O, L)
      PROVE  Follows(q \o p, K, X, O, L)
  <2>1. Follows(p, K \cup OpsDown(q), X, O, L)
    BY <1>4, <1>9
  <2> QED  BY <1>1, <1>4, <2>1, FollowsJoined
<1>5. ASSUME Disjoint(q, K), Carried(m) \cap (K \cup OpsDown(q)) = {}
      PROVE  Disjoint(q \o p, K)
  <2>1. Disjoint(p, K \cup OpsDown(q))
    BY <1>5, <1>9
  <2> QED  BY <1>1, <1>5, <2>1, FollowsJoined
<1> QED  BY <1>1, <1>2, <1>3, <1>4, <1>5

LEMMA DownTail ==
    ASSUME NEW T, NEW q \in Seq(T), q # <<>>, NEW K
    PROVE  /\ \A X, O, L : Follows(q, K, X, O, L) =>
                 /\ Lands(Head(q), K, X, O, L)
                 /\ Follows(Tail(q), K \cup Carried(Head(q)), X, O, L)
           /\ Disjoint(q, K) => /\ Carried(Head(q)) \cap K = {}
                                /\ Disjoint(Tail(q), K \cup Carried(Head(q)))
           /\ OpsDown(q) = Carried(Head(q)) \cup OpsDown(Tail(q))
<1>1. /\ Head(q) \in T /\ <<Head(q)>> \in Seq(T)
      /\ Tail(q) \in Seq(T) /\ q = <<Head(q)>> \o Tail(q)
  BY FirstAndRest
<1> DEFINE p == <<Head(q)>>
           r == Tail(q)
<1>2. OpsDown(p) = Carried(Head(q))
  BY <1>1, CarriedOne
<1>3. /\ \A X, O, L : Follows(p, K, X, O, L) <=> Lands(Head(q), K, X, O, L)
      /\ Disjoint(p, K) <=> Carried(Head(q)) \cap K = {}
  BY <1>1, FollowsOne
<1> HIDE DEF p, r
<1>4. p \in Seq(T) /\ r \in Seq(T) /\ q = p \o r
  BY <1>1 DEF p, r
<1>5. \A X, O, L : Follows(p \o r, K, X, O, L) =>
         Follows(p, K, X, O, L) /\ Follows(r, K \cup OpsDown(p), X, O, L)
  BY <1>4, FollowsJoined
<1>6. Disjoint(p \o r, K) => Disjoint(p, K) /\ Disjoint(r, K \cup OpsDown(p))
  BY <1>4, FollowsJoined
<1>7. OpsDown(p \o r) = OpsDown(p) \cup OpsDown(r)
  BY <1>4, CarriedJoined
<1> QED  BY <1>2, <1>3, <1>4, <1>5, <1>6, <1>7 DEF r

LEMMA DownPrefix ==
    ASSUME NEW T, NEW q \in Seq(T), NEW n \in 0..Len(q), NEW K
    PROVE  /\ \A X, O, L : Follows(q, K, X, O, L) =>
                              Follows(SubSeq(q, 1, n), K, X, O, L)
           /\ Disjoint(q, K) => Disjoint(SubSeq(q, 1, n), K)
           /\ OpsDown(SubSeq(q, 1, n)) \subseteq OpsDown(q)
<1> DEFINE p == SubSeq(q, 1, n)
           r == SubSeq(q, n + 1, Len(q))
<1>1. p \in Seq(T) /\ r \in Seq(T) /\ q = p \o r
  BY Beginning
<1> HIDE DEF p, r
<1>3. /\ \A X, O, L : Follows(p \o r, K, X, O, L) => Follows(p, K, X, O, L)
      /\ Disjoint(p \o r, K) => Disjoint(p, K)
      /\ OpsDown(p \o r) = OpsDown(p) \cup OpsDown(r)
  <2>1. /\ \A X, O, L : Follows(p \o r, K, X, O, L) => Follows(p, K, X, O, L)
        /\ Disjoint(p \o r, K) => Disjoint(p, K)
    BY <1>1, FollowsJoined
  <2>2. OpsDown(p \o r) = OpsDown(p) \cup OpsDown(r)
    BY <1>1, CarriedJoined
  <2> QED  BY <2>1, <2>2
<1>4. /\ \A X, O, L : Follows(q, K, X, O, L) => Follows(p, K, X, O, L)
      /\ Disjoint(q, K) => Disjoint(p, K)
      /\ OpsDown(p) \subseteq OpsDown(q)
  BY <1>1, <1>3
<1> QED  BY <1>4 DEF p

\* A log and what is appended to it.
Extended(L, M) ==
    /\ Len(L) \in Nat /\ Len(M) \in Nat /\ Len(L) <= Len(M)
    /\ \A j \in 1..Len(L) : M[j] = L[j]

LEMMA ReadsMore ==
    ASSUME NEW K, NEW O, NEW L, NEW M, NEW E, Extended(L, M), Reads(K, O, L)
    PROVE  Reads(K \cup E, O \cup E, M)
<1>1. PICK n \in 0..Len(L) : K = O \cup FirstOf(L, n)
  BY DEF Reads
<1>2. FirstOf(L, n) = FirstOf(M, n) /\ n \in 0..Len(M)
  BY DEF FirstOf, Extended
<1> QED  BY <1>1, <1>2 DEF Reads

LEMMA FollowsMore ==
    ASSUME NEW q, NEW K, NEW X, NEW O, NEW L, NEW Y, NEW M, NEW E,
           Extended(L, M), X \subseteq Y, Follows(q, K, X, O, L)
    PROVE  Follows(q, K \cup E, Y, O \cup E, M)
<1> SUFFICES ASSUME NEW i \in DOMAIN q
             PROVE  Lands(q[i], (K \cup E) \cup CarriedBy(q, i - 1), Y, O \cup E, M)
  BY DEF Follows
<1> DEFINE J == K \cup CarriedBy(q, i - 1)
<1>1. Lands(q[i], J, X, O, L)
  BY DEF Follows
<1>2. (K \cup E) \cup CarriedBy(q, i - 1) = J \cup E
  OBVIOUS
<1> HIDE DEF J
<1>3. Reads((J \cup Carried(q[i])) \cup E, O \cup E, M)
  BY <1>1, ReadsMore DEF Lands
<1>4. (J \cup Carried(q[i])) \cup E = (J \cup E) \cup Carried(q[i])
  OBVIOUS
<1> QED  BY <1>1, <1>2, <1>3, <1>4 DEF Lands

LEMMA DisjointMore ==
    ASSUME NEW q, NEW K, NEW J, Disjoint(q, K),
           \A i \in DOMAIN q : \A e \in Carried(q[i]) : e \in J => e \in K
    PROVE  Disjoint(q, J)
BY DEF Disjoint

-----------------------------------------------------------------------------
(***************************************************************************)
(* The inductive invariant, and what it says of the operations on their    *)
(* way to a session: all are stored, and none is one of its own.           *)
(***************************************************************************)
Flows ==
    /\ LogInv
    /\ \A s \in Session : Upstream(s) /\ Numbered(s) /\ Downstream(s) /\ Fresh(s)

Streams == Base /\ Flows

LEMMA LogTyped ==
    ASSUME Typing, NEW s \in Session
    PROVE  /\ LogOf(s) \in Seq(Typed) /\ Len(LogOf(s)) \in Nat
           /\ DOMAIN LogOf(s) = 1..Len(LogOf(s))
           /\ Stored(WantedDocument[s]) = FirstOf(LogOf(s), Len(LogOf(s)))
           /\ Extended(LogOf(s), LogOf(s))
           /\ WantedDocument[s] \in DocumentID
<1>1. LogOf(s) \in Seq(Typed)
  BY EmptyQueue DEF LogOf, Typing, ServerTyping
<1>2. Len(LogOf(s)) \in Nat /\ DOMAIN LogOf(s) = 1..Len(LogOf(s))
  BY <1>1
<1>3. Stored(WantedDocument[s]) = FirstOf(LogOf(s), Len(LogOf(s)))
  <2>1. CASE WantedDocument[s] \in DOMAIN rows
    BY <2>1, StoredRows DEF LogOf, FirstOf, Typing
  <2>2. CASE WantedDocument[s] \notin DOMAIN rows
    <3>1. FirstOf(<<>>, Len(<<>>)) = {}
      BY DEF FirstOf
    <3> QED  BY <2>2, <3>1 DEF LogOf, Stored
  <2> QED  BY <2>1, <2>2
<1> QED  BY <1>1, <1>2, <1>3, SessionAssumption DEF Extended

LEMMA ReadsBound ==
    ASSUME Typing, NEW s \in Session, NEW K, NEW O, Reads(K, O, LogOf(s))
    PROVE  K \subseteq O \cup Stored(WantedDocument[s]) /\ O \subseteq K
<1>1. PICK n \in 0..Len(LogOf(s)) : K = O \cup FirstOf(LogOf(s), n)
  BY DEF Reads
<1>2. FirstOf(LogOf(s), n) \subseteq FirstOf(LogOf(s), Len(LogOf(s)))
  BY LogTyped DEF FirstOf
<1> QED  BY <1>1, <1>2, LogTyped

LEMMA ReadsAll ==
    ASSUME Typing, NEW s \in Session, NEW K, NEW O,
           K = O \cup Stored(WantedDocument[s])
    PROVE  Reads(K, O, LogOf(s))
<1>1. Len(LogOf(s)) \in 0..Len(LogOf(s))
  BY LogTyped
<1> QED  BY <1>1, LogTyped DEF Reads

LEMMA FollowsEnds ==
    ASSUME NEW T, NEW q \in Seq(T), NEW K, NEW X, NEW O, NEW L,
           Reads(K, O, L), Follows(q, K, X, O, L)
    PROVE  Reads(K \cup OpsDown(q), O, L)
<1>1. CASE Len(q) = 0
  <2>1. K \cup OpsDown(q) = K
    BY <1>1 DEF OpsDown, CarriedBy
  <2> QED  BY <2>1
<1>2. CASE Len(q) # 0
  <2>1. Len(q) \in DOMAIN q /\ Len(q) - 1 \in Nat
    BY <1>2
  <2>2. Lands(q[Len(q)], K \cup CarriedBy(q, Len(q) - 1), X, O, L)
    BY <2>1 DEF Follows
  <2>3. (K \cup CarriedBy(q, Len(q) - 1)) \cup Carried(q[Len(q)]) = K \cup OpsDown(q)
    <3>1. 1..Len(q) = (1..Len(q) - 1) \cup {Len(q)}
      BY <2>1
    <3>2. CarriedBy(q, Len(q)) = CarriedBy(q, Len(q) - 1) \cup Carried(q[Len(q)])
      BY <3>1 DEF CarriedBy
    <3> QED  BY <3>2 DEF OpsDown
  <2> QED  BY <2>2, <2>3 DEF Lands
<1> QED  BY <1>1, <1>2

LEMMA DisjointEnds ==
    ASSUME NEW T, NEW q \in Seq(T), NEW K, Disjoint(q, K)
    PROVE  /\ OpsDown(q) \cap K = {}
           /\ \A i \in DOMAIN q : Carried(q[i]) \subseteq OpsDown(q)
<1>1. DOMAIN q = 1..Len(q)
  OBVIOUS
<1> QED  BY <1>1 DEF Disjoint, OpsDown, CarriedBy

LEMMA DownOps ==
    ASSUME NEW q \in Seq(DownMessage(Typed))
    PROVE  OpsDown(q) = OpsIn(q) /\ OpsDown(q) \subseteq Typed
BY CarriedOps DEF OpsDown

LEMMA WaitingTyped ==
    ASSUME Typing, Registry, NEW s \in Session
    PROVE  /\ Waiting(s) \in Seq(DownMessage(Typed))
           /\ ~IsSyncing(s) => Waiting(s) = <<>>
<1>1. CASE IsSyncing(s)
  BY <1>1, CatchUpMessages DEF Waiting
<1>2. CASE ~IsSyncing(s)
  BY <1>2, EmptyQueue DEF Waiting
<1> QED  BY <1>1, <1>2

LEMMA OnTheWay ==
    ASSUME Typing, Registry, NEW s \in Session, Downstream(s), Numbered(s)
    PROVE  /\ incoming[s] \in Seq(DownMessage(Typed))
           /\ toClient[s] \in Seq(DownMessage(Typed))
           /\ Waiting(s) \in Seq(DownMessage(Typed))
           /\ OpsDown(incoming[s]) \cup OpsDown(toClient[s]) \cup OpsDown(Waiting(s))
                 \subseteq Stored(WantedDocument[s])
           /\ \A op \in OpsDown(incoming[s]) \cup OpsDown(toClient[s])
                           \cup OpsDown(Waiting(s)) : op[1] # s
           /\ Reads(Told(s), OwnOps(s), LogOf(s))
           /\ Reads(Written(s), OwnOps(s), LogOf(s))
           /\ Written(s) \cup OpsDown(Waiting(s))
                 \subseteq OwnOps(s) \cup Stored(WantedDocument[s])
           /\ OwnOps(s) \subseteq known[s]
           /\ \A op \in OwnOps(s) : op[1] = s
<1> DEFINE D == Stored(WantedDocument[s])
           O == OwnOps(s)
           L == LogOf(s)
           p == incoming[s]
           q == toClient[s]
           w == Waiting(s)
           K == known[s]
<1>1. /\ p \in Seq(DownMessage(Typed)) /\ q \in Seq(DownMessage(Typed))
      /\ w \in Seq(DownMessage(Typed))
  BY WaitingTyped DEF Typing, ClientTyping, ChannelTyping
<1>2. /\ Reads(K, O, L)
      /\ Disjoint(p, K) /\ Follows(p, K, Places, O, L)
      /\ Disjoint(q, Told(s)) /\ Follows(q, Told(s), Places, O, L)
      /\ Disjoint(w, Written(s)) /\ OpsDown(w) \subseteq D
  BY DEF Downstream
<1>3. /\ Told(s) = K \cup OpsDown(p) /\ Written(s) = Told(s) \cup OpsDown(q)
      /\ O \subseteq K /\ \A op \in O : op[1] = s
  BY DEF Told, Written, OwnOps
<1>4. \A op \in Typed : op[1] = s => op \in K
  BY DEF Numbered
<1> HIDE DEF p, q, w, K, O, L
<1>5. Reads(Told(s), O, L)
  BY <1>1, <1>2, <1>3, FollowsEnds
<1>6. Reads(Written(s), O, L)
  BY <1>1, <1>2, <1>3, <1>5, FollowsEnds
<1>7. Written(s) \subseteq O \cup D
  BY <1>6, ReadsBound DEF L
<1>8. /\ OpsDown(p) \cap K = {} /\ OpsDown(q) \cap Told(s) = {}
      /\ OpsDown(w) \cap Written(s) = {}
  BY <1>1, <1>2, DisjointEnds
<1>9. OpsDown(p) \cup OpsDown(q) \cup OpsDown(w) \subseteq Typed
  BY <1>1, DownOps
<1>10. OpsDown(p) \cup OpsDown(q) \cup OpsDown(w) \subseteq D
  BY <1>2, <1>3, <1>7, <1>8
<1>11. \A op \in OpsDown(p) \cup OpsDown(q) \cup OpsDown(w) : op[1] # s
  BY <1>3, <1>4, <1>8, <1>9
<1> QED  BY <1>1, <1>2, <1>3, <1>5, <1>6, <1>7, <1>10, <1>11 DEF p, q, w, O, L, K

-----------------------------------------------------------------------------
(***************************************************************************)
(* What a step leaves alone.                                               *)
(***************************************************************************)
LEMMA UpstreamKept ==
    ASSUME Typing, NEW t \in Session, Upstream(t),
           conn'[t] # "DISCONNECTED" => conn[t] # "DISCONNECTED",
           net'[t] # "DISCONNECTED" => net[t] # "DISCONNECTED",
           toServer'[t] = toServer[t], outgoing'[t] = outgoing[t],
           known'[t] = known[t], dropped \subseteq dropped',
           \A op \in Typed : past'[op] = past[op],
           Stored(WantedDocument[t]) \subseteq Stored(WantedDocument[t])',
           \A e \in Stored(WantedDocument[t])' :
              e[1] = t => e \in Stored(WantedDocument[t])
    PROVE  Upstream(t)'
<1> DEFINE B == Settled(t)
           S == Stored(WantedDocument[t])
           p == toServer[t]
           q == outgoing[t]
<1> SUFFICES ASSUME conn'[t] # "DISCONNECTED"
             PROVE  /\ InOrder(t, p, past', B', S')
                    /\ net'[t] # "DISCONNECTED" =>
                          /\ InOrder(t, q, past', B' \cup OpsUp(p), S' \cup OpsUp(p))
                          /\ known[t] \subseteq B' \cup OpsUp(p) \cup OpsUp(q)
  BY DEF Upstream
<1>1. /\ InOrder(t, p, past, B, S)
      /\ net[t] # "DISCONNECTED" =>
            /\ InOrder(t, q, past, B \cup OpsUp(p), S \cup OpsUp(p))
            /\ known[t] \subseteq B \cup OpsUp(p) \cup OpsUp(q)
  BY DEF Upstream
<1>2. p \in Seq(UpMessage(Typed)) /\ q \in Seq(UpMessage(Typed))
  BY DEF Typing, ChannelTyping, ClientTyping
<1>3. B \subseteq B' /\ \A e \in S' : e[1] = t => e \in S
  BY DEF Settled
<1>4. /\ B \cup OpsUp(p) \subseteq B' \cup OpsUp(p)
      /\ \A e \in S' \cup OpsUp(p) : e[1] = t => e \in S \cup OpsUp(p)
  BY <1>3
<1> HIDE DEF p, q, B, S
<1>5. InOrder(t, p, past', B', S')
  BY <1>1, <1>2, <1>3, UpMore
<1>6. ASSUME net'[t] # "DISCONNECTED"
      PROVE  InOrder(t, q, past', B' \cup OpsUp(p), S' \cup OpsUp(p))
  <2> DEFINE C == B \cup OpsUp(p)
             C2 == B' \cup OpsUp(p)
             R == S \cup OpsUp(p)
             R2 == S' \cup OpsUp(p)
  <2>1. InOrder(t, q, past, C, R)
    BY <1>1, <1>6
  <2>2. C \subseteq C2 /\ \A e \in R2 : e[1] = t => e \in R
    BY <1>4
  <2> HIDE DEF C, C2, R, R2
  <2>3. InOrder(t, q, past', C2, R2)
    BY <1>2, <2>1, <2>2, UpMore
  <2> QED  BY <2>3 DEF C2, R2
<1> QED  BY <1>1, <1>3, <1>5, <1>6

LEMMA NumberedKept ==
    ASSUME NEW t \in Session, Numbered(t),
           \A op \in Typed' : op[1] = t => op \in Typed /\ past'[op] = past[op],
           known[t] \subseteq known'[t], OwnOps(t)' = OwnOps(t),
           cursor'[t] \in known'[t] \cup {Start}
    PROVE  Numbered(t)'
BY DEF Numbered

LEMMA DownstreamKept ==
    ASSUME Typing, Registry, NEW t \in Session, NEW E, Downstream(t), Numbered(t),
           known'[t] = known[t] \cup E, OwnOps(t)' = OwnOps(t) \cup E,
           E \cap Stored(WantedDocument[t]) = {},
           incoming'[t] = incoming[t], toClient'[t] = toClient[t],
           remote_cursors'[t] = remote_cursors[t],
           Waiting(t)' = Waiting(t), dropped \subseteq dropped',
           LogOf(t)' = LogOf(t),
           Stored(WantedDocument[t])' = Stored(WantedDocument[t]),
           IsConnected(t)' => IsConnected(t) \/ Waiting(t) = <<>>,
           IsConnected(t)' /\ (IsSyncing(t) \/ IsLive(t))'
              => IsConnected(t) /\ (IsSyncing(t) \/ IsLive(t))
    PROVE  Downstream(t)'
<1> DEFINE D == Stored(WantedDocument[t])
           O == OwnOps(t)
           L == LogOf(t)
           p == incoming[t]
           q == toClient[t]
           w == Waiting(t)
           K == known[t]
           J == Told(t)
           H == Written(t)
<1>1. /\ Reads(K, O, L)
      /\ Disjoint(p, K) /\ Follows(p, K, Places, O, L)
      /\ Disjoint(q, J) /\ Follows(q, J, Places, O, L)
      /\ Disjoint(w, H) /\ OpsDown(w) \subseteq D
      /\ IsConnected(t) => Follows(w, H, Places, O, L)
      /\ IsConnected(t) /\ (IsSyncing(t) \/ IsLive(t)) => D \subseteq H \cup OpsDown(w)
      /\ \A c \in Client : remote_cursors[t][c] \in K \cup Places \cup {None}
  BY DEF Downstream
<1>2. /\ p \in Seq(DownMessage(Typed)) /\ q \in Seq(DownMessage(Typed))
      /\ w \in Seq(DownMessage(Typed))
      /\ OpsDown(p) \cup OpsDown(q) \cup OpsDown(w) \subseteq D
  BY OnTheWay
<1>3. Extended(L, L)
  BY LogTyped
<1>4. /\ J = K \cup OpsDown(p) /\ H = J \cup OpsDown(q)
      /\ Told(t)' = (K \cup E) \cup OpsDown(p)
      /\ Written(t)' = ((K \cup E) \cup OpsDown(p)) \cup OpsDown(q)
  BY DEF Told, Written
<1>5. Places \subseteq Places'
  BY DEF Places
<1> DEFINE Y == Places'
           X == Places
<1> HIDE DEF D, O, L, p, q, w, K, J, H, X, Y
<1>6. /\ (K \cup E) \cup OpsDown(p) = J \cup E
      /\ ((K \cup E) \cup OpsDown(p)) \cup OpsDown(q) = H \cup E
  BY <1>4
<1>7. /\ \A i \in DOMAIN p : Carried(p[i]) \cap E = {}
      /\ \A i \in DOMAIN q : Carried(q[i]) \cap E = {}
      /\ \A i \in DOMAIN w : Carried(w[i]) \cap E = {}
  <2>1. E \cap D = {}
    BY DEF D
  <2>2. /\ \A i \in DOMAIN p : Carried(p[i]) \subseteq OpsDown(p)
        /\ \A i \in DOMAIN q : Carried(q[i]) \subseteq OpsDown(q)
        /\ \A i \in DOMAIN w : Carried(w[i]) \subseteq OpsDown(w)
    BY <1>1, <1>2, DisjointEnds
  <2> QED  BY <1>2, <2>1, <2>2
<1>8. Disjoint(p, K \cup E) /\ Disjoint(q, J \cup E) /\ Disjoint(w, H \cup E)
  <2>1. Disjoint(p, K \cup E)
    BY <1>1, <1>7, DisjointMore
  <2>2. Disjoint(q, J \cup E)
    BY <1>1, <1>7, DisjointMore
  <2>3. Disjoint(w, H \cup E)
    BY <1>1, <1>7, DisjointMore
  <2> QED  BY <2>1, <2>2, <2>3
<1>9. X \subseteq Y
  BY <1>5 DEF X, Y
<1>10. /\ Reads(K \cup E, O \cup E, L)
       /\ Follows(p, K \cup E, Y, O \cup E, L)
       /\ Follows(q, J \cup E, Y, O \cup E, L)
       /\ IsConnected(t)' => Follows(w, H \cup E, Y, O \cup E, L)
  <2>1. /\ Reads(K, O, L) /\ Follows(p, K, X, O, L) /\ Follows(q, J, X, O, L)
        /\ IsConnected(t) => Follows(w, H, X, O, L)
    BY <1>1 DEF X
  <2>2. Reads(K \cup E, O \cup E, L)
    BY <1>3, <2>1, ReadsMore
  <2>3. Follows(p, K \cup E, Y, O \cup E, L)
    BY <1>3, <1>9, <2>1, FollowsMore
  <2>4. Follows(q, J \cup E, Y, O \cup E, L)
    BY <1>3, <1>9, <2>1, FollowsMore
  <2>5. CASE IsConnected(t)
    <3>1. Follows(w, H \cup E, Y, O \cup E, L)
      BY <1>3, <1>9, <2>1, <2>5, FollowsMore
    <3> QED  BY <2>2, <2>3, <2>4, <3>1
  <2>6. CASE w = <<>>
    <3>1. Follows(w, H \cup E, Y, O \cup E, L)
      BY <2>6, FollowsOne
    <3> QED  BY <2>2, <2>3, <2>4, <3>1
  <2>7. CASE ~IsConnected(t)'
    BY <2>2, <2>3, <2>4, <2>7
  <2> QED  BY <2>5, <2>6, <2>7 DEF w
<1>11. \A c \in Client : remote_cursors'[t][c] \in (K \cup E) \cup Y \cup {None}
  BY <1>1, <1>9 DEF X
<1>12. IsConnected(t)' /\ (IsSyncing(t) \/ IsLive(t))' => D \subseteq (H \cup E) \cup OpsDown(w)
  BY <1>1
<1>13. /\ Told(t)' = J \cup E /\ Written(t)' = H \cup E
       /\ known'[t] = K \cup E /\ OwnOps(t)' = O \cup E /\ LogOf(t)' = L
       /\ Stored(WantedDocument[t])' = D /\ Waiting(t)' = w
       /\ incoming'[t] = p /\ toClient'[t] = q /\ Places' = Y
  BY <1>4, <1>6 DEF K, O, L, D, w, p, q, Y
<1> QED  BY <1>1, <1>8, <1>10, <1>11, <1>12, <1>13 DEF Downstream

LEMMA FreshKept ==
    ASSUME NEW t \in Session, Fresh(t), conn'[t] = conn[t],
           incoming'[t] = incoming[t],
           known[t] = OwnOps(t) => known'[t] = OwnOps(t)',
           conn[t] = "REGISTERED" => pending_sync_operations'[ClientOf[t]]
                                        = pending_sync_operations[ClientOf[t]],
           \A d \in DOMAIN rows' : \A op \in Stored(d)' :
              op[1] = t => conn[t] = "LIVE" \/ (d \in DOMAIN rows /\ op \in Stored(d))
    PROVE  Fresh(t)'
BY DEF Fresh

\* A session that the step of another one does not concern.
LEMMA OtherKept ==
    ASSUME Typing, Registry, NEW t \in Session,
           Upstream(t), Numbered(t), Downstream(t), Fresh(t),
           conn'[t] = conn[t], current_document'[t] = current_document[t],
           net'[t] = net[t], toServer'[t] = toServer[t], toClient'[t] = toClient[t],
           incoming'[t] = incoming[t], outgoing'[t] = outgoing[t],
           known'[t] = known[t], cursor'[t] = cursor[t],
           remote_cursors'[t] = remote_cursors[t],
           conn[t] \in {"REGISTERED", "SYNCING"} =>
              pending_sync_operations'[ClientOf[t]]
                 = pending_sync_operations[ClientOf[t]],
           dropped \subseteq dropped', \A op \in Typed : past'[op] = past[op],
           \A op \in Typed' : op[1] = t => op \in Typed,
           \A d \in DocumentID : Stored(d)' = Stored(d), LogOf(t)' = LogOf(t),
           DOMAIN rows' \subseteq DocumentID
    PROVE  Upstream(t)' /\ Numbered(t)' /\ Downstream(t)' /\ Fresh(t)'
<1>1. WantedDocument[t] \in DocumentID
  BY SessionAssumption
<1>2. Upstream(t)'
  BY <1>1, UpstreamKept
<1>3. OwnOps(t)' = OwnOps(t)
  BY DEF OwnOps
<1>4. Numbered(t)'
  BY <1>3, NumberedKept DEF Numbered
<1>5. IsConnected(t)' <=> IsConnected(t)
  BY DEF IsConnected
<1>6. IsSyncing(t)' <=> IsSyncing(t)
  BY DEF IsSyncing
<1>7. IsLive(t)' <=> IsLive(t)
  BY DEF IsLive
<1>8. Waiting(t)' = Waiting(t)
  BY <1>6 DEF Waiting, WaitingFor, IsSyncing
<1>9. Downstream(t)'
  <2>1. /\ known'[t] = known[t] \cup {} /\ OwnOps(t)' = OwnOps(t) \cup {}
        /\ {} \cap Stored(WantedDocument[t]) = {}
    BY <1>3
  <2> QED  BY <1>1, <1>5, <1>6, <1>7, <1>8, <2>1, DownstreamKept
<1>10. Fresh(t)'
  <2>1. \A d \in DOMAIN rows' : \A op \in Stored(d)' : d \in DOMAIN rows /\ op \in Stored(d)
    BY DEF Stored
  <2> QED  BY <1>3, <2>1, FreshKept
<1> QED  BY <1>2, <1>4, <1>9, <1>10

LEMMA RowsKept ==
    ASSUME \/ rows' = rows
           \/ \E d \in DocumentID \ DOMAIN rows : rows' = Put(rows, d, <<>>)
    PROVE  /\ \A d : Stored(d)' = Stored(d)
           /\ \A s \in Session : LogOf(s)' = LogOf(s)
           /\ \A d \in DOMAIN rows' : \A i \in DOMAIN rows'[d] :
                 d \in DOMAIN rows /\ i \in DOMAIN rows[d] /\ rows'[d] = rows[d]
<1>1. CASE rows' = rows
  BY <1>1 DEF Stored, LogOf
<1>2. ASSUME NEW d \in DocumentID \ DOMAIN rows, rows' = Put(rows, d, <<>>)
      PROVE  /\ \A e : Stored(e)' = Stored(e)
             /\ \A s \in Session : LogOf(s)' = LogOf(s)
             /\ \A e \in DOMAIN rows' : \A i \in DOMAIN rows'[e] :
                   e \in DOMAIN rows /\ i \in DOMAIN rows[e] /\ rows'[e] = rows[e]
  <2>1. /\ DOMAIN rows' = DOMAIN rows \cup {d} /\ rows'[d] = <<>>
        /\ \A e \in DOMAIN rows : rows'[e] = rows[e]
    BY <1>2 DEF Put
  <2>2. ToSet(<<>>) = {} /\ DOMAIN <<>> = {}
    BY DEF ToSet
  <2>3. \A e : Stored(e)' = Stored(e)
    BY <1>2, <2>1, <2>2 DEF Stored
  <2>4. \A s \in Session : LogOf(s)' = LogOf(s)
    BY <1>2, <2>1 DEF LogOf
  <2> QED  BY <2>1, <2>2, <2>3, <2>4
<1> QED  BY <1>1, <1>2

LEMMA LogInvKept ==
    ASSUME Typing, LogInv, dropped \subseteq dropped',
           \/ rows' = rows
           \/ \E d \in DocumentID \ DOMAIN rows : rows' = Put(rows, d, <<>>),
           \A op \in Typed : past'[op] = past[op],
           \A c \in DOMAIN presence' :
              presence'[c] \in Places' \cup Stored(WantedDocument[clients'[c]])
    PROVE  LogInv'
<1>1. /\ \A d : Stored(d)' = Stored(d)
      /\ \A d \in DOMAIN rows' : \A i \in DOMAIN rows'[d] :
            d \in DOMAIN rows /\ i \in DOMAIN rows[d] /\ rows'[d] = rows[d]
  BY RowsKept
<1>2. \A d \in DOMAIN rows : \A i \in DOMAIN rows[d] : rows[d][i] \in Typed
  BY DEF Typing, ServerTyping
<1>3. \A d \in DOMAIN rows' : \A i \in DOMAIN rows'[d] :
         /\ WantedDocument[rows'[d][i][1]] = d
         /\ past'[rows'[d][i]] \subseteq dropped' \cup FirstOf(rows'[d], i - 1)
  BY <1>1, <1>2 DEF LogInv
<1> QED  BY <1>1, <1>3 DEF LogInv

LEMMA PresenceKept ==
    ASSUME LogInv, dropped \subseteq dropped',
           NEW c \in DOMAIN presence, presence'[c] = presence[c],
           clients'[c] = clients[c]
    PROVE  presence'[c] \in Places' \cup Stored(WantedDocument[clients'[c]])
BY DEF LogInv, Places

\* A step that concerns one session.
LEMMA SessionStep ==
    ASSUME Streams, NEW s \in Session, dropped \subseteq dropped',
           \/ rows' = rows
           \/ \E d \in DocumentID \ DOMAIN rows : rows' = Put(rows, d, <<>>),
           \A op \in Typed : past'[op] = past[op],
           \A op \in Typed' : op \in Typed \/ op[1] = s,
           \A t \in Session \ {s} :
              /\ conn'[t] = conn[t] /\ current_document'[t] = current_document[t]
              /\ net'[t] = net[t]
              /\ toServer'[t] = toServer[t] /\ toClient'[t] = toClient[t]
              /\ incoming'[t] = incoming[t] /\ outgoing'[t] = outgoing[t]
              /\ known'[t] = known[t] /\ cursor'[t] = cursor[t]
              /\ remote_cursors'[t] = remote_cursors[t]
              /\ conn[t] \in {"REGISTERED", "SYNCING"} =>
                    pending_sync_operations'[ClientOf[t]]
                       = pending_sync_operations[ClientOf[t]],
           \A c \in DOMAIN presence' :
              presence'[c] \in Places' \cup Stored(WantedDocument[clients'[c]]),
           Upstream(s)', Numbered(s)', Downstream(s)', Fresh(s)'
    PROVE  Flows'
<1>1. Typing /\ Registry /\ LogInv
  BY DEF Streams, Base, Flows
<1>2. LogInv'
  BY <1>1, LogInvKept
<1>3. DOMAIN rows' \subseteq DocumentID
  BY <1>1 DEF Typing, ServerTyping, Put
<1>4. ASSUME NEW t \in Session \ {s}
      PROVE  Upstream(t)' /\ Numbered(t)' /\ Downstream(t)' /\ Fresh(t)'
  <2>1. Upstream(t) /\ Numbered(t) /\ Downstream(t) /\ Fresh(t)
    BY DEF Streams, Flows
  <2>2. /\ \A d \in DocumentID : Stored(d)' = Stored(d)
        /\ LogOf(t)' = LogOf(t)
    BY RowsKept
  <2>3. \A op \in Typed' : op[1] = t => op \in Typed
    OBVIOUS
  <2> QED  BY <1>1, <1>3, <2>1, <2>2, <2>3, OtherKept
<1> QED  BY <1>2, <1>4 DEF Flows

\* A step of a session's own threads, which leaves the server's maps alone.
LEMMA ClientStep ==
    ASSUME Streams, NEW s \in Session, UNCHANGED server, dropped \subseteq dropped',
           \A op \in Typed : past'[op] = past[op],
           \A op \in Typed' : op \in Typed \/ op[1] = s,
           \A t \in Session \ {s} :
              /\ net'[t] = net[t]
              /\ toServer'[t] = toServer[t] /\ toClient'[t] = toClient[t]
              /\ incoming'[t] = incoming[t] /\ outgoing'[t] = outgoing[t]
              /\ known'[t] = known[t] /\ cursor'[t] = cursor[t]
              /\ remote_cursors'[t] = remote_cursors[t],
           Upstream(s)', Numbered(s)', Downstream(s)', Fresh(s)'
    PROVE  Flows'
<1>1. UNCHANGED <<conn, current_document, clients, pending_sync_operations,
                  presence, rows>>
  BY DEF server
<1>2. LogInv
  BY DEF Streams, Flows
<1>3. \A c \in DOMAIN presence' :
         presence'[c] \in Places' \cup Stored(WantedDocument[clients'[c]])
  BY <1>1, <1>2, PresenceKept
<1> QED  BY <1>1, <1>3, SessionStep

\* Nothing of the session that the server or another session sees changes.
LEMMA DownstreamSame ==
    ASSUME Streams, NEW s \in Session, UNCHANGED server,
           dropped \subseteq dropped', UNCHANGED <<known, incoming, toClient,
           remote_cursors>>,
           IsConnected(s)' => IsConnected(s) \/ ~(IsSyncing(s) \/ IsLive(s))
    PROVE  Downstream(s)' /\ Fresh(s)'
<1>1. UNCHANGED <<conn, current_document, clients, pending_sync_operations,
                  presence, rows>>
  BY DEF server
<1>2. Typing /\ Registry /\ Downstream(s) /\ Numbered(s) /\ Fresh(s)
  BY DEF Streams, Base, Flows
<1>3. /\ OwnOps(s)' = OwnOps(s) /\ Waiting(s)' = Waiting(s)
      /\ (IsSyncing(s) \/ IsLive(s))' <=> (IsSyncing(s) \/ IsLive(s))
      /\ LogOf(s)' = LogOf(s)
      /\ \A d : Stored(d)' = Stored(d)
  BY <1>1 DEF OwnOps, Waiting, WaitingFor, IsSyncing, IsLive, LogOf, Stored
<1>4. ~IsSyncing(s) => Waiting(s) = <<>>
  BY DEF Waiting
<1>5. Downstream(s)'
  <2>1. /\ known'[s] = known[s] \cup {} /\ OwnOps(s)' = OwnOps(s) \cup {}
        /\ {} \cap Stored(WantedDocument[s]) = {}
    BY <1>3
  <2> QED  BY <1>1, <1>2, <1>3, <1>4, <2>1, DownstreamKept
<1>6. Fresh(s)'
  BY <1>1, <1>2, <1>3, FreshKept
<1> QED  BY <1>5, <1>6

\* The session keeps what it knows and where its cursor is.
LEMMA NumberedSame ==
    ASSUME Streams, NEW s \in Session, UNCHANGED <<known, cursor, past>>
    PROVE  Numbered(s)' /\ Typed' = Typed
<1>1. Numbered(s) /\ OwnOps(s)' = OwnOps(s) /\ Typed' = Typed
  BY DEF Streams, Flows, OwnOps, Typed
<1> QED  BY <1>1, NumberedKept DEF Numbered

-----------------------------------------------------------------------------
(***************************************************************************)
(* The invariant is inductive: the steps of a session's own threads.       *)
(***************************************************************************)
LEMMA ConnectFlows ==
    ASSUME Streams, NEW s \in Session, Connect(s) \/ ConnectFails(s)
    PROVE  Flows'
<1>1. /\ UNCHANGED <<server, channels, ui, queues, dropped, past, moves>>
      /\ net[s] # "DISCONNECTED" /\ net'[s] \in {"CONNECTING", "DISCONNECTED"}
      /\ \A t \in Session \ {s} : net'[t] = net[t]
  BY DEF Connect, ConnectFails, history, Streams, Base, Typing, ClientTyping
<1>2. /\ UNCHANGED <<toServer, toClient, incoming, outgoing, known, cursor,
                     remote_cursors>>
      /\ UNCHANGED <<conn, rows>>
  BY <1>1 DEF channels, ui, queues, server
<1>3. Numbered(s)' /\ Typed' = Typed
  BY <1>1, <1>2, NumberedSame
<1>4. Downstream(s)' /\ Fresh(s)'
  BY <1>1, <1>2, DownstreamSame DEF IsConnected
<1>5. Upstream(s)'
  <2>1. Typing /\ Upstream(s) /\ Stored(WantedDocument[s])' = Stored(WantedDocument[s])
    BY <1>2 DEF Streams, Base, Flows, Stored
  <2> QED  BY <1>1, <1>2, <2>1, UpstreamKept
<1> QED  BY <1>1, <1>2, <1>3, <1>4, <1>5, ClientStep

LEMMA ConnectedFlows ==
    ASSUME Streams, NEW s \in Session, Connected(s)
    PROVE  Flows'
<1> DEFINE m == [type |-> "HELLO"]
<1>1. /\ net[s] = "CONNECTING"
      /\ \A t \in Session :
           /\ net'[t] = IF t = s THEN "REGISTERING" ELSE net[t]
           /\ conn'[t] = IF t = s THEN "UNREGISTERED" ELSE conn[t]
           /\ toServer'[t] = IF t = s THEN <<m>> ELSE toServer[t]
      /\ UNCHANGED <<current_document, clients, pending_sync_operations,
                     presence, rows, toClient, incoming, outgoing, known, cursor,
                     remote_cursors, dropped, past>>
  BY DEF Connected, queues, ui, history, Streams, Base, Typing, ServerTyping,
         ChannelTyping, ClientTyping
<1>2. /\ Typing /\ Registry /\ conn[s] = "NONE" /\ toServer[s] = <<>>
      /\ Upstream(s) /\ Downstream(s) /\ Numbered(s) /\ Fresh(s) /\ LogInv
  BY <1>1 DEF Streams, Base, Flows, Stages, Stage
<1>3. Numbered(s)' /\ Typed' = Typed
  BY <1>1, NumberedSame
<1>4. /\ Stored(WantedDocument[s])' = Stored(WantedDocument[s])
      /\ LogOf(s)' = LogOf(s) /\ OwnOps(s)' = OwnOps(s)
      /\ ~IsSyncing(s) /\ ~IsSyncing(s)' /\ ~IsLive(s)'
  BY <1>1, <1>2 DEF Stored, LogOf, OwnOps, IsSyncing, IsLive
<1>5. Waiting(s) = <<>> /\ Waiting(s)' = <<>>
  BY <1>4 DEF Waiting
<1>6. Downstream(s)'
  <2>1. /\ known'[s] = known[s] \cup {} /\ OwnOps(s)' = OwnOps(s) \cup {}
        /\ {} \cap Stored(WantedDocument[s]) = {}
    BY <1>1, <1>4
  <2> QED  BY <1>1, <1>2, <1>4, <1>5, <2>1, DownstreamKept
<1>7. Fresh(s)'
  <2>1. \A d : Stored(d)' = Stored(d)
    BY <1>1 DEF Stored
  <2> QED  BY <1>1, <1>2, <1>4, <2>1 DEF Fresh
<1>8. Upstream(s)'
  <2>1. /\ InOrder(s, toServer[s], past, Settled(s), Stored(WantedDocument[s]))
        /\ InOrder(s, outgoing[s], past, Settled(s) \cup OpsUp(toServer[s]),
                   Stored(WantedDocument[s]) \cup OpsUp(toServer[s]))
        /\ known[s] \subseteq Settled(s) \cup OpsUp(toServer[s])
                                \cup OpsUp(outgoing[s])
    BY <1>1, <1>2 DEF Upstream
  <2>2. OpsUp(<<m>>) = {} /\ OpsUp(toServer[s]) = {}
    BY <1>2, UpToOne DEF OpOf
  <2>3. InOrder(s, <<m>>, past, Settled(s), Stored(WantedDocument[s]))
    <3>1. Fits(s, m, past, Settled(s), Stored(WantedDocument[s]))
      BY DEF Fits
    <3> QED  BY <3>1, InOrderOne
  <2>4. Settled(s)' = Settled(s)
    BY <1>1, <1>4 DEF Settled
  <2>5. toServer'[s] = <<m>> /\ outgoing'[s] = outgoing[s] /\ known'[s] = known[s]
    BY <1>1
  <2> HIDE DEF m
  <2> QED  BY <1>1, <1>4, <2>1, <2>2, <2>3, <2>4, <2>5 DEF Upstream
<1>9. \A c \in DOMAIN presence' :
         presence'[c] \in Places' \cup Stored(WantedDocument[clients'[c]])
  BY <1>1, <1>2, PresenceKept
<1> QED  BY <1>1, <1>3, <1>6, <1>7, <1>8, <1>9, SessionStep

LEMMA SendOpenDocumentFlows ==
    ASSUME Streams, NEW s \in Session, SendOpenDocument(s)
    PROVE  Flows'
<1> DEFINE m == [type |-> "OPEN_DOCUMENT", document |-> WantedDocument[s]]
           q == toServer[s]
<1>1. /\ net[s] = "REGISTERED"
      /\ \A t \in Session :
           /\ net'[t] = IF t = s THEN "SYNCING" ELSE net[t]
           /\ toServer'[t] = IF t = s THEN Append(q, m) ELSE toServer[t]
      /\ UNCHANGED server
      /\ UNCHANGED <<conn, rows, toClient, incoming, outgoing, known, cursor,
                     remote_cursors, dropped, past>>
  BY DEF SendOpenDocument, server, queues, ui, history, Streams, Base, Typing,
         ChannelTyping, ClientTyping
<1>2. Typing /\ Upstream(s)
  BY DEF Streams, Base, Flows
<1>3. Numbered(s)' /\ Typed' = Typed
  BY <1>1, NumberedSame
<1>4. Downstream(s)' /\ Fresh(s)'
  BY <1>1, DownstreamSame DEF IsConnected
<1>5. Stored(WantedDocument[s])' = Stored(WantedDocument[s]) /\ Settled(s)' = Settled(s)
  BY <1>1 DEF Stored, Settled
<1>6. /\ q \in Seq(UpMessage(Typed)) /\ m \in UpMessage(Typed)
      /\ OpOf(m) = {} /\ \A B, S : Fits(s, m, past, B, S)
  BY <1>2, UpFrom, SessionAssumption DEF Typing, ChannelTyping, OpOf, Fits
<1>7. /\ conn[s] # "DISCONNECTED" =>
            InOrder(s, q, past, Settled(s), Stored(WantedDocument[s]))
      /\ toServer'[s] = Append(q, m) /\ net[s] # "DISCONNECTED"
  BY <1>1, <1>2 DEF Upstream
<1> HIDE DEF m, q
<1>8. /\ conn[s] # "DISCONNECTED" =>
            InOrder(s, Append(q, m), past, Settled(s), Stored(WantedDocument[s]))
      /\ OpsUp(Append(q, m)) = OpsUp(q)
  <2>1. OpsUp(Append(q, m)) = OpsUp(q) \cup OpOf(m)
    BY <1>6, UpOneMore
  <2>2. OpsUp(Append(q, m)) = OpsUp(q)
    BY <1>6, <2>1
  <2> QED  BY <1>6, <1>7, <2>2, UpAppended
<1>9. Upstream(s)'
  BY <1>1, <1>2, <1>5, <1>7, <1>8 DEF Upstream, q
<1> QED  BY <1>1, <1>3, <1>4, <1>9, ClientStep

\* disconnect_impl.
LEMMA ClosedFlows ==
    ASSUME Streams, NEW s \in Session, Close(s),
           UNCHANGED <<server, ui, queues, dropped, past>>
    PROVE  Flows'
<1>1. PICK n \in 0..Len(toServer[s]) :
         \A t \in Session : toServer'[t] = IF t = s THEN SubSeq(toServer[s], 1, n)
                                           ELSE toServer[t]
  BY Closed DEF Streams, Base
<1>2. /\ \A t \in Session : /\ net'[t] = IF t = s THEN "DISCONNECTED" ELSE net[t]
                            /\ toClient'[t] = IF t = s THEN <<>> ELSE toClient[t]
      /\ UNCHANGED <<conn, rows, current_document, clients,
                     pending_sync_operations, incoming, outgoing, known, cursor,
                     remote_cursors>>
  BY Closed DEF Streams, Base, server, ui, queues
<1>3. /\ Typing /\ Registry /\ Upstream(s) /\ Downstream(s) /\ Fresh(s)
      /\ Numbered(s)
  BY DEF Streams, Base, Flows
<1>4. Numbered(s)' /\ Typed' = Typed
  BY <1>2, NumberedSame
<1>5. /\ Stored(WantedDocument[s])' = Stored(WantedDocument[s])
      /\ Settled(s)' = Settled(s) /\ LogOf(s)' = LogOf(s)
      /\ OwnOps(s)' = OwnOps(s) /\ Waiting(s)' = Waiting(s)
      /\ ~IsConnected(s)' /\ Places' = Places
  BY <1>2 DEF Stored, Settled, LogOf, OwnOps, Waiting, WaitingFor, IsSyncing,
              IsConnected, Places
<1>6. Upstream(s)'
  <2>1. toServer[s] \in Seq(UpMessage(Typed))
    BY <1>3 DEF Typing, ChannelTyping
  <2>2. conn[s] # "DISCONNECTED" =>
           InOrder(s, SubSeq(toServer[s], 1, n), past, Settled(s),
                   Stored(WantedDocument[s]))
    BY <1>3, <2>1, UpPrefix DEF Upstream
  <2>3. toServer'[s] = SubSeq(toServer[s], 1, n) /\ net'[s] = "DISCONNECTED"
    BY <1>1, <1>2
  <2> QED  BY <1>2, <1>5, <2>2, <2>3 DEF Upstream
<1>7. Downstream(s)'
  <2>1. Told(s)' = Told(s) /\ Written(s)' = Told(s)
    <3>1. OpsDown(<<>>) = {} /\ toClient'[s] = <<>>
      BY <1>2, CarriedOne
    <3> QED  BY <1>2, <3>1 DEF Told, Written
  <2>2. /\ Disjoint(<<>>, Told(s))
        /\ Follows(<<>>, Told(s), Places, OwnOps(s), LogOf(s))
    BY FollowsOne
  <2>3. Disjoint(Waiting(s), Told(s))
    <3>1. Disjoint(Waiting(s), Written(s)) /\ Told(s) \subseteq Written(s)
      BY <1>3 DEF Downstream, Written
    <3> QED  BY <3>1, DisjointMore
  <2>4. toClient'[s] = <<>>
    BY <1>2
  <2> QED  BY <1>2, <1>3, <1>5, <2>1, <2>2, <2>3, <2>4 DEF Downstream
<1>8. Fresh(s)'
  <2>1. \A d : Stored(d)' = Stored(d)
    BY <1>2 DEF Stored
  <2> QED  BY <1>2, <1>3, <1>5, <2>1, FreshKept
<1> QED  BY <1>1, <1>2, <1>4, <1>6, <1>7, <1>8, ClientStep

LEMMA MoveCursorFlows ==
    ASSUME Streams, NEW s \in Session, MoveCursor(s)
    PROVE  Flows'
<1>1. PICK position \in known[s] \cup {Start} :
         cursor' = [cursor EXCEPT ![s] = position]
  BY DEF MoveCursor
<1>2. /\ UNCHANGED <<server, channels, net, known, remote_cursors, queues,
                     dropped, past>>
      /\ UNCHANGED <<conn, rows, toServer, toClient, incoming, outgoing>>
  BY DEF MoveCursor, server, channels, queues
<1>3. cursor'[s] = position /\ \A t \in Session \ {s} : cursor'[t] = cursor[t]
  BY <1>1 DEF Streams, Base, Typing, ClientTyping
<1>4. Typed' = Typed /\ OwnOps(s)' = OwnOps(s)
  BY <1>2 DEF Typed, OwnOps
<1>5. Typing /\ Upstream(s) /\ Numbered(s)
  BY DEF Streams, Base, Flows
<1>6. Numbered(s)'
  BY <1>2, <1>3, <1>4, <1>5, NumberedKept
<1>7. Downstream(s)' /\ Fresh(s)'
  BY <1>2, DownstreamSame DEF IsConnected
<1>8. Upstream(s)'
  <2>1. Stored(WantedDocument[s])' = Stored(WantedDocument[s])
    BY <1>2 DEF Stored
  <2> QED  BY <1>2, <1>5, <2>1, UpstreamKept
<1> QED  BY <1>2, <1>3, <1>4, <1>6, <1>7, <1>8, ClientStep

\* handle_message takes the first message that waits for the client.
LEMMA HandledDownstream ==
    ASSUME Streams, NEW s \in Session, toClient[s] # <<>>,
           \/ incoming'[s] = incoming[s] /\ Carried(Head(toClient[s])) = {}
           \/ incoming'[s] = Append(incoming[s], Head(toClient[s])),
           toClient'[s] = Tail(toClient[s]), UNCHANGED <<server, ui, dropped>>,
           IsConnected(s)' <=> IsConnected(s)
    PROVE  Downstream(s)'
<1> DEFINE p == incoming[s]
           p2 == incoming'[s]
           q == toClient[s]
           r == Tail(toClient[s])
           m == Head(toClient[s])
           K == known[s]
           J == Told(s)
           J2 == Told(s) \cup Carried(m)
           H == Written(s)
           w == Waiting(s)
           O == OwnOps(s)
           L == LogOf(s)
           X == Places
           D == Stored(WantedDocument[s])
<1>1. UNCHANGED <<conn, rows, current_document, clients, pending_sync_operations,
                  known, cursor, remote_cursors>>
  BY DEF server, ui
<1>2. /\ O' = O /\ L' = L /\ X' = X /\ D' = D /\ w' = w
      /\ IsSyncing(s)' <=> IsSyncing(s)
      /\ IsLive(s)' <=> IsLive(s)
  BY <1>1 DEF OwnOps, LogOf, Places, Stored, Waiting, WaitingFor, IsSyncing, IsLive
<1>3. /\ Reads(K, O, L)
      /\ Disjoint(p, K) /\ Follows(p, K, X, O, L)
      /\ Disjoint(q, J) /\ Follows(q, J, X, O, L)
      /\ Disjoint(w, H) /\ OpsDown(w) \subseteq D
      /\ IsConnected(s) => Follows(w, H, X, O, L)
      /\ IsConnected(s) /\ (IsSyncing(s) \/ IsLive(s)) => D \subseteq H \cup OpsDown(w)
      /\ \A c \in Client : remote_cursors[s][c] \in K \cup X \cup {None}
  BY DEF Streams, Flows, Downstream
<1>4. /\ p \in Seq(DownMessage(Typed)) /\ q \in Seq(DownMessage(Typed))
      /\ q # <<>> /\ m \in DownMessage(Typed) /\ r \in Seq(DownMessage(Typed))
  <2>1. p \in Seq(DownMessage(Typed)) /\ q \in Seq(DownMessage(Typed)) /\ q # <<>>
    BY DEF Streams, Base, Typing, ClientTyping, ChannelTyping
  <2> QED  BY <2>1, HeadAndTail
<1>5. J = K \cup OpsDown(p) /\ H = J \cup OpsDown(q)
  BY DEF Told, Written
<1>6. m = Head(q) /\ r = Tail(q) /\ J2 = J \cup Carried(m)
  OBVIOUS
<1>7. \/ p2 = p /\ Carried(m) = {}
      \/ p2 = Append(p, m)
  OBVIOUS
<1>8. /\ known'[s] = K /\ incoming'[s] = p2 /\ toClient'[s] = r
      /\ remote_cursors'[s] = remote_cursors[s]
      /\ Told(s)' = K \cup OpsDown(p2) /\ Written(s)' = (K \cup OpsDown(p2)) \cup OpsDown(r)
  BY <1>1 DEF Told, Written
<1> HIDE DEF p, p2, q, r, m, K, J, J2, H, w, O, L, X, D
<1>9. /\ Lands(m, J, X, O, L) /\ Follows(r, J2, X, O, L)
      /\ Carried(m) \cap J = {} /\ Disjoint(r, J2)
      /\ OpsDown(q) = Carried(m) \cup OpsDown(r)
  BY <1>3, <1>4, <1>6, DownTail
<1>10. /\ Disjoint(p2, K) /\ Follows(p2, K, X, O, L)
       /\ OpsDown(p2) = OpsDown(p) \cup Carried(m)
  <2>1. CASE p2 = p /\ Carried(m) = {}
    BY <1>3, <2>1
  <2>2. CASE p2 = Append(p, m)
    <3>1. /\ Lands(m, K \cup OpsDown(p), X, O, L)
          /\ Carried(m) \cap (K \cup OpsDown(p)) = {}
      BY <1>5, <1>9
    <3>2. /\ Disjoint(Append(p, m), K) /\ Follows(Append(p, m), K, X, O, L)
          /\ OpsDown(Append(p, m)) = OpsDown(p) \cup Carried(m)
      BY <1>3, <1>4, <3>1, DownAppended
    <3> QED  BY <2>2, <3>2
  <2> QED  BY <1>7, <2>1, <2>2
<1>11. K \cup OpsDown(p2) = J2 /\ (K \cup OpsDown(p2)) \cup OpsDown(r) = H
  BY <1>5, <1>6, <1>9, <1>10
<1>12. Told(s)' = J2 /\ Written(s)' = H
  BY <1>8, <1>11
<1>13. /\ OwnOps(s)' = O /\ LogOf(s)' = L /\ Places' = X /\ Waiting(s)' = w
       /\ Stored(WantedDocument[s])' = D
  BY <1>2 DEF O, L, X, w, D
<1> QED  BY <1>2, <1>3, <1>8, <1>9, <1>10, <1>12, <1>13 DEF Downstream

LEMMA HandleMessageFlows ==
    ASSUME Streams, NEW s \in Session, HandleMessage(s)
    PROVE  Flows'
<1> DEFINE m == Head(toClient[s])
<1>1. /\ Typing /\ Stage(s) /\ Upstream(s) /\ Fresh(s) /\ Downstream(s) /\ Numbered(s)
      /\ toClient[s] # <<>> /\ IsConnected(s)
      /\ UNCHANGED <<server, ui, outgoing, dropped, past>>
      /\ UNCHANGED <<conn, rows, pending_sync_operations, known, cursor, remote_cursors>>
  BY DEF Streams, Base, Flows, Stages, HandleMessage, history, server, ui
<1>2. CASE Close(s) /\ UNCHANGED incoming
  BY <1>1, <1>2, ClosedFlows DEF queues
<1>3. ASSUME toClient' = [toClient EXCEPT ![s] = Tail(@)], toServer' = toServer,
             Expects(s, m),
             \/ /\ m.type = "HELLO_ACK" /\ incoming' = incoming
                /\ net' = [net EXCEPT ![s] = "REGISTERED"]
             \/ /\ m.type # "HELLO_ACK" /\ net' = net
                /\ incoming' = [incoming EXCEPT ![s] = Append(@, m)]
      PROVE  Flows'
  <2>1. /\ toClient'[s] = Tail(toClient[s])
        /\ \A t \in Session \ {s} : /\ toClient'[t] = toClient[t]
                                    /\ incoming'[t] = incoming[t] /\ net'[t] = net[t]
        /\ \/ m.type = "HELLO_ACK" /\ incoming'[s] = incoming[s] /\ net'[s] = "REGISTERED"
           \/ /\ m.type # "HELLO_ACK" /\ net'[s] = net[s]
              /\ incoming'[s] = Append(incoming[s], m)
    BY <1>1, <1>3 DEF Typing, ChannelTyping, ClientTyping
  <2>2. m.type = "HELLO_ACK" => Carried(m) = {}
    BY DEF Carried
  <2>3. IsConnected(s)' <=> IsConnected(s)
    BY <1>1, <2>1 DEF IsConnected
  <2> HIDE DEF m
  <2>4. Downstream(s)'
    BY <1>1, <2>1, <2>2, <2>3, HandledDownstream DEF m
  <2>5. Numbered(s)' /\ Typed' = Typed
    BY <1>1, NumberedSame
  <2>6. Upstream(s)'
    <3>1. net'[s] # "DISCONNECTED" => net[s] # "DISCONNECTED"
      BY <1>1 DEF IsConnected
    <3>2. Stored(WantedDocument[s])' = Stored(WantedDocument[s])
      BY <1>1 DEF Stored
    <3> QED  BY <1>1, <1>3, <3>1, <3>2, UpstreamKept
  <2>7. Fresh(s)'
    <3>1. OwnOps(s)' = OwnOps(s) /\ \A d : Stored(d)' = Stored(d)
      BY <1>1 DEF OwnOps, Stored
    <3>2. CASE incoming'[s] = incoming[s]
      BY <1>1, <3>1, <3>2, FreshKept
    <3>3. CASE m.type # "HELLO_ACK"
      <4>1. net[s] = "SYNCING"
        BY <1>1, <1>3, <3>3 DEF Expects, Stage
      <4>2. conn[s] \notin {"NONE", "UNREGISTERED", "REGISTERED"}
        BY <1>1, <4>1 DEF Stage
      <4> QED  BY <1>1, <3>1, <4>2 DEF Fresh
    <3> QED  BY <2>1, <3>2, <3>3
  <2> QED  BY <1>1, <1>3, <2>1, <2>4, <2>5, <2>6, <2>7, ClientStep
<1> QED  BY <1>1, <1>2, <1>3, HandleCases

LEMMA ProcessOutgoingFlows ==
    ASSUME Streams, NEW s \in Session, ProcessOutgoing(s)
    PROVE  Flows'
<1> DEFINE p == toServer[s]
           q == outgoing[s]
           B == Settled(s)
           S == Stored(WantedDocument[s])
           W == OpsUp(toServer[s])
<1>1. /\ UNCHANGED <<server, toClient, net, ui, incoming, past>>
      /\ UNCHANGED <<conn, rows, known, cursor, remote_cursors>>
      /\ \A t \in Session : outgoing'[t] = IF t = s THEN <<>> ELSE outgoing[t]
      /\ \/ /\ IsConnected(s) /\ dropped' = dropped
            /\ \A t \in Session :
                  toServer'[t] = IF t = s /\ conn[s] # "DISCONNECTED"
                                 THEN p \o q ELSE toServer[t]
         \/ ~IsConnected(s) /\ toServer' = toServer
               /\ dropped' = dropped \cup OpsToServer(q)
  BY DEF ProcessOutgoing, TakeAll, OpsToServer, Streams, Base, Typing, ClientTyping,
         ChannelTyping, ui, server
<1>2. /\ Typing /\ Stage(s)
      /\ conn[s] # "DISCONNECTED" =>
            /\ InOrder(s, p, past, B, S)
            /\ net[s] # "DISCONNECTED" =>
                  InOrder(s, q, past, B \cup W, S \cup W)
                     /\ known[s] \subseteq B \cup W \cup OpsUp(q)
  BY DEF Streams, Base, Flows, Stages, Upstream
<1>3. Numbered(s)' /\ Typed' = Typed
  BY <1>1, NumberedSame
<1>4. Downstream(s)' /\ Fresh(s)'
  BY <1>1, DownstreamSame DEF IsConnected
<1>5. p \in Seq(UpMessage(Typed)) /\ q \in Seq(UpMessage(Typed))
  BY <1>2 DEF Typing, ClientTyping, ChannelTyping
<1>6. OpsUp(<<>>) = {} /\ \A C, R : InOrder(s, <<>>, past, C, R)
  BY UpToOne, InOrderOne
<1>7. /\ Stored(WantedDocument[s])' = S /\ B \subseteq Settled(s)'
      /\ dropped' = dropped => Settled(s)' = B
      /\ dropped' = dropped \cup OpsToServer(q) => Settled(s)' = B \cup OpsToServer(q)
  BY <1>1 DEF Stored, Settled
<1>8. /\ toServer'[s] \in {p, p \o q} /\ outgoing'[s] = <<>>
      /\ known'[s] = known[s] /\ conn'[s] = conn[s] /\ net'[s] = net[s] /\ past' = past
  BY <1>1
<1>9. W = OpsUp(p)
  OBVIOUS
<1>10. conn[s] # "DISCONNECTED" =>
          \/ /\ IsConnected(s) /\ dropped' = dropped /\ toServer'[s] = p \o q
          \/ /\ ~IsConnected(s) /\ dropped' = dropped \cup OpsToServer(q)
             /\ toServer'[s] = p
  BY <1>1
<1> HIDE DEF p, q, B, S, W
<1>11. Upstream(s)'
  <2> SUFFICES ASSUME conn[s] # "DISCONNECTED"
               PROVE  /\ InOrder(s, toServer'[s], past, Settled(s)', S)
                      /\ net[s] # "DISCONNECTED" =>
                            known[s] \subseteq Settled(s)' \cup OpsUp(toServer'[s])
    BY <1>6, <1>7, <1>8 DEF Upstream
  <2>1. CASE IsConnected(s) /\ dropped' = dropped /\ toServer'[s] = p \o q
    <3>1. net[s] # "DISCONNECTED" /\ Settled(s)' = B
      BY <1>7, <2>1 DEF IsConnected
    <3>2. InOrder(s, p \o q, past, B, S)
      BY <1>2, <1>5, <1>9, <3>1, InOrderJoined
    <3>3. OpsUp(p \o q) = W \cup OpsUp(q)
      BY <1>5, <1>9, UpToJoined
    <3> QED  BY <1>2, <2>1, <3>1, <3>2, <3>3
  <2>2. CASE ~IsConnected(s) /\ dropped' = dropped \cup OpsToServer(q)
             /\ toServer'[s] = p
    <3>1. Settled(s)' = B \cup OpsUp(q)
      BY <1>5, <1>7, <2>2, UpOps
    <3>2. InOrder(s, p, past, Settled(s)', S)
      BY <1>2, <1>5, <1>7, UpMore
    <3> QED  BY <1>2, <1>9, <2>2, <3>1, <3>2
  <2> QED  BY <1>10, <2>1, <2>2
<1> QED  BY <1>1, <1>3, <1>4, <1>11, ClientStep

LEMMA NextOperation ==
    ASSUME Typing, NEW s \in Session, Numbered(s)
    PROVE  LET op == NextOp(s)
               n == Cardinality(OwnOps(s))
           IN  /\ n \in Nat /\ op = <<s, n + 1>> /\ op[1] = s /\ op[2] = n + 1
               /\ op \notin Typed
               /\ \A e \in Typed : e[1] = s => e[2] < op[2]
<1> DEFINE op == NextOp(s)
           n == Cardinality(OwnOps(s))
<1>1. n \in Nat /\ op = <<s, n + 1>> /\ op[1] = s /\ op[2] = n + 1
  BY OwnOpsFinite DEF NextOp
<1>2. ASSUME NEW e \in Typed, e[1] = s
      PROVE  e[2] < n + 1
  <2>1. e \in OwnOps(s)
    BY <1>2 DEF Numbered, OwnOps
  <2>2. OwnOps(s) = {<<s, k>> : k \in 1..n}
    BY DEF Numbered
  <2>3. PICK k \in 1..n : e = <<s, k>>
    BY <2>1, <2>2
  <2> QED  BY <1>1, <2>3
<1>3. op \notin Typed
  BY <1>1, <1>2
<1> QED  BY <1>1, <1>2, <1>3

LEMMA TypedOneMore ==
    ASSUME Typing, NEW s \in Session, Numbered(s), NEW op, op = NextOp(s),
           known'[s] = known[s] \cup {op}, cursor'[s] = op,
           past' = Put(past, op, known[s])
    PROVE  /\ Typed' = Typed \cup {op} /\ past'[op] = known[s]
           /\ \A e \in Typed : past'[e] = past[e]
           /\ OwnOps(s)' = OwnOps(s) \cup {op} /\ Numbered(s)'
<1> DEFINE n == Cardinality(OwnOps(s))
<1>1. /\ n \in Nat /\ op = <<s, n + 1>> /\ op[1] = s /\ op \notin Typed
  BY NextOperation
<1>2. /\ Typed' = Typed \cup {op} /\ past'[op] = known[s]
      /\ \A e \in Typed : past'[e] = past[e]
  BY <1>1 DEF Put, Typed
<1>3. OwnOps(s)' = OwnOps(s) \cup {op}
  BY <1>1 DEF OwnOps
<1>4. OwnOps(s) = {<<s, k>> : k \in 1..n}
  BY DEF Numbered
<1>5. Cardinality(OwnOps(s) \cup {op}) = n + 1
  <2>1. IsFiniteSet(OwnOps(s)) /\ OwnOps(s) \subseteq Typed
    BY OwnOpsFinite
  <2> QED  BY <1>1, <2>1, FS_AddElement
<1>6. OwnOps(s) \cup {op} = {<<s, k>> : k \in 1..n + 1}
  <2>1. 1..n + 1 = (1..n) \cup {n + 1}
    BY <1>1
  <2> QED  BY <1>1, <1>4, <2>1
<1>7. OwnOps(s)' = {<<s, k>> : k \in 1..Cardinality(OwnOps(s)')}
  BY <1>3, <1>5, <1>6
<1>8. \A e \in Typed' : e[1] = s => e \in known'[s] /\ past'[e] \subseteq known'[s]
  BY <1>2 DEF Numbered
<1> QED  BY <1>2, <1>3, <1>7, <1>8 DEF Numbered

LEMMA TypeKeyFlows ==
    ASSUME Streams, NEW s \in Session, TypeKey(s)
    PROVE  Flows'
<1> DEFINE op == NextOp(s)
           m == [type |-> "OPERATION", op |-> op]
           p == toServer[s]
           q == outgoing[s]
           B == Settled(s)
           S == Stored(WantedDocument[s])
           W == OpsUp(toServer[s])
           K == known[s]
<1>1. Typing /\ Registry /\ Upstream(s) /\ Numbered(s) /\ Downstream(s) /\ Fresh(s)
  BY DEF Streams, Base, Flows
<1>2. /\ UNCHANGED <<server, channels, net, remote_cursors, incoming, dropped>>
      /\ UNCHANGED <<conn, rows, pending_sync_operations, toServer, toClient>>
      /\ past' = Put(past, op, K)
      /\ known'[s] = K \cup {op} /\ cursor'[s] = op /\ outgoing'[s] = Append(q, m)
      /\ \A t \in Session \ {s} : /\ known'[t] = known[t] /\ cursor'[t] = cursor[t]
                                  /\ outgoing'[t] = outgoing[t]
  BY <1>1 DEF TypeKey, Typing, ClientTyping, server, channels
<1>3. /\ op[1] = s /\ op \notin Typed /\ \A e \in Typed : e[1] = s => e[2] < op[2]
  BY <1>1, NextOperation
<1>4. /\ Typed' = Typed \cup {op} /\ past'[op] = K
      /\ \A e \in Typed : past'[e] = past[e]
      /\ OwnOps(s)' = OwnOps(s) \cup {op} /\ Numbered(s)'
  BY <1>1, <1>2, TypedOneMore
<1>5. /\ \A d : Stored(d)' = Stored(d)
      /\ Waiting(s)' = Waiting(s) /\ LogOf(s)' = LogOf(s)
      /\ IsConnected(s)' <=> IsConnected(s)
      /\ IsSyncing(s)' <=> IsSyncing(s)
      /\ IsLive(s)' <=> IsLive(s)
      /\ Settled(s)' = B
  BY <1>2 DEF Stored, Waiting, WaitingFor, IsSyncing, IsLive, LogOf, IsConnected,
              Settled
<1>6. S \subseteq Typed
  BY <1>1, StoredRows DEF Typing
<1>7. Downstream(s)'
  <2>1. {op} \cap S = {}
    BY <1>3, <1>6
  <2> QED  BY <1>1, <1>2, <1>4, <1>5, <2>1, DownstreamKept
<1>8. Fresh(s)'
  <2>1. known[s] = OwnOps(s) => known'[s] = OwnOps(s)'
    BY <1>2, <1>4
  <2>2. \A d \in DOMAIN rows' : \A e \in Stored(d)' : d \in DOMAIN rows /\ e \in Stored(d)
    BY <1>2, <1>5
  <2> QED  BY <1>1, <1>2, <2>1, <2>2, FreshKept
<1>9. Upstream(s)'
  <2>1. /\ p \in Seq(UpMessage(Typed)) /\ q \in Seq(UpMessage(Typed))
        /\ q \in Seq(UpMessage(Typed')) /\ m \in UpMessage(Typed')
    <3>1. p \in Seq(UpMessage(Typed)) /\ q \in Seq(UpMessage(Typed))
      BY <1>1 DEF Typing, ClientTyping, ChannelTyping
    <3>2. UpMessage(Typed) \subseteq UpMessage(Typed')
      BY <1>4, MessagesGrow
    <3>3. m \in UpMessage(Typed')
      BY <1>4, UpFrom
    <3> HIDE DEF p, q, m
    <3> QED  BY <3>1, <3>2, <3>3, SeqGrows
  <2>2. conn[s] # "DISCONNECTED" =>
           /\ InOrder(s, p, past, B, S)
           /\ net[s] # "DISCONNECTED" =>
                 InOrder(s, q, past, B \cup W, S \cup W)
                    /\ K \subseteq B \cup W \cup OpsUp(q)
    BY <1>1 DEF Upstream
  <2>3. /\ toServer'[s] = p /\ outgoing'[s] = Append(q, m) /\ known'[s] = K \cup {op}
        /\ conn'[s] = conn[s] /\ net'[s] = net[s] /\ Settled(s)' = B
        /\ Stored(WantedDocument[s])' = S
    BY <1>2, <1>5
  <2>4. OpOf(m) = {op} /\ m.op = op /\ m.type = "OPERATION"
    BY DEF OpOf
  <2>5. W \subseteq Typed /\ OpsUp(q) \subseteq Typed /\ W = OpsUp(p)
    BY <2>1, UpOps
  <2> DEFINE C == B \cup W
             R == S \cup W
  <2>6. \A e \in R \cup OpsUp(q) : e[1] = s => e[2] < op[2]
    BY <1>3, <1>6, <2>5
  <2> HIDE DEF op, m, p, q, B, S, W, K
  <2>7. conn[s] # "DISCONNECTED" => InOrder(s, p, past', B, S)
    BY <1>4, <2>1, <2>2, UpMore
  <2>8. ASSUME conn[s] # "DISCONNECTED", net[s] # "DISCONNECTED"
        PROVE  /\ InOrder(s, Append(q, m), past', C, R)
               /\ K \cup {op} \subseteq C \cup OpsUp(Append(q, m))
    <3>1. InOrder(s, q, past, C, R) /\ K \subseteq C \cup OpsUp(q)
      BY <2>2, <2>8
    <3> HIDE DEF C, R
    <3>2. InOrder(s, q, past', C, R)
      BY <1>4, <2>1, <3>1, UpMore
    <3>3. Fits(s, m, past', C \cup OpsUp(q), R \cup OpsUp(q))
      BY <1>3, <1>4, <2>4, <2>6, <3>1 DEF Fits
    <3>4. InOrder(s, Append(q, m), past', C, R)
      BY <2>1, <3>2, <3>3, UpAppended
    <3>5. OpsUp(Append(q, m)) = OpsUp(q) \cup {op}
      BY <2>1, <2>4, UpOneMore
    <3> QED  BY <3>1, <3>4, <3>5
  <2> QED  BY <2>3, <2>5, <2>7, <2>8 DEF Upstream
<1>10. \A e \in Typed' : e \in Typed \/ e[1] = s
  BY <1>3, <1>4
<1> QED  BY <1>2, <1>4, <1>7, <1>8, <1>9, <1>10, ClientStep

LEMMA QueueCursorUpdateFlows ==
    ASSUME Streams, NEW s \in Session, QueueCursorUpdate(s)
    PROVE  Flows'
<1> DEFINE m == [type |-> "CURSOR_UPDATE", position |-> cursor[s]]
           q == outgoing[s]
           B == Settled(s)
           S == Stored(WantedDocument[s])
           W == OpsUp(toServer[s])
<1>1. /\ UNCHANGED <<server, toServer, toClient, net, known, cursor, remote_cursors,
                     incoming, dropped, past>>
      /\ UNCHANGED <<conn, rows>>
      /\ \A t \in Session : outgoing'[t] = IF t = s THEN Append(q, m) ELSE outgoing[t]
  BY DEF QueueCursorUpdate, server, channels, history, Streams, Base, Typing,
         ClientTyping
<1>2. Typing /\ Upstream(s) /\ Numbered(s)
  BY DEF Streams, Base, Flows
<1>3. Numbered(s)' /\ Typed' = Typed
  BY <1>1, NumberedSame
<1>4. Downstream(s)' /\ Fresh(s)'
  BY <1>1, DownstreamSame DEF IsConnected
<1>5. /\ q \in Seq(UpMessage(Typed)) /\ m \in UpMessage(Typed) /\ OpOf(m) = {}
      /\ m.type = "CURSOR_UPDATE" /\ m.position \in known[s] \cup {Start}
  <2>1. cursor[s] \in Typed \cup {Start} /\ q \in Seq(UpMessage(Typed))
    BY <1>2 DEF Typing, ClientTyping
  <2>2. cursor[s] \in known[s] \cup {Start}
    BY <1>2 DEF Numbered
  <2> QED  BY <2>1, <2>2, UpFrom DEF OpOf
<1>6. conn[s] # "DISCONNECTED" =>
         /\ InOrder(s, toServer[s], past, B, S)
         /\ net[s] # "DISCONNECTED" =>
               InOrder(s, q, past, B \cup W, S \cup W)
                  /\ known[s] \subseteq (B \cup W) \cup OpsUp(q)
  BY <1>2 DEF Upstream
<1>7. /\ Settled(s)' = B /\ Stored(WantedDocument[s])' = S
      /\ toServer'[s] = toServer[s] /\ outgoing'[s] = Append(q, m)
      /\ known'[s] = known[s] /\ conn'[s] = conn[s] /\ net'[s] = net[s] /\ past' = past
  BY <1>1 DEF Settled, Stored
<1> DEFINE C == B \cup W
           R == S \cup W
<1>8. W = OpsUp(toServer[s])
  OBVIOUS
<1> HIDE DEF m, q, B, S, W
<1>9. OpsUp(Append(q, m)) = OpsUp(q)
  <2>1. OpsUp(Append(q, m)) = OpsUp(q) \cup OpOf(m)
    BY <1>5, UpOneMore
  <2> QED  BY <1>5, <2>1
<1>10. ASSUME conn[s] # "DISCONNECTED", net[s] # "DISCONNECTED"
       PROVE  InOrder(s, Append(q, m), past, C, R)
  <2>1. InOrder(s, q, past, C, R) /\ known[s] \subseteq C \cup OpsUp(q)
    BY <1>6, <1>10
  <2> HIDE DEF C, R
  <2>2. Fits(s, m, past, C \cup OpsUp(q), R \cup OpsUp(q))
    BY <1>5, <2>1 DEF Fits
  <2> QED  BY <1>5, <2>1, <2>2, UpAppended
<1>11. Upstream(s)'
  BY <1>6, <1>7, <1>8, <1>9, <1>10 DEF Upstream
<1> QED  BY <1>1, <1>3, <1>4, <1>11, ClientStep

LEMMA FlushIncomingFlows ==
    ASSUME Streams, NEW s \in Session, FlushIncoming(s)
    PROVE  Flows'
<1> DEFINE m == [type |-> "SYNC_COMPLETE"]
           p == incoming[s]
           q == outgoing[s]
           B == Settled(s)
           S == Stored(WantedDocument[s])
           W == OpsUp(toServer[s])
           K == known[s]
           J == Told(s)
<1>1. Typing /\ Registry /\ Upstream(s) /\ Numbered(s) /\ Downstream(s) /\ Fresh(s)
  BY DEF Streams, Base, Flows
<1>2. /\ UNCHANGED <<server, channels, net, cursor, dropped, past>>
      /\ UNCHANGED <<conn, rows, pending_sync_operations, toServer, toClient>>
      /\ Typed' = Typed
      /\ known'[s] = K \cup OpsIn(p) /\ incoming'[s] = <<>>
      /\ \A c \in Client : remote_cursors'[s][c] = LastCursor(p, c, remote_cursors[s][c])
      /\ outgoing'[s] \in {q, Append(q, m)}
      /\ \A t \in Session \ {s} : /\ known'[t] = known[t] /\ incoming'[t] = incoming[t]
                                  /\ remote_cursors'[t] = remote_cursors[t]
                                  /\ outgoing'[t] = outgoing[t]
  BY <1>1 DEF FlushIncoming, Typing, ClientTyping, server, channels, history, Typed
<1>3. /\ p \in Seq(DownMessage(Typed)) /\ OpsDown(p) = OpsIn(p)
      /\ OpsDown(p) \subseteq S /\ \A op \in OpsDown(p) : op[1] # s
      /\ Reads(J, OwnOps(s), LogOf(s)) /\ J = K \cup OpsDown(p)
  BY <1>1, OnTheWay, DownOps DEF Told
<1>4. known'[s] = J /\ OwnOps(s)' = OwnOps(s)
  BY <1>2, <1>3 DEF OwnOps
<1>5. /\ \A d : Stored(d)' = Stored(d)
      /\ Waiting(s)' = Waiting(s) /\ LogOf(s)' = LogOf(s)
      /\ IsConnected(s)' <=> IsConnected(s)
      /\ IsSyncing(s)' <=> IsSyncing(s)
      /\ IsLive(s)' <=> IsLive(s)
      /\ Settled(s)' = B /\ Places' = Places
  BY <1>2 DEF Stored, Waiting, WaitingFor, IsSyncing, IsLive, LogOf, IsConnected,
              Settled, Places
<1>6. Numbered(s)'
  BY <1>1, <1>2, <1>3, <1>4, NumberedKept DEF Numbered
<1>7. Downstream(s)'
  <2>1. Told(s)' = J /\ Written(s)' = Written(s)
    <3>1. OpsDown(<<>>) = {}
      BY CarriedOne
    <3> QED  BY <1>2, <1>4, <3>1 DEF Told, Written
  <2>2. Disjoint(<<>>, J) /\ Follows(<<>>, J, Places, OwnOps(s), LogOf(s))
    BY FollowsOne
  <2>3. ASSUME NEW c \in Client
        PROVE  remote_cursors'[s][c] \in J \cup Places \cup {None}
    <3>1. remote_cursors[s][c] \in K \cup Places \cup {None}
      BY <1>1 DEF Downstream
    <3>2. CASE remote_cursors'[s][c] = remote_cursors[s][c]
      BY <1>3, <3>1, <3>2
    <3>3. ASSUME NEW i \in DOMAIN p, p[i].type = "CURSOR_UPDATE",
                 remote_cursors'[s][c] = p[i].position
          PROVE  remote_cursors'[s][c] \in J \cup Places \cup {None}
      <4>1. p[i].position \in (K \cup CarriedBy(p, i - 1)) \cup Places
        BY <1>1, <3>3 DEF Downstream, Follows, Lands
      <4>2. CarriedBy(p, i - 1) \subseteq OpsDown(p)
        BY <1>3 DEF CarriedBy, OpsDown
      <4> QED  BY <1>3, <3>3, <4>1, <4>2
    <3> HIDE DEF p
    <3> QED  BY <1>2, <1>3, <3>2, <3>3, LastCursorIn
  <2> HIDE DEF J
  <2>4. toClient'[s] = toClient[s] /\ Told(s) = J
    BY <1>2 DEF J
  <2> QED  BY <1>1, <1>2, <1>3, <1>4, <1>5, <2>1, <2>2, <2>3, <2>4 DEF Downstream
<1>8. Fresh(s)'
  <2>1. conn[s] \in {"NONE", "UNREGISTERED", "REGISTERED"} => J = K
    <3>1. OpsDown(<<>>) = {}
      BY CarriedOne
    <3> QED  BY <1>1, <1>3, <3>1 DEF Fresh
  <2> QED  BY <1>1, <1>2, <1>4, <1>5, <2>1 DEF Fresh
<1>9. Upstream(s)'
  <2>1. /\ q \in Seq(UpMessage(Typed)) /\ m \in UpMessage(Typed) /\ OpOf(m) = {}
        /\ \A C, R : Fits(s, m, past, C, R)
    BY <1>1, UpFrom DEF Typing, ClientTyping, OpOf, Fits
  <2>2. conn[s] # "DISCONNECTED" =>
           /\ InOrder(s, toServer[s], past, B, S)
           /\ net[s] # "DISCONNECTED" =>
                 InOrder(s, q, past, B \cup W, S \cup W)
                    /\ known[s] \subseteq (B \cup W) \cup OpsUp(q)
    BY <1>1 DEF Upstream
  <2>3. /\ Settled(s)' = B /\ Stored(WantedDocument[s])' = S /\ S \subseteq B
        /\ toServer'[s] = toServer[s] /\ known'[s] = K \cup OpsDown(p)
        /\ conn'[s] = conn[s] /\ net'[s] = net[s] /\ past' = past
    BY <1>2, <1>3, <1>4, <1>5 DEF Settled
  <2>4. W = OpsUp(toServer[s])
    OBVIOUS
  <2> HIDE DEF m, q, B, S, W
  <2>5. OpsUp(Append(q, m)) = OpsUp(q)
    <3>1. OpsUp(Append(q, m)) = OpsUp(q) \cup OpOf(m)
      BY <2>1, UpOneMore
    <3> QED  BY <2>1, <3>1
  <2>6. \A C, R : InOrder(s, q, past, C, R) => InOrder(s, Append(q, m), past, C, R)
    BY <2>1, UpAppended
  <2>7. /\ OpsUp(outgoing'[s]) = OpsUp(q)
        /\ \A C, R : InOrder(s, q, past, C, R) => InOrder(s, outgoing'[s], past, C, R)
    BY <1>2, <2>5, <2>6
  <2>8. OpsDown(p) \subseteq B
    BY <1>3, <2>3
  <2> QED  BY <2>2, <2>3, <2>4, <2>7, <2>8 DEF Upstream
<1> QED  BY <1>2, <1>6, <1>7, <1>8, <1>9, ClientStep

-----------------------------------------------------------------------------
(***************************************************************************)
(* The steps of the server.                                                *)
(***************************************************************************)
\* It reads a message that brings no operation.
LEMMA ReadUpstream ==
    ASSUME Streams, NEW s \in Session, toServer[s] # <<>>, IsOpen(s),
           OpOf(Head(toServer[s])) = {}, toServer'[s] = Tail(toServer[s]),
           UNCHANGED <<net, ui, queues, history>>,
           Stored(WantedDocument[s])' = Stored(WantedDocument[s])
    PROVE  Upstream(s)'
<1> DEFINE p == toServer[s]
           m == Head(toServer[s])
           r == Tail(toServer[s])
           B == Settled(s)
           S == Stored(WantedDocument[s])
<1>1. /\ UNCHANGED <<net, known, outgoing, dropped, past>>
      /\ conn[s] # "DISCONNECTED" /\ Upstream(s)
      /\ p \in Seq(UpMessage(Typed)) /\ p # <<>>
  BY DEF ui, queues, history, IsOpen, Streams, Base, Flows, Typing, ChannelTyping
<1>2. /\ Settled(s)' = B /\ toServer'[s] = r /\ outgoing'[s] = outgoing[s]
      /\ known'[s] = known[s] /\ net'[s] = net[s] /\ past' = past
      /\ Stored(WantedDocument[s])' = S
  BY <1>1 DEF Settled
<1>3. /\ InOrder(s, p, past, B, S)
      /\ net[s] # "DISCONNECTED" =>
            /\ InOrder(s, outgoing[s], past, B \cup OpsUp(p), S \cup OpsUp(p))
            /\ known[s] \subseteq B \cup OpsUp(p) \cup OpsUp(outgoing[s])
  BY <1>1 DEF Upstream
<1>4. m = Head(p) /\ r = Tail(p) /\ OpOf(m) = {}
  OBVIOUS
<1> HIDE DEF p, m, r, B, S
<1>5. InOrder(s, r, past, B \cup OpOf(m), S \cup OpOf(m)) /\ OpsUp(p) = OpOf(m) \cup OpsUp(r)
  BY <1>1, <1>3, <1>4, UpTail
<1>6. B \cup OpOf(m) = B /\ S \cup OpOf(m) = S /\ OpsUp(p) = OpsUp(r)
  BY <1>4, <1>5
<1>7. InOrder(s, r, past, B, S)
  BY <1>5, <1>6
<1> QED  BY <1>2, <1>3, <1>6, <1>7 DEF Upstream

LEMMA FollowsLonger ==
    ASSUME NEW q, NEW K, NEW X, NEW O, NEW L, NEW M, Extended(L, M)
    PROVE  /\ Follows(q, K, X, O, L) => Follows(q, K, X, O, M)
           /\ Reads(K, O, L) => Reads(K, O, M)
<1>1. K \cup {} = K /\ O \cup {} = O
  OBVIOUS
<1>2. ASSUME Follows(q, K, X, O, L) PROVE Follows(q, K \cup {}, X, O \cup {}, M)
  BY <1>2, FollowsMore
<1>3. ASSUME Reads(K, O, L) PROVE Reads(K \cup {}, O \cup {}, M)
  BY <1>3, ReadsMore
<1> QED  BY <1>1, <1>2, <1>3

\* The log may grow while the queues of a session stay as they are.
LEMMA DownstreamGrown ==
    ASSUME Streams, NEW t \in Session, UNCHANGED <<net, ui, queues, history>>,
           toClient'[t] = toClient[t], Waiting(t)' = Waiting(t),
           Extended(LogOf(t), LogOf(t)'),
           Stored(WantedDocument[t]) \subseteq Stored(WantedDocument[t])',
           IsConnected(t) /\ (IsSyncing(t) \/ IsLive(t))' =>
              Stored(WantedDocument[t])' \subseteq Written(t) \cup OpsDown(Waiting(t))
    PROVE  Downstream(t)'
<1>1. /\ UNCHANGED <<known, remote_cursors, incoming, dropped>>
      /\ Downstream(t)
      /\ IsConnected(t)' <=> IsConnected(t)
  BY DEF ui, queues, history, Streams, Flows, IsConnected
<1>2. /\ OwnOps(t)' = OwnOps(t) /\ Told(t)' = Told(t) /\ Written(t)' = Written(t)
      /\ Places' = Places /\ known'[t] = known[t] /\ incoming'[t] = incoming[t]
      /\ remote_cursors'[t] = remote_cursors[t]
  BY <1>1 DEF OwnOps, Told, Written, Places
<1> DEFINE M == LogOf(t)'
           D2 == Stored(WantedDocument[t])'
<1>3. Extended(LogOf(t), M) /\ Stored(WantedDocument[t]) \subseteq D2
  OBVIOUS
<1>4. IsConnected(t) /\ (IsSyncing(t) \/ IsLive(t))' =>
         D2 \subseteq Written(t) \cup OpsDown(Waiting(t))
  OBVIOUS
<1> HIDE DEF M, D2
<1>5. /\ Reads(known[t], OwnOps(t), M)
      /\ Follows(incoming[t], known[t], Places, OwnOps(t), M)
      /\ Follows(toClient[t], Told(t), Places, OwnOps(t), M)
      /\ IsConnected(t) => Follows(Waiting(t), Written(t), Places, OwnOps(t), M)
  BY <1>1, <1>3, FollowsLonger DEF Downstream
<1>6. M = LogOf(t)' /\ D2 = Stored(WantedDocument[t])'
  BY DEF M, D2
<1>7. OpsDown(Waiting(t)) \subseteq D2
  BY <1>1, <1>3 DEF Downstream
<1> QED  BY <1>1, <1>2, <1>4, <1>5, <1>6, <1>7 DEF Downstream

\* A message goes to a session for which nothing waits.
LEMMA SentDownstream ==
    ASSUME Streams, NEW t \in Session, UNCHANGED <<net, ui, queues, history>>,
           NEW m \in DownMessage(Typed), toClient'[t] = Append(toClient[t], m),
           Waiting(t) = <<>>, Waiting(t)' = <<>>,
           Extended(LogOf(t), LogOf(t)'),
           Reads(Written(t) \cup Carried(m), OwnOps(t), LogOf(t)'),
           Carried(m) \cap Written(t) = {},
           m.type = "CURSOR_UPDATE" => m.position \in Written(t) \cup Places,
           (IsSyncing(t) \/ IsLive(t))' =>
              Stored(WantedDocument[t])' \subseteq Written(t) \cup Carried(m)
    PROVE  Downstream(t)'
<1> DEFINE q == toClient[t]
           q2 == Append(toClient[t], m)
           K == known[t]
           J == Told(t)
           H == Written(t)
           O == OwnOps(t)
           M == LogOf(t)'
           D2 == Stored(WantedDocument[t])'
<1>1. /\ UNCHANGED <<known, remote_cursors, incoming, dropped>>
      /\ Downstream(t)
      /\ IsConnected(t)' <=> IsConnected(t)
  BY DEF ui, queues, history, Streams, Flows, IsConnected
<1>2. /\ OwnOps(t)' = O /\ Told(t)' = J /\ Written(t)' = J \cup OpsDown(q2)
      /\ Places' = Places /\ known'[t] = K /\ incoming'[t] = incoming[t]
      /\ remote_cursors'[t] = remote_cursors[t] /\ toClient'[t] = q2
      /\ H = J \cup OpsDown(q)
  BY <1>1 DEF OwnOps, Told, Written, Places
<1>3. q \in Seq(DownMessage(Typed)) /\ q2 = Append(q, m)
  BY DEF Streams, Base, Typing, ChannelTyping
<1>4. /\ Extended(LogOf(t), M) /\ Reads(H \cup Carried(m), O, M)
      /\ Carried(m) \cap H = {}
      /\ m.type = "CURSOR_UPDATE" => m.position \in H \cup Places
      /\ (IsSyncing(t) \/ IsLive(t))' => D2 \subseteq H \cup Carried(m)
  OBVIOUS
<1>5. M = LogOf(t)' /\ D2 = Stored(WantedDocument[t])'
  OBVIOUS
<1> HIDE DEF M, D2, q, q2, J, K, H, O
<1>6. /\ Reads(K, O, M)
      /\ Follows(incoming[t], K, Places, O, M)
      /\ Follows(q, J, Places, O, M)
  BY <1>1, <1>4, FollowsLonger DEF Downstream, q, J, K, O
<1>7. Disjoint(q, J) /\ Disjoint(incoming[t], K)
  BY <1>1 DEF Downstream, q, J, K
<1>8. Lands(m, J \cup OpsDown(q), Places, O, M)
  BY <1>2, <1>4 DEF Lands
<1>9. /\ Follows(q2, J, Places, O, M) /\ Disjoint(q2, J)
      /\ OpsDown(q2) = OpsDown(q) \cup Carried(m)
  <2>1. Carried(m) \cap (J \cup OpsDown(q)) = {}
    BY <1>2, <1>4
  <2>2. Follows(Append(q, m), J, Places, O, M)
    BY <1>3, <1>6, <1>8, DownAppended
  <2>3. Disjoint(Append(q, m), J)
    BY <1>3, <1>7, <2>1, DownAppended
  <2>4. OpsDown(Append(q, m)) = OpsDown(q) \cup Carried(m)
    BY <1>3, DownAppended
  <2> QED  BY <1>3, <2>2, <2>3, <2>4
<1>10. J \cup OpsDown(q2) = H \cup Carried(m)
  BY <1>2, <1>9
<1>11. /\ Disjoint(<<>>, H \cup Carried(m)) /\ OpsDown(<<>>) = {}
       /\ Follows(<<>>, H \cup Carried(m), Places, O, M)
  BY FollowsOne, CarriedOne
<1>12. \A c \in Client : remote_cursors[t][c] \in K \cup Places \cup {None}
  BY <1>1 DEF Downstream, K
<1> QED  BY <1>1, <1>2, <1>4, <1>5, <1>6, <1>7, <1>9, <1>10, <1>11, <1>12 DEF Downstream

\* Two registered sessions are registered under two ids.
LEMMA OtherClient ==
    ASSUME Typing, Registry, NEW t \in Session, IsRegistered(t)
    PROVE  /\ ClientOf[t] \in DOMAIN clients /\ clients[ClientOf[t]] = t
           /\ \A s \in Session \ {t} : Owns(s) => ClientOf[s] # ClientOf[t]
BY DEF Registry, Owns

LEMMA HelloFlows ==
    ASSUME Streams, NEW s \in Session, toServer[s] # <<>>, IsOpen(s), Hello(s),
           Head(toServer[s]).type = "HELLO", ~IsRegistered(s),
           ClientOf[s] \notin DOMAIN clients, UNCHANGED <<net, ui, queues, history>>
    PROVE  Flows'
<1> DEFINE c == ClientOf[s]
<1>1. /\ Typing /\ Registry /\ Stage(s)
      /\ Upstream(s) /\ Numbered(s) /\ Downstream(s) /\ Fresh(s) /\ LogInv
  BY DEF Streams, Base, Flows, Stages
<1>2. conn[s] = "UNREGISTERED"
  BY <1>1 DEF Typing, ServerTyping, ConnState, IsOpen, IsRegistered
<1>3. /\ \A t \in Session : conn'[t] = IF t = s THEN "REGISTERED" ELSE conn[t]
      /\ clients' = Put(clients, c, s)
      /\ pending_sync_operations' = Put(pending_sync_operations, c, <<>>)
      /\ presence' = Put(presence, c, Start)
      /\ UNCHANGED <<current_document, rows, net, known, cursor, remote_cursors,
                     incoming, outgoing, dropped, past>>
  BY <1>1 DEF Hello, Typing, ServerTyping, ui, queues, history
<1>4. \A t \in Session : toServer'[t] = IF t = s THEN Tail(toServer[t]) ELSE toServer[t]
  BY <1>1, ReadTyped DEF Hello
<1>5. Ack \in DownMessage(Typed) /\ Carried(Ack) = {} /\ Ack.type = "HELLO_ACK"
  BY DownFrom DEF Ack, Carried
<1>6. /\ \A t \in Session \ {s} : toClient'[t] = toClient[t]
      /\ net[s] = "DISCONNECTED" => toClient'[s] = toClient[s]
      /\ net[s] # "DISCONNECTED" => toClient'[s] = Append(toClient[s], Ack)
  <2> DEFINE one == <<Ack>>
  <2>1. /\ one \in Seq(DownMessage(Typed)) /\ SendTo(s, one)
        /\ Append(toClient[s], Ack) = toClient[s] \o one
    BY <1>1, <1>5, OneMore DEF Hello, Ack, Typing, ChannelTyping
  <2> HIDE DEF one
  <2> QED  BY <1>1, <2>1, SentTo DEF Typing
<1>7. /\ \A d : Stored(d)' = Stored(d)
      /\ LogOf(s)' = LogOf(s) /\ OwnOps(s)' = OwnOps(s) /\ Typed' = Typed
  BY <1>3 DEF Stored, LogOf, OwnOps, Typed
<1>8. Waiting(s) = <<>> /\ Waiting(s)' = <<>> /\ ~(IsSyncing(s) \/ IsLive(s))'
  BY <1>2, <1>3 DEF Waiting, IsSyncing, IsLive
<1>9. Upstream(s)'
  <2>1. OpOf(Head(toServer[s])) = {}
    BY DEF OpOf
  <2> QED  BY <1>4, <1>7, <2>1, ReadUpstream
<1>10. Downstream(s)'
  <2>1. Extended(LogOf(s), LogOf(s)')
    BY <1>1, <1>7, LogTyped
  <2>2. CASE net[s] = "DISCONNECTED"
    BY <1>6, <1>7, <1>8, <2>1, <2>2, DownstreamGrown
  <2>3. CASE net[s] # "DISCONNECTED"
    <3>1. Reads(Written(s) \cup Carried(Ack), OwnOps(s), LogOf(s)')
      <4>1. Reads(Written(s), OwnOps(s), LogOf(s)) /\ Written(s) \cup {} = Written(s)
        BY <1>1, OnTheWay
      <4> QED  BY <1>5, <1>7, <4>1
    <3> QED  BY <1>5, <1>6, <1>8, <2>1, <2>3, <3>1, SentDownstream
  <2> QED  BY <2>2, <2>3
<1>11. Fresh(s)'
  <2>1. pending_sync_operations'[c] = <<>>
    BY <1>3 DEF Put
  <2> QED  BY <1>1, <1>2, <1>3, <1>7, <2>1 DEF Fresh
<1>12. Numbered(s)'
  BY <1>3, NumberedSame
<1>13. \A x \in DOMAIN presence' :
          presence'[x] \in Places' \cup Stored(WantedDocument[clients'[x]])
  <2>1. presence'[c] \in Places'
    BY <1>3 DEF Put, Places
  <2>2. ASSUME NEW x \in DOMAIN presence', x # c
        PROVE  presence'[x] \in Places' \cup Stored(WantedDocument[clients'[x]])
    <3>1. x \in DOMAIN presence /\ presence'[x] = presence[x]
      BY <1>3, <2>2 DEF Put
    <3>2. x \in DOMAIN clients
      BY <1>1, <3>1 DEF Registry
    <3>3. clients'[x] = clients[x]
      BY <1>3, <2>2, <3>2 DEF Put
    <3> QED  BY <1>1, <1>3, <3>1, <3>3, PresenceKept
  <2> QED  BY <2>1, <2>2
<1>14. \A t \in Session \ {s} : conn[t] \in {"REGISTERED", "SYNCING"} =>
          pending_sync_operations'[ClientOf[t]] = pending_sync_operations[ClientOf[t]]
  <2> SUFFICES ASSUME NEW t \in Session \ {s}, conn[t] \in {"REGISTERED", "SYNCING"}
               PROVE  pending_sync_operations'[ClientOf[t]]
                         = pending_sync_operations[ClientOf[t]]
    OBVIOUS
  <2>1. ClientOf[t] \in DOMAIN clients /\ clients[ClientOf[t]] = t
    BY <1>1, OtherClient DEF IsRegistered
  <2>2. ClientOf[t] \in DOMAIN pending_sync_operations /\ ClientOf[t] # c
    BY <1>1, <2>1 DEF Registry, IsLive
  <2> QED  BY <1>3, <2>2 DEF Put
<1> QED  BY <1>3, <1>4, <1>6, <1>7, <1>9, <1>10, <1>11, <1>12, <1>13, <1>14, SessionStep

LEMMA OpenDocumentFlows ==
    ASSUME Streams, NEW s \in Session, toServer[s] # <<>>, IsOpen(s),
           Head(toServer[s]).type = "OPEN_DOCUMENT",
           OpenDocument(s, Head(toServer[s]).document),
           IsRegistered(s), ~HasDocument(s), UNCHANGED <<net, ui, queues, history>>
    PROVE  Flows'
<1> DEFINE d == Head(toServer[s]).document
           S == Stored(WantedDocument[s])
           m == [type |-> "SYNC_RESPONSE", ops |-> S]
<1>1. /\ Typing /\ Registry /\ Stage(s)
      /\ Upstream(s) /\ Numbered(s) /\ Downstream(s) /\ Fresh(s) /\ LogInv
  BY DEF Streams, Base, Flows, Stages
<1>2. conn[s] = "REGISTERED"
  <2>1. ~(IsSyncing(s) \/ IsLive(s))
    <3>1. ASSUME IsSyncing(s) \/ IsLive(s) PROVE HasDocument(s)
      <4>1. current_document[s] \in DocumentID
        BY <1>1, <3>1 DEF Registry, Typing, ServerTyping
      <4> QED  BY <4>1, NoneAssumption DEF HasDocument
    <3> QED  BY <3>1
  <2> QED  BY <1>1, <2>1 DEF Typing, ServerTyping, IsRegistered, IsSyncing, IsLive
<1>3. d = WantedDocument[s] /\ d \in DocumentID /\ net[s] \in {"SYNCING", "DISCONNECTED"}
  <2>1. toServer[s] \in Seq(UpMessage(Typed)) /\ 1 \in DOMAIN toServer[s]
    BY <1>1, HeadAndTail DEF Typing, ChannelTyping
  <2>2. Head(toServer[s]) = toServer[s][1]
    BY <2>1, HeadAndTail
  <2> QED  BY <1>1, <2>1, <2>2, SessionAssumption DEF Stage
<1>4. /\ \A t \in Session : /\ conn'[t] = IF t = s THEN "SYNCING" ELSE conn[t]
                            /\ current_document'[t] = IF t = s THEN d
                                                      ELSE current_document[t]
      /\ \/ rows' = rows
         \/ \E x \in DocumentID \ DOMAIN rows : rows' = Put(rows, x, <<>>)
      /\ UNCHANGED <<clients, pending_sync_operations, presence, net, known, cursor,
                     remote_cursors, incoming, outgoing, dropped, past>>
  BY <1>1, <1>3 DEF OpenDocument, Typing, ServerTyping, ui, queues, history
<1>5. \A t \in Session : toServer'[t] = IF t = s THEN Tail(toServer[t]) ELSE toServer[t]
  BY <1>1, ReadTyped DEF OpenDocument
<1>6. m \in DownMessage(Typed) /\ Carried(m) = S /\ m.type = "SYNC_RESPONSE"
  BY <1>1, DownFrom, StoredRows DEF Carried, Typing
<1>7. /\ \A t \in Session \ {s} : toClient'[t] = toClient[t]
      /\ net[s] = "DISCONNECTED" => toClient'[s] = toClient[s]
      /\ net[s] # "DISCONNECTED" => toClient'[s] = Append(toClient[s], m)
  <2> DEFINE one == <<m>>
  <2>1. SendTo(s, one)
    BY <1>3 DEF OpenDocument
  <2>2. one \in Seq(DownMessage(Typed)) /\ Append(toClient[s], m) = toClient[s] \o one
    <3>1. toClient[s] \in Seq(DownMessage(Typed))
      BY <1>1 DEF Typing, ChannelTyping
    <3> HIDE DEF m
    <3> QED  BY <1>6, <3>1, OneMore
  <2> HIDE DEF one, m
  <2> QED  BY <1>1, <2>1, <2>2, SentTo DEF Typing
<1>8. /\ \A x : Stored(x)' = Stored(x)
      /\ LogOf(s)' = LogOf(s) /\ OwnOps(s)' = OwnOps(s) /\ Typed' = Typed
  BY <1>4, RowsKept DEF OwnOps, Typed
<1>9. Waiting(s) = <<>> /\ Waiting(s)' = <<>>
  <2>1. pending_sync_operations'[ClientOf[s]] = <<>>
    BY <1>1, <1>2, <1>4 DEF Fresh
  <2>2. WaitingFor(s)' = <<>>
    BY <2>1 DEF WaitingFor
  <2> QED  BY <1>2, <2>2 DEF Waiting, IsSyncing
<1> HIDE DEF m
<1>10. Upstream(s)'
  <2>1. OpOf(Head(toServer[s])) = {}
    BY DEF OpOf
  <2> QED  BY <1>5, <1>8, <2>1, ReadUpstream
<1>11. Downstream(s)'
  <2>1. Extended(LogOf(s), LogOf(s)')
    BY <1>1, <1>8, LogTyped
  <2>2. CASE net[s] = "DISCONNECTED"
    BY <1>7, <1>8, <1>9, <2>1, <2>2, DownstreamGrown DEF IsConnected
  <2>3. CASE net[s] # "DISCONNECTED"
    <3>1. toClient[s] = <<>> /\ incoming[s] = <<>> /\ known[s] = OwnOps(s)
      BY <1>1, <1>2, <1>3, <2>3 DEF Stage, Fresh
    <3>2. Written(s) = OwnOps(s)
      <4>1. OpsDown(<<>>) = {}
        BY CarriedOne
      <4> QED  BY <3>1, <4>1 DEF Written, Told
    <3>3. S \cap OwnOps(s) = {}
      <4>1. \A op \in S : op[1] # s
        BY <1>1, <1>2 DEF Fresh, Stored
      <4> QED  BY <4>1 DEF OwnOps
    <3>4. Reads(Written(s) \cup S, OwnOps(s), LogOf(s)')
      BY <1>1, <1>8, <3>2, ReadsAll
    <3>5. S = Stored(WantedDocument[s])'
      BY <1>8
    <3> HIDE DEF S
    <3> QED  BY <1>6, <1>7, <1>9, <2>1, <2>3, <3>2, <3>3, <3>4, <3>5, SentDownstream
  <2> QED  BY <2>2, <2>3
<1>12. Fresh(s)'
  <2>1. \A x \in DOMAIN rows' : \A op \in Stored(x)' : op[1] # s
    BY <1>1, <1>2, <1>8 DEF Fresh, Stored
  <2> QED  BY <1>4, <2>1 DEF Fresh
<1>13. Numbered(s)'
  BY <1>4, NumberedSame
<1>14. \A x \in DOMAIN presence' :
          presence'[x] \in Places' \cup Stored(WantedDocument[clients'[x]])
  BY <1>1, <1>4, PresenceKept
<1> QED  BY <1>4, <1>5, <1>7, <1>8, <1>10, <1>11, <1>12, <1>13, <1>14, SessionStep

LEMMA DisconnectFlows ==
    ASSUME Streams, NEW s \in Session, Disconnect(s),
           UNCHANGED <<net, ui, queues, dropped, past>>
    PROVE  Flows'
<1> DEFINE q == toClient[s]
<1>1. /\ Typing /\ Registry /\ Downstream(s) /\ Numbered(s) /\ LogInv
  BY DEF Streams, Base, Flows
<1>2. /\ \A t \in Session : conn'[t] = IF t = s THEN "DISCONNECTED" ELSE conn[t]
      /\ clients' = [x \in DOMAIN clients' |-> clients[x]]
      /\ DOMAIN clients' = DOMAIN clients \ {x \in {ClientOf[s]} : Owns(s)}
      /\ DOMAIN presence' = DOMAIN clients'
      /\ presence' = [x \in DOMAIN presence' |-> presence[x]]
      /\ DOMAIN pending_sync_operations' =
            DOMAIN pending_sync_operations \ {x \in {ClientOf[s]} : Owns(s)}
      /\ \A x \in DOMAIN pending_sync_operations' :
            pending_sync_operations'[x] = pending_sync_operations[x]
      /\ UNCHANGED <<current_document, rows>>
      /\ \A t \in Session : toServer'[t] = IF t = s THEN <<>> ELSE toServer[t]
  BY <1>1, Disconnected
<1>3. PICK n \in 0..Len(q) :
         \A t \in Session : toClient'[t] = IF t = s THEN SubSeq(q, 1, n) ELSE toClient[t]
  BY <1>1, Disconnected
<1>4. UNCHANGED <<net, known, cursor, remote_cursors, incoming, outgoing, dropped, past>>
  BY DEF ui, queues
<1>5. Numbered(s)' /\ Typed' = Typed
  BY <1>4, NumberedSame
<1>6. /\ OwnOps(s)' = OwnOps(s) /\ LogOf(s)' = LogOf(s) /\ Told(s)' = Told(s)
      /\ Stored(WantedDocument[s])' = Stored(WantedDocument[s]) /\ Places' = Places
      /\ Waiting(s)' = <<>> /\ ~IsSyncing(s)' /\ ~IsLive(s)'
      /\ toClient'[s] = SubSeq(q, 1, n)
  BY <1>2, <1>3, <1>4 DEF OwnOps, LogOf, Told, Stored, Places, Waiting, IsSyncing, IsLive
<1>7. Upstream(s)' /\ Fresh(s)'
  BY <1>2 DEF Upstream, Fresh
<1>8. Downstream(s)'
  <2>1. q \in Seq(DownMessage(Typed))
    BY <1>1 DEF Typing, ChannelTyping
  <2>2. /\ Disjoint(q, Told(s))
        /\ Follows(q, Told(s), Places, OwnOps(s), LogOf(s))
    BY <1>1 DEF Downstream
  <2> HIDE DEF q
  <2>3. /\ Disjoint(SubSeq(q, 1, n), Told(s))
        /\ Follows(SubSeq(q, 1, n), Told(s), Places, OwnOps(s), LogOf(s))
    BY <2>1, <2>2, DownPrefix
  <2>4. \A K : Disjoint(<<>>, K) /\ Follows(<<>>, K, Places, OwnOps(s), LogOf(s))
    BY FollowsOne
  <2>5. OpsDown(<<>>) = {}
    BY CarriedOne
  <2> QED  BY <1>1, <1>4, <1>6, <2>3, <2>4, <2>5 DEF Downstream
<1>9. \A x \in DOMAIN presence' :
         presence'[x] \in Places' \cup Stored(WantedDocument[clients'[x]])
  <2> SUFFICES ASSUME NEW x \in DOMAIN presence'
               PROVE  presence'[x] \in Places' \cup Stored(WantedDocument[clients'[x]])
    OBVIOUS
  <2>1. x \in DOMAIN clients /\ clients'[x] = clients[x] /\ presence'[x] = presence[x]
    BY <1>2
  <2>2. x \in DOMAIN presence
    BY <1>1, <2>1 DEF Registry
  <2> QED  BY <1>1, <1>4, <2>1, <2>2, PresenceKept
<1>10. \A t \in Session \ {s} : conn[t] \in {"REGISTERED", "SYNCING"} =>
          pending_sync_operations'[ClientOf[t]] = pending_sync_operations[ClientOf[t]]
  <2> SUFFICES ASSUME NEW t \in Session \ {s}, conn[t] \in {"REGISTERED", "SYNCING"}
               PROVE  pending_sync_operations'[ClientOf[t]]
                         = pending_sync_operations[ClientOf[t]]
    OBVIOUS
  <2>1. /\ ClientOf[t] \in DOMAIN clients /\ clients[ClientOf[t]] = t
        /\ Owns(s) => ClientOf[s] # ClientOf[t]
    BY <1>1, OtherClient DEF IsRegistered
  <2>2. ClientOf[t] \in DOMAIN pending_sync_operations
    BY <1>1, <2>1 DEF Registry, IsLive
  <2> QED  BY <1>2, <2>1, <2>2
<1> QED  BY <1>2, <1>3, <1>4, <1>5, <1>7, <1>8, <1>9, <1>10, SessionStep

\* What a live client with the same document is told of: its own, or stored.
LEMMA PeerPositions ==
    ASSUME Streams, NEW s \in Session, HasDocument(s),
           NEW c \in DOMAIN clients, IsLive(clients[c]),
           current_document[clients[c]] = current_document[s]
    PROVE  presence[c] \in Places \cup Stored(WantedDocument[s])
<1>1. clients[c] \in Session
  BY DEF Streams, Base, Typing, ServerTyping
<1>2. WantedDocument[clients[c]] = WantedDocument[s]
  BY <1>1 DEF Streams, Base, Stages, Stage, HasDocument
<1> QED  BY <1>2 DEF Streams, Base, Registry, Flows, LogInv

LEMMA CaughtUp ==
    ASSUME Streams, NEW s \in Session, IsSyncing(s)
    PROVE  /\ CatchUp(s) \in Seq(DownMessage(Typed))
           /\ OpsDown(CatchUp(s)) = OpsDown(Waiting(s))
           /\ Disjoint(CatchUp(s), Written(s))
           /\ IsConnected(s) => Follows(CatchUp(s), Written(s), Places, OwnOps(s), LogOf(s))
<1> DEFINE w == WaitingFor(s)
           r == PresenceFor(s)
           H == Written(s)
           G == Written(s) \cup OpsDown(WaitingFor(s))
           O == OwnOps(s)
           L == LogOf(s)
           S == Stored(WantedDocument[s])
<1>1. Typing /\ Registry /\ Stage(s) /\ Downstream(s) /\ Numbered(s)
  BY DEF Streams, Base, Flows, Stages
<1>2. /\ w \in Seq(DownMessage(Typed)) /\ r \in Seq(DownMessage(Typed))
      /\ \A i \in DOMAIN r :
            \E c \in DOMAIN clients \ {ClientOf[s]} :
               /\ r[i] = [type |-> "CURSOR_UPDATE", sender |-> c,
                          position |-> presence[c]]
               /\ IsLive(clients[c]) /\ HasDocument(clients[c])
               /\ current_document[clients[c]] = current_document[s]
  BY <1>1, CatchUpMessages
<1>3. \A i \in DOMAIN r : /\ r[i].type = "CURSOR_UPDATE" /\ Carried(r[i]) = {}
                          /\ r[i].position \in Places \cup S
  <2> SUFFICES ASSUME NEW i \in DOMAIN r
               PROVE  /\ r[i].type = "CURSOR_UPDATE" /\ Carried(r[i]) = {}
                      /\ r[i].position \in Places \cup S
    OBVIOUS
  <2>1. PICK c \in DOMAIN clients :
           /\ r[i] = [type |-> "CURSOR_UPDATE", sender |-> c, position |-> presence[c]]
           /\ IsLive(clients[c])
           /\ current_document[clients[c]] = current_document[s]
           /\ HasDocument(s)
    BY <1>2 DEF HasDocument
  <2>2. presence[c] \in Places \cup S
    BY <2>1, PeerPositions
  <2> HIDE DEF S
  <2> QED  BY <2>1, <2>2 DEF Carried
<1>4. Waiting(s) = w /\ CatchUp(s) = w \o r
  BY DEF Waiting, CatchUp
<1>5. /\ Disjoint(w, H)
      /\ IsConnected(s) => Follows(w, H, Places, O, L) /\ S \subseteq G
      /\ Reads(H, O, L)
  BY <1>1, <1>4, OnTheWay DEF Downstream
<1>6. G = H \cup OpsDown(w)
  OBVIOUS
<1> HIDE DEF w, r, H, G, O, L, S
<1>7. OpsDown(r) = {} /\ \A i \in DOMAIN r : CarriedBy(r, i - 1) = {}
  <2>1. DOMAIN r = 1..Len(r)
    BY <1>2
  <2>2. OpsDown(r) = {}
    BY <1>3, <2>1 DEF OpsDown, CarriedBy
  <2>3. ASSUME NEW i \in DOMAIN r PROVE CarriedBy(r, i - 1) = {}
    <3>1. \A j \in 1..i - 1 : j \in DOMAIN r
      BY <2>1
    <3> QED  BY <1>3, <3>1 DEF CarriedBy
  <2> QED  BY <2>2, <2>3
<1>8. Disjoint(r, G)
  BY <1>3 DEF Disjoint
<1>9. ASSUME IsConnected(s)
      PROVE  Follows(r, G, Places, O, L)
  <2>1. Reads(G, O, L)
    BY <1>2, <1>5, <1>6, <1>9, FollowsEnds
  <2> SUFFICES ASSUME NEW i \in DOMAIN r
               PROVE  Lands(r[i], G \cup CarriedBy(r, i - 1), Places, O, L)
    BY DEF Follows
  <2>2. G \cup CarriedBy(r, i - 1) = G /\ G \cup Carried(r[i]) = G
    BY <1>3, <1>7
  <2>3. r[i].position \in G \cup Places
    BY <1>3, <1>5, <1>9
  <2> QED  BY <2>1, <2>2, <2>3 DEF Lands
<1>10. /\ w \o r \in Seq(DownMessage(Typed)) /\ OpsDown(w \o r) = OpsDown(w)
  <2>1. OpsDown(w \o r) = OpsDown(w) \cup OpsDown(r)
    BY <1>2, CarriedJoined
  <2> QED  BY <1>2, <1>7, <2>1, Joined
<1>11. Disjoint(w \o r, H)
  BY <1>2, <1>5, <1>6, <1>8, FollowsJoined
<1>12. ASSUME IsConnected(s) PROVE Follows(w \o r, H, Places, O, L)
  BY <1>2, <1>5, <1>6, <1>9, <1>12, FollowsJoined
<1> QED  BY <1>4, <1>10, <1>11, <1>12 DEF H, O, L

LEMMA SyncCompleteFlows ==
    ASSUME Streams, NEW s \in Session, toServer[s] # <<>>, IsOpen(s),
           Head(toServer[s]).type = "SYNC_COMPLETE", SyncComplete(s), IsSyncing(s),
           UNCHANGED <<net, ui, queues, history>>
    PROVE  Flows'
<1> DEFINE q == toClient[s]
           u == CatchUp(s)
           S == Stored(WantedDocument[s])
<1>1. /\ Typing /\ Registry /\ Stage(s)
      /\ Upstream(s) /\ Numbered(s) /\ Downstream(s) /\ Fresh(s) /\ LogInv
  BY DEF Streams, Base, Flows, Stages
<1>2. /\ \A t \in Session : conn'[t] = IF t = s THEN "LIVE" ELSE conn[t]
      /\ pending_sync_operations' = Erase(pending_sync_operations, ClientOf[s])
      /\ UNCHANGED <<current_document, rows, clients, presence, net, known, cursor,
                     remote_cursors, incoming, outgoing, dropped, past>>
  BY <1>1 DEF SyncComplete, Typing, ServerTyping, ui, queues, history
<1>3. \A t \in Session : toServer'[t] = IF t = s THEN Tail(toServer[t]) ELSE toServer[t]
  BY <1>1, ReadTyped DEF SyncComplete
<1>4. /\ u \in Seq(DownMessage(Typed)) /\ OpsDown(u) = OpsDown(Waiting(s))
      /\ Disjoint(u, Written(s))
      /\ IsConnected(s) => Follows(u, Written(s), Places, OwnOps(s), LogOf(s))
  BY CaughtUp
<1>5. /\ \A t \in Session \ {s} : toClient'[t] = toClient[t]
      /\ net[s] = "DISCONNECTED" => toClient'[s] = q
      /\ net[s] # "DISCONNECTED" => toClient'[s] = q \o u
  <2>1. SendTo(s, u)
    BY DEF SyncComplete
  <2> HIDE DEF u
  <2> QED  BY <1>1, <1>4, <2>1, SentTo DEF Typing
<1>6. /\ Stored(WantedDocument[s])' = S /\ LogOf(s)' = LogOf(s)
      /\ OwnOps(s)' = OwnOps(s) /\ Typed' = Typed /\ Told(s)' = Told(s)
      /\ Places' = Places /\ Waiting(s)' = <<>>
      /\ IsConnected(s)' <=> IsConnected(s)
  BY <1>2 DEF Stored, LogOf, OwnOps, Typed, Told, Places, Waiting, IsSyncing, IsConnected
<1>7. net[s] # "DISCONNECTED" => IsConnected(s)
  BY <1>1 DEF Stage, IsSyncing, IsConnected
<1>8. q \in Seq(DownMessage(Typed)) /\ Written(s) = Told(s) \cup OpsDown(q)
  BY <1>1 DEF Typing, ChannelTyping, Written
<1>9. Written(s)' = Told(s) \cup OpsDown(toClient'[s])
  BY <1>6 DEF Written
<1>10. /\ Disjoint(q, Told(s)) /\ Follows(q, Told(s), Places, OwnOps(s), LogOf(s))
       /\ IsConnected(s) => S \subseteq Written(s) \cup OpsDown(Waiting(s))
  BY <1>1 DEF Downstream
<1> HIDE DEF q, u, S
<1>11. Upstream(s)'
  <2>1. OpOf(Head(toServer[s])) = {}
    BY DEF OpOf
  <2> QED  BY <1>3, <1>6, <2>1, ReadUpstream DEF S
<1>12. Downstream(s)'
  <2>1. \A K : Disjoint(<<>>, K) /\ Follows(<<>>, K, Places, OwnOps(s), LogOf(s))
    BY FollowsOne
  <2>2. OpsDown(<<>>) = {}
    BY CarriedOne
  <2>3. /\ Disjoint(toClient'[s], Told(s))
        /\ Follows(toClient'[s], Told(s), Places, OwnOps(s), LogOf(s))
        /\ IsConnected(s) => S \subseteq Written(s)'
    <3>1. CASE net[s] = "DISCONNECTED"
      BY <1>5, <1>10, <3>1 DEF IsConnected
    <3>2. CASE net[s] # "DISCONNECTED"
      <4>1. Disjoint(q \o u, Told(s))
        BY <1>4, <1>8, <1>10, FollowsJoined
      <4>2. Follows(q \o u, Told(s), Places, OwnOps(s), LogOf(s))
        BY <1>4, <1>7, <1>8, <1>10, <3>2, FollowsJoined
      <4>3. OpsDown(q \o u) = OpsDown(q) \cup OpsDown(u)
        BY <1>4, <1>8, CarriedJoined
      <4> QED  BY <1>4, <1>5, <1>8, <1>9, <1>10, <3>2, <4>1, <4>2, <4>3
    <3> QED  BY <3>1, <3>2
  <2>4. known'[s] = known[s] /\ incoming'[s] = incoming[s]
        /\ remote_cursors'[s] = remote_cursors[s]
    BY <1>2
  <2> QED  BY <1>1, <1>6, <2>1, <2>2, <2>3, <2>4 DEF Downstream, S
<1>13. Fresh(s)' /\ Numbered(s)'
  BY <1>2, NumberedSame DEF Fresh
<1>14. \A x \in DOMAIN presence' :
          presence'[x] \in Places' \cup Stored(WantedDocument[clients'[x]])
  BY <1>1, <1>2, PresenceKept
<1>15. \A t \in Session \ {s} : conn[t] \in {"REGISTERED", "SYNCING"} =>
          pending_sync_operations'[ClientOf[t]] = pending_sync_operations[ClientOf[t]]
  <2> SUFFICES ASSUME NEW t \in Session \ {s}, conn[t] \in {"REGISTERED", "SYNCING"}
               PROVE  pending_sync_operations'[ClientOf[t]]
                         = pending_sync_operations[ClientOf[t]]
    OBVIOUS
  <2>1. Owns(s)
    BY <1>1 DEF Registry, IsRegistered, IsSyncing
  <2>2. /\ ClientOf[t] \in DOMAIN clients /\ clients[ClientOf[t]] = t
        /\ ClientOf[s] # ClientOf[t]
    BY <1>1, <2>1, OtherClient DEF IsRegistered
  <2>3. ClientOf[t] \in DOMAIN pending_sync_operations
    BY <1>1, <2>2 DEF Registry, IsLive
  <2> QED  BY <1>2, <2>2, <2>3 DEF Erase
<1> QED  BY <1>2, <1>3, <1>5, <1>6, <1>11, <1>12, <1>13, <1>14, <1>15, SessionStep

\* The server's message from another session reaches, or passes by, session t.
LEMMA PeerKept ==
    ASSUME Streams, NEW t \in Session, UNCHANGED <<net, ui, queues, history>>,
           conn' = conn, toServer'[t] = toServer[t],
           conn[t] = "REGISTERED" => pending_sync_operations'[ClientOf[t]]
                                        = pending_sync_operations[ClientOf[t]],
           Stored(WantedDocument[t]) \subseteq Stored(WantedDocument[t])',
           \A d \in DOMAIN rows' : \A op \in Stored(d)' :
              op[1] = t => d \in DOMAIN rows /\ op \in Stored(d)
    PROVE  Upstream(t)' /\ Numbered(t)' /\ Fresh(t)'
<1>1. UNCHANGED <<net, known, cursor, remote_cursors, incoming, outgoing, dropped, past>>
  BY DEF ui, queues, history
<1>2. Typing /\ Upstream(t) /\ Fresh(t)
  BY DEF Streams, Base, Flows
<1>3. Upstream(t)'
  <2>1. \A e \in Stored(WantedDocument[t])' :
           e[1] = t => e \in Stored(WantedDocument[t])
    BY DEF Stored
  <2> QED  BY <1>1, <1>2, <2>1, UpstreamKept
<1>4. Numbered(t)'
  BY <1>1, NumberedSame
<1>5. OwnOps(t)' = OwnOps(t)
  BY <1>1 DEF OwnOps
<1>6. Fresh(t)'
  BY <1>1, <1>2, <1>5, FreshKept
<1> QED  BY <1>3, <1>4, <1>6

\* A live session whose client is connected has been sent all that is stored.
LEMMA LivePeer ==
    ASSUME Streams, NEW t \in Session, IsLive(t), net[t] # "DISCONNECTED"
    PROVE  /\ IsConnected(t) /\ Waiting(t) = <<>>
           /\ Stored(WantedDocument[t]) \subseteq Written(t)
<1>1. IsConnected(t) /\ Waiting(t) = <<>>
  BY DEF Streams, Base, Stages, Stage, IsLive, IsSyncing, IsConnected, Waiting
<1>2. Stored(WantedDocument[t]) \subseteq Written(t) \cup OpsDown(<<>>)
  BY <1>1 DEF Streams, Flows, Downstream
<1>3. OpsDown(<<>>) = {}
  BY CarriedOne
<1> QED  BY <1>1, <1>2, <1>3

LEMMA CursorUpdateFlows ==
    ASSUME Streams, NEW s \in Session, toServer[s] # <<>>, IsOpen(s),
           Head(toServer[s]).type = "CURSOR_UPDATE",
           CursorUpdate(s, Head(toServer[s]).position), IsLive(s),
           UNCHANGED <<net, ui, queues, history>>
    PROVE  Flows'
<1> DEFINE position == Head(toServer[s]).position
           c == ClientOf[s]
           m == [type |-> "CURSOR_UPDATE", sender |-> ClientOf[s],
                 position |-> position]
<1>1. /\ Typing /\ Registry /\ Stages /\ LogInv /\ Upstream(s) /\ c \in Client
      /\ Owns(s) /\ HasDocument(s)
  <2>1. Typing /\ Registry /\ Stages /\ LogInv /\ Upstream(s) /\ c \in Client
    BY SessionAssumption DEF Streams, Base, Flows
  <2>2. current_document[s] \in DocumentID
    BY <2>1 DEF Registry, Typing, ServerTyping
  <2> QED  BY <2>1, <2>2, NoneAssumption DEF Registry, IsRegistered, IsLive, HasDocument
<1>2. /\ UNCHANGED <<conn, current_document, clients, pending_sync_operations, rows, net,
                     known, cursor, remote_cursors, incoming, outgoing, dropped, past>>
      /\ presence' = [presence EXCEPT ![c] = position]
      /\ Typed' = Typed
  BY DEF CursorUpdate, ui, queues, history, Typed
<1>3. \A t \in Session : toServer'[t] = IF t = s THEN Tail(toServer[t]) ELSE toServer[t]
  BY <1>1, ReadTyped DEF CursorUpdate
<1>4. position \in Places \cup Stored(WantedDocument[s])
  <2>1. toServer[s] \in Seq(UpMessage(Typed))
    BY <1>1 DEF Typing, ChannelTyping
  <2>2. InOrder(s, toServer[s], past, Settled(s), Stored(WantedDocument[s]))
    BY <1>1 DEF Upstream, IsLive
  <2>3. Fits(s, Head(toServer[s]), past, Settled(s), Stored(WantedDocument[s]))
    BY <2>1, <2>2, UpTail
  <2> QED  BY <2>3 DEF Fits, Settled, Places
<1>5. /\ m \in DownMessage(Typed) /\ Carried(m) = {} /\ m.type = "CURSOR_UPDATE"
      /\ m.position = position
  <2>1. position \in Typed \cup {Start}
    BY <1>1, <1>4, StoredRows DEF Places, Typing, HistoryTyping
  <2> QED  BY <1>1, <2>1, DownFrom DEF Carried
<1>6. \A t \in Session :
         toClient'[t] = IF /\ net[t] # "DISCONNECTED" /\ IsLive(t)
                           /\ \E x \in Peers(s) : clients[x] = t
                        THEN Append(toClient[t], m) ELSE toClient[t]
  <2>1. Send(ToLivePeers(s, m))
    BY DEF CursorUpdate
  <2> HIDE DEF m
  <2> QED  BY <1>1, <1>5, <2>1, Routed
<1>7. /\ \A d : Stored(d)' = Stored(d)
      /\ \A t \in Session : LogOf(t)' = LogOf(t) /\ Waiting(t)' = Waiting(t)
      /\ \A t \in Session : (IsSyncing(t) \/ IsLive(t))' <=> (IsSyncing(t) \/ IsLive(t))
  BY <1>2 DEF Stored, LogOf, Waiting, WaitingFor, IsSyncing, IsLive
<1> HIDE DEF m, position
<1>8. ASSUME NEW t \in Session
      PROVE  Downstream(t)'
  <2>1. Extended(LogOf(t), LogOf(t)')
    BY <1>1, <1>7, LogTyped
  <2>2. CASE toClient'[t] = toClient[t]
    <3>1. IsConnected(t) /\ (IsSyncing(t) \/ IsLive(t)) =>
             Stored(WantedDocument[t]) \subseteq Written(t) \cup OpsDown(Waiting(t))
      BY DEF Streams, Flows, Downstream
    <3> QED  BY <1>7, <2>1, <2>2, <3>1, DownstreamGrown
  <2>3. CASE toClient'[t] # toClient[t]
    <3>1. /\ net[t] # "DISCONNECTED" /\ IsLive(t)
          /\ toClient'[t] = Append(toClient[t], m)
          /\ current_document[t] = current_document[s]
      BY <1>6, <2>3 DEF Peers
    <3>2. WantedDocument[t] = WantedDocument[s]
      BY <1>1, <3>1 DEF Stages, Stage, HasDocument
    <3>3. Waiting(t) = <<>> /\ Stored(WantedDocument[t]) \subseteq Written(t)
      BY <3>1, LivePeer
    <3>4. Reads(Written(t), OwnOps(t), LogOf(t))
      BY <1>1, OnTheWay DEF Streams, Flows
    <3>5. Written(t) \cup Carried(m) = Written(t) /\ Carried(m) \cap Written(t) = {}
      BY <1>5
    <3>6. m.position \in Written(t) \cup Places
      BY <1>4, <1>5, <3>2, <3>3
    <3> QED  BY <1>5, <1>7, <2>1, <3>1, <3>3, <3>4, <3>5, <3>6, SentDownstream
  <2> QED  BY <2>2, <2>3
<1>9. ASSUME NEW t \in Session \ {s}
      PROVE  Upstream(t)' /\ Numbered(t)' /\ Fresh(t)'
  BY <1>2, <1>3, <1>7, PeerKept
<1>10. Upstream(s)' /\ Numbered(s)' /\ Fresh(s)'
  <2>1. OpOf(Head(toServer[s])) = {}
    BY DEF OpOf
  <2>2. Upstream(s)'
    BY <1>3, <1>7, <2>1, ReadUpstream
  <2> QED  BY <1>2, <2>2, NumberedSame DEF Fresh, IsLive
<1>11. LogInv'
  <2>1. \A x \in DOMAIN presence' :
           presence'[x] \in Places' \cup Stored(WantedDocument[clients'[x]])
    <3> SUFFICES ASSUME NEW x \in DOMAIN presence'
                 PROVE  presence'[x] \in Places' \cup Stored(WantedDocument[clients'[x]])
      OBVIOUS
    <3>1. CASE x = c
      <4>1. presence'[x] = position /\ clients'[x] = s
        BY <1>1, <1>2, <3>1 DEF Owns
      <4> QED  BY <1>2, <1>4, <4>1 DEF Places
    <3>2. CASE x # c
      <4>1. x \in DOMAIN presence /\ presence'[x] = presence[x] /\ clients'[x] = clients[x]
        BY <1>2, <3>2
      <4> QED  BY <1>1, <1>2, <4>1, PresenceKept
    <3> QED  BY <3>1, <3>2
  <2> QED  BY <1>1, <1>2, <2>1, LogInvKept
<1> QED  BY <1>8, <1>9, <1>10, <1>11 DEF Flows

\* The operation that the server reads is stored for the first time, after what
\* it rests on.
LEMMA StoredOneMore ==
    ASSUME Streams, NEW s \in Session, toServer[s] # <<>>,
           Head(toServer[s]).type = "OPERATION", NEW op, op = Head(toServer[s]).op,
           Operation(s, op), IsLive(s), HasDocument(s)
    PROVE  LET d == WantedDocument[s]
           IN  /\ d = current_document[s] /\ d \in DOMAIN rows
               /\ op \in Typed /\ op[1] = s /\ op \in known[s] /\ op \notin Stored(d)
               /\ past[op] \subseteq dropped \cup Stored(d)
               /\ \A e \in Stored(d) : e[1] = s => e[2] < op[2]
               /\ rows' = [rows EXCEPT ![d] = Append(@, op)]
               /\ Stored(d)' = Stored(d) \cup {op}
               /\ \A e : e # d => Stored(e)' = Stored(e)
<1> DEFINE d == WantedDocument[s]
           L == rows[d]
<1>1. Typing /\ Registry /\ Stages /\ LogInv /\ Upstream(s) /\ Numbered(s)
  BY DEF Streams, Base, Flows
<1>2. d = current_document[s] /\ d \in DOMAIN rows
  <2>1. current_document[s] \in DOMAIN rows
    BY <1>1 DEF Registry
  <2> QED  BY <1>1, <2>1 DEF Stages, Stage
<1>3. /\ op \in Typed /\ op[1] = s /\ past[op] \subseteq dropped \cup Stored(d)
      /\ \A e \in Stored(d) : e[1] = s => e[2] < op[2]
  <2>1. toServer[s] \in Seq(UpMessage(Typed)) /\ Head(toServer[s]) \in UpMessage(Typed)
    BY <1>1, HeadAndTail DEF Typing, ChannelTyping
  <2>2. InOrder(s, toServer[s], past, Settled(s), Stored(d))
    BY <1>1 DEF Upstream, IsLive
  <2>3. Fits(s, Head(toServer[s]), past, Settled(s), Stored(d))
    BY <2>1, <2>2, UpTail
  <2> QED  BY <2>1, <2>3, UpMessages DEF Fits, Settled
<1>4. op \in known[s]
  BY <1>1, <1>3 DEF Numbered
<1>5. op \notin Stored(d)
  <2>1. ASSUME op \in Stored(d) PROVE op[2] < op[2]
    BY <1>3, <2>1
  <2>2. op[2] \in Nat
    BY <1>1, <1>3 DEF Typing, HistoryTyping, Op
  <2> QED  BY <2>1, <2>2
<1>6. rows' = [rows EXCEPT ![d] = Append(@, op)]
  BY <1>2, <1>5 DEF Operation
<1>7. L \in Seq(Typed) /\ Append(L, op) \in Seq(Typed)
  BY <1>1, <1>2, <1>3, Appended DEF Typing, ServerTyping
<1>8. ToSet(Append(L, op)) = ToSet(L) \cup {op}
  <2> HIDE DEF L
  <2>1. /\ ToSet(L) = {L[i] : i \in 1..Len(L)}
        /\ ToSet(Append(L, op)) = {Append(L, op)[i] : i \in 1..Len(Append(L, op))}
    BY <1>7, ToSets
  <2>2. /\ Len(L) \in Nat /\ Len(Append(L, op)) = Len(L) + 1
        /\ \A i \in 1..Len(L) : Append(L, op)[i] = L[i]
        /\ Append(L, op)[Len(L) + 1] = op
    BY <1>3, <1>7, Appended
  <2>3. 1..Len(L) + 1 = (1..Len(L)) \cup {Len(L) + 1}
    BY <2>2
  <2> QED  BY <2>1, <2>2, <2>3
<1>9. DOMAIN rows' = DOMAIN rows /\ rows'[d] = Append(L, op)
      /\ \A e \in DOMAIN rows : e # d => rows'[e] = rows[e]
  BY <1>2, <1>6
<1>10. Stored(d)' = Stored(d) \cup {op}
  BY <1>2, <1>8, <1>9 DEF Stored
<1>11. \A e : e # d => Stored(e)' = Stored(e)
  BY <1>9 DEF Stored
<1> QED  BY <1>2, <1>3, <1>4, <1>5, <1>6, <1>10, <1>11

LEMMA LogOneMore ==
    ASSUME Typing, NEW d \in DOMAIN rows, NEW op \in Typed,
           rows' = [rows EXCEPT ![d] = Append(@, op)], NEW t \in Session
    PROVE  /\ Extended(LogOf(t), LogOf(t)')
           /\ \A i \in 1..Len(rows[d]) : rows'[d][i] = rows[d][i]
           /\ rows'[d][Len(rows[d]) + 1] = op
           /\ DOMAIN rows'[d] = 1..Len(rows[d]) + 1 /\ Len(rows[d]) \in Nat
           /\ WantedDocument[t] = d => \A O : Reads(O \cup Stored(d) \cup {op}, O, LogOf(t)')
           /\ WantedDocument[t] # d => LogOf(t)' = LogOf(t)
<1> DEFINE L == rows[d]
           M == Append(rows[d], op)
<1>1. DOMAIN rows' = DOMAIN rows /\ rows'[d] = M
      /\ \A e \in DOMAIN rows : e # d => rows'[e] = rows[e]
  OBVIOUS
<1>2. /\ Len(L) \in Nat /\ Len(M) = Len(L) + 1 /\ DOMAIN M = 1..Len(L) + 1
      /\ \A i \in 1..Len(L) : M[i] = L[i]
      /\ M[Len(L) + 1] = op
  BY Appended DEF Typing, ServerTyping
<1>3. Extended(L, M)
  BY <1>2 DEF Extended
<1>4. CASE WantedDocument[t] # d
  <2>1. LogOf(t)' = LogOf(t)
    BY <1>1, <1>4 DEF LogOf
  <2> QED  BY <1>1, <1>2, <1>4, <2>1, LogTyped
<1>5. CASE WantedDocument[t] = d
  <2>1. LogOf(t) = L /\ LogOf(t)' = M
    BY <1>1, <1>5 DEF LogOf
  <2>2. Stored(d) = FirstOf(L, Len(L))
    BY <1>5, <2>1, LogTyped
  <2> HIDE DEF L, M
  <2>3. FirstOf(M, Len(M)) = FirstOf(L, Len(L)) \cup {op}
    <3>1. 1..Len(M) = (1..Len(L)) \cup {Len(L) + 1}
      BY <1>2
    <3> QED  BY <1>2, <3>1 DEF FirstOf
  <2>4. ASSUME NEW O PROVE Reads(O \cup Stored(d) \cup {op}, O, M)
    <3>1. Len(M) \in 0..Len(M) /\ O \cup Stored(d) \cup {op} = O \cup FirstOf(M, Len(M))
      BY <1>2, <2>2, <2>3
    <3> QED  BY <3>1 DEF Reads
  <2> QED  BY <1>1, <1>2, <1>3, <1>5, <2>1, <2>4 DEF L, M
<1> QED  BY <1>4, <1>5

\* The list of a session that syncs gets the operation at its end.
LEMMA CollectedDownstream ==
    ASSUME Streams, NEW t \in Session, UNCHANGED <<net, ui, queues, history>>,
           NEW m \in DownMessage(Typed), toClient'[t] = toClient[t],
           m.type # "CURSOR_UPDATE", Waiting(t)' = Append(Waiting(t), m),
           Extended(LogOf(t), LogOf(t)'),
           Carried(m) \cap (Written(t) \cup OpsDown(Waiting(t))) = {},
           Stored(WantedDocument[t])' = Stored(WantedDocument[t]) \cup Carried(m),
           Reads(OwnOps(t) \cup Stored(WantedDocument[t])', OwnOps(t), LogOf(t)'),
           IsSyncing(t)
    PROVE  Downstream(t)'
<1> DEFINE w == Waiting(t)
           w2 == Append(Waiting(t), m)
           H == Written(t)
           O == OwnOps(t)
           M == LogOf(t)'
           D == Stored(WantedDocument[t])
           D2 == Stored(WantedDocument[t])'
<1>1. /\ UNCHANGED <<known, remote_cursors, incoming, dropped>>
      /\ Downstream(t) /\ Typing /\ Registry /\ Numbered(t)
      /\ IsConnected(t)' <=> IsConnected(t)
  BY DEF ui, queues, history, Streams, Base, Flows, IsConnected
<1>2. /\ OwnOps(t)' = O /\ Told(t)' = Told(t) /\ Written(t)' = H
      /\ Places' = Places /\ known'[t] = known[t] /\ incoming'[t] = incoming[t]
      /\ remote_cursors'[t] = remote_cursors[t]
  BY <1>1 DEF OwnOps, Told, Written, Places
<1>3. /\ w \in Seq(DownMessage(Typed)) /\ H \cup OpsDown(w) \subseteq O \cup D
      /\ OpsDown(w) \subseteq D /\ Disjoint(w, H) /\ O \subseteq H
      /\ IsConnected(t) => Follows(w, H, Places, O, LogOf(t)) /\ D \subseteq H \cup OpsDown(w)
  <2>1. O \subseteq known[t]
    BY DEF OwnOps
  <2> QED  BY <1>1, <2>1, OnTheWay DEF Downstream, Written, Told
<1>4. /\ Extended(LogOf(t), M) /\ Carried(m) \cap (H \cup OpsDown(w)) = {}
      /\ D2 = D \cup Carried(m) /\ Reads(O \cup D2, O, M)
      /\ w2 = Append(w, m)
  OBVIOUS
<1>5. M = LogOf(t)' /\ D2 = Stored(WantedDocument[t])' /\ Waiting(t)' = w2
  OBVIOUS
<1> HIDE DEF M, D2, D, w, w2, H, O
<1>6. /\ Reads(known[t], O, M)
      /\ Follows(incoming[t], known[t], Places, O, M)
      /\ Follows(toClient[t], Told(t), Places, O, M)
      /\ IsConnected(t) => Follows(w, H, Places, O, M)
  <2>1. /\ Reads(known[t], O, LogOf(t))
        /\ Follows(incoming[t], known[t], Places, O, LogOf(t))
        /\ Follows(toClient[t], Told(t), Places, O, LogOf(t))
    BY <1>1 DEF Downstream, O
  <2>2. Extended(LogOf(t), M)
    BY <1>4
  <2> QED  BY <1>3, <2>1, <2>2, FollowsLonger
<1>7. OpsDown(w2) = OpsDown(w) \cup Carried(m) /\ Disjoint(w2, H)
  <2>1. Carried(m) \cap (H \cup OpsDown(w)) = {} /\ w2 = Append(w, m)
    BY <1>4
  <2>2. w \in Seq(DownMessage(Typed)) /\ Disjoint(w, H)
    BY <1>3
  <2>3. OpsDown(Append(w, m)) = OpsDown(w) \cup Carried(m)
    BY <2>2, DownOneMore
  <2>4. Disjoint(Append(w, m), H)
    BY <2>1, <2>2, DownAppended
  <2> QED  BY <2>1, <2>3, <2>4
<1>8. ASSUME IsConnected(t)
      PROVE  Follows(w2, H, Places, O, M) /\ D2 \subseteq H \cup OpsDown(w2)
  <2>1. (H \cup OpsDown(w)) \cup Carried(m) = O \cup D2
    BY <1>3, <1>4, <1>8
  <2>2. Lands(m, H \cup OpsDown(w), Places, O, M)
    BY <1>4, <2>1 DEF Lands
  <2>3. w \in Seq(DownMessage(Typed)) /\ Follows(w, H, Places, O, M) /\ w2 = Append(w, m)
    BY <1>3, <1>4, <1>6, <1>8
  <2>4. Follows(Append(w, m), H, Places, O, M)
    BY <2>2, <2>3, DownAppended
  <2>5. H \cup OpsDown(w2) = O \cup D2
    BY <1>7, <2>1
  <2> QED  BY <2>3, <2>4, <2>5
<1>9. /\ Disjoint(incoming[t], known[t]) /\ Disjoint(toClient[t], Told(t))
      /\ \A c \in Client : remote_cursors[t][c] \in known[t] \cup Places \cup {None}
  BY <1>1 DEF Downstream
<1>10. OpsDown(w2) \subseteq D2
  BY <1>3, <1>4, <1>7
<1> QED  BY <1>1, <1>2, <1>5, <1>6, <1>7, <1>8, <1>9, <1>10 DEF Downstream

LEMMA OperationFlows ==
    ASSUME Streams, NEW s \in Session, toServer[s] # <<>>, IsOpen(s),
           Head(toServer[s]).type = "OPERATION",
           Operation(s, Head(toServer[s]).op), IsLive(s), HasDocument(s),
           UNCHANGED <<net, ui, queues, history>>
    PROVE  Flows'
<1> DEFINE op == Head(toServer[s]).op
           d == WantedDocument[s]
           m == [type |-> "OPERATION", ops |-> {op}]
<1>1. Typing /\ Registry /\ Stages /\ LogInv /\ Upstream(s) /\ Downstream(s) /\ Numbered(s)
  BY DEF Streams, Base, Flows
<1>2. /\ UNCHANGED <<conn, current_document, clients, presence, net, known, cursor,
                     remote_cursors, incoming, outgoing, dropped, past>>
      /\ pending_sync_operations' = Collect(s, op)
      /\ Typed' = Typed
  BY DEF Operation, ui, queues, history, Typed
<1>3. /\ d = current_document[s] /\ d \in DOMAIN rows /\ d \in DocumentID
      /\ op \in Typed /\ op[1] = s /\ op \in known[s] /\ op \notin Stored(d)
      /\ past[op] \subseteq dropped \cup Stored(d)
      /\ rows' = [rows EXCEPT ![d] = Append(@, op)]
      /\ Stored(d)' = Stored(d) \cup {op}
      /\ \A e : e # d => Stored(e)' = Stored(e)
  BY StoredOneMore, SessionAssumption
<1>4. \A t \in Session : toServer'[t] = IF t = s THEN Tail(toServer[t]) ELSE toServer[t]
  BY <1>1, ReadTyped DEF Operation
<1>5. m \in DownMessage(Typed) /\ Carried(m) = {op} /\ m.type = "OPERATION"
  BY <1>3, DownFrom DEF Carried
<1>6. \A t \in Session :
         toClient'[t] = IF /\ net[t] # "DISCONNECTED" /\ IsLive(t)
                           /\ \E x \in Peers(s) : clients[x] = t
                        THEN Append(toClient[t], m) ELSE toClient[t]
  <2>1. Send(ToLivePeers(s, m))
    BY DEF Operation
  <2> HIDE DEF m
  <2> QED  BY <1>1, <1>5, <2>1, Routed
<1>7. Head(toServer[s]).op = op
  OBVIOUS
<1> HIDE DEF m, op
\* Who receives it.
<1>8. \A t \in Session \ {s} :
         IsLive(t) \/ IsSyncing(t) =>
            (WantedDocument[t] = d <=> ClientOf[t] \in Peers(s))
  <2> SUFFICES ASSUME NEW t \in Session \ {s}, IsLive(t) \/ IsSyncing(t)
               PROVE  WantedDocument[t] = d <=> ClientOf[t] \in Peers(s)
    OBVIOUS
  <2>1. ClientOf[t] \in DOMAIN clients /\ clients[ClientOf[t]] = t
    BY <1>1, OtherClient DEF IsRegistered, IsLive, IsSyncing
  <2>2. current_document[t] \in DocumentID
    BY <1>1 DEF Registry, Typing, ServerTyping
  <2>3. HasDocument(t) /\ current_document[t] = WantedDocument[t]
    BY <1>1, <2>2, NoneAssumption DEF Stages, Stage, HasDocument
  <2> QED  BY <1>3, <2>1, <2>3 DEF Peers
<1>9. \A t \in Session \ {s} :
         IsLive(t) => (WantedDocument[t] = d <=> \E x \in Peers(s) : clients[x] = t)
  <2> SUFFICES ASSUME NEW t \in Session \ {s}, IsLive(t)
               PROVE  WantedDocument[t] = d <=> \E x \in Peers(s) : clients[x] = t
    OBVIOUS
  <2>1. ClientOf[t] \in DOMAIN clients /\ clients[ClientOf[t]] = t
    BY <1>1, OtherClient DEF IsRegistered, IsLive
  <2>2. \A x \in Peers(s) : clients[x] = t => x = ClientOf[t]
    BY <1>1 DEF Registry, Peers
  <2> QED  BY <1>8, <2>1, <2>2
\* The log of each session.
<1>10. ASSUME NEW t \in Session
       PROVE  /\ Extended(LogOf(t), LogOf(t)')
              /\ Stored(WantedDocument[t]) \subseteq Stored(WantedDocument[t])'
              /\ WantedDocument[t] # d =>
                    Stored(WantedDocument[t])' = Stored(WantedDocument[t])
              /\ WantedDocument[t] = d =>
                    /\ Stored(WantedDocument[t])' = Stored(WantedDocument[t]) \cup {op}
                    /\ Reads(OwnOps(t) \cup Stored(d) \cup {op}, OwnOps(t), LogOf(t)')
  <2>1. /\ Extended(LogOf(t), LogOf(t)')
        /\ WantedDocument[t] = d =>
              Reads(OwnOps(t) \cup Stored(d) \cup {op}, OwnOps(t), LogOf(t)')
    BY <1>1, <1>3, LogOneMore
  <2> HIDE DEF d
  <2> QED  BY <1>3, <2>1
\* What other sessions are sent.
<1>11. ASSUME NEW t \in Session \ {s}
       PROVE  Downstream(t)'
  <2>1. /\ Numbered(t) /\ Downstream(t)
        /\ Written(t) \cup OpsDown(Waiting(t))
              \subseteq OwnOps(t) \cup Stored(WantedDocument[t])
        /\ OwnOps(t) \subseteq Written(t)
    <3>1. Numbered(t) /\ Downstream(t)
      BY DEF Streams, Flows
    <3>2. OwnOps(t) \subseteq Written(t)
      BY DEF OwnOps, Written, Told
    <3> QED  BY <1>1, <3>1, <3>2, OnTheWay
  <2>2. op \notin OwnOps(t)
    BY <1>3 DEF OwnOps
  <2>3. CASE WantedDocument[t] = d /\ IsLive(t) /\ net[t] # "DISCONNECTED"
    <3>1. toClient'[t] = Append(toClient[t], m)
      BY <1>6, <1>9, <2>3
    <3>2. Waiting(t) = <<>> /\ Waiting(t)' = <<>> /\ Stored(d) \subseteq Written(t)
      BY <1>2, <2>3, LivePeer DEF Waiting, IsSyncing, IsLive
    <3>3. /\ Written(t) \cup Carried(m) = OwnOps(t) \cup Stored(d) \cup {op}
          /\ Carried(m) \cap Written(t) = {}
      BY <1>3, <1>5, <2>1, <2>2, <2>3, <3>2
    <3>4. Stored(WantedDocument[t])' \subseteq Written(t) \cup Carried(m)
      BY <1>10, <2>3, <3>3
    <3>5. Reads(Written(t) \cup Carried(m), OwnOps(t), LogOf(t)')
      BY <1>10, <2>3, <3>3
    <3>6. Extended(LogOf(t), LogOf(t)')
      BY <1>10
    <3> QED  BY <1>5, <3>1, <3>2, <3>3, <3>4, <3>5, <3>6, SentDownstream
  <2>4. CASE WantedDocument[t] = d /\ IsSyncing(t)
    <3>1. toClient'[t] = toClient[t]
      BY <1>6, <2>4 DEF IsLive, IsSyncing
    <3>2. Waiting(t)' = Append(Waiting(t), m)
      <4>1. ClientOf[t] \in DOMAIN clients /\ clients[ClientOf[t]] = t
        BY <1>1, <2>4, OtherClient DEF IsRegistered, IsSyncing
      <4>2. ClientOf[t] \in DOMAIN pending_sync_operations
        BY <1>1, <2>4, <4>1 DEF Registry, IsLive, IsSyncing
      <4>3. pending_sync_operations'[ClientOf[t]]
               = Append(pending_sync_operations[ClientOf[t]], op)
        BY <1>2, <1>8, <2>4, <4>1, <4>2 DEF Collect
      <4> DEFINE w == pending_sync_operations[ClientOf[t]]
                 v == [i \in DOMAIN w |-> [type |-> "OPERATION", ops |-> {w[i]}]]
                 v2 == [i \in DOMAIN Append(w, op) |->
                           [type |-> "OPERATION", ops |-> {Append(w, op)[i]}]]
      <4>4. Waiting(t) = v /\ Waiting(t)' = v2
        BY <1>2, <2>4, <4>3 DEF Waiting, WaitingFor, IsSyncing
      <4>5. w \in Seq(Typed)
        BY <1>1, <4>2 DEF Typing, ServerTyping
      <4> HIDE DEF w
      <4>6. v2 = Append(v, m)
        <5>1. /\ Len(w) \in Nat /\ DOMAIN w = 1..Len(w)
              /\ DOMAIN Append(w, op) = 1..Len(w) + 1
              /\ \A i \in 1..Len(w) : Append(w, op)[i] = w[i]
              /\ Append(w, op)[Len(w) + 1] = op
              /\ \A i \in 1..Len(w) : w[i] \in Typed
          BY <1>3, <4>5, Appended
        <5>2. \A i \in 1..Len(w) : [type |-> "OPERATION", ops |-> {w[i]}]
                                      \in DownMessage(Typed)
          BY <5>1, DownFrom
        <5>3. /\ v \in Seq(DownMessage(Typed)) /\ Len(v) = Len(w)
              /\ \A i \in 1..Len(w) : v[i] = [type |-> "OPERATION", ops |-> {w[i]}]
          BY <5>1, <5>2
        <5>4. /\ v2 \in [1..Len(w) + 1 -> DownMessage(Typed)]
              /\ \A i \in 1..Len(w) : v2[i] = [type |-> "OPERATION", ops |-> {w[i]}]
              /\ v2[Len(w) + 1] = m
          <6>1. \A i \in 1..Len(w) + 1 : i \in 1..Len(w) \/ i = Len(w) + 1
            BY <5>1
          <6>2. [type |-> "OPERATION", ops |-> {op}] = m
            BY DEF m
          <6>3. /\ DOMAIN v2 = 1..Len(w) + 1 /\ v2 = [i \in DOMAIN v2 |-> v2[i]]
                /\ \A i \in 1..Len(w) + 1 :
                      v2[i] = [type |-> "OPERATION", ops |-> {Append(w, op)[i]}]
            BY <5>1
          <6> HIDE DEF v2
          <6>4. ASSUME NEW i \in 1..Len(w)
                PROVE  v2[i] = [type |-> "OPERATION", ops |-> {w[i]}]
            <7>1. i \in 1..Len(w) + 1 /\ Append(w, op)[i] = w[i]
              BY <5>1
            <7>2. v2[i] = [type |-> "OPERATION", ops |-> {Append(w, op)[i]}]
              BY <6>3, <7>1
            <7> QED  BY <7>1, <7>2
          <6>5. v2[Len(w) + 1] = m
            <7>1. Len(w) + 1 \in 1..Len(w) + 1
              BY <5>1
            <7> QED  BY <5>1, <6>2, <6>3, <7>1
          <6>6. \A i \in 1..Len(w) + 1 : v2[i] \in DownMessage(Typed)
            BY <1>5, <5>2, <6>1, <6>4, <6>5
          <6> QED  BY <6>3, <6>4, <6>5, <6>6
        <5> HIDE DEF v, v2
        <5>5. v2 \in Seq(DownMessage(Typed)) /\ Len(v2) = Len(w) + 1
          BY <5>1, <5>4
        <5>6. /\ Append(v, m) \in Seq(DownMessage(Typed)) /\ Len(Append(v, m)) = Len(w) + 1
              /\ \A i \in 1..Len(w) : Append(v, m)[i] = v[i]
              /\ Append(v, m)[Len(w) + 1] = m
          BY <1>5, <5>3, Appended
        <5>7. \A i \in 1..Len(w) + 1 : v2[i] = Append(v, m)[i]
          <6>1. \A i \in 1..Len(w) + 1 : i \in 1..Len(w) \/ i = Len(w) + 1
            BY <5>1
          <6> QED  BY <5>3, <5>4, <5>6, <6>1
        <5> QED  BY <5>5, <5>6, <5>7, SameSequence
      <4> QED  BY <4>4, <4>6
    <3>3. Carried(m) \cap (Written(t) \cup OpsDown(Waiting(t))) = {}
      BY <1>3, <1>5, <2>1, <2>2, <2>4
    <3>4. /\ Stored(WantedDocument[t])' = Stored(WantedDocument[t]) \cup Carried(m)
          /\ Extended(LogOf(t), LogOf(t)')
      BY <1>5, <1>10, <2>4
    <3>5. Reads(OwnOps(t) \cup Stored(WantedDocument[t])', OwnOps(t), LogOf(t)')
      <4>1. OwnOps(t) \cup Stored(WantedDocument[t])' = OwnOps(t) \cup Stored(d) \cup {op}
        BY <1>10, <2>4
      <4> QED  BY <1>10, <2>4, <4>1
    <3> QED  BY <1>5, <2>4, <3>1, <3>2, <3>3, <3>4, <3>5, CollectedDownstream
  <2>5. CASE \/ WantedDocument[t] # d
             \/ ~IsSyncing(t) /\ ~(IsLive(t) /\ net[t] # "DISCONNECTED")
    <3>1. toClient'[t] = toClient[t]
      BY <1>6, <1>9, <2>5
    <3>2. IsSyncing(t)' = IsSyncing(t) /\ IsLive(t)' = IsLive(t)
      BY <1>2 DEF IsSyncing, IsLive
    <3>3. Waiting(t)' = Waiting(t)
      <4>1. CASE ~IsSyncing(t)
        BY <3>2, <4>1 DEF Waiting
      <4>2. CASE IsSyncing(t)
        <5>1. ClientOf[t] \notin Peers(s)
          BY <1>8, <2>5, <4>2
        <5>2. ClientOf[t] \in DOMAIN clients /\ clients[ClientOf[t]] = t
          BY <1>1, <4>2, OtherClient DEF IsRegistered, IsSyncing
        <5>3. ClientOf[t] \in DOMAIN pending_sync_operations
          BY <1>1, <4>2, <5>2 DEF Registry, IsLive, IsSyncing
        <5>4. pending_sync_operations'[ClientOf[t]]
                 = pending_sync_operations[ClientOf[t]]
          BY <1>2, <5>1, <5>3 DEF Collect
        <5> QED  BY <3>2, <4>2, <5>4 DEF Waiting, WaitingFor
      <4> QED  BY <4>1, <4>2
    <3>4. IsConnected(t) /\ (IsSyncing(t) \/ IsLive(t))' =>
             Stored(WantedDocument[t])' \subseteq Written(t) \cup OpsDown(Waiting(t))
      <4> SUFFICES ASSUME IsConnected(t), IsSyncing(t) \/ IsLive(t)
                   PROVE  Stored(WantedDocument[t])'
                             \subseteq Written(t) \cup OpsDown(Waiting(t))
        BY <3>2
      <4>1. WantedDocument[t] # d
        BY <2>5 DEF IsConnected
      <4> QED  BY <1>10, <2>1, <4>1 DEF Downstream
    <3> QED  BY <1>10, <3>1, <3>3, <3>4, DownstreamGrown
  <2> QED  BY <2>3, <2>4, <2>5
<1>12. ASSUME NEW t \in Session \ {s}
       PROVE  Upstream(t)' /\ Numbered(t)' /\ Fresh(t)'
  <2>1. \A e \in DOMAIN rows' : \A x \in Stored(e)' :
           x[1] = t => e \in DOMAIN rows /\ x \in Stored(e)
    BY <1>3
  <2>2. conn[t] = "REGISTERED" => pending_sync_operations'[ClientOf[t]]
                                     = pending_sync_operations[ClientOf[t]]
    <3> SUFFICES ASSUME conn[t] = "REGISTERED"
                 PROVE  pending_sync_operations'[ClientOf[t]]
                           = pending_sync_operations[ClientOf[t]]
      OBVIOUS
    <3>1. ClientOf[t] \in DOMAIN clients /\ clients[ClientOf[t]] = t
      BY <1>1, OtherClient DEF IsRegistered
    <3>2. ClientOf[t] \in DOMAIN pending_sync_operations
      BY <1>1, <3>1 DEF Registry, IsLive
    <3> QED  BY <1>2, <3>1, <3>2 DEF Collect, IsSyncing
  <2> QED  BY <1>2, <1>4, <1>10, <2>1, <2>2, PeerKept
\* The sender.
<1>13. Downstream(s)'
  <2>1. toClient'[s] = toClient[s]
    BY <1>6 DEF Peers
  <2>2. Waiting(s) = <<>> /\ Waiting(s)' = <<>>
    BY <1>2 DEF Waiting, IsSyncing, IsLive
  <2>3. IsConnected(s) => Stored(d)' \subseteq Written(s) \cup OpsDown(Waiting(s))
    <3>1. op \in Written(s)
      BY <1>3 DEF Written, Told
    <3> QED  BY <1>1, <1>3, <3>1 DEF Downstream
  <2> QED  BY <1>10, <2>1, <2>2, <2>3, DownstreamGrown
<1>14. Upstream(s)'
  <2> DEFINE p == toServer[s]
             r == Tail(toServer[s])
             B == Settled(s)
             S == Stored(d)
  <2>1. p \in Seq(UpMessage(Typed)) /\ p # <<>> /\ r = Tail(p) /\ OpOf(Head(p)) = {op}
    BY <1>1, <1>7 DEF Typing, ChannelTyping, OpOf
  <2>2. /\ InOrder(s, p, past, B, S)
        /\ net[s] # "DISCONNECTED" =>
              /\ InOrder(s, outgoing[s], past, B \cup OpsUp(p), S \cup OpsUp(p))
              /\ known[s] \subseteq B \cup OpsUp(p) \cup OpsUp(outgoing[s])
    BY <1>1 DEF Upstream, IsLive
  <2>3. /\ Settled(s)' = B \cup {op} /\ Stored(d)' = S \cup {op} /\ toServer'[s] = r
        /\ outgoing'[s] = outgoing[s] /\ known'[s] = known[s] /\ net'[s] = net[s]
        /\ past' = past
    BY <1>2, <1>3, <1>4 DEF Settled
  <2> HIDE DEF p, r, B, S
  <2>4. InOrder(s, r, past, B \cup {op}, S \cup {op}) /\ OpsUp(p) = {op} \cup OpsUp(r)
    <3>1. /\ InOrder(s, Tail(p), past, B \cup OpOf(Head(p)), S \cup OpOf(Head(p)))
          /\ OpsUp(p) = OpOf(Head(p)) \cup OpsUp(Tail(p))
      BY <2>1, <2>2, UpTail
    <3> QED  BY <2>1, <3>1
  <2>5. /\ B \cup OpsUp(p) = (B \cup {op}) \cup OpsUp(r)
        /\ S \cup OpsUp(p) = (S \cup {op}) \cup OpsUp(r)
    BY <2>4
  <2>6. net[s] # "DISCONNECTED" =>
           /\ InOrder(s, outgoing[s], past, (B \cup {op}) \cup OpsUp(r),
                      (S \cup {op}) \cup OpsUp(r))
           /\ known[s] \subseteq (B \cup {op}) \cup OpsUp(r) \cup OpsUp(outgoing[s])
    BY <2>2, <2>5
  <2> QED  BY <2>3, <2>4, <2>6 DEF Upstream
<1>15. Numbered(s)' /\ Fresh(s)'
  BY <1>2, NumberedSame DEF Fresh, IsLive
<1>16. LogInv'
  <2> DEFINE L == rows[d]
             M == rows'[d]
  <2>1. /\ Len(L) \in Nat /\ DOMAIN M = 1..Len(L) + 1
        /\ \A i \in 1..Len(L) : M[i] = L[i]
        /\ M[Len(L) + 1] = op
    BY <1>1, <1>3, LogOneMore
  <2>2. DOMAIN L = 1..Len(L) /\ Stored(d) = FirstOf(L, Len(L))
    BY <1>1, <1>3, StoredRows DEF FirstOf, Typing
  <2>3. \A i \in DOMAIN L : /\ WantedDocument[L[i][1]] = d
                            /\ past[L[i]] \subseteq dropped \cup FirstOf(L, i - 1)
    BY <1>1, <1>3 DEF LogInv
  <2> HIDE DEF L, M
  <2>4. \A i \in 1..Len(L) + 1 : FirstOf(M, i - 1) = FirstOf(L, i - 1)
    BY <2>1 DEF FirstOf
  <2>5. ASSUME NEW i \in DOMAIN M
        PROVE  /\ WantedDocument[M[i][1]] = d
               /\ past[M[i]] \subseteq dropped \cup FirstOf(M, i - 1)
    <3>1. CASE i \in 1..Len(L)
      BY <2>1, <2>2, <2>3, <2>4, <3>1
    <3>2. CASE i = Len(L) + 1
      <4>1. M[i] = op /\ i - 1 = Len(L) /\ FirstOf(M, i - 1) = Stored(d)
        BY <2>1, <2>2, <2>4, <3>2
      <4> QED  BY <1>3, <4>1
    <3> QED  BY <2>1, <3>1, <3>2
  <2>6. DOMAIN rows' = DOMAIN rows /\ \A e \in DOMAIN rows : e # d => rows'[e] = rows[e]
    BY <1>3
  <2>7. \A e \in DOMAIN rows' : \A i \in DOMAIN rows'[e] :
           /\ WantedDocument[rows'[e][i][1]] = e
           /\ past'[rows'[e][i]] \subseteq dropped' \cup FirstOf(rows'[e], i - 1)
    BY <1>1, <1>2, <2>5, <2>6 DEF LogInv, M
  <2>8. ASSUME NEW x \in DOMAIN presence, NEW t, t = clients[x]
        PROVE  presence[x] \in Places \cup Stored(WantedDocument[t])'
    <3>1. t \in Session
      BY <1>1, <2>8 DEF Registry, Typing, ServerTyping
    <3>2. presence[x] \in Places \cup Stored(WantedDocument[t])
      BY <1>1, <2>8 DEF LogInv
    <3> QED  BY <1>10, <3>1, <3>2
  <2>9. (\A c \in DOMAIN presence :
            presence[c] \in Places \cup Stored(WantedDocument[clients[c]]))'
    BY <1>2, <2>8 DEF Places
  <2> QED  BY <2>7, <2>9 DEF LogInv
<1> QED  BY <1>11, <1>12, <1>13, <1>14, <1>15, <1>16 DEF Flows

-----------------------------------------------------------------------------
LEMMA FlowsInit == Init => Flows
<1> SUFFICES ASSUME Init PROVE Flows
  OBVIOUS
<1>1. /\ DOMAIN rows = {} /\ DOMAIN presence = {} /\ Typed = {} /\ dropped = {}
      /\ \A d : Stored(d) = {}
      /\ \A s \in Session :
            /\ conn[s] = "NONE" /\ net[s] = "NEW" /\ known[s] = {} /\ cursor[s] = Start
            /\ toServer[s] = <<>> /\ outgoing[s] = <<>> /\ toClient[s] = <<>>
            /\ incoming[s] = <<>> /\ LogOf(s) = <<>>
            /\ \A c \in Client : remote_cursors[s][c] = None
  BY DEF Init, EmptyMap, Typed, Stored, LogOf
<1>2. ASSUME NEW s \in Session
      PROVE  Upstream(s) /\ Numbered(s) /\ Downstream(s) /\ Fresh(s)
  <2>1. Upstream(s)
    <3>1. \A B, S : InOrder(s, <<>>, past, B, S)
      BY InOrderOne
    <3> QED  BY <1>1, <3>1 DEF Upstream
  <2>2. OwnOps(s) = {}
    BY <1>1 DEF OwnOps
  <2>3. Numbered(s)
    <3>1. Cardinality({}) = 0
      BY FS_EmptySet
    <3>2. {} = {<<s, n>> : n \in 1..0}
      OBVIOUS
    <3> QED  BY <1>1, <2>2, <3>1, <3>2 DEF Numbered
  <2>4. Downstream(s)
    <3>1. OpsDown(<<>>) = {}
      BY CarriedOne
    <3>2. \A K, X, O, L : Disjoint(<<>>, K) /\ Follows(<<>>, K, X, O, L)
      BY FollowsOne
    <3>3. Reads({}, {}, <<>>)
      <4>1. FirstOf(<<>>, 0) = {} /\ 0 \in 0..Len(<<>>)
        BY DEF FirstOf
      <4> QED  BY <4>1 DEF Reads
    <3>4. Waiting(s) = <<>>
      BY <1>1 DEF Waiting, IsSyncing
    <3>5. Told(s) = {} /\ Written(s) = {} /\ ~IsConnected(s)
      BY <1>1, <3>1 DEF Told, Written, IsConnected
    <3>6. /\ Reads(known[s], OwnOps(s), LogOf(s))
          /\ Disjoint(incoming[s], known[s]) /\ Disjoint(toClient[s], Told(s))
          /\ Disjoint(Waiting(s), Written(s))
          /\ OpsDown(Waiting(s)) \subseteq Stored(WantedDocument[s])
      BY <1>1, <2>2, <3>1, <3>2, <3>3, <3>4
    <3>7. /\ Follows(incoming[s], known[s], Places, OwnOps(s), LogOf(s))
          /\ Follows(toClient[s], Told(s), Places, OwnOps(s), LogOf(s))
      BY <1>1, <3>2
    <3>8. \A c \in Client : remote_cursors[s][c] \in known[s] \cup Places \cup {None}
      BY <1>1
    <3> QED  BY <3>5, <3>6, <3>7, <3>8 DEF Downstream
  <2>5. Fresh(s)
    BY <1>1, <2>2 DEF Fresh
  <2> QED  BY <2>1, <2>3, <2>4, <2>5
<1> QED  BY <1>1, <1>2 DEF Flows, LogInv

LEMMA ReceiveFlows ==
    ASSUME Streams, NEW s \in Session, ReceiveMessage(s)
    PROVE  Flows'
<1> DEFINE m == Head(toServer[s])
<1>1. ChannelTyping
  BY DEF Streams, Base, Typing
<1>2. /\ IsOpen(s) /\ toServer[s] # <<>>
      /\ UNCHANGED <<net, ui, queues, history>>
      /\ UNCHANGED <<net, ui, queues, dropped, past>>
  BY <1>1, ReceiveCases DEF history
<1>3. CASE /\ m.type = "HELLO" /\ Hello(s)
           /\ ~IsRegistered(s) /\ ClientOf[s] \notin DOMAIN clients
  BY <1>2, <1>3, HelloFlows
<1>4. CASE /\ m.type = "OPEN_DOCUMENT" /\ OpenDocument(s, m.document)
           /\ IsRegistered(s) /\ ~HasDocument(s)
  BY <1>2, <1>4, OpenDocumentFlows
<1>5. CASE /\ m.type = "OPERATION" /\ Operation(s, m.op)
           /\ IsLive(s) /\ HasDocument(s)
  BY <1>2, <1>5, OperationFlows
<1>6. CASE m.type = "SYNC_COMPLETE" /\ SyncComplete(s) /\ IsSyncing(s)
  BY <1>2, <1>6, SyncCompleteFlows
<1>7. CASE m.type = "CURSOR_UPDATE" /\ CursorUpdate(s, m.position) /\ IsLive(s)
  BY <1>2, <1>7, CursorUpdateFlows
<1>8. CASE Disconnect(s)
  BY <1>2, <1>8, DisconnectFlows
<1> QED  BY <1>1, <1>3, <1>4, <1>5, <1>6, <1>7, <1>8, ReceiveCases

LEMMA UnchangedFlows ==
    ASSUME Flows, UNCHANGED vars
    PROVE  Flows'
<1>1. UNCHANGED <<conn, current_document, clients, pending_sync_operations, presence,
                  rows, toServer, toClient, net, known, cursor, remote_cursors,
                  incoming, outgoing, dropped, past>>
  BY DEF vars, server, channels, ui, queues, history
<1>2. /\ \A d : Stored(d)' = Stored(d)
      /\ Typed' = Typed /\ Places' = Places
      /\ \A s : OwnOps(s)' = OwnOps(s) /\ Settled(s)' = Settled(s) /\ LogOf(s)' = LogOf(s)
      /\ \A s : Waiting(s)' = Waiting(s) /\ Told(s)' = Told(s) /\ Written(s)' = Written(s)
      /\ \A s : IsSyncing(s)' = IsSyncing(s) /\ IsLive(s)' = IsLive(s)
      /\ \A s : IsConnected(s)' = IsConnected(s)
  BY <1>1 DEF Typed, OwnOps, Settled, Stored, LogOf, Waiting, WaitingFor, Told, Written,
              Places, IsSyncing, IsLive, IsConnected
<1>3. LogInv'
  BY <1>1, <1>2 DEF Flows, LogInv
<1>4. ASSUME NEW s \in Session
      PROVE  Upstream(s)' /\ Numbered(s)' /\ Downstream(s)' /\ Fresh(s)'
  <2>1. Upstream(s) /\ Numbered(s) /\ Downstream(s) /\ Fresh(s)
    BY DEF Flows
  <2>2. Upstream(s)'
    BY <1>1, <1>2, <2>1 DEF Upstream
  <2>3. Numbered(s)'
    BY <1>1, <1>2, <2>1 DEF Numbered
  <2>4. Downstream(s)'
    BY <1>1, <1>2, <2>1 DEF Downstream
  <2>5. Fresh(s)'
    BY <1>1, <1>2, <2>1 DEF Fresh
  <2> QED  BY <2>2, <2>3, <2>4, <2>5
<1> QED  BY <1>3, <1>4 DEF Flows

LEMMA StreamsStep ==
    ASSUME Streams, [Next]_vars
    PROVE  Streams'
<1>1. Base' /\ Flows
  BY BaseStep DEF Streams
<1>2. CASE UNCHANGED vars
  BY <1>1, <1>2, UnchangedFlows DEF Streams
<1>3. ASSUME NEW s \in Session, LoopStep(s) \/ OutsideStep(s)
      PROVE  Flows'
  <2>1. CASE ReceiveMessage(s)
    BY <2>1, ReceiveFlows
  <2>2. CASE ServerReadsEnd(s) \/ ServerLosesConnection(s)
    BY <2>2, DisconnectFlows DEF ServerReadsEnd, ServerLosesConnection, history
  <2>3. CASE Connected(s)
    BY <2>3, ConnectedFlows
  <2>4. CASE SendOpenDocument(s)
    BY <2>4, SendOpenDocumentFlows
  <2>5. CASE HandleMessage(s)
    BY <2>5, HandleMessageFlows
  <2>6. CASE ClientReadsEnd(s) \/ ClientLosesConnection(s)
    BY <2>6, ClosedFlows DEF ClientReadsEnd, ClientLosesConnection, history
  <2>7. CASE ProcessOutgoing(s)
    BY <2>7, ProcessOutgoingFlows
  <2>8. CASE TypeKey(s)
    BY <2>8, TypeKeyFlows
  <2>9. CASE MoveCursor(s)
    BY <2>9, MoveCursorFlows
  <2>10. CASE QueueCursorUpdate(s)
    BY <2>10, QueueCursorUpdateFlows
  <2>11. CASE FlushIncoming(s)
    BY <2>11, FlushIncomingFlows
  <2>12. CASE Connect(s) \/ ConnectFails(s)
    BY <2>12, ConnectFlows
  <2> QED  BY <1>3, <2>1, <2>2, <2>3, <2>4, <2>5, <2>6, <2>7, <2>8, <2>9, <2>10,
              <2>11, <2>12 DEF LoopStep, OutsideStep
<1> QED  BY <1>1, <1>2, <1>3 DEF Next, Streams

LEMMA StreamsHold == Spec => []Streams
<1>1. Init => Streams
  BY BaseInit, FlowsInit DEF Streams
<1> QED  BY <1>1, StreamsStep, PTL DEF Spec

-----------------------------------------------------------------------------
(***************************************************************************)
(* What follows from the invariant.                                        *)
(***************************************************************************)
LEMMA UpstreamKeepsEdits == Streams => EditsAreKept
<1> SUFFICES ASSUME Streams, NEW s \in Session,
                    (IsConnected(s) /\ IsOpen(s)) \/ net[s] = "CONNECTING",
                    NEW op \in Typed, op[1] = s
             PROVE  \/ op \in dropped
                    \/ op \in OpsToServer(toServer[s] \o outgoing[s])
                    \/ op \in Stored(WantedDocument[s])
  BY DEF EditsAreKept
<1> DEFINE p == toServer[s]
           q == outgoing[s]
<1>1. Typing /\ Stage(s) /\ Upstream(s) /\ Numbered(s)
  BY DEF Streams, Base, Stages, Flows
<1>2. conn[s] # "DISCONNECTED" /\ net[s] # "DISCONNECTED"
  BY <1>1 DEF IsConnected, IsOpen, Stage
<1>3. op \in known[s]
  BY <1>1 DEF Numbered
<1>4. op \in Settled(s) \cup OpsUp(p) \cup OpsUp(q)
  BY <1>1, <1>2, <1>3 DEF Upstream
<1>5. p \in Seq(UpMessage(Typed)) /\ q \in Seq(UpMessage(Typed))
  BY <1>1 DEF Typing, ChannelTyping, ClientTyping
<1> HIDE DEF p, q
<1>6. OpsToServer(p \o q) = OpsUp(p) \cup OpsUp(q)
  <2>1. OpsUp(p \o q) = OpsUp(p) \cup OpsUp(q) /\ p \o q \in Seq(UpMessage(Typed))
    BY <1>5, UpToJoined, Joined
  <2> QED  BY <2>1, UpOps
<1> QED  BY <1>4, <1>6 DEF Settled, p, q

(***************************************************************************)
(* What process_outgoing, handle_message and receive_message pass on       *)
(* reaches the database while the connection lasts, however the io thread  *)
(* takes its batches: an edit is in a queue, in the table, or was dropped. *)
(***************************************************************************)
THEOREM NoEditIsLost == Spec => []EditsAreKept
BY UpstreamKeepsEdits, StreamsHold, PTL

LEMMA DownstreamIsCausal == Streams => CausalDelivery
<1> SUFFICES ASSUME Streams, NEW s \in Session PROVE
       /\ \A op \in known[s] : past[op] \ dropped \subseteq known[s]
       /\ \A c \in Client :
             remote_cursors[s][c] \in known[s] \cup dropped \cup {None, Start}
  BY DEF CausalDelivery
<1>1. Typing /\ LogInv /\ Numbered(s) /\ Downstream(s)
  BY DEF Streams, Base, Flows
<1>2. \A c \in Client : remote_cursors[s][c] \in known[s] \cup dropped \cup {None, Start}
  BY <1>1 DEF Downstream, Places
<1>3. ASSUME NEW op \in known[s]
      PROVE  past[op] \ dropped \subseteq known[s]
  <2> DEFINE L == LogOf(s)
  <2>1. PICK n \in 0..Len(L) : known[s] = OwnOps(s) \cup FirstOf(L, n)
    BY <1>1 DEF Downstream, Reads
  <2>2. CASE op \in OwnOps(s)
    <3>1. op \in Typed /\ op[1] = s
      BY <1>1, <2>2 DEF OwnOps, Typing, ClientTyping
    <3> QED  BY <1>1, <3>1 DEF Numbered
  <2>3. CASE op \in FirstOf(L, n)
    <3>1. PICK j \in 1..n : op = L[j]
      BY <2>3 DEF FirstOf
    <3>2. /\ Len(L) \in Nat /\ DOMAIN L = 1..Len(L)
          /\ L # <<>> => L = rows[WantedDocument[s]] /\ WantedDocument[s] \in DOMAIN rows
      BY <1>1, LogTyped DEF LogOf
    <3>3. j \in DOMAIN L /\ L # <<>>
      BY <2>1, <3>1, <3>2
    <3>4. past[op] \subseteq dropped \cup FirstOf(L, j - 1)
      BY <1>1, <3>1, <3>2, <3>3 DEF LogInv
    <3>5. FirstOf(L, j - 1) \subseteq FirstOf(L, n)
      <4>1. 1..j - 1 \subseteq 1..n
        OBVIOUS
      <4> QED  BY <4>1 DEF FirstOf
    <3> QED  BY <2>1, <3>4, <3>5
  <2> QED  BY <2>1, <2>2, <2>3
<1> QED  BY <1>2, <1>3

(***************************************************************************)
(* A session that knows an operation knows all its author knew, except     *)
(* what the author's client dropped, and is told of a cursor after what it *)
(* stands on: two queues, a history and a collected list keep the order.   *)
(***************************************************************************)
THEOREM DeliveryIsCausal == Spec => []CausalDelivery
BY DownstreamIsCausal, StreamsHold, PTL

LEMMA DownstreamMeets == Streams => NoGapNoOverlap
<1> SUFFICES ASSUME Streams, NEW s \in Session PROVE
       LET sent == [i \in DOMAIN Arriving(s) |-> OpsIn(<<Arriving(s)[i]>>)]
                      \o [i \in DOMAIN Pending(s) |-> {Pending(s)[i]}]
       IN  /\ (IsSyncing(s) \/ IsLive(s)) /\ IsConnected(s) =>
                 Stored(current_document[s]) \subseteq known[s] \cup UNION ToSet(sent)
           /\ \A i \in DOMAIN sent :
                 /\ sent[i] \cap known[s] = {}
                 /\ \A j \in DOMAIN sent : i # j => sent[i] \cap sent[j] = {}
  BY DEF NoGapNoOverlap
<1> DEFINE p == incoming[s]
           q == toClient[s]
           w == Waiting(s)
           K == known[s]
           a == (p \o q) \o w
           u == [i \in DOMAIN Arriving(s) |-> OpsIn(<<Arriving(s)[i]>>)]
           v == [i \in DOMAIN Pending(s) |-> {Pending(s)[i]}]
           sent == u \o v
           T == DownMessage(Typed)
<1>1. Typing /\ Registry /\ Stage(s) /\ Downstream(s) /\ Numbered(s)
  BY DEF Streams, Base, Stages, Flows
<1>2. p \in Seq(T) /\ q \in Seq(T) /\ w \in Seq(T)
  BY <1>1, OnTheWay
<1>3. /\ Disjoint(p, K) /\ Disjoint(q, Told(s)) /\ Disjoint(w, Written(s))
      /\ Told(s) = K \cup OpsDown(p) /\ Written(s) = Told(s) \cup OpsDown(q)
  BY <1>1 DEF Downstream, Told, Written
<1>4. Arriving(s) = p \o q
  BY DEF Arriving
<1>5. /\ \A m \in T : Carried(m) \in SUBSET Typed /\ OpsIn(<<m>>) = Carried(m)
      /\ Len(v) = Len(w) /\ \A i \in 1..Len(w) : v[i] = Carried(w[i])
      /\ v \in Seq(SUBSET Typed)
  <2>1. ASSUME NEW m \in T PROVE Carried(m) \in SUBSET Typed /\ OpsIn(<<m>>) = Carried(m)
    <3> DEFINE one == <<m>>
    <3>1. one \in Seq(T) /\ OpsDown(one) = Carried(m)
      BY OneMore, CarriedOne
    <3> HIDE DEF one
    <3>2. OpsDown(one) = OpsIn(one) /\ OpsDown(one) \subseteq Typed
      BY <3>1, DownOps
    <3> QED  BY <3>1, <3>2 DEF one
  <2>2. CASE ~IsSyncing(s)
    <3>1. w = <<>> /\ v = <<>>
      <4>1. Pending(s) = <<>>
        BY <2>2 DEF Pending
      <4>2. v = <<>>
        BY <4>1
      <4> QED  BY <2>2, <4>2 DEF Waiting
    <3> HIDE DEF w, v, T
    <3> QED  BY <2>1, <3>1, EmptyQueue
  <2>3. CASE IsSyncing(s)
    <3> DEFINE g == pending_sync_operations[ClientOf[s]]
    <3>1. g \in Seq(Typed)
      <4>1. ClientOf[s] \in DOMAIN pending_sync_operations
        BY <1>1, <2>3 DEF Registry, Owns, IsRegistered, IsSyncing, IsLive
      <4> QED  BY <1>1, <4>1 DEF Typing, ServerTyping
    <3>2. /\ w = [i \in DOMAIN g |-> [type |-> "OPERATION", ops |-> {g[i]}]]
          /\ v = [i \in DOMAIN g |-> {g[i]}]
      BY <2>3 DEF Waiting, WaitingFor, Pending
    <3> HIDE DEF w, v, T, g
    <3>3. DOMAIN g = 1..Len(g) /\ Len(g) \in Nat /\ \A i \in 1..Len(g) : g[i] \in Typed
      BY <3>1
    <3>4. /\ DOMAIN w = 1..Len(g) /\ v \in [1..Len(g) -> SUBSET Typed]
          /\ \A i \in 1..Len(g) : v[i] = {g[i]} /\ Carried(w[i]) = {g[i]}
      BY <3>2, <3>3 DEF Carried
    <3>5. DOMAIN w = 1..Len(w)
      BY <1>2
    <3>6. Len(w) = Len(g) /\ v \in Seq(SUBSET Typed) /\ Len(v) = Len(g)
      BY <1>2, <3>3, <3>4, <3>5
    <3> QED  BY <2>1, <3>4, <3>6
  <2> QED  BY <2>2, <2>3
<1>6. /\ p \o q \in Seq(T) /\ Len(p \o q) \in Nat
      /\ a \in Seq(T) /\ Len(a) = Len(p \o q) + Len(w) /\ DOMAIN a = 1..Len(a)
      /\ \A i \in 1..Len(p \o q) : a[i] = (p \o q)[i]
      /\ \A i \in 1..Len(w) : a[Len(p \o q) + i] = w[i]
      /\ Len(w) \in Nat
  <2> HIDE DEF p, q, w, T
  <2> DEFINE b == p \o q
  <2>1. b \in Seq(T)
    BY <1>2, Joined
  <2> HIDE DEF b
  <2>2. /\ b \o w \in Seq(T) /\ Len(b) \in Nat /\ Len(w) \in Nat
        /\ Len(b \o w) = Len(b) + Len(w) /\ DOMAIN (b \o w) = 1..Len(b) + Len(w)
        /\ \A i \in 1..Len(b) : (b \o w)[i] = b[i]
        /\ \A i \in 1..Len(w) : (b \o w)[Len(b) + i] = w[i]
    BY <1>2, <2>1, Joined
  <2> QED  BY <2>1, <2>2 DEF b
<1>7. /\ u \in Seq(SUBSET Typed) /\ Len(u) = Len(p \o q)
      /\ \A i \in 1..Len(p \o q) : u[i] = Carried((p \o q)[i])
  <2> DEFINE b == p \o q
  <2>1. u = [i \in DOMAIN b |-> OpsIn(<<b[i]>>)]
    BY <1>4
  <2>2. DOMAIN b = 1..Len(b) /\ Len(b) \in Nat /\ \A i \in 1..Len(b) : b[i] \in T
    <3>1. b \in Seq(T)
      BY <1>6
    <3> HIDE DEF b, T
    <3> QED  BY <3>1
  <2> HIDE DEF b, u, T
  <2>3. u \in [1..Len(b) -> SUBSET Typed] /\ \A i \in 1..Len(b) : u[i] = Carried(b[i])
    BY <1>5, <2>1, <2>2
  <2>4. u \in Seq(SUBSET Typed) /\ Len(u) = Len(b)
    BY <2>2, <2>3
  <2> QED  BY <2>3, <2>4 DEF b
<1>8. Disjoint(a, K) /\ OpsDown(a) = (OpsDown(p) \cup OpsDown(q)) \cup OpsDown(w)
  <2> HIDE DEF p, q, w, T, K
  <2> DEFINE b == p \o q
  <2>1. b \in Seq(T)
    BY <1>2, Joined
  <2>2. OpsDown(b) = OpsDown(p) \cup OpsDown(q)
    BY <1>2, CarriedJoined
  <2>3. Disjoint(b, K)
    BY <1>2, <1>3, FollowsJoined
  <2>4. K \cup OpsDown(b) = Written(s)
    BY <1>3, <2>2
  <2> HIDE DEF b
  <2>5. Disjoint(b \o w, K)
    BY <1>2, <1>3, <2>1, <2>3, <2>4, FollowsJoined
  <2>6. OpsDown(b \o w) = OpsDown(b) \cup OpsDown(w)
    BY <1>2, <2>1, CarriedJoined
  <2> QED  BY <2>2, <2>5, <2>6 DEF b
<1>9. /\ sent \in Seq(SUBSET Typed) /\ DOMAIN sent = DOMAIN a /\ Len(sent) = Len(a)
      /\ \A i \in DOMAIN a : sent[i] = Carried(a[i])
  <2> DEFINE b == p \o q
  <2>1. /\ Len(u) = Len(b) /\ Len(v) = Len(w) /\ Len(b) \in Nat /\ Len(w) \in Nat
        /\ \A i \in 1..Len(b) : u[i] = Carried(b[i]) /\ a[i] = b[i]
        /\ \A i \in 1..Len(w) : v[i] = Carried(w[i]) /\ a[Len(b) + i] = w[i]
        /\ DOMAIN a = 1..Len(b) + Len(w) /\ Len(a) = Len(b) + Len(w)
    BY <1>5, <1>6, <1>7
  <2>2. u \in Seq(SUBSET Typed) /\ v \in Seq(SUBSET Typed)
    BY <1>5, <1>7
  <2> HIDE DEF u, v, a, b, w
  <2>3. /\ u \o v \in Seq(SUBSET Typed) /\ Len(u \o v) = Len(u) + Len(v)
        /\ DOMAIN (u \o v) = 1..Len(u) + Len(v)
        /\ \A i \in 1..Len(u) : (u \o v)[i] = u[i]
        /\ \A i \in 1..Len(v) : (u \o v)[Len(u) + i] = v[i]
    BY <2>2, Joined
  <2>4. ASSUME NEW i \in 1..Len(b) + Len(w) PROVE (u \o v)[i] = Carried(a[i])
    <3>1. CASE i \in 1..Len(b)
      BY <2>1, <2>3, <3>1
    <3>2. CASE i \notin 1..Len(b)
      <4>1. PICK k \in 1..Len(w) : i = Len(b) + k
        <5>1. i - Len(b) \in 1..Len(w) /\ i = Len(b) + (i - Len(b))
          BY <2>1, <3>2
        <5> QED  BY <5>1
      <4>2. (u \o v)[i] = v[k]
        BY <2>1, <2>3, <4>1
      <4>3. a[i] = w[k] /\ v[k] = Carried(w[k])
        BY <2>1, <4>1
      <4> QED  BY <4>2, <4>3
    <3> QED  BY <3>1, <3>2
  <2> QED  BY <2>1, <2>3, <2>4
<1> HIDE DEF sent, a, u, v, w, p, q, T, K
<1>10. ASSUME NEW i \in DOMAIN a
       PROVE  /\ Carried(a[i]) \cap K = {}
              /\ \A j \in DOMAIN a : i # j => Carried(a[i]) \cap Carried(a[j]) = {}
  <2>1. ASSUME NEW k \in DOMAIN a, NEW l \in DOMAIN a, l < k
        PROVE  Carried(a[k]) \cap Carried(a[l]) = {}
    <3>1. l \in 1..k - 1
      BY <1>6, <2>1
    <3>2. Carried(a[l]) \subseteq CarriedBy(a, k - 1)
      BY <3>1 DEF CarriedBy
    <3> QED  BY <1>8, <3>2 DEF Disjoint
  <2>2. \A j \in DOMAIN a : i # j => i < j \/ j < i
    BY <1>6
  <2>3. Carried(a[i]) \cap K = {}
    BY <1>8 DEF Disjoint
  <2> QED  BY <2>1, <2>2, <2>3
<1>11. (IsSyncing(s) \/ IsLive(s)) /\ IsConnected(s) =>
          Stored(current_document[s]) \subseteq K \cup UNION ToSet(sent)
  <2> SUFFICES ASSUME IsSyncing(s) \/ IsLive(s), IsConnected(s)
               PROVE  Stored(current_document[s]) \subseteq K \cup UNION ToSet(sent)
    OBVIOUS
  <2>1. current_document[s] = WantedDocument[s]
    <3>1. current_document[s] \in DocumentID
      BY <1>1 DEF Registry, Typing, ServerTyping
    <3> QED  BY <1>1, <3>1, NoneAssumption DEF Stage, HasDocument
  <2>2. Stored(WantedDocument[s]) \subseteq Written(s) \cup OpsDown(w)
    BY <1>1 DEF Downstream, w
  <2>3. OpsDown(a) \subseteq UNION ToSet(sent)
    <3>1. ToSet(sent) = {sent[i] : i \in 1..Len(sent)}
      BY <1>9, ToSets
    <3> QED  BY <1>6, <1>9, <3>1 DEF OpsDown, CarriedBy
  <2> QED  BY <1>3, <1>8, <2>1, <2>2, <2>3
<1> QED  BY <1>9, <1>10, <1>11 DEF sent, u, v, K

(***************************************************************************)
(* open_document, route_message and finish_sync hand over to one another   *)
(* without a gap and without sending anything twice, with any number of    *)
(* sessions, operations and reconnections.                                 *)
(***************************************************************************)
THEOREM HistoryMeetsStream == Spec => []NoGapNoOverlap
BY DownstreamMeets, StreamsHold, PTL

-----------------------------------------------------------------------------
(***************************************************************************)
(* The refinement of SharedLog.tla: three steps of the editors and the     *)
(* server are steps of the shared log, and no other step is seen there.    *)
(***************************************************************************)
MappedLog == [d \in DocumentID |-> IF d \in DOMAIN rows THEN rows[d] ELSE <<>>]

LEMMA TypeKeyRefines ==
    ASSUME Typing, NEW s \in Session, TypeKey(s)
    PROVE  Log!Type(s)
<1>1. /\ rows' = rows /\ known \in [Session -> SUBSET Typed]
      /\ known' = [known EXCEPT ![s] = @ \cup {<<s, Cardinality(OwnOps(s)) + 1>>}]
  BY DEF TypeKey, NextOp, server, Typing, ClientTyping
<1>2. Log!Typed(s) = OwnOps(s)
  BY DEF Log!Typed, OwnOps
<1>3. \A S : Log!Cardinality(S) = Cardinality(S)
  BY DEF Log!Cardinality, Cardinality
<1> QED  BY <1>1, <1>2, <1>3 DEF Log!Type

LEMMA OperationRefines ==
    ASSUME Streams, NEW s \in Session, toServer[s] # <<>>,
           Head(toServer[s]).type = "OPERATION",
           Operation(s, Head(toServer[s]).op), IsLive(s), HasDocument(s), known' = known
    PROVE  Log!Enter(s)
<1> DEFINE op == Head(toServer[s]).op
           d == WantedDocument[s]
<1>1. /\ d \in DOMAIN rows /\ op \in known[s] /\ op[1] = s
      /\ \A e \in Stored(d) : e[1] = s => e[2] < op[2]
      /\ rows' = [rows EXCEPT ![d] = Append(@, op)]
  BY StoredOneMore
<1>2. DOMAIN rows \subseteq DocumentID
  BY DEF Streams, Base, Typing, ServerTyping
<1> HIDE DEF op
<1>3. MappedLog' = [MappedLog EXCEPT ![d] = Append(@, op)]
  BY <1>1, <1>2 DEF MappedLog
<1>4. op \in Log!Typed(s)
  BY <1>1 DEF Log!Typed
<1>5. MappedLog[d] = rows[d]
  BY <1>1, <1>2 DEF MappedLog
<1>6. Log!Entries(rows[d]) = Stored(d)
  BY <1>1 DEF Log!Entries, Stored, ToSet
<1>7. \A e \in Log!Entries(MappedLog[d]) : e[1] = s => e[2] < op[2]
  BY <1>1, <1>5, <1>6
<1> QED  BY <1>3, <1>4, <1>7 DEF Log!Enter, MappedLog

LEMMA FlushIncomingRefines ==
    ASSUME Streams, NEW s \in Session, FlushIncoming(s)
    PROVE  Log!Read(s)
<1> DEFINE d == WantedDocument[s]
           L == LogOf(s)
<1>1. Typing /\ Registry /\ Numbered(s) /\ Downstream(s)
  BY DEF Streams, Base, Flows
<1>2. /\ rows' = rows /\ known \in [Session -> SUBSET Typed]
      /\ known' = [known EXCEPT ![s] = @ \cup OpsIn(incoming[s])]
  BY <1>1 DEF FlushIncoming, server, Typing, ClientTyping
<1>3. PICK n \in 0..Len(L) : Told(s) = OwnOps(s) \cup FirstOf(L, n)
  BY <1>1, OnTheWay DEF Reads
<1>4. Told(s) = known[s] \cup OpsIn(incoming[s])
  BY <1>1, OnTheWay, DownOps DEF Told
<1>5. Log!Typed(s) = OwnOps(s)
  BY DEF Log!Typed, OwnOps
<1>6. MappedLog[d] = L
  BY SessionAssumption DEF MappedLog, LogOf
<1>7. Log!Entries(SubSeq(L, 1, n)) = FirstOf(L, n)
  <2>1. L \in Seq(Typed)
    BY <1>1, LogTyped
  <2> HIDE DEF L
  <2>2. DOMAIN SubSeq(L, 1, n) = 1..n /\ \A i \in 1..n : SubSeq(L, 1, n)[i] = L[i]
    BY <1>3, <2>1, FirstOnes
  <2> QED  BY <2>2 DEF Log!Entries, FirstOf
<1> HIDE DEF L
<1>8. /\ known[s] \subseteq Log!Typed(s) \cup Log!Entries(SubSeq(MappedLog[d], 1, n))
      /\ known' = [known EXCEPT ![s] =
                      Log!Typed(s) \cup Log!Entries(SubSeq(MappedLog[d], 1, n))]
      /\ n \in 0..Len(MappedLog[d])
  BY <1>2, <1>3, <1>4, <1>5, <1>6, <1>7
<1>9. MappedLog' = MappedLog
  BY <1>2 DEF MappedLog
<1> QED  BY <1>8, <1>9 DEF Log!Read, MappedLog

\* A document without operations is in the log before it is in the table.
LEMMA RowsUnseen ==
    ASSUME \/ rows' = rows
           \/ \E d \in DocumentID \ DOMAIN rows : rows' = Put(rows, d, <<>>),
           known' = known
    PROVE  UNCHANGED Log!logVars
<1>1. CASE rows' = rows
  BY <1>1 DEF Log!logVars
<1>2. ASSUME NEW d \in DocumentID \ DOMAIN rows, rows' = Put(rows, d, <<>>)
      PROVE  UNCHANGED Log!logVars
  <2>1. /\ DOMAIN rows' = DOMAIN rows \cup {d} /\ rows'[d] = <<>>
        /\ \A e \in DOMAIN rows : rows'[e] = rows[e]
    BY <1>2 DEF Put
  <2>2. MappedLog' = MappedLog
    BY <1>2, <2>1 DEF MappedLog
  <2> QED  BY <2>2 DEF Log!logVars, MappedLog
<1> QED  BY <1>1, <1>2

LEMMA ReceiveRefines ==
    ASSUME Streams, NEW s \in Session, ReceiveMessage(s)
    PROVE  Log!Enter(s) \/ UNCHANGED Log!logVars
<1> DEFINE m == Head(toServer[s])
<1>1. ChannelTyping
  BY DEF Streams, Base, Typing
<1>2. toServer[s] # <<>> /\ known' = known /\ m \in UpMessage(Typed)
  BY <1>1, ReceiveCases DEF ui
<1>3. CASE /\ m.type = "OPERATION" /\ Operation(s, m.op)
           /\ IsLive(s) /\ HasDocument(s)
  BY <1>2, <1>3, OperationRefines
<1>4. CASE m.type = "OPEN_DOCUMENT" /\ OpenDocument(s, m.document)
  <2>1. m.document \in DocumentID
    BY <1>2, <1>4, UpMessages
  <2> QED  BY <1>2, <1>4, <2>1, RowsUnseen DEF OpenDocument
<1>5. CASE Hello(s) \/ SyncComplete(s) \/ CursorUpdate(s, m.position) \/ Disconnect(s)
  BY <1>2, <1>5, RowsUnseen DEF Hello, SyncComplete, CursorUpdate, Disconnect
<1> QED  BY <1>1, <1>3, <1>4, <1>5, ReceiveCases

LEMMA LogStep ==
    ASSUME Streams, [Next]_vars
    PROVE  Log!LogNext \/ UNCHANGED Log!logVars
<1>1. CASE UNCHANGED vars
  BY <1>1, RowsUnseen DEF vars, server, ui
<1>2. ASSUME NEW s \in Session, LoopStep(s) \/ OutsideStep(s)
      PROVE  Log!Type(s) \/ Log!Enter(s) \/ Log!Read(s) \/ UNCHANGED Log!logVars
  <2>1. CASE ReceiveMessage(s)
    BY <2>1, ReceiveRefines
  <2>2. CASE TypeKey(s)
    BY <2>2, TypeKeyRefines DEF Streams, Base
  <2>3. CASE FlushIncoming(s)
    BY <2>3, FlushIncomingRefines
  <2>4. CASE ServerReadsEnd(s) \/ ServerLosesConnection(s)
    BY <2>4, RowsUnseen DEF ServerReadsEnd, ServerLosesConnection, Disconnect, ui
  <2>5. CASE \/ Connected(s) \/ SendOpenDocument(s) \/ ConnectFails(s) \/ Connect(s)
             \/ ProcessOutgoing(s) \/ QueueCursorUpdate(s) \/ MoveCursor(s)
    BY <2>5, RowsUnseen
       DEF Connected, SendOpenDocument, ConnectFails, Connect, ProcessOutgoing,
           QueueCursorUpdate, MoveCursor, server, ui
  <2>6. CASE HandleMessage(s) \/ ClientReadsEnd(s) \/ ClientLosesConnection(s)
    BY <2>6, RowsUnseen
       DEF HandleMessage, ClientReadsEnd, ClientLosesConnection, server, ui
  <2> QED  BY <1>2, <2>1, <2>2, <2>3, <2>4, <2>5, <2>6 DEF LoopStep, OutsideStep
<1> QED  BY <1>1, <1>2 DEF Next, Log!LogNext

LEMMA LogStart == Init => Log!LogInit
<1>1. Init => MappedLog = [d \in DocumentID |-> <<>>] /\ known = [s \in Session |-> {}]
  BY DEF Init, EmptyMap, MappedLog
<1> QED  BY <1>1 DEF Log!LogInit, MappedLog

(***************************************************************************)
(* Through the server's states, the queues of three threads and every      *)
(* failure of a connection, the sessions of a document read one shared     *)
(* log, whose entries no step removes or reorders.                         *)
(***************************************************************************)
THEOREM SessionsShareOneLog == Spec => SharedLogSpec
BY LogStart, LogStep, StreamsHold, PTL DEF Spec, SharedLogSpec, Log!LogSpec
=============================================================================
