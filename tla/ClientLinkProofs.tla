-------------------------- MODULE ClientLinkProofs --------------------------
(***************************************************************************)
(* Theorems about ClientLink.tla, for any number of connections, keys and  *)
(* failures.                                                               *)
(*                                                                         *)
(* What is under way on the socket in the present generation is a token:   *)
(* an operation in async, or its completion in posted.  The invariant says *)
(* which tokens there are in each state, and that what was queued on a     *)
(* connection is what was written followed by the write queue.             *)
(***************************************************************************)
EXTENDS ClientLink, FiniteSetTheorems, SequenceTheorems, TLAPS

FromSession == {"SYNC_COMPLETE", "OPERATION"}

Upward == FromSession \cup {"HELLO", "OPEN_DOCUMENT"}

Downward == {"HELLO_ACK", "SYNC_RESPONSE"}

Handler ==
    [h : {"connect_impl", "send_open_document_impl", "process_outgoing"}]
       \cup [h : {"disconnect_impl"}, by : Nat]
       \cup [h : SocketOp, of : Nat, ok : {FALSE}]
       \cup [h : {"resolve", "connect", "write"}, of : Nat, ok : {TRUE}]
       \cup [h : {"read"}, of : Nat, ok : {TRUE}, message : Downward]

LinkTyping ==
    /\ state \in {"DISCONNECTED", "CONNECTING", "REGISTERING", "REGISTERED",
                  "SYNCING"}
    /\ generation \in Nat
    /\ write_queue \in Seq(Upward)
    /\ async \subseteq [op : SocketOp, of : Nat]
    /\ posted \in Seq(Handler)
    /\ outgoing \in Seq(FromSession)
    /\ peer \in [Connection -> {"NONE", "UNREGISTERED", "REGISTERED", "SYNCING",
                                "LIVE", "DISCONNECTED"}]
    /\ upstream \in [Connection -> Seq(Upward)]
    /\ downstream \in [Connection -> Seq(Downward)]
    /\ queued \in [Connection -> Seq(Upward)]
    /\ received \in [Connection -> Seq(Upward)]

-----------------------------------------------------------------------------
\* The queue of handlers, looked at for those in a set H.
Has(q, H) == \E i \in DOMAIN q : q[i] \in H

Once(q, H) == \A i, j \in DOMAIN q : q[i] \in H /\ q[j] \in H => i = j

\* The completions of the present connection, by operation.
Current(op) == {h \in Handler : h.h = op /\ h.of = generation}

Newer == {h \in Handler : h.h \in SocketOp /\ h.of > generation}

Hangups == {h \in Handler : h.h = "disconnect_impl"}

\* The token of an operation.
Token(op) == Started(op) \in async \/ Has(posted, Current(op))

\* Nothing is newer than the present connection, and only the resolver is
\* still at work for an older one.
Generations ==
    /\ \A a \in async :
          /\ a.of <= generation
          /\ a.op # "resolve" => socket_open /\ a.of = generation
    /\ ~Has(posted, Newer)
    /\ state # "DISCONNECTED" => socket_open

OneToken(op) ==
    /\ Once(posted, Current(op))
    /\ Started(op) \in async => ~Has(posted, Current(op))

Phases ==
    /\ state = "DISCONNECTED" => \A op \in SocketOp : ~Token(op)
    /\ state = "CONNECTING" => /\ ~Token("read") /\ ~Token("write")
                               /\ ~(Token("resolve") /\ Token("connect"))
    /\ IsUp => /\ ~Token("resolve") /\ ~Token("connect")
               /\ Token("read") \/ Has(posted, Hangups)
    /\ Token("write") => write_queue # <<>>
    /\ write_queue # <<>> => IsUp /\ (Token("write") \/ Has(posted, Hangups))

Tokens == Generations /\ (\A op \in SocketOp : OneToken(op)) /\ Phases

-----------------------------------------------------------------------------
Stream(k) == received[k] \o upstream[k]

\* The write that has succeeded, before its completion takes it off the queue.
Through == {h \in Current("write") : h.ok}

Unwritten == IF Has(posted, Through) THEN Tail(write_queue) ELSE write_queue

Begins(p, q) == \E r \in Seq(Upward) : q = p \o r

\* What is queued on a connection starts with HELLO and opens one document.
WellFormed(q) ==
    /\ \A i \in DOMAIN q : q[i] = "HELLO" <=> i = 1
    /\ \A i, j \in DOMAIN q :
          q[i] = "OPEN_DOCUMENT" /\ q[j] = "OPEN_DOCUMENT" => i = j

Without(q, m) == \A i \in DOMAIN q : q[i] # m

Written(k) ==
    /\ generation < k => queued[k] = <<>>
    /\ Begins(Stream(k), queued[k])
    /\ peer[k] = "DISCONNECTED" => upstream[k] = <<>>
    /\ WellFormed(queued[k])
    /\ k = generation =>
          /\ state = "CONNECTING" => queued[k] = <<>>
          /\ IsUp => queued[k] # <<>>
          /\ state \in {"REGISTERING", "REGISTERED"} =>
                Without(queued[k], "OPEN_DOCUMENT")
          /\ IsUp /\ peer[k] # "DISCONNECTED" =>
                queued[k] = Stream(k) \o Unwritten

LinkInv == LinkTyping /\ Tokens /\ \A k \in Connection : Written(k)

-----------------------------------------------------------------------------
(***************************************************************************)
(* The queue of handlers.                                                  *)
(***************************************************************************)
LEMMA Handlers ==
    ASSUME NEW h \in Handler
    PROVE  /\ h.h \in SocketOp \cup {"connect_impl", "send_open_document_impl",
                                     "process_outgoing", "disconnect_impl"}
           /\ h.h \in SocketOp => h.of \in Nat /\ h.ok \in BOOLEAN
           /\ h.h = "read" /\ h.ok => h.message \in Downward
BY DEF Handler, SocketOp

LEMMA NewHandlers ==
    /\ \A x \in {"connect_impl", "send_open_document_impl", "process_outgoing"} :
          [h |-> x] \in Handler
    /\ \A n \in Nat : [h |-> "disconnect_impl", by |-> n] \in Hangups
    /\ \A x \in SocketOp : \A n \in Nat : [h |-> x, of |-> n, ok |-> FALSE] \in Handler
    /\ \A x \in {"resolve", "connect", "write"} : \A n \in Nat : \A b \in BOOLEAN :
          [h |-> x, of |-> n, ok |-> b] \in Handler
    /\ \A n \in Nat : \A m \in Downward :
          [h |-> "read", of |-> n, ok |-> TRUE, message |-> m] \in Handler
BY DEF Handler, Hangups, SocketOp

LEMMA HasOneMore ==
    ASSUME NEW T, NEW q \in Seq(T), NEW m \in T, NEW H
    PROVE  /\ Has(Append(q, m), H) <=> Has(q, H) \/ m \in H
           /\ Once(q, H) /\ (m \in H => ~Has(q, H)) => Once(Append(q, m), H)
<1>1. /\ DOMAIN q = 1..Len(q) /\ Len(q) \in Nat
      /\ DOMAIN Append(q, m) = 1..Len(q) + 1
      /\ \A i \in 1..Len(q) : Append(q, m)[i] = q[i]
      /\ Append(q, m)[Len(q) + 1] = m
  OBVIOUS
<1>2. \A i \in 1..Len(q) + 1 : i \in 1..Len(q) \/ i = Len(q) + 1
  BY <1>1
<1>3. \A i \in 1..Len(q) : i \in 1..Len(q) + 1
  BY <1>1
<1>4. Len(q) + 1 \in 1..Len(q) + 1
  BY <1>1
<1>5. Has(Append(q, m), H) <=> Has(q, H) \/ m \in H
  BY <1>1, <1>2, <1>3, <1>4 DEF Has
<1>6. ASSUME Once(q, H), m \in H => ~Has(q, H)
      PROVE  Once(Append(q, m), H)
  BY <1>1, <1>2, <1>6 DEF Has, Once
<1> QED  BY <1>5, <1>6

LEMMA HasFirst ==
    ASSUME NEW T, NEW q \in Seq(T), q # <<>>, NEW H
    PROVE  /\ Has(q, H) <=> Head(q) \in H \/ Has(Tail(q), H)
           /\ Once(q, H) => /\ Once(Tail(q), H)
                            /\ Head(q) \in H => ~Has(Tail(q), H)
<1>1. /\ DOMAIN q = 1..Len(q) /\ Len(q) \in Nat \ {0} /\ Head(q) = q[1]
      /\ DOMAIN Tail(q) = 1..Len(q) - 1
      /\ \A i \in 1..Len(q) - 1 : Tail(q)[i] = q[i + 1]
  OBVIOUS
<1>2. \A i \in 1..Len(q) : \/ i = 1
                           \/ \E j \in 1..Len(q) - 1 : q[i] = Tail(q)[j] /\ i = j + 1
  <2>1. ASSUME NEW i \in 1..Len(q), i # 1
        PROVE  \E j \in 1..Len(q) - 1 : q[i] = Tail(q)[j] /\ i = j + 1
    <3>1. i - 1 \in 1..Len(q) - 1 /\ i = (i - 1) + 1
      BY <1>1, <2>1
    <3> QED  BY <1>1, <3>1
  <2> QED  BY <2>1
<1>3. \A i \in 1..Len(q) - 1 : i + 1 \in 1..Len(q) /\ i + 1 # 1
  BY <1>1
<1>4. 1 \in 1..Len(q)
  BY <1>1
<1>5. Has(q, H) <=> Head(q) \in H \/ Has(Tail(q), H)
  BY <1>1, <1>2, <1>3, <1>4 DEF Has
<1>6. ASSUME Once(q, H)
      PROVE  Once(Tail(q), H) /\ (Head(q) \in H => ~Has(Tail(q), H))
  <2>1. \A i, j \in 1..Len(q) - 1 : i + 1 = j + 1 => i = j
    BY <1>1
  <2> QED  BY <1>1, <1>3, <1>4, <1>6, <2>1 DEF Has, Once
<1> QED  BY <1>5, <1>6

LEMMA HasJoined ==
    ASSUME NEW T, NEW p \in Seq(T), NEW q \in Seq(T), NEW H
    PROVE  /\ Has(p \o q, H) <=> Has(p, H) \/ Has(q, H)
           /\ Once(p, H) /\ ~Has(q, H) => Once(p \o q, H)
<1>1. /\ DOMAIN p = 1..Len(p) /\ DOMAIN q = 1..Len(q)
      /\ Len(p) \in Nat /\ Len(q) \in Nat
      /\ DOMAIN (p \o q) = 1..Len(p) + Len(q)
      /\ \A i \in 1..Len(p) : (p \o q)[i] = p[i]
      /\ \A i \in 1..Len(q) : (p \o q)[Len(p) + i] = q[i]
  OBVIOUS
<1>2. \A i \in 1..Len(p) + Len(q) :
         i \in 1..Len(p) \/ \E j \in 1..Len(q) : i = Len(p) + j
  <2>1. ASSUME NEW i \in 1..Len(p) + Len(q), i \notin 1..Len(p)
        PROVE  \E j \in 1..Len(q) : i = Len(p) + j
    <3>1. i - Len(p) \in 1..Len(q) /\ i = Len(p) + (i - Len(p))
      BY <1>1, <2>1
    <3> QED  BY <3>1
  <2> QED  BY <2>1
<1>3. /\ \A i \in 1..Len(p) : i \in 1..Len(p) + Len(q)
      /\ \A i \in 1..Len(q) : Len(p) + i \in 1..Len(p) + Len(q)
  BY <1>1
<1>4. Has(p \o q, H) <=> Has(p, H) \/ Has(q, H)
  <2>1. ASSUME NEW i \in DOMAIN (p \o q), (p \o q)[i] \in H
        PROVE  Has(p, H) \/ Has(q, H)
    <3>1. CASE i \in 1..Len(p)
      BY <1>1, <2>1, <3>1 DEF Has
    <3>2. ASSUME NEW j \in 1..Len(q), i = Len(p) + j
          PROVE  Has(q, H)
      BY <1>1, <2>1, <3>2 DEF Has
    <3> QED  BY <1>1, <1>2, <3>1, <3>2
  <2>2. ASSUME NEW i \in DOMAIN p, p[i] \in H PROVE Has(p \o q, H)
    <3>1. i \in DOMAIN (p \o q) /\ (p \o q)[i] = p[i]
      BY <1>1, <1>3
    <3> QED  BY <2>2, <3>1 DEF Has
  <2>3. ASSUME NEW i \in DOMAIN q, q[i] \in H PROVE Has(p \o q, H)
    <3>1. Len(p) + i \in DOMAIN (p \o q) /\ (p \o q)[Len(p) + i] = q[i]
      BY <1>1, <1>3
    <3> QED  BY <2>3, <3>1 DEF Has
  <2> QED  BY <2>1, <2>2, <2>3 DEF Has
<1>5. ASSUME Once(p, H), ~Has(q, H) PROVE Once(p \o q, H)
  <2>1. \A i \in 1..Len(p) + Len(q) : (p \o q)[i] \in H => i \in 1..Len(p)
    BY <1>1, <1>2, <1>5 DEF Has
  <2> QED  BY <1>1, <1>5, <2>1 DEF Once
<1> QED  BY <1>4, <1>5

-----------------------------------------------------------------------------
(***************************************************************************)
(* Tokens: a handler is posted, an operation completes, a handler runs.    *)
(***************************************************************************)
LEMMA PostedOne ==
    ASSUME LinkTyping, NEW h \in Handler, posted' = Append(posted, h)
    PROVE  /\ posted' \in Seq(Handler)
           /\ \A H : Has(posted', H) <=> Has(posted, H) \/ h \in H
           /\ \A H : Once(posted, H) /\ (h \in H => ~Has(posted, H)) => Once(posted', H)
<1>1. posted \in Seq(Handler)
  BY DEF LinkTyping
<1>2. \A H : /\ Has(Append(posted, h), H) <=> Has(posted, H) \/ h \in H
             /\ Once(posted, H) /\ (h \in H => ~Has(posted, H)) =>
                   Once(Append(posted, h), H)
  BY <1>1, HasOneMore
<1>3. Append(posted, h) \in Seq(Handler)
  BY <1>1, AppendProperties
<1> QED  BY <1>2, <1>3

LEMMA RanOne ==
    ASSUME LinkTyping, posted # <<>>, NEW r \in Seq(Handler), posted' = Tail(posted) \o r
    PROVE  /\ Head(posted) \in Handler /\ posted' \in Seq(Handler)
           /\ \A H : Has(r, H) => Has(posted', H)
           /\ \A H : Has(posted, H) /\ Head(posted) \notin H => Has(posted', H)
           /\ \A H : ~Has(r, H) =>
                 /\ Has(posted', H) => Has(posted, H)
                 /\ Once(posted, H) => /\ Once(posted', H)
                                       /\ Head(posted) \in H => ~Has(posted', H)
<1>1. posted \in Seq(Handler)
  BY DEF LinkTyping
<1>2. Head(posted) \in Handler /\ Tail(posted) \in Seq(Handler)
  BY <1>1
<1>3. posted' \in Seq(Handler)
  BY <1>2, ConcatProperties
<1>4. \A H : /\ Has(posted, H) <=> Head(posted) \in H \/ Has(Tail(posted), H)
             /\ Once(posted, H) => /\ Once(Tail(posted), H)
                                   /\ Head(posted) \in H => ~Has(Tail(posted), H)
  BY <1>1, HasFirst
<1>5. \A H : /\ Has(posted', H) <=> Has(Tail(posted), H) \/ Has(r, H)
             /\ Once(Tail(posted), H) /\ ~Has(r, H) => Once(posted', H)
  BY <1>2, HasJoined
<1> QED  BY <1>2, <1>3, <1>4, <1>5

LEMMA SameGeneration ==
    ASSUME generation' = generation
    PROVE  /\ \A op : Current(op)' = Current(op) /\ Started(op)' = Started(op)
           /\ Through' = Through /\ Newer' = Newer
BY DEF Current, Started, Through, Newer

\* An operation of the socket completes: its token moves to the handlers.
LEMMA CompletedTokens ==
    ASSUME LinkTyping, Tokens, NEW a \in async, NEW h \in Handler, h.h = a.op, h.of = a.of,
           async' = async \ {a}, posted' = Append(posted, h),
           UNCHANGED <<state, generation, socket_open, write_queue>>
    PROVE  /\ Tokens' /\ posted' \in Seq(Handler)
           /\ Has(posted', Through') <=>
                 Has(posted, Through) \/ (a = Started("write") /\ h.ok)
<1>1. /\ posted' \in Seq(Handler)
      /\ \A H : Has(posted', H) <=> Has(posted, H) \/ h \in H
      /\ \A H : Once(posted, H) /\ (h \in H => ~Has(posted, H)) => Once(posted', H)
  BY PostedOne
<1>2. /\ \A op : Current(op)' = Current(op) /\ Started(op)' = Started(op)
      /\ Through' = Through /\ Newer' = Newer
  BY SameGeneration
<1>3. /\ a \in [op : SocketOp, of : Nat] /\ a.op \in SocketOp
      /\ a.of <= generation /\ a.of \in Nat
      /\ a.op # "resolve" => a.of = generation
      /\ generation \in Nat
  BY DEF LinkTyping, Tokens, Generations
<1>4. \A op \in SocketOp : (a = Started(op) <=> h \in Current(op))
                              /\ (Started(op) \in async => \A p \in SocketOp :
                                     a = Started(p) => (op = p <=> a = Started(op)))
  BY <1>3 DEF Started, Current
<1>5. ASSUME NEW op \in SocketOp PROVE OneToken(op)' /\ (Token(op)' <=> Token(op))
  <2>1. OneToken(op)
    BY DEF Tokens
  <2>2. Started(op) \in async' <=> Started(op) \in async /\ a # Started(op)
    OBVIOUS
  <2> QED  BY <1>1, <1>2, <1>4, <2>1, <2>2 DEF OneToken, Token
<1>6. h \notin Hangups /\ h \notin Newer
  BY <1>3 DEF Hangups, Newer, SocketOp
<1>7. Generations'
  BY <1>1, <1>2, <1>6 DEF Tokens, Generations
<1>8. Hangups' = Hangups /\ (Has(posted', Hangups) <=> Has(posted, Hangups))
  BY <1>1, <1>6 DEF Hangups
<1>9. Phases'
  <2>1. \A op \in SocketOp : Token(op)' <=> Token(op)
    BY <1>5
  <2>2. SocketOp = {"resolve", "connect", "read", "write"}
    BY DEF SocketOp
  <2> HIDE DEF SocketOp
  <2> QED  BY <1>8, <2>1, <2>2 DEF Tokens, Phases, IsUp
<1>10. h \in Through <=> a = Started("write") /\ h.ok
  BY <1>4 DEF Through, SocketOp
<1> QED  BY <1>1, <1>2, <1>5, <1>7, <1>9, <1>10 DEF Tokens

\* A handler runs that leaves the generation alone.
LEMMA RanTokens ==
    ASSUME LinkTyping, Tokens, posted # <<>>, NEW r \in Seq(Handler),
           posted' = Tail(posted) \o r, generation' = generation,
           \A i \in DOMAIN r : r[i].h \notin SocketOp
    PROVE  /\ posted' \in Seq(Handler) /\ Head(posted) \in Handler
           /\ ~Has(posted', Newer')
           /\ \A op \in SocketOp :
                 /\ Once(posted', Current(op)') /\ Started(op)' = Started(op)
                 /\ Has(posted', Current(op)') <=>
                       Has(posted, Current(op)) /\ Head(posted) \notin Current(op)
           /\ Has(posted', Through') <=> Has(posted, Through) /\ Head(posted) \notin Through
           /\ Has(r, Hangups) \/ (Has(posted, Hangups) /\ Head(posted) \notin Hangups) =>
                 Has(posted', Hangups)
<1>1. /\ Head(posted) \in Handler /\ posted' \in Seq(Handler)
      /\ \A H : Has(r, H) => Has(posted', H)
      /\ \A H : Has(posted, H) /\ Head(posted) \notin H => Has(posted', H)
      /\ \A H : ~Has(r, H) =>
            /\ Has(posted', H) => Has(posted, H)
            /\ Once(posted, H) => /\ Once(posted', H)
                                  /\ Head(posted) \in H => ~Has(posted', H)
  BY RanOne
<1>2. /\ \A op : Current(op)' = Current(op) /\ Started(op)' = Started(op)
      /\ Through' = Through /\ Newer' = Newer
  BY SameGeneration
<1>3. /\ \A op \in SocketOp : ~Has(r, Current(op))
      /\ ~Has(r, Through) /\ ~Has(r, Newer)
  BY DEF Has, Current, Through, Newer, SocketOp
<1>4. /\ \A op \in SocketOp : Once(posted, Current(op))
      /\ ~Has(posted, Newer)
  BY DEF Tokens, OneToken, Generations
<1>5. Once(posted, Through)
  <2>1. Once(posted, Current("write"))
    BY <1>4 DEF SocketOp
  <2> QED  BY <2>1 DEF Once, Through
<1> QED  BY <1>1, <1>2, <1>3, <1>4, <1>5

-----------------------------------------------------------------------------
(***************************************************************************)
(* Streams.                                                                *)
(***************************************************************************)
LEMMA MoveOne ==
    ASSUME NEW S, NEW p \in Seq(S), NEW q \in Seq(S), q # <<>>
    PROVE  /\ Head(q) \in S /\ Tail(q) \in Seq(S)
           /\ Append(p, Head(q)) \in Seq(S)
           /\ Append(p, Head(q)) \o Tail(q) = p \o q
           /\ <<Head(q)>> \o Tail(q) = q /\ <<Head(q)>> \in Seq(S)
<1>1. /\ Head(q) \in S /\ Tail(q) \in Seq(S) /\ <<Head(q)>> \in Seq(S)
      /\ Append(p, Head(q)) \in Seq(S)
  OBVIOUS
<1>2. <<Head(q)>> \o Tail(q) = q
  OBVIOUS
<1>3. Append(p, Head(q)) = p \o <<Head(q)>>
  BY <1>1, AppendIsConcat
<1>4. (p \o <<Head(q)>>) \o Tail(q) = p \o (<<Head(q)>> \o Tail(q))
  BY <1>1, ConcatAssociative
<1> QED  BY <1>1, <1>2, <1>3, <1>4

LEMMA Joining ==
    ASSUME NEW S
    PROVE  /\ \A p, q, r \in Seq(S) : (p \o q) \o r = p \o (q \o r)
           /\ \A p, q \in Seq(S) : p \o q \in Seq(S) /\ (p \o q = <<>> => p = <<>>)
           /\ \A p \in Seq(S) : p \o <<>> = p /\ <<>> \o p = p
<1>1. \A p, q, r \in Seq(S) : (p \o q) \o r = p \o (q \o r)
  BY ConcatAssociative
<1>2. \A p, q \in Seq(S) : p \o q \in Seq(S) /\ (p \o q = <<>> => p = <<>>)
  BY ConcatProperties, ConcatEqualIffEmpty
<1>3. \A p \in Seq(S) : p \o <<>> = p /\ <<>> \o p = p
  BY ConcatEmptySeq
<1> QED  BY <1>1, <1>2, <1>3

LEMMA OneAtTheEnd ==
    ASSUME NEW S, NEW p \in Seq(S), NEW q \in Seq(S), NEW m \in S
    PROVE  /\ p \o Append(q, m) = Append(p \o q, m)
           /\ Append(p \o q, m) \in Seq(S)
<1>1. <<m>> \in Seq(S) /\ p \o q \in Seq(S)
  OBVIOUS
<1>2. Append(q, m) = q \o <<m>> /\ Append(p \o q, m) = (p \o q) \o <<m>>
  BY <1>1, AppendIsConcat
<1>3. (p \o q) \o <<m>> = p \o (q \o <<m>>)
  BY <1>1, ConcatAssociative
<1> QED  BY <1>1, <1>2, <1>3, AppendProperties

LEMMA BeginsShorter ==
    ASSUME NEW p \in Seq(Upward), NEW t \in Seq(Upward), NEW q, Begins(p \o t, q)
    PROVE  Begins(p, q)
<1>1. PICK r \in Seq(Upward) : q = (p \o t) \o r
  BY DEF Begins
<1>2. t \o r \in Seq(Upward)
  BY <1>1, ConcatProperties
<1>3. (p \o t) \o r = p \o (t \o r)
  BY <1>1, ConcatAssociative
<1> QED  BY <1>1, <1>2, <1>3 DEF Begins

LEMMA BeginsLonger ==
    ASSUME NEW p \in Seq(Upward), NEW q \in Seq(Upward), NEW t \in Seq(Upward), Begins(p, q)
    PROVE  Begins(p, q \o t)
<1>1. PICK r \in Seq(Upward) : q = p \o r
  BY DEF Begins
<1>2. r \o t \in Seq(Upward)
  BY <1>1, ConcatProperties
<1>3. (p \o r) \o t = p \o (r \o t)
  BY <1>1, ConcatAssociative
<1> QED  BY <1>1, <1>2, <1>3 DEF Begins

LEMMA Streaming ==
    ASSUME LinkTyping, NEW k \in Connection
    PROVE  /\ received[k] \in Seq(Upward) /\ upstream[k] \in Seq(Upward)
           /\ queued[k] \in Seq(Upward) /\ Stream(k) \in Seq(Upward)
<1>1. /\ received[k] \in Seq(Upward) /\ upstream[k] \in Seq(Upward)
      /\ queued[k] \in Seq(Upward)
  BY DEF LinkTyping
<1> QED  BY <1>1, ConcatProperties DEF Stream

\* Nothing of the connection moves, though the state may.
LEMMA WrittenKept ==
    ASSUME NEW k \in Connection, Written(k),
           UNCHANGED <<generation, queued, received, upstream, peer>>,
           Unwritten' = Unwritten, IsUp' => IsUp,
           state' = "CONNECTING" => state = "CONNECTING",
           state' \in {"REGISTERING", "REGISTERED"} =>
              state \in {"REGISTERING", "REGISTERED"}
    PROVE  Written(k)'
<1>1. Stream(k)' = Stream(k)
  BY DEF Stream
<1> QED  BY <1>1 DEF Written

-----------------------------------------------------------------------------
(***************************************************************************)
(* Calls and completions.                                                  *)
(***************************************************************************)
LEMMA CallStep ==
    ASSUME LinkInv, NEW h \in Handler, h.h \notin SocketOp, posted' = Append(posted, h),
           UNCHANGED <<client, network, queued>>, outgoing' \in Seq(FromSession)
    PROVE  LinkInv'
<1>1. /\ posted' \in Seq(Handler)
      /\ \A H : Has(posted', H) <=> Has(posted, H) \/ h \in H
      /\ \A H : Once(posted, H) /\ (h \in H => ~Has(posted, H)) => Once(posted', H)
  BY PostedOne DEF LinkInv
<1>2. /\ UNCHANGED <<state, generation, socket_open, write_queue, async>>
      /\ UNCHANGED <<peer, upstream, downstream, received, queued>>
  BY DEF client, network
<1>3. /\ \A op : Current(op)' = Current(op) /\ Started(op)' = Started(op)
      /\ Through' = Through /\ Newer' = Newer /\ Hangups' = Hangups
  BY <1>2, SameGeneration DEF Hangups
<1>4. LinkTyping'
  BY <1>1, <1>2 DEF LinkInv, LinkTyping
<1>5. (\A op \in SocketOp : h \notin Current(op)) /\ h \notin Newer /\ h \notin Through
  BY DEF Current, Newer, Through, SocketOp
<1>6. Tokens'
  <2>1. \A op \in SocketOp : OneToken(op)' /\ (Token(op)' <=> Token(op))
    BY <1>1, <1>2, <1>3, <1>5 DEF OneToken, Token, LinkInv, Tokens
  <2>2. Generations'
    BY <1>1, <1>2, <1>3, <1>5 DEF LinkInv, Tokens, Generations
  <2>3. SocketOp = {"resolve", "connect", "read", "write"}
    BY DEF SocketOp
  <2>4. Phases'
    BY <1>1, <1>2, <1>3, <2>1, <2>3 DEF LinkInv, Tokens, Phases, IsUp
  <2> QED  BY <2>1, <2>2, <2>4 DEF Tokens
<1>7. Unwritten' = Unwritten
  BY <1>1, <1>2, <1>3, <1>5 DEF Unwritten
<1>8. \A k \in Connection : Written(k)'
  <2>1. \A k \in Connection : Written(k)
    BY DEF LinkInv
  <2> QED  BY <1>2, <1>7, <2>1, WrittenKept DEF IsUp
<1> QED  BY <1>4, <1>6, <1>8 DEF LinkInv

LEMMA ResolveStep ==
    ASSUME LinkInv, NEW a \in async, ResolveCompletes(a)
    PROVE  LinkInv'
<1>1. PICK ok \in BOOLEAN :
         /\ a.op = "resolve" /\ Completes(a, [h |-> "resolve", of |-> a.of, ok |-> ok])
         /\ UNCHANGED network
  BY DEF ResolveCompletes
<1> DEFINE h == [h |-> "resolve", of |-> a.of, ok |-> ok]
<1>2. /\ async' = async \ {a} /\ posted' = Append(posted, h)
      /\ UNCHANGED <<state, generation, socket_open, write_queue>>
      /\ UNCHANGED <<outgoing, peer, upstream, downstream, received, queued>>
  BY <1>1 DEF Completes, Post, network, session
<1>3. h \in Handler /\ h.h = a.op /\ h.of = a.of /\ h.h = "resolve"
  <2>1. a.of \in Nat
    BY DEF LinkInv, LinkTyping
  <2> QED  BY <1>1, <2>1, NewHandlers
<1> HIDE DEF h
<1>4. LinkTyping /\ Tokens
  BY DEF LinkInv
<1>5. Tokens' /\ posted' \in Seq(Handler) /\ (Has(posted', Through') <=> Has(posted, Through))
  <2>1. a # Started("write")
    BY <1>1 DEF Started
  <2> QED  BY <1>2, <1>3, <1>4, <2>1, CompletedTokens
<1>6. LinkTyping'
  BY <1>2, <1>4, <1>5 DEF LinkTyping
<1>7. \A k \in Connection : Written(k)'
  <2>1. Unwritten' = Unwritten
    BY <1>2, <1>5 DEF Unwritten
  <2>2. \A k \in Connection : Written(k)
    BY DEF LinkInv
  <2> QED  BY <1>2, <2>1, <2>2, WrittenKept DEF IsUp
<1> QED  BY <1>5, <1>6, <1>7 DEF LinkInv

LEMMA ConnectStep ==
    ASSUME LinkInv, NEW a \in async, ConnectCompletes(a)
    PROVE  LinkInv'
<1>1. PICK ok \in BOOLEAN :
         /\ a.op = "connect" /\ Completes(a, [h |-> "connect", of |-> a.of, ok |-> ok])
         /\ peer' = IF ok THEN [peer EXCEPT ![a.of] = "UNREGISTERED"] ELSE peer
         /\ UNCHANGED <<upstream, downstream, received>>
  BY DEF ConnectCompletes
<1> DEFINE h == [h |-> "connect", of |-> a.of, ok |-> ok]
<1>2. /\ async' = async \ {a} /\ posted' = Append(posted, h)
      /\ UNCHANGED <<state, generation, socket_open, write_queue>>
      /\ UNCHANGED <<outgoing, upstream, downstream, received, queued>>
  BY <1>1 DEF Completes, Post, session
<1>3. h \in Handler /\ h.h = a.op /\ h.of = a.of /\ h.h = "connect"
  <2>1. a.of \in Nat
    BY DEF LinkInv, LinkTyping
  <2> QED  BY <1>1, <2>1, NewHandlers
<1> HIDE DEF h
<1>4. LinkTyping /\ Tokens
  BY DEF LinkInv
<1>5. Tokens' /\ posted' \in Seq(Handler) /\ (Has(posted', Through') <=> Has(posted, Through))
  <2>1. a # Started("write")
    BY <1>1 DEF Started
  <2> QED  BY <1>2, <1>3, <1>4, <2>1, CompletedTokens
<1>6. LinkTyping'
  BY <1>1, <1>2, <1>4, <1>5 DEF LinkTyping
<1>7. a.of = generation /\ a = Started("connect")
  BY <1>1, <1>4 DEF Tokens, Generations, LinkTyping, Started
<1>8. state = "CONNECTING"
  <2>1. Token("connect")
    BY <1>7 DEF Token
  <2> QED  BY <1>4, <2>1 DEF Tokens, Phases, LinkTyping, IsUp, SocketOp
<1>9. ASSUME NEW k \in Connection PROVE Written(k)'
  <2>1. Written(k) /\ Stream(k)' = Stream(k)
    BY <1>2 DEF LinkInv, Stream
  <2>2. peer'[k] = "DISCONNECTED" => peer[k] = "DISCONNECTED"
    BY <1>1, <1>4 DEF LinkTyping
  <2> QED  BY <1>2, <1>8, <2>1, <2>2 DEF Written, IsUp
<1> QED  BY <1>5, <1>6, <1>9 DEF LinkInv

LEMMA ReadStep ==
    ASSUME LinkInv, generation \in Connection, NEW a \in async, ReadCompletes(a)
    PROVE  LinkInv'
<1>1. PICK h \in Handler :
         /\ a.op = "read" /\ h.h = "read" /\ h.of = a.of
         /\ Completes(a, h) /\ UNCHANGED <<peer, upstream, received>>
         /\ downstream' \in [Connection -> Seq(Downward)]
  <2>1. a.of \in Nat /\ a.op = "read" /\ downstream \in [Connection -> Seq(Downward)]
    BY DEF LinkInv, LinkTyping, ReadCompletes
  <2>2. a.of = generation
    BY <2>1 DEF LinkInv, Tokens, Generations
  <2>3. CASE /\ downstream[a.of] # <<>>
             /\ Completes(a, [h |-> "read", of |-> a.of, ok |-> TRUE,
                              message |-> Head(downstream[a.of])])
             /\ downstream' = [downstream EXCEPT ![a.of] = Tail(@)]
    <3>1. downstream[a.of] \in Seq(Downward)
      BY <2>1, <2>2
    <3>2. Head(downstream[a.of]) \in Downward /\ Tail(downstream[a.of]) \in Seq(Downward)
      BY <2>3, <3>1
    <3>3. [h |-> "read", of |-> a.of, ok |-> TRUE, message |-> Head(downstream[a.of])]
             \in Handler
      BY <2>1, <3>2, NewHandlers
    <3>4. downstream' \in [Connection -> Seq(Downward)]
      BY <2>1, <2>3, <3>2
    <3> QED  BY <2>1, <2>3, <3>3, <3>4 DEF ReadCompletes
  <2>4. CASE /\ Completes(a, [h |-> "read", of |-> a.of, ok |-> FALSE])
             /\ UNCHANGED downstream
    <3>1. [h |-> "read", of |-> a.of, ok |-> FALSE] \in Handler
      BY <2>1, NewHandlers DEF SocketOp
    <3> QED  BY <2>1, <2>4, <3>1 DEF ReadCompletes
  <2> QED  BY <2>3, <2>4 DEF ReadCompletes
<1>2. /\ async' = async \ {a} /\ posted' = Append(posted, h)
      /\ UNCHANGED <<state, generation, socket_open, write_queue>>
      /\ UNCHANGED <<outgoing, upstream, received, queued, peer>>
  BY <1>1 DEF Completes, Post, session
<1>3. LinkTyping /\ Tokens
  BY DEF LinkInv
<1>4. Tokens' /\ posted' \in Seq(Handler) /\ (Has(posted', Through') <=> Has(posted, Through))
  <2>1. a # Started("write")
    BY <1>1 DEF Started
  <2> QED  BY <1>1, <1>2, <1>3, <2>1, CompletedTokens
<1>5. LinkTyping'
  BY <1>1, <1>2, <1>3, <1>4 DEF LinkTyping
<1>6. \A k \in Connection : Written(k)'
  <2>1. Unwritten' = Unwritten
    BY <1>2, <1>4 DEF Unwritten
  <2>2. \A k \in Connection : Written(k)
    BY DEF LinkInv
  <2> QED  BY <1>2, <2>1, <2>2, WrittenKept DEF IsUp
<1> QED  BY <1>4, <1>5, <1>6 DEF LinkInv

\* A completed write takes the message at the front of the queue along.
LEMMA WriteStep ==
    ASSUME LinkInv, NEW a \in async, WriteCompletes(a)
    PROVE  LinkInv'
<1>1. PICK ok \in BOOLEAN :
         /\ a.op = "write" /\ Completes(a, [h |-> "write", of |-> a.of, ok |-> ok])
         /\ upstream' = IF ok /\ peer[a.of] # "DISCONNECTED"
                        THEN [upstream EXCEPT ![a.of] = Append(@, Head(write_queue))]
                        ELSE upstream
         /\ UNCHANGED <<peer, downstream, received>>
  BY DEF WriteCompletes
<1> DEFINE h == [h |-> "write", of |-> a.of, ok |-> ok]
<1>2. /\ async' = async \ {a} /\ posted' = Append(posted, h)
      /\ UNCHANGED <<state, generation, socket_open, write_queue>>
      /\ UNCHANGED <<outgoing, peer, downstream, received, queued>>
  BY <1>1 DEF Completes, Post, session
<1>3. h \in Handler /\ h.h = a.op /\ h.of = a.of /\ h.h = "write" /\ h.ok = ok
  <2>1. a.of \in Nat
    BY DEF LinkInv, LinkTyping
  <2> QED  BY <1>1, <2>1, NewHandlers
<1> HIDE DEF h
<1>4. LinkTyping /\ Tokens
  BY DEF LinkInv
<1>5. a.of = generation /\ a = Started("write")
  BY <1>1, <1>4 DEF Tokens, Generations, LinkTyping, Started
<1>6. /\ Tokens' /\ posted' \in Seq(Handler)
      /\ Has(posted', Through') <=> Has(posted, Through) \/ ok
  BY <1>2, <1>3, <1>4, <1>5, CompletedTokens
<1>7. write_queue # <<>> /\ IsUp /\ ~Has(posted, Through)
  <2>1. OneToken("write") /\ Phases
    BY <1>4 DEF Tokens, SocketOp
  <2>2. ~Has(posted, Current("write")) /\ Token("write")
    BY <1>5, <2>1 DEF OneToken, Token
  <2> QED  BY <2>1, <2>2 DEF Phases, Has, Through
<1>8. /\ write_queue \in Seq(Upward) /\ Head(write_queue) \in Upward
      /\ Tail(write_queue) \in Seq(Upward)
  BY <1>4, <1>7 DEF LinkTyping
<1>9. LinkTyping'
  <2>1. upstream' \in [Connection -> Seq(Upward)]
    <3>1. upstream \in [Connection -> Seq(Upward)]
      BY <1>4 DEF LinkTyping
    <3>2. \A k \in Connection : Append(upstream[k], Head(write_queue)) \in Seq(Upward)
      BY <1>8, <3>1, AppendProperties
    <3> QED  BY <1>1, <3>1, <3>2
  <2> QED  BY <1>2, <1>4, <1>6, <2>1 DEF LinkTyping
<1>10. CASE ~ok \/ peer[generation] = "DISCONNECTED"
  <2>1. upstream' = upstream
    BY <1>1, <1>5, <1>10
  <2>2. ASSUME NEW k \in Connection PROVE Written(k)'
    <3>1. Written(k) /\ Stream(k)' = Stream(k)
      BY <1>2, <2>1 DEF LinkInv, Stream
    <3>2. ok \/ Unwritten' = Unwritten
      BY <1>2, <1>6 DEF Unwritten
    <3> QED  BY <1>2, <1>10, <2>1, <3>1, <3>2 DEF Written, IsUp
  <2> QED  BY <1>6, <1>9, <2>2 DEF LinkInv
<1>11. CASE ok /\ peer[generation] # "DISCONNECTED"
  <2>1. ASSUME NEW k \in Connection PROVE Written(k)'
    <3>1. Written(k)
      BY DEF LinkInv
    <3>2. CASE k # generation
      <4>1. upstream'[k] = upstream[k] /\ Stream(k)' = Stream(k)
        BY <1>1, <1>2, <1>4, <1>5, <3>2 DEF LinkTyping, Stream
      <4> QED  BY <1>2, <3>1, <3>2, <4>1 DEF Written
    <3>3. CASE k = generation
      <4>1. upstream'[k] = Append(upstream[k], Head(write_queue))
        BY <1>1, <1>4, <1>5, <1>11, <3>3 DEF LinkTyping
      <4>2. /\ received[k] \in Seq(Upward) /\ upstream[k] \in Seq(Upward)
            /\ Stream(k) \in Seq(Upward)
        BY <1>4, Streaming
      <4>3. Stream(k)' = Append(Stream(k), Head(write_queue)) /\ Stream(k)' \in Seq(Upward)
        <5>1. /\ received[k] \o Append(upstream[k], Head(write_queue))
                    = Append(received[k] \o upstream[k], Head(write_queue))
              /\ Append(received[k] \o upstream[k], Head(write_queue)) \in Seq(Upward)
          BY <1>8, <4>2, OneAtTheEnd
        <5> QED  BY <1>2, <4>1, <5>1 DEF Stream
      <4>4. queued[k] = Stream(k) \o write_queue
        BY <1>7, <1>11, <3>1, <3>3 DEF Written, Unwritten
      <4>5. queued[k] = Stream(k)' \o Tail(write_queue)
        <5>1. Append(Stream(k), Head(write_queue)) \o Tail(write_queue)
                 = Stream(k) \o write_queue
          BY <1>7, <1>8, <4>2, MoveOne
        <5> QED  BY <4>3, <4>4, <5>1
      <4>6. Unwritten' = Tail(write_queue)
        BY <1>2, <1>6, <1>11 DEF Unwritten
      <4>7. Begins(Stream(k)', queued[k])
        BY <1>8, <4>5 DEF Begins
      <4> QED  BY <1>2, <1>7, <1>11, <3>1, <3>3, <4>5, <4>6, <4>7 DEF Written, Begins, IsUp
    <3> QED  BY <3>2, <3>3
  <2> QED  BY <1>6, <1>9, <2>1 DEF LinkInv
<1> QED  BY <1>10, <1>11

-----------------------------------------------------------------------------
(***************************************************************************)
(* The peer.                                                               *)
(***************************************************************************)
LEMMA PeerTokens ==
    ASSUME LinkInv, UNCHANGED <<client, posted, session, queued>>,
           peer' \in [Connection -> {"NONE", "UNREGISTERED", "REGISTERED", "SYNCING",
                                     "LIVE", "DISCONNECTED"}],
           upstream' \in [Connection -> Seq(Upward)],
           downstream' \in [Connection -> Seq(Downward)],
           received' \in [Connection -> Seq(Upward)],
           \A k \in Connection :
              /\ Begins(Stream(k)', queued[k])
              /\ peer'[k] = "DISCONNECTED" => upstream'[k] = <<>>
              /\ peer'[k] # "DISCONNECTED" =>
                    peer[k] # "DISCONNECTED" /\ Stream(k)' = Stream(k)
    PROVE  LinkInv'
<1>1. UNCHANGED <<state, generation, socket_open, write_queue, async, posted, outgoing,
                  queued>>
  BY DEF client, session
<1>2. /\ \A op : Current(op)' = Current(op) /\ Started(op)' = Started(op)
      /\ Through' = Through /\ Newer' = Newer /\ Hangups' = Hangups
  BY <1>1, SameGeneration DEF Hangups
<1>3. LinkTyping'
  BY <1>1 DEF LinkInv, LinkTyping
<1>4. Tokens'
  <2>1. \A op \in SocketOp : OneToken(op)' /\ (Token(op)' <=> Token(op))
    BY <1>1, <1>2 DEF OneToken, Token, LinkInv, Tokens
  <2>2. Generations'
    BY <1>1, <1>2 DEF LinkInv, Tokens, Generations
  <2>3. SocketOp = {"resolve", "connect", "read", "write"}
    BY DEF SocketOp
  <2>4. Phases'
    BY <1>1, <1>2, <2>1, <2>3 DEF LinkInv, Tokens, Phases, IsUp
  <2> QED  BY <2>1, <2>2, <2>4 DEF Tokens
<1>5. ASSUME NEW k \in Connection PROVE Written(k)'
  <2>1. Written(k) /\ Unwritten' = Unwritten
    BY <1>1, <1>2 DEF LinkInv, Unwritten
  <2> QED  BY <1>1, <2>1 DEF Written, IsUp
<1> QED  BY <1>3, <1>4, <1>5 DEF LinkInv

LEMMA PeerClosesStep ==
    ASSUME LinkInv, NEW k \in Connection, PeerCloses(k), received' = received,
           UNCHANGED <<client, posted, session, queued>>
    PROVE  LinkInv'
<1>1. LinkTyping
  BY DEF LinkInv
<1>2. /\ peer' = [peer EXCEPT ![k] = "DISCONNECTED"]
      /\ upstream' = [upstream EXCEPT ![k] = <<>>] /\ downstream' = downstream
      /\ upstream' \in [Connection -> Seq(Upward)]
  BY <1>1, EmptySeq DEF PeerCloses, LinkTyping
<1>3. ASSUME NEW l \in Connection
      PROVE  /\ Begins(Stream(l)', queued[l])
             /\ peer'[l] = "DISCONNECTED" => upstream'[l] = <<>>
             /\ peer'[l] # "DISCONNECTED" =>
                   peer[l] # "DISCONNECTED" /\ Stream(l)' = Stream(l)
  <2>1. Written(l)
    BY DEF LinkInv
  <2>2. CASE l # k
    <3>1. Stream(l)' = Stream(l) /\ peer'[l] = peer[l] /\ upstream'[l] = upstream[l]
      BY <1>1, <1>2, <2>2 DEF Stream, LinkTyping
    <3> QED  BY <2>1, <3>1 DEF Written
  <2>3. CASE l = k
    <3>1. received[l] \in Seq(Upward) /\ upstream[l] \in Seq(Upward)
      BY <1>1, Streaming
    <3>2. peer'[l] = "DISCONNECTED" /\ upstream'[l] = <<>>
      BY <1>1, <1>2, <2>3 DEF LinkTyping
    <3>3. Stream(l)' = received[l]
      BY <3>1, <3>2, ConcatEmptySeq DEF Stream
    <3>4. Begins(received[l], queued[l])
      BY <2>1, <3>1, BeginsShorter DEF Written, Stream
    <3> QED  BY <3>2, <3>3, <3>4
  <2> QED  BY <2>2, <2>3
<1>4. peer' \in [Connection -> {"NONE", "UNREGISTERED", "REGISTERED", "SYNCING",
                                "LIVE", "DISCONNECTED"}]
  BY <1>1, <1>2 DEF LinkTyping
<1>5. downstream' \in [Connection -> Seq(Downward)] /\ received' \in [Connection -> Seq(Upward)]
  BY <1>1, <1>2 DEF LinkTyping
<1> QED  BY <1>2, <1>3, <1>4, <1>5, PeerTokens

LEMMA PeerReadsStep ==
    ASSUME LinkInv, NEW k \in Connection, PeerReads(k)
    PROVE  LinkInv'
<1> DEFINE m == Head(upstream[k])
<1>1. LinkTyping /\ Written(k)
  BY DEF LinkInv
<1>2. /\ peer[k] \notin {"NONE", "DISCONNECTED"} /\ upstream[k] # <<>>
      /\ received' = [received EXCEPT ![k] = Append(@, m)]
      /\ UNCHANGED <<client, posted, session, queued>>
  BY DEF PeerReads
<1>3. /\ received[k] \in Seq(Upward) /\ upstream[k] \in Seq(Upward)
      /\ queued[k] \in Seq(Upward)
  BY <1>1, Streaming
<1>4. /\ m \in Upward /\ Tail(upstream[k]) \in Seq(Upward)
      /\ Append(received[k], m) \in Seq(Upward)
      /\ Append(received[k], m) \o Tail(upstream[k]) = Stream(k)
  <2>1. \A p, q \in Seq(Upward) : q # <<>> =>
           /\ Head(q) \in Upward /\ Tail(q) \in Seq(Upward)
           /\ Append(p, Head(q)) \in Seq(Upward)
           /\ Append(p, Head(q)) \o Tail(q) = p \o q
    BY MoveOne
  <2> QED  BY <1>2, <1>3, <2>1 DEF Stream
<1>5. received' \in [Connection -> Seq(Upward)] /\ received'[k] = Append(received[k], m)
  BY <1>1, <1>2, <1>4 DEF LinkTyping
<1> HIDE DEF m
<1>6. ASSUME NEW next \in {"REGISTERED", "SYNCING", "LIVE"},
             NEW answer \in Seq(Downward), Answer(k, next, answer)
      PROVE  LinkInv'
  <2>1. /\ peer' = [peer EXCEPT ![k] = next]
        /\ downstream' = [downstream EXCEPT ![k] = @ \o answer]
        /\ upstream' = [upstream EXCEPT ![k] = Tail(@)]
    BY <1>6 DEF Answer
  <2>2. downstream' \in [Connection -> Seq(Downward)]
    <3>1. downstream[k] \in Seq(Downward)
      BY <1>1 DEF LinkTyping
    <3>2. downstream[k] \o answer \in Seq(Downward)
      BY <1>6, <3>1, ConcatProperties
    <3> QED  BY <1>1, <2>1, <3>2 DEF LinkTyping
  <2>3. /\ upstream' \in [Connection -> Seq(Upward)] /\ upstream'[k] = Tail(upstream[k])
        /\ peer' \in [Connection -> {"NONE", "UNREGISTERED", "REGISTERED", "SYNCING",
                                     "LIVE", "DISCONNECTED"}]
        /\ peer'[k] # "DISCONNECTED"
    BY <1>1, <1>4, <2>1 DEF LinkTyping
  <2>4. ASSUME NEW l \in Connection
        PROVE  /\ Begins(Stream(l)', queued[l])
               /\ peer'[l] = "DISCONNECTED" => upstream'[l] = <<>>
               /\ peer'[l] # "DISCONNECTED" =>
                     peer[l] # "DISCONNECTED" /\ Stream(l)' = Stream(l)
    <3>1. Written(l)
      BY DEF LinkInv
    <3>2. CASE l # k
      <4>1. /\ Stream(l)' = Stream(l) /\ peer'[l] = peer[l]
            /\ upstream'[l] = upstream[l]
        BY <1>1, <1>2, <2>1, <3>2 DEF Stream, LinkTyping
      <4> QED  BY <3>1, <4>1 DEF Written
    <3>3. CASE l = k
      <4>1. Stream(l)' = Stream(l)
        BY <1>4, <1>5, <2>3, <3>3 DEF Stream
      <4> QED  BY <1>2, <2>3, <3>1, <3>3, <4>1 DEF Written
    <3> QED  BY <3>2, <3>3
  <2> QED  BY <1>2, <1>5, <2>2, <2>3, <2>4, PeerTokens
<1>7. CASE PeerCloses(k)
  <2>1. /\ peer' = [peer EXCEPT ![k] = "DISCONNECTED"]
        /\ upstream' = [upstream EXCEPT ![k] = <<>>] /\ downstream' = downstream
    BY <1>7 DEF PeerCloses
  <2>2. /\ upstream' \in [Connection -> Seq(Upward)] /\ upstream'[k] = <<>>
        /\ peer' \in [Connection -> {"NONE", "UNREGISTERED", "REGISTERED", "SYNCING",
                                     "LIVE", "DISCONNECTED"}]
        /\ peer'[k] = "DISCONNECTED" /\ downstream' \in [Connection -> Seq(Downward)]
    BY <1>1, <2>1, EmptySeq DEF LinkTyping
  <2>3. ASSUME NEW l \in Connection
        PROVE  /\ Begins(Stream(l)', queued[l])
               /\ peer'[l] = "DISCONNECTED" => upstream'[l] = <<>>
               /\ peer'[l] # "DISCONNECTED" =>
                     peer[l] # "DISCONNECTED" /\ Stream(l)' = Stream(l)
    <3>1. Written(l)
      BY DEF LinkInv
    <3>2. CASE l # k
      <4>1. /\ Stream(l)' = Stream(l) /\ peer'[l] = peer[l]
            /\ upstream'[l] = upstream[l]
        BY <1>1, <1>2, <2>1, <3>2 DEF Stream, LinkTyping
      <4> QED  BY <3>1, <4>1 DEF Written
    <3>3. CASE l = k
      <4>1. Stream(l)' = Append(received[k], m)
        BY <1>4, <1>5, <2>2, <3>3, ConcatEmptySeq DEF Stream
      <4>2. Begins(Append(received[k], m), queued[k])
        <5>1. Begins(Append(received[k], m) \o Tail(upstream[k]), queued[k])
          BY <1>1, <1>4 DEF Written
        <5> QED  BY <1>4, <5>1, BeginsShorter
      <4> QED  BY <2>2, <3>3, <4>1, <4>2
    <3> QED  BY <3>2, <3>3
  <2> QED  BY <1>2, <1>5, <2>2, <2>3, PeerTokens
<1>8. \/ \E next \in {"REGISTERED", "SYNCING", "LIVE"} : \E answer \in Seq(Downward) :
            Answer(k, next, answer)
      \/ PeerCloses(k)
  <2>1. <<"HELLO_ACK">> \in Seq(Downward) /\ <<"SYNC_RESPONSE">> \in Seq(Downward)
        /\ <<>> \in Seq(Downward)
    BY DEF Downward
  <2> QED  BY <2>1 DEF PeerReads
<1> QED  BY <1>6, <1>7, <1>8

-----------------------------------------------------------------------------
(***************************************************************************)
(* The handlers that leave the generation alone.                           *)
(***************************************************************************)
LEMMA AllTokens ==
    SocketOp = {"resolve", "connect", "read", "write"}
BY DEF SocketOp

\* A handler that takes itself off the queue: of the handlers before it, those
\* of a set without it are still there.
LEMMA RanQuietly ==
    ASSUME LinkTyping, Tokens, posted # <<>>, Then(<<>>), generation' = generation
    PROVE  /\ posted' \in Seq(Handler) /\ Head(posted) \in Handler
           /\ ~Has(posted', Newer')
           /\ \A op \in SocketOp :
                 /\ Once(posted', Current(op)') /\ Started(op)' = Started(op)
                 /\ Has(posted', Current(op)') <=>
                       Has(posted, Current(op)) /\ Head(posted) \notin Current(op)
           /\ Has(posted', Through') <=> Has(posted, Through) /\ Head(posted) \notin Through
           /\ Has(posted, Hangups) /\ Head(posted) \notin Hangups => Has(posted', Hangups)
<1>1. <<>> \in Seq(Handler) /\ DOMAIN <<>> = {} /\ posted' = Tail(posted) \o <<>>
  BY DEF Then
<1> QED  BY <1>1, RanTokens

LEMMA IgnoreStep ==
    ASSUME LinkInv, posted # <<>>, Ignore,
           Head(posted).h \in SocketOp => Head(posted).of # generation,
           Head(posted).h = "disconnect_impl" => state = "DISCONNECTED"
    PROVE  LinkInv'
<1>1. /\ UNCHANGED <<state, generation, socket_open, write_queue, async, outgoing>>
      /\ UNCHANGED <<peer, upstream, downstream, received, queued>>
      /\ Then(<<>>)
  BY DEF Ignore, client, session, network
<1>2. LinkTyping /\ Tokens
  BY DEF LinkInv
<1>3. /\ posted' \in Seq(Handler) /\ Head(posted) \in Handler /\ ~Has(posted', Newer')
      /\ \A op \in SocketOp :
            /\ Once(posted', Current(op)') /\ Started(op)' = Started(op)
            /\ Has(posted', Current(op)') <=>
                  Has(posted, Current(op)) /\ Head(posted) \notin Current(op)
      /\ Has(posted', Through') <=> Has(posted, Through) /\ Head(posted) \notin Through
      /\ Has(posted, Hangups) /\ Head(posted) \notin Hangups => Has(posted', Hangups)
  BY <1>1, <1>2, RanQuietly
<1>4. /\ \A op \in SocketOp : Head(posted) \notin Current(op)
      /\ Head(posted) \notin Through
      /\ Head(posted) \in Hangups => state = "DISCONNECTED"
  BY DEF Current, Through, Hangups, SocketOp
<1>5. LinkTyping'
  BY <1>1, <1>2, <1>3 DEF LinkTyping
<1>6. Tokens'
  <2>1. \A op \in SocketOp : OneToken(op)' /\ (Token(op)' <=> Token(op))
    BY <1>1, <1>2, <1>3, <1>4 DEF OneToken, Token, Tokens
  <2>2. Generations'
    BY <1>1, <1>2, <1>3 DEF Tokens, Generations
  <2>3. Hangups' = Hangups
    BY DEF Hangups
  <2>4. Phases'
    BY <1>1, <1>2, <1>3, <1>4, <2>1, <2>3, AllTokens DEF Tokens, Phases, IsUp
  <2> QED  BY <2>1, <2>2, <2>4 DEF Tokens
<1>7. \A k \in Connection : Written(k)'
  <2>1. Unwritten' = Unwritten
    BY <1>1, <1>3, <1>4 DEF Unwritten
  <2>2. \A k \in Connection : Written(k)
    BY DEF LinkInv
  <2> QED  BY <1>1, <2>1, <2>2, WrittenKept DEF IsUp
<1> QED  BY <1>5, <1>6, <1>7 DEF LinkInv

LEMMA SentUnwritten ==
    ASSUME LinkTyping, Tokens, NEW ms \in Seq(Upward), write_queue' = write_queue \o ms,
           Has(posted', Through') <=> Has(posted, Through)
    PROVE  /\ Unwritten \in Seq(Upward) /\ Unwritten' = Unwritten \o ms
           /\ write_queue' \in Seq(Upward)
<1>1. write_queue \in Seq(Upward)
  BY DEF LinkTyping
<1>2. Has(posted, Through) => write_queue # <<>>
  <2>1. Has(posted, Through) => Token("write")
    BY DEF Has, Through, Token
  <2> QED  BY <2>1 DEF Tokens, Phases
<1>3. write_queue # <<>> => Tail(write_queue) \in Seq(Upward)
  BY <1>1
<1>4. write_queue # <<>> => Tail(write_queue \o ms) = Tail(write_queue) \o ms
  <2> SUFFICES ASSUME write_queue # <<>>
               PROVE  Tail(write_queue \o ms) = Tail(write_queue) \o ms
    OBVIOUS
  <2> DEFINE p == Tail(write_queue \o ms)
             q == Tail(write_queue) \o ms
  <2>1. /\ Len(write_queue) \in Nat \ {0} /\ Len(ms) \in Nat
        /\ Len(write_queue \o ms) = Len(write_queue) + Len(ms)
        /\ write_queue \o ms \in Seq(Upward) /\ write_queue \o ms # <<>>
    BY <1>1
  <2>2. /\ p \in Seq(Upward) /\ Len(p) = (Len(write_queue) + Len(ms)) - 1
        /\ \A i \in 1..Len(p) : p[i] = (write_queue \o ms)[i + 1]
    BY <2>1, HeadTailProperties
  <2>3. /\ q \in Seq(Upward) /\ Len(q) = (Len(write_queue) - 1) + Len(ms)
        /\ \A i \in 1..Len(q) : q[i] = IF i <= Len(write_queue) - 1
                                       THEN write_queue[i + 1]
                                       ELSE ms[i - (Len(write_queue) - 1)]
    BY <1>1, <2>1, ConcatProperties, HeadTailProperties
  <2>4. \A i \in 1..Len(write_queue) + Len(ms) :
           (write_queue \o ms)[i] = IF i <= Len(write_queue) THEN write_queue[i]
                                    ELSE ms[i - Len(write_queue)]
    BY <1>1, ConcatProperties
  <2>5. Len(p) = Len(q) /\ Len(p) \in Nat
    BY <2>1, <2>2, <2>3
  <2> HIDE DEF p, q
  <2>6. ASSUME NEW i \in 1..Len(p) PROVE p[i] = q[i]
    <3>1. i + 1 \in 1..Len(write_queue) + Len(ms)
      BY <2>1, <2>2
    <3>2. (i + 1) - Len(write_queue) = i - (Len(write_queue) - 1)
      BY <2>1
    <3>3. i + 1 <= Len(write_queue) <=> i <= Len(write_queue) - 1
      BY <2>1
    <3> QED  BY <2>2, <2>3, <2>4, <2>5, <3>1, <3>2, <3>3
  <2>7. p = q
    BY <2>2, <2>3, <2>5, <2>6, SeqEqual
  <2> QED  BY <2>7 DEF p, q
<1> QED  BY <1>1, <1>2, <1>3, <1>4, ConcatProperties DEF Unwritten

LEMMA SentWritten ==
    ASSUME LinkInv, NEW ms \in Seq(Upward), Send(ms),
           UNCHANGED <<generation, received, upstream, peer>>,
           Has(posted', Through') <=> Has(posted, Through),
           IsUp \/ state = "CONNECTING", IsUp',
           \A k \in Connection : k = generation =>
              /\ WellFormed(queued[k] \o ms) /\ queued[k] \o ms # <<>>
              /\ state' \in {"REGISTERING", "REGISTERED"} =>
                    Without(queued[k] \o ms, "OPEN_DOCUMENT")
    PROVE  /\ \A k \in Connection : Written(k)'
           /\ write_queue' \in Seq(Upward) /\ queued' \in [Connection -> Seq(Upward)]
<1>1. LinkTyping /\ Tokens
  BY DEF LinkInv
<1>2. /\ write_queue' = write_queue \o ms
      /\ queued' = [queued EXCEPT ![generation] = @ \o ms]
  BY DEF Send
<1>3. /\ Unwritten \in Seq(Upward) /\ Unwritten' = Unwritten \o ms
      /\ write_queue' \in Seq(Upward)
  BY <1>1, <1>2, SentUnwritten
<1>4. queued' \in [Connection -> Seq(Upward)]
  <2>1. queued \in [Connection -> Seq(Upward)]
    BY <1>1 DEF LinkTyping
  <2>2. \A k \in Connection : queued[k] \o ms \in Seq(Upward)
    BY <2>1, ConcatProperties
  <2> QED  BY <1>2, <2>1, <2>2
<1>5. /\ \A p, q, r \in Seq(Upward) : (p \o q) \o r = p \o (q \o r)
      /\ \A p, q \in Seq(Upward) : p \o q = <<>> => p = <<>>
  BY Joining
<1>6. ASSUME NEW k \in Connection PROVE Written(k)'
  <2>1. Written(k) /\ Stream(k)' = Stream(k)
    BY DEF LinkInv, Stream
  <2>2. CASE k # generation
    <3>1. queued'[k] = queued[k]
      BY <1>1, <1>2, <2>2 DEF LinkTyping
    <3> QED  BY <2>1, <2>2, <3>1 DEF Written
  <2>3. CASE k = generation
    <3>1. queued'[k] = queued[k] \o ms
      BY <1>1, <1>2, <2>3 DEF LinkTyping
    <3>2. queued[k] \in Seq(Upward) /\ Stream(k) \in Seq(Upward)
      BY <1>1, Streaming
    <3>3. Begins(Stream(k), queued[k] \o ms)
      BY <2>1, <3>2, BeginsLonger DEF Written
    <3>4. peer[k] # "DISCONNECTED" => queued[k] = Stream(k) \o Unwritten
      <4>1. CASE IsUp
        BY <2>1, <2>3, <4>1 DEF Written
      <4>2. CASE state = "CONNECTING"
        <5>1. PICK r \in Seq(Upward) : queued[k] = Stream(k) \o r
          BY <2>1 DEF Written, Begins
        <5>2. queued[k] = <<>>
          BY <2>1, <2>3, <4>2 DEF Written
        <5>3. Stream(k) = <<>>
          BY <1>5, <3>2, <5>1, <5>2
        <5>4. write_queue = <<>> /\ ~Has(posted, Through)
          <6>1. ~Token("write") /\ write_queue = <<>>
            BY <1>1, <4>2 DEF Tokens, Phases, IsUp
          <6> QED  BY <6>1 DEF Token, Has, Through
        <5> QED  BY <5>2, <5>3, <5>4 DEF Unwritten
      <4> QED  BY <4>1, <4>2
    <3>5. (Stream(k) \o Unwritten) \o ms = Stream(k) \o (Unwritten \o ms)
      BY <1>3, <1>5, <3>2
    <3>6. peer'[k] # "DISCONNECTED" => queued'[k] = Stream(k)' \o Unwritten'
      BY <1>3, <2>1, <3>1, <3>4, <3>5
    <3>7. state' # "CONNECTING" /\ generation' = k /\ peer'[k] = peer[k]
      BY <2>3 DEF IsUp
    <3>8. ~(generation' < k) /\ (peer'[k] = "DISCONNECTED" => upstream'[k] = <<>>)
      BY <1>1, <2>1, <2>3 DEF Written, LinkTyping
    <3> QED  BY <2>1, <2>3, <3>1, <3>3, <3>6, <3>7, <3>8 DEF Written
  <2> QED  BY <2>2, <2>3
<1> QED  BY <1>3, <1>4, <1>6

\* Of a connected client: the empty queue is what starts the writer.
LEMMA SentTokens ==
    ASSUME LinkTyping, Tokens, posted # <<>>, Then(<<>>),
           Head(posted).h \notin SocketOp, Head(posted) \notin Hangups,
           NEW ms \in Seq(Upward), write_queue' = write_queue \o ms,
           async' = async \cup Writer(ms), UNCHANGED <<generation, socket_open>>,
           IsUp, IsUp'
    PROVE  /\ Tokens' /\ posted' \in Seq(Handler)
           /\ Has(posted', Through') <=> Has(posted, Through)
           /\ async' \subseteq [op : SocketOp, of : Nat]
<1>1. /\ posted' \in Seq(Handler) /\ ~Has(posted', Newer')
      /\ \A op \in SocketOp :
            /\ Once(posted', Current(op)') /\ Started(op)' = Started(op)
            /\ Has(posted', Current(op)') <=>
                  Has(posted, Current(op)) /\ Head(posted) \notin Current(op)
      /\ Has(posted', Through') <=> Has(posted, Through) /\ Head(posted) \notin Through
      /\ Has(posted, Hangups) /\ Head(posted) \notin Hangups => Has(posted', Hangups)
  BY RanQuietly
<1>2. (\A op \in SocketOp : Head(posted) \notin Current(op)) /\ Head(posted) \notin Through
  BY DEF Current, Through, SocketOp
<1>3. /\ Writer(ms) = {} \/ (Writer(ms) = {Started("write")} /\ write_queue = <<>>)
      /\ write_queue' # <<>> => write_queue # <<>> \/ Writer(ms) = {Started("write")}
      /\ write_queue # <<>> \/ Writer(ms) = {Started("write")} => write_queue' # <<>>
  <2>1. write_queue \in Seq(Upward)
    BY DEF LinkTyping
  <2>2. \A p, q \in Seq(Upward) : p \o q = <<>> <=> p = <<>> /\ q = <<>>
    BY ConcatEqualIffEmpty
  <2> QED  BY <2>1, <2>2 DEF Writer
<1>4. generation \in Nat /\ Started("write") \in [op : SocketOp, of : Nat]
  BY AllTokens DEF LinkTyping, Started
<1>5. \A op \in SocketOp : op # "write" => Started(op) # Started("write")
  BY DEF Started
<1>6. write_queue = <<>> => ~Token("write")
  BY DEF Tokens, Phases
<1>7. ASSUME NEW op \in SocketOp
      PROVE  /\ OneToken(op)'
             /\ op # "write" => (Token(op)' <=> Token(op))
             /\ Token("write")' <=> Token("write") \/ Writer(ms) # {}
  <2>1. OneToken(op) /\ OneToken("write")
    BY AllTokens DEF Tokens
  <2>2. OneToken(op)'
    BY <1>1, <1>2, <1>3, <1>5, <1>6, <2>1 DEF OneToken, Token
  <2>3. op # "write" => (Token(op)' <=> Token(op))
    BY <1>1, <1>2, <1>3, <1>5 DEF Token
  <2>4. Token("write")' <=> Token("write") \/ Writer(ms) # {}
    BY <1>1, <1>2, <1>3, AllTokens DEF Token
  <2> QED  BY <2>2, <2>3, <2>4
<1>8. Generations'
  <2>1. socket_open /\ \A a \in async :
           a.of <= generation /\ (a.op # "resolve" => a.of = generation)
    BY DEF Tokens, Generations, IsUp
  <2>2. \A a \in async' : a.of <= generation /\ (a.op # "resolve" => a.of = generation)
    BY <1>3, <1>4, <2>1 DEF Started
  <2> QED  BY <1>1, <2>1, <2>2 DEF Generations
<1>9. Phases'
  <2>1. Hangups' = Hangups
    BY DEF Hangups
  <2>2. state' # "DISCONNECTED" /\ state' # "CONNECTING"
    BY DEF IsUp
  <2>3. /\ ~Token("resolve")' /\ ~Token("connect")'
        /\ Token("read")' \/ Has(posted', Hangups)
    BY <1>1, <1>7, AllTokens DEF Tokens, Phases
  <2>4. /\ Token("write")' => write_queue' # <<>>
        /\ write_queue' # <<>> => Token("write")' \/ Has(posted', Hangups)
    BY <1>1, <1>3, <1>7, AllTokens DEF Tokens, Phases
  <2> QED  BY <2>1, <2>2, <2>3, <2>4 DEF Phases
<1> QED  BY <1>1, <1>2, <1>3, <1>4, <1>7, <1>8, <1>9 DEF Tokens, LinkTyping

LEMMA WellFormedLonger ==
    ASSUME NEW q \in Seq(Upward), NEW t \in Seq(Upward), q # <<>>, WellFormed(q),
           Without(t, "HELLO"), Without(t, "OPEN_DOCUMENT")
    PROVE  /\ WellFormed(q \o t) /\ q \o t # <<>>
           /\ Without(q, "OPEN_DOCUMENT") => Without(q \o t, "OPEN_DOCUMENT")
<1>1. /\ DOMAIN q = 1..Len(q) /\ DOMAIN t = 1..Len(t)
      /\ Len(q) \in Nat \ {0} /\ Len(t) \in Nat
      /\ DOMAIN (q \o t) = 1..Len(q) + Len(t)
      /\ \A i \in 1..Len(q) : (q \o t)[i] = q[i]
      /\ \A i \in 1..Len(t) : (q \o t)[Len(q) + i] = t[i]
      /\ q \o t # <<>>
  OBVIOUS
<1>2. ASSUME NEW i \in 1..Len(q) + Len(t)
      PROVE  \/ i \in 1..Len(q) /\ (q \o t)[i] = q[i]
             \/ i # 1 /\ (q \o t)[i] # "HELLO" /\ (q \o t)[i] # "OPEN_DOCUMENT"
  <2>1. CASE i \in 1..Len(q)
    BY <1>1, <2>1
  <2>2. CASE i \notin 1..Len(q)
    <3>1. PICK j \in 1..Len(t) : i = Len(q) + j
      <4>1. i - Len(q) \in 1..Len(t) /\ i = Len(q) + (i - Len(q))
        BY <1>1, <2>2
      <4> QED  BY <4>1
    <3>2. (q \o t)[i] = t[j] /\ i # 1
      BY <1>1, <3>1
    <3> QED  BY <1>1, <3>2 DEF Without
  <2> QED  BY <2>1, <2>2
<1> QED  BY <1>1, <1>2 DEF WellFormed, Without

LEMMA ProcessOutgoingStep ==
    ASSUME LinkInv, posted # <<>>, Head(posted).h = "process_outgoing", ProcessOutgoing
    PROVE  LinkInv'
<1>1. LinkTyping /\ Tokens /\ outgoing \in Seq(FromSession)
  BY DEF LinkInv, LinkTyping
<1>2. /\ UNCHANGED <<state, generation, socket_open, peer, upstream, downstream, received>>
      /\ outgoing' = <<>> /\ outgoing' \in Seq(FromSession) /\ Then(<<>>)
  BY EmptySeq DEF ProcessOutgoing, network
<1>3. Head(posted).h \notin SocketOp /\ Head(posted) \notin Hangups
  BY DEF SocketOp, Hangups
<1>4. CASE UNCHANGED <<write_queue, queued, async>>
  <2>1. /\ posted' \in Seq(Handler) /\ ~Has(posted', Newer')
        /\ \A op \in SocketOp :
              /\ Once(posted', Current(op)') /\ Started(op)' = Started(op)
              /\ Has(posted', Current(op)') <=>
                    Has(posted, Current(op)) /\ Head(posted) \notin Current(op)
        /\ Has(posted', Through') <=> Has(posted, Through) /\ Head(posted) \notin Through
        /\ Has(posted, Hangups) /\ Head(posted) \notin Hangups => Has(posted', Hangups)
    BY <1>1, <1>2, RanQuietly
  <2>2. (\A op \in SocketOp : Head(posted) \notin Current(op)) /\ Head(posted) \notin Through
    BY <1>3 DEF Current, Through, SocketOp
  <2>3. LinkTyping'
    BY <1>1, <1>2, <1>4, <2>1 DEF LinkTyping
  <2>4. \A op \in SocketOp : OneToken(op)' /\ (Token(op)' <=> Token(op))
    BY <1>1, <1>4, <2>1, <2>2 DEF OneToken, Token, Tokens
  <2>5. Generations'
    BY <1>1, <1>2, <1>4, <2>1 DEF Tokens, Generations
  <2>6. Hangups' = Hangups
    BY DEF Hangups
  <2>7. Phases'
    BY <1>1, <1>2, <1>3, <1>4, <2>1, <2>4, <2>6, AllTokens DEF Tokens, Phases, IsUp
  <2>8. Unwritten' = Unwritten
    BY <1>4, <2>1, <2>2 DEF Unwritten
  <2>9. \A k \in Connection : Written(k)'
    BY <1>2, <1>4, <2>8, WrittenKept DEF IsUp, LinkInv
  <2> QED  BY <2>3, <2>4, <2>5, <2>7, <2>9 DEF LinkInv, Tokens
<1>5. CASE /\ state \notin {"DISCONNECTED", "CONNECTING"}
           /\ Send(outgoing) /\ async' = async \cup Writer(outgoing)
  <2>1. IsUp /\ IsUp'
    BY <1>1, <1>2, <1>5 DEF IsUp, LinkTyping
  <2>2. outgoing \in Seq(Upward) /\ Without(outgoing, "HELLO")
        /\ Without(outgoing, "OPEN_DOCUMENT")
    <3>1. FromSession \subseteq Upward
      BY DEF Upward
    <3>2. \A i \in DOMAIN outgoing : outgoing[i] \in FromSession
      BY <1>1
    <3>3. outgoing \in Seq(Upward)
      BY <1>1, <3>1, SeqMonotonic
    <3> QED  BY <3>2, <3>3 DEF FromSession, Without
  <2>3. /\ Tokens' /\ posted' \in Seq(Handler)
        /\ Has(posted', Through') <=> Has(posted, Through)
        /\ async' \subseteq [op : SocketOp, of : Nat]
    BY <1>1, <1>2, <1>3, <1>5, <2>1, <2>2, SentTokens DEF Send
  <2>4. ASSUME NEW k \in Connection, k = generation
        PROVE  /\ WellFormed(queued[k] \o outgoing) /\ queued[k] \o outgoing # <<>>
               /\ state' \in {"REGISTERING", "REGISTERED"} =>
                     Without(queued[k] \o outgoing, "OPEN_DOCUMENT")
    <3>1. /\ WellFormed(queued[k]) /\ queued[k] # <<>> /\ queued[k] \in Seq(Upward)
          /\ state' \in {"REGISTERING", "REGISTERED"} => Without(queued[k], "OPEN_DOCUMENT")
      BY <1>1, <1>2, <2>1, <2>4 DEF LinkInv, Written, LinkTyping
    <3> QED  BY <2>2, <3>1, WellFormedLonger
  <2>5. /\ \A k \in Connection : Written(k)'
        /\ write_queue' \in Seq(Upward) /\ queued' \in [Connection -> Seq(Upward)]
    BY <1>2, <1>5, <2>1, <2>2, <2>3, <2>4, SentWritten
  <2>6. LinkTyping'
    BY <1>1, <1>2, <2>3, <2>5 DEF LinkTyping
  <2> QED  BY <2>3, <2>5, <2>6 DEF LinkInv
<1> QED  BY <1>4, <1>5 DEF ProcessOutgoing

\* The one message that opens the document.
LEMMA WellFormedOpened ==
    ASSUME NEW q \in Seq(Upward), q # <<>>, WellFormed(q), Without(q, "OPEN_DOCUMENT")
    PROVE  WellFormed(q \o <<"OPEN_DOCUMENT">>) /\ q \o <<"OPEN_DOCUMENT">> # <<>>
<1> DEFINE p == q \o <<"OPEN_DOCUMENT">>
<1>1. /\ DOMAIN q = 1..Len(q) /\ Len(q) \in Nat \ {0}
      /\ DOMAIN p = 1..Len(q) + 1 /\ p # <<>>
      /\ \A i \in 1..Len(q) : p[i] = q[i]
      /\ p[Len(q) + 1] = "OPEN_DOCUMENT"
  OBVIOUS
<1> HIDE DEF p
<1>2. \A i \in 1..Len(q) + 1 : i \in 1..Len(q) \/ i = Len(q) + 1
  BY <1>1
<1>3. \A i \in DOMAIN p : p[i] = "HELLO" <=> i = 1
  BY <1>1, <1>2 DEF WellFormed
<1>4. \A i \in DOMAIN p : p[i] = "OPEN_DOCUMENT" => i = Len(q) + 1
  BY <1>1, <1>2 DEF Without
<1>5. WellFormed(p) /\ p # <<>>
  BY <1>1, <1>3, <1>4 DEF WellFormed
<1> QED  BY <1>5 DEF p

LEMMA OpenDocumentStep ==
    ASSUME LinkInv, posted # <<>>, Head(posted).h = "send_open_document_impl",
           OpenDocumentImpl
    PROVE  LinkInv'
<1>1. CASE state # "REGISTERED" /\ Ignore
  BY <1>1, IgnoreStep DEF SocketOp
<1>2. CASE /\ state = "REGISTERED" /\ state' = "SYNCING"
           /\ Send(<<"OPEN_DOCUMENT">>)
           /\ async' = async \cup Writer(<<"OPEN_DOCUMENT">>)
           /\ Then(<<>>)
           /\ UNCHANGED <<generation, socket_open, session, network, spent>>
  <2> DEFINE ms == <<"OPEN_DOCUMENT">>
  <2>1. LinkTyping /\ Tokens
    BY DEF LinkInv
  <2>2. /\ UNCHANGED <<generation, socket_open, outgoing, peer, upstream, downstream,
                       received>>
        /\ IsUp /\ IsUp' /\ ms \in Seq(Upward)
    BY <1>2 DEF network, session, IsUp, Upward
  <2>3. Head(posted).h \notin SocketOp /\ Head(posted) \notin Hangups
    BY DEF SocketOp, Hangups
  <2>4. write_queue' = write_queue \o ms /\ async' = async \cup Writer(ms) /\ Send(ms)
    BY <1>2 DEF Send
  <2>5. ASSUME NEW k \in Connection, k = generation
        PROVE  /\ WellFormed(queued[k] \o ms) /\ queued[k] \o ms # <<>>
               /\ state' \in {"REGISTERING", "REGISTERED"} =>
                     Without(queued[k] \o ms, "OPEN_DOCUMENT")
    <3>1. /\ WellFormed(queued[k]) /\ queued[k] # <<>> /\ queued[k] \in Seq(Upward)
          /\ Without(queued[k], "OPEN_DOCUMENT")
      BY <1>2, <2>1, <2>2, <2>5 DEF LinkInv, Written, LinkTyping
    <3> QED  BY <1>2, <3>1, WellFormedOpened
  <2> HIDE DEF ms
  <2>6. /\ Tokens' /\ posted' \in Seq(Handler)
        /\ Has(posted', Through') <=> Has(posted, Through)
        /\ async' \subseteq [op : SocketOp, of : Nat]
    BY <1>2, <2>1, <2>2, <2>3, <2>4, SentTokens
  <2>7. /\ \A k \in Connection : Written(k)'
        /\ write_queue' \in Seq(Upward) /\ queued' \in [Connection -> Seq(Upward)]
    BY <2>2, <2>4, <2>5, <2>6, SentWritten
  <2>8. LinkTyping'
    BY <1>2, <2>1, <2>2, <2>6, <2>7 DEF LinkTyping
  <2> QED  BY <2>6, <2>7, <2>8 DEF LinkInv
<1> QED  BY <1>1, <1>2 DEF OpenDocumentImpl

-----------------------------------------------------------------------------
(***************************************************************************)
(* The completions of the present connection.                              *)
(***************************************************************************)
LEMMA CompletionAtHead ==
    ASSUME LinkTyping, Tokens, posted # <<>>, NEW op \in SocketOp,
           Head(posted).h = op, Head(posted).of = generation
    PROVE  /\ Head(posted) \in Current(op) /\ Head(posted) \notin Hangups
           /\ Token(op) /\ Started(op) \notin async
           /\ \A p \in SocketOp : p # op => Head(posted) \notin Current(p)
           /\ Head(posted) \in Through <=> op = "write" /\ Head(posted).ok
<1>1. posted \in Seq(Handler) /\ Head(posted) \in Handler
  BY DEF LinkTyping
<1>2. /\ Head(posted) \in Current(op) /\ Head(posted) \notin Hangups
      /\ \A p \in SocketOp : p # op => Head(posted) \notin Current(p)
      /\ Head(posted) \in Through <=> op = "write" /\ Head(posted).ok
  BY <1>1 DEF Current, Hangups, SocketOp, Through
<1>3. Has(posted, Current(op))
  BY <1>1, <1>2, HasFirst
<1>4. Token(op) /\ Started(op) \notin async
  BY <1>3 DEF Token, Tokens, OneToken
<1> QED  BY <1>2, <1>4

LEMMA AfterResolveStep ==
    ASSUME LinkInv, posted # <<>>, Head(posted).h = "resolve",
           Head(posted).of = generation, NEW ok, AfterResolve(ok)
    PROVE  LinkInv'
<1>1. LinkTyping /\ Tokens
  BY DEF LinkInv
<1>2. /\ UNCHANGED <<generation, socket_open, write_queue, outgoing>>
      /\ UNCHANGED <<peer, upstream, downstream, received, queued>>
      /\ Then(<<>>)
  BY DEF AfterResolve, session, network
<1>3. /\ posted' \in Seq(Handler) /\ Head(posted) \in Handler /\ ~Has(posted', Newer')
      /\ \A op \in SocketOp :
            /\ Once(posted', Current(op)') /\ Started(op)' = Started(op)
            /\ Has(posted', Current(op)') <=>
                  Has(posted, Current(op)) /\ Head(posted) \notin Current(op)
      /\ Has(posted', Through') <=> Has(posted, Through) /\ Head(posted) \notin Through
  BY <1>1, <1>2, RanQuietly
<1>4. /\ Head(posted) \in Current("resolve")
      /\ Token("resolve") /\ Started("resolve") \notin async
      /\ \A p \in SocketOp : p # "resolve" => Head(posted) \notin Current(p)
      /\ Head(posted) \notin Through
  BY <1>1, CompletionAtHead, AllTokens
<1>5. /\ state = "CONNECTING" /\ socket_open /\ write_queue = <<>>
      /\ ~Token("connect") /\ ~Token("read") /\ ~Token("write")
  BY <1>1, <1>4, AllTokens DEF Tokens, Phases, Generations, IsUp, LinkTyping
<1>6. CASE state' = "DISCONNECTED" /\ UNCHANGED async
  <2>1. \A op \in SocketOp : OneToken(op)' /\ ~Token(op)'
    BY <1>1, <1>3, <1>4, <1>5, <1>6, AllTokens DEF OneToken, Token, Tokens
  <2>2. Generations'
    BY <1>1, <1>2, <1>3, <1>6 DEF Generations, Tokens
  <2>3. Phases'
    BY <1>2, <1>5, <1>6, <2>1, AllTokens DEF Phases, IsUp
  <2>4. LinkTyping'
    BY <1>1, <1>2, <1>3, <1>6 DEF LinkTyping
  <2>5. \A k \in Connection : Written(k)'
    <3>1. Unwritten' = Unwritten
      BY <1>2, <1>3, <1>4 DEF Unwritten
    <3> QED  BY <1>2, <1>6, <3>1, WrittenKept DEF IsUp, LinkInv
  <2> QED  BY <2>1, <2>2, <2>3, <2>4, <2>5 DEF LinkInv, Tokens
<1>7. CASE async' = async \cup {Started("connect")} /\ UNCHANGED state
  <2>1. /\ generation \in Nat /\ Started("connect") \in [op : SocketOp, of : Nat]
        /\ \A op \in SocketOp : op # "connect" => Started(op) # Started("connect")
        /\ Started("connect").of = generation
    BY <1>1, AllTokens DEF LinkTyping, Started
  <2>2. ASSUME NEW op \in SocketOp
        PROVE  /\ OneToken(op)'
               /\ op # "connect" => (Token(op)' => Token(op))
               /\ ~Token("resolve")'
    BY <1>1, <1>3, <1>4, <1>5, <1>7, <2>1, AllTokens DEF OneToken, Token, Tokens
  <2>3. Generations'
    BY <1>1, <1>2, <1>3, <1>5, <1>7, <2>1 DEF Generations, Tokens
  <2>4. Phases'
    BY <1>2, <1>5, <1>7, <2>2, AllTokens DEF Phases, IsUp
  <2>5. LinkTyping'
    BY <1>1, <1>2, <1>3, <1>7, <2>1 DEF LinkTyping
  <2>6. \A k \in Connection : Written(k)'
    <3>1. Unwritten' = Unwritten
      BY <1>2, <1>3, <1>4 DEF Unwritten
    <3> QED  BY <1>2, <1>7, <3>1, WrittenKept DEF IsUp, LinkInv
  <2> QED  BY <2>2, <2>3, <2>4, <2>5, <2>6 DEF LinkInv, Tokens
<1> QED  BY <1>6, <1>7 DEF AfterResolve, Resolved

\* HELLO, and the first read.
LEMMA ConnectedStep ==
    ASSUME LinkInv, posted # <<>>, Head(posted).h = "connect",
           Head(posted).of = generation, state' = "REGISTERING", Send(<<"HELLO">>),
           async' = async \cup Writer(<<"HELLO">>) \cup {Started("read")}, Then(<<>>),
           UNCHANGED <<generation, socket_open, session, network>>
    PROVE  LinkInv'
<1> DEFINE ms == <<"HELLO">>
<1>1. LinkTyping /\ Tokens
  BY DEF LinkInv
<1>2. UNCHANGED <<outgoing, peer, upstream, downstream, received>>
  BY DEF session, network
<1>3. /\ posted' \in Seq(Handler) /\ Head(posted) \in Handler /\ ~Has(posted', Newer')
      /\ \A op \in SocketOp :
            /\ Once(posted', Current(op)') /\ Started(op)' = Started(op)
            /\ Has(posted', Current(op)') <=>
                  Has(posted, Current(op)) /\ Head(posted) \notin Current(op)
      /\ Has(posted', Through') <=> Has(posted, Through) /\ Head(posted) \notin Through
  BY <1>1, RanQuietly
<1>4. /\ Head(posted) \in Current("connect")
      /\ Token("connect") /\ Started("connect") \notin async
      /\ \A p \in SocketOp : p # "connect" => Head(posted) \notin Current(p)
      /\ Head(posted) \notin Through
  BY <1>1, CompletionAtHead, AllTokens
<1>5. /\ state = "CONNECTING" /\ socket_open /\ write_queue = <<>>
      /\ ~Token("resolve") /\ ~Token("read") /\ ~Token("write")
  BY <1>1, <1>4, AllTokens DEF Tokens, Phases, Generations, IsUp, LinkTyping
<1>6. async' = async \cup {Started("write"), Started("read")}
  BY <1>5 DEF Writer
<1>7. /\ generation \in Nat
      /\ {Started("write"), Started("read")} \subseteq [op : SocketOp, of : Nat]
      /\ \A op \in SocketOp : op \notin {"read", "write"} =>
            Started(op) # Started("read") /\ Started(op) # Started("write")
      /\ Started("read").of = generation /\ Started("write").of = generation
  BY <1>1, AllTokens DEF LinkTyping, Started
<1>8. ms \in Seq(Upward) /\ WellFormed(ms) /\ Without(ms, "OPEN_DOCUMENT") /\ ms # <<>>
  BY DEF Upward, WellFormed, Without
<1>9. /\ \A k \in Connection : k = generation => queued[k] = <<>>
      /\ \A p \in Seq(Upward) : <<>> \o p = p
  BY <1>5, Joining DEF LinkInv, Written
<1>10. \A k \in Connection : k = generation => queued[k] \o ms = ms
  BY <1>8, <1>9
<1>11. write_queue' = ms /\ Send(ms)
  BY <1>5, <1>8, <1>9 DEF Send
<1> HIDE DEF ms
<1>12. /\ \A k \in Connection : Written(k)'
       /\ write_queue' \in Seq(Upward) /\ queued' \in [Connection -> Seq(Upward)]
  <2>1. Has(posted', Through') <=> Has(posted, Through)
    BY <1>3, <1>4
  <2> QED  BY <1>2, <1>5, <1>8, <1>10, <1>11, <2>1, SentWritten DEF IsUp
<1>13. LinkTyping'
  BY <1>1, <1>2, <1>3, <1>6, <1>7, <1>12 DEF LinkTyping
<1>14. ASSUME NEW op \in SocketOp
       PROVE  /\ OneToken(op)'
              /\ op \notin {"read", "write"} => ~Token(op)'
              /\ Token("read")' /\ Token("write")'
  <2>2. ~Has(posted', Current(op)')
    BY <1>1, <1>3, <1>4, <1>5, AllTokens DEF Token
  <2>3. Started(op)' \in async' <=> op \in {"read", "write"}
    BY <1>3, <1>4, <1>5, <1>6, <1>7, AllTokens DEF Token
  <2>4. OneToken(op)'
    BY <1>3, <2>2 DEF OneToken
  <2>5. Token("read")' /\ Token("write")'
    BY <1>3, <1>6, AllTokens DEF Token
  <2> QED  BY <2>2, <2>3, <2>4, <2>5 DEF Token
<1>15. Generations'
  BY <1>1, <1>3, <1>5, <1>6, <1>7 DEF Generations, Tokens
<1>16. Phases'
  <2>1. \A op \in SocketOp : op \notin {"read", "write"} => ~Token(op)'
    BY <1>14
  <2>2. Token("read")' /\ Token("write")'
    BY <1>14, AllTokens
  <2>3. ~Token("resolve")' /\ ~Token("connect")'
    BY <2>1, AllTokens
  <2> QED  BY <1>8, <1>11, <2>2, <2>3 DEF Phases, IsUp
<1> QED  BY <1>12, <1>13, <1>14, <1>15, <1>16 DEF LinkInv, Tokens

LEMMA AfterReadStep ==
    ASSUME LinkInv, posted # <<>>, Head(posted).h = "read",
           Head(posted).of = generation, AfterRead(Head(posted)),
           UNCHANGED <<network, queued, spent>>
    PROVE  LinkInv'
<1>1. LinkTyping /\ Tokens
  BY DEF LinkInv
<1>2. UNCHANGED <<generation, socket_open, write_queue, outgoing, peer, upstream,
                  downstream, received, queued>>
  BY DEF AfterRead, client, session, network
<1>3. Disconnect(generation) \in Hangups /\ generation \in Nat
      /\ [h |-> "send_open_document_impl"] \in Handler
      /\ Disconnect(generation) \in Handler
  BY <1>1, NewHandlers DEF LinkTyping, Disconnect, Hangups
<1>4. PICK r \in Seq(Handler) :
         /\ posted' = Tail(posted) \o r
         /\ \A i \in DOMAIN r : r[i].h \notin SocketOp
         /\ Has(r, Hangups) \/ async' = async \cup {Started("read")}
         /\ async' = async \/ async' = async \cup {Started("read")}
         /\ state' = state \/ (state = "REGISTERING" /\ state' = "REGISTERED")
  <2> DEFINE hangup == <<Disconnect(generation)>>
             open == <<[h |-> "send_open_document_impl"]>>
  <2>1. /\ hangup \in Seq(Handler) /\ open \in Seq(Handler) /\ <<>> \in Seq(Handler)
        /\ Has(hangup, Hangups)
    BY <1>3 DEF Has
  <2>2. /\ \A i \in DOMAIN hangup : hangup[i].h \notin SocketOp
        /\ \A i \in DOMAIN open : open[i].h \notin SocketOp
        /\ \A i \in DOMAIN <<>> : <<>>[i].h \notin SocketOp
    BY DEF Disconnect, SocketOp
  <2> HIDE DEF hangup, open
  <2>3. CASE ~Head(posted).ok
    <3>1. posted' = Tail(posted) \o hangup /\ UNCHANGED <<async, state>>
      BY <2>3 DEF AfterRead, Then, client, hangup
    <3> QED  BY <2>1, <2>2, <3>1
  <2>4. CASE Head(posted).ok
    <3>1. /\ HandleMessage(Head(posted).message) /\ async' = async \cup {Started("read")}
      BY <2>4 DEF AfterRead
    <3>2. /\ \/ posted' = Tail(posted) \o hangup \/ posted' = Tail(posted) \o open
             \/ posted' = Tail(posted) \o <<>>
          /\ state' = state \/ (state = "REGISTERING" /\ state' = "REGISTERED")
      BY <3>1 DEF HandleMessage, Expected, Then, hangup, open
    <3> QED  BY <2>1, <2>2, <3>1, <3>2
  <2> QED  BY <2>3, <2>4
<1>5. /\ posted' \in Seq(Handler) /\ Head(posted) \in Handler /\ ~Has(posted', Newer')
      /\ \A op \in SocketOp :
            /\ Once(posted', Current(op)') /\ Started(op)' = Started(op)
            /\ Has(posted', Current(op)') <=>
                  Has(posted, Current(op)) /\ Head(posted) \notin Current(op)
      /\ Has(posted', Through') <=> Has(posted, Through) /\ Head(posted) \notin Through
      /\ Has(r, Hangups) \/ (Has(posted, Hangups) /\ Head(posted) \notin Hangups) =>
            Has(posted', Hangups)
  BY <1>1, <1>2, <1>4, RanTokens
<1>6. /\ Head(posted) \in Current("read") /\ Head(posted) \notin Hangups
      /\ Token("read") /\ Started("read") \notin async
      /\ \A p \in SocketOp : p # "read" => Head(posted) \notin Current(p)
      /\ Head(posted) \notin Through
  BY <1>1, CompletionAtHead, AllTokens
<1>7. IsUp /\ IsUp' /\ socket_open /\ ~Token("resolve") /\ ~Token("connect")
  <2>1. IsUp
    BY <1>1, <1>6, AllTokens DEF Tokens, Phases, IsUp, LinkTyping
  <2> QED  BY <1>1, <1>4, <2>1, AllTokens DEF Tokens, Phases, Generations, IsUp
<1>8. /\ Started("read") \in [op : SocketOp, of : Nat] /\ Started("read").of = generation
      /\ \A op \in SocketOp : op # "read" => Started(op) # Started("read")
  BY <1>3, AllTokens DEF Started
<1>9. LinkTyping'
  BY <1>1, <1>2, <1>4, <1>5, <1>8 DEF LinkTyping
<1>10. ASSUME NEW op \in SocketOp
       PROVE  /\ OneToken(op)'
              /\ op # "read" => (Token(op)' <=> Token(op))
              /\ Token("read")' \/ Has(posted', Hangups)
  <2>1. OneToken(op)
    BY <1>1 DEF Tokens
  <2>2. OneToken(op)'
    BY <1>4, <1>5, <1>6, <1>8, <2>1 DEF OneToken
  <2>3. op # "read" => (Token(op)' <=> Token(op))
    BY <1>4, <1>5, <1>6, <1>8 DEF Token
  <2>4. Token("read")' \/ Has(posted', Hangups)
    BY <1>4, <1>5, AllTokens DEF Token
  <2> QED  BY <2>2, <2>3, <2>4
<1>11. Generations'
  BY <1>1, <1>2, <1>4, <1>5, <1>7, <1>8 DEF Generations, Tokens
<1>12. Phases'
  <2>1. Hangups' = Hangups
    BY DEF Hangups
  <2>2. /\ ~Token("resolve")' /\ ~Token("connect")' /\ (Token("write")' <=> Token("write"))
        /\ Token("read")' \/ Has(posted', Hangups)
    BY <1>7, <1>10, AllTokens
  <2>3. state' # "DISCONNECTED" /\ state' # "CONNECTING"
    BY <1>7 DEF IsUp
  <2>4. Has(posted, Hangups) => Has(posted', Hangups)
    BY <1>5, <1>6
  <2> QED  BY <1>1, <1>2, <1>7, <2>1, <2>2, <2>3, <2>4 DEF Phases, Tokens
<1>13. \A k \in Connection : Written(k)'
  <2>1. Unwritten' = Unwritten
    BY <1>2, <1>5, <1>6 DEF Unwritten
  <2> QED  BY <1>2, <1>4, <1>7, <2>1, WrittenKept DEF IsUp, LinkInv
<1> QED  BY <1>9, <1>10, <1>11, <1>12, <1>13 DEF LinkInv, Tokens

\* A write that failed leaves the queue alone; one that succeeded takes its
\* message off and starts the next.
LEMMA AfterWriteStep ==
    ASSUME LinkInv, posted # <<>>, Head(posted).h = "write",
           Head(posted).of = generation, AfterWrite(Head(posted).ok),
           UNCHANGED <<network, queued, spent>>
    PROVE  LinkInv'
<1>1. LinkTyping /\ Tokens
  BY DEF LinkInv
<1>2. UNCHANGED <<state, generation, socket_open, outgoing, peer, upstream,
                  downstream, received, queued>>
  BY DEF AfterWrite, session, network
<1>3. /\ Head(posted) \in Current("write") /\ Head(posted) \notin Hangups
      /\ Token("write") /\ Started("write") \notin async
      /\ \A p \in SocketOp : p # "write" => Head(posted) \notin Current(p)
      /\ Head(posted) \in Through <=> Head(posted).ok
  BY <1>1, CompletionAtHead, AllTokens
<1>4. /\ write_queue # <<>> /\ IsUp /\ IsUp' /\ socket_open
      /\ ~Token("resolve") /\ ~Token("connect")
      /\ state' # "DISCONNECTED" /\ state' # "CONNECTING"
  BY <1>1, <1>2, <1>3 DEF Tokens, Phases, Generations, IsUp
<1>5. /\ generation \in Nat /\ Started("write") \in [op : SocketOp, of : Nat]
      /\ Started("write").of = generation
      /\ \A op \in SocketOp : op # "write" => Started(op) # Started("write")
  BY <1>1, AllTokens DEF LinkTyping, Started
<1>6. /\ write_queue \in Seq(Upward) /\ Tail(write_queue) \in Seq(Upward)
      /\ Tail(write_queue) # <<>> <=> Len(write_queue) > 1
  <2>1. write_queue \in Seq(Upward)
    BY <1>1 DEF LinkTyping
  <2>2. /\ Tail(write_queue) \in Seq(Upward)
        /\ Len(Tail(write_queue)) = Len(write_queue) - 1 /\ Len(write_queue) \in Nat
    BY <1>4, <2>1, HeadTailProperties
  <2>3. Tail(write_queue) = <<>> <=> Len(Tail(write_queue)) = 0
    BY <2>2, EmptySeq
  <2> QED  BY <1>4, <2>1, <2>2, <2>3, EmptySeq
<1>7. PICK r \in Seq(Handler) :
         /\ posted' = Tail(posted) \o r
         /\ \A i \in DOMAIN r : r[i].h \notin SocketOp
         /\ \/ /\ Has(r, Hangups) /\ ~Head(posted).ok
               /\ UNCHANGED <<write_queue, async>>
            \/ /\ Head(posted).ok /\ write_queue' = Tail(write_queue)
               /\ write_queue' # <<>> /\ async' = async \cup {Started("write")}
            \/ /\ Head(posted).ok /\ write_queue' = Tail(write_queue)
               /\ write_queue' = <<>> /\ async' = async
  <2> DEFINE hangup == <<Disconnect(generation)>>
  <2>1. hangup \in Seq(Handler) /\ Has(hangup, Hangups)
        /\ \A i \in DOMAIN hangup : hangup[i].h \notin SocketOp
    <3>1. Disconnect(generation) \in Hangups /\ Disconnect(generation) \in Handler
      BY <1>5, NewHandlers DEF Disconnect, Hangups
    <3> QED  BY <3>1 DEF Has, Disconnect, SocketOp
  <2>2. <<>> \in Seq(Handler) /\ \A i \in DOMAIN <<>> : <<>>[i].h \notin SocketOp
    OBVIOUS
  <2> HIDE DEF hangup
  <2>3. \/ /\ ~Head(posted).ok /\ posted' = Tail(posted) \o hangup
           /\ UNCHANGED <<write_queue, async>>
        \/ /\ Head(posted).ok /\ posted' = Tail(posted) \o <<>>
           /\ write_queue' = Tail(write_queue)
           /\ async' = IF Len(write_queue) > 1
                       THEN async \cup {Started("write")} ELSE async
    BY DEF AfterWrite, Then, hangup
  <2> QED  BY <1>6, <2>1, <2>2, <2>3
<1>8. /\ posted' \in Seq(Handler) /\ Head(posted) \in Handler /\ ~Has(posted', Newer')
      /\ \A op \in SocketOp :
            /\ Once(posted', Current(op)') /\ Started(op)' = Started(op)
            /\ Has(posted', Current(op)') <=>
                  Has(posted, Current(op)) /\ Head(posted) \notin Current(op)
      /\ Has(posted', Through') <=> Has(posted, Through) /\ Head(posted) \notin Through
      /\ Has(r, Hangups) \/ (Has(posted, Hangups) /\ Head(posted) \notin Hangups) =>
            Has(posted', Hangups)
  BY <1>1, <1>2, <1>7, RanTokens
<1>9. LinkTyping'
  BY <1>1, <1>2, <1>5, <1>6, <1>7, <1>8 DEF LinkTyping
<1>10. ASSUME NEW op \in SocketOp
       PROVE  /\ OneToken(op)'
              /\ op # "write" => (Token(op)' <=> Token(op))
              /\ Token("write")' <=> Started("write") \in async'
  <2>1. OneToken(op)
    BY <1>1 DEF Tokens
  <2>2. OneToken(op)'
    BY <1>3, <1>5, <1>7, <1>8, <2>1 DEF OneToken
  <2>3. op # "write" => (Token(op)' <=> Token(op))
    BY <1>3, <1>5, <1>7, <1>8 DEF Token
  <2>4. Token("write")' <=> Started("write") \in async'
    BY <1>3, <1>8, AllTokens DEF Token
  <2> QED  BY <2>2, <2>3, <2>4
<1>11. Generations'
  BY <1>1, <1>2, <1>4, <1>5, <1>7, <1>8 DEF Generations, Tokens
<1>12. Phases'
  <2>1. Hangups' = Hangups
    BY DEF Hangups
  <2>2. /\ ~Token("resolve")' /\ ~Token("connect")' /\ (Token("read")' <=> Token("read"))
        /\ Token("write")' <=> Started("write") \in async'
    BY <1>4, <1>10, AllTokens
  <2>3. Has(posted, Hangups) => Has(posted', Hangups)
    BY <1>3, <1>8
  <2>4. Token("read")' \/ Has(posted', Hangups)
    BY <1>1, <1>4, <2>2, <2>3 DEF Phases, Tokens
  <2>5. /\ Started("write") \in async' => write_queue' # <<>>
        /\ write_queue' # <<>> => Started("write") \in async' \/ Has(posted', Hangups)
    BY <1>3, <1>7, <1>8
  <2> QED  BY <1>4, <2>1, <2>2, <2>4, <2>5 DEF Phases
<1>13. \A k \in Connection : Written(k)'
  <2>1. Has(posted, Through) <=> Head(posted).ok
    <3>1. posted \in Seq(Handler) /\ Once(posted, Current("write"))
      BY <1>1, AllTokens DEF LinkTyping, Tokens, OneToken
    <3>2. Has(posted, Through) <=> Head(posted) \in Through \/ Has(Tail(posted), Through)
      BY <3>1, HasFirst
    <3>3. ~Has(Tail(posted), Current("write"))
      BY <1>3, <3>1, HasFirst
    <3>4. ~Has(Tail(posted), Through)
      BY <3>3 DEF Has, Through
    <3> QED  BY <1>3, <3>2, <3>4
  <2>2. Unwritten' = Unwritten
    BY <1>3, <1>7, <1>8, <2>1 DEF Unwritten
  <2> QED  BY <1>2, <1>4, <2>2, WrittenKept DEF IsUp, LinkInv
<1> QED  BY <1>9, <1>10, <1>11, <1>12, <1>13 DEF LinkInv, Tokens

-----------------------------------------------------------------------------
(***************************************************************************)
(* A connection ends: its generation is over, and nothing is under way in  *)
(* the next one.                                                           *)
(***************************************************************************)
LEMMA SequenceOfSet ==
    ASSUME NEW S, IsFiniteSet(S)
    PROVE  SetToSeq(S) \in Seq(S)
<1>1. Cardinality(S) \in Nat /\ ExistsBijection(1..Cardinality(S), S)
  BY FS_CardinalityType
<1>2. \E f \in [1..Cardinality(S) -> S] : IsInjective(f)
  <2>1. PICK f \in Bijection(1..Cardinality(S), S) : TRUE
    BY <1>1 DEF ExistsBijection
  <2>2. f \in [1..Cardinality(S) -> S] /\ IsInjective(f)
    BY <2>1 DEF Bijection, Injection, IsInjective
  <2> QED  BY <2>2
<1>3. SetToSeq(S) \in [1..Cardinality(S) -> S]
  BY <1>2 DEF SetToSeq
<1> QED  BY <1>1, <1>3

\* Cancelling leaves behind completions of what was under way.
LEMMA AbortedHandlers ==
    ASSUME LinkTyping, Tokens
    PROVE  /\ Aborted \in Seq(Handler)
           /\ \A i \in DOMAIN Aborted : /\ Aborted[i].h \in SocketOp
                                        /\ Aborted[i].of <= generation
                                        /\ ~Aborted[i].ok
<1> DEFINE Of(op) == SetToSeq({a \in async : a.op = op})
           ops    == (Of("read") \o Of("connect")) \o Of("write")
<1>1. ASSUME NEW op \in SocketOp, op # "resolve" PROVE Of(op) \in Seq(async)
  <2>1. {a \in async : a.op = op} \subseteq {Started(op)}
    BY <1>1 DEF LinkTyping, Tokens, Generations, Started
  <2>2. IsFiniteSet({a \in async : a.op = op})
    BY <2>1, FS_Singleton, FS_Subset
  <2>3. Of(op) \in Seq({a \in async : a.op = op})
    BY <2>2, SequenceOfSet
  <2> HIDE DEF Of
  <2> QED  BY <2>3, SeqMonotonic
<1> HIDE DEF Of
<1>2. ops \in Seq(async)
  <2>1. Of("read") \in Seq(async) /\ Of("connect") \in Seq(async) /\ Of("write") \in Seq(async)
    BY <1>1, AllTokens
  <2> QED  BY <2>1, ConcatProperties
<1>3. Aborted = [i \in DOMAIN ops |-> [h |-> ops[i].op, of |-> ops[i].of, ok |-> FALSE]]
  BY DEF Aborted, Of
<1> HIDE DEF ops
<1>4. \A i \in DOMAIN ops : /\ ops[i].op \in SocketOp /\ ops[i].of \in Nat
                            /\ ops[i].of <= generation
  BY <1>2 DEF LinkTyping, Tokens, Generations
<1>5. \A i \in DOMAIN ops : [h |-> ops[i].op, of |-> ops[i].of, ok |-> FALSE] \in Handler
  BY <1>4, NewHandlers
<1>6. DOMAIN ops = 1..Len(ops) /\ Len(ops) \in Nat
  BY <1>2
<1>7. Aborted \in Seq(Handler)
  BY <1>3, <1>5, <1>6
<1> QED  BY <1>3, <1>4, <1>7

LEMMA ClosingStep ==
    ASSUME LinkInv, posted # <<>>, state # "DISCONNECTED", state' = "DISCONNECTED",
           generation' = generation + 1, CloseSocket, write_queue' = <<>>, Then(Aborted),
           UNCHANGED <<session, peer, downstream, received, queued>>
    PROVE  LinkInv'
<1>1. LinkTyping /\ Tokens /\ generation \in Nat /\ outgoing' = outgoing
      /\ UNCHANGED <<peer, downstream, received, queued>>
  BY DEF LinkInv, LinkTyping, session
<1>2. /\ Aborted \in Seq(Handler)
      /\ \A i \in DOMAIN Aborted : /\ Aborted[i].h \in SocketOp
                                   /\ Aborted[i].of <= generation
                                   /\ ~Aborted[i].ok
  BY <1>1, AbortedHandlers
<1>3. /\ posted' \in Seq(Handler)
      /\ \A H : ~Has(Aborted, H) => (Has(posted', H) => Has(posted, H))
  BY <1>1, <1>2, RanOne DEF Then
<1>4. /\ Newer' \subseteq Newer /\ ~Has(Aborted, Newer)
      /\ \A op \in SocketOp : Current(op)' \subseteq Newer
  <2>1. \A h \in Handler : h.h \in SocketOp => h.of \in Nat
    BY Handlers
  <2>2. Newer' = {h \in Handler : h.h \in SocketOp /\ h.of > generation'}
    BY DEF Newer
  <2>3. Newer' \subseteq Newer
    BY <1>1, <2>1, <2>2 DEF Newer
  <2>4. ~Has(Aborted, Newer)
    BY <1>1, <1>2, <2>1 DEF Newer, Has
  <2>5. ASSUME NEW op \in SocketOp PROVE Current(op)' \subseteq Newer
    <3>1. Current(op)' = {h \in Handler : h.h = op /\ h.of = generation'}
      BY DEF Current
    <3> QED  BY <1>1, <3>1 DEF Newer
  <2> QED  BY <2>3, <2>4, <2>5
<1>5. ~Has(posted', Newer)
  BY <1>1, <1>3, <1>4 DEF Tokens, Generations
<1>6. /\ ~Has(posted', Newer')
      /\ \A op \in SocketOp : ~Has(posted', Current(op)')
  BY <1>4, <1>5 DEF Has
<1>7. async' \subseteq async /\ \A a \in async' : a.op = "resolve" /\ a.of <= generation
  BY <1>1 DEF CloseSocket, Tokens, Generations
<1>8. \A op \in SocketOp : OneToken(op)' /\ ~Token(op)'
  <2>1. \A op \in SocketOp : Started(op)'.of = generation + 1
    BY DEF Started
  <2> QED  BY <1>1, <1>6, <1>7, <2>1 DEF OneToken, Token, Once, Has
<1>9. Generations'
  BY <1>1, <1>6, <1>7 DEF Generations, LinkTyping
<1>10. Phases'
  BY <1>8, AllTokens DEF Phases, IsUp
<1>11. ASSUME NEW k \in Connection
       PROVE  /\ upstream'[k] \in Seq(Upward)
              /\ Begins(Stream(k)', queued[k])
              /\ peer[k] = "DISCONNECTED" => upstream'[k] = <<>>
  <2>1. Written(k)
    BY DEF LinkInv
  <2>2. /\ received[k] \in Seq(Upward) /\ upstream[k] \in Seq(Upward)
        /\ Stream(k) \in Seq(Upward) /\ upstream \in [Connection -> Seq(Upward)]
    BY <1>1, Streaming DEF LinkTyping
  <2>3. CASE upstream'[k] = upstream[k]
    BY <1>1, <2>1, <2>2, <2>3 DEF Written, Stream
  <2>4. CASE /\ k = generation /\ Started("write") \in async
             /\ peer[generation] # "DISCONNECTED"
             /\ upstream' = [upstream EXCEPT ![generation] = Append(@, Head(write_queue))]
    <3>1. Token("write") /\ ~Has(posted, Current("write"))
      BY <1>1, <2>4, AllTokens DEF Tokens, OneToken, Token
    <3>2. write_queue # <<>> /\ IsUp /\ Unwritten = write_queue
      BY <1>1, <3>1 DEF Tokens, Phases, Unwritten, Has, Through
    <3>3. /\ Head(write_queue) \in Upward /\ Tail(write_queue) \in Seq(Upward)
          /\ write_queue \in Seq(Upward)
      BY <1>1, <3>2 DEF LinkTyping
    <3>4. upstream'[k] = Append(upstream[k], Head(write_queue))
      BY <2>2, <2>4
    <3>5. /\ Stream(k)' = Append(Stream(k), Head(write_queue))
          /\ upstream'[k] \in Seq(Upward)
      <4>1. \A p, q \in Seq(Upward) : \A m \in Upward : p \o Append(q, m) = Append(p \o q, m)
        BY OneAtTheEnd
      <4>2. \A p \in Seq(Upward) : \A m \in Upward : Append(p, m) \in Seq(Upward)
        BY AppendProperties
      <4>3. Stream(k)' = received[k] \o Append(upstream[k], Head(write_queue))
        BY <1>1, <3>4 DEF Stream
      <4> QED  BY <2>2, <3>3, <3>4, <4>1, <4>2, <4>3 DEF Stream
    <3>6. Append(Stream(k), Head(write_queue)) \o Tail(write_queue) = Stream(k) \o write_queue
      BY <2>2, <3>2, <3>3, MoveOne
    <3>7. queued[k] = Stream(k) \o write_queue
      BY <2>1, <2>4, <3>2 DEF Written
    <3> QED  BY <2>4, <3>3, <3>5, <3>6, <3>7 DEF Begins
  <2> QED  BY <2>2, <2>3, <2>4 DEF CloseSocket
<1>12. upstream' \in [Connection -> Seq(Upward)]
  <2>1. upstream \in [Connection -> Seq(Upward)]
    BY <1>1 DEF LinkTyping
  <2>2. upstream' = upstream \/ upstream' = [k \in Connection |-> upstream'[k]]
    BY <2>1 DEF CloseSocket
  <2> QED  BY <1>11, <2>1, <2>2
<1>13. LinkTyping'
  BY <1>1, <1>3, <1>7, <1>12, EmptySeq DEF LinkTyping
<1>14. ASSUME NEW k \in Connection PROVE Written(k)'
  <2>1. generation + 1 < k \/ k = generation + 1 => generation < k
    BY <1>1 DEF Connection
  <2>2. Written(k)
    BY DEF LinkInv
  <2>3. generation' < k => queued[k] = <<>>
    BY <1>1, <2>1, <2>2 DEF Written
  <2> QED  BY <1>1, <1>11, <2>2, <2>3 DEF Written, IsUp
<1> QED  BY <1>8, <1>9, <1>10, <1>13, <1>14 DEF LinkInv, Tokens

LEMMA DisconnectStep ==
    ASSUME LinkInv, posted # <<>>, Head(posted).h = "disconnect_impl", DisconnectImpl
    PROVE  LinkInv'
<1>1. CASE state = "DISCONNECTED" /\ Ignore
  BY <1>1, IgnoreStep DEF SocketOp
<1>2. CASE state # "DISCONNECTED" /\ ~(state = "DISCONNECTED" /\ Ignore)
  BY <1>2, ClosingStep DEF DisconnectImpl
<1> QED  BY <1>1, <1>2 DEF DisconnectImpl

LEMMA AfterConnectStep ==
    ASSUME LinkInv, posted # <<>>, Head(posted).h = "connect",
           Head(posted).of = generation, NEW ok, AfterConnect(ok)
    PROVE  LinkInv'
<1>1. Token("connect") /\ LinkTyping /\ Tokens
  BY CompletionAtHead, AllTokens DEF LinkInv
<1>2. state = "CONNECTING" /\ write_queue = <<>>
  BY <1>1, AllTokens DEF Tokens, Phases, IsUp, LinkTyping
<1>3. CASE /\ state' = "DISCONNECTED" /\ generation' = generation + 1
           /\ CloseSocket /\ Then(Aborted)
           /\ UNCHANGED <<write_queue, session, peer, downstream, received, queued, spent>>
  BY <1>2, <1>3, ClosingStep
<1>4. CASE /\ state' = "REGISTERING" /\ Send(<<"HELLO">>)
           /\ async' = async \cup Writer(<<"HELLO">>) \cup {Started("read")}
           /\ Then(<<>>)
           /\ UNCHANGED <<generation, socket_open, session, network, spent>>
  BY <1>4, ConnectedStep
<1> QED  BY <1>3, <1>4 DEF AfterConnect

LEMMA ConnectingStep ==
    ASSUME LinkInv, posted # <<>>, Head(posted).h = "connect_impl", ConnectImpl
    PROVE  LinkInv'
<1>1. CASE state # "DISCONNECTED" /\ Ignore
  BY <1>1, IgnoreStep DEF SocketOp
<1>2. CASE /\ state = "DISCONNECTED" /\ state' = "CONNECTING"
           /\ generation' = generation + 1 /\ socket_open' = TRUE
           /\ async' = async \cup {[op |-> "resolve", of |-> generation + 1]}
           /\ Then(<<>>)
           /\ UNCHANGED <<write_queue, session, network, queued, spent>>
  <2>1. LinkTyping /\ Tokens /\ generation \in Nat
    BY DEF LinkInv, LinkTyping
  <2>2. UNCHANGED <<outgoing, peer, upstream, downstream, received, queued>>
    BY <1>2 DEF session, network
  <2>3. /\ posted' \in Seq(Handler)
        /\ \A H : Has(posted', H) => Has(posted, H)
    <3>1. posted' = Tail(posted) \o <<>> /\ <<>> \in Seq(Handler) /\ \A H : ~Has(<<>>, H)
      BY <1>2 DEF Then, Has
    <3> QED  BY <2>1, <3>1, RanOne
  <2>4. /\ Newer' \subseteq Newer
        /\ \A op \in SocketOp : Current(op)' \subseteq Newer
    <3>1. \A h \in Handler : h.h \in SocketOp => h.of \in Nat
      BY Handlers
    <3>2. Newer' = {h \in Handler : h.h \in SocketOp /\ h.of > generation'}
      BY DEF Newer
    <3>3. Newer' \subseteq Newer
      BY <1>2, <2>1, <3>1, <3>2 DEF Newer
    <3>4. ASSUME NEW op \in SocketOp PROVE Current(op)' \subseteq Newer
      <4>1. Current(op)' = {h \in Handler : h.h = op /\ h.of = generation'}
        BY DEF Current
      <4> QED  BY <1>2, <2>1, <4>1 DEF Newer
    <3> QED  BY <3>3, <3>4
  <2>5. /\ ~Has(posted', Newer')
        /\ \A op \in SocketOp : ~Has(posted', Current(op)')
    <3>1. ~Has(posted', Newer)
      BY <2>1, <2>3 DEF Tokens, Generations
    <3> QED  BY <2>4, <3>1 DEF Has
  <2>6. /\ \A a \in async : a.op = "resolve" /\ a.of <= generation
        /\ write_queue = <<>>
    <3>1. \A a \in async : /\ a.of <= generation /\ a.op \in SocketOp
                           /\ a.op # "resolve" => a.of = generation
                           /\ a = [op |-> a.op, of |-> a.of]
      BY <2>1 DEF Tokens, Generations, LinkTyping
    <3>2. \A op \in SocketOp : Started(op) \notin async
      BY <1>2, <2>1 DEF Tokens, Phases, Token
    <3>3. \A a \in async : a.op = "resolve"
      BY <3>1, <3>2 DEF Started
    <3> QED  BY <1>2, <2>1, <3>1, <3>3 DEF Tokens, Phases, IsUp
  <2>7. \A op \in SocketOp : Started(op)' \in async' <=> op = "resolve"
    <3>1. \A op \in SocketOp : Started(op)' = [op |-> op, of |-> generation + 1]
      BY <1>2 DEF Started
    <3>2. \A op \in SocketOp : [op |-> op, of |-> generation + 1] \notin async
      BY <2>1, <2>6
    <3> QED  BY <1>2, <3>1, <3>2
  <2>8. \A op \in SocketOp : OneToken(op)' /\ (Token(op)' <=> op = "resolve")
    BY <2>5, <2>7 DEF OneToken, Token, Once, Has
  <2>9. Generations'
    <3>1. \A a \in async' : a.of <= generation' /\ a.op = "resolve"
      BY <1>2, <2>1, <2>6 DEF LinkTyping
    <3> QED  BY <1>2, <2>5, <3>1 DEF Generations
  <2>10. Phases'
    BY <1>2, <2>6, <2>8, AllTokens DEF Phases, IsUp
  <2>11. LinkTyping'
    <3>1. async' \subseteq [op : SocketOp, of : Nat]
      BY <1>2, <2>1, AllTokens DEF LinkTyping
    <3> QED  BY <1>2, <2>1, <2>2, <2>3, <3>1 DEF LinkTyping
  <2>12. ASSUME NEW k \in Connection PROVE Written(k)'
    <3>1. /\ generation + 1 < k \/ k = generation + 1 => generation < k
      BY <2>1 DEF Connection
    <3>2. Written(k) /\ Stream(k)' = Stream(k)
      BY <2>2 DEF LinkInv, Stream
    <3>3. generation' < k \/ k = generation' => queued[k] = <<>>
      BY <1>2, <3>1, <3>2 DEF Written
    <3> QED  BY <1>2, <2>2, <3>2, <3>3 DEF Written, IsUp
  <2> QED  BY <2>8, <2>9, <2>10, <2>11, <2>12 DEF LinkInv, Tokens
<1> QED  BY <1>1, <1>2 DEF ConnectImpl

-----------------------------------------------------------------------------
(***************************************************************************)
(* Connection is large enough: a call of connect pays for the two          *)
(* generations that it may begin.                                          *)
(***************************************************************************)
Attempts(q) == {i \in DOMAIN q : q[i].h = "connect_impl"}

Waiting(q) == Cardinality(Attempts(q))

Owed == generation + (IF state = "DISCONNECTED" THEN 0 ELSE 1) + 2 * Waiting(posted)

Budget ==
    /\ spent \in [connects : Nat, disconnects : Nat, keys : Nat, failures : Nat]
    /\ spent.connects <= MaxConnects
    /\ Owed <= 2 * spent.connects
    /\ state # "DISCONNECTED" => generation >= 1

LEMMA WaitingCounts ==
    ASSUME NEW q \in Seq(Handler)
    PROVE  /\ IsFiniteSet(Attempts(q)) /\ Waiting(q) \in Nat
           /\ Attempts(q) \subseteq 1..Len(q)
<1>1. Attempts(q) \subseteq 1..Len(q) /\ Len(q) \in Nat
  BY DEF Attempts
<1>2. IsFiniteSet(1..Len(q))
  BY <1>1, FS_Interval
<1>3. IsFiniteSet(Attempts(q))
  BY <1>1, <1>2, FS_Subset
<1> QED  BY <1>1, <1>3, FS_CardinalityType DEF Waiting

LEMMA WaitingLonger ==
    ASSUME NEW q \in Seq(Handler), NEW h \in Handler
    PROVE  Waiting(Append(q, h)) =
              Waiting(q) + (IF h.h = "connect_impl" THEN 1 ELSE 0)
<1>1. IsFiniteSet(Attempts(q)) /\ Waiting(q) \in Nat /\ Attempts(q) \subseteq 1..Len(q)
  BY WaitingCounts
<1>2. /\ DOMAIN q = 1..Len(q) /\ Len(q) \in Nat
      /\ DOMAIN Append(q, h) = 1..Len(q) + 1
      /\ \A i \in 1..Len(q) : Append(q, h)[i] = q[i]
      /\ Append(q, h)[Len(q) + 1] = h
  OBVIOUS
<1>3. Attempts(Append(q, h)) = IF h.h = "connect_impl"
                               THEN Attempts(q) \cup {Len(q) + 1} ELSE Attempts(q)
  <2>1. \A i \in 1..Len(q) + 1 : i \in 1..Len(q) \/ i = Len(q) + 1
    BY <1>2
  <2>2. /\ \A i \in 1..Len(q) : i \in 1..Len(q) + 1
        /\ Len(q) + 1 \in 1..Len(q) + 1
    BY <1>2
  <2> QED  BY <1>2, <2>1, <2>2 DEF Attempts
<1>4. Len(q) + 1 \notin Attempts(q)
  BY <1>1, <1>2
<1>5. Cardinality(Attempts(q) \cup {Len(q) + 1}) = Cardinality(Attempts(q)) + 1
  BY <1>1, <1>4, FS_AddElement
<1> QED  BY <1>1, <1>3, <1>5 DEF Waiting

LEMMA WaitingShorter ==
    ASSUME NEW q \in Seq(Handler), q # <<>>, NEW r \in Seq(Handler),
           \A i \in DOMAIN r : r[i].h # "connect_impl"
    PROVE  Waiting(Tail(q) \o r) =
              Waiting(q) - (IF Head(q).h = "connect_impl" THEN 1 ELSE 0)
<1> DEFINE p == Tail(q) \o r
           S == Attempts(p)
           T == Attempts(q) \ {1}
<1>1. IsFiniteSet(Attempts(q)) /\ Waiting(q) \in Nat /\ Attempts(q) \subseteq 1..Len(q)
  BY WaitingCounts
<1>2. Tail(q) \in Seq(Handler) /\ p \in Seq(Handler)
  BY ConcatProperties
<1>3. /\ DOMAIN q = 1..Len(q) /\ Len(q) \in Nat \ {0} /\ Head(q) = q[1]
      /\ DOMAIN r = 1..Len(r) /\ Len(r) \in Nat
      /\ Len(Tail(q)) = Len(q) - 1 /\ DOMAIN p = 1..Len(q) - 1 + Len(r)
      /\ \A i \in 1..Len(q) - 1 : Tail(q)[i] = q[i + 1]
  BY <1>2, EmptySeq, LenProperties
<1>4. /\ \A i \in 1..Len(q) - 1 : p[i] = q[i + 1]
      /\ \A j \in 1..Len(r) : p[Len(q) - 1 + j] = r[j]
  BY <1>2, <1>3, ConcatProperties
<1> HIDE DEF p
<1>5. \A i \in DOMAIN p : \/ i \in 1..Len(q) - 1
                          \/ \E j \in 1..Len(r) : i = Len(q) - 1 + j
  <2> SUFFICES ASSUME NEW i \in DOMAIN p, i \notin 1..Len(q) - 1
               PROVE  \E j \in 1..Len(r) : i = Len(q) - 1 + j
    OBVIOUS
  <2>1. i - (Len(q) - 1) \in 1..Len(r) /\ i = Len(q) - 1 + (i - (Len(q) - 1))
    BY <1>3
  <2> QED  BY <2>1
<1>6. S = {i \in 1..Len(q) - 1 : q[i + 1].h = "connect_impl"}
  <2>1. \A i \in DOMAIN p : p[i].h = "connect_impl" => i \in 1..Len(q) - 1
    <3> SUFFICES ASSUME NEW i \in DOMAIN p, p[i].h = "connect_impl",
                        i \notin 1..Len(q) - 1
                 PROVE  FALSE
      OBVIOUS
    <3>1. PICK j \in 1..Len(r) : i = Len(q) - 1 + j
      BY <1>5
    <3>2. p[i] = r[j]
      BY <3>1, <1>4
    <3>3. j \in DOMAIN r
      BY <1>3
    <3> QED  BY <3>2, <3>3
  <2>2. \A i \in 1..Len(q) - 1 : i \in DOMAIN p
    BY <1>3
  <2> QED  BY <1>4, <2>1, <2>2 DEF Attempts
<1>7. \A i \in 1..Len(q) - 1 : i + 1 \in 1..Len(q) /\ i + 1 # 1
  BY <1>3
<1>8. \A i \in 1..Len(q) : i # 1 => \E j \in 1..Len(q) - 1 : i = j + 1
  <2> SUFFICES ASSUME NEW i \in 1..Len(q), i # 1
               PROVE  \E j \in 1..Len(q) - 1 : i = j + 1
    OBVIOUS
  <2>1. i - 1 \in 1..Len(q) - 1 /\ i = (i - 1) + 1
    BY <1>3
  <2> QED  BY <2>1
<1>9. T = {i \in 1..Len(q) : i # 1 /\ q[i].h = "connect_impl"}
  BY <1>3 DEF Attempts
<1> HIDE DEF S, T
<1>10. ExistsBijection(S, T)
  <2> DEFINE f == [i \in S |-> i + 1]
  <2>1. f \in [S -> T]
    BY <1>6, <1>7, <1>9
  <2>2. \A a, b \in S : f[a] = f[b] => a = b
    BY <1>6
  <2>3. \A t \in T : \E s \in S : f[s] = t
    BY <1>6, <1>8, <1>9
  <2>4. f \in Bijection(S, T)
    BY <2>1, <2>2, <2>3 DEF Bijection, Injection, Surjection, IsInjective
  <2> QED  BY <2>4 DEF ExistsBijection
<1>11. IsFiniteSet(S) /\ Cardinality(S) = Waiting(p) /\ Waiting(p) \in Nat
  BY <1>2, WaitingCounts DEF S, Waiting, p
<1>12. Cardinality(T) = Cardinality(S)
  BY <1>10, <1>11, FS_Bijection
<1>13. Cardinality(T) = IF 1 \in Attempts(q) THEN Waiting(q) - 1 ELSE Waiting(q)
  BY <1>1, FS_RemoveElement DEF T, Waiting
<1>14. 1 \in Attempts(q) <=> Head(q).h = "connect_impl"
  BY <1>3 DEF Attempts
<1> QED  BY <1>1, <1>11, <1>12, <1>13, <1>14 DEF p

LEMMA SpendKeeps ==
    ASSUME Budget, NEW what \in {"disconnects", "keys", "failures"}, NEW limit,
           Spend(what, limit)
    PROVE  /\ spent' \in [connects : Nat, disconnects : Nat, keys : Nat, failures : Nat]
           /\ spent'.connects = spent.connects
BY DEF Budget, Spend

\* Something is posted that is no connect_impl.
LEMMA PostedBudget ==
    ASSUME LinkTyping, Budget, NEW h \in Handler, h.h # "connect_impl",
           posted' = Append(posted, h), UNCHANGED <<state, generation>>,
           spent' \in [connects : Nat, disconnects : Nat, keys : Nat, failures : Nat],
           spent'.connects = spent.connects
    PROVE  Budget'
<1>1. posted \in Seq(Handler)
  BY DEF LinkTyping
<1>2. Waiting(posted) \in Nat /\ Waiting(posted') = Waiting(posted)
  <2>1. Waiting(posted) \in Nat
    BY <1>1, WaitingCounts
  <2>2. Waiting(Append(posted, h)) = Waiting(posted) + 0
    BY <1>1, WaitingLonger
  <2> QED  BY <2>1, <2>2
<1> QED  BY <1>2 DEF Budget, Owed, LinkTyping

\* A handler runs.
LEMMA RanBudget ==
    ASSUME LinkTyping, Budget, posted # <<>>, NEW r \in Seq(Handler),
           posted' = Tail(posted) \o r, \A i \in DOMAIN r : r[i].h # "connect_impl",
           spent' = spent,
           \/ /\ generation' = generation
              /\ state = "DISCONNECTED" => state' = "DISCONNECTED"
           \/ /\ generation' = generation + 1
              /\ state # "DISCONNECTED" /\ state' = "DISCONNECTED"
           \/ /\ generation' = generation + 1 /\ state = "DISCONNECTED"
              /\ Head(posted).h = "connect_impl"
    PROVE  Budget'
<1>1. posted \in Seq(Handler) /\ generation \in Nat
  BY DEF LinkTyping
<1>2. /\ Waiting(posted) \in Nat /\ Waiting(posted') \in Nat
      /\ Waiting(posted') = Waiting(posted)
                               - (IF Head(posted).h = "connect_impl" THEN 1 ELSE 0)
  <2>1. posted' \in Seq(Handler)
    BY <1>1, ConcatProperties
  <2>2. Waiting(posted) \in Nat /\ Waiting(posted') \in Nat
    BY <1>1, <2>1, WaitingCounts
  <2>3. Waiting(Tail(posted) \o r) = Waiting(posted)
                               - (IF Head(posted).h = "connect_impl" THEN 1 ELSE 0)
    BY <1>1, WaitingShorter
  <2> QED  BY <2>2, <2>3
<1>3. Waiting(posted') <= Waiting(posted)
      /\ (Head(posted).h = "connect_impl" => Waiting(posted') + 1 = Waiting(posted))
  BY <1>2
<1> DEFINE b  == IF state = "DISCONNECTED" THEN 0 ELSE 1
           b2 == IF state' = "DISCONNECTED" THEN 0 ELSE 1
<1>4. /\ Owed = generation + b + 2 * Waiting(posted)
      /\ Owed' = generation' + b2 + 2 * Waiting(posted')
      /\ spent.connects \in Nat /\ Owed <= 2 * spent.connects
  BY DEF Owed, Budget
<1>5. /\ b \in {0, 1} /\ b2 \in {0, 1} /\ generation' \in Nat
      /\ \/ generation' = generation /\ b2 <= b
         \/ generation' = generation + 1 /\ b = 1 /\ b2 = 0
         \/ /\ generation' = generation + 1 /\ b = 0
            /\ Waiting(posted') + 1 = Waiting(posted)
  BY <1>1, <1>3
<1> HIDE DEF b, b2
<1>6. Owed' <= 2 * spent.connects
  <2>1. generation + b + 2 * Waiting(posted) <= 2 * spent.connects
    BY <1>4
  <2>2. Waiting(posted') <= Waiting(posted)
    BY <1>3
  <2>3. generation' + b2 + 2 * Waiting(posted') <= 2 * spent.connects
    <3>1. PICK w \in Nat, w2 \in Nat, c \in Nat, n \in Nat :
             w = Waiting(posted) /\ w2 = Waiting(posted') /\ c = spent.connects
             /\ n = generation'
      BY <1>2, <1>4, <1>5
    <3>2. generation + b + 2 * w <= 2 * c /\ w2 <= w
      BY <2>1, <2>2, <3>1
    <3>3. \/ n = generation /\ b2 <= b
          \/ n = generation + 1 /\ b = 1 /\ b2 = 0
          \/ n = generation + 1 /\ b = 0 /\ w2 + 1 = w
      BY <1>5, <3>1
    <3>4. n + b2 + 2 * w2 <= 2 * c
      BY <1>1, <1>5, <3>2, <3>3
    <3> QED  BY <3>1, <3>4
  <2> QED  BY <1>4, <2>3
<1>7. state' # "DISCONNECTED" => generation' >= 1
  BY <1>1 DEF Budget
<1> QED  BY <1>6, <1>7 DEF Budget

\* Whatever is being read belongs to a connection that connect has paid for.
LEMMA ReadInside ==
    ASSUME LinkInv, Budget, NEW a \in async, a.op = "read"
    PROVE  generation \in Connection
<1>1. LinkTyping /\ Tokens /\ generation \in Nat /\ posted \in Seq(Handler)
  BY DEF LinkInv, LinkTyping
<1>2. a = Started("read")
  BY <1>1 DEF Tokens, Generations, LinkTyping, Started
<1>3. Token("read")
  BY <1>2 DEF Token
<1>4. state # "DISCONNECTED" /\ generation >= 1
  BY <1>1, <1>3, AllTokens DEF Tokens, Phases, Budget
<1>5. Waiting(posted) \in Nat
  BY <1>1, WaitingCounts
<1>6. generation + 1 + 2 * Waiting(posted) <= 2 * spent.connects
  BY <1>4 DEF Budget, Owed
<1>7. spent.connects \in Nat /\ MaxConnects \in Nat /\ spent.connects <= MaxConnects
  BY LimitAssumption DEF Budget
<1>8. generation <= 2 * MaxConnects
  <2>1. PICK w \in Nat, c \in Nat : w = Waiting(posted) /\ c = spent.connects
    BY <1>5, <1>7
  <2>2. generation + 1 + 2 * w <= 2 * c
    BY <1>6, <2>1
  <2>3. c <= MaxConnects
    BY <1>7, <2>1
  <2> QED  BY <1>1, <1>7, <2>2, <2>3
<1> QED  BY <1>1, <1>4, <1>7, <1>8 DEF Connection

LEMMA CompletedBudget ==
    ASSUME LinkInv, Budget, SocketCompletes
    PROVE  Budget'
<1>1. PICK a \in async : \/ ResolveCompletes(a) \/ ConnectCompletes(a)
                         \/ ReadCompletes(a) \/ WriteCompletes(a)
  BY DEF SocketCompletes
<1>2. LinkTyping /\ Tokens /\ a.of \in Nat
  BY DEF LinkInv, LinkTyping
<1>3. \E h \in Handler : h.h = a.op /\ Completes(a, h)
  <2>1. CASE ResolveCompletes(a) \/ ConnectCompletes(a) \/ WriteCompletes(a)
    BY <1>2, <2>1, NewHandlers DEF ResolveCompletes, ConnectCompletes, WriteCompletes
  <2>2. CASE ReadCompletes(a)
    <3>1. a.op = "read" /\ a.of = generation /\ downstream[a.of] \in Seq(Downward)
      <4>1. a.op = "read" /\ a.of = generation
        BY <1>2, <2>2 DEF ReadCompletes, Tokens, Generations
      <4> QED  BY <1>2, <4>1, ReadInside DEF LinkTyping
    <3>2. downstream[a.of] # <<>> => Head(downstream[a.of]) \in Downward
      BY <3>1
    <3> QED  BY <1>2, <2>2, <3>1, <3>2, NewHandlers, AllTokens DEF ReadCompletes
  <2> QED  BY <1>1, <2>1, <2>2
<1>4. /\ spent' \in [connects : Nat, disconnects : Nat, keys : Nat, failures : Nat]
      /\ spent'.connects = spent.connects
  <2>1. spent' = spent \/ Fails
    BY <1>1 DEF ResolveCompletes, ConnectCompletes, ReadCompletes, WriteCompletes
  <2>2. CASE Fails
    BY <2>2, SpendKeeps DEF Fails
  <2> QED  BY <2>1, <2>2 DEF Budget
<1>5. a.op # "connect_impl"
  BY AllTokens DEF LinkInv, LinkTyping
<1> QED  BY <1>2, <1>3, <1>4, <1>5, PostedBudget DEF Completes, Post

LEMMA HandlerBudget ==
    ASSUME LinkInv, Budget, posted # <<>>, Run(Head(posted))
    PROVE  Budget'
<1> DEFINE Moves ==
             \/ /\ generation' = generation
                /\ state = "DISCONNECTED" => state' = "DISCONNECTED"
             \/ /\ generation' = generation + 1
                /\ state # "DISCONNECTED" /\ state' = "DISCONNECTED"
             \/ /\ generation' = generation + 1 /\ state = "DISCONNECTED"
                /\ Head(posted).h = "connect_impl"
           Posts == \E r \in Seq(Handler) : /\ posted' = Tail(posted) \o r
                                            /\ \A i \in DOMAIN r : r[i].h # "connect_impl"
<1>1. LinkTyping /\ Tokens /\ generation \in Nat
  BY DEF LinkInv, LinkTyping
<1>2. /\ Then(<<>>) => Posts
      /\ Then(<<Disconnect(generation)>>) => Posts
      /\ Then(<<[h |-> "send_open_document_impl"]>>) => Posts
      /\ Then(Aborted) => Posts
  <2>1. /\ Disconnect(generation) \in Handler /\ Disconnect(generation).h = "disconnect_impl"
        /\ [h |-> "send_open_document_impl"] \in Handler
    BY <1>1, NewHandlers DEF Disconnect, Hangups
  <2>2. /\ Aborted \in Seq(Handler)
        /\ \A i \in DOMAIN Aborted : Aborted[i].h # "connect_impl"
    BY <1>1, AbortedHandlers DEF SocketOp
  <2>3. /\ <<>> \in Seq(Handler) /\ DOMAIN <<>> = {}
        /\ <<Disconnect(generation)>> \in Seq(Handler)
        /\ <<[h |-> "send_open_document_impl"]>> \in Seq(Handler)
    BY <2>1
  <2>4. /\ \A i \in DOMAIN <<Disconnect(generation)>> :
              <<Disconnect(generation)>>[i].h # "connect_impl"
        /\ \A i \in DOMAIN <<[h |-> "send_open_document_impl"]>> :
              <<[h |-> "send_open_document_impl"]>>[i].h # "connect_impl"
    BY <2>1
  <2>5. (Then(<<>>) => Posts) /\ (Then(Aborted) => Posts)
    BY <2>2, <2>3 DEF Then
  <2>6. Then(<<Disconnect(generation)>>) => Posts
    BY <2>3, <2>4 DEF Then
  <2>7. Then(<<[h |-> "send_open_document_impl"]>>) => Posts
    BY <2>3, <2>4 DEF Then
  <2> QED  BY <2>5, <2>6, <2>7
<1> HIDE DEF Posts
<1>3. Ignore => Posts /\ Moves /\ spent' = spent
  BY <1>2 DEF Ignore, client
<1>4. Posts /\ Moves /\ spent' = spent
  <2>1. CASE Head(posted).h = "connect_impl" /\ ConnectImpl
    BY <1>2, <1>3, <2>1 DEF ConnectImpl
  <2>2. CASE DisconnectImpl
    BY <1>2, <1>3, <2>2 DEF DisconnectImpl
  <2>3. CASE OpenDocumentImpl
    BY <1>2, <1>3, <2>3 DEF OpenDocumentImpl
  <2>4. CASE ProcessOutgoing
    BY <1>2, <2>4 DEF ProcessOutgoing
  <2>5. CASE Head(posted).h = "resolve" /\ AfterResolve(Head(posted).ok)
    BY <1>2, <2>5 DEF AfterResolve, Resolved
  <2>6. CASE /\ Head(posted).h = "connect" /\ Head(posted).of = generation
             /\ AfterConnect(Head(posted).ok)
    <3>1. Token("connect")
      BY <1>1, <2>6, CompletionAtHead, AllTokens
    <3>2. state # "DISCONNECTED"
      BY <1>1, <3>1, AllTokens DEF Tokens, Phases
    <3> QED  BY <1>2, <2>6, <3>2 DEF AfterConnect
  <2>7. CASE AfterRead(Head(posted)) /\ UNCHANGED spent
    <3>1. Posts
      BY <1>2, <2>7 DEF AfterRead, HandleMessage
    <3>2. generation' = generation /\ (state = "DISCONNECTED" => state' = "DISCONNECTED")
      BY <2>7 DEF AfterRead, HandleMessage, client, Expected
    <3> QED  BY <2>7, <3>1, <3>2
  <2>8. CASE AfterWrite(Head(posted).ok) /\ UNCHANGED spent
    BY <1>2, <2>8 DEF AfterWrite
  <2> QED  BY <1>3, <2>1, <2>2, <2>3, <2>4, <2>5, <2>6, <2>7, <2>8
           DEF Run, AfterCompletion, IsStale
<1> QED  BY <1>1, <1>4, RanBudget DEF Posts

-----------------------------------------------------------------------------
(***************************************************************************)
(* Every step keeps the invariant.                                         *)
(***************************************************************************)
LEMMA LinkStarts ==
    ASSUME Init
    PROVE  LinkInv /\ Budget
<1>1. /\ posted = <<>> /\ generation = 0 /\ state = "DISCONNECTED" /\ async = {}
      /\ write_queue = <<>> /\ DOMAIN posted = {}
  BY DEF Init
<1>2. LinkTyping
  BY EmptySeq DEF Init, LinkTyping
<1>3. Tokens
  <2>1. \A H : ~Has(posted, H) /\ Once(posted, H)
    BY <1>1 DEF Has, Once
  <2> QED  BY <1>1, <2>1 DEF Tokens, Generations, OneToken, Phases, Token, IsUp
<1>4. ASSUME NEW k \in Connection PROVE Written(k)
  <2>1. queued[k] = <<>> /\ upstream[k] = <<>> /\ received[k] = <<>>
    BY DEF Init
  <2>2. Stream(k) = <<>> /\ Begins(Stream(k), queued[k])
    <3>1. \A p \in Seq(Upward) : <<>> \o p = p
      BY Joining
    <3>2. <<>> \in Seq(Upward)
      BY EmptySeq
    <3> QED  BY <2>1, <3>1, <3>2 DEF Stream, Begins
  <2>3. WellFormed(queued[k])
    BY <2>1 DEF WellFormed
  <2> QED  BY <1>1, <2>1, <2>2, <2>3 DEF Written, IsUp
<1>5. Budget
  <2>1. Attempts(posted) = {}
    BY <1>1 DEF Attempts
  <2>2. Waiting(posted) = 0
    BY <2>1, FS_EmptySet DEF Waiting
  <2>3. spent = [connects |-> 0, disconnects |-> 0, keys |-> 0, failures |-> 0]
    BY DEF Init
  <2> QED  BY <1>1, <2>2, <2>3, LimitAssumption DEF Budget, Owed
<1> QED  BY <1>2, <1>3, <1>4, <1>5 DEF LinkInv

LEMMA HandlerStep ==
    ASSUME LinkInv, posted # <<>>, Run(Head(posted))
    PROVE  LinkInv'
<1>1. CASE Head(posted).h = "connect_impl" /\ ConnectImpl
  BY <1>1, ConnectingStep
<1>2. CASE Head(posted).h = "disconnect_impl" /\ DisconnectImpl
  BY <1>2, DisconnectStep
<1>3. CASE Head(posted).h = "send_open_document_impl" /\ OpenDocumentImpl
  BY <1>3, OpenDocumentStep
<1>4. CASE Head(posted).h = "process_outgoing" /\ ProcessOutgoing
  BY <1>4, ProcessOutgoingStep
<1>5. CASE Head(posted).h \in SocketOp /\ IsStale(Head(posted)) /\ Ignore
  BY <1>5, IgnoreStep DEF IsStale, SocketOp
<1>6. CASE ~IsStale(Head(posted)) /\ Head(posted).h = "resolve"
              /\ AfterResolve(Head(posted).ok)
  BY <1>6, AfterResolveStep DEF IsStale
<1>7. CASE ~IsStale(Head(posted)) /\ Head(posted).h = "connect"
              /\ AfterConnect(Head(posted).ok)
  BY <1>7, AfterConnectStep DEF IsStale
<1>8. CASE ~IsStale(Head(posted)) /\ Head(posted).h = "read"
              /\ AfterRead(Head(posted)) /\ UNCHANGED <<network, queued, spent>>
  BY <1>8, AfterReadStep DEF IsStale
<1>9. CASE ~IsStale(Head(posted)) /\ Head(posted).h = "write"
              /\ AfterWrite(Head(posted).ok) /\ UNCHANGED <<network, queued, spent>>
  BY <1>9, AfterWriteStep DEF IsStale
<1> QED  BY <1>1, <1>2, <1>3, <1>4, <1>5, <1>6, <1>7, <1>8, <1>9
         DEF Run, AfterCompletion

LEMMA LinkStep ==
    ASSUME LinkInv, Budget, [Next]_vars
    PROVE  LinkInv' /\ Budget'
<1> DEFINE Spents == [connects : Nat, disconnects : Nat, keys : Nat, failures : Nat]
<1>1. LinkTyping /\ generation \in Nat /\ posted \in Seq(Handler)
      /\ outgoing \in Seq(FromSession)
  BY DEF LinkInv, LinkTyping
<1>2. /\ [h |-> "connect_impl"] \in Handler /\ Disconnect(0) \in Handler
      /\ [h |-> "process_outgoing"] \in Handler
  BY NewHandlers DEF Disconnect, Hangups
<1>3. CASE CallConnect
  <2>1. /\ posted' = Append(posted, [h |-> "connect_impl"]) /\ outgoing' = outgoing
        /\ UNCHANGED <<client, network, queued>> /\ UNCHANGED <<state, generation>>
        /\ spent.connects < MaxConnects
        /\ spent' = [spent EXCEPT !["connects"] = @ + 1]
    BY <1>3 DEF CallConnect, Post, session, client, Spend
  <2>2. LinkInv'
    BY <1>1, <1>2, <2>1, CallStep DEF SocketOp
  <2>3. Waiting(posted') = Waiting(posted) + 1 /\ Waiting(posted) \in Nat
    BY <1>1, <1>2, <2>1, WaitingCounts, WaitingLonger
  <2>4. /\ spent' \in Spents /\ spent'.connects = spent.connects + 1
        /\ spent.connects \in Nat /\ MaxConnects \in Nat
    BY <2>1, LimitAssumption DEF Budget
  <2> DEFINE b == IF state = "DISCONNECTED" THEN 0 ELSE 1
  <2>5. /\ Owed = generation + b + 2 * Waiting(posted)
        /\ Owed' = generation + b + 2 * Waiting(posted') /\ b \in Nat
    BY <2>1 DEF Owed
  <2> HIDE DEF b
  <2>6. PICK w \in Nat, c \in Nat : w = Waiting(posted) /\ c = spent.connects
    BY <2>3, <2>4
  <2>7. generation + b + 2 * w <= 2 * c
    BY <2>5, <2>6 DEF Budget
  <2>8. generation + b + 2 * (w + 1) <= 2 * (c + 1)
    BY <1>1, <2>5, <2>7
  <2>9. Owed' <= 2 * spent'.connects
    BY <2>3, <2>4, <2>5, <2>6, <2>8
  <2>10. spent'.connects <= MaxConnects /\ (state' # "DISCONNECTED" => generation' >= 1)
    <3>1. spent'.connects <= MaxConnects
      BY <2>1, <2>4
    <3>2. state' # "DISCONNECTED" => generation' >= 1
      BY <2>1 DEF Budget
    <3> QED  BY <3>1, <3>2
  <2> QED  BY <2>2, <2>4, <2>9, <2>10 DEF Budget
<1>4. CASE CallDisconnect
  <2>1. /\ posted' = Append(posted, Disconnect(0)) /\ outgoing' = outgoing
        /\ UNCHANGED <<client, network, queued>> /\ UNCHANGED <<state, generation>>
        /\ Spend("disconnects", MaxDisconnects)
    BY <1>4 DEF CallDisconnect, Post, session, client
  <2>2. Disconnect(0).h = "disconnect_impl"
    BY DEF Disconnect
  <2>3. LinkInv'
    BY <1>1, <1>2, <2>1, <2>2, CallStep DEF SocketOp
  <2>4. Budget'
    BY <1>1, <1>2, <2>1, <2>2, SpendKeeps, PostedBudget
  <2> QED  BY <2>3, <2>4
<1>5. CASE TypeKey \/ AnswerHistory
  <2>1. /\ posted' = Append(posted, [h |-> "process_outgoing"])
        /\ UNCHANGED <<client, network, queued>> /\ UNCHANGED <<state, generation>>
        /\ outgoing' = Append(outgoing, "OPERATION")
              \/ outgoing' = Append(outgoing, "SYNC_COMPLETE")
        /\ spent' = spent \/ Spend("keys", MaxKeys)
    BY <1>5 DEF TypeKey, AnswerHistory, QueueOutgoing, Post, client
  <2>2. outgoing' \in Seq(FromSession)
    BY <1>1, <2>1, AppendProperties DEF FromSession
  <2>3. LinkInv'
    BY <1>2, <2>1, <2>2, CallStep DEF SocketOp
  <2>4. spent' \in Spents /\ spent'.connects = spent.connects
    <3>1. CASE Spend("keys", MaxKeys)
      BY <3>1, SpendKeeps
    <3> QED  BY <2>1, <3>1 DEF Budget
  <2>5. Budget'
    BY <1>1, <1>2, <2>1, <2>4, PostedBudget
  <2> QED  BY <2>3, <2>5
<1>6. CASE RunHandler
  BY <1>6, HandlerStep, HandlerBudget DEF RunHandler
<1>7. CASE SocketCompletes
  <2>1. PICK a \in async : \/ ResolveCompletes(a) \/ ConnectCompletes(a)
                           \/ ReadCompletes(a) \/ WriteCompletes(a)
    BY <1>7 DEF SocketCompletes
  <2>2. CASE ReadCompletes(a)
    <3>1. generation \in Connection
      BY <2>2, ReadInside DEF ReadCompletes
    <3> QED  BY <1>7, <2>2, <3>1, ReadStep, CompletedBudget
  <2> QED  BY <1>7, <2>1, <2>2, ResolveStep, ConnectStep, WriteStep, CompletedBudget
<1>8. ASSUME NEW k \in Connection, PeerReads(k) \/ PeerReadsEnd(k) \/ PeerFails(k)
      PROVE  LinkInv' /\ Budget'
  <2>1. LinkInv'
    BY <1>8, PeerReadsStep, PeerClosesStep DEF PeerReadsEnd, PeerFails
  <2>2. UNCHANGED <<state, generation, posted>>
    BY <1>8 DEF PeerReads, PeerReadsEnd, PeerFails, client
  <2>3. spent' \in Spents /\ spent'.connects = spent.connects
    <3>1. CASE Spend("failures", MaxFailures)
      BY <3>1, SpendKeeps
    <3> QED  BY <1>8, <3>1 DEF PeerReads, PeerReadsEnd, PeerFails, Fails, Budget
  <2>4. Budget'
    BY <2>2, <2>3 DEF Budget, Owed
  <2> QED  BY <2>1, <2>4
<1>9. CASE UNCHANGED vars
  <2>1. /\ UNCHANGED <<client, posted, session, queued>>
        /\ UNCHANGED <<state, generation, peer, upstream, downstream, received, spent>>
    BY <1>9 DEF vars, client, network
  <2>2. \A k \in Connection : Stream(k)' = Stream(k) /\ Written(k)
    BY <2>1 DEF Stream, LinkInv
  <2>3. LinkInv'
    BY <1>1, <2>1, <2>2, PeerTokens DEF Written, LinkTyping
  <2>4. Budget'
    BY <2>1 DEF Budget, Owed
  <2> QED  BY <2>3, <2>4
<1> QED  BY <1>3, <1>4, <1>5, <1>6, <1>7, <1>8, <1>9 DEF Next, Call, Peer

LEMMA LinkHolds == Spec => [](LinkInv /\ Budget)
<1>1. Init => LinkInv /\ Budget
  BY LinkStarts
<1>2. (LinkInv /\ Budget) /\ [Next]_vars => (LinkInv /\ Budget)'
  BY LinkStep
<1> QED  BY <1>1, <1>2, PTL DEF Spec

-----------------------------------------------------------------------------
(***************************************************************************)
(* The properties of the runs.                                             *)
(***************************************************************************)
LEMMA BeginsIsPrefix ==
    ASSUME NEW p \in Seq(Upward), NEW q \in Seq(Upward), Begins(p, q)
    PROVE  IsPrefix(p, q) /\ \A i \in DOMAIN p : i \in DOMAIN q /\ q[i] = p[i]
<1>1. PICK r \in Seq(Upward) : q = p \o r
  BY DEF Begins
<1>2. /\ Len(p) \in Nat /\ Len(q) \in Nat /\ Len(p) <= Len(q)
      /\ DOMAIN p = 1..Len(p) /\ DOMAIN q = 1..Len(q)
      /\ \A i \in 1..Len(p) : q[i] = p[i]
  BY <1>1
<1>3. \A i \in 1..Len(p) : i \in 1..Len(q)
  BY <1>2
<1>4. SubSeq(p, 1, Len(p)) = SubSeq(q, 1, Len(p))
  BY <1>2
<1> QED  BY <1>2, <1>3, <1>4 DEF IsPrefix

\* A set with at most one member.
LEMMA AtMostOne ==
    ASSUME NEW S, \A a, b \in S : a = b
    PROVE  IsFiniteSet(S) /\ Cardinality(S) \in {0, 1} /\ (S = {} => Cardinality(S) = 0)
<1>1. CASE S = {}
  BY <1>1, FS_EmptySet
<1>2. CASE S # {}
  <2>1. PICK a \in S : S = {a}
    BY <1>2
  <2> QED  BY <1>2, <2>1, FS_Singleton
<1> QED  BY <1>1, <1>2

(***************************************************************************)
(* What is written on a connection is what was queued for it, whole, once  *)
(* and in order, under its own HELLO, whatever disconnects, failures and   *)
(* late completions come between.                                          *)
(***************************************************************************)
THEOREM WholeStreams == Spec => []StreamsAreWhole
<1>1. LinkInv => StreamsAreWhole
  <2> SUFFICES ASSUME LinkInv, NEW k \in Connection
               PROVE  /\ IsPrefix(Stream(k), queued[k])
                      /\ \A i \in DOMAIN Stream(k) : Stream(k)[i] = "HELLO" <=> i = 1
                      /\ Cardinality({i \in DOMAIN Stream(k) :
                                         Stream(k)[i] = "OPEN_DOCUMENT"}) <= 1
    BY DEF StreamsAreWhole, Stream
  <2>1. /\ Stream(k) \in Seq(Upward) /\ queued[k] \in Seq(Upward)
        /\ Begins(Stream(k), queued[k]) /\ WellFormed(queued[k])
    BY Streaming DEF LinkInv, Written
  <2>2. /\ IsPrefix(Stream(k), queued[k])
        /\ \A i \in DOMAIN Stream(k) :
              i \in DOMAIN queued[k] /\ queued[k][i] = Stream(k)[i]
    BY <2>1, BeginsIsPrefix
  <2>3. \A i \in DOMAIN Stream(k) : Stream(k)[i] = "HELLO" <=> i = 1
    BY <2>1, <2>2 DEF WellFormed
  <2>4. Cardinality({i \in DOMAIN Stream(k) : Stream(k)[i] = "OPEN_DOCUMENT"}) \in {0, 1}
    <3> DEFINE S == {i \in DOMAIN Stream(k) : Stream(k)[i] = "OPEN_DOCUMENT"}
    <3>1. \A i, j \in S : i = j
      BY <2>1, <2>2 DEF WellFormed
    <3> HIDE DEF S
    <3>2. Cardinality(S) \in {0, 1}
      BY <3>1, AtMostOne
    <3> QED  BY <3>2 DEF S
  <2> QED  BY <2>2, <2>3, <2>4
<1> QED  BY <1>1, LinkHolds, PTL

\* A posted completion of the present connection is a handler that is ready.
LEMMA ReadyIsPosted ==
    ASSUME LinkTyping, NEW op \in SocketOp
    PROVE  /\ Ready(op) = {i \in DOMAIN posted : posted[i] \in Current(op)}
           /\ Has(posted, Current(op)) <=> Ready(op) # {}
           /\ Has(posted, Hangups) => EndIsNear
<1>1. \A i \in DOMAIN posted : posted[i] \in Handler
  BY DEF LinkTyping
<1> QED  BY <1>1 DEF Ready, Current, Has, Hangups, EndIsNear

(***************************************************************************)
(* No path through the callbacks forgets start_read: a client that is      *)
(* connected is reading, or has yet to run the completion of a read, or is *)
(* about to hang up.                                                       *)
(***************************************************************************)
THEOREM AlwaysListening == Spec => []NeverDeaf
<1>1. LinkInv => NeverDeaf
  BY ReadyIsPosted, AllTokens DEF LinkInv, Tokens, Phases, Token, NeverDeaf
<1> QED  BY <1>1, LinkHolds, PTL

(***************************************************************************)
(* While something is queued a write is under way, or its completion is,   *)
(* or the client is about to hang up: the empty queue is a sound sign that *)
(* nobody is writing.                                                      *)
(***************************************************************************)
THEOREM WriterAwake == Spec => []WriterNeverSleeps
<1>1. LinkInv => WriterNeverSleeps
  BY ReadyIsPosted, AllTokens DEF LinkInv, Tokens, Phases, Token, WriterNeverSleeps
<1> QED  BY <1>1, LinkHolds, PTL

(***************************************************************************)
(* asio's rule is kept: never two reads or two writes at once, and none on *)
(* a socket that was closed and opened again.                              *)
(***************************************************************************)
THEOREM NoTwoOperations == Spec => []OneOperationEach
<1>1. LinkInv => OneOperationEach
  <2> SUFFICES ASSUME LinkInv PROVE OneOperationEach
    OBVIOUS
  <2>1. LinkTyping /\ Tokens
    BY DEF LinkInv
  <2>2. ASSUME NEW op \in {"connect", "read", "write"}
        PROVE  Cardinality({a \in async : a.op = op}) + Cardinality(Ready(op)) <= 1
    <3> DEFINE S == {a \in async : a.op = op}
               R == Ready(op)
    <3>1. op \in SocketOp /\ op # "resolve" /\ OneToken(op)
      BY <2>1, AllTokens DEF Tokens
    <3>2. /\ R = {i \in DOMAIN posted : posted[i] \in Current(op)}
          /\ Has(posted, Current(op)) <=> R # {}
      BY <2>1, <3>1, ReadyIsPosted
    <3>3. S \subseteq {Started(op)}
      BY <2>1, <3>1 DEF LinkTyping, Tokens, Generations, Started
    <3>4. \A i, j \in R : i = j
      BY <3>1, <3>2 DEF OneToken, Once
    <3>5. S = {} \/ R = {}
      BY <3>1, <3>2, <3>3 DEF OneToken
    <3>6. \A a, b \in S : a = b
      BY <3>3
    <3> HIDE DEF S, R
    <3>7. /\ Cardinality(S) \in {0, 1} /\ (S = {} => Cardinality(S) = 0)
          /\ Cardinality(R) \in {0, 1} /\ (R = {} => Cardinality(R) = 0)
      BY <3>4, <3>6, AtMostOne
    <3>8. Cardinality(S) + Cardinality(R) <= 1
      BY <3>5, <3>7
    <3> QED  BY <3>8 DEF S, R
  <2>3. \A a \in async : a.op # "resolve" => socket_open /\ a.of = generation
    BY <2>1 DEF Tokens, Generations
  <2> QED  BY <2>2, <2>3 DEF OneOperationEach
<1> QED  BY <1>1, LinkHolds, PTL
=============================================================================
