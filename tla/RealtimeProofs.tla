--------------------------- MODULE RealtimeProofs ---------------------------
(***************************************************************************)
(* For any clients, writers, connections and limits: no screen falls       *)
(* behind silently, no place on the list is leaked, and every step of the  *)
(* layer is one that Invalidation allows.                                  *)
(***************************************************************************)
EXTENDS Realtime, FiniteSetTheorems, TLAPS

ConnRec == [state : {"closed", "resolved", "open", "dead"}, of : Clients \cup {None},
            listed : BOOLEAN, queue : Seq(1 .. LastVersion), code : Codes]

\* TypeOK, completed, in three parts.
ServerOK ==
    /\ version \in 0 .. LastVersion
    /\ pc \in [Writers -> {"idle", "append", "wake"}] /\ news \in [Writers -> 0 .. LastVersion]
    /\ handoff \in Seq(1 .. LastVersion) /\ Len(handoff) <= HandoffMax
    /\ {scheduled, wakeup} \subseteq BOOLEAN
    /\ phase \in {"top", "wait", "drain", "gaveUp"}
    /\ restarts \in 0 .. MaxRestarts
    /\ \A w \in Writers : pc[w] = "append" => news[w] > 0
ConnOK ==
    /\ conn \in [Conns -> ConnRec]
    /\ \A k \in Conns : Len(conn[k].queue) <= QueueMax
ClientOK ==
    /\ session \in [Clients -> BOOLEAN] /\ recovery \in [Clients -> BOOLEAN]
    /\ missed \in [Clients -> BOOLEAN]
    /\ sock \in [Clients -> {"opening", "open", "lost", "timer"}]
    /\ cur \in [Clients -> Conns \cup {None}]
    /\ screen \in [Clients -> Blank .. LastVersion]
    /\ \A c \in Clients : screen[c] <= version

\* What a connection's state says of its record: it takes events exactly from its
\* registration until it is asked to close.
RecordOK(k) ==
    /\ conn[k].state = "closed" => conn[k] = Closed
    /\ conn[k].state # "closed" => conn[k].of \in Clients
    /\ conn[k].state = "open" => conn[k].listed \/ conn[k].code # 0
    /\ conn[k].listed => conn[k].state \in {"open", "dead"}

\* The two ends agree: a client's connection is the one resolved or open for him.
ServedOK(k) == conn[k].state \in {"resolved", "open"} => cur[conn[k].of] = k
SocketOK(c) ==
    /\ cur[c] # None => /\ conn[cur[c]].of = c
                        /\ conn[cur[c]].state \in {"resolved", "open"}
                        /\ sock[c] \in {"opening", "open"}
    /\ sock[c] = "open" => cur[c] # None /\ conn[cur[c]].state = "open"
    /\ sock[c] = "timer" => recovery[c]

Wired == (\A k \in Conns : RecordOK(k) /\ ServedOK(k)) /\ \A c \in Clients : SocketOK(c)

\* From registration on, an event newer than the screen is ahead of the connection
\* or in it, or its loss is one the code accepts.
Announced(c) ==
    \/ \E w \in Writers : pc[w] = "append" /\ news[w] > screen[c]
    \/ \E i \in DOMAIN handoff : handoff[i] > screen[c]
Heard(c) ==
    cur[c] # None /\ conn[cur[c]].state = "open" =>
        \/ screen[c] \in {Blank, version} \/ Announced(c)
        \/ conn[cur[c]].queue # <<>> \/ conn[cur[c]].code # 0
        \/ recovery[c] \/ missed[c] \/ ~session[c] \/ phase = "gaveUp"
NewsArrives == \A c \in Clients : Heard(c)

Places == IsFiniteSet(Listed) /\ \A c \in Clients : Cardinality(OnUser(UserOf[c])) <= ConnsPerUser

TInv == ServerOK /\ ConnOK /\ ClientOK
IInv == TInv /\ Wired /\ NewsArrives /\ Places

-----------------------------------------------------------------------------
(* The operators on connections *)

\* Asking for a close changes nothing but the code, which is then set.
LEMMA CloseIsAsked ==
    ASSUME ConnOK, NEW k \in Conns, NEW code \in Codes \ {0}
    PROVE  LET r == RequestClose(k, code) IN
           /\ r \in ConnRec /\ r.code # 0
           /\ r.state = conn[k].state /\ r.of = conn[k].of
           /\ r.listed = conn[k].listed /\ r.queue = conn[k].queue
<1>1. conn[k] \in ConnRec
  BY DEF ConnOK
<1>2. PICK d \in Codes : d # 0 /\ d = IF conn[k].code = 0 THEN code ELSE conn[k].code
  BY <1>1 DEF ConnRec
<1>3. RequestClose(k, code) = [conn[k] EXCEPT !.code = d]
  BY <1>1, <1>2 DEF RequestClose, ConnRec
<1> QED
  BY <1>1, <1>2, <1>3 DEF ConnRec

\* A fanned-out event only adds to a queue or takes its connection off the list
\* with a close asked for; in S it does one or the other.
FanEffect(S, f) ==
    /\ f \in [Conns -> ConnRec]
    /\ \A k \in Conns :
         /\ Len(f[k].queue) <= QueueMax
         /\ f[k].state = conn[k].state /\ f[k].of = conn[k].of
         /\ k \notin S => f[k] = conn[k]
         /\ f[k].listed => conn[k].listed
         /\ conn[k].listed => f[k].listed \/ f[k].code # 0
         /\ conn[k].code # 0 => f[k].code # 0
         /\ k \in S => f[k].queue # <<>> \/ f[k].code # 0

LEMMA FannedOutEffect ==
    ASSUME ConnOK, NEW S \in SUBSET Conns, NEW e \in 1 .. LastVersion
    PROVE  FanEffect(S, FannedOut(S, e))
<1> DEFINE f == FannedOut(S, e)
<1> DEFINE OK(k, r) ==
      /\ r \in ConnRec
      /\ Len(r.queue) <= QueueMax
      /\ r.state = conn[k].state /\ r.of = conn[k].of
      /\ k \notin S => r = conn[k]
      /\ r.listed => conn[k].listed
      /\ conn[k].listed => r.listed \/ r.code # 0
      /\ conn[k].code # 0 => r.code # 0
      /\ k \in S => r.queue # <<>> \/ r.code # 0
<1>1. ASSUME NEW k \in Conns PROVE OK(k, f[k])
  <2>1. conn[k] \in ConnRec /\ Len(conn[k].queue) <= QueueMax
    BY DEF ConnOK
  <2>2. CASE k \notin S
    BY <2>1, <2>2 DEF FannedOut
  <2>3. CASE k \in S /\ Len(conn[k].queue) < QueueMax
    <3>1. f[k] = [conn[k] EXCEPT !.queue = Append(conn[k].queue, e)]
      BY <2>3 DEF FannedOut
    <3>0. /\ Append(conn[k].queue, e) \in Seq(1 .. LastVersion) \ {<<>>}
          /\ Len(Append(conn[k].queue, e)) = Len(conn[k].queue) + 1
      BY <2>1 DEF ConnRec
    <3>2. PICK q \in Seq(1 .. LastVersion) :
            q = Append(conn[k].queue, e) /\ q # <<>> /\ Len(q) = Len(conn[k].queue) + 1
      BY <3>0, Zenon
    <3>3. Len(conn[k].queue) \in Nat /\ QueueMax \in Nat
      BY <2>1, RealtimeAssumption DEF ConnRec
    <3>4. Len(q) <= QueueMax
      BY <2>3, <3>2, <3>3
    <3> QED
      BY <2>1, <2>3, <3>1, <3>2, <3>4 DEF ConnRec
  <2>4. CASE k \in S /\ ~(Len(conn[k].queue) < QueueMax)
    <3> DEFINE r == RequestClose(k, TryAgainLater)
    <3>1. f[k] = [r EXCEPT !.listed = FALSE]
      BY <2>4 DEF FannedOut
    <3>2. TryAgainLater \in Codes \ {0}
      BY DEF TryAgainLater, Codes
    <3>3. /\ r \in ConnRec /\ r.code # 0
          /\ r.state = conn[k].state /\ r.of = conn[k].of
          /\ r.listed = conn[k].listed /\ r.queue = conn[k].queue
      BY <3>2, CloseIsAsked
    <3> HIDE DEF r
    <3> QED
      BY <2>1, <2>4, <3>1, <3>3 DEF ConnRec
  <2> QED
    BY <2>2, <2>3, <2>4
<1>2. f = [k \in Conns |-> f[k]]
  BY DEF FannedOut
<1> QED
  BY <1>1, <1>2 DEF FanEffect

\* What an append does to a queue, index by index.
LEMMA AppendEffect ==
    ASSUME NEW T, NEW q \in Seq(T), NEW e \in T, NEW r, r = Append(q, e)
    PROVE  /\ r \in Seq(T) /\ Len(r) = Len(q) + 1 /\ Len(q) \in Nat
           /\ DOMAIN q = 1 .. Len(q) /\ DOMAIN r = 1 .. Len(q) + 1
           /\ r[Len(q) + 1] = e
           /\ \A i \in DOMAIN q : i \in DOMAIN r /\ r[i] = q[i]
<1>1. r \in Seq(T) /\ Len(r) = Len(q) + 1 /\ Len(q) \in Nat /\ DOMAIN q = 1 .. Len(q)
  OBVIOUS
<1>2. DOMAIN r = 1 .. Len(q) + 1 /\ r[Len(q) + 1] = e
  BY <1>1
<1>3. \A i \in 1 .. Len(q) : r[i] = q[i]
  OBVIOUS
<1> QED
  BY <1>1, <1>2, <1>3

LEMMA HeadTail ==
    ASSUME NEW T, NEW q \in Seq(T), q # <<>>
    PROVE  /\ Head(q) \in T /\ Tail(q) \in Seq(T)
           /\ Len(q) \in Nat \ {0} /\ Len(Tail(q)) = Len(q) - 1
  OBVIOUS

-----------------------------------------------------------------------------
(* The invariant *)

LEMMA InitInv == Init => IInv
<1> SUFFICES ASSUME Init PROVE IInv
  OBVIOUS
<1>1. Closed \in ConnRec /\ Len(Closed.queue) = 0 /\ ~Closed.listed
  BY DEF Closed, ConnRec, Codes
<1>2. TInv
  <2>4. HandoffMax \in Nat /\ MaxRestarts \in Nat /\ LastVersion \in Nat
    BY RealtimeAssumption
  <2>5. <<>> \in Seq(1 .. LastVersion) /\ Len(<<>>) = 0
    OBVIOUS
  <2>6. handoff \in Seq(1 .. LastVersion) /\ Len(handoff) <= HandoffMax
    BY <2>4, <2>5 DEF Init
  <2>7. /\ pc \in [Writers -> {"idle", "append", "wake"}] /\ news \in [Writers -> 0 .. LastVersion]
        /\ \A w \in Writers : pc[w] = "append" => news[w] > 0
    BY <2>4 DEF Init
  <2>8. {scheduled, wakeup} \subseteq BOOLEAN /\ phase = "top"
    BY Zenon DEF Init
  <2>9. version \in 0 .. LastVersion /\ restarts \in 0 .. MaxRestarts
    BY <2>4 DEF Init
  <2>1. ServerOK
    BY <2>6, <2>7, <2>8, <2>9, Zenon DEF ServerOK
  <2>2. ConnOK
    BY <1>1, RealtimeAssumption DEF Init, ConnOK
  <2>3. ClientOK
    BY RealtimeAssumption DEF Init, ClientOK, Blank
  <2> QED
    BY <2>1, <2>2, <2>3 DEF TInv
<1>3. Wired
  BY RealtimeAssumption DEF Init, Wired, RecordOK, ServedOK, SocketOK, Closed
<1>4. NewsArrives
  BY DEF Init, NewsArrives, Heard
<1>5. Listed = {}
  BY <1>1 DEF Init, Listed
<1>6. Places
  BY <1>5, FS_EmptySet, RealtimeAssumption DEF Places, OnUser
<1> QED
  BY <1>2, <1>3, <1>4, <1>6 DEF IInv

\* A record that is not on the list, or was on it before, takes no new place.
LEMMA PlacesKept ==
    ASSUME IInv, conn' \in [Conns -> ConnRec],
           \A k \in Conns : conn'[k].listed => conn[k].listed /\ conn'[k].of = conn[k].of
    PROVE  Places'
<1>1. Listed' \subseteq Listed
  BY DEF Listed
<1>2. ASSUME NEW c \in Clients
      PROVE  /\ OnUser(UserOf[c])' \subseteq OnUser(UserOf[c])
             /\ IsFiniteSet(OnUser(UserOf[c]))
  BY FS_Subset DEF OnUser, Listed, IInv, Places
<1>3. IsFiniteSet(Listed')
  BY <1>1, FS_Subset DEF IInv, Places
<1>4. ASSUME NEW c \in Clients
      PROVE  Cardinality(OnUser(UserOf[c])') <= ConnsPerUser
  <2>1. /\ IsFiniteSet(OnUser(UserOf[c])')
        /\ Cardinality(OnUser(UserOf[c])') <= Cardinality(OnUser(UserOf[c]))
    BY <1>2, FS_Subset
  <2>2. /\ Cardinality(OnUser(UserOf[c])') \in Nat
        /\ Cardinality(OnUser(UserOf[c])) \in Nat /\ ConnsPerUser \in Nat
    BY <1>2, <2>1, FS_CardinalityType, RealtimeAssumption
  <2> QED
    BY <2>1, <2>2 DEF IInv, Places
<1> QED
  BY <1>3, <1>4 DEF Places

LEMMA WriterStep ==
    ASSUME IInv, NEW w \in Writers, Commit(w) \/ EmitAppend(w) \/ EmitWake(w)
    PROVE  IInv'
<1> USE DEF IInv
<1>1. UNCHANGED <<conn, client, session, phase, screen>>
  BY DEF Commit, EmitAppend, EmitWake, server
<1>2. Wired'
  BY <1>1 DEF Wired, RecordOK, ServedOK, SocketOK, client
<1>3. Places'
  BY <1>1 DEF Places, OnUser, Listed
<1>4. CASE Commit(w)
  <2>1. ServerOK'
    BY <1>4, RealtimeAssumption DEF Commit, TInv, ServerOK, server
  <2>3. ConnOK' /\ ClientOK'
    BY <1>1, <1>4, RealtimeAssumption DEF Commit, TInv, ServerOK, ConnOK, ClientOK, client, Blank
  <2>2. ASSUME NEW c \in Clients PROVE Announced(c)'
    BY <1>4, RealtimeAssumption DEF Commit, TInv, ServerOK, ClientOK, Announced, Blank
  <2> QED
    BY <1>2, <1>3, <2>1, <2>2, <2>3 DEF TInv, NewsArrives, Heard
<1>5. CASE EmitAppend(w) /\ Len(handoff) >= HandoffMax
  <2>1. TInv' /\ \A c \in Clients : missed'[c]
    BY <1>5, RealtimeAssumption DEF EmitAppend, TInv, ServerOK, ConnOK, ClientOK, client
  <2> QED
    BY <1>2, <1>3, <2>1 DEF NewsArrives, Heard
<1>6. CASE EmitAppend(w) /\ ~(Len(handoff) >= HandoffMax)
  <2>1. news[w] \in 1 .. LastVersion
    BY <1>6, RealtimeAssumption DEF EmitAppend, TInv, ServerOK
  <2>0. handoff' = Append(handoff, news[w]) /\ handoff \in Seq(1 .. LastVersion)
    BY <1>6 DEF EmitAppend, TInv, ServerOK
  <2>9. /\ handoff' \in Seq(1 .. LastVersion)
        /\ Len(handoff') = Len(handoff) + 1 /\ Len(handoff) \in Nat
        /\ DOMAIN handoff' = 1 .. Len(handoff) + 1
        /\ handoff'[Len(handoff) + 1] = news[w]
        /\ \A i \in DOMAIN handoff : i \in DOMAIN handoff' /\ handoff'[i] = handoff[i]
    BY <2>0, <2>1, AppendEffect
  <2>2. Len(handoff') <= HandoffMax
    BY <1>6, <2>9, RealtimeAssumption
  <2>3. TInv'
    BY <1>6, <2>2, <2>9 DEF EmitAppend, TInv, ServerOK, ConnOK, ClientOK, client
  <2>4. ASSUME NEW c \in Clients, Announced(c) PROVE Announced(c)'
    <3>1. CASE news[w] > screen[c]
      <4>1. Len(handoff) + 1 \in DOMAIN handoff'
        BY <2>9
      <4> QED
        BY <1>1, <3>1, <4>1, <2>9 DEF Announced
    <3>2. CASE \E v \in Writers \ {w} : pc[v] = "append" /\ news[v] > screen[c]
      BY <1>1, <1>6, <3>2 DEF EmitAppend, TInv, ServerOK, Announced
    <3>3. CASE \E i \in DOMAIN handoff : handoff[i] > screen[c]
      BY <1>1, <3>3, <2>9 DEF Announced
    <3> QED
      BY <2>4, <3>1, <3>2, <3>3 DEF Announced
  <2>5. NewsArrives'
    BY <1>1, <1>6, <2>4 DEF EmitAppend, NewsArrives, Heard, client
  <2> QED
    BY <1>2, <1>3, <2>3, <2>5
<1>7. CASE EmitWake(w)
  <2>1. TInv'
    BY <1>7, RealtimeAssumption DEF EmitWake, TInv, ServerOK, ConnOK, ClientOK, client
  <2>2. NewsArrives'
    BY <1>7 DEF EmitWake, NewsArrives, Heard, Announced, TInv, ServerOK, client
  <2> QED
    BY <1>2, <1>3, <2>1, <2>2
<1> QED
  BY <1>4, <1>5, <1>6, <1>7

\* One envelope handed to the connections in S, part or all of the list.
LEMMA FanStep ==
    ASSUME IInv, handoff # <<>>, NEW S \in SUBSET Listed,
           conn' = FannedOut(S, Head(handoff)), UNCHANGED client
    PROVE  /\ ConnOK' /\ Wired' /\ Places'
           /\ \A k \in Conns :
                /\ conn'[k].state = conn[k].state /\ conn'[k].of = conn[k].of
                /\ k \in S \/ conn[k].code # 0 => conn'[k].queue # <<>> \/ conn'[k].code # 0
<1>1. Head(handoff) \in 1 .. LastVersion
  BY HeadTail DEF IInv, TInv, ServerOK
<1>6. ConnOK /\ S \in SUBSET Conns
  BY DEF IInv, TInv, Listed
<1>2. FanEffect(S, conn')
  BY <1>1, <1>6, FannedOutEffect, Zenon
<1>3. Places'
  BY <1>2, PlacesKept DEF FanEffect
<1>4. ASSUME NEW k \in Conns PROVE RecordOK(k)' /\ ServedOK(k)'
  <2>1. /\ conn'[k].state = conn[k].state /\ conn'[k].of = conn[k].of /\ cur' = cur
        /\ k \notin S => conn'[k] = conn[k]
        /\ conn'[k].listed => conn[k].listed
        /\ conn[k].listed => conn'[k].listed \/ conn'[k].code # 0
        /\ conn[k].code # 0 => conn'[k].code # 0
    BY <1>2 DEF FanEffect, client
  <2>2. RecordOK(k) /\ ServedOK(k) /\ (k \in S => conn[k].listed)
    BY DEF IInv, Wired, Listed
  <2>3. conn[k].listed => conn[k].state # "closed"
    BY <2>2 DEF RecordOK
  <2> QED
    BY <2>1, <2>2, <2>3 DEF RecordOK, ServedOK
<1>5. ASSUME NEW c \in Clients PROVE SocketOK(c)'
  <2>1. SocketOK(c) /\ cur[c] \in Conns \cup {None} /\ UNCHANGED <<cur, sock, recovery>>
    BY DEF IInv, TInv, ClientOK, Wired, client
  <2>2. cur[c] # None =>
          conn'[cur[c]].of = conn[cur[c]].of /\ conn'[cur[c]].state = conn[cur[c]].state
    BY <1>2, <2>1 DEF FanEffect
  <2> QED
    BY <2>1, <2>2 DEF SocketOK
<1> QED
  BY <1>2, <1>3, <1>4, <1>5 DEF FanEffect, ConnOK, Wired

LEMMA DispatchStep ==
    ASSUME IInv, Dispatch \/ DispatchCrash
    PROVE  IInv'
<1> USE DEF IInv
<1>1. CASE WakeupSet \/ DispatchTop \/ DispatchWoken \/ Drained
  <2>1. UNCHANGED <<version, pc, news, handoff, restarts, conn, session, client, screen, missed>>
    BY <1>1 DEF WakeupSet, DispatchTop, DispatchWoken, Drained
  <2>2. /\ phase' \in {"top", "wait", "drain", "gaveUp"} /\ {scheduled', wakeup'} \subseteq BOOLEAN
        /\ phase = "gaveUp" => phase' = "gaveUp"
    BY <1>1 DEF WakeupSet, DispatchTop, DispatchWoken, Drained, TInv, ServerOK, LeftBehind
  <2>3. TInv'
    BY <2>1, <2>2 DEF TInv, ServerOK, ConnOK, ClientOK, client
  <2>4. Wired' /\ Places'
    BY <2>1 DEF Wired, RecordOK, ServedOK, SocketOK, Places, OnUser, Listed, client
  <2>5. NewsArrives'
    BY <2>1, <2>2 DEF NewsArrives, Heard, Announced, client
  <2> QED
    BY <2>3, <2>4, <2>5
<1>2. CASE FanOut
  <2>1. ConnOK' /\ Wired' /\ Places'
    BY <1>2, FanStep DEF FanOut
  <2>2. \A k \in Conns :
          /\ conn'[k].state = conn[k].state
          /\ k \in Listed \/ conn[k].code # 0 => conn'[k].queue # <<>> \/ conn'[k].code # 0
    BY <1>2, FanStep DEF FanOut
  <2>5. handoff' \in Seq(1 .. LastVersion) /\ Len(handoff') <= HandoffMax
    <3>1. /\ handoff' \in Seq(1 .. LastVersion)
          /\ Len(handoff) \in Nat /\ Len(handoff') = Len(handoff) - 1
      BY <1>2, HeadTail DEF FanOut, TInv, ServerOK
    <3> QED
      BY <3>1, RealtimeAssumption DEF TInv, ServerOK
  <2>3. TInv'
    BY <1>2, <2>1, <2>5 DEF FanOut, TInv, ServerOK, ClientOK, client
  <2>4. ASSUME NEW c \in Clients PROVE Heard(c)'
    BY <1>2, <2>2 DEF FanOut, Heard, client, Wired, RecordOK, Listed, TInv, ClientOK
  <2> QED
    BY <2>1, <2>3, <2>4 DEF NewsArrives
<1>3. CASE DispatchCrash
  <2>1. PICK S \in SUBSET Listed :
          /\ conn' = FannedOut(S, Head(handoff))
          /\ missed' = [c \in Clients |-> missed[c] \/ \E k \in Listed \ S : conn[k].of = c]
    BY <1>3 DEF DispatchCrash
  <2>2. ConnOK' /\ Wired' /\ Places'
    BY <1>3, <2>1, FanStep DEF DispatchCrash
  <2>3. \A k \in Conns :
          /\ conn'[k].state = conn[k].state
          /\ k \in S \/ conn[k].code # 0 => conn'[k].queue # <<>> \/ conn'[k].code # 0
    BY <1>3, <2>1, FanStep DEF DispatchCrash
  <2>4. missed' \in [Clients -> BOOLEAN]
    BY <2>1, Zenon DEF TInv, ClientOK
  <2>5. ServerOK'
    <3>1. /\ handoff' \in Seq(1 .. LastVersion)
          /\ Len(handoff) \in Nat /\ Len(handoff') = Len(handoff) - 1
      BY <1>3, HeadTail DEF DispatchCrash, TInv, ServerOK
    <3>2. restarts' \in 0 .. MaxRestarts
      BY <1>3, RealtimeAssumption DEF DispatchCrash, TInv, ServerOK
    <3>3. Len(handoff') <= HandoffMax
      BY <3>1, RealtimeAssumption DEF TInv, ServerOK
    <3> QED
      BY <1>3, <3>1, <3>2, <3>3 DEF DispatchCrash, TInv, ServerOK
  <2>6. TInv'
    BY <1>3, <2>2, <2>4, <2>5 DEF DispatchCrash, TInv, ClientOK, client
  <2>7. ASSUME NEW c \in Clients, cur[c] # None, conn[cur[c]].state = "open"
        PROVE  \/ conn'[cur[c]].queue # <<>> \/ conn'[cur[c]].code # 0
               \/ missed'[c]
    <3>1. /\ cur[c] \in Conns /\ conn[cur[c]].of = c
          /\ cur[c] \in Listed \/ conn[cur[c]].code # 0
      BY <2>7 DEF Wired, RecordOK, SocketOK, Listed, TInv, ClientOK
    <3>2. CASE cur[c] \in S \/ conn[cur[c]].code # 0
      BY <2>3, <3>1, <3>2
    <3>3. CASE cur[c] \in Listed \ S
      BY <2>1, <3>1, <3>3
    <3> QED
      BY <3>1, <3>2, <3>3
  <2>8. ASSUME NEW c \in Clients PROVE Heard(c)'
    BY <1>3, <2>3, <2>7 DEF DispatchCrash, Heard, client, TInv, ClientOK
  <2> QED
    BY <2>2, <2>6, <2>8 DEF NewsArrives
<1> QED
  BY <1>1, <1>2, <1>3 DEF Dispatch

\* The state of the dispatch task and of the writers is not touched.
Apart == UNCHANGED <<version, pc, news, server, session>>

\* One connection's record becomes r and takes no place it did not have.
LEMMA OneConnection ==
    ASSUME IInv, Apart, NEW k \in Conns, NEW r \in ConnRec, conn' = [conn EXCEPT ![k] = r],
           Len(r.queue) <= QueueMax
    PROVE  /\ ServerOK' /\ ConnOK'
           /\ (r.listed => conn[k].listed /\ r.of = conn[k].of) => Places'
<1>1. ServerOK'
  BY DEF IInv, TInv, ServerOK, Apart, server
<1>2. conn' \in [Conns -> ConnRec] /\ \A j \in Conns : conn'[j] = IF j = k THEN r ELSE conn[j]
  BY DEF IInv, TInv, ConnOK
<1>3. ConnOK'
  BY <1>2 DEF IInv, TInv, ConnOK
<1>4. (r.listed => conn[k].listed /\ r.of = conn[k].of) => Places'
  BY <1>2, PlacesKept
<1> QED
  BY <1>1, <1>3, <1>4

LEMMA ClosedRecord ==
    /\ Closed \in ConnRec /\ Len(Closed.queue) = 0 /\ Len(Closed.queue) <= QueueMax
    /\ ~Closed.listed /\ Closed.state = "closed" /\ Closed.code = 0
<1>1. Closed \in ConnRec /\ Len(Closed.queue) = 0
  BY DEF Closed, ConnRec, Codes
<1> QED
  BY <1>1, RealtimeAssumption DEF Closed

LEMMA FetchEffect ==
    ASSUME ClientOK, NEW S, FetchBy(S), version' = version, version \in 0 .. LastVersion
    PROVE  /\ screen' \in [Clients -> Blank .. LastVersion]
           /\ missed' \in [Clients -> BOOLEAN]
           /\ \A c \in Clients : /\ screen'[c] <= version'
                                 /\ c \in S => screen'[c] = version'
                                 /\ c \notin S => screen'[c] = screen[c] /\ missed'[c] = missed[c]
<1>1. missed' \in [Clients -> BOOLEAN]
  BY Zenon DEF FetchBy
<1>2. \A c \in Clients : screen[c] \in Blank .. LastVersion /\ screen[c] <= version
  BY DEF ClientOK
<1>3. Blank <= 0 /\ Blank \in Int
  BY DEF Blank
<1>4. \A c \in Clients : screen'[c] \in Blank .. LastVersion /\ screen'[c] <= version
  BY <1>2, <1>3, RealtimeAssumption DEF FetchBy
<1>5. \A c \in Clients : /\ c \in S => screen'[c] = version
                         /\ c \notin S => screen'[c] = screen[c] /\ missed'[c] = missed[c]
  BY DEF FetchBy, ClientOK
<1> QED
  BY <1>1, <1>4, <1>5 DEF FetchBy

LEMMA ResolveStep ==
    ASSUME IInv, NEW c \in Clients, NEW k \in Conns, Resolve(c, k)
    PROVE  IInv'
<1>1. Apart /\ UNCHANGED <<screen, missed>> /\ cur[c] = None /\ sock[c] = "opening"
  BY DEF Resolve, Apart
<1>2. /\ conn \in [Conns -> ConnRec] /\ cur \in [Clients -> Conns \cup {None}]
      /\ conn[k].state = "closed" /\ ~conn[k].listed
  BY DEF Resolve, Closed, IInv, TInv, ConnOK, ClientOK
<1>3. CASE session[c]
  <2> DEFINE r == NewConnection(c)
  <2>1. /\ conn' = [conn EXCEPT ![k] = r] /\ cur' = [cur EXCEPT ![c] = k]
        /\ UNCHANGED <<sock, recovery>>
    BY <1>3 DEF Resolve
  <2>2. /\ r \in ConnRec /\ Len(r.queue) <= QueueMax /\ ~r.listed
        /\ r.state = "resolved" /\ r.of = c
    BY ClosedRecord DEF NewConnection, ConnRec
  <2> HIDE DEF r
  <2>3. ServerOK' /\ ConnOK' /\ Places'
    BY <1>1, <2>1, <2>2, OneConnection, Zenon
  <2>4. ClientOK'
    BY <1>1, <2>1 DEF IInv, TInv, ClientOK, Apart
  <2>5. ASSUME NEW j \in Conns PROVE RecordOK(j)' /\ ServedOK(j)'
    BY <1>1, <1>2, <2>1, <2>2, RealtimeAssumption DEF IInv, Wired, RecordOK, ServedOK, Closed
  <2>6. ASSUME NEW d \in Clients PROVE SocketOK(d)'
    BY <1>1, <1>2, <2>1, <2>2, RealtimeAssumption DEF IInv, Wired, SocketOK, TInv, ClientOK
  <2>7. ASSUME NEW d \in Clients PROVE Heard(d)'
    BY <1>1, <1>2, <2>1, <2>2
    DEF IInv, NewsArrives, Heard, Announced, Apart, server, Wired, SocketOK
  <2> QED
    BY <2>3, <2>4, <2>5, <2>6, <2>7 DEF IInv, TInv, Wired, NewsArrives
<1>4. CASE ~session[c]
  <2>1. /\ UNCHANGED <<conn, cur>> /\ sock' = [sock EXCEPT ![c] = "timer"]
        /\ recovery' = [recovery EXCEPT ![c] = TRUE]
    BY <1>4 DEF Resolve
  <2>2. TInv'
    BY <1>1, <2>1 DEF IInv, TInv, ServerOK, ConnOK, ClientOK, Apart, server
  <2>3. Wired'
    BY <1>1, <1>2, <2>1 DEF IInv, TInv, ClientOK, Wired, RecordOK, ServedOK, SocketOK
  <2>4. NewsArrives'
    BY <1>1, <2>1 DEF IInv, TInv, ClientOK, NewsArrives, Heard, Announced, Apart, server
  <2>5. Places'
    BY <2>1 DEF IInv, Places, OnUser, Listed
  <2> QED
    BY <2>2, <2>3, <2>4, <2>5 DEF IInv
<1> QED
  BY <1>3, <1>4

\* A place is given only below the cap.
LEMMA OnePlaceMore ==
    ASSUME IInv, NEW k \in Conns, NEW c \in Clients, conn[k].of = c, ~AtCap(UserOf[c]),
           conn' \in [Conns -> ConnRec],
           \A j \in Conns : /\ conn'[j].of = conn[j].of
                            /\ conn'[j].listed <=> (conn[j].listed \/ j = k)
    PROVE  Places'
<1>1. Listed' = Listed \cup {k}
  BY DEF Listed
<1>2. IsFiniteSet(Listed')
  BY <1>1, FS_AddElement DEF IInv, Places
<1>3. ASSUME NEW d \in Clients
      PROVE  Cardinality(OnUser(UserOf[d])') <= ConnsPerUser
  <2> DEFINE U == OnUser(UserOf[d])
             V == {j \in Listed' : UserOf[conn[j].of] = UserOf[d]}
  <2>1. OnUser(UserOf[d])' = V
    BY <1>1 DEF OnUser, Listed
  <2>2. IsFiniteSet(U) /\ Cardinality(U) <= ConnsPerUser
    BY FS_Subset DEF IInv, Places, OnUser
  <2>3. Cardinality(U) \in Nat /\ ConnsPerUser \in Nat
    BY <2>2, FS_CardinalityType, RealtimeAssumption
  <2>4. CASE UserOf[c] = UserOf[d]
    <3>1. V = U \cup {k}
      BY <1>1, <2>4 DEF OnUser
    <3>2. Cardinality(U) < ConnsPerUser
      BY <2>3, <2>4 DEF AtCap
    <3>3. Cardinality(V) \in {Cardinality(U), Cardinality(U) + 1}
      <4> HIDE DEF U, V
      <4> QED
        BY <2>2, <3>1, FS_AddElement
    <3> QED
      BY <2>1, <2>3, <3>2, <3>3
  <2>5. CASE UserOf[c] # UserOf[d]
    <3>1. V = U
      BY <1>1, <2>5 DEF OnUser
    <3> QED
      BY <2>1, <2>2, <3>1
  <2> QED
    BY <2>4, <2>5
<1> QED
  BY <1>2, <1>3 DEF Places

LEMMA RegisterStep ==
    ASSUME IInv, NEW k \in Conns, Register(k)
    PROVE  IInv'
<1>1. PICK c \in Clients : c = conn[k].of
  BY DEF Register, IInv, Wired, RecordOK
<1>2. /\ Apart /\ UNCHANGED screen /\ cur[c] = k /\ conn[k].state = "resolved"
      /\ conn \in [Conns -> ConnRec] /\ conn[k] \in ConnRec
  BY <1>1 DEF Register, Apart, IInv, TInv, ConnOK, Wired, ServedOK
<1>3. CASE AtCap(UserOf[c])
  <2>1. /\ conn' = [conn EXCEPT ![k] = Closed]
        /\ sock' = [sock EXCEPT ![c] = "timer"] /\ cur' = [cur EXCEPT ![c] = None]
        /\ recovery' = [recovery EXCEPT ![c] = TRUE] /\ UNCHANGED missed
    BY <1>1, <1>3 DEF Register
  <2>2. ServerOK' /\ ConnOK' /\ Places'
    BY <1>2, <2>1, ClosedRecord, OneConnection, Zenon
  <2>3. ClientOK'
    BY <1>2, <2>1 DEF IInv, TInv, ClientOK, Apart
  <2>4. ASSUME NEW j \in Conns PROVE RecordOK(j)' /\ ServedOK(j)'
    BY <1>2, <2>1, ClosedRecord DEF IInv, TInv, ClientOK, Wired, RecordOK, ServedOK
  <2>5. ASSUME NEW d \in Clients PROVE SocketOK(d)'
    BY <1>1, <1>2, <2>1, ClosedRecord DEF IInv, TInv, ClientOK, Wired, ServedOK, SocketOK
  <2>6. ASSUME NEW d \in Clients PROVE Heard(d)'
    <3>1. /\ Heard(d) /\ SocketOK(d)
          /\ d # c => cur'[d] = cur[d] /\ recovery'[d] = recovery[d]
          /\ cur[d] \in Conns \cup {None} /\ cur'[c] = None
      BY <1>2, <2>1 DEF IInv, TInv, ClientOK, NewsArrives, Wired
    <3>2. d # c /\ cur[d] # None => cur[d] # k
      BY <1>1, <1>2, <3>1 DEF SocketOK
    <3>3. d # c /\ cur[d] # None => conn'[cur[d]] = conn[cur[d]]
      BY <1>2, <2>1, <3>1, <3>2
    <3> QED
      BY <1>2, <2>1, <3>1, <3>3 DEF Heard, Announced, Apart, server
  <2> QED
    BY <2>2, <2>3, <2>4, <2>5, <2>6 DEF IInv, TInv, Wired, NewsArrives
<1>4. CASE ~AtCap(UserOf[c])
  <2> DEFINE late == ~recovery[c] /\ screen[c] # Blank /\ screen[c] < version
  <2>1. /\ UNCHANGED client /\ missed' = [missed EXCEPT ![c] = missed[c] \/ late]
        /\ conn' = [conn EXCEPT ![k].state = "open", ![k].listed = TRUE]
    BY <1>1, <1>4 DEF Register
  <2>2. PICK r \in ConnRec :
          /\ conn' = [conn EXCEPT ![k] = r]
          /\ r.state = "open" /\ r.listed = TRUE /\ r.of = c
          /\ r.queue = conn[k].queue /\ r.code = conn[k].code
    <3> DEFINE r == [conn[k] EXCEPT !.state = "open", !.listed = TRUE]
    <3>1. conn' = [conn EXCEPT ![k] = r]
      BY <1>2, <2>1
    <3>2. /\ r \in ConnRec /\ r.state = "open" /\ r.listed = TRUE /\ r.of = c
          /\ r.queue = conn[k].queue /\ r.code = conn[k].code
      BY <1>1, <1>2 DEF ConnRec
    <3> HIDE DEF r
    <3> QED
      BY <3>1, <3>2
  <2>3. ServerOK' /\ ConnOK'
    BY <1>2, <2>2, OneConnection DEF IInv, TInv, ConnOK
  <2>4. Places'
    <3>1. \A j \in Conns : /\ conn'[j].of = conn[j].of
                           /\ conn'[j].listed <=> (conn[j].listed \/ j = k)
      BY <1>1, <1>2, <2>2
    <3> QED
      BY <1>1, <1>4, <2>3, <3>1, OnePlaceMore DEF ConnOK
  <2>5. missed' \in [Clients -> BOOLEAN]
    BY <2>1, Zenon DEF IInv, TInv, ClientOK
  <2>6. ClientOK'
    BY <1>2, <2>1, <2>5 DEF IInv, TInv, ClientOK, Apart, client
  <2>7. ASSUME NEW j \in Conns PROVE RecordOK(j)' /\ ServedOK(j)'
    <3>1. CASE j = k
      BY <1>2, <2>1, <2>2, <3>1 DEF RecordOK, ServedOK, client
    <3>2. CASE j # k
      <4>1. conn'[j] = conn[j] /\ UNCHANGED cur
        BY <1>2, <2>1, <2>2, <3>2 DEF client
      <4> QED
        BY <4>1 DEF IInv, Wired, RecordOK, ServedOK
    <3> QED
      BY <3>1, <3>2
  <2>8. ASSUME NEW d \in Clients PROVE SocketOK(d)'
    BY <1>1, <1>2, <2>1, <2>2 DEF IInv, TInv, ClientOK, Wired, SocketOK, client
  <2>9. Heard(c)'
    <3>1. missed'[c] <=> (missed[c] \/ late)
      BY <2>1 DEF IInv, TInv, ClientOK
    <3>2. screen[c] \in Blank .. LastVersion /\ screen[c] <= version /\ version \in 0 .. LastVersion
      BY DEF IInv, TInv, ClientOK, ServerOK
    <3>3. screen[c] \in {Blank, version} \/ recovery[c] \/ late
      BY <3>2, RealtimeAssumption DEF Blank
    <3> QED
      BY <1>2, <2>1, <3>1, <3>3 DEF Heard, Apart, client
  <2>10. ASSUME NEW d \in Clients \ {c} PROVE Heard(d)'
    <3>1. missed'[d] = missed[d]
      BY <2>1 DEF IInv, TInv, ClientOK
    <3>2. cur[d] # None => cur[d] \in Conns \ {k}
      BY <1>1 DEF IInv, TInv, ClientOK, Wired, SocketOK
    <3>3. cur[d] # None => conn'[cur[d]] = conn[cur[d]]
      BY <1>2, <2>2, <3>2
    <3> QED
      BY <1>2, <2>1, <3>1, <3>3 DEF IInv, NewsArrives, Heard, Announced, Apart, client, server
  <2> QED
    BY <2>3, <2>4, <2>6, <2>7, <2>8, <2>9, <2>10 DEF IInv, TInv, Wired, NewsArrives
<1> QED
  BY <1>3, <1>4

\* A step that leaves client c's end and connection alone leaves his news alone.
LEMMA NewsKept ==
    ASSUME IInv, NEW d \in Clients,
           UNCHANGED <<version, pc, news, handoff, phase>>,
           cur'[d] = cur[d], recovery'[d] = recovery[d], screen'[d] = screen[d],
           missed'[d] = missed[d], session'[d] = session[d],
           cur[d] # None => conn'[cur[d]] = conn[cur[d]]
    PROVE  Heard(d)'
  BY DEF IInv, NewsArrives, Heard, Announced

LEMMA SendPumpStep ==
    ASSUME IInv, NEW k \in Conns, SendPump(k)
    PROVE  IInv'
<1>1. PICK c \in Clients : c = conn[k].of
  BY DEF SendPump, IInv, Wired, RecordOK
<1>2. PICK S \in SUBSET {c} : FetchBy(S) /\ (session[c] => c \in S)
  BY <1>1 DEF SendPump
<1>3. /\ Apart /\ UNCHANGED client /\ cur[c] = k /\ conn[k].queue # <<>>
      /\ conn \in [Conns -> ConnRec] /\ conn[k] \in ConnRec /\ Len(conn[k].queue) <= QueueMax
      /\ conn' = [conn EXCEPT ![k].queue = Tail(conn[k].queue)]
  BY <1>1 DEF SendPump, Apart, IInv, TInv, ConnOK, Wired, ServedOK
<1>4. PICK r \in ConnRec :
        /\ conn' = [conn EXCEPT ![k] = r] /\ Len(r.queue) <= QueueMax
        /\ r.state = conn[k].state /\ r.listed = conn[k].listed /\ r.of = conn[k].of
        /\ r.code = conn[k].code
  <2> DEFINE r == [conn[k] EXCEPT !.queue = Tail(conn[k].queue)]
  <2>1. /\ Tail(conn[k].queue) \in Seq(1 .. LastVersion) /\ Len(conn[k].queue) \in Nat
        /\ Len(Tail(conn[k].queue)) = Len(conn[k].queue) - 1
    BY <1>3, HeadTail DEF ConnRec
  <2>2. Len(Tail(conn[k].queue)) <= QueueMax
    BY <1>3, <2>1, RealtimeAssumption
  <2>3. /\ r \in ConnRec /\ r.queue = Tail(conn[k].queue)
        /\ r.state = conn[k].state /\ r.listed = conn[k].listed /\ r.of = conn[k].of
        /\ r.code = conn[k].code
    BY <1>3, <2>1 DEF ConnRec
  <2>4. conn' = [conn EXCEPT ![k] = r]
    BY <1>3
  <2> HIDE DEF r
  <2> QED
    BY <2>2, <2>3, <2>4
<1>5. ServerOK' /\ ConnOK' /\ Places'
  <2>1. PICK q \in ConnRec :
          /\ conn' = [conn EXCEPT ![k] = q] /\ Len(q.queue) <= QueueMax
          /\ q.listed => conn[k].listed /\ q.of = conn[k].of
    BY <1>4
  <2> QED
    BY <1>3, <2>1, OneConnection
<1>6. /\ screen' \in [Clients -> Blank .. LastVersion] /\ missed' \in [Clients -> BOOLEAN]
      /\ \A d \in Clients : /\ screen'[d] <= version'
                            /\ d \in S => screen'[d] = version'
                            /\ d \notin S => screen'[d] = screen[d] /\ missed'[d] = missed[d]
  BY <1>2, <1>3, FetchEffect DEF IInv, TInv, ServerOK, Apart
<1>7. ClientOK'
  BY <1>3, <1>6 DEF IInv, TInv, ClientOK, Apart, client
<1>8. ASSUME NEW j \in Conns
      PROVE  /\ conn'[j].state = conn[j].state /\ conn'[j].of = conn[j].of
             /\ conn'[j].listed = conn[j].listed /\ conn'[j].code = conn[j].code
             /\ j # k => conn'[j] = conn[j]
  BY <1>3, <1>4
<1>9. Wired'
  <2>1. ASSUME NEW j \in Conns PROVE RecordOK(j)' /\ ServedOK(j)'
    BY <1>3, <1>8, ClosedRecord DEF SendPump, IInv, Wired, RecordOK, ServedOK, client
  <2>2. ASSUME NEW d \in Clients PROVE SocketOK(d)'
    BY <1>3, <1>8 DEF IInv, Wired, SocketOK, client, TInv, ClientOK
  <2> QED
    BY <2>1, <2>2 DEF Wired
<1>10. ASSUME NEW d \in Clients PROVE Heard(d)'
  <2>1. CASE d = c
    BY <1>2, <1>3, <1>6, <2>1 DEF Heard, Apart
  <2>2. CASE d # c
    <3>1. cur[d] # None => conn'[cur[d]] = conn[cur[d]]
      BY <1>1, <1>8, <2>2 DEF IInv, TInv, ClientOK, Wired, SocketOK
    <3>2. screen'[d] = screen[d] /\ missed'[d] = missed[d]
      BY <1>2, <1>6, <2>2
    <3> QED
      BY <1>3, <3>1, <3>2, NewsKept DEF Apart, server, client
  <2> QED
    BY <2>1, <2>2
<1> QED
  BY <1>5, <1>7, <1>9, <1>10 DEF IInv, TInv, NewsArrives

LEMMA RevalidateStep ==
    ASSUME IInv, NEW k \in Conns, Revalidate(k)
    PROVE  IInv'
<1> DEFINE r == RequestClose(k, PolicyViolation)
<1>1. /\ Apart /\ UNCHANGED <<client, screen, missed>> /\ conn' = [conn EXCEPT ![k] = r]
      /\ conn \in [Conns -> ConnRec] /\ Len(conn[k].queue) <= QueueMax
  BY DEF Revalidate, Apart, IInv, TInv, ConnOK
<1>2. /\ r \in ConnRec /\ r.code # 0
      /\ r.state = conn[k].state /\ r.of = conn[k].of
      /\ r.listed = conn[k].listed /\ r.queue = conn[k].queue
  <2>1. PolicyViolation \in Codes \ {0}
    BY DEF PolicyViolation, Codes
  <2> QED
    BY <2>1, CloseIsAsked DEF IInv, TInv
<1> HIDE DEF r
<1>3. ServerOK' /\ ConnOK' /\ Places'
  BY <1>1, <1>2, OneConnection
<1>4. ClientOK'
  BY <1>1 DEF IInv, TInv, ClientOK, Apart, client
<1>5. ASSUME NEW j \in Conns
      PROVE  /\ conn'[j].state = conn[j].state /\ conn'[j].of = conn[j].of
             /\ conn'[j].listed = conn[j].listed
             /\ conn'[j].code = conn[j].code \/ conn'[j].code # 0
             /\ conn'[j].queue = conn[j].queue
             /\ j # k => conn'[j] = conn[j]
  BY <1>1, <1>2
<1>6. Wired'
  <2>1. ASSUME NEW j \in Conns PROVE RecordOK(j)' /\ ServedOK(j)'
    BY <1>1, <1>5, ClosedRecord DEF Revalidate, IInv, Wired, RecordOK, ServedOK, client
  <2>2. ASSUME NEW d \in Clients PROVE SocketOK(d)'
    BY <1>1, <1>5 DEF IInv, Wired, SocketOK, client, TInv, ClientOK
  <2> QED
    BY <2>1, <2>2 DEF Wired
<1>7. ASSUME NEW d \in Clients PROVE Heard(d)'
  <2>1. cur[d] # None => cur[d] \in Conns
    BY DEF IInv, TInv, ClientOK
  <2> QED
    BY <1>1, <1>5, <2>1 DEF IInv, NewsArrives, Heard, Announced, Apart, server, client
<1> QED
  BY <1>3, <1>4, <1>6, <1>7 DEF IInv, TInv, NewsArrives

LEMMA FinishStep ==
    ASSUME IInv, NEW k \in Conns, Finish(k)
    PROVE  IInv'
<1>1. PICK c \in Clients : c = conn[k].of
  BY DEF Finish, IInv, Wired, RecordOK
<1>2. /\ Apart /\ UNCHANGED <<screen, missed>> /\ conn' = [conn EXCEPT ![k] = Closed]
      /\ conn \in [Conns -> ConnRec]
  BY DEF Finish, Apart, Left, IInv, TInv, ConnOK
<1>3. ServerOK' /\ ConnOK' /\ Places'
  BY <1>2, ClosedRecord, OneConnection, Zenon
<1>4. CASE cur[c] = k
  <2>1. sock[c] \in {"opening", "open"}
    BY <1>4, RealtimeAssumption DEF IInv, Wired, SocketOK
  <2>2. /\ sock' = [sock EXCEPT ![c] = "timer"] /\ cur' = [cur EXCEPT ![c] = None]
        /\ recovery' = [recovery EXCEPT ![c] = TRUE]
    BY <1>1, <1>4, <2>1 DEF Finish, Recovers
  <2>3. ClientOK'
    BY <1>2, <2>2 DEF IInv, TInv, ClientOK, Apart
  <2>4. ASSUME NEW j \in Conns PROVE RecordOK(j)' /\ ServedOK(j)'
    BY <1>2, <1>4, <2>2, ClosedRecord DEF IInv, TInv, ClientOK, Wired, RecordOK, ServedOK
  <2>5. ASSUME NEW d \in Clients PROVE SocketOK(d)'
    BY <1>1, <1>2, <2>2, ClosedRecord DEF IInv, TInv, ClientOK, Wired, SocketOK
  <2>6. ASSUME NEW d \in Clients PROVE Heard(d)'
    <3>1. CASE d = c
      BY <2>2, <3>1 DEF Heard, IInv, TInv, ClientOK
    <3>2. CASE d # c
      <4>1. cur[d] # None => conn'[cur[d]] = conn[cur[d]]
        BY <1>1, <1>2, <3>2 DEF IInv, TInv, ClientOK, Wired, SocketOK
      <4>2. cur'[d] = cur[d] /\ recovery'[d] = recovery[d]
        BY <2>2, <3>2 DEF IInv, TInv, ClientOK
      <4> QED
        BY <1>2, <4>1, <4>2, NewsKept DEF Apart, server
    <3> QED
      BY <3>1, <3>2
  <2> QED
    BY <1>3, <2>3, <2>4, <2>5, <2>6 DEF IInv, TInv, Wired, NewsArrives
<1>5. CASE cur[c] # k
  <2>1. UNCHANGED client
    BY <1>1, <1>5 DEF Finish, client, IInv, TInv, ClientOK
  <2>2. \A d \in Clients : cur[d] # k
    BY <1>1, <1>5, RealtimeAssumption DEF IInv, Wired, SocketOK
  <2>3. ClientOK'
    BY <1>2, <2>1 DEF IInv, TInv, ClientOK, Apart, client
  <2>4. ASSUME NEW j \in Conns PROVE RecordOK(j)' /\ ServedOK(j)'
    BY <1>2, <2>1, ClosedRecord DEF IInv, Wired, RecordOK, ServedOK, client
  <2>5. ASSUME NEW d \in Clients PROVE SocketOK(d)'
    BY <1>2, <2>1, <2>2 DEF IInv, TInv, ClientOK, Wired, SocketOK, client
  <2>6. ASSUME NEW d \in Clients PROVE Heard(d)'
    BY <1>2, <2>1, <2>2
    DEF IInv, TInv, ClientOK, NewsArrives, Heard, Announced, Apart, server, client
  <2> QED
    BY <1>3, <2>3, <2>4, <2>5, <2>6 DEF IInv, TInv, Wired, NewsArrives
<1> QED
  BY <1>4, <1>5

\* A step of the browser alone changes no connection.
LEMMA BrowserStep ==
    ASSUME IInv, NEW c \in Clients,
           Activate(c) \/ Opened(c) \/ Reconnect(c) \/ NoticeLoss(c)
    PROVE  IInv'
<1>1. Apart /\ UNCHANGED <<conn, cur>>
  BY DEF Activate, Opened, Reconnect, NoticeLoss, Apart, client
<1>2. PICK S \in SUBSET {c} :
        /\ \/ FetchBy(S)
           \/ S = {} /\ UNCHANGED <<screen, missed>>
        /\ Opened(c) /\ recovery[c] /\ session[c] => c \in S
  BY DEF Activate, Opened, Reconnect, NoticeLoss
<1>3. /\ screen' \in [Clients -> Blank .. LastVersion] /\ missed' \in [Clients -> BOOLEAN]
      /\ \A d \in Clients : /\ screen'[d] <= version'
                            /\ d \in S => screen'[d] = version'
                            /\ d \notin S => screen'[d] = screen[d] /\ missed'[d] = missed[d]
  <2>1. CASE FetchBy(S)
    BY <1>1, <2>1, FetchEffect DEF IInv, TInv, ServerOK, Apart
  <2>2. CASE S = {} /\ UNCHANGED <<screen, missed>>
    BY <1>1, <2>2 DEF IInv, TInv, ClientOK, Apart
  <2> QED
    BY <1>2, <2>1, <2>2
<1>4. /\ sock' \in [Clients -> {"opening", "open", "lost", "timer"}]
      /\ recovery' \in [Clients -> BOOLEAN]
      /\ \A d \in Clients \ {c} : sock'[d] = sock[d] /\ recovery'[d] = recovery[d]
  BY DEF Activate, Opened, Reconnect, NoticeLoss, Recovers, client, IInv, TInv, ClientOK
<1>5. TInv'
  BY <1>1, <1>3, <1>4 DEF IInv, TInv, ServerOK, ConnOK, ClientOK, Apart, server
<1>6. Wired'
  <2>1. ASSUME NEW j \in Conns PROVE RecordOK(j)' /\ ServedOK(j)'
    BY <1>1 DEF IInv, Wired, RecordOK, ServedOK
  <2>2. SocketOK(c)'
    <3>1. CASE Activate(c)
      BY <1>1, <3>1 DEF Activate, client, IInv, Wired, SocketOK
    <3>2. CASE Opened(c)
      BY <1>1, <3>2 DEF Opened, IInv, TInv, ClientOK, Wired, SocketOK
    <3>3. CASE Reconnect(c)
      BY <1>1, <3>3 DEF Reconnect, IInv, TInv, ClientOK, Wired, SocketOK
    <3>4. CASE NoticeLoss(c)
      BY <1>1, <3>4 DEF NoticeLoss, Recovers, IInv, TInv, ClientOK, Wired, SocketOK
    <3> QED
      BY <3>1, <3>2, <3>3, <3>4
  <2>3. ASSUME NEW d \in Clients \ {c} PROVE SocketOK(d)'
    BY <1>1, <1>4 DEF IInv, Wired, SocketOK
  <2> QED
    BY <2>1, <2>2, <2>3 DEF Wired
<1>7. Places'
  BY <1>1 DEF IInv, Places, OnUser, Listed
<1>8. ASSUME NEW d \in Clients \ {c} PROVE Heard(d)'
  BY <1>1, <1>2, <1>3, <1>4, NewsKept DEF Apart, server
<1>9. Heard(c)'
  <2>1. CASE c \in S
    BY <1>3, <2>1 DEF Heard
  <2>2. CASE c \notin S /\ ~Opened(c) /\ ~NoticeLoss(c)
    <3>1. recovery' = recovery
      BY <2>2 DEF Activate, Reconnect, client
    <3> QED
      BY <1>1, <1>3, <2>2, <3>1, NewsKept DEF Apart, server
  <2>3. CASE c \notin S /\ Opened(c)
    <3>1. ~recovery[c] \/ ~session[c]
      BY <1>2, <2>3
    <3> QED
      BY <1>1, <1>3, <2>3, <3>1 DEF IInv, NewsArrives, Heard, Announced, Apart, server
  <2>4. CASE NoticeLoss(c)
    BY <1>1, <2>4 DEF NoticeLoss, Recovers, IInv, TInv, ClientOK, Heard
  <2> QED
    BY <2>1, <2>2, <2>3, <2>4
<1> QED
  BY <1>5, <1>6, <1>7, <1>8, <1>9 DEF IInv, NewsArrives

LEMMA VanishStep ==
    ASSUME IInv, NEW c \in Clients, Vanish(c)
    PROVE  IInv'
<1>1. PICK k \in Conns : k = cur[c] /\ conn[k].state = "open" /\ conn[k].of = c
  BY DEF Vanish, IInv, TInv, ClientOK, Wired, SocketOK
<1>2. /\ Apart /\ UNCHANGED <<recovery, screen, missed>>
      /\ sock' = [sock EXCEPT ![c] = "lost"] /\ cur' = [cur EXCEPT ![c] = None]
      /\ conn' = [conn EXCEPT ![k].state = "dead"]
      /\ conn \in [Conns -> ConnRec] /\ conn[k] \in ConnRec /\ Len(conn[k].queue) <= QueueMax
  BY <1>1 DEF Vanish, Apart, IInv, TInv, ConnOK
<1>3. PICK r \in ConnRec :
        /\ conn' = [conn EXCEPT ![k] = r] /\ Len(r.queue) <= QueueMax
        /\ r.state = "dead" /\ r.listed = conn[k].listed /\ r.of = conn[k].of
        /\ r.queue = conn[k].queue /\ r.code = conn[k].code
  <2> DEFINE r == [conn[k] EXCEPT !.state = "dead"]
  <2>1. conn' = [conn EXCEPT ![k] = r]
    BY <1>2
  <2>2. /\ r \in ConnRec /\ r.state = "dead" /\ r.listed = conn[k].listed
        /\ r.of = conn[k].of /\ r.queue = conn[k].queue /\ r.code = conn[k].code
    BY <1>2 DEF ConnRec
  <2> HIDE DEF r
  <2> QED
    BY <1>2, <2>1, <2>2
<1>4. ServerOK' /\ ConnOK' /\ Places'
  BY <1>2, <1>3, OneConnection
<1>5. ClientOK'
  BY <1>2 DEF IInv, TInv, ClientOK, Apart
<1>6. ASSUME NEW j \in Conns PROVE RecordOK(j)' /\ ServedOK(j)'
  <2>1. CASE j = k
    BY <1>1, <1>2, <1>3, <2>1 DEF RecordOK, ServedOK
  <2>2. CASE j # k
    <3>1. conn'[j] = conn[j]
      BY <1>2, <1>3, <2>2
    <3>2. conn[j].state \in {"resolved", "open"} => conn[j].of # c
      BY <1>1, <2>2 DEF IInv, Wired, ServedOK
    <3> QED
      BY <1>2, <3>1, <3>2 DEF IInv, TInv, ClientOK, Wired, RecordOK, ServedOK
  <2> QED
    BY <2>1, <2>2
<1>7. ASSUME NEW d \in Clients PROVE SocketOK(d)'
  BY <1>1, <1>2, <1>3 DEF IInv, TInv, ClientOK, Wired, SocketOK
<1>8. ASSUME NEW d \in Clients PROVE Heard(d)'
  <2>1. CASE d = c
    BY <1>2, <2>1 DEF Heard, IInv, TInv, ClientOK
  <2>2. CASE d # c
    <3>1. cur[d] # None => conn'[cur[d]] = conn[cur[d]]
      BY <1>1, <1>2, <1>3, <2>2 DEF IInv, TInv, ClientOK, Wired, SocketOK
    <3>2. cur'[d] = cur[d]
      BY <1>2, <2>2 DEF IInv, TInv, ClientOK
    <3> QED
      BY <1>2, <3>1, <3>2, NewsKept DEF Apart, server
  <2> QED
    BY <2>1, <2>2
<1> QED
  BY <1>4, <1>5, <1>6, <1>7, <1>8 DEF IInv, TInv, Wired, NewsArrives

LEMMA RevokeStep ==
    ASSUME IInv, NEW c \in Clients, Revoke(c)
    PROVE  IInv'
<1>1. /\ UNCHANGED <<version, pc, news, server, conn, client, screen, missed>>
      /\ session' = [session EXCEPT ![c] = FALSE]
  BY DEF Revoke
<1>2. TInv'
  BY <1>1 DEF IInv, TInv, ServerOK, ConnOK, ClientOK, server, client
<1>3. Wired' /\ Places'
  BY <1>1 DEF IInv, Wired, RecordOK, ServedOK, SocketOK, client, Places, OnUser, Listed
<1>4. NewsArrives'
  BY <1>1 DEF IInv, TInv, ClientOK, NewsArrives, Heard, Announced, server, client
<1> QED
  BY <1>2, <1>3, <1>4 DEF IInv

LEMMA RestartStep ==
    ASSUME IInv, RestartProcess
    PROVE  IInv'
<1>1. \A k \in Conns : conn'[k] = Closed
  BY DEF RestartProcess
<1>2. ServerOK'
  <2>1. handoff' \in Seq(1 .. LastVersion) /\ Len(handoff') <= HandoffMax
    <3>1. <<>> \in Seq(1 .. LastVersion) /\ Len(<<>>) = 0
      OBVIOUS
    <3> QED
      BY <3>1, RealtimeAssumption DEF RestartProcess
  <2>2. restarts' \in 0 .. MaxRestarts
    BY RealtimeAssumption DEF RestartProcess
  <2>3. {scheduled', wakeup'} \subseteq BOOLEAN /\ phase' = "top"
    BY Zenon DEF RestartProcess
  <2>4. /\ version' \in 0 .. LastVersion /\ news' \in [Writers -> 0 .. LastVersion]
        /\ pc' \in [Writers -> {"idle", "append", "wake"}]
        /\ \A w \in Writers : pc'[w] = "append" => news'[w] > 0
    BY DEF RestartProcess, IInv, TInv, ServerOK
  <2> QED
    BY <2>1, <2>2, <2>3, <2>4, Zenon DEF ServerOK
<1>3. ConnOK'
  BY ClosedRecord DEF RestartProcess, ConnOK
<1>4. ClientOK'
  BY DEF RestartProcess, IInv, TInv, ClientOK
<1>5. Wired'
  BY <1>1, ClosedRecord DEF RestartProcess, Wired, RecordOK, ServedOK, SocketOK, IInv, TInv, ClientOK
<1>6. NewsArrives'
  BY DEF RestartProcess, NewsArrives, Heard
<1>7. Places'
  BY <1>1, <1>3, ClosedRecord, PlacesKept DEF ConnOK
<1> QED
  BY <1>2, <1>3, <1>4, <1>5, <1>6, <1>7 DEF IInv, TInv

LEMMA StepInv == IInv /\ [Next]_vars => IInv'
<1> SUFFICES ASSUME IInv, [Next]_vars PROVE IInv'
  OBVIOUS
<1>1. CASE UNCHANGED vars
  BY <1>1 DEF vars, IInv, TInv, ServerOK, ConnOK, ClientOK, Wired, RecordOK, ServedOK, SocketOK,
              NewsArrives, Heard, Announced, Places, OnUser, Listed
<1>2. CASE \E w \in Writers : Commit(w) \/ EmitAppend(w) \/ EmitWake(w)
  BY <1>2, WriterStep
<1>3. CASE Dispatch \/ DispatchCrash
  BY <1>3, DispatchStep
<1>4. ASSUME NEW c \in Clients,
             \/ \E k \in Conns : Resolve(c, k)
             \/ Activate(c) \/ Opened(c) \/ Reconnect(c) \/ NoticeLoss(c)
             \/ Vanish(c) \/ Revoke(c)
      PROVE  IInv'
  BY <1>4, ResolveStep, BrowserStep, VanishStep, RevokeStep
<1>5. ASSUME NEW k \in Conns, Register(k) \/ SendPump(k) \/ Revalidate(k) \/ Finish(k)
      PROVE  IInv'
  BY <1>5, RegisterStep, SendPumpStep, RevalidateStep, FinishStep
<1>6. CASE RestartProcess
  BY <1>6, RestartStep
<1> QED
  BY <1>1, <1>2, <1>3, <1>4, <1>5, <1>6 DEF Next

LEMMA Invariant == Spec => []IInv
  BY InitInv, StepInv, PTL DEF Spec

-----------------------------------------------------------------------------
(* The theorems *)

\* A place on the list is never leaked and a user's places are never more than
\* the cap: register gives one only below it, and every way a connection leaves
\* the list or ends gives it back (realtime.py register, deregister, _fan_out).
THEOREM PlacesAreKept == Spec => []SlotsHold
<1>1. IInv => SlotsHold
  <2> SUFFICES ASSUME IInv PROVE SlotsHold
    OBVIOUS
  <2>1. TypeOK
    BY DEF IInv, TInv, ServerOK, ConnOK, ClientOK, ConnRec, TypeOK
  <2>2. NoLeakedSlot
    BY DEF IInv, Places, Wired, RecordOK, NoLeakedSlot, Listed
  <2> QED
    BY <2>1, <2>2 DEF SlotsHold
<1> QED
  BY <1>1, Invariant, PTL

\* A screen that is behind is going to hear of it, whatever the interleaving of
\* commits, dispatch, connections, crashes and restarts: the losses the design
\* accepts are the only ones.
THEOREM NoScreenIsForgotten == Spec => []NoSilentStaleness
<1>1. IInv => NoSilentStaleness
  <2> SUFFICES ASSUME IInv, NEW c \in Clients
               PROVE  screen[c] = version \/ Coming(c) \/ Excused(c)
    BY DEF NoSilentStaleness
  <2>1. CASE cur[c] # None /\ conn[cur[c]].state = "open"
    BY <2>1 DEF IInv, NewsArrives, Heard, Announced, Coming, Excused
  <2>2. CASE ~(cur[c] # None /\ conn[cur[c]].state = "open")
    <3>1. sock[c] \in {"opening", "lost", "timer"} /\ (sock[c] = "timer" => recovery[c])
      BY <2>2 DEF IInv, TInv, ClientOK, Wired, SocketOK
    <3> QED
      BY <3>1 DEF Coming, Excused
  <2> QED
    BY <2>1, <2>2
<1> QED
  BY <1>1, Invariant, PTL

\* The layer carries news and no data: every step of it is a commit, one screen's
\* fetch, or a change of what is excused, as Invalidation allows.  That the
\* fetches come is its fairness, which the runs check.
THEOREM OnlyNewsAndFetches == Spec => Promise!Init /\ [][Promise!Next]_(Promise!vars)
<1> DEFINE excuse == [c \in Clients |-> Excused(c)]
<1>1. excuse \in [Clients -> BOOLEAN] /\ excuse' \in [Clients -> BOOLEAN]
  BY Zenon DEF Excused
<1>2. Init => Promise!Init
  BY <1>1 DEF Init, Promise!Init, Blank
<1>3. IInv /\ [Next]_vars => [Promise!Next]_(Promise!vars)
  <2> SUFFICES ASSUME IInv, [Next]_vars PROVE [Promise!Next]_(Promise!vars)
    OBVIOUS
  <2> HIDE DEF excuse
  <2>1. CASE \E w \in Writers : Commit(w)
    <3>1. UNCHANGED <<session, client, missed, phase, screen>> /\ version < LastVersion
          /\ version' = version + 1
      BY <2>1 DEF Commit, server
    <3>2. excuse' = excuse
      BY <3>1 DEF excuse, Excused, client
    <3> QED
      BY <3>1, <3>2 DEF Promise!Next, Promise!Commit, excuse
  <2>2. ASSUME UNCHANGED <<version, screen>> PROVE [Promise!Next]_(Promise!vars)
    BY <1>1, <2>2 DEF Promise!Next, Promise!Excuse, excuse
  <2>3. ASSUME NEW c \in Clients, NEW S \in SUBSET {c}, FetchBy(S), UNCHANGED version
        PROVE  [Promise!Next]_(Promise!vars)
    <3>1. CASE c \in S
      <4>1. screen' = [screen EXCEPT ![c] = version]
        BY <2>3, <3>1 DEF FetchBy, IInv, TInv, ClientOK
      <4> QED
        BY <1>1, <2>3, <4>1 DEF Promise!Next, Promise!Fetch, excuse
    <3>2. CASE c \notin S
      <4>1. UNCHANGED screen
        BY <2>3, <3>2 DEF FetchBy, IInv, TInv, ClientOK
      <4> QED
        BY <2>2, <2>3, <4>1
    <3> QED
      BY <3>1, <3>2
  <2>4. CASE \E w \in Writers : EmitAppend(w) \/ EmitWake(w)
    BY <2>2, <2>4 DEF EmitAppend, EmitWake
  <2>5. CASE Dispatch \/ DispatchCrash \/ RestartProcess
    BY <2>2, <2>5 DEF Dispatch, WakeupSet, DispatchTop, DispatchWoken, FanOut, Drained,
                      DispatchCrash, RestartProcess
  <2>6. ASSUME NEW c \in Clients,
               \/ \E k \in Conns : Resolve(c, k)
               \/ Reconnect(c) \/ NoticeLoss(c) \/ Vanish(c) \/ Revoke(c)
        PROVE  [Promise!Next]_(Promise!vars)
    BY <2>2, <2>6 DEF Resolve, Reconnect, NoticeLoss, Vanish, Revoke
  <2>7. ASSUME NEW k \in Conns, Register(k) \/ Revalidate(k) \/ Finish(k)
        PROVE  [Promise!Next]_(Promise!vars)
    BY <2>2, <2>7 DEF Register, Revalidate, Finish
  <2>8. ASSUME NEW c \in Clients, Activate(c) \/ Opened(c)
        PROVE  [Promise!Next]_(Promise!vars)
    <3>1. PICK S \in SUBSET {c} : FetchBy(S)
      BY <2>8 DEF Activate, Opened
    <3> QED
      BY <2>3, <2>8, <3>1 DEF Activate, Opened
  <2>9. ASSUME NEW k \in Conns, SendPump(k)
        PROVE  [Promise!Next]_(Promise!vars)
    <3>1. conn[k].of \in Clients
      BY <2>9 DEF SendPump, IInv, Wired, RecordOK
    <3>2. PICK S \in SUBSET {conn[k].of} : FetchBy(S)
      BY <2>9 DEF SendPump
    <3> QED
      BY <2>3, <2>9, <3>1, <3>2 DEF SendPump
  <2>10. CASE UNCHANGED vars
    BY <2>2, <2>10 DEF vars
  <2> QED
    BY <2>1, <2>4, <2>5, <2>6, <2>7, <2>8, <2>9, <2>10 DEF Next
<1> QED
  BY <1>2, <1>3, Invariant, PTL DEF Spec

=============================================================================
